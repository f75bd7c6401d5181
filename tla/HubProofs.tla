----------------------------- MODULE HubProofs -----------------------------
(***************************************************************************)
(* The hub never sends on a channel it has closed, for any clients and any *)
(* capacities of the channels.                                             *)
(***************************************************************************)
EXTENDS Hub, SequenceTheorems, TLAPS

(***************************************************************************)
(* The inductive invariant.  What makes the map safe is that each client   *)
(* registers once: a client whose channel is closed was taken out of the   *)
(* map, and no register is left that could put it back.  Its unregister    *)
(* may well be handled first, and may find no client.                      *)
(***************************************************************************)

\* A client that the handler has not enrolled yet is unknown to run.
UnknownBefore ==
  \A c \in Client : serve[c] # "returned" =>
    c \notin Range(register) /\ c \notin clients /\ ~closed[c]

RegisteredOnce ==
  /\ \A i, j \in 1 .. Len(register) : register[i] = register[j] => i = j
  /\ \A c \in Range(register) : c \notin clients

\* A closed channel belongs to a client that run is done with.
ClosedForGood == \A c \in Client : closed[c] => c \notin Range(register)

IInv == TypeOK /\ UnknownBefore /\ RegisteredOnce /\ ClosedForGood /\ NoSendOnClosed

-----------------------------------------------------------------------------
\* A channel is a sequence of bounded length.
LEMMA FromChannel ==
  ASSUME NEW cap \in Nat, NEW ch \in BoundedSeq(Client, cap)
  PROVE  ch \in Seq(Client) /\ Len(ch) \in 0 .. cap
<1>1. PICK m \in 0 .. cap : ch \in [1 .. m -> Client]
  BY DEF BoundedSeq, SeqOf
<1>2. ch \in Seq(Client) /\ DOMAIN ch = 1 .. m
  BY <1>1, SeqDef
<1> QED BY <1>1, <1>2, LenProperties

LEMMA ToChannel ==
  ASSUME NEW cap \in Nat, NEW ch \in Seq(Client), Len(ch) <= cap
  PROVE  ch \in BoundedSeq(Client, cap)
<1>1. Len(ch) \in 0 .. cap /\ ch \in [1 .. Len(ch) -> Client]
  BY LenProperties
<1> QED BY <1>1 DEF BoundedSeq, SeqOf

\* What run receives from a channel, and what is left in it.
LEMMA Receive ==
  ASSUME NEW cap \in Nat, NEW ch \in BoundedSeq(Client, cap), ch # <<>>
  PROVE  /\ Head(ch) \in Client /\ Head(ch) = ch[1]
         /\ 1 \in 1 .. Len(ch) /\ Len(ch) \in Nat
         /\ Tail(ch) \in BoundedSeq(Client, cap)
         /\ Len(Tail(ch)) = Len(ch) - 1
         /\ \A i \in 1 .. Len(ch) - 1 : Tail(ch)[i] = ch[i + 1]
<1>1. ch \in Seq(Client) /\ Len(ch) \in 0 .. cap
  BY FromChannel
<1>2. /\ Head(ch) \in Client /\ Tail(ch) \in Seq(Client)
      /\ Len(Tail(ch)) = Len(ch) - 1 /\ Len(ch) \in Nat \ {0}
      /\ \A i \in 1 .. Len(Tail(ch)) : Tail(ch)[i] = ch[i + 1]
  BY <1>1, HeadTailProperties, EmptySeq
<1>3. Tail(ch) \in BoundedSeq(Client, cap)
  <2>1. Tail(ch) \in Seq(Client) /\ Len(Tail(ch)) <= cap
    BY <1>1, <1>2
  <2> QED BY <2>1, ToChannel
<1>4. Head(ch) = ch[1]
  BY <1>1
<1> QED BY <1>2, <1>3, <1>4

\* A send on a channel that has room.
LEMMA SendRoom ==
  ASSUME NEW cap \in Nat, NEW ch \in BoundedSeq(Client, cap), Len(ch) < cap,
         NEW c \in Client
  PROVE  /\ Append(ch, c) \in BoundedSeq(Client, cap)
         /\ Len(Append(ch, c)) = Len(ch) + 1 /\ Len(ch) \in Nat
         /\ \A i \in 1 .. Len(ch) : Append(ch, c)[i] = ch[i]
         /\ Append(ch, c)[Len(ch) + 1] = c
<1>1. ch \in Seq(Client) /\ Len(ch) \in Nat
  BY FromChannel
<1>2. /\ Append(ch, c) \in Seq(Client) /\ Len(Append(ch, c)) = Len(ch) + 1
      /\ \A i \in 1 .. Len(ch) : Append(ch, c)[i] = ch[i]
      /\ Append(ch, c)[Len(ch) + 1] = c
  BY <1>1, AppendProperties
<1>3. Append(ch, c) \in BoundedSeq(Client, cap)
  <2>1. Append(ch, c) \in Seq(Client) /\ Len(Append(ch, c)) <= cap
    BY <1>1, <1>2
  <2> QED BY <2>1, ToChannel
<1> QED BY <1>1, <1>2, <1>3

LEMMA InChannel ==
  ASSUME NEW cap \in Nat, NEW ch \in BoundedSeq(Client, cap)
  PROVE  Range(ch) = {ch[i] : i \in 1 .. Len(ch)} /\ Range(ch) \subseteq Client
<1>1. ch \in Seq(Client)
  BY FromChannel
<1>2. Range(ch) = {ch[i] : i \in 1 .. Len(ch)}
  BY <1>1, RangeEquality
<1> QED BY <1>1, <1>2, ElementOfSeq

LEMMA InitInv == Init => IInv
<1> SUFFICES ASSUME Init PROVE IInv
  OBVIOUS
<1>1. <<>> \in BoundedSeq(Client, RegisterCap) /\ Range(<<>>) = {} /\ Len(<<>>) = 0
  <2>1. <<>> \in Seq(Client) /\ Len(<<>>) = 0 /\ RegisterCap \in Nat
    BY CapAssumption, EmptySeq
  <2>2. <<>> \in BoundedSeq(Client, RegisterCap)
    <3>1. Len(<<>>) <= RegisterCap
      BY <2>1
    <3> DEFINE ch == <<>>
    <3>2. ch \in Seq(Client) /\ Len(ch) <= RegisterCap
      BY <2>1, <3>1
    <3> HIDE DEF ch
    <3>3. ch \in BoundedSeq(Client, RegisterCap)
      BY <2>1, <3>2, ToChannel
    <3> QED BY <3>3 DEF ch
  <2>3. Range(<<>>) = {(<<>>)[i] : i \in 1 .. 0}
    BY <2>1, RangeEquality
  <2>4. 1 .. 0 = {}
    OBVIOUS
  <2> QED BY <2>1, <2>2, <2>3, <2>4
<1>2. TypeOK
  BY <1>1, CapAssumption DEF Init, TypeOK
<1> QED BY <1>1, <1>2 DEF Init, IInv, UnknownBefore, RegisteredOnce, ClosedForGood,
                          NoSendOnClosed

-----------------------------------------------------------------------------
(* The steps of run.                                                       *)

LEMMA RegisterInv ==
  ASSUME IInv, HubRegister
  PROVE  IInv'
<1> DEFINE c == Head(register)
<1>1. /\ register \in BoundedSeq(Client, RegisterCap) /\ RegisterCap \in Nat
      /\ register # <<>> /\ clients \subseteq Client /\ closed \in [Client -> BOOLEAN]
  BY CapAssumption DEF IInv, TypeOK, HubRegister
<1>2. /\ c \in Client /\ c = register[1] /\ 1 \in 1 .. Len(register)
      /\ register' \in BoundedSeq(Client, RegisterCap)
      /\ Len(register') = Len(register) - 1 /\ Len(register) \in Nat
      /\ \A i \in 1 .. Len(register) - 1 : register'[i] = register[i + 1]
  BY <1>1, Receive DEF HubRegister
<1>3. /\ clients' = clients \cup {c}
      /\ UNCHANGED <<unregister, broadcast, sending, closed, conn, serve, writer, reader,
                     publisher>>
  BY DEF HubRegister, queue, pumps
<1>4. /\ Range(register) = {register[i] : i \in 1 .. Len(register)}
      /\ Range(register)' = {register'[i] : i \in 1 .. Len(register')}
  BY <1>1, <1>2, InChannel
<1>5. /\ Range(register)' \subseteq Range(register)
      /\ c \in Range(register) /\ c \notin Range(register)'
  <2>1. \A i \in 1 .. Len(register) - 1 : i + 1 \in 1 .. Len(register) /\ i + 1 # 1
    BY <1>2
  <2> QED BY <1>2, <1>4, <2>1 DEF IInv, RegisteredOnce
<1>6. TypeOK'
  BY <1>1, <1>2, <1>3 DEF IInv, TypeOK
<1>7. UnknownBefore' /\ ClosedForGood' /\ NoSendOnClosed'
  BY <1>2, <1>3, <1>5 DEF IInv, UnknownBefore, ClosedForGood, NoSendOnClosed
<1>8. RegisteredOnce'
  <2>1. \A i, j \in 1 .. Len(register') : register'[i] = register'[j] => i = j
    <3> SUFFICES ASSUME NEW i \in 1 .. Len(register'), NEW j \in 1 .. Len(register'),
                        register'[i] = register'[j]
                 PROVE  i = j
      OBVIOUS
    <3>1. /\ i + 1 \in 1 .. Len(register) /\ j + 1 \in 1 .. Len(register)
          /\ register[i + 1] = register[j + 1]
      BY <1>2
    <3> QED BY <1>2, <3>1 DEF IInv, RegisteredOnce
  <2> QED BY <1>3, <1>5, <2>1 DEF IInv, RegisteredOnce
<1> QED BY <1>6, <1>7, <1>8 DEF IInv

\* A client whose channel is closed here is in the map, so that its register
\* has been handled, and no other is to come.
LEMMA UnregisterInv ==
  ASSUME IInv, HubUnregister
  PROVE  IInv'
<1> DEFINE c == Head(unregister)
<1>1. /\ unregister \in BoundedSeq(Client, RegisterCap) /\ RegisterCap \in Nat
      /\ unregister # <<>> /\ clients \subseteq Client /\ closed \in [Client -> BOOLEAN]
  BY CapAssumption DEF IInv, TypeOK, HubUnregister
<1>2. c \in Client /\ unregister' \in BoundedSeq(Client, RegisterCap)
  BY <1>1, Receive DEF HubUnregister
<1>3. /\ clients' = clients \ {c}
      /\ closed' = [closed EXCEPT ![c] = closed[c] \/ c \in clients]
      /\ UNCHANGED <<register, broadcast, sending, conn, serve, writer, reader, publisher>>
  BY DEF HubUnregister, pumps
<1>4. \A d \in Client : closed'[d] <=> closed[d] \/ (d = c /\ c \in clients)
  BY <1>1, <1>2, <1>3
<1>5. TypeOK'
  <2>1. closed' \in [Client -> BOOLEAN]
    BY <1>1, <1>3
  <2> QED BY <1>1, <1>2, <1>3, <2>1 DEF IInv, TypeOK
<1>6. UnknownBefore'
  BY <1>3, <1>4 DEF IInv, UnknownBefore
<1>7. RegisteredOnce'
  BY <1>3 DEF IInv, RegisteredOnce
<1>8. ClosedForGood'
  BY <1>3, <1>4 DEF IInv, ClosedForGood, RegisteredOnce
<1>9. NoSendOnClosed'
  BY <1>1, <1>3, <1>4 DEF IInv, NoSendOnClosed
<1> QED BY <1>5, <1>6, <1>7, <1>8, <1>9 DEF IInv

LEMMA BroadcastInv ==
  ASSUME IInv, HubBroadcast
  PROVE  IInv'
<1>1. /\ broadcast' = broadcast - 1 /\ broadcast > 0
      /\ UNCHANGED <<clients, register, unregister, closed, conn, serve, writer, reader,
                     publisher>>
  BY DEF HubBroadcast, pumps
<1>2. broadcast' \in 0 .. BroadcastCap
  BY <1>1, CapAssumption DEF IInv, TypeOK
<1>3. sending' \in [Client -> 0 .. SendCap]
  BY CapAssumption DEF HubBroadcast, IInv, TypeOK
<1> QED BY <1>1, <1>2, <1>3
        DEF IInv, TypeOK, UnknownBefore, RegisteredOnce, ClosedForGood, NoSendOnClosed

-----------------------------------------------------------------------------
(* The steps of a client and of the broadcast loop.                        *)

\* Only Enroll touches what the hub knows of a client.
LEMMA FrameInv ==
  ASSUME IInv, TypeOK', UNCHANGED <<clients, register, closed>>,
         \A c \in Client : serve'[c] # "returned" => serve[c] # "returned"
  PROVE  IInv'
BY DEF IInv, UnknownBefore, RegisteredOnce, ClosedForGood, NoSendOnClosed

LEMMA EnrollInv ==
  ASSUME IInv, NEW c \in Client, Enroll(c)
  PROVE  IInv'
<1>1. /\ register \in BoundedSeq(Client, RegisterCap) /\ RegisterCap \in Nat
      /\ Len(register) < RegisterCap /\ register' = Append(register, c)
      /\ serve[c] # "returned"
  BY CapAssumption DEF IInv, TypeOK, Enroll
<1>2. /\ register' \in BoundedSeq(Client, RegisterCap)
      /\ Len(register') = Len(register) + 1 /\ Len(register) \in Nat
      /\ \A i \in 1 .. Len(register) : register'[i] = register[i]
      /\ register'[Len(register) + 1] = c
  BY <1>1, SendRoom
<1>3. /\ serve' = [serve EXCEPT ![c] = "returned"]
      /\ writer' = [writer EXCEPT ![c] = "run"]
      /\ reader' = [reader EXCEPT ![c] = "run"]
      /\ UNCHANGED <<clients, unregister, broadcast, sending, closed, conn, publisher>>
  BY DEF Enroll, queue
<1>4. /\ Range(register) = {register[i] : i \in 1 .. Len(register)}
      /\ Range(register)' = {register'[i] : i \in 1 .. Len(register')}
  BY <1>1, <1>2, InChannel
<1>5. Range(register)' \subseteq Range(register) \cup {c}
  BY <1>2, <1>4
<1>6. c \notin Range(register) /\ c \notin clients /\ ~closed[c]
  BY <1>1 DEF IInv, UnknownBefore
<1>7. TypeOK'
  BY <1>2, <1>3 DEF IInv, TypeOK
<1>8. UnknownBefore'
  <2> SUFFICES ASSUME NEW d \in Client, serve'[d] # "returned"
               PROVE  d \notin Range(register)' /\ d \notin clients' /\ ~closed'[d]
    BY DEF UnknownBefore
  <2>1. d # c /\ serve[d] # "returned"
    BY <1>3 DEF IInv, TypeOK
  <2> QED BY <1>3, <1>5, <2>1 DEF IInv, UnknownBefore
<1>9. ClosedForGood' /\ NoSendOnClosed'
  BY <1>3, <1>5, <1>6 DEF IInv, ClosedForGood, NoSendOnClosed
<1>10. RegisteredOnce'
  <2>1. \A i \in 1 .. Len(register) : register[i] # c
    BY <1>4, <1>6
  <2>2. \A i, j \in 1 .. Len(register') : register'[i] = register'[j] => i = j
    <3> SUFFICES ASSUME NEW i \in 1 .. Len(register'), NEW j \in 1 .. Len(register'),
                        register'[i] = register'[j]
                 PROVE  i = j
      OBVIOUS
    <3>1. CASE i = Len(register) + 1 \/ j = Len(register) + 1
      BY <1>2, <2>1, <3>1
    <3>2. CASE i # Len(register) + 1 /\ j # Len(register) + 1
      <4>1. i \in 1 .. Len(register) /\ j \in 1 .. Len(register)
        BY <1>2, <3>2
      <4> QED BY <1>2, <4>1 DEF IInv, RegisteredOnce
    <3> QED BY <3>1, <3>2
  <2> QED BY <1>3, <1>5, <1>6, <2>2 DEF IInv, RegisteredOnce
<1> QED BY <1>7, <1>8, <1>9, <1>10 DEF IInv

LEMMA ClientInv ==
  ASSUME IInv, NEW c \in Client, Upgrade(c) \/ Pump(c)
  PROVE  IInv'
<1> USE DEF queue, channels, pumps, WriterEnds
<1>0. TypeOK
  BY DEF IInv
<1>1. CASE Upgrade(c)
  <2>1. TypeOK'
    BY <1>0, <1>1 DEF TypeOK, Upgrade
  <2> QED BY <1>0, <1>1, <2>1, FrameInv DEF TypeOK, Upgrade
<1>2. CASE Enroll(c)
  BY <1>2, EnrollInv
<1>3. CASE ReadFails(c)
  <2>1. TypeOK'
    BY <1>0, <1>3 DEF TypeOK, ReadFails
  <2> QED BY <1>3, <2>1, FrameInv DEF ReadFails
<1>4. CASE Leave(c)
  <2>1. unregister' \in BoundedSeq(Client, RegisterCap)
    BY <1>0, <1>4, CapAssumption, SendRoom DEF TypeOK, Leave
  <2>2. TypeOK'
    BY <1>0, <1>4, <2>1 DEF TypeOK, Leave
  <2> QED BY <1>4, <2>2, FrameInv DEF Leave
<1>5. CASE WriteFrame(c)
  <2>1. sending' \in [Client -> 0 .. SendCap]
    BY <1>0, <1>5, CapAssumption DEF TypeOK, WriteFrame
  <2>2. TypeOK'
    BY <1>0, <1>5, <2>1 DEF TypeOK, WriteFrame
  <2> QED BY <1>5, <2>2, FrameInv DEF WriteFrame
<1>6. CASE WriteClose(c) \/ PingFails(c)
  <2>1. TypeOK'
    BY <1>0, <1>6 DEF TypeOK, WriteClose, PingFails
  <2> QED BY <1>6, <2>1, FrameInv DEF WriteClose, PingFails
<1> QED BY <1>1, <1>2, <1>3, <1>4, <1>5, <1>6 DEF Pump

LEMMA LoopInv ==
  ASSUME IInv, LoopTick \/ Publish
  PROVE  IInv'
<1>1. TypeOK'
  BY CapAssumption DEF IInv, TypeOK, LoopTick, Publish, channels, queue, pumps
<1> QED BY <1>1, FrameInv DEF LoopTick, Publish, channels, queue, pumps

LEMMA HubInvariant == Spec => []IInv
<1>1. IInv /\ [Next]_vars => IInv'
  <2> SUFFICES ASSUME IInv, [Next]_vars PROVE IInv'
    OBVIOUS
  <2>1. CASE UNCHANGED vars
    <3>1. TypeOK'
      BY <2>1 DEF IInv, TypeOK, vars, channels, queue, pumps
    <3> QED BY <2>1, <3>1, FrameInv DEF vars, channels, queue, pumps
  <2>2. CASE Next
    BY <2>2, RegisterInv, UnregisterInv, BroadcastInv, ClientInv, LoopInv DEF Next, Run
  <2> QED BY <2>1, <2>2
<1> QED BY <1>1, InitInv, PTL DEF Spec

\* The channels stay within their capacities, and every goroutine is in one of
\* its states.
THEOREM HubTypeCorrect == Spec => []TypeOK
BY HubInvariant, PTL DEF IInv

\* run never sends on a channel it has closed, whatever the order in which it
\* receives the register and the unregister of a client (hub.go:55-72).
THEOREM NeverSendsOnClosed == Spec => []NoSendOnClosed
BY HubInvariant, PTL DEF IInv
=============================================================================
