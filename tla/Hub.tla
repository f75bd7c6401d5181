-------------------------------- MODULE Hub --------------------------------
(***************************************************************************)
(* hub.Hub and web.BroadcastLoop: one goroutine, run, owns the set of      *)
(* clients and selects over three channels; per client a handler registers *)
(* it and starts a write pump and a read pump; the broadcast loop asks for *)
(* the number of clients and publishes a frame.  Frames are not told       *)
(* apart: a channel of frames is its length.                               *)
(***************************************************************************)
EXTENDS Naturals, Sequences, SequencesExt

CONSTANTS
  Client,
  RegisterCap,    (* capacity of register and of unregister, 16            *)
  BroadcastCap,   (* capacity of broadcast, 64                             *)
  SendCap         (* capacity of a client's send channel, 128              *)

ASSUME CapAssumption ==
  /\ RegisterCap \in Nat \ {0}
  /\ BroadcastCap \in Nat \ {0}
  /\ SendCap \in Nat \ {0}

VARIABLES
  clients,      (* Hub.clients                                             *)
  register,     (* the channels of run                                     *)
  unregister,
  broadcast,
  sending,      (* sending[c]: frames in c.send                            *)
  closed,       (* closed[c]: c.send is closed                             *)
  conn,         (* conn[c]: "none", "open" or "closed"                     *)
  serve,        (* serve[c]: the handler: "idle", "upgraded", "returned"   *)
  writer,       (* writer[c]: writePump: "none", "run", "done"             *)
  reader,       (* reader[c]: readPump: "none", "run", "leaving", "done"   *)
  publisher     (* BroadcastLoop: "wait", or "build" after it saw clients  *)

channels == <<register, unregister, broadcast>>
queue == <<sending, closed>>
pumps == <<conn, serve, writer, reader>>
vars == <<clients, channels, queue, pumps, publisher>>

TypeOK ==
  /\ clients \subseteq Client
  /\ register \in BoundedSeq(Client, RegisterCap)
  /\ unregister \in BoundedSeq(Client, RegisterCap)
  /\ broadcast \in 0 .. BroadcastCap
  /\ sending \in [Client -> 0 .. SendCap]
  /\ closed \in [Client -> BOOLEAN]
  /\ conn \in [Client -> {"none", "open", "closed"}]
  /\ serve \in [Client -> {"idle", "upgraded", "returned"}]
  /\ writer \in [Client -> {"none", "run", "done"}]
  /\ reader \in [Client -> {"none", "run", "leaving", "done"}]
  /\ publisher \in {"wait", "build"}

Init ==
  /\ clients = {} /\ register = <<>> /\ unregister = <<>> /\ broadcast = 0
  /\ sending = [c \in Client |-> 0] /\ closed = [c \in Client |-> FALSE]
  /\ conn = [c \in Client |-> "none"] /\ serve = [c \in Client |-> "idle"]
  /\ writer = [c \in Client |-> "none"] /\ reader = [c \in Client |-> "none"]
  /\ publisher = "wait"

-----------------------------------------------------------------------------
(* run                                                                     *)

HubRegister ==
  /\ register # <<>>
  /\ clients' = clients \cup {Head(register)}
  /\ register' = Tail(register)
  /\ UNCHANGED <<unregister, broadcast, queue, pumps, publisher>>

\* Slip: the channel is closed and the client stays in the map.
HubUnregisterKeep ==
  /\ unregister # <<>>
  /\ closed' = [closed EXCEPT ![Head(unregister)] =
       @ \/ Head(unregister) \in clients]
  /\ unregister' = Tail(unregister)
  /\ UNCHANGED <<clients, register, broadcast, sending, pumps, publisher>>

HubUnregister ==
  /\ unregister # <<>>
  /\ LET c == Head(unregister)
     IN  /\ clients' = clients \ {c}
         /\ closed' = [closed EXCEPT ![c] = @ \/ c \in clients]
  /\ unregister' = Tail(unregister)
  /\ UNCHANGED <<register, broadcast, sending, pumps, publisher>>

\* A frame for every client whose channel has room; the others miss it.
HubBroadcast ==
  /\ broadcast > 0
  /\ sending' = [c \in Client |->
       sending[c] + IF c \in clients /\ sending[c] < SendCap THEN 1 ELSE 0]
  /\ broadcast' = broadcast - 1
  /\ UNCHANGED <<clients, register, unregister, closed, pumps, publisher>>

-----------------------------------------------------------------------------
(* A client.                                                               *)

\* ServeWS up to the send on register.
Upgrade(c) ==
  /\ serve[c] = "idle"
  /\ serve' = [serve EXCEPT ![c] = "upgraded"]
  /\ conn' = [conn EXCEPT ![c] = "open"]
  /\ UNCHANGED <<clients, channels, queue, writer, reader, publisher>>

\* h.register <- c; go c.writePump(); go c.readPump()
Enroll(c) ==
  /\ serve[c] = "upgraded" /\ Len(register) < RegisterCap
  /\ register' = Append(register, c)
  /\ serve' = [serve EXCEPT ![c] = "returned"]
  /\ writer' = [writer EXCEPT ![c] = "run"]
  /\ reader' = [reader EXCEPT ![c] = "run"]
  /\ UNCHANGED <<clients, unregister, broadcast, queue, conn, publisher>>

\* ReadMessage fails: the peer closed, the read deadline passed, or our side
\* closed the connection.
ReadFails(c) ==
  /\ reader[c] = "run"
  /\ reader' = [reader EXCEPT ![c] = "leaving"]
  /\ UNCHANGED <<clients, channels, queue, conn, serve, writer, publisher>>

\* The deferred calls of readPump.
Leave(c) ==
  /\ reader[c] = "leaving" /\ Len(unregister) < RegisterCap
  /\ unregister' = Append(unregister, c)
  /\ reader' = [reader EXCEPT ![c] = "done"]
  /\ conn' = [conn EXCEPT ![c] = "closed"]
  /\ UNCHANGED <<clients, register, broadcast, queue, serve, writer, publisher>>

WriterEnds(c) ==
  /\ writer' = [writer EXCEPT ![c] = "done"]
  /\ conn' = [conn EXCEPT ![c] = "closed"]

\* case msg := <-c.send; a write to a closed connection fails.
WriteFrame(c) ==
  /\ writer[c] = "run" /\ sending[c] > 0
  /\ sending' = [sending EXCEPT ![c] = @ - 1]
  /\ \/ conn[c] = "open" /\ UNCHANGED <<writer, conn>>
     \/ WriterEnds(c)
  /\ UNCHANGED <<clients, channels, closed, serve, reader, publisher>>

\* The channel is closed and drained.
WriteClose(c) ==
  /\ writer[c] = "run" /\ closed[c] /\ sending[c] = 0
  /\ WriterEnds(c)
  /\ UNCHANGED <<clients, channels, queue, serve, reader, publisher>>

\* Slip: the error of a ping is ignored.
PingFailsUnnoticed(c) ==
  /\ writer[c] = "run"
  /\ UNCHANGED vars

\* A ping, every 30 seconds, cannot be written.
PingFails(c) ==
  /\ writer[c] = "run"
  /\ WriterEnds(c)
  /\ UNCHANGED <<clients, channels, queue, serve, reader, publisher>>

-----------------------------------------------------------------------------
(* web.BroadcastLoop                                                       *)

LoopTick ==
  /\ publisher = "wait"
  /\ publisher' = IF clients = {} THEN "wait" ELSE "build"
  /\ UNCHANGED <<clients, channels, queue, pumps>>

\* Slip: the send on broadcast is not bounded.
PublishUnbounded ==
  /\ publisher = "build"
  /\ publisher' = "wait"
  /\ broadcast' \in {broadcast, broadcast + 1}
  /\ UNCHANGED <<clients, register, unregister, queue, pumps>>

\* Broadcast: a full channel drops the frame, and so does a value that JSON
\* cannot express.
Publish ==
  /\ publisher = "build"
  /\ publisher' = "wait"
  /\ \/ UNCHANGED broadcast
     \/ broadcast < BroadcastCap /\ broadcast' = broadcast + 1
  /\ UNCHANGED <<clients, register, unregister, queue, pumps>>

\* Slip: the send to a client has no default case, so that a full channel
\* keeps run from going on.
RunBlocking ==
  /\ broadcast > 0 => \A c \in clients : sending[c] < SendCap
  /\ HubRegister \/ HubUnregister \/ HubBroadcast

Run == HubRegister \/ HubUnregister \/ HubBroadcast

Pump(c) ==
  \/ Enroll(c) \/ ReadFails(c) \/ Leave(c)
  \/ WriteFrame(c) \/ WriteClose(c) \/ PingFails(c)

Next == Run \/ LoopTick \/ Publish \/ \E c \in Client : Upgrade(c) \/ Pump(c)

Spec == Init /\ [][Next]_vars

\* select picks uniformly among ready cases, so a case that is ready again and
\* again is taken; a write has a deadline of ten seconds; on a connection that
\* this side has closed, the next read fails at once and so does the next ping.
FairSpec ==
  /\ Spec
  /\ SF_vars(Run /\ HubRegister)
  /\ SF_vars(Run /\ HubUnregister)
  /\ SF_vars(Run /\ HubBroadcast)
  /\ \A c \in Client :
       /\ SF_vars(Leave(c))
       /\ WF_vars(conn[c] = "closed" /\ ReadFails(c))
       /\ WF_vars(WriteFrame(c)) /\ WF_vars(WriteClose(c))
       /\ WF_vars(conn[c] = "closed" /\ PingFails(c))

-----------------------------------------------------------------------------
\* run never sends on a closed channel, which would end the agent: a client
\* whose channel it closed is not in the map, also when the register of a
\* client is handled after its unregister (hub.go:55-72).
NoSendOnClosed == \A c \in clients : ~closed[c]

\* Both pumps of a client end once its connection is closed, also those of a
\* client that left before it was registered: no goroutine is leaked.
PumpsEnd ==
  \A c \in Client :
    conn[c] = "closed" ~> (writer[c] = "done" /\ reader[c] = "done")

\* However slow or dead the clients are, run serves everyone who registers.
RegisterServed ==
  \A c \in Client : c \in Range(register) ~> c \in clients
=============================================================================
