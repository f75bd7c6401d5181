---------------------------- MODULE PluginOutput ----------------------------
(***************************************************************************)
(* What plugin.Loader makes of the name of a file and of the lines it      *)
(* prints.  A line is the sequence of its fields, the first of them a      *)
(* sequence of characters, the second a value.                             *)
(***************************************************************************)
EXTENDS Naturals, SequencesExt

CONSTANTS
  Alnum,     (* letters and digits                                         *)
  Numbers    (* the fields that strconv.ParseFloat accepts                 *)

Extensions ==
  << <<".","s","h">>, <<".","p","y">>, <<".","r","b">>, <<".","p","l">>, <<".","j","s">>,
     <<".","l","u","a">>, <<".","e","x","e">>, <<".","b","i","n">> >>

TrimSuffix(s, x) == IF IsSuffix(x, s) THEN SubSeq(s, 1, Len(s) - Len(x)) ELSE s

\* One pass over the extensions, each stripped at most once.
pluginName(file) ==
  LET trimmed[k \in 0 .. Len(Extensions)] ==
        IF k = 0 THEN file ELSE TrimSuffix(trimmed[k - 1], Extensions[k])
      name == trimmed[Len(Extensions)]
  IN  [i \in DOMAIN name |-> IF name[i] \in Alnum \cup {"_"} THEN name[i] ELSE "_"]

isValidKey(s) == s # <<>> /\ Range(s) \subseteq Alnum \cup {"_", ".", "-"}

\* The line is neither empty nor a comment, and parseLine returns no error.
Accepted(line) ==
  /\ Len(line) >= 2
  /\ Head(Head(line)) # "#"
  /\ isValidKey(line[1]) /\ line[2] \in Numbers

MetricKey(file, line) == <<"plugin", ".">> \o pluginName(file) \o <<".">> \o line[1]
=============================================================================
