----------------------------- MODULE FileStream -----------------------------
(***************************************************************************)
(* What one connection of the file server promises, whatever the buffering *)
(* below it: the answer to a request is one error, or a header followed by *)
(* the bytes of the file in order, without gap or repetition, and by one   *)
(* completion that comes after the last byte and ends the stream.          *)
(* FileServer implements this specification.                               *)
(***************************************************************************)
EXTENDS Integers

CONSTANTS Connections,  \* the accepted connections
          FileSize      \* size of the requested file

VARIABLES phase,        \* phase[c]: where the answer on connection c stands
          progress      \* progress[c]: the file position the stream has reached

streamVars == <<phase, progress>>

StreamInit ==
  /\ phase = [c \in Connections |-> "idle"]
  /\ progress = [c \in Connections |-> 0]

(* The header: the stream starts at some position of the file.             *)
Open(c) ==
  /\ phase[c] = "idle"
  /\ phase' = [phase EXCEPT ![c] = "streaming"]
  /\ progress'[c] \in Nat
  /\ progress' = [progress EXCEPT ![c] = progress'[c]]

(* The file cannot be served; the error is the whole answer.               *)
Refuse(c) ==
  /\ phase[c] = "idle"
  /\ phase' = [phase EXCEPT ![c] = "failed"]
  /\ UNCHANGED progress

(* One or more consecutive pieces of the file.                             *)
Advance(c) ==
  /\ phase[c] = "streaming"
  /\ progress'[c] \in (progress[c] + 1)..FileSize
  /\ progress' = [progress EXCEPT ![c] = progress'[c]]
  /\ UNCHANGED phase

(* The completion, after the last byte.                                    *)
Complete(c) ==
  /\ phase[c] = "streaming"
  /\ progress[c] >= FileSize
  /\ phase' = [phase EXCEPT ![c] = "complete"]
  /\ UNCHANGED progress

StreamNext ==
  \E c \in Connections : Open(c) \/ Refuse(c) \/ Advance(c) \/ Complete(c)

StreamSpec == StreamInit /\ [][StreamNext]_streamVars
=============================================================================
