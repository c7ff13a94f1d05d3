--------------------------- MODULE CommandService ---------------------------
(***************************************************************************)
(* What the HCI layer promises the modules that enqueue commands: they are *)
(* answered one by one in the order in which they were enqueued, and none  *)
(* is left out; once the controller has failed some may be, but still none *)
(* is answered twice or after a later one.                                 *)
(***************************************************************************)
EXTENDS Naturals, Sequences

VARIABLES
  asked,      \* how many commands were enqueued; they are numbered from 1
  done,       \* the answers, in the order in which they were given
  state       \* "normal" or "failing"

vars == <<asked, done, state>>

Init == asked = 0 /\ done = <<>> /\ state = "normal"

Ask ==
  /\ asked' = asked + 1
  /\ UNCHANGED <<done, state>>

\* The first that has not been answered.
Answer ==
  /\ state = "normal"
  /\ Len(done) < asked
  /\ done' = Append(done, Len(done) + 1)
  /\ UNCHANGED <<asked, state>>

\* One that comes after all that were answered.
LateAnswer ==
  /\ state = "failing"
  /\ \E n \in 1..asked : (\A i \in DOMAIN done : done[i] < n) /\ done' = Append(done, n)
  /\ UNCHANGED <<asked, state>>

\* The answer to a request the service made itself when it failed.
OwnAnswer ==
  /\ state = "failing"
  /\ done' = Append(done, 0)
  /\ UNCHANGED <<asked, state>>

Fail ==
  /\ state' = "failing"
  /\ UNCHANGED <<asked, done>>

Next == Ask \/ Answer \/ LateAnswer \/ OwnAnswer \/ Fail

Spec == Init /\ [][Next]_vars
=============================================================================
