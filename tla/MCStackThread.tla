--------------------------- MODULE MCStackThread ---------------------------
(* Two modules on the thread, one of which has an alarm.                    *)
EXTENDS StackThread

CONSTANTS h1, h2, a1
MCOwner == [a \in {a1} |-> h2]
MCStopOrder == <<h2, h1>>
=============================================================================
