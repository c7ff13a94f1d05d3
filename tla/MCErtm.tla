------------------------------- MODULE MCErtm -------------------------------
(* Loads for the ERTM controllers: the segment counts of the SDUs that     *)
(* device A and device B are given.  Seven frames one way take the         *)
(* sequence numbers of MCErtm.cfg over the wrap.                           *)
EXTENDS ErtmController

Load(a, b) == [d \in Device |-> IF d = "A" THEN a ELSE b]
Ones(n) == [i \in 1..n |-> 1]

Mixed == {Load(Ones(4), <<>>), Load(Ones(3), Ones(1)), Load(Ones(2), Ones(2)),
          Load(<<2, 1>>, Ones(1)), Load(<<3>>, <<2>>), Load(Ones(7), <<>>)}
TwoLaps == {Load(<<64, 64>>, <<>>)}
Crossing == {Load(Ones(4), Ones(4))}
=============================================================================
