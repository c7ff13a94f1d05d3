------------------------ MODULE MCClassicConnections ------------------------
(* ClassicConnections on two addresses.                                     *)
EXTENDS ClassicConnections

CONSTANTS A, B
MCAddresses == {A, B}
=============================================================================
