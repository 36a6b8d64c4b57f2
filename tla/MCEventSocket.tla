--------------------------- MODULE MCEventSocket ---------------------------
(***************************************************************************)
(* Instances of the event server for TLC.                                  *)
(***************************************************************************)
EXTENDS EventSocket

CONSTANTS c1, c2

TwoClients == {c1, c2}
OneClient  == {c1}

=============================================================================
