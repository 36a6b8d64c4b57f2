------------------------------ MODULE MCSystem ------------------------------
(***************************************************************************)
(* tcp-info with its event server and one client.                          *)
(***************************************************************************)
EXTENDS MCTcpInfo, System

=============================================================================
