---------------------------- MODULE MCStoreServer ----------------------------
(* Two clients of the storing echo server, for TLC. *)
EXTENDS StoreServer

\* The first client sends two units, the second one.
Units21 == <<2, 1>>
=============================================================================
