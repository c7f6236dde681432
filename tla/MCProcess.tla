------------------------------ MODULE MCProcess ------------------------------
(* Small instances of ChProcess for TLC. *)
EXTENDS ChProcess

=============================================================================
