------------------------------ MODULE MCProcess ------------------------------
(* Two requests beside the loop, with a tick of five seconds: one that waits *)
(* at the verifier cache may be overtaken by another again and again.        *)
EXTENDS Process

=============================================================================
