---------------------------- MODULE MCOidcSession ----------------------------
(* Two calls of a page beside refreshMe, over three sessions. *)
EXTENDS OidcSession, TLC

\* Calls of pages are identities.
Symmetric == Permutations(Requests)

=============================================================================
