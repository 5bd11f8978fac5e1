--------------------------- MODULE MCGoogleAccess ---------------------------
(***************************************************************************)
(* The instance of GoogleAccess for TLC.                                   *)
(***************************************************************************)
EXTENDS GoogleAccess, TLC

\* The requests of one kind are alike, and so are the credentials.
Symmetry ==
  Permutations(Candidates) \cup Permutations(Readers) \cup Permutations(Editors)

=============================================================================
