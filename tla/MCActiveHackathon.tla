-------------------------- MODULE MCActiveHackathon --------------------------
(***************************************************************************)
(* ActiveHackathon for TLC: small sets, given by the cfg files.            *)
(***************************************************************************)
EXTENDS ActiveHackathon, TLC

\* Requests, processes and users differ in nothing but their names (safety runs
\* only).
Symmetry == Permutations(Requests) \cup Permutations(Instances) \cup Permutations(Users)

=============================================================================
