----------------------------- MODULE MCWorkspaces -----------------------------
(***************************************************************************)
(* Symmetry for model-checking Workspaces: processes run the same code and *)
(* contents are interchangeable.                                           *)
(***************************************************************************)
EXTENDS Workspaces, TLC

WorkspaceSymmetry == Permutations(Runs) \cup Permutations(Artifacts)

=============================================================================
