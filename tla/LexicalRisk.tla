----------------------------- MODULE LexicalRisk -----------------------------
(***************************************************************************)
(* The risk class without an elaborated pair: it follows from what git or  *)
(* the descriptor says of the changed declarations, and is never R0.       *)
(***************************************************************************)
EXTENDS Naturals, FiniteSetsExt

LexicalKinds == {"definition", "structure", "class", "instance", "abbrev"}

DeclaredRisk(d) ==
    IF d.foundational THEN 4
    ELSE IF \/ d.kind \in LexicalKinds /\ (d.signature \/ d.public)
            \/ d.kind = "theorem" /\ d.signature
    THEN 3
    ELSE IF d.public THEN 2 ELSE 1

\* "lake" is a changed Lake file, "toolchain" the changed lean-toolchain file.
LexicalRisk(changed, paths) ==
    IF changed = {}
    THEN IF paths \cap {"lean", "lake"} # {} THEN 4 ELSE 1
    ELSE IF paths \cap {"lake", "toolchain"} # {} THEN 4
         ELSE Max({1} \cup {DeclaredRisk(d) : d \in changed})

=============================================================================
