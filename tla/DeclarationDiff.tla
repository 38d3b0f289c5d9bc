--------------------------- MODULE DeclarationDiff ---------------------------
(***************************************************************************)
(* The comparison of two elaborated snapshots of a Lean project, and the   *)
(* risk class that follows from it: declaration_diff.py and risk.py.       *)
(*                                                                         *)
(* A snapshot maps the names it declares to their records and has the      *)
(* import edges between modules.  Hashes are values that can only be       *)
(* compared; Untyped stands for the empty type hash, which matches none.   *)
(***************************************************************************)
EXTENDS Naturals, FiniteSets, SequencesExt, FiniteSetsExt

CONSTANTS
    NameOrder,       \* the fully qualified names, in the order the code sorts them
    Foundational,    \* the names that carry a foundational hint
    Untyped

ASSUME NamesOrderedOnce ==
    /\ NameOrder \in Seq(Range(NameOrder))
    /\ \A i, j \in DOMAIN NameOrder : NameOrder[i] = NameOrder[j] => i = j

PublicTypeKinds ==
    {"definition", "instance", "structure", "class", "abbrev", "axiom", "inductive", "opaque"}

Visibilities == {"public", "protected", "private", "internal", "unknown"}

Declared(s) == DOMAIN s.decls

Gone(base, head) == Declared(base) \ Declared(head)

New(base, head) == Declared(head) \ Declared(base)

Shared(base, head) == Declared(base) \cap Declared(head)

(***************************************************************************)
(* A removed name is paired with an added one when exactly one added name, *)
(* not paired yet, has its kind and its type.                              *)
(***************************************************************************)
SameShape(old, new) ==
    /\ new.kind = old.kind
    /\ new.type = old.type
    /\ new.type # Untyped

\* Faulty variant of PairNames: an added name can be the target of two renames.
PairNamesTwice(base, head, pairs, old) ==
    LET targets == {n \in New(base, head) : SameShape(base.decls[old], head.decls[n])}
    IN IF Cardinality(targets) = 1
       THEN pairs \cup {<<old, n>> : n \in targets}
       ELSE pairs

PairNames(base, head, pairs, old) ==
    LET targets == {n \in New(base, head) : /\ SameShape(base.decls[old], head.decls[n])
                                            /\ n \notin {p[2] : p \in pairs}}
    IN IF Cardinality(targets) = 1
       THEN pairs \cup {<<old, n>> : n \in targets}
       ELSE pairs

\* The names that are gone, one after another.
Renames(base, head) ==
    LET upTo[i \in 0 .. Len(NameOrder)] ==
            IF i = 0 THEN {}
            ELSE IF NameOrder[i] \in Gone(base, head)
            THEN PairNames(base, head, upTo[i - 1], NameOrder[i])
            ELSE upTo[i - 1]
    IN upTo[Len(NameOrder)]

\* A change of value counts as body-only when the type is unchanged.
BodyOnly(old, new) == old.type = new.type /\ old.value # new.value

\* Every name that is at an end of a changed edge.
Ends(edges) == UNION {{e[1], e[2]} : e \in edges}

Differ(s, t) == (s \ t) \cup (t \ s)

Diff(base, head) ==
    LET renamed == Renames(base, head)
        where(Change(_, _)) ==
            {n \in Shared(base, head) : Change(base.decls[n], head.decls[n])}
    IN [renamed    |-> renamed,
        added      |-> New(base, head) \ {p[2] : p \in renamed},
        removed    |-> Gone(base, head) \ {p[1] : p \in renamed},
        type       |-> where(LAMBDA old, new : old.type # new.type),
        body       |-> where(BodyOnly),
        visibility |-> where(LAMBDA old, new : old.vis # new.vis),
        attributes |-> where(LAMBDA old, new : old.attrs # new.attrs),
        axioms     |-> where(LAMBDA old, new : old.axioms # new.axioms),
        imports    |-> Ends(Differ(base.imports, head.imports))]

\* The names a downstream walk starts from.
Seeds(diff) ==
    diff.added \cup diff.removed \cup diff.type \cup diff.body \cup diff.visibility
    \cup diff.attributes \cup diff.axioms \cup Ends(diff.renamed)

(***************************************************************************)
(* Risk classes are R0 to R4.  Every change contributes one, and the       *)
(* candidate has the highest.                                              *)
(***************************************************************************)
RemovalRisk(n, decl) ==
    IF n \in Foundational \/ decl.vis \in {"public", "protected", "unknown"} THEN 4 ELSE 2

TypeRisk(n) == IF n \in Foundational THEN 4 ELSE 3

AdditionRisk(n, decl) ==
    CASE n \in Foundational -> 4
      [] n \notin Foundational /\ decl.vis = "private" -> 1
      [] n \notin Foundational /\ decl.vis # "private" ->
            IF decl.kind \in PublicTypeKinds THEN 3 ELSE 2

\* Faulty variant of BodyRisk: any body change of a visible declaration is a proof.
BodyRiskAnyKind(decl) == IF decl.vis = "private" THEN 1 ELSE 0

BodyRisk(decl) == IF decl.vis # "private" /\ decl.kind = "theorem" THEN 0 ELSE 1

BroadImports == 8

Risks(base, head, diff) ==
    {0}
    \cup {RemovalRisk(n, base.decls[n]) : n \in diff.removed}
    \cup {TypeRisk(n) : n \in diff.type \cup diff.axioms}
    \cup {3 : n \in diff.visibility \cup diff.attributes}
    \cup {AdditionRisk(n, head.decls[n]) : n \in diff.added}
    \cup {BodyRisk(head.decls[n]) : n \in diff.body}
    \cup {2 : p \in diff.renamed}
    \cup IF Cardinality(diff.imports) >= BroadImports THEN {4} ELSE {}

\* A change of the Lake or toolchain files, or a cone over the threshold, is R4
\* whatever else changes.
DiffRisk(base, head, lakeChanged, broadCone) ==
    IF lakeChanged \/ broadCone THEN 4 ELSE Max(Risks(base, head, Diff(base, head)))

-----------------------------------------------------------------------------
(* Properties of the comparison of two snapshots *)

\* The reports that say a name came, went or was renamed.
Reported(diff) ==
    <<diff.added, diff.removed, {p[1] : p \in diff.renamed}, {p[2] : p \in diff.renamed}>>

(***************************************************************************)
(* The diff accounts for every difference once: a name on one side only is *)
(* an addition, a removal or one end of one rename, and never two of these *)
(* (the pairing in _rename_candidates is greedy); a name on both sides     *)
(* whose type, value, visibility, attributes or axioms differ is reported  *)
(* as such (diff_extractions).                                             *)
(***************************************************************************)
DiffAccountsForAll(base, head) ==
    LET diff == Diff(base, head)
        sides == Reported(diff)
    IN /\ \A i, j \in DOMAIN sides : i # j => sides[i] \cap sides[j] = {}
       /\ sides[1] \cup sides[4] = New(base, head)
       /\ sides[2] \cup sides[3] = Gone(base, head)
       /\ \A p, q \in diff.renamed : p # q => p[1] # q[1] /\ p[2] # q[2]
       /\ diff.type \cup diff.body \cup diff.visibility \cup diff.attributes \cup diff.axioms
            = {n \in Shared(base, head) :
                  \E f \in {"type", "value", "vis", "attrs", "axioms"} :
                      base.decls[n][f] # head.decls[n][f]}

(***************************************************************************)
(* Risk R0 lets a candidate pass without any review.  What the class makes *)
(* sure of (classify_risk_from_diff): no name comes, goes or is renamed;   *)
(* every declaration keeps its type, visibility, attributes and axioms; a  *)
(* body differs only where the declaration is a visible theorem now; and   *)
(* the changed import edges have fewer than BroadImports ends.  Not looked *)
(* at is the kind a declaration had before: a definition that has become a *)
(* theorem, with another body, is R0.                                      *)
(***************************************************************************)
StatementsKept(base, head) ==
    /\ Declared(base) = Declared(head)
    /\ \A n \in Declared(head) :
          LET old == base.decls[n]
              new == head.decls[n]
          IN /\ new = [old EXCEPT !.value = new.value, !.kind = new.kind]
             /\ new.value # old.value => new.kind = "theorem" /\ new.vis # "private"
    /\ Cardinality(Ends(Differ(base.imports, head.imports))) < BroadImports

(***************************************************************************)
(* What the engineering specification calls R0: a proof-only change under  *)
(* an unchanged trusted statement.                                         *)
(***************************************************************************)
ProofsOnly(base, head) ==
    /\ base.imports = head.imports
    /\ Declared(base) = Declared(head)
    /\ \A n \in Declared(head) :
          LET old == base.decls[n]
              new == head.decls[n]
          IN new # old => /\ old.kind = "theorem" /\ old.vis # "private"
                          /\ new = [old EXCEPT !.value = new.value]

=============================================================================
