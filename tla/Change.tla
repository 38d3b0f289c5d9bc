-------------------------------- MODULE Change --------------------------------
(***************************************************************************)
(* A Lean project and what an author may change in it, to state what       *)
(* LeanSource and DeclarationDiff promise of any two versions of it.  The  *)
(* edits are not code of the repository: they enumerate the projects that  *)
(* the extractor, the diff and the graph are given.                        *)
(*                                                                         *)
(* The specification is named apart from those of other modules, so that   *)
(* one module can extend it and Compiler.                                  *)
(***************************************************************************)
EXTENDS LeanSource, DeclarationDiff

CONSTANTS
    Modules,        \* of the project: sequences of identifiers
    Written,        \* names as a declaration header writes them
    Identifiers,    \* names as a body mentions them
    Types, Values,  \* hashes of types and of values
    Project,        \* the version that is compared with
    Additions,      \* headers an author may add
    MaxEdits        \* bound for model checking

VARIABLES base, head, edits

changeVars == <<base, head, edits>>

Kinds == PublicTypeKinds \cup {"theorem"}

Headers ==
    [name : Written, kind : Kinds, private : BOOLEAN, mentions : Seq(Identifiers),
     type : Types \cup {Untyped}, value : Values]

Files == [imports : SUBSET Modules, headers : Seq(Headers)]

ASSUME ChangeAssumptions ==
    /\ IsFiniteSet(Modules)
    /\ Modules \subseteq Seq(STRING) \ {<<>>}
    /\ Written \subseteq Seq(STRING) \ {<<>>}
    /\ \A m \in Modules, n \in Written : FullName(m, n) \in Range(NameOrder)
    /\ Project \in [Modules -> Files]
    /\ Additions \subseteq Headers

(***************************************************************************)
(* The elaborated snapshot of a project, as the toolchain would report it. *)
(***************************************************************************)
Places(project) == UNION {{<<m, i>> : i \in DOMAIN project[m].headers} : m \in Modules}

At(project, place) == project[place[1]].headers[place[2]]

NameAt(project, place) == FullName(place[1], At(project, place).name)

NamesOf(project) == UNION {NamesIn(m, project[m]) : m \in Modules}

Elaborate(project) ==
    [decls |->
        [n \in NamesOf(project) |->
            LET h == At(project, CHOOSE place \in Places(project) : NameAt(project, place) = n)
            IN [kind |-> h.kind, type |-> h.type, value |-> h.value, attrs |-> {},
                vis |-> IF h.private THEN "private" ELSE "public",
                axioms |-> IF h.kind = "axiom" THEN {n} ELSE {}]],
     imports |-> UNION {{<<i, m>> : i \in project[m].imports} : m \in Modules}]

-----------------------------------------------------------------------------
Edit(m, file) ==
    /\ edits < MaxEdits
    /\ edits' = edits + 1
    /\ head' = [head EXCEPT ![m] = file]
    /\ UNCHANGED base

\* Another type or value, another visibility, an axiom for a proof or back.
Rewritten(h) ==
    {[h EXCEPT !.type = p[1], !.value = p[2]] : p \in Types \X Values}
    \cup {[h EXCEPT !.private = ~h.private],
          [h EXCEPT !.kind = IF h.kind = "axiom" THEN "theorem" ELSE "axiom"]}

Rewrite ==
    \E place \in Places(head) : \E new \in Rewritten(At(head, place)) :
        Edit(place[1], [head[place[1]] EXCEPT !.headers[place[2]] = new])

Rename ==
    \E place \in Places(head), n \in Written :
        /\ FullName(place[1], n) \notin NamesOf(head)
        /\ Edit(place[1], [head[place[1]] EXCEPT !.headers[place[2]].name = n])

Drop ==
    \E place \in Places(head) :
        Edit(place[1], [head[place[1]] EXCEPT !.headers = RemoveAt(@, place[2])])

Add ==
    \E m \in Modules, h \in Additions :
        /\ FullName(m, h.name) \notin NamesOf(head)
        /\ Edit(m, [head[m] EXCEPT !.headers = Append(@, h)])

Import ==
    \E m, i \in Modules :
        /\ i # m
        /\ Edit(m, [head[m] EXCEPT !.imports = IF i \in @ THEN @ \ {i} ELSE @ \cup {i}])

ChangeInit == base = Project /\ head = Project /\ edits = 0

ChangeNext == Rewrite \/ Rename \/ Drop \/ Add \/ Import

ChangeSpec == ChangeInit /\ [][ChangeNext]_changeVars

-----------------------------------------------------------------------------
(* See DiffAccountsForAll in DeclarationDiff: diff_extractions reports every
   difference of two snapshots, and each once. *)
DiffIsPartition == DiffAccountsForAll(Elaborate(base), Elaborate(head))

(* See StatementsKept in DeclarationDiff: a candidate of risk R0 keeps the names and
   the statements; it need not be a change of proofs only. *)
R0KeepsStatements ==
    DiffRisk(Elaborate(base), Elaborate(head), FALSE, FALSE) = 0
        => StatementsKept(Elaborate(base), Elaborate(head))

(* See ProofsOnly in DeclarationDiff: a candidate of risk R0 changes nothing but
   proofs of visible theorems.  The code lets more through: a few changed imports
   alone are R0 (classify_risk_from_diff). *)
R0IsProofOnly ==
    DiffRisk(Elaborate(base), Elaborate(head), FALSE, FALSE) = 0
        => ProofsOnly(Elaborate(base), Elaborate(head))

(***************************************************************************)
(* The lexical extractor does not follow a use into another file; that the *)
(* cone reaches whoever could be affected rests on the imports alone.  It  *)
(* holds for every declaration a diff names, in whatever order names are   *)
(* met, as long as every module on the way declares something by a name    *)
(* without a dot: a module that only re-exports, or declares only in other *)
(* namespaces, cuts the cone (build_dependency_graph).  So does a module   *)
(* that some declaration shares its name with, because the edges from a    *)
(* name that is declared are not kept as edges from an import              *)
(* (extract_repository).                                                   *)
(***************************************************************************)
Importers(m) == {n \in Modules : m \in head[n].imports}

Shadowed(m) == m \in NamesOf(head)

PassesOn(m) ==
    /\ ~Shadowed(m)
    /\ \E i \in DOMAIN head[m].headers : Len(head[m].headers[i].name) = 1

\* The least set that holds the importers of m and of those that pass on.
Affected(m) ==
    {n \in Modules :
        \A reached \in SUBSET Modules :
            /\ Importers(m) \subseteq reached
            /\ \A o \in reached : PassesOn(o) => Importers(o) \subseteq reached
            => n \in reached}

ImportersInCone ==
    \A order \in {NameOrder, Reverse(NameOrder)} :
        LET x == LexicalExtraction(head, order)
        IN \A place \in Places(head) :
               LET name    == At(head, place).name
                   changed == {[module |-> place[1], name |-> name]}
               IN Len(name) = 1 /\ name \notin Modules /\ ~Shadowed(place[1]) =>
                      \A m \in Affected(place[1]) : NamesIn(m, head[m]) \subseteq ConeOf(changed, x)

=============================================================================
