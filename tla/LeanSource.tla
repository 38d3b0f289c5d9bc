------------------------------ MODULE LeanSource ------------------------------
(***************************************************************************)
(* What the lexical extractor sees of a Lean project, the dependency graph *)
(* built from an extraction, the names a change resolves to in it and its  *)
(* impact cone: extractor.py without its toolchain paths.                  *)
(*                                                                         *)
(* A name is a sequence of identifiers; the module of A/B.lean is          *)
(* <<"A", "B">>.  A project maps its modules to what their files hold: the *)
(* modules they import or open, and their declaration headers in order,    *)
(* each with the identifiers of its body.  An edge <<used, user>> points   *)
(* from a name to one that depends on it.                                  *)
(***************************************************************************)
EXTENDS Naturals, SequencesExt, FiniteSetsExt

\* A name without a dot belongs to the module of its file.
FullName(module, written) ==
    IF Len(written) > 1 THEN written ELSE module \o written

NamesIn(module, file) ==
    {FullName(module, file.headers[i].name) : i \in DOMAIN file.headers}

(***************************************************************************)
(* The declarations of its own file that a body uses.  An identifier       *)
(* stands for the name it spells or else for one with its last component,  *)
(* the first not used yet in the order in which a set of strings happens   *)
(* to be traversed.                                                        *)
(***************************************************************************)
Free(n, used, known, self) == n \in known \ (used \cup {self})

\* What is used once one more identifier has been read.
Use(used, ident, known, self, order) ==
    LET similar == {i \in DOMAIN order : /\ Last(order[i]) = Last(ident)
                                         /\ Free(order[i], used, known, self)}
    IN used \cup
       CASE ident = self -> {}
         [] ident # self /\ Free(ident, used, known, self) -> {ident}
         [] ident # self /\ ~Free(ident, used, known, self) ->
               {order[i] : i \in {j \in similar : \A k \in similar : j <= k}}

Uses(mentions, known, self, order) ==
    LET upTo[i \in 0 .. Len(mentions)] ==
            IF i = 0 THEN {} ELSE Use(upTo[i - 1], mentions[i], known, self, order)
    IN upTo[Len(mentions)]

\* A header line holds its own name, so the body mentions it first.
FileExtraction(module, file, order) ==
    LET full(i) == FullName(module, file.headers[i].name)
        headers == DOMAIN file.headers
        used(i) == Uses(<<file.headers[i].name>> \o file.headers[i].mentions,
                        NamesIn(module, file), full(i), order)
    IN [decls    |-> {[name |-> full(i), kind |-> file.headers[i].kind, module |-> module,
                       public |-> ~file.headers[i].private] : i \in headers},
        axioms   |-> {full(i) : i \in {j \in headers : file.headers[j].kind = "axiom"}},
        imports  |-> file.imports,
        outer    |-> file.imports \X NamesIn(module, file),
        uses     |-> UNION {{<<u, full(i)>> : u \in used(i)} : i \in headers},
        modules  |-> IF headers = {} THEN {} ELSE {<<m, module>> : m \in file.imports}]

DeclNames(extraction) == {d.name : d \in extraction.decls}

Within(edges, names) == {e \in edges : e[1] \in names /\ e[2] \in names}

(***************************************************************************)
(* The files of a project together.  An edge from a name that is declared  *)
(* in the project stays only if the second pass finds it in the file of    *)
(* its user, so what one file uses of another is left to their imports.    *)
(***************************************************************************)
LexicalExtraction(project, order) ==
    LET files == {FileExtraction(m, project[m], order) : m \in DOMAIN project}
        known == UNION {DeclNames(f) : f \in files}
        local == UNION {f.uses : f \in files}
        outer == {e \in UNION {f.outer : f \in files} : e[1] \notin known}
    IN [decls     |-> UNION {f.decls : f \in files},
        axioms    |-> UNION {f.axioms : f \in files},
        imports   |-> UNION {f.imports : f \in files},
        edges     |-> outer \cup local,
        declEdges |-> local,
        modules   |-> UNION {f.modules : f \in files}
                      \cup {<<e[1], Front(e[2])>> : e \in outer}]

ImportExpansion(before, after) == [added |-> after \ before, removed |-> before \ after]

\* The edges between declarations, those of the environment if there are any.
DeclarationEdges(x) ==
    IF x.declEdges # {} THEN x.declEdges ELSE Within(x.edges, DeclNames(x))

\* The declarations of a module, as their names tell.
DeclaredIn(module, names) == {n \in names : Len(n) > 1 /\ Front(n) = module}

\* Faulty variant of DependencyGraph: a module import is not expanded.
GraphUnexpanded(x) ==
    DeclarationEdges(x) \cup {e \in x.edges : e[2] \in DeclNames(x)}

(***************************************************************************)
(* Who is affected by a change of whom.  An edge from an imported module   *)
(* counts as one from every declaration of that module.                    *)
(***************************************************************************)
DependencyGraph(x) ==
    LET names == DeclNames(x)
        used  == {e \in x.edges : e[2] \in names}
    IN DeclarationEdges(x)
       \cup used
       \cup UNION {{<<n, e[2]>> : n \in DeclaredIn(e[1], names)} :
                      e \in {u \in used : u[1] \notin names}}

Downstream(graph, names) == {e[2] : e \in {d \in graph : d[1] \in names}}

\* One round of the walk: whoever depends on a seed or on what was reached.
Reach(graph, changed, reached) == reached \cup Downstream(graph, reached \cup changed)

ImpactCone(graph, changed) ==
    LET after[i \in 0 .. Cardinality(graph)] ==
            IF i = 0 THEN {} ELSE Reach(graph, changed, after[i - 1])
    IN after[Cardinality(graph)]

\* What the extraction can name: declarations and the ends of edges.
KnownNames(x) ==
    DeclNames(x) \cup UNION {{e[1], e[2]} : e \in x.edges \cup DeclarationEdges(x)}

(***************************************************************************)
(* The name a changed declaration of a diff has in an extraction: the name *)
(* itself, the name below the module of its file, the one known name that  *)
(* ends in it, and otherwise a guess nothing may match.                    *)
(***************************************************************************)
Resolve(decl, known) ==
    LET path    == decl.module \o decl.name
        matches == {n \in known : IsSuffix(decl.name, n)}
    IN IF decl.name \in known THEN decl.name
       ELSE IF decl.module # <<>> /\ path \in known THEN path
       ELSE IF Cardinality(matches) = 1 THEN CHOOSE n \in matches : TRUE
       ELSE path

ConeOf(changed, x) ==
    ImpactCone(DependencyGraph(x), {Resolve(d, KnownNames(x)) : d \in changed})

(***************************************************************************)
(* A toolchain artifact covers the modules it has declarations of or edges *)
(* between; a source module it misses makes it stale.                      *)
(***************************************************************************)
Covered(artifact) ==
    {d.module : d \in artifact.decls}
    \cup {Front(n) : n \in {m \in DeclNames(artifact) : Len(m) > 1}}
    \cup UNION {{e[1], e[2]} : e \in artifact.modules}

CoversSources(artifact, sources) == sources \subseteq Covered(artifact)

=============================================================================
