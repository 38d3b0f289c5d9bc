---------------------------- MODULE LeanExtraction ----------------------------
(***************************************************************************)
(* Where the extraction of a Lean project comes from: an artifact on its   *)
(* disk, a run of its own lpe_extract target, the injected extractor, or   *)
(* the lexical stub.  toolchain.py, the adaptive part of extractor.py,     *)
(* generic.py and extract_pair.py.                                         *)
(*                                                                         *)
(* A project is a directory: the tree of its sources, whether it has a     *)
(* Lake file, declares the target and has a supported toolchain, how its   *)
(* modules can be found, and the artifacts stored in the two places the    *)
(* code looks at.  An artifact or result says who made it, what it claims, *)
(* and of which tree; the code never compares that tree with the project.  *)
(*                                                                         *)
(* Left out is LPE_LEAN_EXTRACTION_JSON, an environment variable that      *)
(* names another file for the first place.                                 *)
(***************************************************************************)
EXTENDS Naturals, Sequences, FiniteSetsExt

CONSTANTS None, Junk

\* A stored file is missing, unreadable, or an artifact.
IsStored(a) ==
    \/ a \in {None, Junk}
    \/ DOMAIN a = {"by", "complete", "errors", "v11", "of", "modules", "axiom"}

IsProject(p) ==
    /\ DOMAIN p = {"tree", "git", "lakefile", "declares", "supported", "layout", "stored"}
    /\ DOMAIN p.stored = 1 .. 2
    /\ \A i \in 1 .. 2 : IsStored(p.stored[i])

\* A result that only has errors.
Failed(by) ==
    [by |-> by, complete |-> FALSE, errors |-> TRUE, v11 |-> FALSE,
     of |-> None, modules |-> {}, axiom |-> "none"]

WithErrors(result) == [result EXCEPT !.errors = TRUE]

\* An artifact that misses a module of the project is reported, not trusted.
Stale(result) == [result EXCEPT !.complete = FALSE, !.errors = TRUE]

\* It claims to be whole, and nothing in it speaks against that.
Claims(a) == a.by = "toolchain" /\ a.complete /\ ~a.errors

Load(artifact) ==
    IF artifact = None THEN None
    ELSE IF artifact = Junk THEN Failed("regex")
    ELSE [artifact EXCEPT !.complete = Claims(artifact)]

ToolchainComplete(result) == result # None /\ Claims(result)

\* Every module of the sources is named by the artifact.
Covers(result, project) == project.tree.modules \subseteq result.modules

\* The lexical stub sees the axioms a project declares, not those it uses.
Lexical(project) ==
    [by |-> "regex", complete |-> FALSE, errors |-> FALSE, v11 |-> TRUE,
     of |-> project.tree, modules |-> project.tree.modules,
     axiom |-> IF project.tree.axiom = "declared" THEN "declared" ELSE "none"]

RequiresToolchain(project) ==
    \/ project.declares
    \/ \E i \in DOMAIN project.stored :
          /\ project.stored[i] \notin {None, Junk}
          /\ project.stored[i].v11 /\ project.stored[i].complete

-----------------------------------------------------------------------------
(***************************************************************************)
(* A run of the lpe_extract target.  It ends "ok", "failed", "raised" or   *)
(* with "no target", and writes "all", "incomplete" or "one module" of its *)
(* project, "junk", or "nothing", to the first place.  A run that ends     *)
(* well counts by what the file then holds, written by it or not.          *)
(***************************************************************************)
Artifact(tree, written) ==
    [by |-> "toolchain", complete |-> written # "incomplete", errors |-> FALSE, v11 |-> TRUE,
     of |-> tree, axiom |-> tree.axiom,
     modules |-> IF written = "one module" THEN {Min(tree.modules)} ELSE tree.modules]

AfterRun(project, run) ==
    CASE run.writes = "nothing" -> project
      [] run.writes = "junk"    -> [project EXCEPT !.stored[1] = Junk]
      [] OTHER -> [project EXCEPT !.stored[1] = Artifact(project.tree, run.writes)]

ResultOfRun(project, run, adaptive) ==
    IF run.ends = "ok" /\ project.stored[1] # None THEN Load(project.stored[1])
    ELSE IF run.ends = "no target" /\ adaptive THEN None
    ELSE Failed("toolchain")

\* The first stored artifact that may stand for a run.
Kept(project) ==
    LET usable == {i \in DOMAIN project.stored : ToolchainComplete(Load(project.stored[i]))}
    IN IF usable = {} THEN None ELSE Load(project.stored[Min(usable)])

CanRun(project, host, executor) ==
    /\ project.lakefile
    /\ host.custom \/ project.declares
    /\ executor # "none" \/ host.lake

LakeExtract(project, host, executor, run, force) ==
    IF ~force /\ Kept(project) # None THEN [result |-> Kept(project), project |-> project]
    ELSE IF ~CanRun(project, host, executor) THEN [result |-> None, project |-> project]
    ELSE LET after == AfterRun(project, run)
         IN [result  |-> ResultOfRun(after, run, executor = "none" /\ ~host.custom),
             project |-> after]

\* The artifact of a build that is to survive its snapshot.
Persisted(from, to) ==
    LET written == {i \in DOMAIN from.stored : from.stored[i] # None}
    IN IF written = {} THEN to ELSE [to EXCEPT !.stored[1] = from.stored[Min(written)]]

-----------------------------------------------------------------------------
(***************************************************************************)
(* The injected extractor: a driver package that requires the project by   *)
(* its path on the host, built and run in one directory.  The first thing  *)
(* that goes wrong is its result's error.                                  *)
(***************************************************************************)
\* A container sees the driver's directory and nothing else of the host.
SeesProject(executor) == executor # "docker"

Obstacles(project, host, executor, dry, run) ==
    << <<"UNSUPPORTED_TOOLCHAIN", ~project.supported>>,
       <<"MODULE_DISCOVERY_UNKNOWN", ~project.lakefile>>,
       <<"MODULE_DISCOVERY_AMBIGUOUS", project.layout = "ambiguous">>,
       <<"MODULE_DISCOVERY_UNKNOWN", project.layout = "empty">>,
       <<"LAKE_UNAVAILABLE", ~dry /\ executor = "none" /\ ~host.lake>>,
       <<"GENERIC_EXTRACT_BUILD_FAILED", ~dry /\ (~run.builds \/ ~SeesProject(executor))>>,
       <<"GENERIC_EXTRACT_RUN_FAILED", ~dry /\ run.ends # "ok">>,
       <<"GENERIC_EXTRACT_MISSING_ARTIFACT", ~dry /\ run.writes = "nothing">>,
       <<"GENERIC_EXTRACT_INVALID_JSON", ~dry /\ run.writes = "junk">> >>

Generic(project, host, executor, dry, run) ==
    LET met == SelectSeq(Obstacles(project, host, executor, dry, run), LAMBDA o : o[2])
    IN [error  |-> IF met = <<>> THEN None ELSE Head(met)[1],
        loaded |-> met = <<>> /\ ~dry,
        types  |-> met = <<>> /\ ~dry /\ run.writes # "incomplete",
        of     |-> project.tree]

\* What the injected extractor finds is complete only by its own name.
FromGeneric(v2, project) ==
    [by |-> "generic", complete |-> v2.types, errors |-> FALSE, v11 |-> TRUE,
     of |-> project.tree, modules |-> project.tree.modules, axiom |-> project.tree.axiom]

\* The base and the head are elaborated apart; only both together give a diff.
Pair(base, head, host, executor, dry, run) ==
    [base |-> Generic(base, host, executor, dry, run),
     head |-> Generic(head, host, executor, dry, run)]

Elaborated(pair) ==
    \A side \in {"base", "head"} : pair[side].loaded /\ pair[side].error = None

-----------------------------------------------------------------------------
(***************************************************************************)
(* The adaptive extractor.  The first stored artifact that has errors or   *)
(* is of the toolchain decides, unless it misses modules and can be made   *)
(* anew; then the injected extractor, the target, and the stub.            *)
(***************************************************************************)
Deciding(project) ==
    {i \in DOMAIN project.stored :
        LET loaded == Load(project.stored[i])
        IN loaded # None /\ (loaded.errors \/ loaded.by = "toolchain")}

PrefersGeneric(project, host) ==
    \/ host.prefer = "on"
    \/ host.prefer = "auto" /\ ~RequiresToolchain(project)

\* The stub stands in; for a project that needs a toolchain only as an error.
Fallback(project, errors) ==
    IF errors \/ RequiresToolchain(project)
    THEN WithErrors(Lexical(project)) ELSE Lexical(project)

Only(result, project) == [result |-> result, project |-> project]

\* A fresh run of the target, with the stub where it does not help.
FromTarget(project, host, run, earlier) ==
    LET lake == LakeExtract(project, host, "none", run, TRUE)
        got  == lake.result
    IN IF ToolchainComplete(got)
       THEN Only(IF Covers(got, lake.project) THEN got ELSE Stale(got), lake.project)
       ELSE Only(Fallback(lake.project, earlier \/ (got # None /\ got.errors)), lake.project)

\* An injected run that raises is noted, not reported as an error.
Reached(v2) == v2.error = "GENERIC_EXTRACT_RUN_FAILED"

Live(project, host, run) ==
    LET v2 == Generic(project, host, "none", FALSE, run)
    IN IF ~PrefersGeneric(project, host) THEN FromTarget(project, host, run, FALSE)
       ELSE IF ~project.lakefile THEN FromTarget(project, host, run, FALSE)
       ELSE IF v2.error = "UNSUPPORTED_TOOLCHAIN" THEN Only(Failed("regex"), project)
       ELSE IF v2.error = None THEN Only(FromGeneric(v2, project), project)
       ELSE FromTarget(project, host, run, ~(Reached(v2) /\ run.ends = "raised"))

\* Faulty variant of Adaptive: a stored artifact need not cover the sources.
AdaptiveTrusting(project, host, toolchain, run) ==
    LET live   == toolchain /\ host.lake
        loaded == Load(project.stored[Min(Deciding(project))])
    IN IF Deciding(project) # {}
       THEN IF loaded.errors THEN Only(Fallback(project, TRUE), project)
            ELSE Only(loaded, project)
       ELSE IF live THEN Live(project, host, run)
       ELSE Only(Fallback(project, FALSE), project)

Adaptive(project, host, toolchain, run) ==
    LET live   == toolchain /\ host.lake
        loaded == Load(project.stored[Min(Deciding(project))])
    IN IF Deciding(project) # {} /\ loaded.errors THEN Only(Fallback(project, TRUE), project)
       ELSE IF Deciding(project) # {} /\ Covers(loaded, project) THEN Only(loaded, project)
       ELSE IF Deciding(project) # {} /\ ~live THEN Only(Stale(loaded), project)
       ELSE IF live THEN Live(project, host, run)
       ELSE Only(Fallback(project, FALSE), project)

=============================================================================
