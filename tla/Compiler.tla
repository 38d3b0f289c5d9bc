------------------------------- MODULE Compiler -------------------------------
(***************************************************************************)
(* compile_evidence (evidence/compiler.py): one candidate becomes one      *)
(* evidence packet.  The compilation takes an executor, makes a snapshot,  *)
(* builds it, extracts its declarations, asks the providers and decides.   *)
(* It leaves two things behind: the packet, and the extraction artifact it *)
(* copies to the operator's directory, where the next compilation starts.  *)
(*                                                                         *)
(* The steps end where the code waits for a container or a process; the    *)
(* operator may meanwhile check another tree out.                          *)
(***************************************************************************)
EXTENDS LeanExtraction, LexicalRisk

CONSTANTS
    Trees,          \* sources of the project: [modules, axiom, sorry]
    Candidates,     \* [tree, patch, brings, changed, paths, obligations, elaborated]
    Hosts,          \* [lake, docker, policy, combined, paired, prefer, custom]
    Projects,       \* the operator's directory at first
    Requests,       \* [skip, sandbox, insecure, extraction, semantic]
    Runs,           \* how a run of the extraction ends: [ends, builds, writes]
    Encounters,     \* what the providers meet
    Obligations,    \* predeclared by the contract
    Denied,         \* changed paths the contract denies
    AutoAccept,     \* risk classes the contract lets pass without review
    MaxCompilations \* bound for model checking

\* A candidate may bring extraction artifacts: its commit has them, or its patch.
ASSUME CompilerAssumptions ==
    /\ \A p \in Projects : IsProject(p)
    /\ \A c \in Candidates : /\ DOMAIN c.brings = 1 .. 2
                             /\ \A i \in 1 .. 2 : IsStored(c.brings[i])

VARIABLES
    host,       \* the machine and its environment variables
    disk,       \* the operator's directory
    job,        \* the compilation under way
    packet,     \* the packet of the last compilation, None if it was refused
    count       \* compilations so far

vars == <<host, disk, job, packet, count>>

S == INSTANCE Sandbox
P == INSTANCE Providers
D == INSTANCE Decision

ASSUME NoneIsNoQuestion == None \notin D!AskedAbout \cup {"high-risk"}

Idle == [pc |-> "idle"]

Init ==
    /\ host \in Hosts
    /\ disk \in Projects
    /\ job = Idle
    /\ packet = None
    /\ count = 0

Kernel(check, status) == P!Finding(check, "kernel", status, "none", FALSE)

Repository(check, status) == P!Finding(check, "repository", status, "none", FALSE)

\* An exception leaves no packet.
Abort ==
    /\ job' = Idle
    /\ UNCHANGED <<host, disk, packet, count>>

-----------------------------------------------------------------------------
(* Before anything runs *)

\* A build outside a sandbox must be asked for twice, and the policy must allow it.
Refused(request) ==
    /\ ~request.skip
    /\ request.sandbox = "off"
    /\ ~request.insecure \/ S!Policy(host.policy) = "deny"

\* Forcing the sandbox takes the permission for the host back.
Insecure(request) == request.insecure /\ request.sandbox # "force"

Executor(request) ==
    IF request.skip
    THEN S!ExecutorWithoutBuild(S!Policy(host.policy), Insecure(request), host.docker)
    ELSE S!SelectExecutor(S!Policy(host.policy), Insecure(request), host.docker)

\* The patch is scanned, and the changed files as the operator has them now.
Placeholder(c) ==
    \/ c.patch /\ c.tree.sorry
    \/ "lean" \in c.paths /\ disk.tree.sorry

FirstFindings(c) ==
    {Repository("contract.valid", "PASS"),
     P!Finding("candidate.obligations", "downstream", "PASS", "none", FALSE),
     Repository("repository.changed_paths", IF c.paths \cap Denied = {} THEN "PASS" ELSE "FAIL"),
     Kernel("lean.placeholders", IF Placeholder(c) THEN "FAIL" ELSE "PASS")}

Submit(c, request) ==
    /\ job = Idle
    /\ count < MaxCompilations
    /\ count' = count + 1
    /\ packet' = None
    /\ IF \/ Refused(request)
          \/ ~(c.obligations \subseteq Obligations)
          \/ Executor(request) = None
       THEN UNCHANGED job
       ELSE job' = [pc |-> "stage", candidate |-> c, request |-> request,
                    executor |-> Executor(request), findings |-> FirstFindings(c),
                    snapshot |-> disk, staged |-> disk.stored,
                    built |-> FALSE, pending |-> None]
    /\ UNCHANGED <<host, disk>>

(***************************************************************************)
(* A git repository gives a worktree of the commit, with the artifacts     *)
(* that are committed and no others; a patch must apply.  Any other        *)
(* directory is copied, artifacts included, and a patch that does not      *)
(* apply is dropped.                                                       *)
(***************************************************************************)
Patched(stored, brings) ==
    [i \in 1 .. 2 |-> IF brings[i] = None THEN stored[i] ELSE brings[i]]

Snapshots ==
    LET c       == job.candidate
        copy    == [tree |-> disk.tree, stored |-> disk.stored]
        patched == [tree |-> c.tree, stored |-> Patched(disk.stored, c.brings)]
    IN IF disk.git THEN {[tree |-> c.tree, stored |-> c.brings]}
       ELSE IF c.patch THEN {copy, patched} ELSE {copy}

Stage ==
    /\ job.pc = "stage"
    /\ \E s \in Snapshots :
           job' = [job EXCEPT !.pc = "build", !.staged = s.stored,
                              !.snapshot = [disk EXCEPT !.tree = s.tree, !.stored = s.stored]]
    /\ UNCHANGED <<host, disk, packet, count>>

PatchRejected ==
    /\ job.pc = "stage"
    /\ disk.git /\ job.candidate.patch
    /\ Abort

-----------------------------------------------------------------------------
(* The build *)

Extracting == job.request.extraction /\ job.candidate.paths # {}

Combines ==
    /\ job.executor.backend = "docker"
    /\ host.combined /\ ~host.custom
    /\ Extracting
    /\ job.snapshot.declares

SkipBuild ==
    /\ job.pc = "build"
    /\ job.request.skip
    /\ job' = [job EXCEPT !.pc = "extract",
                          !.findings = @ \cup {Kernel("lean.build", "UNKNOWN")}]
    /\ UNCHANGED <<host, disk, packet, count>>

Built(ok) == Kernel("lean.build", IF ok THEN "PASS" ELSE "FAIL")

(***************************************************************************)
(* One container builds and extracts.  The host learns from the exit code  *)
(* and the mark on stderr how far it came, and loads what is then stored.  *)
(***************************************************************************)
CombinedBuild(exit, ends, verbose, run) ==
    LET script == S!Script(exit, IF run.ends = "ok" THEN 0 ELSE 1)
        result == S!Reported(script, ends, verbose)
        ran    == exit = 0 /\ ends = "exits"
        after  == IF ran THEN AfterRun(job.snapshot, run) ELSE job.snapshot
        said   == [run EXCEPT !.ends = S!ExtractEnds(result)]
    IN /\ job.pc = "build"
       /\ ~job.request.skip /\ Combines
       /\ job' = [job EXCEPT !.pc = "extract", !.snapshot = after, !.built = TRUE,
                             !.findings = @ \cup {Built(S!BuildOk(result))},
                             !.pending = IF S!BuildOk(result) THEN ResultOfRun(after, said, FALSE)
                                         ELSE Failed("toolchain")]
       /\ UNCHANGED <<host, disk, packet, count>>

PlainBuild(exit, ends) ==
    LET result == S!Reported(S!Script(exit, 0), ends, TRUE)
    IN /\ job.pc = "build"
       /\ ~job.request.skip /\ ~Combines
       /\ job.executor.backend = "host" => host.lake /\ ends # "no container"
       /\ job' = [job EXCEPT !.pc = "extract", !.built = TRUE,
                             !.findings = @ \cup {Built(result.exit = 0)}]
       /\ UNCHANGED <<host, disk, packet, count>>

\* The host executor does not catch that there is no Lake to run.
NoLake ==
    /\ job.pc = "build"
    /\ ~job.request.skip
    /\ job.executor.backend = "host" /\ ~host.lake
    /\ Abort

-----------------------------------------------------------------------------
(* The extraction *)

\* Faulty variant of Sequential: the operator's directory is extracted.
SequentialOfDisk(run) ==
    LET lake == LakeExtract(disk, host, job.executor.backend, run, FALSE)
    IN IF lake.result # None /\ lake.result.errors THEN Only(lake.result, job.snapshot)
       ELSE Only(Adaptive(lake.project, host, job.executor.backend = "host", run).result,
                 job.snapshot)

\* After a plain build the same executor extracts, then whatever else there is.
Sequential(run) ==
    LET lake == LakeExtract(job.snapshot, host, job.executor.backend, run, FALSE)
    IN IF lake.result # None /\ lake.result.errors THEN lake
       ELSE Adaptive(lake.project, host, job.executor.backend = "host", run)

Extraction(run) ==
    IF ~Extracting THEN Only(None, job.snapshot)
    ELSE IF ~job.built THEN Adaptive(job.snapshot, host, TRUE, run)
    ELSE IF job.pending = None THEN Sequential(run)
    ELSE IF ToolchainComplete(job.pending) THEN Adaptive(job.snapshot, host, FALSE, run)
    ELSE Only(job.pending, job.snapshot)

Prohibited(x) == x.axiom # "none"

AxiomStatus(x) ==
    IF x = None \/ x.errors THEN "UNKNOWN"
    ELSE IF Prohibited(x) THEN "FAIL"
    ELSE IF ToolchainComplete(x) THEN "PASS"
    ELSE "UNKNOWN"

ImpactStatus(x) ==
    IF job.candidate.changed = {} THEN "NOT_APPLICABLE"
    ELSE IF ToolchainComplete(x) THEN "PASS" ELSE "UNKNOWN"

\* A result without imports has none to report, whatever went wrong.
ImportStatus(x) ==
    IF x.of = None THEN "NOT_APPLICABLE"
    ELSE IF ToolchainComplete(x) THEN "PASS" ELSE "UNKNOWN"

ExtractionFindings(x) ==
    {Kernel("execution.isolation", S!IsolationStatus(job.executor, job.built)),
     Kernel("lean.prohibited_axioms", AxiomStatus(x))}
    \cup IF x = None THEN {}
         ELSE {Kernel("lean.impact_cone", ImpactStatus(x)),
               Repository("lean.import_expansion", ImportStatus(x))}

\* A complete extraction survives the snapshot in the operator's directory.
Extract(run) ==
    /\ job.pc = "extract"
    /\ LET got == Extraction(run)
       IN /\ job' = [job EXCEPT !.pc = "conclude", !.pending = got.result,
                                !.snapshot = got.project,
                                !.findings = @ \cup ExtractionFindings(got.result)]
          /\ disk' = IF ToolchainComplete(got.result) THEN Persisted(got.project, disk) ELSE disk
    /\ UNCHANGED <<host, packet, count>>

-----------------------------------------------------------------------------
(* Risk, providers and decision *)

\* The base and the head are elaborated only if the environment asks for it.
PairRaises == job.request.extraction /\ host.paired /\ job.executor.backend = "host" /\ ~host.lake

DiffAvailable(run) ==
    /\ job.request.extraction
    /\ ~PairRaises
    /\ Elaborated(Pair(disk, job.snapshot, host, job.executor.backend, ~host.paired, run))

Risk(run) ==
    IF DiffAvailable(run) THEN job.candidate.elaborated
    ELSE LexicalRisk(job.candidate.changed, job.candidate.paths)

LakeCapable == host.lake /\ job.snapshot.lakefile

ProviderFindings(met, run) ==
    LET c == job.candidate
        x == IF job.pending = None THEN Adaptive(job.snapshot, host, TRUE, run).result
             ELSE job.pending
    IN {P!StatementDiff(c, x, met.statement),
        P!Duplicates(c, x, met.duplicates),
        P!Replacement(c, x, LakeCapable, met.replacement),
        P!Fixtures("examples", c, LakeCapable, met.examples),
        P!Fixtures("counterexamples", c, LakeCapable, met.counterexamples),
        P!Successors(c, met.successors)}

\* Without the providers, a changed signature is left to review.
WithoutProviders ==
    {P!Finding("semantic.intent_fidelity", "semantic",
               IF P!Signed(job.candidate) = {} THEN "NOT_APPLICABLE" ELSE "UNKNOWN", "none", FALSE)}

AllFindings(met, run, risk) ==
    D!Synthesis(
        job.findings
        \cup (IF PairRaises
              THEN {P!Finding("lean.paired_extract", "uncertainty", "UNKNOWN", "none", FALSE)}
              ELSE {})
        \cup (IF job.request.semantic THEN ProviderFindings(met, run) ELSE WithoutProviders),
        P!Public(job.candidate), risk)

Eligible(risk) == risk \in AutoAccept /\ ~S!BlocksAutoAccept(job.executor)

Packet(findings, risk) ==
    LET decision == D!Decide(findings, risk, Eligible(risk))
    IN [recommendation |-> decision.recommendation,
        passed   |-> decision.passed,
        question |-> IF decision.recommendation = "ESCALATE"
                     THEN D!ReviewQuestion(findings, risk) ELSE None,
        risk     |-> risk,
        status   |-> {<<f.check, f.status>> : f \in {g \in findings : g.check \in D!HARD_FAIL_CHECKS}},
        open     |-> {f.status : f \in findings} \cap {"UNKNOWN", "WARN", "FAIL"},
        candidate |-> job.candidate,
        executor |-> job.executor,
        tree     |-> job.snapshot.tree,
        staged   |-> job.staged,
        evidence |-> job.pending]

\* The providers extract for themselves only where the compilation did not.
ExtractsAgain == host.paired \/ (job.request.semantic /\ job.pending = None)

Conclude(met, run) ==
    /\ job.pc = "conclude"
    /\ packet' = Packet(AllFindings(met, run, Risk(run)), Risk(run))
    /\ job' = Idle
    /\ UNCHANGED <<host, disk, count>>

-----------------------------------------------------------------------------
Checkout ==
    /\ \E tree \in Trees : tree # disk.tree /\ disk' = [disk EXCEPT !.tree = tree]
    /\ UNCHANGED <<host, job, packet, count>>

Build ==
    \/ SkipBuild
    \/ NoLake
    \/ \E exit \in {0, 1}, ends \in {"exits", "times out", "no container"} :
          \/ PlainBuild(exit, ends)
          \/ \E verbose \in BOOLEAN, run \in Runs : CombinedBuild(exit, ends, verbose, run)

Compile ==
    \/ Stage \/ PatchRejected
    \/ Build
    \/ \E run \in Runs : Extract(run)
    \/ /\ job.pc = "conclude"
       /\ \E met \in IF job.request.semantic THEN Encounters ELSE {None},
             run \in IF ExtractsAgain THEN Runs ELSE {None} : Conclude(met, run)

Next ==
    \/ \E c \in Candidates, request \in Requests : Submit(c, request)
    \/ Compile
    \/ Checkout

Spec == Init /\ [][Next]_vars

-----------------------------------------------------------------------------
Decided == packet # None

\* Evidence of the accepted tree, or an artifact that lay in its snapshot from the
\* start, of whatever tree: copied from the operator's directory, committed, or
\* added by the patch.
OfSnapshot(evidence) ==
    \/ evidence.of = packet.tree
    \/ \E i \in DOMAIN packet.staged : evidence = Load(packet.staged[i])

(***************************************************************************)
(* A candidate that is accepted without a person was built in an isolated  *)
(* container of a pinned image; the evidence for it claims to be the       *)
(* toolchain's and whole, names every module of the accepted tree and no   *)
(* prohibited axiom, and is of that tree or lay in its snapshot already;   *)
(* no finding is UNKNOWN, the risk class is low and the contract allows it *)
(* (compile_evidence and all it calls).                                    *)
(***************************************************************************)
AcceptIsEarned ==
    Decided /\ packet.recommendation = "ACCEPT" =>
        /\ packet.executor.backend = "docker"
        /\ packet.executor.isolated /\ packet.executor.digest
        /\ ToolchainComplete(packet.evidence)
        /\ packet.tree.modules \subseteq packet.evidence.modules
        /\ ~Prohibited(packet.evidence)
        /\ OfSnapshot(packet.evidence)
        /\ "UNKNOWN" \notin packet.open
        /\ packet.risk \in AutoAccept /\ packet.risk < 3

(***************************************************************************)
(* The gate is passed only with a PASS of each of the six hard checks: no  *)
(* way through a compilation forgets one, and none is left unresolved      *)
(* (HARD_FAIL_CHECKS in gates.py, the findings of compiler.py).            *)
(***************************************************************************)
HardGateIsComplete ==
    Decided /\ packet.passed =>
        packet.status = {<<check, "PASS">> : check \in D!HARD_FAIL_CHECKS}

(***************************************************************************)
(* Evidence that counts as complete is of the snapshot, or is an artifact  *)
(* the snapshot came with: copied from the operator's directory, committed *)
(* or added by the patch.  The operator's directory itself is never        *)
(* extracted, whatever was checked out there meanwhile (build_repo in      *)
(* compile_evidence).                                                      *)
(***************************************************************************)
EvidenceIsOfSnapshot ==
    Decided /\ ToolchainComplete(packet.evidence) => OfSnapshot(packet.evidence)

(***************************************************************************)
(* An escalation asks a reviewer nothing only when everything was found to *)
(* be in order and it is the contract or the executor that does not let    *)
(* the candidate pass alone (decide and select_review_question).           *)
(***************************************************************************)
EscalationAsks ==
    Decided /\ packet.recommendation = "ESCALATE" =>
        (packet.question = None
            <=> /\ packet.open \cap {"UNKNOWN", "WARN"} = {}
                /\ packet.risk < 3
                /\ packet.risk \notin AutoAccept \/ S!BlocksAutoAccept(packet.executor))

(***************************************************************************)
(* A build on the host needs the contract's policy and the caller's word,  *)
(* whichever of the sandbox options came with it (compile_evidence and     *)
(* select_executor).                                                       *)
(***************************************************************************)
HostBuildIsAsked ==
    job # Idle /\ job.built /\ job.executor.backend = "host" =>
        /\ host.policy = "allow"
        /\ job.request.insecure /\ job.request.sandbox # "force"
        /\ ~job.request.skip

(***************************************************************************)
(* "never silent PASS on a stale ``complete``" (extractor.py): a candidate *)
(* passes the axiom check only for its own sources.                        *)
(***************************************************************************)
NoStalePass ==
    Decided /\ <<"lean.prohibited_axioms", "PASS">> \in packet.status =>
        packet.evidence.of = packet.tree

=============================================================================
