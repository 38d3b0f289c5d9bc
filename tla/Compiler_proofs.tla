---------------------------- MODULE Compiler_proofs ----------------------------
(***************************************************************************)
(* Theorems about Compiler, for any candidates, hosts, projects, requests, *)
(* runs and encounters of the providers; and about Change, what the        *)
(* compiler is told of two versions of a project: the diff, the risk class *)
(* and the impact cone, for any modules, names, edits and orders of names. *)
(***************************************************************************)
EXTENDS Compiler, Change, SequenceTheorems, FiniteSetTheorems, WellFoundedInduction, TLAPS

-----------------------------------------------------------------------------
(* Stored artifacts and what a project makes of them *)

\* What lies in a project was staged with it, or a run of its own wrote it.
FromStage(p, staged) ==
    /\ IsProject(p)
    /\ DOMAIN staged = 1 .. 2
    /\ \A i \in 1 .. 2 :
          \/ p.stored[i] = staged[i]
          \/ p.stored[i] = Junk
          \/ \E w \in {"all", "incomplete", "one module", "other"} :
                p.stored[i] = Artifact(p.tree, w)

\* Evidence of the tree it is used for, or lying there when that was staged.
OfStage(x, tree, staged) ==
    \/ x.of = tree
    \/ \E i \in DOMAIN staged : x = Load(staged[i])

\* The least of some places is one of them.
LEMMA MinOfPlaces ==
  ASSUME NEW places, places \subseteq 1 .. 2, places # {}
  PROVE  Min(places) \in places
<1>1. \E x \in places : \A y \in places : x <= y
  <2>1. CASE 1 \in places
    <3>1. \A y \in places : 1 <= y
      OBVIOUS
    <3> QED BY <2>1, <3>1
  <2>2. CASE 1 \notin places
    <3>1. \A y \in places : y = 2
      BY <2>2
    <3>2. PICK y \in places : TRUE
      OBVIOUS
    <3> QED BY <3>1, <3>2
  <2> QED BY <2>1, <2>2
<1> QED BY <1>1 DEF Min

LEMMA ArtifactOfTree ==
  ASSUME NEW tree, NEW w
  PROVE  "of" \in DOMAIN Artifact(tree, w) /\ Artifact(tree, w).of = tree
BY DEF Artifact

LEMMA LoadedOfStage ==
  ASSUME NEW p, NEW staged, FromStage(p, staged), NEW i \in 1 .. 2,
         ToolchainComplete(Load(p.stored[i]))
  PROVE  OfStage(Load(p.stored[i]), p.tree, staged)
<1>1. CASE p.stored[i] = staged[i]
  BY <1>1 DEF FromStage, OfStage
<1>2. CASE p.stored[i] = Junk
  BY <1>2 DEF Load, Failed, ToolchainComplete, Claims
<1>3. ASSUME NEW w, p.stored[i] = Artifact(p.tree, w)
      PROVE  OfStage(Load(p.stored[i]), p.tree, staged)
  <2>1. p.stored[i] # None /\ p.stored[i] # Junk
    BY DEF Load, Failed, ToolchainComplete, Claims
  <2> DEFINE a == p.stored[i]
  <2>2. "of" \in DOMAIN a /\ a.of = p.tree
    BY <1>3, ArtifactOfTree
  <2> HIDE DEF a
  <2>3. Load(a) = [a EXCEPT !.complete = Claims(a)]
    BY <2>1 DEF Load, a
  <2>4. Load(a).of = p.tree
    BY <2>2, <2>3
  <2> QED BY <2>4 DEF OfStage, a
<1> QED BY <1>1, <1>2, <1>3 DEF FromStage

\* What is loaded has the fields that say it is incomplete.
LEMMA StaleIsIncomplete ==
  ASSUME NEW a, IsStored(a), Load(a) # None
  PROVE  ~ToolchainComplete(Stale(Load(a)))
<1>1. CASE a = Junk
  BY <1>1 DEF Load, Failed, Stale, ToolchainComplete, Claims
<1>2. CASE a # Junk
  <2>1. "errors" \in DOMAIN Load(a)
    BY <1>2 DEF Load, IsStored
  <2>2. Stale(Load(a)).errors = TRUE
    BY <2>1 DEF Stale
  <2> QED BY <2>2 DEF ToolchainComplete, Claims
<1> QED BY <1>1, <1>2

Put(p, a) == [p EXCEPT !.stored[1] = a]

LEMMA OneOfTwo == \A i \in 1 .. 2 : i = 1 \/ i = 2
OBVIOUS

\* A file is written to the first of the two places.
LEMMA Replaced ==
  ASSUME NEW p, "tree" \in DOMAIN p, "stored" \in DOMAIN p, DOMAIN p.stored = 1 .. 2, NEW a
  PROVE  LET q == Put(p, a)
         IN /\ DOMAIN q = DOMAIN p /\ q.tree = p.tree
            /\ DOMAIN q.stored = 1 .. 2 /\ q.stored[1] = a /\ q.stored[2] = p.stored[2]
<1> DEFINE q == Put(p, a)
<1>1. DOMAIN q = DOMAIN p /\ q.tree = p.tree /\ q.stored = [p.stored EXCEPT ![1] = a]
  BY DEF Put
<1> HIDE DEF q
<1>2. DOMAIN q.stored = 1 .. 2 /\ q.stored[1] = a /\ q.stored[2] = p.stored[2]
  BY <1>1
<1> QED BY <1>1, <1>2 DEF q

LEMMA RunWrites ==
  ASSUME NEW p, NEW staged, FromStage(p, staged), NEW a, IsStored(a),
         \/ a = Junk
         \/ \E w \in {"all", "incomplete", "one module", "other"} : a = Artifact(p.tree, w)
  PROVE  /\ FromStage(Put(p, a), staged)
         /\ Put(p, a).tree = p.tree
<1> DEFINE q == Put(p, a)
<1>1. DOMAIN p.stored = 1 .. 2 /\ "tree" \in DOMAIN p /\ "stored" \in DOMAIN p
  BY DEF FromStage, IsProject
<1>2. /\ DOMAIN q = DOMAIN p /\ q.tree = p.tree
      /\ DOMAIN q.stored = 1 .. 2 /\ q.stored[1] = a /\ q.stored[2] = p.stored[2]
  BY <1>1, Replaced
<1> HIDE DEF q
<1>3. IsProject(q)
  BY <1>2, OneOfTwo DEF FromStage, IsProject
<1>4. FromStage(q, staged)
  BY <1>2, <1>3, OneOfTwo DEF FromStage
<1> QED BY <1>2, <1>4 DEF q

LEMMA AfterRunOfStage ==
  ASSUME NEW p, NEW staged, NEW run, FromStage(p, staged)
  PROVE  FromStage(AfterRun(p, run), staged) /\ AfterRun(p, run).tree = p.tree
<1>1. CASE run.writes = "nothing"
  BY <1>1 DEF AfterRun
<1>2. CASE run.writes = "junk"
  <2>1. AfterRun(p, run) = Put(p, Junk)
    BY <1>2 DEF AfterRun, Put
  <2>2. IsStored(Junk)
    BY DEF IsStored
  <2> QED BY <2>1, <2>2, RunWrites
<1>3. CASE run.writes \notin {"nothing", "junk"}
  <2>1. PICK w \in {"all", "incomplete", "one module", "other"} :
           Artifact(p.tree, run.writes) = Artifact(p.tree, w)
    <3>1. run.writes \notin {"all", "incomplete", "one module"} =>
             Artifact(p.tree, run.writes) = Artifact(p.tree, "other")
      BY DEF Artifact
    <3> QED BY <3>1
  <2>2. AfterRun(p, run) = Put(p, Artifact(p.tree, run.writes))
    BY <1>3 DEF AfterRun, Put
  <2>3. IsStored(Artifact(p.tree, w))
    BY DEF IsStored, Artifact
  <2> QED BY <2>1, <2>2, <2>3, RunWrites
<1> QED BY <1>1, <1>2, <1>3

\* What the code gets when it loads from a project: nothing complete, or one of
\* the artifacts stored there.
Loads(x, p) == ToolchainComplete(x) => \E i \in 1 .. 2 : x = Load(p.stored[i])

LEMMA KeptIsLoaded ==
  ASSUME NEW p, IsProject(p)
  PROVE  Loads(Kept(p), p)
<1> DEFINE usable == {i \in DOMAIN p.stored : ToolchainComplete(Load(p.stored[i]))}
<1>1. usable \subseteq 1 .. 2
  BY DEF IsProject
<1> HIDE DEF usable
<1>2. Kept(p) = IF usable = {} THEN None ELSE Load(p.stored[Min(usable)])
  BY DEF Kept, usable
<1> QED BY <1>1, <1>2, MinOfPlaces DEF Loads, ToolchainComplete

\* The target, run or spared, leaves such a project and gives what it holds.
LakeGood(lake, p, staged) ==
    /\ FromStage(lake.project, staged)
    /\ lake.project.tree = p.tree
    /\ Loads(lake.result, lake.project)

LEMMA LakeExtractLoads ==
  ASSUME NEW p, NEW staged, FromStage(p, staged), NEW h, NEW executor, NEW run, NEW force
  PROVE  LakeGood(LakeExtract(p, h, executor, run, force), p, staged)
<1> DEFINE lake == LakeExtract(p, h, executor, run, force)
           after == AfterRun(p, run)
           adaptive == executor = "none" /\ ~h.custom
<1>1. Loads(None, p) /\ Loads(Kept(p), p)
  BY KeptIsLoaded DEF Loads, ToolchainComplete, FromStage
<1>2. CASE ~force /\ Kept(p) # None
  <2>1. lake.result = Kept(p) /\ lake.project = p
    BY <1>2 DEF LakeExtract
  <2> QED BY <1>1, <2>1 DEF LakeGood
<1>3. CASE ~(~force /\ Kept(p) # None) /\ ~CanRun(p, h, executor)
  <2>1. lake.result = None /\ lake.project = p
    BY <1>3 DEF LakeExtract
  <2> QED BY <1>1, <2>1 DEF LakeGood
<1>4. CASE ~(~force /\ Kept(p) # None) /\ CanRun(p, h, executor)
  <2>1. lake.result = ResultOfRun(after, run, adaptive) /\ lake.project = after
    BY <1>4 DEF LakeExtract
  <2>2. ResultOfRun(after, run, adaptive) \in {None, Failed("toolchain"), Load(after.stored[1])}
    BY DEF ResultOfRun
  <2>3. ~ToolchainComplete(None) /\ ~ToolchainComplete(Failed("toolchain"))
    BY DEF ToolchainComplete, Claims, Failed
  <2> HIDE DEF adaptive, lake, after
  <2> QED BY <2>1, <2>2, <2>3, AfterRunOfStage DEF LakeGood, Loads, after, lake
<1> QED BY <1>2, <1>3, <1>4

\* What the adaptive extractor calls complete is loaded and covers the sources.
Good(got, p, staged) ==
    /\ FromStage(got.project, staged)
    /\ got.project.tree = p.tree
    /\ ToolchainComplete(got.result) =>
          /\ Covers(got.result, p)
          /\ OfStage(got.result, p.tree, staged)

LEMMA OnlyIncomplete ==
  ASSUME NEW p, NEW q, NEW staged, FromStage(q, staged), q.tree = p.tree, NEW x,
         ~ToolchainComplete(x)
  PROVE  Good(Only(x, q), p, staged)
BY DEF Good, Only

LEMMA StubIsIncomplete ==
  ASSUME NEW p, NEW errors
  PROVE  ~ToolchainComplete(Fallback(p, errors))
<1>1. Lexical(p).by = "regex" /\ WithErrors(Lexical(p)).by = "regex"
  BY DEF Lexical, WithErrors
<1>2. Fallback(p, errors) \in {Lexical(p), WithErrors(Lexical(p))}
  BY DEF Fallback
<1> QED BY <1>1, <1>2 DEF ToolchainComplete, Claims

LEMMA FromTargetIsGood ==
  ASSUME NEW p, NEW staged, FromStage(p, staged), NEW h, NEW run, NEW earlier
  PROVE  Good(FromTarget(p, h, run, earlier), p, staged)
<1> DEFINE lake == LakeExtract(p, h, "none", run, TRUE)
           got  == lake.result
           got2 == FromTarget(p, h, run, earlier)
<1>1. FromStage(lake.project, staged) /\ lake.project.tree = p.tree /\ Loads(got, lake.project)
  <2>1. LakeGood(LakeExtract(p, h, "none", run, TRUE), p, staged)
    BY LakeExtractLoads, Zenon
  <2> HIDE DEF lake
  <2> QED BY <2>1 DEF LakeGood, lake
<1>2. got2 = IF ToolchainComplete(got)
             THEN Only(IF Covers(got, lake.project) THEN got ELSE Stale(got), lake.project)
             ELSE Only(Fallback(lake.project, earlier \/ (got # None /\ got.errors)), lake.project)
  BY DEF FromTarget
<1> HIDE DEF lake, got2
<1>3. CASE ToolchainComplete(got)
  <2>1. PICK i \in 1 .. 2 : got = Load(lake.project.stored[i])
    BY <1>1, <1>3 DEF Loads
  <2>2. CASE Covers(got, lake.project)
    <3>1. got2 = Only(got, lake.project)
      BY <1>2, <1>3, <2>2
    <3>2. OfStage(got, lake.project.tree, staged)
      BY <1>1, <1>3, <2>1, LoadedOfStage
    <3>3. Covers(got, p)
      BY <1>1, <2>2 DEF Covers
    <3> QED BY <1>1, <3>1, <3>2, <3>3 DEF Good, Only, got2
  <2>3. CASE ~Covers(got, lake.project)
    <3>1. got2 = Only(Stale(got), lake.project)
      BY <1>2, <1>3, <2>3
    <3>2. got # None
      BY <1>3 DEF ToolchainComplete
    <3>3. IsStored(lake.project.stored[i])
      BY <1>1 DEF FromStage, IsProject
    <3>4. ~ToolchainComplete(Stale(got))
      BY <2>1, <3>2, <3>3, StaleIsIncomplete
    <3> QED BY <1>1, <3>1, <3>4, OnlyIncomplete DEF got2
  <2> QED BY <2>2, <2>3
<1>4. CASE ~ToolchainComplete(got)
  BY <1>1, <1>2, <1>4, StubIsIncomplete, OnlyIncomplete DEF got2
<1> QED BY <1>3, <1>4 DEF got2

LEMMA LiveIsGood ==
  ASSUME NEW p, NEW staged, FromStage(p, staged), NEW h, NEW run
  PROVE  Good(Live(p, h, run), p, staged)
<1> DEFINE v2 == Generic(p, h, "none", FALSE, run)
<1>1. ~ToolchainComplete(Failed("regex")) /\ ~ToolchainComplete(FromGeneric(v2, p))
  BY DEF ToolchainComplete, Claims, Failed, FromGeneric
<1>2. \/ \E earlier \in BOOLEAN : Live(p, h, run) = FromTarget(p, h, run, earlier)
      \/ Live(p, h, run) = Only(Failed("regex"), p)
      \/ Live(p, h, run) = Only(FromGeneric(v2, p), p)
  BY DEF Live
<1> HIDE DEF v2
<1> QED BY <1>1, <1>2, FromTargetIsGood, OnlyIncomplete

LEMMA AdaptiveIsGood ==
  ASSUME NEW p, NEW staged, FromStage(p, staged), NEW h, NEW toolchain, NEW run
  PROVE  Good(Adaptive(p, h, toolchain, run), p, staged)
<1> DEFINE live   == toolchain /\ h.lake
           i      == Min(Deciding(p))
           loaded == Load(p.stored[i])
           got    == Adaptive(p, h, toolchain, run)
<1>1. Deciding(p) # {} => i \in 1 .. 2 /\ loaded # None
  <2>1. Deciding(p) \subseteq 1 .. 2
    BY DEF Deciding, FromStage, IsProject
  <2>2. Deciding(p) # {} => i \in Deciding(p)
    BY <2>1, MinOfPlaces
  <2> QED BY <2>1, <2>2 DEF Deciding
<1>2. \/ Deciding(p) # {} /\ Covers(loaded, p) /\ got = Only(loaded, p)
      \/ Deciding(p) # {} /\ got = Only(Stale(loaded), p)
      \/ got = Live(p, h, run)
      \/ \E errors \in BOOLEAN : got = Only(Fallback(p, errors), p)
  BY DEF Adaptive
<1> HIDE DEF got, i
<1>3. CASE Deciding(p) # {} /\ Covers(loaded, p) /\ got = Only(loaded, p)
  <2>1. ToolchainComplete(loaded) => OfStage(loaded, p.tree, staged)
    BY <1>1, <1>3, LoadedOfStage
  <2> QED BY <1>3, <2>1 DEF Good, Only, got
<1>4. CASE Deciding(p) # {} /\ got = Only(Stale(loaded), p)
  <2>1. IsStored(p.stored[i])
    BY <1>1, <1>4 DEF FromStage, IsProject
  <2>2. ~ToolchainComplete(Stale(loaded))
    BY <1>1, <1>4, <2>1, StaleIsIncomplete
  <2> QED BY <1>4, <2>2, OnlyIncomplete DEF got
<1> QED BY <1>2, <1>3, <1>4, LiveIsGood, StubIsIncomplete, OnlyIncomplete DEF got

-----------------------------------------------------------------------------
(* Projects *)

LEMMA StagedProject ==
  ASSUME NEW d, IsProject(d), NEW tree, NEW stored, DOMAIN stored = 1 .. 2,
         \A i \in 1 .. 2 : IsStored(stored[i])
  PROVE  LET q == [d EXCEPT !.tree = tree, !.stored = stored]
         IN FromStage(q, stored) /\ q.tree = tree
<1> DEFINE q == [d EXCEPT !.tree = tree, !.stored = stored]
<1>1. DOMAIN q = DOMAIN d /\ q.tree = tree /\ q.stored = stored
  BY DEF IsProject
<1> HIDE DEF q
<1>2. IsProject(q) /\ FromStage(q, stored)
  BY <1>1 DEF IsProject, FromStage
<1> QED BY <1>1, <1>2 DEF q

LEMMA CheckedOut ==
  ASSUME NEW d, IsProject(d), NEW tree
  PROVE  IsProject([d EXCEPT !.tree = tree])
<1> DEFINE q == [d EXCEPT !.tree = tree]
<1>1. DOMAIN q = DOMAIN d /\ q.stored = d.stored
  BY DEF IsProject
<1> HIDE DEF q
<1>2. IsProject(q)
  BY <1>1 DEF IsProject
<1> QED BY <1>2 DEF q

LEMMA PersistedProject ==
  ASSUME NEW from, IsProject(from), NEW to, IsProject(to)
  PROVE  IsProject(Persisted(from, to))
<1> DEFINE written == {i \in DOMAIN from.stored : from.stored[i] # None}
<1>1. written \subseteq 1 .. 2
  BY DEF IsProject
<1> HIDE DEF written
<1>2. CASE written = {}
  BY <1>2 DEF Persisted, written
<1>3. CASE written # {}
  <2> DEFINE a == from.stored[Min(written)]
             q == Put(to, a)
  <2>1. IsStored(a)
    BY <1>1, <1>3, MinOfPlaces DEF IsProject
  <2>2. DOMAIN to.stored = 1 .. 2 /\ "tree" \in DOMAIN to /\ "stored" \in DOMAIN to
    BY DEF IsProject
  <2>3. DOMAIN q = DOMAIN to /\ DOMAIN q.stored = 1 .. 2
        /\ q.stored[1] = a /\ q.stored[2] = to.stored[2]
    BY <2>2, Replaced
  <2>4. Persisted(from, to) = q
    BY <1>3 DEF Persisted, written, Put
  <2> HIDE DEF q
  <2>5. IsProject(q)
    BY <2>1, <2>3, OneOfTwo DEF IsProject
  <2> QED BY <2>4, <2>5
<1> QED BY <1>2, <1>3

-----------------------------------------------------------------------------
(* The decision *)

LEMMA ConcludedAccept ==
  ASSUME NEW F, NEW risk, NEW eligible, D!Decide(F, risk, eligible).recommendation = "ACCEPT"
  PROVE  eligible /\ risk < 3 /\ D!WithStatus(F, "UNKNOWN") = {}
         /\ D!WithStatus(D!Hard(F), "FAIL") = {}
BY DEF D!Decide

LEMMA ConcludedPass ==
  ASSUME NEW F, NEW risk, NEW eligible, D!Decide(F, risk, eligible).passed
  PROVE  D!WithStatus(D!Hard(F), "FAIL") = {} /\ D!WithStatus(D!Hard(F), "UNKNOWN") = {}
BY DEF D!Decide

\* A question is asked when something is unresolved or the risk is high.
LEMMA QuestionIsAsked ==
  ASSUME NEW F, NEW risk
  PROVE  D!ReviewQuestion(F, risk) = None
            <=> /\ {f.status : f \in F} \cap {"UNKNOWN", "WARN"} = {}
                /\ risk < 3
<1> DEFINE dims  == {f.dim : f \in D!Unresolved(F)}
           first == CHOOSE d \in dims : \A e \in dims : D!Rank(d) <= D!Rank(e)
<1>1. dims = {} <=> {f.status : f \in F} \cap {"UNKNOWN", "WARN"} = {}
  <2>1. dims = {} <=> D!Unresolved(F) = {}
    OBVIOUS
  <2>2. D!Unresolved(F) = {} <=> \A f \in F : f.status \notin {"UNKNOWN", "WARN"}
    BY DEF D!Unresolved
  <2> QED BY <2>1, <2>2
<1>2. D!ReviewQuestion(F, risk) = IF dims # {} /\ first \in D!AskedAbout THEN first
                                 ELSE IF dims = {} /\ risk < 3 THEN None
                                 ELSE "high-risk"
  BY DEF D!ReviewQuestion, D!QuestionAbout
<1>3. None # "high-risk" /\ (first \in D!AskedAbout => first # None)
  BY NoneIsNoQuestion
<1> HIDE DEF dims, first
<1> QED BY <1>1, <1>2, <1>3

\* What is escalated with nothing unresolved could have passed the gate.
LEMMA ConcludedEscalation ==
  ASSUME NEW F, NEW risk, NEW eligible \in BOOLEAN,
         D!Decide(F, risk, eligible).recommendation = "ESCALATE",
         \A f \in F : f.status # "UNKNOWN", risk < 3
  PROVE  ~eligible
<1>1. D!WithStatus(F, "UNKNOWN") = {} /\ D!WithStatus(D!Hard(F), "UNKNOWN") = {}
  BY DEF D!WithStatus, D!Hard
<1> QED BY <1>1 DEF D!Decide

\* Synthesis replaces the canonical checks and keeps all other findings.
LEMMA SynthesisKeeps ==
  ASSUME NEW F, NEW public, NEW risk
  PROVE  /\ \A f \in F : f.check \notin D!CanonicalChecks => f \in D!Synthesis(F, public, risk)
         /\ \A f \in D!Synthesis(F, public, risk) : f \in F \/ f.check \in D!CanonicalChecks
<1>1. ASSUME NEW check, NEW dim, NEW rule
      PROVE  D!FromProviders(check, dim, rule, F, public).check = check
  BY DEF D!FromProviders, D!Finding
<1>2. D!IntentSupport(F, risk).check = "semantic.intent_support"
  BY DEF D!IntentSupport, D!Finding
<1> QED BY <1>1, <1>2 DEF D!Synthesis, D!CanonicalChecks

\* No provider reports a hard check.
LEMMA ProvidersAreSoft ==
  ASSUME NEW met, NEW run, NEW f \in ProviderFindings(met, run)
  PROVE  f.check \notin D!HARD_FAIL_CHECKS
<1>1. ASSUME NEW c, NEW x, NEW m
      PROVE  /\ P!StatementDiff(c, x, m).check = "semantic.statement_diff"
             /\ P!Duplicates(c, x, m).check = "semantic.duplicate_retrieval"
  BY DEF P!StatementDiff, P!Duplicates, P!Finding
<1>2. ASSUME NEW c, NEW x, NEW lake, NEW m
      PROVE  P!Replacement(c, x, lake, m).check = "downstream.replacement_tests"
  BY DEF P!Replacement, P!Finding
<1>3. ASSUME NEW kind, NEW c, NEW lake, NEW m
      PROVE  P!Fixtures(kind, c, lake, m).check
                \in {"semantic.project_examples", "semantic.counterexamples"}
  BY DEF P!Fixtures, P!Finding, P!SuiteCheck
<1>4. ASSUME NEW c, NEW m
      PROVE  P!Successors(c, m).check = "downstream.successor_suite"
  BY DEF P!Successors, P!Finding
<1>5. f.check \in {"semantic.statement_diff", "semantic.duplicate_retrieval",
                   "downstream.replacement_tests", "semantic.project_examples",
                   "semantic.counterexamples", "downstream.successor_suite"}
  <2> DEFINE c == job.candidate
             x == IF job.pending = None THEN Adaptive(job.snapshot, host, TRUE, run).result
                  ELSE job.pending
             lake == LakeCapable
  <2>1. f \in {P!StatementDiff(c, x, met.statement),
               P!Duplicates(c, x, met.duplicates),
               P!Replacement(c, x, lake, met.replacement),
               P!Fixtures("examples", c, lake, met.examples),
               P!Fixtures("counterexamples", c, lake, met.counterexamples),
               P!Successors(c, met.successors)}
    BY DEF ProviderFindings
  <2> HIDE DEF c, x, lake
  <2>2. \/ f = P!StatementDiff(c, x, met.statement)
        \/ f = P!Duplicates(c, x, met.duplicates)
        \/ f = P!Replacement(c, x, lake, met.replacement)
        \/ f = P!Fixtures("examples", c, lake, met.examples)
        \/ f = P!Fixtures("counterexamples", c, lake, met.counterexamples)
        \/ f = P!Successors(c, met.successors)
    BY <2>1
  <2> QED BY <1>1, <1>2, <1>3, <1>4, <2>2
<1> QED BY <1>5 DEF D!HARD_FAIL_CHECKS

\* The findings of a compilation are all there when it is decided, and no hard
\* one has come from elsewhere.
LEMMA AllFindingsKeep ==
  ASSUME NEW met, NEW run, NEW risk
  PROVE  /\ \A f \in job.findings : f.check \notin D!CanonicalChecks
                => f \in AllFindings(met, run, risk)
         /\ \A f \in AllFindings(met, run, risk) :
                f.check \in D!HARD_FAIL_CHECKS => f \in job.findings
<1> DEFINE paired == IF PairRaises
                     THEN {P!Finding("lean.paired_extract", "uncertainty", "UNKNOWN", "none", FALSE)}
                     ELSE {}
           more == IF job.request.semantic THEN ProviderFindings(met, run) ELSE WithoutProviders
           F == job.findings \cup paired \cup more
<1>1. \A f \in paired : f.check \notin D!HARD_FAIL_CHECKS
  BY DEF P!Finding, D!HARD_FAIL_CHECKS
<1>2. \A f \in more : f.check \notin D!HARD_FAIL_CHECKS
  <2>1. \A f \in WithoutProviders : f.check \notin D!HARD_FAIL_CHECKS
    BY DEF WithoutProviders, P!Finding, D!HARD_FAIL_CHECKS
  <2> QED BY <2>1, ProvidersAreSoft
<1>3. AllFindings(met, run, risk) = D!Synthesis(F, P!Public(job.candidate), risk)
  BY DEF AllFindings
<1>4. \A f : f \in F <=> f \in job.findings \/ f \in paired \/ f \in more
  OBVIOUS
<1> HIDE DEF paired, more, F
<1>5. D!HARD_FAIL_CHECKS \cap D!CanonicalChecks = {}
  BY DEF D!HARD_FAIL_CHECKS, D!CanonicalChecks
<1> QED BY <1>1, <1>2, <1>3, <1>4, <1>5, SynthesisKeeps

-----------------------------------------------------------------------------
(* The invariant *)

JobFields ==
    {"pc", "candidate", "request", "executor", "findings", "snapshot", "staged", "built", "pending"}

FirstChecks ==
    {"contract.valid", "candidate.obligations", "repository.changed_paths", "lean.placeholders"}

ChecksOf(findings) == {f.check : f \in findings}

\* A compilation with an executor on the host that builds was asked for.
HostIsAsked(j) ==
    /\ j.built => ~j.request.skip
    /\ ~j.request.skip /\ j.executor.backend = "host" =>
          /\ host.policy = "allow"
          /\ j.request.insecure /\ j.request.sandbox # "force"

\* What is found so far: the hard checks one after the other, each with a result.
FindingsGrow(j) ==
    /\ FirstChecks \subseteq ChecksOf(j.findings)
    /\ \A f \in j.findings :
          f.check \in D!HARD_FAIL_CHECKS => f.status \in {"PASS", "FAIL", "UNKNOWN"}
    /\ j.pc \in {"extract", "conclude"} =>
          /\ "lean.build" \in ChecksOf(j.findings)
          /\ j.built \/ Kernel("lean.build", "UNKNOWN") \in j.findings
    /\ j.pc = "conclude" =>
          /\ Kernel("execution.isolation", S!IsolationStatus(j.executor, j.built)) \in j.findings
          /\ Kernel("lean.prohibited_axioms", AxiomStatus(j.pending)) \in j.findings

\* Where the extraction starts from, and what it has come to.
EvidenceGrows(j) ==
    /\ j.pc \in {"build", "extract"} => FromStage(j.snapshot, j.staged)
    /\ j.pc = "conclude" /\ ToolchainComplete(j.pending) =>
          /\ Covers(j.pending, j.snapshot)
          /\ OfStage(j.pending, j.snapshot.tree, j.staged)

JobInv(j) ==
    /\ DOMAIN j = JobFields
    /\ j.candidate \in Candidates
    /\ j.pc \in {"stage", "build", "extract", "conclude"}
    /\ HostIsAsked(j)
    /\ FindingsGrow(j)
    /\ EvidenceGrows(j)

CompilerInv ==
    /\ IsProject(disk)
    /\ job # Idle => JobInv(job)
    /\ AcceptIsEarned /\ HardGateIsComplete /\ EvidenceIsOfSnapshot /\ EscalationAsks

\* Idle is no compilation under way.
LEMMA PcIsBusy ==
  ASSUME NEW j, j.pc # "idle"
  PROVE  j # Idle
BY DEF Idle

LEMMA KernelFields ==
  ASSUME NEW check, NEW status
  PROVE  /\ Kernel(check, status).check = check
         /\ Kernel(check, status).status = status
         /\ Repository(check, status).check = check
         /\ Repository(check, status).status = status
BY DEF Kernel, Repository, P!Finding

LEMMA AxiomIsResult ==
  ASSUME NEW x
  PROVE  AxiomStatus(x) \in {"PASS", "FAIL", "UNKNOWN"}
BY DEF AxiomStatus

\* The decision of a compilation with all its findings.
LEMMA ConcludeIsEarned ==
  ASSUME JobInv(job), job.pc = "conclude", NEW met, NEW run, Conclude(met, run)
  PROVE  AcceptIsEarned' /\ HardGateIsComplete' /\ EvidenceIsOfSnapshot' /\ EscalationAsks'
<1> DEFINE risk == Risk(run)
           F    == AllFindings(met, run, risk)
           decision == D!Decide(F, risk, Eligible(risk))
<1>1. packet' = Packet(F, risk)
  BY DEF Conclude
<1> HIDE DEF risk, F
<1>2. /\ packet'.recommendation = decision.recommendation
      /\ packet'.passed = decision.passed
      /\ decision.recommendation = "ESCALATE" =>
            packet'.question = D!ReviewQuestion(F, risk)
      /\ packet'.risk = risk
      /\ packet'.status = {<<f.check, f.status>> : f \in {g \in F : g.check \in D!HARD_FAIL_CHECKS}}
      /\ packet'.open = {f.status : f \in F} \cap {"UNKNOWN", "WARN", "FAIL"}
      /\ packet'.executor = job.executor
      /\ packet'.tree = job.snapshot.tree
      /\ packet'.staged = job.staged
      /\ packet'.evidence = job.pending
  BY <1>1 DEF Packet
<1>3. /\ \A f \in job.findings : f.check \notin D!CanonicalChecks => f \in F
      /\ \A f \in F : f.check \in D!HARD_FAIL_CHECKS => f \in job.findings
  BY AllFindingsKeep DEF F
<1> DEFINE isolation == Kernel("execution.isolation", S!IsolationStatus(job.executor, job.built))
           axioms    == Kernel("lean.prohibited_axioms", AxiomStatus(job.pending))
           unbuilt   == Kernel("lean.build", "UNKNOWN")
<1>4. /\ isolation \in job.findings /\ axioms \in job.findings
      /\ job.built \/ unbuilt \in job.findings
  BY DEF JobInv, FindingsGrow
<1>5. /\ isolation.check = "execution.isolation"
      /\ isolation.status = S!IsolationStatus(job.executor, job.built)
      /\ axioms.check = "lean.prohibited_axioms" /\ axioms.status = AxiomStatus(job.pending)
      /\ unbuilt.check = "lean.build" /\ unbuilt.status = "UNKNOWN"
  BY KernelFields
<1> HIDE DEF isolation, axioms, unbuilt
<1>6. isolation \in F /\ axioms \in F /\ (job.built \/ unbuilt \in F)
  BY <1>3, <1>4, <1>5 DEF D!CanonicalChecks
<1>7. axioms.check \in D!HARD_FAIL_CHECKS
  BY <1>5 DEF D!HARD_FAIL_CHECKS
<1>8. EvidenceIsOfSnapshot'
  <2>1. ToolchainComplete(job.pending) => OfStage(job.pending, job.snapshot.tree, job.staged)
    BY DEF JobInv, EvidenceGrows
  <2>2. ToolchainComplete(packet'.evidence) =>
           \/ packet'.evidence.of = packet'.tree
           \/ \E i \in DOMAIN packet'.staged : packet'.evidence = Load(packet'.staged[i])
    BY <1>2, <2>1 DEF OfStage
  <2> QED BY <2>2 DEF EvidenceIsOfSnapshot, OfSnapshot, ToolchainComplete
<1>9. HardGateIsComplete'
  <2> SUFFICES ASSUME packet'.passed
               PROVE  packet'.status = {<<check, "PASS">> : check \in D!HARD_FAIL_CHECKS}
    BY DEF HardGateIsComplete
  <2>1. D!WithStatus(D!Hard(F), "FAIL") = {} /\ D!WithStatus(D!Hard(F), "UNKNOWN") = {}
    BY <1>2, ConcludedPass
  <2>2. \A f \in F : f.check \in D!HARD_FAIL_CHECKS => f.status = "PASS"
    <3>1. \A f \in F : f.check \in D!HARD_FAIL_CHECKS => f.status \in {"PASS", "FAIL", "UNKNOWN"}
      BY <1>3 DEF JobInv, FindingsGrow
    <3> QED BY <2>1, <3>1 DEF D!WithStatus, D!Hard
  <2>3. ASSUME NEW check \in D!HARD_FAIL_CHECKS
        PROVE  \E f \in F : f.check = check
    <3>1. check \in ChecksOf(job.findings)
      <4>1. check \in FirstChecks \/ check = "lean.build" \/ check = "lean.prohibited_axioms"
        BY DEF D!HARD_FAIL_CHECKS, FirstChecks
      <4>2. "lean.build" \in ChecksOf(job.findings) /\ FirstChecks \subseteq ChecksOf(job.findings)
        BY DEF JobInv, FindingsGrow
      <4>3. "lean.prohibited_axioms" \in ChecksOf(job.findings)
        BY <1>4, <1>5 DEF ChecksOf
      <4> QED BY <4>1, <4>2, <4>3
    <3>2. check \notin D!CanonicalChecks
      BY DEF D!HARD_FAIL_CHECKS, D!CanonicalChecks
    <3> QED BY <1>3, <3>1, <3>2 DEF ChecksOf
  <2> QED BY <1>2, <2>2, <2>3
<1>10. AcceptIsEarned'
  <2> SUFFICES ASSUME packet'.recommendation = "ACCEPT"
               PROVE  /\ packet'.executor.backend = "docker"
                      /\ packet'.executor.isolated /\ packet'.executor.digest
                      /\ ToolchainComplete(packet'.evidence)
                      /\ packet'.tree.modules \subseteq packet'.evidence.modules
                      /\ ~Prohibited(packet'.evidence)
                      /\ \/ packet'.evidence.of = packet'.tree
                         \/ \E i \in DOMAIN packet'.staged :
                               packet'.evidence = Load(packet'.staged[i])
                      /\ "UNKNOWN" \notin packet'.open
                      /\ packet'.risk \in AutoAccept /\ packet'.risk < 3
    BY DEF AcceptIsEarned, OfSnapshot
  <2>1. Eligible(risk) /\ risk < 3 /\ D!WithStatus(F, "UNKNOWN") = {}
        /\ D!WithStatus(D!Hard(F), "FAIL") = {}
    BY <1>2, ConcludedAccept
  <2>2. \A f \in F : f.status # "UNKNOWN"
    BY <2>1 DEF D!WithStatus
  <2>3. job.built
    BY <1>5, <1>6, <2>2
  <2>4. S!IsolationStatus(job.executor, job.built) # "UNKNOWN"
    BY <1>5, <1>6, <2>2
  <2>5. job.executor.backend = "docker" /\ job.executor.isolated /\ job.executor.digest
    BY <2>3, <2>4 DEF S!IsolationStatus
  <2>6. AxiomStatus(job.pending) = "PASS"
    <3>1. axioms.status # "FAIL"
      BY <1>6, <1>7, <2>1 DEF D!WithStatus, D!Hard
    <3>2. axioms.status # "UNKNOWN"
      BY <1>6, <2>2
    <3> QED BY <1>5, <3>1, <3>2, AxiomIsResult
  <2>7. ToolchainComplete(job.pending) /\ ~Prohibited(job.pending)
    BY <2>6 DEF AxiomStatus
  <2>8. job.snapshot.tree.modules \subseteq job.pending.modules
    BY <2>7 DEF JobInv, EvidenceGrows, Covers
  <2>9. "UNKNOWN" \notin packet'.open
    BY <1>2, <2>2
  <2>10. risk \in AutoAccept
    BY <2>1 DEF Eligible
  <2>11. OfStage(job.pending, job.snapshot.tree, job.staged)
    BY <2>7 DEF JobInv, EvidenceGrows
  <2> QED BY <1>2, <2>1, <2>5, <2>7, <2>8, <2>9, <2>10, <2>11 DEF OfStage
<1>11. EscalationAsks'
  <2> SUFFICES ASSUME packet'.recommendation = "ESCALATE"
               PROVE  packet'.question = None
                  <=> /\ packet'.open \cap {"UNKNOWN", "WARN"} = {}
                      /\ packet'.risk < 3
                      /\ packet'.risk \notin AutoAccept \/ S!BlocksAutoAccept(packet'.executor)
    BY DEF EscalationAsks
  <2> DEFINE open == {f.status : f \in F}
  <2>1. packet'.open \cap {"UNKNOWN", "WARN"} = open \cap {"UNKNOWN", "WARN"}
    BY <1>2
  <2>2. packet'.question = None <=> open \cap {"UNKNOWN", "WARN"} = {} /\ risk < 3
    <3>1. packet'.question = D!ReviewQuestion(F, risk)
      BY <1>2
    <3>2. D!ReviewQuestion(F, risk) = None
             <=> {f.status : f \in F} \cap {"UNKNOWN", "WARN"} = {} /\ risk < 3
      BY QuestionIsAsked
    <3> QED BY <3>1, <3>2
  <2>3. ASSUME open \cap {"UNKNOWN", "WARN"} = {}, risk < 3
        PROVE  risk \notin AutoAccept \/ S!BlocksAutoAccept(job.executor)
    <3>1. \A f \in F : f.status # "UNKNOWN"
      BY <2>3
    <3>2. Eligible(risk) \in BOOLEAN
      BY DEF Eligible
    <3>3. ~Eligible(risk)
      BY <1>2, <2>3, <3>1, <3>2, ConcludedEscalation
    <3> QED BY <3>3 DEF Eligible
  <2> HIDE DEF open
  <2> QED BY <1>2, <2>1, <2>2, <2>3
<1> QED BY <1>8, <1>9, <1>10, <1>11

-----------------------------------------------------------------------------
(* The steps *)

\* The properties speak of the packet alone.
LEMMA PacketStays ==
  ASSUME AcceptIsEarned, HardGateIsComplete, EvidenceIsOfSnapshot, EscalationAsks,
         packet' \in {packet, None}
  PROVE  AcceptIsEarned' /\ HardGateIsComplete' /\ EvidenceIsOfSnapshot' /\ EscalationAsks'
<1>1. CASE packet' = None
  BY <1>1 DEF AcceptIsEarned, HardGateIsComplete, EvidenceIsOfSnapshot, EscalationAsks, OfSnapshot, Decided
<1>2. CASE packet' = packet
  BY <1>2 DEF AcceptIsEarned, HardGateIsComplete, EvidenceIsOfSnapshot, EscalationAsks, OfSnapshot, Decided
<1> QED BY <1>1, <1>2

LEMMA SubmitKeeps ==
  ASSUME CompilerInv, NEW c \in Candidates, NEW request, Submit(c, request)
  PROVE  CompilerInv'
<1>1. IsProject(disk)' /\ host' = host /\ packet' = None /\ disk' = disk
  BY DEF Submit, CompilerInv
<1>2. AcceptIsEarned' /\ HardGateIsComplete' /\ EvidenceIsOfSnapshot' /\ EscalationAsks'
  BY <1>1, PacketStays DEF CompilerInv
<1>3. CASE job' = job
  <2>1. job' # Idle => FALSE
    BY <1>3 DEF Submit
  <2> QED BY <1>1, <1>2, <2>1 DEF CompilerInv
<1>4. CASE job' # job
  <2>1. /\ Executor(request) # None
        /\ job' = [pc |-> "stage", candidate |-> c, request |-> request,
                   executor |-> Executor(request), findings |-> FirstFindings(c),
                   snapshot |-> disk, staged |-> disk.stored, built |-> FALSE,
                   pending |-> None]
    BY <1>4 DEF Submit
  <2>2. /\ DOMAIN job' = JobFields /\ job'.pc = "stage" /\ job'.request = request
        /\ job'.executor = Executor(request) /\ job'.findings = FirstFindings(c)
        /\ job'.built = FALSE /\ job'.candidate = c
    BY <2>1 DEF JobFields
  <2>3. HostIsAsked(job)'
    <3> SUFFICES ASSUME ~request.skip, Executor(request).backend = "host"
                 PROVE  /\ host.policy = "allow"
                        /\ request.insecure /\ request.sandbox # "force"
      BY <1>1, <2>2 DEF HostIsAsked
    <3>1. Executor(request) = S!SelectExecutor(S!Policy(host.policy), Insecure(request), host.docker)
      BY DEF Executor
    <3>2. Insecure(request) /\ S!Policy(host.policy) # "deny"
      <4>1. ASSUME NEW policy, NEW docker PROVE S!DockerExecutor(policy, docker).backend = "docker"
        BY DEF S!DockerExecutor
      <4> QED BY <2>1, <3>1, <4>1 DEF S!SelectExecutor
    <3> QED BY <3>2 DEF Insecure, S!Policy
  <2>4. FindingsGrow(job)'
    <3>1. FirstChecks \subseteq ChecksOf(FirstFindings(c))
      BY DEF FirstChecks, ChecksOf, FirstFindings, Kernel, Repository, P!Finding
    <3>2. \A f \in FirstFindings(c) : f.status \in {"PASS", "FAIL", "UNKNOWN"}
      BY DEF FirstFindings, Kernel, Repository, P!Finding
    <3> QED BY <2>2, <3>1, <3>2 DEF FindingsGrow
  <2>5. EvidenceGrows(job)'
    BY <2>2 DEF EvidenceGrows
  <2> QED BY <1>1, <1>2, <2>2, <2>3, <2>4, <2>5 DEF CompilerInv, JobInv
<1> QED BY <1>3, <1>4

\* A compilation that goes on keeps what was asked and found, and adds a finding.
LEMMA JobGoesOn ==
  ASSUME CompilerInv, job # Idle, UNCHANGED <<host, packet>>, IsProject(disk)',
         DOMAIN job' = JobFields,
         job'.candidate = job.candidate,
         job'.request = job.request, job'.executor = job.executor,
         job'.pc \in {"build", "extract", "conclude"},
         job'.built => ~job.request.skip,
         FindingsGrow(job)', EvidenceGrows(job)'
  PROVE  CompilerInv'
<1>1. AcceptIsEarned' /\ HardGateIsComplete' /\ EvidenceIsOfSnapshot' /\ EscalationAsks'
  BY PacketStays DEF CompilerInv
<1>2. HostIsAsked(job)'
  BY DEF CompilerInv, JobInv, HostIsAsked
<1> QED BY <1>1, <1>2 DEF CompilerInv, JobInv

LEMMA AbortKeeps ==
  ASSUME CompilerInv, Abort
  PROVE  CompilerInv'
<1>1. job' = Idle /\ packet' = packet /\ disk' = disk
  BY DEF Abort
<1>2. AcceptIsEarned' /\ HardGateIsComplete' /\ EvidenceIsOfSnapshot' /\ EscalationAsks'
  BY <1>1, PacketStays DEF CompilerInv
<1> QED BY <1>1, <1>2 DEF CompilerInv

LEMMA StageKeeps ==
  ASSUME CompilerInv, Stage
  PROVE  CompilerInv'
<1>1. job # Idle /\ JobInv(job) /\ job.pc = "stage"
  BY PcIsBusy DEF Stage, CompilerInv
<1>2. PICK s \in Snapshots :
         job' = [job EXCEPT !.pc = "build", !.staged = s.stored,
                            !.snapshot = [disk EXCEPT !.tree = s.tree, !.stored = s.stored]]
  BY DEF Stage
<1> DEFINE stored == s.stored
           snapshot == [disk EXCEPT !.tree = s.tree, !.stored = stored]
<1>3. DOMAIN stored = 1 .. 2 /\ \A i \in 1 .. 2 : IsStored(stored[i])
  <2> DEFINE brings == job.candidate.brings
  <2>1. DOMAIN brings = 1 .. 2 /\ \A i \in 1 .. 2 : IsStored(brings[i])
    BY <1>1, CompilerAssumptions DEF JobInv
  <2>2. DOMAIN disk.stored = 1 .. 2 /\ \A i \in 1 .. 2 : IsStored(disk.stored[i])
    BY DEF CompilerInv, IsProject
  <2>3. stored \in {disk.stored, brings, Patched(disk.stored, brings)}
    BY DEF Snapshots
  <2> HIDE DEF brings, stored
  <2> QED BY <2>1, <2>2, <2>3 DEF Patched
<1> HIDE DEF stored
<1>4. FromStage(snapshot, stored)
  BY <1>3, StagedProject DEF CompilerInv
<1>5. job' = [job EXCEPT !.pc = "build", !.staged = stored, !.snapshot = snapshot]
  BY <1>2 DEF stored, snapshot
<1> HIDE DEF snapshot
<1>6. /\ DOMAIN job' = JobFields /\ job'.pc = "build" /\ job'.request = job.request
      /\ job'.candidate = job.candidate
      /\ job'.executor = job.executor /\ job'.findings = job.findings
      /\ job'.snapshot = snapshot /\ job'.staged = stored /\ job'.built = job.built
  BY <1>1, <1>5 DEF JobInv, JobFields
<1>7. UNCHANGED <<host, disk, packet, count>>
  BY DEF Stage
<1>8. FindingsGrow(job)'
  BY <1>1, <1>6 DEF JobInv, FindingsGrow
<1>9. EvidenceGrows(job)'
  BY <1>4, <1>6 DEF EvidenceGrows
<1>10. job'.built => ~job.request.skip
  BY <1>1, <1>6 DEF JobInv, HostIsAsked
<1> QED BY <1>1, <1>6, <1>7, <1>8, <1>9, <1>10, JobGoesOn DEF CompilerInv

LEMMA BuildFinds ==
  ASSUME JobInv(job), job.pc = "build", NEW status \in {"PASS", "FAIL", "UNKNOWN"},
         job'.pc = "extract", job'.findings = job.findings \cup {Kernel("lean.build", status)},
         job'.built \/ status = "UNKNOWN"
  PROVE  FindingsGrow(job)'
<1> DEFINE built == Kernel("lean.build", status)
<1>1. built.check = "lean.build" /\ built.status = status
  BY KernelFields
<1>2. job'.built \/ Kernel("lean.build", "UNKNOWN") \in job'.findings
  OBVIOUS
<1>3. job'.findings = job.findings \cup {built}
  OBVIOUS
<1> HIDE DEF built
<1>4. "lean.build" \in ChecksOf(job'.findings) /\ FirstChecks \subseteq ChecksOf(job'.findings)
  BY <1>1, <1>3 DEF JobInv, FindingsGrow, ChecksOf
<1>5. \A f \in job'.findings :
         f.check \in D!HARD_FAIL_CHECKS => f.status \in {"PASS", "FAIL", "UNKNOWN"}
  BY <1>1, <1>3 DEF JobInv, FindingsGrow
<1> QED BY <1>2, <1>4, <1>5 DEF FindingsGrow, Kernel

LEMMA SkipBuildKeeps ==
  ASSUME CompilerInv, SkipBuild
  PROVE  CompilerInv'
<1>1. job # Idle /\ JobInv(job) /\ job.pc = "build"
  BY PcIsBusy DEF SkipBuild, CompilerInv
<1>2. /\ DOMAIN job' = JobFields /\ job'.pc = "extract" /\ job'.request = job.request
      /\ job'.candidate = job.candidate
      /\ job'.executor = job.executor /\ job'.built = job.built
      /\ job'.findings = job.findings \cup {Kernel("lean.build", "UNKNOWN")}
      /\ job'.snapshot = job.snapshot /\ job'.staged = job.staged
      /\ UNCHANGED <<host, disk, packet>>
  BY <1>1 DEF SkipBuild, JobInv, JobFields
<1>3. FindingsGrow(job)'
  BY <1>1, <1>2, BuildFinds
<1>4. EvidenceGrows(job)' /\ (job'.built => ~job.request.skip)
  BY <1>1, <1>2 DEF JobInv, EvidenceGrows, HostIsAsked
<1> QED BY <1>1, <1>2, <1>3, <1>4, JobGoesOn DEF CompilerInv

LEMMA PlainBuildKeeps ==
  ASSUME CompilerInv, NEW exit, NEW ends, PlainBuild(exit, ends)
  PROVE  CompilerInv'
<1>1. job # Idle /\ JobInv(job) /\ job.pc = "build" /\ ~job.request.skip
  BY PcIsBusy DEF PlainBuild, CompilerInv
<1>2. PICK status \in {"PASS", "FAIL", "UNKNOWN"} :
         job' = [job EXCEPT !.pc = "extract", !.built = TRUE,
                            !.findings = @ \cup {Kernel("lean.build", status)}]
  BY DEF PlainBuild, Built
<1>3. /\ DOMAIN job' = JobFields /\ job'.pc = "extract" /\ job'.request = job.request
      /\ job'.candidate = job.candidate
      /\ job'.executor = job.executor /\ job'.built = TRUE
      /\ job'.findings = job.findings \cup {Kernel("lean.build", status)}
      /\ job'.snapshot = job.snapshot /\ job'.staged = job.staged
  BY <1>1, <1>2 DEF JobInv, JobFields
<1>4. UNCHANGED <<host, disk, packet>>
  BY DEF PlainBuild
<1>5. FindingsGrow(job)'
  BY <1>1, <1>3, BuildFinds
<1>6. EvidenceGrows(job)'
  BY <1>1, <1>3 DEF JobInv, EvidenceGrows
<1> QED BY <1>1, <1>3, <1>4, <1>5, <1>6, JobGoesOn DEF CompilerInv

LEMMA CombinedBuildKeeps ==
  ASSUME CompilerInv, NEW exit, NEW ends, NEW verbose, NEW run,
         CombinedBuild(exit, ends, verbose, run)
  PROVE  CompilerInv'
<1>1. job # Idle /\ JobInv(job) /\ job.pc = "build" /\ ~job.request.skip
  BY PcIsBusy DEF CombinedBuild, CompilerInv
<1> DEFINE after == IF exit = 0 /\ ends = "exits" THEN AfterRun(job.snapshot, run)
                    ELSE job.snapshot
<1>2. \E status \in {"PASS", "FAIL", "UNKNOWN"} : \E pending :
         job' = [job EXCEPT !.pc = "extract", !.snapshot = after, !.built = TRUE,
                            !.findings = @ \cup {Kernel("lean.build", status)},
                            !.pending = pending]
  BY DEF CombinedBuild, Built
<1>3. FromStage(after, job.staged)
  BY <1>1, AfterRunOfStage DEF JobInv, EvidenceGrows
<1> HIDE DEF after
<1>4. PICK status \in {"PASS", "FAIL", "UNKNOWN"} : \E pending :
         job' = [job EXCEPT !.pc = "extract", !.snapshot = after, !.built = TRUE,
                            !.findings = @ \cup {Kernel("lean.build", status)},
                            !.pending = pending]
  BY <1>2
<1>5. /\ DOMAIN job' = JobFields /\ job'.pc = "extract" /\ job'.request = job.request
      /\ job'.candidate = job.candidate
      /\ job'.executor = job.executor /\ job'.built = TRUE
      /\ job'.findings = job.findings \cup {Kernel("lean.build", status)}
      /\ job'.snapshot = after /\ job'.staged = job.staged
  BY <1>1, <1>4 DEF JobInv, JobFields
<1>6. UNCHANGED <<host, disk, packet>>
  BY DEF CombinedBuild
<1>7. FindingsGrow(job)'
  BY <1>1, <1>5, BuildFinds
<1>8. EvidenceGrows(job)'
  BY <1>3, <1>5 DEF EvidenceGrows
<1> QED BY <1>1, <1>5, <1>6, <1>7, <1>8, JobGoesOn DEF CompilerInv

\* After a plain build: the target first, then whatever else there is.
LEMMA SequentialIsGood ==
  ASSUME FromStage(job.snapshot, job.staged), NEW run
  PROVE  Good(Sequential(run), job.snapshot, job.staged)
<1> DEFINE lake == LakeExtract(job.snapshot, host, job.executor.backend, run, FALSE)
           local == job.executor.backend = "host"
<1>1. LakeGood(lake, job.snapshot, job.staged)
  BY LakeExtractLoads, Zenon
<1>2. \/ Sequential(run) = lake /\ lake.result.errors
      \/ Sequential(run) = Adaptive(lake.project, host, local, run)
  BY DEF Sequential
<1> HIDE DEF lake, local
<1>3. CASE Sequential(run) = lake /\ lake.result.errors
  <2>1. ~ToolchainComplete(lake.result)
    BY <1>3 DEF ToolchainComplete, Claims
  <2> QED BY <1>1, <1>3, <2>1 DEF LakeGood, Good
<1>4. CASE Sequential(run) = Adaptive(lake.project, host, local, run)
  <2>1. Good(Adaptive(lake.project, host, local, run), lake.project, job.staged)
    BY <1>1, AdaptiveIsGood DEF LakeGood
  <2> QED BY <1>1, <1>4, <2>1 DEF LakeGood, Good, Covers
<1> QED BY <1>2, <1>3, <1>4

LEMMA ExtractionIsGood ==
  ASSUME FromStage(job.snapshot, job.staged), NEW run
  PROVE  Good(Extraction(run), job.snapshot, job.staged)
<1>1. \A toolchain \in BOOLEAN :
         Good(Adaptive(job.snapshot, host, toolchain, run), job.snapshot, job.staged)
  BY AdaptiveIsGood
<1>2. Good(Adaptive(job.snapshot, host, TRUE, run), job.snapshot, job.staged)
      /\ Good(Adaptive(job.snapshot, host, FALSE, run), job.snapshot, job.staged)
  BY <1>1, Zenon
<1>3. Good(Sequential(run), job.snapshot, job.staged)
  BY SequentialIsGood
<1>4. ~ToolchainComplete(None)
  BY DEF ToolchainComplete
<1>5. Good(Only(None, job.snapshot), job.snapshot, job.staged)
  BY <1>4, OnlyIncomplete
<1>6. ~ToolchainComplete(job.pending) =>
         Good(Only(job.pending, job.snapshot), job.snapshot, job.staged)
  BY OnlyIncomplete
<1> QED BY <1>2, <1>3, <1>5, <1>6, Zenon DEF Extraction

LEMMA ExtractKeeps ==
  ASSUME CompilerInv, NEW run, Extract(run)
  PROVE  CompilerInv'
<1>1. job # Idle /\ JobInv(job) /\ job.pc = "extract"
  BY PcIsBusy DEF Extract, CompilerInv
<1> DEFINE got == Extraction(run)
           x   == got.result
           new == ExtractionFindings(x)
<1>2. Good(got, job.snapshot, job.staged)
  BY <1>1, ExtractionIsGood DEF JobInv, EvidenceGrows
<1>3. /\ job' = [job EXCEPT !.pc = "conclude", !.pending = x, !.snapshot = got.project,
                            !.findings = @ \cup new]
      /\ disk' = IF ToolchainComplete(x) THEN Persisted(got.project, disk) ELSE disk
      /\ UNCHANGED <<host, packet>>
  BY DEF Extract
<1> DEFINE isolation == Kernel("execution.isolation", S!IsolationStatus(job.executor, job.built))
           axioms    == Kernel("lean.prohibited_axioms", AxiomStatus(x))
<1>4. isolation \in new /\ axioms \in new
  BY DEF ExtractionFindings
<1>5. \A f \in new : f.check \in D!HARD_FAIL_CHECKS => f.status \in {"PASS", "FAIL", "UNKNOWN"}
  <2>1. ASSUME NEW f \in new, f \notin {isolation, axioms}
        PROVE  f.check \in {"lean.impact_cone", "lean.import_expansion"}
    BY <2>1, KernelFields DEF ExtractionFindings
  <2>2. isolation.check = "execution.isolation"
    BY KernelFields
  <2>3. axioms.status \in {"PASS", "FAIL", "UNKNOWN"}
    BY KernelFields, AxiomIsResult
  <2> HIDE DEF new, isolation, axioms
  <2> QED BY <2>1, <2>2, <2>3 DEF D!HARD_FAIL_CHECKS
<1> HIDE DEF got, new
<1>6. /\ DOMAIN job' = JobFields /\ job'.pc = "conclude" /\ job'.request = job.request
      /\ job'.candidate = job.candidate
      /\ job'.executor = job.executor /\ job'.built = job.built
      /\ job'.findings = job.findings \cup new /\ job'.pending = x
      /\ job'.snapshot = got.project /\ job'.staged = job.staged
  BY <1>1, <1>3 DEF JobInv, JobFields
<1>7. IsProject(disk)'
  <2>1. IsProject(got.project) /\ IsProject(disk)
    BY <1>2 DEF Good, FromStage, CompilerInv
  <2>2. IsProject(Persisted(got.project, disk))
    BY <2>1, PersistedProject
  <2>3. IsProject(disk')
    BY <1>3, <2>1, <2>2
  <2> QED BY <2>3 DEF IsProject
<1>8. FindingsGrow(job)'
  <2>1. FirstChecks \subseteq ChecksOf(job'.findings) /\ "lean.build" \in ChecksOf(job'.findings)
    BY <1>1, <1>6 DEF JobInv, FindingsGrow, ChecksOf
  <2>2. job'.built \/ Kernel("lean.build", "UNKNOWN") \in job'.findings
    BY <1>1, <1>6 DEF JobInv, FindingsGrow
  <2>3. \A f \in job'.findings :
           f.check \in D!HARD_FAIL_CHECKS => f.status \in {"PASS", "FAIL", "UNKNOWN"}
    BY <1>1, <1>5, <1>6 DEF JobInv, FindingsGrow
  <2>4. /\ Kernel("execution.isolation", S!IsolationStatus(job'.executor, job'.built))
              \in job'.findings
        /\ Kernel("lean.prohibited_axioms", AxiomStatus(job'.pending)) \in job'.findings
    BY <1>4, <1>6
  <2> QED BY <1>6, <2>1, <2>2, <2>3, <2>4 DEF FindingsGrow, Kernel, AxiomStatus
<1>9. EvidenceGrows(job)'
  <2>1. ToolchainComplete(x) =>
           /\ Covers(x, job.snapshot)
           /\ OfStage(x, job.snapshot.tree, job.staged)
    BY <1>2 DEF Good
  <2>2. got.project.tree = job.snapshot.tree
    BY <1>2 DEF Good
  <2>3. ToolchainComplete(x) =>
           /\ Covers(x, got.project)
           /\ OfStage(x, got.project.tree, job.staged)
    BY <2>1, <2>2 DEF Covers
  <2> QED BY <1>6, <2>3 DEF EvidenceGrows
<1>10. job'.built => ~job.request.skip
  BY <1>1, <1>6 DEF JobInv, HostIsAsked
<1> QED BY <1>1, <1>3, <1>6, <1>7, <1>8, <1>9, <1>10, JobGoesOn

LEMMA ConcludeKeeps ==
  ASSUME CompilerInv, job.pc = "conclude", NEW met, NEW run, Conclude(met, run)
  PROVE  CompilerInv'
<1>1. JobInv(job)
  BY PcIsBusy DEF CompilerInv
<1>2. AcceptIsEarned' /\ HardGateIsComplete' /\ EvidenceIsOfSnapshot' /\ EscalationAsks'
  BY <1>1, ConcludeIsEarned
<1>3. job' = Idle /\ disk' = disk
  BY DEF Conclude
<1> QED BY <1>2, <1>3 DEF CompilerInv

\* Another tree checked out moves nothing in a compilation under way.
LEMMA CheckoutKeeps ==
  ASSUME CompilerInv, Checkout
  PROVE  CompilerInv'
<1>1. UNCHANGED <<host, job, packet>> /\ \E tree \in Trees : disk' = [disk EXCEPT !.tree = tree]
  BY DEF Checkout
<1>2. IsProject(disk')
  BY <1>1, CheckedOut DEF CompilerInv
<1>3. IsProject(disk)'
  BY <1>2 DEF IsProject
<1>4. AcceptIsEarned' /\ HardGateIsComplete' /\ EvidenceIsOfSnapshot' /\ EscalationAsks'
  BY <1>1, PacketStays DEF CompilerInv
<1>5. job' # Idle => JobInv(job)'
  <2>1. JobInv(job) => JobInv(job)'
    BY <1>1 DEF JobInv, HostIsAsked, FindingsGrow, EvidenceGrows
  <2> QED BY <1>1, <2>1 DEF CompilerInv
<1> QED BY <1>3, <1>4, <1>5 DEF CompilerInv

LEMMA CompilerInit == Init => CompilerInv
<1> SUFFICES ASSUME Init PROVE CompilerInv
  OBVIOUS
<1>1. job = Idle /\ packet = None /\ disk \in Projects
  BY DEF Init
<1>2. IsProject(disk)
  BY <1>1, CompilerAssumptions
<1>3. AcceptIsEarned /\ HardGateIsComplete /\ EvidenceIsOfSnapshot /\ EscalationAsks
  BY <1>1 DEF AcceptIsEarned, HardGateIsComplete, EvidenceIsOfSnapshot, EscalationAsks, OfSnapshot, Decided
<1> QED BY <1>1, <1>2, <1>3 DEF CompilerInv

LEMMA CompilerStep ==
  ASSUME CompilerInv, [Next]_vars
  PROVE  CompilerInv'
<1>1. ASSUME Build PROVE CompilerInv'
  BY <1>1, SkipBuildKeeps, PlainBuildKeeps, CombinedBuildKeeps, AbortKeeps DEF Build, NoLake
<1>2. ASSUME Compile PROVE CompilerInv'
  BY <1>1, <1>2, StageKeeps, AbortKeeps, ExtractKeeps, ConcludeKeeps DEF Compile, PatchRejected
<1>3. CASE UNCHANGED vars
  <2>1. UNCHANGED <<host, disk, job, packet>>
    BY <1>3 DEF vars
  <2>2. AcceptIsEarned' /\ HardGateIsComplete' /\ EvidenceIsOfSnapshot' /\ EscalationAsks'
    BY <2>1, PacketStays DEF CompilerInv
  <2>3. JobInv(job) => JobInv(job)'
    BY <2>1 DEF JobInv, HostIsAsked, FindingsGrow, EvidenceGrows
  <2> QED BY <2>1, <2>2, <2>3 DEF CompilerInv
<1> QED BY <1>2, <1>3, SubmitKeeps, CheckoutKeeps DEF Next

LEMMA CompilerAlwaysInv == Spec => []CompilerInv
BY CompilerInit, CompilerStep, PTL DEF Spec

\* A candidate accepted without a person has been built in an isolated container
\* of a pinned image, on evidence that names all its modules and no axiom and is of
\* its tree or lay in its snapshot already, with no finding UNKNOWN.
THEOREM AcceptsAreEarned == Spec => []AcceptIsEarned
<1>1. CompilerInv => AcceptIsEarned
  BY DEF CompilerInv
<1> QED BY <1>1, CompilerAlwaysInv, PTL

\* No way through a compilation passes the gate without all six hard checks.
THEOREM HardGatesAreComplete == Spec => []HardGateIsComplete
<1>1. CompilerInv => HardGateIsComplete
  BY DEF CompilerInv
<1> QED BY <1>1, CompilerAlwaysInv, PTL

\* Evidence that counts as complete is of the snapshot or came with it - copied,
\* committed or patched in -, whatever is checked out meanwhile, and whatever
\* earlier compilations left behind.
THEOREM EvidenceIsAlwaysOfSnapshot == Spec => []EvidenceIsOfSnapshot
<1>1. CompilerInv => EvidenceIsOfSnapshot
  BY DEF CompilerInv
<1> QED BY <1>1, CompilerAlwaysInv, PTL

\* No escalation is silent unless all was in order and it is the contract or the
\* executor that does not let the candidate pass alone.
THEOREM EscalationsAsk == Spec => []EscalationAsks
<1>1. CompilerInv => EscalationAsks
  BY DEF CompilerInv
<1> QED BY <1>1, CompilerAlwaysInv, PTL

\* Whoever is built for on the host has asked for it, and the policy allows it.
THEOREM HostBuildsAreAsked == Spec => []HostBuildIsAsked
<1>1. CompilerInv => HostBuildIsAsked
  BY DEF CompilerInv, JobInv, HostIsAsked, HostBuildIsAsked
<1> QED BY <1>1, CompilerAlwaysInv, PTL

-----------------------------------------------------------------------------
(* Of Change: numbers and finite sets *)

\* Some natural numbers have a least one.
LEMMA LeastNumber ==
  ASSUME NEW A \in SUBSET Nat, A # {}
  PROVE  Min(A) \in A /\ \A j \in A : Min(A) <= j
<1> DEFINE Until(i) == {j \in A : j <= i}
           heads == {Until(i) : i \in A}
<1>1. heads \subseteq FiniteSubsetsOf(A) /\ heads # {}
  <2>1. ASSUME NEW i \in A PROVE Until(i) \in SUBSET A /\ IsFiniteSet(Until(i))
    <3>1. IsFiniteSet(0 .. i)
      BY FS_Interval
    <3>2. Until(i) \subseteq 0 .. i
      <4>1. \A j \in A : j \in Nat /\ i \in Nat
        OBVIOUS
      <4>2. \A j \in A : j <= i => j \in 0 .. i
        BY <4>1
      <4> QED BY <4>2
    <3> QED BY <3>1, <3>2, FS_Subset
  <2> QED BY <2>1 DEF FiniteSubsetsOf
<1>2. PICK least \in heads : \A other \in heads : ~(<<other, least>> \in StrictSubsetOrdering(A))
  <2>1. IsWellFoundedOn(StrictSubsetOrdering(A), FiniteSubsetsOf(A))
    BY FS_StrictSubsetOrderingWellFounded
  <2> HIDE DEF heads
  <2> QED BY <1>1, <2>1, WFMin, Zenon
<1>3. PICK i \in A : least = Until(i)
  BY <1>2
<1>4. ASSUME NEW j \in A, j < i PROVE FALSE
  <2>1. \A k \in A : k \in Nat /\ i \in Nat /\ j \in Nat
    OBVIOUS
  <2>2. Until(j) \subseteq Until(i)
    <3>1. \A k \in A : k <= j => k <= i
      BY <1>4, <2>1
    <3> QED BY <3>1
  <2>3. i \in Until(i) /\ i \notin Until(j)
    BY <1>4, <2>1
  <2>4. <<Until(j), Until(i)>> \in StrictSubsetOrdering(A)
    BY <2>2, <2>3 DEF StrictSubsetOrdering
  <2> QED BY <1>2, <1>3, <2>4
<1>5. \A j \in A : i <= j
  BY <1>4
<1> QED BY <1>5 DEF Min

\* What holds at 0 and passes on from each number to the next holds up to n.
LEMMA Ascending ==
  ASSUME NEW n \in Nat, NEW T, 0 \in T, \A k \in 0 .. n : k \in T /\ k < n => k + 1 \in T
  PROVE  \A k \in 0 .. n : k \in T
<1> DEFINE U == {k \in 0 .. n : k \notin T}
<1>1. SUFFICES ASSUME U # {} PROVE FALSE
  OBVIOUS
<1>2. PICK k \in U : \A j \in U : k <= j
  <2>1. U \in SUBSET Nat
    OBVIOUS
  <2> HIDE DEF U
  <2> QED BY <1>1, <2>1, LeastNumber
<1>3. k \in 0 .. n /\ k # 0 /\ k \notin T
  BY <1>2
<1>4. k - 1 \in 0 .. n /\ k - 1 < n /\ k - 1 + 1 = k /\ ~(k <= k - 1)
  BY <1>3
<1>5. k - 1 \in T
  BY <1>2, <1>4
<1> QED BY <1>3, <1>4, <1>5


\* What a function makes of a finite set is finite.
LEMMA FiniteImage ==
  ASSUME NEW A, IsFiniteSet(A), NEW f, DOMAIN f = A
  PROVE  IsFiniteSet({f[x] : x \in A}) /\ Cardinality({f[x] : x \in A}) <= Cardinality(A)
<1> DEFINE T == {f[x] : x \in A}
           g == [x \in A |-> f[x]]
<1>1. g \in Surjection(A, T)
  BY DEF Surjection
<1> HIDE DEF g, T
<1>2. IsFiniteSet(T) /\ Cardinality(T) <= Cardinality(A)
  BY <1>1, FS_Surjection
<1> QED BY <1>2 DEF T

\* The names are finitely many.
LEMMA NamesAreFinite ==
  IsFiniteSet(Range(NameOrder)) /\ Len(NameOrder) \in Nat
      /\ DOMAIN NameOrder = 1 .. Len(NameOrder)
<1>1. Len(NameOrder) \in Nat /\ DOMAIN NameOrder = 1 .. Len(NameOrder)
  BY NamesOrderedOnce, LenProperties
<1>2. IsFiniteSet(1 .. Len(NameOrder))
  BY <1>1, FS_Interval
<1>3. IsFiniteSet({NameOrder[i] : i \in DOMAIN NameOrder})
  BY <1>1, <1>2, FiniteImage
<1> QED BY <1>1, <1>3 DEF Range

-----------------------------------------------------------------------------
(* Of Change: the loops *)

\* One round of the pairing, of the search for uses or of the walk downstream.
Step(loop, acc, i) ==
    CASE loop.of = "renames" ->
            IF NameOrder[i] \in Gone(loop.base, loop.head)
            THEN PairNames(loop.base, loop.head, acc, NameOrder[i])
            ELSE acc
      [] loop.of = "uses" -> Use(acc, loop.mentions[i], loop.known, loop.self, loop.order)
      [] loop.of = "cone" -> Reach(loop.graph, loop.changed, acc)

IsLoop(loop, f, n) ==
    f = [i \in 0 .. n |-> IF i = 0 THEN {} ELSE Step(loop, f[i - 1], i)]

\* There is a function that does the rounds one after another.
LEMMA LoopExists ==
  ASSUME NEW loop, NEW n \in Nat
  PROVE  \E f : IsLoop(loop, f, n)
<1> DEFINE T == {k \in 0 .. n : \E f : IsLoop(loop, f, k)}
<1>1. 0 \in T
  <2> DEFINE f == [i \in 0 .. 0 |-> {}]
  <2>1. IsLoop(loop, f, 0)
    BY DEF IsLoop
  <2> QED BY <2>1
<1>2. ASSUME NEW k \in 0 .. n, k \in T, k < n PROVE k + 1 \in T
  <2>1. PICK f : IsLoop(loop, f, k)
    BY <1>2
  <2> DEFINE g == [i \in 0 .. k + 1 |-> IF i = k + 1 THEN Step(loop, f[k], k + 1) ELSE f[i]]
  <2>2. \A i \in 0 .. k + 1 : g[i] = IF i = 0 THEN {} ELSE Step(loop, g[i - 1], i)
    <3>1. /\ \A i \in 0 .. k : i \in 0 .. k + 1 /\ i # k + 1
          /\ k + 1 \in 0 .. k + 1 /\ k \in 0 .. k /\ k + 1 - 1 = k /\ k + 1 # 0
          /\ \A i \in 0 .. k + 1 : i = k + 1 \/ i \in 0 .. k
          /\ \A i \in 0 .. k : i # 0 => i - 1 \in 0 .. k
      OBVIOUS
    <3>2. g[k + 1] = Step(loop, f[k], k + 1) /\ \A i \in 0 .. k : g[i] = f[i]
      BY <3>1
    <3>3. \A i \in 0 .. k : f[i] = IF i = 0 THEN {} ELSE Step(loop, f[i - 1], i)
      <4> HIDE DEF g
      <4> QED BY <2>1 DEF IsLoop
    <3> HIDE DEF g
    <3> QED BY <3>1, <3>2, <3>3
  <2>3. IsLoop(loop, g, k + 1)
    <3>1. g = [i \in 0 .. k + 1 |-> g[i]]
      OBVIOUS
    <3> HIDE DEF g
    <3> QED BY <2>2, <3>1 DEF IsLoop
  <2>4. k + 1 \in 0 .. n
    BY <1>2
  <2> HIDE DEF g
  <2> QED BY <2>3, <2>4
<1>3. n \in T
  <2>1. n \in 0 .. n
    OBVIOUS
  <2> HIDE DEF T
  <2> QED BY <1>1, <1>2, <2>1, Ascending
<1> QED BY <1>3

\* Renames takes the names of the order one after another.
LEMMA RenamesUnfold ==
  ASSUME NEW b, NEW h
  PROVE  \E upTo :
            /\ Renames(b, h) = upTo[Len(NameOrder)]
            /\ upTo[0] = {}
            /\ \A i \in 1 .. Len(NameOrder) :
                  upTo[i] = IF NameOrder[i] \in Gone(b, h)
                            THEN PairNames(b, h, upTo[i - 1], NameOrder[i])
                            ELSE upTo[i - 1]
<1> DEFINE n == Len(NameOrder)
           Body(f) == [i \in 0 .. n |->
                          IF i = 0 THEN {}
                          ELSE IF NameOrder[i] \in Gone(b, h)
                          THEN PairNames(b, h, f[i - 1], NameOrder[i])
                          ELSE f[i - 1]]
           upTo == CHOOSE f : f = Body(f)
           loop == [of |-> "renames", base |-> b, head |-> h]
<1>1. Renames(b, h) = upTo[n]
  BY DEF Renames
<1>2. n \in Nat
  BY NamesAreFinite
<1>3. PICK f : IsLoop(loop, f, n)
  BY <1>2, LoopExists
<1>4. f = Body(f)
  BY <1>3 DEF IsLoop, Step
<1>5. upTo = Body(upTo)
  <2> HIDE DEF Body
  <2> QED BY <1>4
<1> HIDE DEF upTo
<1>6. upTo[0] = {}
  BY <1>2, <1>5
<1>7. ASSUME NEW i \in 1 .. n
      PROVE  upTo[i] = IF NameOrder[i] \in Gone(b, h)
                       THEN PairNames(b, h, upTo[i - 1], NameOrder[i])
                       ELSE upTo[i - 1]
  <2>1. i \in 0 .. n /\ i # 0
    BY <1>2
  <2>2. upTo[i] = Body(upTo)[i]
    BY <1>5
  <2> QED BY <2>1, <2>2
<1> QED BY <1>1, <1>6, <1>7

\* Uses takes the mentions one after another.
RunsUses(upTo, mentions, known, self, order, n) ==
    /\ Uses(mentions, known, self, order) = upTo[n]
    /\ upTo[0] = {}
    /\ \A i \in 1 .. n : upTo[i] = Use(upTo[i - 1], mentions[i], known, self, order)

LEMMA UsesUnfold ==
  ASSUME NEW mentions, NEW known, NEW self, NEW order, NEW n \in Nat, n = Len(mentions)
  PROVE  \E upTo : RunsUses(upTo, mentions, known, self, order, n)
<1> DEFINE Body(f) == [i \in 0 .. n |->
                          IF i = 0 THEN {} ELSE Use(f[i - 1], mentions[i], known, self, order)]
           upTo == CHOOSE f : f = Body(f)
           loop == [of |-> "uses", mentions |-> mentions, known |-> known, self |-> self,
                    order |-> order]
<1>1. Uses(mentions, known, self, order) = upTo[n]
  BY DEF Uses
<1>2. PICK f : IsLoop(loop, f, n)
  BY LoopExists
<1>3. f = Body(f)
  BY <1>2 DEF IsLoop, Step
<1>4. upTo = Body(upTo)
  <2> HIDE DEF Body
  <2> QED BY <1>3
<1> HIDE DEF upTo
<1>5. upTo[0] = {}
  BY <1>4
<1>6. ASSUME NEW i \in 1 .. n
      PROVE  upTo[i] = Use(upTo[i - 1], mentions[i], known, self, order)
  <2>1. i \in 0 .. n /\ i # 0
    OBVIOUS
  <2>2. upTo[i] = Body(upTo)[i]
    BY <1>4
  <2> QED BY <2>1, <2>2
<1> QED BY <1>1, <1>5, <1>6 DEF RunsUses

\* The walk takes as many rounds as the graph has edges.
RunsCone(after, graph, changed, n) ==
    /\ ImpactCone(graph, changed) = after[n]
    /\ after[0] = {}
    /\ \A i \in 1 .. n : after[i] = Reach(graph, changed, after[i - 1])

LEMMA ConeUnfold ==
  ASSUME NEW graph, NEW changed, NEW n \in Nat, n = Cardinality(graph)
  PROVE  \E after : RunsCone(after, graph, changed, n)
<1> DEFINE Body(f) == [i \in 0 .. n |-> IF i = 0 THEN {} ELSE Reach(graph, changed, f[i - 1])]
           after == CHOOSE f : f = Body(f)
           loop == [of |-> "cone", graph |-> graph, changed |-> changed]
<1>1. ImpactCone(graph, changed) = after[n]
  BY DEF ImpactCone
<1>2. PICK f : IsLoop(loop, f, n)
  BY LoopExists
<1>3. f = Body(f)
  BY <1>2 DEF IsLoop, Step
<1>4. after = Body(after)
  <2> HIDE DEF Body
  <2> QED BY <1>3
<1> HIDE DEF after
<1>5. after[0] = {}
  BY <1>4
<1>6. ASSUME NEW i \in 1 .. n
      PROVE  after[i] = Reach(graph, changed, after[i - 1])
  <2>1. i \in 0 .. n /\ i # 0
    OBVIOUS
  <2>2. after[i] = Body(after)[i]
    BY <1>4
  <2> QED BY <2>1, <2>2
<1> QED BY <1>1, <1>5, <1>6 DEF RunsCone

-----------------------------------------------------------------------------
(* The diff *)

\* Declarations have these fields, and their names are among the ordered ones.
Decls ==
    [kind : Kinds, type : Types \cup {Untyped}, value : Values, vis : Visibilities,
     attrs : SUBSET STRING, axioms : SUBSET Range(NameOrder)]

IsSnapshot(s) ==
    /\ Declared(s) \subseteq Range(NameOrder)
    /\ \A n \in Declared(s) : s.decls[n] \in Decls

\* Each name is in one pair at most, and pairs are of a name that went and one
\* that came.
Paired(b, h, pairs) ==
    /\ pairs \subseteq Gone(b, h) \X New(b, h)
    /\ \A p, q \in pairs : p # q => p[1] # q[1] /\ p[2] # q[2]

\* One round pairs a name that is in no pair with one that is in none either.
LEMMA PairNamesPairs ==
  ASSUME NEW b, NEW h, IsSnapshot(b), IsSnapshot(h), NEW pairs, Paired(b, h, pairs),
         NEW old \in Gone(b, h), \A p \in pairs : p[1] # old
  PROVE  /\ Paired(b, h, PairNames(b, h, pairs, old))
         /\ \A p \in PairNames(b, h, pairs, old) : p \in pairs \/ p[1] = old
<1> DEFINE targets == {n \in New(b, h) : /\ SameShape(b.decls[old], h.decls[n])
                                         /\ n \notin {p[2] : p \in pairs}}
<1>1. CASE Cardinality(targets) = 1
  <2>1. IsFiniteSet(targets)
    <3>1. targets \in SUBSET Range(NameOrder)
      BY DEF IsSnapshot, New
    <3> HIDE DEF targets
    <3> QED BY <3>1, NamesAreFinite, FS_Subset
  <2>2. PICK new : targets = {new}
    <3> HIDE DEF targets
    <3> QED BY <1>1, <2>1, FS_Singleton
  <2>3. new \in New(b, h) /\ \A p \in pairs : p[2] # new
    BY <2>2
  <2>4. PairNames(b, h, pairs, old) = pairs \cup {<<old, n>> : n \in targets}
    BY <1>1 DEF PairNames
  <2>5. PairNames(b, h, pairs, old) = pairs \cup {<<old, new>>}
    <3> HIDE DEF targets
    <3> QED BY <2>2, <2>4
  <2> HIDE DEF targets
  <2>6. PairNames(b, h, pairs, old) \subseteq Gone(b, h) \X New(b, h)
    BY <2>3, <2>5 DEF Paired
  <2>7. ASSUME NEW p \in PairNames(b, h, pairs, old), NEW q \in PairNames(b, h, pairs, old),
               p # q
        PROVE  p[1] # q[1] /\ p[2] # q[2]
    BY <2>3, <2>5, <2>7 DEF Paired
  <2>8. \A p \in PairNames(b, h, pairs, old) : p \in pairs \/ p[1] = old
    BY <2>5
  <2> QED BY <2>6, <2>7, <2>8 DEF Paired
<1>2. CASE Cardinality(targets) # 1
  <2>1. PairNames(b, h, pairs, old) = pairs
    BY <1>2 DEF PairNames
  <2> QED BY <2>1
<1> QED BY <1>1, <1>2

\* All the rounds: no name is taken twice, because the order has it once.
LEMMA RenamesPair ==
  ASSUME NEW b, NEW h, IsSnapshot(b), IsSnapshot(h)
  PROVE  Paired(b, h, Renames(b, h))
<1> DEFINE n == Len(NameOrder)
<1>1. PICK upTo : /\ Renames(b, h) = upTo[n]
                  /\ upTo[0] = {}
                  /\ \A i \in 1 .. n :
                        upTo[i] = IF NameOrder[i] \in Gone(b, h)
                                  THEN PairNames(b, h, upTo[i - 1], NameOrder[i])
                                  ELSE upTo[i - 1]
  BY RenamesUnfold
<1>2. n \in Nat /\ DOMAIN NameOrder = 1 .. n
  BY NamesAreFinite
<1> HIDE DEF n
<1> DEFINE Early(i) == \A p \in upTo[i] : \E j \in 1 .. i : p[1] = NameOrder[j]
           T == {i \in 0 .. n : Paired(b, h, upTo[i]) /\ Early(i)}
<1>3. 0 \in T
  BY <1>1, <1>2 DEF Paired
<1>4. ASSUME NEW k \in 0 .. n, k \in T, k < n PROVE k + 1 \in T
  <2>1. k + 1 \in 1 .. n /\ k + 1 \in 0 .. n /\ k + 1 - 1 = k /\ k \in Nat
    BY <1>2, <1>4
  <2>2. Paired(b, h, upTo[k]) /\ Early(k)
    BY <1>4
  <2>3. Early(k) => \A p \in upTo[k] : \E j \in 1 .. k + 1 : p[1] = NameOrder[j]
    <3>1. \A j \in 1 .. k : j \in 1 .. k + 1
      BY <2>1
    <3> QED BY <3>1
  <2>4. CASE NameOrder[k + 1] \in Gone(b, h)
    <3>1. upTo[k + 1] = PairNames(b, h, upTo[k], NameOrder[k + 1])
      BY <1>1, <2>1, <2>4
    <3>2. \A p \in upTo[k] : p[1] # NameOrder[k + 1]
      <4>1. \A j \in 1 .. k : j \in 1 .. n /\ j # k + 1
        BY <1>2, <2>1
      <4>2. \A j \in 1 .. k : NameOrder[j] # NameOrder[k + 1]
        BY <1>2, <2>1, <4>1, NamesOrderedOnce
      <4> QED BY <2>2, <4>2
    <3>3. /\ Paired(b, h, upTo[k + 1])
          /\ \A p \in upTo[k + 1] : p \in upTo[k] \/ p[1] = NameOrder[k + 1]
      BY <2>2, <2>4, <3>1, <3>2, PairNamesPairs
    <3>4. k + 1 \in 1 .. k + 1
      BY <2>1
    <3>5. Early(k + 1)
      BY <2>2, <2>3, <3>3, <3>4
    <3> QED BY <2>1, <3>3, <3>5
  <2>5. CASE NameOrder[k + 1] \notin Gone(b, h)
    <3>1. upTo[k + 1] = upTo[k]
      BY <1>1, <2>1, <2>5
    <3>2. Early(k + 1)
      BY <2>2, <2>3, <3>1
    <3> QED BY <2>1, <2>2, <3>1, <3>2
  <2> QED BY <2>4, <2>5
<1>5. n \in T
  <2>1. n \in 0 .. n
    BY <1>2
  <2> HIDE DEF T
  <2> QED BY <1>2, <1>3, <1>4, <2>1, Ascending
<1> QED BY <1>1, <1>5

\* The diff of two snapshots reports every difference, and each once.
LEMMA DiffAccounts ==
  ASSUME NEW b, NEW h, IsSnapshot(b), IsSnapshot(h)
  PROVE  DiffAccountsForAll(b, h)
<1> DEFINE renamed == Renames(b, h)
           came == {p[2] : p \in renamed}
           went == {p[1] : p \in renamed}
           diff == Diff(b, h)
<1>1. /\ renamed \subseteq Gone(b, h) \X New(b, h)
      /\ \A p, q \in renamed : p # q => p[1] # q[1] /\ p[2] # q[2]
  BY RenamesPair DEF Paired
<1>2. /\ diff.renamed = renamed
      /\ diff.added = New(b, h) \ came
      /\ diff.removed = Gone(b, h) \ went
  BY DEF Diff
<1>3. /\ diff.type = {n \in Shared(b, h) : b.decls[n].type # h.decls[n].type}
      /\ diff.body = {n \in Shared(b, h) : BodyOnly(b.decls[n], h.decls[n])}
      /\ diff.visibility = {n \in Shared(b, h) : b.decls[n].vis # h.decls[n].vis}
      /\ diff.attributes = {n \in Shared(b, h) : b.decls[n].attrs # h.decls[n].attrs}
      /\ diff.axioms = {n \in Shared(b, h) : b.decls[n].axioms # h.decls[n].axioms}
  BY DEF Diff
<1> HIDE DEF diff, renamed
<1>4. came \subseteq New(b, h) /\ went \subseteq Gone(b, h)
  BY <1>1
<1>5. New(b, h) \cap Gone(b, h) = {}
  BY DEF New, Gone
<1>6. /\ diff.added \cap diff.removed = {} /\ diff.added \cap went = {}
      /\ diff.added \cap came = {} /\ diff.removed \cap went = {}
      /\ diff.removed \cap came = {} /\ went \cap came = {}
  BY <1>2, <1>4, <1>5
<1>7. /\ diff.added \cup came = New(b, h)
      /\ diff.removed \cup went = Gone(b, h)
  BY <1>2, <1>4
<1>8. diff.type \cup diff.body \cup diff.visibility \cup diff.attributes \cup diff.axioms
        = {n \in Shared(b, h) : \E f \in {"type", "value", "vis", "attrs", "axioms"} :
                                    b.decls[n][f] # h.decls[n][f]}
  <2>1. ASSUME NEW n \in Shared(b, h)
        PROVE  (\E f \in {"type", "value", "vis", "attrs", "axioms"} :
                    b.decls[n][f] # h.decls[n][f])
               <=> \/ n \in diff.type \/ n \in diff.body \/ n \in diff.visibility
                   \/ n \in diff.attributes \/ n \in diff.axioms
    BY <1>3 DEF BodyOnly
  <2> QED BY <1>3, <2>1
<1>9. Reported(diff) = <<diff.added, diff.removed, went, came>>
  BY <1>2 DEF Reported
<1>10. \A i, j \in DOMAIN Reported(diff) : i # j => Reported(diff)[i] \cap Reported(diff)[j] = {}
  <2> DEFINE sides == <<diff.added, diff.removed, went, came>>
  <2>1. DOMAIN sides = {1, 2, 3, 4}
    OBVIOUS
  <2>2. /\ sides[1] = diff.added /\ sides[2] = diff.removed
        /\ sides[3] = went /\ sides[4] = came
    OBVIOUS
  <2> HIDE DEF sides, went, came
  <2>3. ASSUME NEW i \in DOMAIN sides, NEW j \in DOMAIN sides, i # j
        PROVE  sides[i] \cap sides[j] = {}
    BY <1>6, <2>1, <2>2, <2>3
  <2> QED BY <1>9, <2>3 DEF sides
<1>11. /\ Reported(diff)[1] \cup Reported(diff)[4] = New(b, h)
       /\ Reported(diff)[2] \cup Reported(diff)[3] = Gone(b, h)
  <2> HIDE DEF went, came
  <2> QED BY <1>7, <1>9
<1> QED BY <1>1, <1>2, <1>8, <1>10, <1>11 DEF DiffAccountsForAll, diff

-----------------------------------------------------------------------------
(* The risk of a diff *)

\* Some risk classes have a highest one.
LEMMA HighestRisk ==
  ASSUME NEW A \in SUBSET (0 .. 4), A # {}
  PROVE  Max(A) \in A /\ \A y \in A : Max(A) >= y
<1>1. \E x \in A : \A y \in A : x >= y
  <2>1. \A y \in A : y \in {0, 1, 2, 3, 4}
    OBVIOUS
  <2>2. CASE 4 \in A
    <3>1. \A y \in A : 4 >= y
      BY <2>1
    <3> QED BY <2>2, <3>1
  <2>3. CASE 4 \notin A /\ 3 \in A
    <3>1. \A y \in A : 3 >= y
      BY <2>1, <2>3
    <3> QED BY <2>3, <3>1
  <2>4. CASE 4 \notin A /\ 3 \notin A /\ 2 \in A
    <3>1. \A y \in A : 2 >= y
      BY <2>1, <2>4
    <3> QED BY <2>4, <3>1
  <2>5. CASE 4 \notin A /\ 3 \notin A /\ 2 \notin A
    <3>1. \A y \in A : y = 0 \/ y = 1
      BY <2>1, <2>5
    <3>2. CASE 1 \in A
      <4>1. \A y \in A : 1 >= y
        BY <3>1
      <4> QED BY <3>2, <4>1
    <3>3. CASE 1 \notin A
      <4>1. \A y \in A : y = 0
        BY <3>1, <3>3
      <4>2. PICK y \in A : TRUE
        OBVIOUS
      <4> QED BY <4>1, <4>2
    <3> QED BY <3>2, <3>3
  <2> QED BY <2>2, <2>3, <2>4, <2>5
<1> QED BY <1>1 DEF Max

\* What each kind of change contributes.
LEMMA RiskOfKinds ==
  ASSUME NEW n, NEW decl \in Decls
  PROVE  /\ RemovalRisk(n, decl) \in {2, 4}
         /\ TypeRisk(n) \in {3, 4}
         /\ AdditionRisk(n, decl) \in {1, 2, 3, 4}
         /\ BodyRisk(decl) \in {0, 1}
         /\ BodyRisk(decl) = 0 => decl.vis # "private" /\ decl.kind = "theorem"
<1>1. AdditionRisk(n, decl) \in {1, 2, 3, 4}
  <2>1. CASE n \in Foundational
    BY <2>1 DEF AdditionRisk
  <2>2. CASE n \notin Foundational /\ decl.vis = "private"
    BY <2>2 DEF AdditionRisk
  <2>3. CASE n \notin Foundational /\ decl.vis # "private"
    BY <2>3 DEF AdditionRisk
  <2> QED BY <2>1, <2>2, <2>3
<1>2. RemovalRisk(n, decl) \in {2, 4} /\ TypeRisk(n) \in {3, 4}
  BY DEF RemovalRisk, TypeRisk
<1>3. /\ BodyRisk(decl) \in {0, 1}
      /\ BodyRisk(decl) = 0 => decl.vis # "private" /\ decl.kind = "theorem"
  BY DEF BodyRisk
<1> QED BY <1>1, <1>2, <1>3

\* A candidate of risk R0 has no change that contributes more.
LEMMA LowestRisk ==
  ASSUME NEW b, NEW h, IsSnapshot(b), IsSnapshot(h), DiffRisk(b, h, FALSE, FALSE) = 0,
         IsFiniteSet(Ends(Differ(b.imports, h.imports)))
  PROVE  StatementsKept(b, h)
<1> DEFINE diff == Diff(b, h)
           risks == Risks(b, h, diff)
<1>1. /\ diff.added \subseteq Declared(h) /\ diff.removed \subseteq Declared(b)
      /\ diff.body \subseteq Shared(b, h) /\ diff.renamed = Renames(b, h)
      /\ diff.added = New(b, h) \ {p[2] : p \in Renames(b, h)}
      /\ diff.removed = Gone(b, h) \ {p[1] : p \in Renames(b, h)}
  BY DEF Diff, New, Gone
<1>2. /\ diff.type = {n \in Shared(b, h) : b.decls[n].type # h.decls[n].type}
      /\ diff.body = {n \in Shared(b, h) : BodyOnly(b.decls[n], h.decls[n])}
      /\ diff.visibility = {n \in Shared(b, h) : b.decls[n].vis # h.decls[n].vis}
      /\ diff.attributes = {n \in Shared(b, h) : b.decls[n].attrs # h.decls[n].attrs}
      /\ diff.axioms = {n \in Shared(b, h) : b.decls[n].axioms # h.decls[n].axioms}
  BY DEF Diff
<1>3. Max(risks) = 0
  BY DEF DiffRisk
<1> HIDE DEF diff
<1>4. /\ \A n \in diff.removed : b.decls[n] \in Decls
      /\ \A n \in diff.added \cup diff.body : h.decls[n] \in Decls
  BY <1>1 DEF IsSnapshot, Shared
<1>5. risks \in SUBSET (0 .. 4) /\ risks # {}
  <2>1. {RemovalRisk(n, b.decls[n]) : n \in diff.removed} \subseteq 0 .. 4
    BY <1>4, RiskOfKinds
  <2>2. {TypeRisk(n) : n \in diff.type \cup diff.axioms} \subseteq 0 .. 4
    BY DEF TypeRisk
  <2>3. {AdditionRisk(n, h.decls[n]) : n \in diff.added} \subseteq 0 .. 4
    BY <1>4, RiskOfKinds
  <2>4. {BodyRisk(h.decls[n]) : n \in diff.body} \subseteq 0 .. 4
    BY DEF BodyRisk
  <2>5. /\ {3 : n \in diff.visibility \cup diff.attributes} \subseteq 0 .. 4
        /\ {2 : p \in diff.renamed} \subseteq 0 .. 4
        /\ (IF Cardinality(diff.imports) >= BroadImports THEN {4} ELSE {}) \subseteq 0 .. 4
        /\ {0} \subseteq 0 .. 4
    OBVIOUS
  <2>6. risks \subseteq 0 .. 4
    BY <2>1, <2>2, <2>3, <2>4, <2>5 DEF Risks
  <2>7. 0 \in risks
    BY DEF Risks
  <2> QED BY <2>6, <2>7
<1>6. \A r \in risks : r = 0
  <2> HIDE DEF risks
  <2>1. \A r \in risks : 0 >= r
    BY <1>3, <1>5, HighestRisk
  <2>2. \A r \in risks : r \in 0 .. 4
    BY <1>5
  <2> QED BY <2>1, <2>2
<1>7. /\ \A n \in diff.removed : RemovalRisk(n, b.decls[n]) = 0
      /\ \A n \in diff.type \cup diff.axioms : TypeRisk(n) = 0
      /\ \A n \in diff.visibility \cup diff.attributes : 3 = 0
      /\ \A n \in diff.added : AdditionRisk(n, h.decls[n]) = 0
      /\ \A n \in diff.body : BodyRisk(h.decls[n]) = 0
      /\ \A p \in diff.renamed : 2 = 0
  <2>1. /\ \A n \in diff.removed : RemovalRisk(n, b.decls[n]) \in risks
        /\ \A n \in diff.type \cup diff.axioms : TypeRisk(n) \in risks
    BY DEF Risks
  <2>2. /\ \A n \in diff.visibility \cup diff.attributes : 3 \in risks
        /\ \A p \in diff.renamed : 2 \in risks
    BY DEF Risks
  <2>3. /\ \A n \in diff.added : AdditionRisk(n, h.decls[n]) \in risks
        /\ \A n \in diff.body : BodyRisk(h.decls[n]) \in risks
    BY DEF Risks
  <2> HIDE DEF risks
  <2> QED BY <1>6, <2>1, <2>2, <2>3
<1>8. diff.removed = {} /\ diff.added = {} /\ diff.renamed = {}
  BY <1>4, <1>7, RiskOfKinds
<1>9. /\ diff.type = {} /\ diff.axioms = {} /\ diff.visibility = {} /\ diff.attributes = {}
  <2>1. \A n : TypeRisk(n) # 0
    BY DEF TypeRisk
  <2> QED BY <1>7, <2>1
<1>10. Declared(b) = Declared(h)
  <2>1. New(b, h) = {} /\ Gone(b, h) = {}
    BY <1>1, <1>8
  <2> QED BY <2>1 DEF New, Gone
<1>11. ASSUME NEW n \in Declared(h)
       PROVE  /\ h.decls[n] = [b.decls[n] EXCEPT !.value = h.decls[n].value,
                                                 !.kind = h.decls[n].kind]
              /\ h.decls[n].value # b.decls[n].value =>
                    h.decls[n].kind = "theorem" /\ h.decls[n].vis # "private"
  <2>1. n \in Shared(b, h) /\ b.decls[n] \in Decls /\ h.decls[n] \in Decls
    BY <1>10 DEF Shared, IsSnapshot
  <2>2. /\ b.decls[n].type = h.decls[n].type /\ b.decls[n].vis = h.decls[n].vis
        /\ b.decls[n].attrs = h.decls[n].attrs /\ b.decls[n].axioms = h.decls[n].axioms
    BY <1>2, <1>9, <2>1
  <2>3. h.decls[n] = [b.decls[n] EXCEPT !.value = h.decls[n].value, !.kind = h.decls[n].kind]
    BY <2>1, <2>2 DEF Decls
  <2>4. ASSUME h.decls[n].value # b.decls[n].value
        PROVE  h.decls[n].kind = "theorem" /\ h.decls[n].vis # "private"
    <3>1. n \in diff.body
      BY <1>2, <2>1, <2>2, <2>4 DEF BodyOnly
    <3> QED BY <1>7, <2>1, <3>1, RiskOfKinds
  <2> QED BY <2>3, <2>4
<1>12. Cardinality(Ends(Differ(b.imports, h.imports))) < BroadImports
  <2> DEFINE ends == Ends(Differ(b.imports, h.imports))
  <2>1. diff.imports = ends
    BY DEF Diff, diff
  <2>2. Cardinality(ends) \in Nat
    BY FS_CardinalityType
  <2>3. ~(Cardinality(ends) >= BroadImports)
    <3> SUFFICES ASSUME Cardinality(ends) >= BroadImports PROVE FALSE
      OBVIOUS
    <3>1. 4 \in risks
      BY <2>1 DEF Risks
    <3> HIDE DEF risks
    <3> QED BY <1>6, <3>1
  <2> HIDE DEF ends
  <2>4. Cardinality(ends) < BroadImports
    BY <2>2, <2>3 DEF BroadImports
  <2> QED BY <2>4 DEF ends
<1> QED BY <1>10, <1>11, <1>12 DEF StatementsKept

-----------------------------------------------------------------------------
(* The projects an author can get to *)

\* The projects are projects.
ChangeType == base \in [Modules -> Files] /\ head \in [Modules -> Files]

\* A place has a header, and the name it declares is one of the ordered names.
LEMMA HeaderOfPlace ==
  ASSUME NEW project \in [Modules -> Files], NEW m \in Modules,
         NEW i \in DOMAIN project[m].headers
  PROVE  /\ project[m] \in Files /\ project[m].headers \in Seq(Headers)
         /\ i \in 1 .. Len(project[m].headers)
         /\ project[m].headers[i] \in Headers /\ project[m].headers[i].name \in Written
         /\ FullName(m, project[m].headers[i].name) \in Range(NameOrder)
<1>1. project[m] \in Files /\ project[m].headers \in Seq(Headers)
  BY DEF Files
<1>2. i \in 1 .. Len(project[m].headers)
  BY <1>1, LenProperties
<1>3. project[m].headers[i] \in Headers
  BY <1>1, <1>2, ElementOfSeq
<1>4. project[m].headers[i].name \in Written
  BY <1>3 DEF Headers
<1> QED BY <1>1, <1>2, <1>3, <1>4, ChangeAssumptions

\* The same, for a place as a pair.
LEMMA PlaceParts ==
  ASSUME NEW project \in [Modules -> Files], NEW place \in Places(project)
  PROVE  /\ place[1] \in Modules /\ place[2] \in DOMAIN project[place[1]].headers
         /\ place = <<place[1], place[2]>>
         /\ project[place[1]] \in Files /\ project[place[1]].headers \in Seq(Headers)
         /\ place[2] \in 1 .. Len(project[place[1]].headers)
         /\ At(project, place) \in Headers
         /\ At(project, place) = project[place[1]].headers[place[2]]
         /\ NameAt(project, place) \in Range(NameOrder)
<1>1. PICK m \in Modules : \E i \in DOMAIN project[m].headers : place = <<m, i>>
  BY DEF Places
<1>2. PICK i \in DOMAIN project[m].headers : place = <<m, i>>
  BY <1>1
<1>3. place[1] = m /\ place[2] = i
  BY <1>2
<1> QED BY <1>2, <1>3, HeaderOfPlace DEF At, NameAt

\* What the toolchain reports of a project is a snapshot.
LEMMA ElaborateIsSnapshot ==
  ASSUME NEW project \in [Modules -> Files]
  PROVE  IsSnapshot(Elaborate(project))
<1> DEFINE place(n) == CHOOSE place \in Places(project) : NameAt(project, place) = n
           header(n) == At(project, place(n))
           s == Elaborate(project)
<1>1. /\ Declared(s) = NamesOf(project)
      /\ \A n \in NamesOf(project) :
            s.decls[n] = [kind |-> header(n).kind, type |-> header(n).type,
                          value |-> header(n).value, attrs |-> {},
                          vis |-> IF header(n).private THEN "private" ELSE "public",
                          axioms |-> IF header(n).kind = "axiom" THEN {n} ELSE {}]
  BY DEF Elaborate, Declared
<1>2. NamesOf(project) = {NameAt(project, p) : p \in Places(project)}
  <2>1. ASSUME NEW m \in Modules, NEW i \in DOMAIN project[m].headers
        PROVE  /\ <<m, i>> \in Places(project)
               /\ NameAt(project, <<m, i>>) = FullName(m, project[m].headers[i].name)
    BY DEF Places, NameAt, At
  <2>2. ASSUME NEW n \in NamesOf(project) PROVE \E p \in Places(project) : NameAt(project, p) = n
    <3>1. PICK m \in Modules : n \in NamesIn(m, project[m])
      BY DEF NamesOf
    <3>2. PICK i \in DOMAIN project[m].headers : n = FullName(m, project[m].headers[i].name)
      BY <3>1 DEF NamesIn
    <3> QED BY <2>1, <3>2
  <2>3. ASSUME NEW p \in Places(project) PROVE NameAt(project, p) \in NamesOf(project)
    BY PlaceParts DEF NameAt, NamesOf, NamesIn
  <2> QED BY <2>2, <2>3
<1>3. ASSUME NEW n \in NamesOf(project) PROVE s.decls[n] \in Decls
  <2>1. place(n) \in Places(project)
    BY <1>2
  <2>2. header(n) \in Headers
    <3> HIDE DEF place
    <3> QED BY <2>1, PlaceParts
  <2>3. n \in Range(NameOrder)
    BY <1>2, PlaceParts
  <2> HIDE DEF header, s
  <2>4. /\ header(n).kind \in Kinds /\ header(n).type \in Types \cup {Untyped}
        /\ header(n).value \in Values
    BY <2>2 DEF Headers
  <2>5. /\ (IF header(n).private THEN "private" ELSE "public") \in Visibilities
        /\ (IF header(n).kind = "axiom" THEN {n} ELSE {}) \in SUBSET Range(NameOrder)
        /\ {} \in SUBSET STRING
    BY <2>3 DEF Visibilities
  <2>6. s.decls[n] = [kind |-> header(n).kind, type |-> header(n).type,
                      value |-> header(n).value, attrs |-> {},
                      vis |-> IF header(n).private THEN "private" ELSE "public",
                      axioms |-> IF header(n).kind = "axiom" THEN {n} ELSE {}]
    BY <1>1
  <2> QED BY <2>4, <2>5, <2>6 DEF Decls
<1>4. NamesOf(project) \subseteq Range(NameOrder)
  BY <1>2, PlaceParts
<1> HIDE DEF s
<1>5. IsSnapshot(s)
  BY <1>1, <1>3, <1>4 DEF IsSnapshot
<1> QED BY <1>5 DEF s

\* An edit makes another project of a project.
LEMMA EditType ==
  ASSUME ChangeType, NEW m \in Modules, NEW file \in Files, Edit(m, file)
  PROVE  ChangeType'
BY DEF ChangeType, Edit

\* A file with another header in the place of one of its headers.
LEMMA ReplacedHeader ==
  ASSUME NEW file \in Files, NEW i \in 1 .. Len(file.headers), NEW h \in Headers
  PROVE  [file EXCEPT !.headers[i] = h] \in Files
<1>1. file.headers \in Seq(Headers)
  BY DEF Files
<1>2. [file.headers EXCEPT ![i] = h] \in Seq(Headers)
  BY <1>1, ExceptSeq
<1>3. [file EXCEPT !.headers = [file.headers EXCEPT ![i] = h]] \in Files
  BY <1>2 DEF Files
<1> QED BY <1>3

\* A header an author rewrote is a header.
LEMMA RewrittenType ==
  ASSUME NEW h \in Headers
  PROVE  Rewritten(h) \subseteq Headers
<1>1. \A p \in Types \X Values : [h EXCEPT !.type = p[1], !.value = p[2]] \in Headers
  BY DEF Headers
<1>2. [h EXCEPT !.private = ~h.private] \in Headers
  BY DEF Headers
<1>3. [h EXCEPT !.kind = IF h.kind = "axiom" THEN "theorem" ELSE "axiom"] \in Headers
  <2>1. (IF h.kind = "axiom" THEN "theorem" ELSE "axiom") \in Kinds
    BY DEF Kinds, PublicTypeKinds
  <2> QED BY <2>1 DEF Headers
<1>4. {[h EXCEPT !.type = p[1], !.value = p[2]] : p \in Types \X Values} \subseteq Headers
  BY <1>1
<1>5. {[h EXCEPT !.private = ~h.private],
       [h EXCEPT !.kind = IF h.kind = "axiom" THEN "theorem" ELSE "axiom"]} \subseteq Headers
  BY <1>2, <1>3
<1> QED BY <1>4, <1>5, Zenon DEF Rewritten

\* Every edit makes a project of a project.
LEMMA ChangeTypeStep ==
  ASSUME ChangeType, [ChangeNext]_changeVars
  PROVE  ChangeType'
<1> USE DEF ChangeType
<1>1. CASE Rewrite
  <2>1. PICK place \in Places(head) :
           \E new \in Rewritten(At(head, place)) :
               Edit(place[1], [head[place[1]] EXCEPT !.headers[place[2]] = new])
    BY <1>1 DEF Rewrite
  <2>2. PICK new \in Rewritten(At(head, place)) :
           Edit(place[1], [head[place[1]] EXCEPT !.headers[place[2]] = new])
    BY <2>1
  <2>3. new \in Headers
    BY PlaceParts, RewrittenType
  <2>4. [head[place[1]] EXCEPT !.headers[place[2]] = new] \in Files
    BY <2>3, PlaceParts, ReplacedHeader
  <2> QED BY <2>2, <2>4, PlaceParts, EditType
<1>2. CASE Rename
  <2>1. PICK place \in Places(head), n \in Written :
           Edit(place[1], [head[place[1]] EXCEPT !.headers[place[2]].name = n])
    BY <1>2 DEF Rename
  <2>2. [At(head, place) EXCEPT !.name = n] \in Headers
    BY PlaceParts DEF Headers
  <2>3. [head[place[1]] EXCEPT !.headers[place[2]] = [At(head, place) EXCEPT !.name = n]] \in Files
    BY <2>2, PlaceParts, ReplacedHeader
  <2>4. [head[place[1]] EXCEPT !.headers[place[2]].name = n] \in Files
    BY <2>3 DEF At
  <2> QED BY <2>1, <2>4, PlaceParts, EditType
<1>3. CASE Drop
  <2>1. PICK place \in Places(head) :
           Edit(place[1], [head[place[1]] EXCEPT !.headers = RemoveAt(@, place[2])])
    BY <1>3 DEF Drop
  <2> DEFINE file == head[place[1]]
             i == place[2]
  <2>2. file \in Files /\ file.headers \in Seq(Headers) /\ i \in 1 .. Len(file.headers)
    BY PlaceParts
  <2> HIDE DEF file, i
  <2>3. Len(file.headers) \in Nat
    BY <2>2, LenProperties
  <2>4. /\ SubSeq(file.headers, 1, i - 1) \in Seq(Headers)
        /\ SubSeq(file.headers, i + 1, Len(file.headers)) \in Seq(Headers)
    BY <2>2, <2>3, SubSeqProperties
  <2>5. RemoveAt(file.headers, i) \in Seq(Headers)
    BY <2>4, ConcatProperties DEF RemoveAt
  <2>6. [file EXCEPT !.headers = RemoveAt(@, i)] \in Files
    BY <2>2, <2>5 DEF Files
  <2> QED BY <2>1, <2>6, PlaceParts, EditType DEF file, i
<1>4. CASE Add
  <2>1. PICK m \in Modules, h \in Additions : Edit(m, [head[m] EXCEPT !.headers = Append(@, h)])
    BY <1>4 DEF Add
  <2>2. head[m] \in Files /\ head[m].headers \in Seq(Headers) /\ h \in Headers
    BY ChangeAssumptions DEF Files
  <2>3. Append(head[m].headers, h) \in Seq(Headers)
    BY <2>2, AppendProperties
  <2>4. [head[m] EXCEPT !.headers = Append(@, h)] \in Files
    BY <2>2, <2>3 DEF Files
  <2> QED BY <2>1, <2>4, EditType
<1>5. CASE Import
  <2>1. PICK m \in Modules, i \in Modules :
           Edit(m, [head[m] EXCEPT !.imports = IF i \in @ THEN @ \ {i} ELSE @ \cup {i}])
    BY <1>5 DEF Import
  <2>2. head[m] \in Files
    OBVIOUS
  <2>3. [head[m] EXCEPT !.imports = IF i \in @ THEN @ \ {i} ELSE @ \cup {i}] \in Files
    BY <2>2 DEF Files
  <2> QED BY <2>1, <2>3, EditType
<1>6. CASE UNCHANGED changeVars
  BY <1>6 DEF changeVars
<1> QED BY <1>1, <1>2, <1>3, <1>4, <1>5, <1>6 DEF ChangeNext

\* So both versions are projects for ever.
LEMMA ChangeTypeAlways == ChangeSpec => []ChangeType
<1>1. ChangeInit => ChangeType
  BY ChangeAssumptions DEF ChangeInit, ChangeType
<1>2. ChangeType /\ [ChangeNext]_changeVars => ChangeType'
  BY ChangeTypeStep
<1> QED BY <1>1, <1>2, PTL DEF ChangeSpec

-----------------------------------------------------------------------------
(* The walk downstream *)

\* One mention adds a known name or none.
LEMMA UseIsKnown ==
  ASSUME NEW used, NEW ident, NEW known, NEW self, NEW order
  PROVE  Use(used, ident, known, self, order) \subseteq used \cup known
<1> DEFINE similar == {i \in DOMAIN order : /\ Last(order[i]) = Last(ident)
                                           /\ Free(order[i], used, known, self)}
<1>1. CASE ident = self
  BY <1>1 DEF Use
<1>2. CASE ident # self /\ Free(ident, used, known, self)
  <2>1. ident \in known
    BY <1>2 DEF Free
  <2>2. Use(used, ident, known, self, order) = used \cup {ident}
    BY <1>2 DEF Use
  <2> QED BY <2>1, <2>2
<1>3. CASE ident # self /\ ~Free(ident, used, known, self)
  <2>1. \A i \in similar : order[i] \in known
    BY DEF Free
  <2>2. Use(used, ident, known, self, order)
          = used \cup {order[i] : i \in {j \in similar : \A k \in similar : j <= k}}
    BY <1>3 DEF Use
  <2> HIDE DEF similar
  <2> QED BY <2>1, <2>2
<1> QED BY <1>1, <1>2, <1>3

\* What a body uses is declared in its file.
LEMMA UsesAreKnown ==
  ASSUME NEW mentions, Len(mentions) \in Nat, NEW known, NEW self, NEW order
  PROVE  Uses(mentions, known, self, order) \subseteq known
<1> DEFINE n == Len(mentions)
<1>1. n \in Nat
  OBVIOUS
<1>2. PICK upTo : RunsUses(upTo, mentions, known, self, order, n)
  BY <1>1, UsesUnfold
<1> HIDE DEF n
<1> USE DEF RunsUses
<1> DEFINE T == {i \in 0 .. n : upTo[i] \subseteq known}
<1>3. 0 \in T
  BY <1>2, <1>1
<1>4. ASSUME NEW k \in 0 .. n, k \in T, k < n PROVE k + 1 \in T
  <2>1. k + 1 \in 1 .. n /\ k + 1 \in 0 .. n /\ k + 1 - 1 = k
    BY <1>1, <1>4
  <2>2. upTo[k + 1] = Use(upTo[k], mentions[k + 1], known, self, order)
    BY <1>2, <2>1
  <2>3. upTo[k + 1] \subseteq upTo[k] \cup known
    BY <2>2, UseIsKnown
  <2> QED BY <1>4, <2>1, <2>3
<1>5. n \in T
  <2>1. n \in 0 .. n
    BY <1>1
  <2> HIDE DEF T
  <2> QED BY <1>1, <1>3, <1>4, <2>1, Ascending
<1> QED BY <1>2, <1>5

\* The walk takes a round for every edge, and a round that adds nothing is the
\* last that could: so whoever depends on what the cone or the change holds is in it.
LEMMA ConeIsClosed ==
  ASSUME NEW graph, IsFiniteSet(graph), NEW changed
  PROVE  Downstream(graph, ImpactCone(graph, changed) \cup changed)
            \subseteq ImpactCone(graph, changed)
<1> DEFINE n == Cardinality(graph)
           target == [e \in graph |-> e[2]]
           targets == {target[e] : e \in graph}
           Closed(r) == Reach(graph, changed, r) = r
<1>1. n \in Nat
  BY FS_CardinalityType
<1>2. PICK after : RunsCone(after, graph, changed, n)
  BY <1>1, ConeUnfold
<1>3. IsFiniteSet(targets) /\ Cardinality(targets) <= n
  <2>1. DOMAIN target = graph
    OBVIOUS
  <2> HIDE DEF target
  <2> QED BY <2>1, FiniteImage
<1>4. \A names : Downstream(graph, names) \subseteq targets
  BY DEF Downstream
<1>5. \A r : r \subseteq Reach(graph, changed, r)
  BY DEF Reach
<1>6. ASSUME NEW r \in SUBSET targets PROVE Reach(graph, changed, r) \in SUBSET targets
  <2> HIDE DEF targets
  <2> QED BY <1>4 DEF Reach
<1> HIDE DEF n, target, targets
<1> DEFINE T == {i \in 0 .. n : /\ after[i] \in SUBSET targets
                                /\ Closed(after[i]) \/ Cardinality(after[i]) >= i}
<1>7. \A r \in SUBSET targets : IsFiniteSet(r) /\ Cardinality(r) \in Nat
  BY <1>3, FS_Subset, FS_CardinalityType
<1>8. 0 \in T
  BY <1>1, <1>2, FS_EmptySet DEF RunsCone
<1>9. ASSUME NEW k \in 0 .. n, k \in T, k < n PROVE k + 1 \in T
  <2>1. k + 1 \in 1 .. n /\ k + 1 \in 0 .. n /\ k + 1 - 1 = k
    BY <1>1, <1>9
  <2>2. after[k + 1] = Reach(graph, changed, after[k])
    BY <1>2, <2>1 DEF RunsCone
  <2>3. after[k] \in SUBSET targets /\ after[k + 1] \in SUBSET targets
    BY <1>6, <1>9, <2>2
  <2>4. CASE Closed(after[k])
    BY <2>1, <2>2, <2>3, <2>4
  <2>5. CASE ~Closed(after[k])
    <3>1. after[k] \subseteq after[k + 1] /\ after[k] # after[k + 1]
      BY <1>5, <2>2, <2>5
    <3>2. /\ Cardinality(after[k]) <= Cardinality(after[k + 1])
          /\ Cardinality(after[k + 1]) # Cardinality(after[k])
      BY <1>7, <2>3, <3>1, FS_Subset
    <3>3. Cardinality(after[k]) >= k
      BY <1>9, <2>5
    <3>4. Cardinality(after[k + 1]) >= k + 1
      BY <1>1, <1>7, <2>3, <3>2, <3>3
    <3> QED BY <2>1, <2>3, <3>4
  <2> QED BY <2>4, <2>5
<1>10. n \in T
  <2>1. n \in 0 .. n
    BY <1>1
  <2> HIDE DEF T
  <2> QED BY <1>1, <1>8, <1>9, <2>1, Ascending
<1>11. Closed(after[n])
  <2>1. SUFFICES ASSUME ~Closed(after[n]) PROVE FALSE
    OBVIOUS
  <2>2. after[n] \in SUBSET targets /\ Cardinality(after[n]) >= n
    BY <1>10, <2>1
  <2>3. Cardinality(after[n]) = Cardinality(targets)
    <3>1. Cardinality(after[n]) <= Cardinality(targets)
      BY <1>3, <2>2, FS_Subset
    <3>2. Cardinality(targets) \in Nat /\ Cardinality(after[n]) \in Nat
      BY <1>7, <2>2
    <3> QED BY <1>1, <1>3, <2>2, <3>1, <3>2
  <2>4. after[n] = targets
    BY <1>3, <2>2, <2>3, FS_Subset
  <2>5. Reach(graph, changed, after[n]) \in SUBSET targets
    BY <1>6, <2>2
  <2> QED BY <1>5, <2>1, <2>4, <2>5
<1> QED BY <1>2, <1>11 DEF Reach, RunsCone

-----------------------------------------------------------------------------
(* The graph of a project *)

\* What the extraction of one file holds.
LEMMA FileParts ==
  ASSUME NEW project \in [Modules -> Files], NEW m \in Modules, NEW order
  PROVE  LET f == FileExtraction(m, project[m], order)
             names == NamesIn(m, project[m])
         IN /\ DeclNames(f) = names /\ names \subseteq Range(NameOrder)
            /\ f.outer = project[m].imports \X names
            /\ f.uses \subseteq names \X names
<1> DEFINE file == project[m]
           full(i) == FullName(m, file.headers[i].name)
           headers == DOMAIN file.headers
           used(i) == Uses(<<file.headers[i].name>> \o file.headers[i].mentions,
                           NamesIn(m, file), full(i), order)
           f == FileExtraction(m, file, order)
           names == NamesIn(m, file)
<1>1. names = {full(i) : i \in headers} /\ names \subseteq Range(NameOrder)
  BY HeaderOfPlace DEF NamesIn
<1>2. DeclNames(f) = {full(i) : i \in headers}
  <2>1. f.decls = {[name |-> full(i), kind |-> file.headers[i].kind, module |-> m,
                    public |-> ~file.headers[i].private] : i \in headers}
    BY DEF FileExtraction
  <2> HIDE DEF f
  <2>2. ASSUME NEW d \in f.decls PROVE d.name \in {full(i) : i \in headers}
    BY <2>1
  <2>3. ASSUME NEW i \in headers PROVE \E d \in f.decls : d.name = full(i)
    <3> DEFINE d == [name |-> full(i), kind |-> file.headers[i].kind, module |-> m,
                     public |-> ~file.headers[i].private]
    <3>1. d \in f.decls
      BY <2>1
    <3>2. d.name = full(i)
      OBVIOUS
    <3> HIDE DEF d
    <3> QED BY <3>1, <3>2
  <2> HIDE DEF full
  <2> QED BY <2>2, <2>3 DEF DeclNames
<1>3. f.outer = file.imports \X names
  BY DEF FileExtraction
<1>4. f.uses = UNION {{<<u, full(i)>> : u \in used(i)} : i \in headers}
  BY DEF FileExtraction
<1>5. ASSUME NEW i \in headers PROVE used(i) \subseteq names
  <2>1. file.headers[i] \in Headers
    BY HeaderOfPlace
  <2>2. /\ <<file.headers[i].name>> \in Seq(Written \cup Identifiers)
        /\ file.headers[i].mentions \in Seq(Written \cup Identifiers)
    <3>1. file.headers[i].mentions \in Seq(Identifiers) /\ file.headers[i].name \in Written
      BY <2>1 DEF Headers
    <3>2. Identifiers \subseteq Written \cup Identifiers
      OBVIOUS
    <3> QED BY <3>1, <3>2, SeqMonotonic
  <2>3. Len(<<file.headers[i].name>> \o file.headers[i].mentions) \in Nat
    BY <2>2, ConcatProperties, LenProperties
  <2> QED BY <2>3, UsesAreKnown
<1>6. f.uses \subseteq names \X names
  <2> HIDE DEF f, used, full, names, headers
  <2> QED BY <1>1, <1>4, <1>5
<1> QED BY <1>1, <1>2, <1>3, <1>6

\* The names and the edges that the extraction of a project has.
LEMMA ExtractionParts ==
  ASSUME NEW project \in [Modules -> Files], NEW order
  PROVE  LET x == LexicalExtraction(project, order)
             names == NamesOf(project)
         IN /\ DeclNames(x) = names /\ names \subseteq Range(NameOrder)
            /\ x.declEdges \subseteq names \X names
            /\ x.edges \subseteq (Modules \cup names) \X names
            /\ \A m \in Modules, u \in Modules : u \in project[m].imports \ names =>
                  \A n \in NamesIn(m, project[m]) : <<u, n>> \in x.edges
<1> DEFINE x == LexicalExtraction(project, order)
           names == NamesOf(project)
           extraction(m) == FileExtraction(m, project[m], order)
           files == {FileExtraction(m, project[m], order) : m \in DOMAIN project}
           known == UNION {DeclNames(f) : f \in files}
           local == UNION {f.uses : f \in files}
           outer == {e \in UNION {f.outer : f \in files} : e[1] \notin known}
<1>1. files = {extraction(m) : m \in Modules}
  OBVIOUS
<1>2. /\ x.decls = UNION {f.decls : f \in files}
      /\ x.edges = outer \cup local
      /\ x.declEdges = local
  BY DEF LexicalExtraction
<1>3. ASSUME NEW m \in Modules
      PROVE  /\ DeclNames(extraction(m)) = NamesIn(m, project[m])
             /\ NamesIn(m, project[m]) \subseteq Range(NameOrder)
             /\ extraction(m).outer = project[m].imports \X NamesIn(m, project[m])
             /\ extraction(m).uses \subseteq NamesIn(m, project[m]) \X NamesIn(m, project[m])
  BY FileParts
<1> HIDE DEF x, extraction, files
<1>4. known = names
  BY <1>1, <1>3 DEF NamesOf
<1>5. DeclNames(x) = known
  BY <1>2 DEF DeclNames
<1>6. names \subseteq Range(NameOrder)
  BY <1>3 DEF NamesOf
<1>7. local \subseteq names \X names
  <2>1. ASSUME NEW m \in Modules PROVE NamesIn(m, project[m]) \subseteq names
    BY DEF NamesOf
  <2> HIDE DEF names
  <2> QED BY <1>1, <1>3, <2>1
<1>8. outer \subseteq (Modules \cup names) \X names
  <2>1. ASSUME NEW m \in Modules
        PROVE  NamesIn(m, project[m]) \subseteq names /\ project[m].imports \subseteq Modules
    BY DEF NamesOf, Files
  <2> HIDE DEF names, known
  <2> QED BY <1>1, <1>3, <2>1
<1>9. ASSUME NEW m \in Modules, NEW u \in Modules, u \in project[m].imports \ names,
             NEW n \in NamesIn(m, project[m])
      PROVE  <<u, n>> \in x.edges
  <2>1. <<u, n>> \in UNION {f.outer : f \in files}
    BY <1>1, <1>3, <1>9
  <2> HIDE DEF names
  <2> QED BY <1>2, <1>4, <1>9, <2>1
<1> HIDE DEF names, known, local, outer
<1> QED BY <1>2, <1>4, <1>5, <1>6, <1>7, <1>8, <1>9 DEF x, names

\* The graph is finite, and what the extraction can name is a module or declared.
LEMMA GraphOfProject ==
  ASSUME NEW project \in [Modules -> Files], NEW order
  PROVE  LET x == LexicalExtraction(project, order)
         IN /\ IsFiniteSet(DependencyGraph(x))
            /\ KnownNames(x) \subseteq Modules \cup NamesOf(project)
            /\ NamesOf(project) \subseteq KnownNames(x)
<1> DEFINE x == LexicalExtraction(project, order)
           names == NamesOf(project)
           ends == Modules \cup names
<1>1. /\ DeclNames(x) = names /\ names \subseteq Range(NameOrder)
      /\ x.declEdges \subseteq names \X names /\ x.edges \subseteq ends \X names
  BY ExtractionParts
<1> HIDE DEF x, names
<1>2. DeclarationEdges(x) \subseteq ends \X names
  BY <1>1 DEF DeclarationEdges, Within
<1>3. DependencyGraph(x) \subseteq ends \X ends
  <2> DEFINE used == {e \in x.edges : e[2] \in DeclNames(x)}
             moved == UNION {{<<n, e[2]>> : n \in DeclaredIn(e[1], DeclNames(x))} :
                                e \in {u \in used : u[1] \notin DeclNames(x)}}
  <2>1. DependencyGraph(x) = DeclarationEdges(x) \cup used \cup moved
    BY DEF DependencyGraph
  <2>2. used \subseteq ends \X ends
    BY <1>1
  <2>3. moved \subseteq ends \X ends
    BY <1>1 DEF DeclaredIn
  <2> HIDE DEF used, moved
  <2> QED BY <1>2, <2>1, <2>2, <2>3
<1>4. IsFiniteSet(DependencyGraph(x))
  <2>1. names \in SUBSET Range(NameOrder)
    BY <1>1
  <2>2. IsFiniteSet(names)
    BY <2>1, NamesAreFinite, FS_Subset
  <2>3. IsFiniteSet(ends)
    BY <2>2, ChangeAssumptions, FS_Union
  <2> HIDE DEF ends
  <2>4. IsFiniteSet(ends \X ends)
    BY <2>3, FS_Product
  <2>5. DependencyGraph(x) \in SUBSET (ends \X ends)
    BY <1>3
  <2> QED BY <2>4, <2>5, FS_Subset
<1>5. KnownNames(x) \subseteq ends /\ names \subseteq KnownNames(x)
  BY <1>1, <1>2 DEF KnownNames
<1> QED BY <1>4, <1>5 DEF x, names

\* A full name has more than one component, and its front is its module if it
\* was written without a dot.
LEMMA FullNames ==
  ASSUME NEW m \in Modules, NEW n \in Written
  PROVE  /\ Len(FullName(m, n)) > 1
         /\ Len(n) = 1 => FullName(m, n) = m \o n /\ Front(FullName(m, n)) = m
<1>1. m \in Seq(STRING) /\ n \in Seq(STRING) /\ m # <<>> /\ n # <<>>
  BY ChangeAssumptions
<1>2. Len(m) \in Nat \ {0} /\ Len(n) \in Nat \ {0}
  BY <1>1, EmptySeq
<1>3. m \o n \in Seq(STRING) /\ Len(m \o n) = Len(m) + Len(n)
  BY <1>1, ConcatProperties
<1>4. Len(FullName(m, n)) > 1
  BY <1>2, <1>3 DEF FullName
<1>5. ASSUME Len(n) = 1 PROVE FullName(m, n) = m \o n /\ Front(FullName(m, n)) = m
  <2>1. FullName(m, n) = m \o n
    BY <1>5 DEF FullName
  <2>2. Len(m \o n) - 1 = Len(m) /\ Len(m) \in 0 .. Len(m)
    BY <1>2, <1>3, <1>5
  <2>3. SubSeq(m \o n, 1, Len(m)) = SubSeq(m, 1, Len(m))
    BY <1>1, <2>2, SubSeqOfConcat1
  <2>4. SubSeq(m, 1, Len(m)) = m
    BY <1>1, SubSeqFull
  <2> QED BY <2>1, <2>2, <2>3, <2>4 DEF Front
<1> QED BY <1>4, <1>5

\* Whoever imports a module depends on each name it declares without a dot.
LEMMA ImportersDepend ==
  ASSUME NEW project \in [Modules -> Files], NEW order,
         NEW m \in Modules, NEW n \in Modules, m \in project[n].imports,
         m \notin NamesOf(project), NEW i \in DOMAIN project[m].headers, Len(project[m].headers[i].name) = 1,
         NEW user \in NamesIn(n, project[n])
  PROVE  <<FullName(m, project[m].headers[i].name), user>>
            \in DependencyGraph(LexicalExtraction(project, order))
<1> DEFINE x == LexicalExtraction(project, order)
           names == NamesOf(project)
           path == FullName(m, project[m].headers[i].name)
<1>1. DeclNames(x) = names /\ <<m, user>> \in x.edges
  BY ExtractionParts
<1>2. project[m].headers[i].name \in Written
  BY HeaderOfPlace
<1>3. path \in names /\ user \in names
  BY DEF NamesOf, NamesIn
<1>4. Len(path) > 1 /\ Front(path) = m
  BY <1>2, FullNames
<1>5. m \notin names
  OBVIOUS
<1> HIDE DEF x, names, path
<1>6. path \in DeclaredIn(m, names)
  BY <1>3, <1>4 DEF DeclaredIn
<1> DEFINE used == {e \in x.edges : e[2] \in DeclNames(x)}
           outside == {u \in used : u[1] \notin DeclNames(x)}
           moved == UNION {{<<d, e[2]>> : d \in DeclaredIn(e[1], DeclNames(x))} : e \in outside}
<1>7. <<m, user>> \in outside
  BY <1>1, <1>3, <1>5
<1>8. <<path, user>> \in moved
  <2>1. <<path, user>> \in {<<d, user>> : d \in DeclaredIn(m, DeclNames(x))}
    BY <1>1, <1>6
  <2> HIDE DEF outside
  <2> QED BY <1>7, <2>1
<1>9. <<path, user>> \in DependencyGraph(x)
  BY <1>8 DEF DependencyGraph
<1> QED BY <1>9 DEF x, path

\* A declaration written without a dot is found below its module.
LEMMA ResolvesToPath ==
  ASSUME NEW project \in [Modules -> Files], NEW order, NEW m \in Modules,
         NEW i \in DOMAIN project[m].headers, Len(project[m].headers[i].name) = 1,
         project[m].headers[i].name \notin Modules
  PROVE  Resolve([module |-> m, name |-> project[m].headers[i].name],
                 KnownNames(LexicalExtraction(project, order)))
            = FullName(m, project[m].headers[i].name)
<1> DEFINE name == project[m].headers[i].name
           known == KnownNames(LexicalExtraction(project, order))
<1>1. name \in Written
  BY HeaderOfPlace
<1>2. known \subseteq Modules \cup NamesOf(project) /\ NamesOf(project) \subseteq known
  BY GraphOfProject
<1>3. FullName(m, name) \in NamesOf(project)
  BY DEF NamesOf, NamesIn
<1>4. name \notin NamesOf(project)
  <2>1. ASSUME NEW o \in Modules, NEW j \in DOMAIN project[o].headers
        PROVE  FullName(o, project[o].headers[j].name) # name
    <3>1. Len(FullName(o, project[o].headers[j].name)) > 1 /\ Len(name) = 1
      BY HeaderOfPlace, FullNames
    <3>2. ~(1 > 1)
      OBVIOUS
    <3> HIDE DEF name
    <3> QED BY <3>1, <3>2, Zenon
  <2> QED BY <2>1 DEF NamesOf, NamesIn
<1>5. name \notin Modules /\ m # <<>>
  BY <1>1, ChangeAssumptions
<1>6. FullName(m, name) = m \o name
  BY <1>1, FullNames
<1> HIDE DEF known, name
<1>7. name \notin known /\ m \o name \in known
  BY <1>2, <1>3, <1>4, <1>5, <1>6
<1>8. Resolve([module |-> m, name |-> name], known) = m \o name
  BY <1>5, <1>7 DEF Resolve
<1> QED BY <1>6, <1>8 DEF known, name

\* The cone of a declaration written without a dot holds whatever importers, by
\* way of modules that declare something without a dot, declare.
LEMMA AffectedInCone ==
  ASSUME ChangeType, NEW order, NEW m \in Modules,
         NEW i \in DOMAIN head[m].headers, Len(head[m].headers[i].name) = 1,
         head[m].headers[i].name \notin Modules, ~Shadowed(m), NEW n \in Affected(m)
  PROVE  NamesIn(n, head[n])
            \subseteq ConeOf({[module |-> m, name |-> head[m].headers[i].name]},
                             LexicalExtraction(head, order))
<1> DEFINE x == LexicalExtraction(head, order)
           graph == DependencyGraph(x)
           path == FullName(m, head[m].headers[i].name)
           cone == ImpactCone(graph, {path})
           reached == {o \in Modules : NamesIn(o, head[o]) \subseteq cone}
<1>1. head \in [Modules -> Files]
  BY DEF ChangeType
<1>2. ConeOf({[module |-> m, name |-> head[m].headers[i].name]}, x) = cone
  <2> DEFINE decl == [module |-> m, name |-> head[m].headers[i].name]
  <2>1. Resolve(decl, KnownNames(x)) = path
    BY <1>1, ResolvesToPath
  <2> HIDE DEF decl, path
  <2>2. {Resolve(d, KnownNames(x)) : d \in {decl}} = {path}
    BY <2>1
  <2> QED BY <2>2 DEF ConeOf, decl
<1>3. Downstream(graph, cone \cup {path}) \subseteq cone
  BY <1>1, GraphOfProject, ConeIsClosed
<1>4. ASSUME NEW o \in Modules, ~Shadowed(o), NEW j \in DOMAIN head[o].headers,
             Len(head[o].headers[j].name) = 1,
             FullName(o, head[o].headers[j].name) \in cone \cup {path}
      PROVE  Importers(o) \subseteq reached
  <2>1. ASSUME NEW k \in Importers(o), NEW user \in NamesIn(k, head[k])
        PROVE  user \in cone
    <3>1. k \in Modules /\ o \in head[k].imports
      BY DEF Importers
    <3>2. <<FullName(o, head[o].headers[j].name), user>> \in graph
      BY <1>1, <1>4, <3>1, ImportersDepend DEF Shadowed
    <3> HIDE DEF graph, cone, path
    <3>3. user \in Downstream(graph, cone \cup {path})
      BY <1>4, <3>2 DEF Downstream
    <3> QED BY <1>3, <3>3
  <2> HIDE DEF cone
  <2> QED BY <2>1 DEF Importers
<1>5. Importers(m) \subseteq reached
  <2>1. FullName(m, head[m].headers[i].name) \in cone \cup {path}
    OBVIOUS
  <2> HIDE DEF cone, path, reached
  <2> QED BY <1>4, <2>1
<1>6. ASSUME NEW o \in reached, PassesOn(o) PROVE Importers(o) \subseteq reached
  <2>1. ~Shadowed(o) /\ \E j \in DOMAIN head[o].headers : Len(head[o].headers[j].name) = 1
    BY <1>6 DEF PassesOn
  <2>2. PICK j \in DOMAIN head[o].headers : Len(head[o].headers[j].name) = 1
    BY <2>1
  <2>3. FullName(o, head[o].headers[j].name) \in cone
    <3> HIDE DEF cone
    <3> QED BY <1>6 DEF NamesIn
  <2>4. o \in Modules
    BY <1>6
  <2> HIDE DEF cone, path, reached
  <2> QED BY <1>4, <2>1, <2>2, <2>3, <2>4
<1>7. n \in reached
  <2>1. reached \in SUBSET Modules
    OBVIOUS
  <2> HIDE DEF reached
  <2> QED BY <1>5, <1>6, <2>1 DEF Affected
<1> HIDE DEF cone
<1> QED BY <1>2, <1>7

-----------------------------------------------------------------------------
(* What holds of any two versions of a project *)

\* The diff accounts for every difference of two versions once: whatever the order
\* of the names, the greedy pairing of _rename_candidates takes none twice, and
\* what it leaves over is reported as added, removed or changed.
THEOREM DiffsArePartitions == ChangeSpec => []DiffIsPartition
<1>1. ChangeType => DiffIsPartition
  BY ElaborateIsSnapshot, DiffAccounts DEF ChangeType, DiffIsPartition
<1> QED BY <1>1, ChangeTypeAlways, PTL

\* The ends of import edges are modules of the project.
LEMMA EndsOfImports ==
  ASSUME NEW p \in [Modules -> Files], NEW q \in [Modules -> Files]
  PROVE  IsFiniteSet(Ends(Differ(Elaborate(p).imports, Elaborate(q).imports)))
<1>1. ASSUME NEW r \in [Modules -> Files], NEW e \in Elaborate(r).imports
      PROVE  e[1] \in Modules /\ e[2] \in Modules
  <2>1. PICK m \in Modules : e \in {<<i, m>> : i \in r[m].imports}
    BY <1>1 DEF Elaborate
  <2>2. r[m].imports \subseteq Modules
    BY DEF Files
  <2> QED BY <2>1, <2>2
<1>2. Ends(Differ(Elaborate(p).imports, Elaborate(q).imports)) \subseteq Modules
  BY <1>1 DEF Ends, Differ
<1> QED BY <1>2, ChangeAssumptions, FS_Subset

\* A candidate classify_risk_from_diff rates R0 keeps every name and every
\* statement, and changes bodies only of what is a visible theorem afterwards; the
\* kind a declaration had and up to seven ends of import edges may have changed.
THEOREM R0AlwaysKeepsStatements == ChangeSpec => []R0KeepsStatements
<1>1. ChangeType => R0KeepsStatements
  BY ElaborateIsSnapshot, EndsOfImports, LowestRisk DEF ChangeType, R0KeepsStatements
<1> QED BY <1>1, ChangeTypeAlways, PTL

\* The impact cone of a declaration holds what its importers declare, directly or
\* by way of modules that pass it on, for every project and order of names: the
\* graph of build_dependency_graph has these edges, and impact_cone follows all.
THEOREM ImportersAlwaysInCone == ChangeSpec => []ImportersInCone
<1>1. ASSUME ChangeType PROVE ImportersInCone
  <2>1. ASSUME NEW order, NEW place \in Places(head), Len(At(head, place).name) = 1,
               At(head, place).name \notin Modules, ~Shadowed(place[1]),
               NEW m \in Affected(place[1])
        PROVE  NamesIn(m, head[m])
                  \subseteq ConeOf({[module |-> place[1], name |-> At(head, place).name]},
                                   LexicalExtraction(head, order))
    <3>1. head \in [Modules -> Files]
      BY <1>1 DEF ChangeType
    <3>2. /\ place[1] \in Modules /\ place[2] \in DOMAIN head[place[1]].headers
          /\ At(head, place) = head[place[1]].headers[place[2]]
      BY <3>1, PlaceParts
    <3> QED BY <1>1, <2>1, <3>2, AffectedInCone
  <2> QED BY <2>1 DEF ImportersInCone
<1> QED BY <1>1, ChangeTypeAlways, PTL

=============================================================================
