# Verification of lean-project-evidence

`lpe` (src/lpe, Python) compiles evidence about changes to Lean projects, has
people review it and keeps every step of an artifact's life in an append-only
*utility ledger*, from which the metric TPPR is computed.  This directory holds
TLA+ models of the program, the TLC runs that check them and TLAPS proofs.
Paths below are relative to the repository.

## 1. Inventory

| Component | Source | State | Operations | Interacts with |
|---|---|---|---|---|
| Event lifecycle | `src/lpe/ledger/{events,state}.py` | projection `LedgerReducerState` (rebuilt from the rows on every append) | `reduce_event`, `apply_corrections_deterministically` | store, seal, TPPR |
| Ledger store | `src/lpe/ledger/store.py` | SQLite table `events` (WAL), write lock | `append`, `append_v2`, `append_correction*`, `checkpoint`, `verify`, `export_jsonl`, `archive_verified_jsonl`, `verify_exported_jsonl` | everything that records |
| Ledger seal | `src/lpe/ledger/seal.py` | seal file | `write_seal`, `verify_seal` | store |
| Ledger migration | `src/lpe/ledger/migration.py` | target ledger, seals, report | `migrate_ledger` | store, seal |
| Review quorum | `src/lpe/review/quorum.py` | none | `evaluate_quorum` | review commands |
| Review commands | `src/lpe/review/{acceptance,decisions,authority,conflicts}.py`, `cli.py` | events in the ledger | `review attest`, `accept-quorum`, `record` | store, quorum |
| Repair, adjudication | `src/lpe/review/{repair,adjudication}.py` | events in the ledger | `repair-request`, `repair-complete`, `adjudicate` | store |
| TPPR | `src/lpe/metrics/` | none (fold over the ledger) | `compute_tppr`, `compute_tppr_v2` | store |
| Workspaces, artifacts | `src/lpe/workspace/` | snapshot directories, cleanup tokens, blob files | `create`, `cleanup`, `put_bytes`, `verify` | compiler, sandbox |
| Execution sandbox | `src/lpe/execution/` | child processes | `run` with allowlist, timeout, truncation | providers, Lean |
| Evidence compiler | `src/lpe/evidence/` | the packet under construction | `compile_evidence`, risk, gates, routing | providers, workspace |
| Providers | `src/lpe/providers/` | none | semantic, downstream and fixture verdicts | sandbox, compiler |
| Lean extraction | `src/lpe/lean/` | artifacts on disk | extraction, toolchain lookup, declaration diff | compiler |
| Pilot protocol | `src/lpe/pilot/` | bundle and its freeze, plan, warehouse events, lock | `freeze-protocol`, `assign`, `record`, `lock` | ledger, TPPR |
| Gates and honesty | `src/lpe/{gate,honesty}/` | none | document and evidence checks | CI |
| GitHub, git, contract, routing, reporting | `src/lpe/{github,git,contract,routing,synthesis,reporting}/` | none | I/O, parsing, formatting | CLI |

What is hard here: connections and whole processes interleave on one SQLite
file; an operation of the user's (attest, record, migrate, seal) spans several
transactions and files and can die between any two; committed rows can be lost
with the power (`synchronous=NORMAL`); rows can never be repaired, so a single
bad append is permanent; and what a ledger means depends on long histories
(freezes, repairs, corrections of corrections).  A compilation has some twenty
findings made in stages that may each be skipped, fail or raise, and reads
extractions that earlier compilations left on disk.  A pilot is a sequence of
commands over files that are edited in between.  PROJECT.json lists each hazard
at its line with the properties that watch it.

What makes the components correct:

* *store* - one chain of hashes per artifact, never forked, never rewritten; what is
  appended through the two functions fails to verify only for reasons that were in
  the events themselves, never for a race or a crash; appends are atomic;
* *lifecycle* - acceptance rests on evidence and reviews of the candidate it
  accepts, freezes are immutable, closed tips stay closed, retraction is final;
* *seal* - what is reported as sealed is a verified prefix of the ledger;
* *migration* - the report is true of the target, history is not rewritten;
* *quorum* - acceptance exactly when distinct people fill the required roles;
* *review commands* - partial and repeated commands never mix up two reviews;
* *TPPR* - exactly what the ledger as a whole earns is credited, each lineage
  once, and credit is taken back only for a regression;
* *workspaces, artifacts* - a returned reference verifies, snapshots outlive
  their use and nothing else, whatever other compilations do;
* *Lean extraction and diff* - the diff reports each difference once, a change
  rated R0 keeps every name and statement, the impact cone holds every importer;
* *evidence compiler* - what is accepted without a person was built in isolation
  on evidence that claims to be the toolchain's; no way through a compilation forgets
  a hard check; evidence is of the candidate's snapshot or came with it;
* *pilot* - a data lock names the frozen protocol and what belongs to it,
  the assignment is blind and shares the work.

## 2. Modules

    Lifecycle ─ EventHistory ─ EventLog ◁─ (implements) ─ LedgerStore
                     │            │
                     │    ┌───────┴────────┬────────────────┐   (instantiate EventLog)
                    Tppr  LedgerSeal  LedgerMigration    Review ─ ReviewQuorum

    LeanSource, DeclarationDiff ─ Change

    LeanExtraction, LexicalRisk ─ Compiler    (instantiates Sandbox, Providers, Decision)

    Assignment ─ Pilot          Workspaces

**The ledger**

* **Lifecycle** (no variables): events, transition table, `Accepts` (does
  `reduce_event` return?) and `Reduce` (what it returns).  Payloads keep only
  what the reducer reads; actors, times and texts are dropped.
* **EventHistory**: the same projection stated without a fold - the phase is the
  type of the last step, an attestation counts if no registration follows it.
  `Legal` and `Verifies` say when an append succeeds and when `verify` returns.
* **EventLog**: the abstract specification: a sequence of events, `Add` of a
  legal event at the end, `Sync`, and `Lose` of a tail that is not durable.
* **LedgerStore**: the code.  `Begin` (BEGIN IMMEDIATE), `Validate` or
  `RefuseTransition` (`append_v2` only), `ReadTip`, `Insert` or
  `RefuseDuplicate`, `Commit`; `Crash` of a connection at any step; `Checkpoint`
  and `PowerLoss`.  `append_correction` and `append_correction_v2` build an
  event and call these.  Rows keep what is stored of the event (`StoredAs`: a typed
  event whole, a 0.1 event without its schema_version, which is read back as the
  current one), `previous_hash` and `event_hash`; a digest is the chain it covers
  (SHA-256 without collisions), so it still has the event as it was submitted.
  `VerifyPasses` is `verify()`: hashes are computed from what is stored.  `states` keeps
  the projection of every prefix, which the code recomputes on each append.
* **LedgerSeal**: `write_seal` as verify / snapshot / read prior / open / write,
  `verify_seal` as load / verify / compare, with torn files and power losses.  A
  manifest is the events it covers and its sequence number.
* **LedgerMigration**: `migrate_ledger` as verify / read / look for the target /
  recheck or create and copy one event at a time / verify / two seals.  The
  seals are single steps here, as LedgerSeal has their parts.  `events()` has
  projected typed rows of the source to 0.1 events; all become LEGACY_UNRESOLVED.
* **ReviewQuorum**: policies and `EvaluateQuorum`, with the reference `HasQuorum`.
* **Review**: a review command (attest, accept-quorum, record, repair-request,
  repair-complete) is a script of events, appended one transaction at a time; a
  refused typed event restarts the script with 0.1 events where the command falls
  back, and ends it where it does not.  `grounds` is a history variable: the
  request each recorded acceptance was made for.  `IdAssumptions`: the names the
  commands make of ids do not collide (section 5).
* **Tppr**: `compute_tppr_v2` as the fold it is: `tally` is the state of its
  variables after the events so far, `Objects` the events it raises on, `Fold`
  one round of its loop, `Credited` the credit loop after it.  `Record` appends a
  legal event and folds it.  `Earns` says of a whole ledger what credit is due.
  Times are in days; payloads keep what the metric reads.  A correction is an event
  like any other, which the fold passes over as the code does.

**From sources to evidence**

* **LeanSource** (no variables): what the lexical extractor sees of a project,
  the dependency graph, the names a change resolves to and the impact cone.  A
  file is its imports and its headers in order, a header has the identifiers of
  its body; the regular expressions that find them are left out.
* **DeclarationDiff** (no variables): two elaborated snapshots compared - renames
  paired first, then additions, removals and changes - and the risk class of the
  result.  Hashes can only be compared; `Untyped` is the empty hash.
* **LexicalRisk** (no variables): the class without such a pair, never R0.
* **Change** states what both modules above promise of any two versions of a project:
  `head` is up to `MaxEdits` edits away from `base`.  The edits are inputs, not code
  of the repository.  Its specification is `ChangeSpec`, so that one module can
  extend it and Compiler.
* **LeanExtraction** (no variables): where an extraction comes from - a stored
  artifact, a run of `lake exe lpe_extract`, the injected extractor, the lexical
  stub - and how the adaptive extractor falls through them.  A project is a
  directory: its tree, Lake file, toolchain and the two places artifacts are
  looked for.  An artifact carries the tree it is `of`; the code never compares it.
  `LPE_LEAN_EXTRACTION_JSON`, which names another place (`toolchain.py:81`), is left out.
* **Sandbox**: which executor a compilation gets, what the combined script and a
  container report of a run, and what may be claimed of it.
* **Providers**: the status, scope and attempt each evidence provider reports,
  from what it met.
* **Decision**: canonical checks made from findings, the hard gate, the
  recommendation and the question a reviewer is asked.
* **Compiler**: `compile_evidence` over the above.  `disk` is the operator's
  directory, `job` the compilation and its snapshot, `packet` the last result.  A
  step ends where the code waits for a container or a process; `Checkout` puts
  another tree into the operator's directory meanwhile.  `Stage` makes the snapshot:
  a worktree has the artifacts the candidate's commit or patch `brings`, a copy has
  also those of the directory.  What Lean, Docker and
  the fixtures answer is a choice from `Runs` and `Encounters`.
* **Workspaces**: `create_snapshot_pair` directory by directory, `put_bytes` as
  look / open / write, and the end of `compile_evidence` (`mark_persisted`,
  `cleanup`, packet) for processes that share one artifact store; `CreateFails`,
  `WriteFails` and `Raise` are the error paths, `Kill` ends a process anywhere.
  A content stands for its digest; a file is absent, partial or whole.  `torn`
  and `excused` are history variables: files whose writer stopped half-way,
  sessions the code does not clean.

**The pilot**

* **Assignment** (no variables): `assign_conditions` - strata, blocks, reviewers,
  repairs - as a function of the list of episodes, roster, switches and seed.  A seed
  stands for what its HMACs give: a digest of every candidate and an order of the
  slots of each block.  Sorting is stated by counting: the n-th place is the one with
  n - 1 places before it (`InOrder`); the two loops are functions of the number of
  rounds (`after[n]`).
* **Pilot**: the bundle's files and their edits, `freeze-protocol`, `assign`,
  `record`, `seal` and `lock`.  A version of a file stands for its digest; the
  commands are atomic; a refused command changes nothing and is no step.  `Lock` hashes
  whatever plan it is given: the last one written, or one of `OtherPlans`, made for
  another study or edited by hand.

**MCEvents, MCLedgerStore, MCLedgerSeal, MCLedgerMigration, MCReview, MCTppr,
MCCompiler, MCPilot, MCWorkspaces, MCChange** hold the values of the runs and their symmetry.
The modules named `_proofs` hold the proofs of section 4.

Operators introduced as "Faulty variant of X" are not part of any
specification: they are plausible bugs of X, and PROJECT.json pairs each with
the property that must notice it.

## 3. Runs

| Run | Question | Result |
|---|---|---|
| LedgerStore | two connections, two chains, 11 racing events and the 15 of one typed life, up to 12 rows: chains, verify, atomicity, freezes, corrections, projection, acceptance, closed tips, refinement of EventLog | holds |
| SealRace | two sealers and a checker on a growing ledger, torn files, power losses | holds |
| Migration | two racing migrations with crashes and a source in use | holds |
| Review | two processes of review and repair commands, killed and repeated; every list of up to three of nine attestations, five risk classes | holds |
| Change | every project three edits away from a small one: diff, risk, cone | holds |
| ProofOnlyRisk | is a change of risk R0 one of proofs only? | not always |
| Compile | two compilations after each other on 7 hosts and 6 projects, with one thing out of the ordinary at every place | holds |
| StaleExtraction | is the axiom check passed on the candidate's own sources? | not always |
| Pilot | edits of the bundle between the commands, every order of the candidates of a stratum: locks, blinding, workload | holds |
| TpprCredit | every legal order of up to nine events of three artifacts: refusals, credit, lineages, revocation | holds |
| TpprCorrections | is credit withdrawn with the event a correction invalidates? | no |
| WorkspaceRace | two processes, three compilations, two contents, errors and kills at every step | holds |

Three runs fail, and are the findings in PROJECT.json with the sentences of the
repository they contradict.  In StaleExtraction the first compilation leaves its complete extraction in
the operator's `.lpe/` (`persist_toolchain_artifact`), a copied snapshot of the
second candidate contains it, and `try_run_lake_extract` takes a complete stored
artifact without a run.  Only module names are compared, so the second candidate
passes the axiom check on the extraction of the first.  EvidenceIsOfSnapshot
(Compile) says what does hold: an artifact that lay in the snapshot from the start -
copied, committed or added by the patch - is the only stale source there is.
In ProofOnlyRisk one changed import is rated R0: `classify_risk_from_diff` looks at
imports only when there are eight or more (`evidence/risk.py:108`), while
`docs/ENGINEERING_SPEC.md:216` calls R0 a "proof-only change under an unchanged trusted
statement" and counts imports to R4.  R0KeepsStatements (Change) says what R0 does make
sure of.  In TpprCorrections an accepted, integrated and persistent obligation is
credited although a correction invalidates its acceptance: `compute_tppr_v2` only lists
corrections (`metrics/tppr_v2.py:391`), while the closure specification (13.5) has it
apply them and `docs/LEDGER_AND_TPPR.md:40` calls them the only way to retract meaning.
CreditIsEarned and CreditIsKept (TpprCredit) therefore speak of all events, retracted or
not.

**Bounds.**  `MaxRows`, `MaxEvents` and `MaxSequence` bound the length of ledgers
and the seal sequence.  In LedgerStore everything races for the first rows: two writers
suffice for a race on the tip, as the write lock serialises pairs, and four rows allow a
fork, a loss and a chain that grows back, and two artifacts that compete for a freeze and
a candidate.  Ledgers of more than three rows are continued with the life of one
artifact (`LongLedgersAreOneLife`): fifteen events let every phase be reached, and the
longest life has twelve.  SealRace takes three of four events: one that dangles, the one
it waits for, one of an older version and a freeze.  Migration copies three of five, one
of which is of an older version.
Review has seven events: a typed life up to its review, and a decision, a time
and a repair that compete for the rest.  Its lists of attestations have three members, as
R4 has three requirements; what is asked of such a list depends on nothing else, so these
requests are made on an empty ledger and end with their acceptance (`AskAnyList`,
`ListsAlone`).
Change needs three edits: a rename, a change that hides in it, and a third that
moves an edge of the graph; its third module has the name of a declaration of the
second, which the extractor mixes up (section 5).  Compile lets each record (host, project, request, run,
encounters) depart from the usual in one field: stages read few fields of different
records, so one departure each already combines several failures; two compilations,
as one leaves artifacts for the next and nothing else.
Pilot allows two edits, so that a file can be changed and restored, and two strata
with repairs and a repair of a repair; every order of four candidates of a stratum is
tried (`AllSeeds`), and behaviours continue after `assign` for one of them
(`Followed`): the lock reads the plan's hash, not its order.
TpprCredit needs nine events: a freeze, a registration, an acceptance, an
integration and a persistence, with a second obligation of the same lineage or a
regression to interfere; ledgers the metric has refused are not extended
(`Undisputed`), as `compute_tppr_v2` raises on them whatever follows.
WorkspaceRace needs two writers of one file and a third compilation that finds
what they left; compilations interact through the store and the directories
only, so two processes at once show every pairwise interleaving.
Processes that run the same code are symmetric (safety runs only).

**Deadlock** is checked for the ledger and its seals (LedgerStore, SealRace).  It is off
where the system really comes to rest within the bounds: a full source with no migration
running, a full TPPR ledger, all compilations done, all edits made, review commands with
nothing left to append or a single list judged.

**Fairness** is assumed nowhere, and no liveness is claimed.  The components promise no
progress: they run when a person enters a command, a command may be killed at any step,
and `Begin` waits for the write lock as long as others take it.  That an append gives
the lock back does not rest on the code's own `ROLLBACK`: leaving `with self.connect()`
(`ledger/store.py:233`) by an exception rolls back as well.

## 4. Proofs

Each theorem below holds for all sets of events, processes, trees and so on and
every bound.  The assumptions are named in the modules that declare the constants
(`NoneIsFresh`, `StoreAssumptions`, `SealAssumptions`, `MigrationAssumptions`,
`ReviewAssumptions`, `IdAssumptions`, `WorkspaceAssumptions`,
`CompilerAssumptions`, `NoneIsNoQuestion`, `TpprAssumptions`, `PilotAssumptions`,
`NamesAreNumbers`, `SeedsAreDigests`, `NamesOrderedOnce`, `ChangeAssumptions`): typed inputs, natural bounds, and `None` being
none of the inputs.  TLC evaluates them in every run.

**`LedgerStore_proofs`**: `StoreTypeCorrect`, `ChainNeverBreaks`,
`VerifyFailsOnlyAsForeseen`, `InvalidationsArePermanent`.
`TypeInv` is `TypeOK` strengthened by `Exclusive`: only the holder of the lock is
inside a transaction, and whoever is inside has an event.  `ChainInv` adds
`TipKnown`: a connection that has read the tip still has the tip - what mutual
exclusion buys, and the reason BEGIN IMMEDIATE is needed; the chain lemmas
(`ChainAppend`, `ChainPrefix`) then say that appending after the tip and cutting a
tail keep the chain.  `LifecycleInv` adds `Judged`: the event of a validated
connection is accepted by the projection of the committed rows.  `PreviousHash`
uses `Max`, which is defined by CHOOSE; `MaxIsGreatest` gives its meaning for
finite sets of naturals.  That what is retracted stays retracted is a fact about
one row at a time (`StepKeepsInvalidated`).

The second half is about what the rows mean: `FreezesAreImmutable`,
`ClosedTipsStayClosed`, `AcceptancesRestOnWork`, `ProjectionMeansHistory` and
`StoreImplementsLog`, the refinement of EventLog.  The invariant `MeaningInv` says for every prefix of the
rows that the projection kept for it means what the prefix says as a history:
`Meaning` is the conjunction of `ProjectsHistory`, `PhaseIsLast`, `ClosedIsLast`,
`FreezesAreRows`, `RegistrationsAreFrozen`, `WorkIsRegistered` and
`AcceptancesAreBacked`.  `MeaningOfAppend` shows it for one more row the reducer
accepts, which `Judged` guarantees at the commit; `MeaningOfPrefix` lets a power
loss cut the tail.  As the invariant speaks of every prefix, no induction over the
ledger is needed.  EventHistory places a correction by counting the rows before it
(`PlaceOf`, `AtPlace`), which keeps filters over sequences out of the proofs.  For
the refinement, `Fresh` (the id of an inserted row is still new when its transaction
commits, as the lock is held) and `Judged` make `Commit` an `Add` of a `Legal` event;
`PowerLoss` is `Lose`, `Checkpoint` is `Sync`, and every other step stutters.

**`LedgerSeal_proofs`**: `SealTypeCorrect`, `GoodSealsAreVerified`.  `Prefixes`:
while no row was lost, what a checker or sealer has read is a prefix of the ledger.
`Checked`: if the comparison of `verify_seal` would succeed, the ledger it verified
is the one the seal covers.

**`LedgerMigration_proofs`**: `MigrationTypeCorrect`, `ReportsAreTrue`.  `Copied`:
place i of the target is the migrated place i of the source, whoever copied it.  A
migration appends the event after the ones it has appended; that is legal only if its
id is new, so a racing copy can only be refused, never misplace an event.
`Follows` relates the progress of each migration to source and target, `Reported` the
report to both.

**`Review_proofs`**: `ReviewTypeCorrect`, `TimeAlwaysFollowsReview`,
`DecisionsAreComplete`, `AcceptancesHaveQuorum`, `FlagsAreAlwaysEarned`.  `Prepared`: what is left of the script of a running command
still has, for each of its events, the events it follows - before it in the script or
in the ledger already.  `IdAssumptions` is needed: two decision files with one
review_id and different obligations really break `DecisionIsComplete` (section 5).
The last two rest on the soundness of `EvaluateQuorum`: the matching takes one
requirement after another, so it is unfolded over the at most three there are
(`FewRequirements`) with `MatchStep` for each; whoever was matched is distinct from
the earlier ones (`MatchingAssigns`), which makes the matching an assignment as
`HasQuorum` asks for (`SatisfiedIsQuorum`).  `QuorumInv` carries this from the
request to `grounds`, over the fallback and all the steps of other processes.  The
converse is false: a quorum there is may not be found (section 5).

**`Workspaces_proofs`**: `WorkspaceTypeCorrect`, `SnapshotsAlwaysLast`,
`SessionsAreRemoved`, `ReferencesAlwaysVerify`.  Everything rests on `Separate`: no
two processes have one session, because mkdtemp makes a new directory; so a removal
disturbs only the session of its own process.  `Complete` carries the snapshots from
the last worktree to the end of the providers.  `Owned` says who will still remove
what is left, and needs the one exit that keeps a session without owing its removal
(`packet`).  `Stored` adds to `ReferencesVerify` that a partial file has a writer or
had one that stopped, and that a process writes one file at a time.

**`Compiler_proofs`**: `AcceptsAreEarned`, `HardGatesAreComplete`,
`EvidenceIsAlwaysOfSnapshot`, `EscalationsAsk`, `HostBuildsAreAsked`.  `CompilerInv` says that the
operator's directory is a project and, of the compilation under way, `HostIsAsked`
(how it came by its executor), `FindingsGrow` (which hard checks have a finding after
which stage) and `EvidenceGrows` (where the evidence comes from, by stage).  The
theorems about packets follow because `Decide` reads nothing else.  A complete artifact
in a snapshot is accepted on its word: what the theorems say of evidence is that it is of
the accepted tree or one of the artifacts the snapshot came with (`OfSnapshot`).  For
`EscalationsAsk` the question is the least in rank of the open findings, a minimum over
a finite set of places; `NoneIsNoQuestion` says that no check is called `None`.

The same module proves of Change: `DiffsArePartitions`, `R0AlwaysKeepsStatements`,
`ImportersAlwaysInCone`.  The invariant is the type, `ChangeType`: whatever the edits,
both versions are files over the given names, so `ElaborateIsSnapshot` makes a pair of
snapshots of them, and the rest are lemmas about any two snapshots or any project.
`RenamesUnfold`, `UsesUnfold` and `ConeUnfold` say that the recursive functions are the
loops they are written as (`LoopExists`).  `RenamesPair` is the invariant of the
pairing loop: each rename takes a name that was removed and one that was added, none
of them twice, with equal statements; so what is left over and what is renamed are
the difference (`DiffAccounts`).  `LowestRisk`: the class is the highest of its
changes', so in class 0 no change but the bodies of visible theorems is left among
those that are rated - not the kind a declaration had, nor a few imports.  `ConeIsClosed`: a round
that does not close the cone adds the target of an edge, and there are no more of
those than rounds.  `ImportersDepend` and `ResolvesToPath` then follow one name from
the header through the graph to the modules that import its file (`AffectedInCone`).

**`Tppr_proofs`**: `TpprTypeCorrect`, `RefusalsHaveCause`, `CreditIsAlwaysEarned`,
`LineagesAreCreditedOnce` and the action property `CreditIsAlwaysKept`.  `TpprInv`
says that the tally is refused exactly when an event of the ledger offends, and
otherwise that the state of every obligation `Means` what the ledger says of it:
where it was frozen and with which weight and rule (`FreezeMeans`), which candidate
was registered and accepted last (`CandidateMeans`), which suites, integration and
persistence it has (`WorkMeans`).  The lemmas named `...Longer` say what one more event
does to each question about the ledger, so one round of the fold needs no induction;
`ObjectsToBad` shows that what the code raises on, looking at its variables, is what
`Offends` says, looking at the ledger.  The credit loop after the fold is a function
of the obligations so far; `Shared` is its invariant, carried along by `Ascending`.

**`Pilot_proofs`**: `PilotTypeCorrect`, `LockIsAlwaysOfOneStudy`,
`AssignmentIsAlwaysBlind`, `WorkloadIsAlwaysShared`.  A freeze is never
replaced; `PlanIsOfFreeze` says that the plan last written was made under the frozen
files, and `StudyInv` that a lock refers to that freeze and a seal of its ledger, and that
its plan is such a plan or one of `OtherPlans`, of which nothing is known.
The assignment is proved about as the function it is, for any lists, rosters and
digests.  `InOrderSorts`: counting sorts - every place has a turn and only one, if the
keys are in a strict order, which the pairs and triples of the code are
(`OrderedVisits`, `RepairOrderVisits`).  `Good` is the invariant of both loops: the
workload counts the rows, they are blind, and the work is shared.
`AssignKeepsGood` shows it for one more row; the shared work follows because the
chosen reviewer had least among all who were not barred.  It needs that no later row
is an original of an earlier one - originals come first - and, for a repair, that the
row its condition is taken from is its only original (`RepairKeepsGood`: the first
row of that candidate, of which the originals have one each).  `PlanIsAssigned` then
says that every plan is such an assignment, of the roster and the switches of the
protocol it names.

**Only model-checked.**  Every invariant and every action property that a passing run
checks has a theorem, and so has the refinement.  The three runs that fail are
counterexamples and need none.  That the recursive definitions compute what they are meant to for *every*
input is an induction over data; the loops above avoid it by counting rounds, with
`Ascending`, the induction up to a number, proved from the well-foundedness of finite
sets.

## 5. Observed while modelling

The models reach most of these behaviours too, and the findings above are not repeated.
No run keeps them, but a reader of the code should know them.

*Ledger.*

* `lpe ledger append` (`cli.py:440`) takes 0.1 events of schema_version "0.1.0"
  (`models.py:25`).  The hash covers the version, the row does not keep it, and
  `_row_to_event_any` reads back "0.2.0" (`ledger/store.py:175`, `376`): from then on
  `verify()` says "invalid event_hash" for good, and the ledger cannot be sealed,
  archived or migrated.  VerifyFailsForTwoReasons has this as its second reason.
* A 0.1 event whose payload has the key `__lpe_event_v2__` is read back as a typed one
  (`ledger/store.py:358`).  Payloads of 0.1 events have no content here, so this is not
  modelled.
* A candidate can come to be governed by two freezes, through the registration on
  the EMPTY tip of a second artifact (`ledger/state.py:253`; the comment at
  `state.py:136` says "cannot rebind").
* `write_seal` verifies on one connection and takes its snapshot on another
  (`ledger/seal.py:215-223`): a row with a dangling supersedes, appended in
  between, is sealed unverified.
* The source seal a migration links may cover events appended after the read, which
  the report does not map (`ledger/migration.py:123`, `175`).
* A migration that died while copying cannot be run again: every later run raises
  on the mismatched count (`ledger/migration.py:133`), though line 110 calls the
  idempotent when the target exists.
* A verified ledger in which a row supersedes a later one has an export that does
  not verify, and cannot be archived (`ledger/store.py:538`).

*Review.*

* `accept-quorum` judges the attestations in its file and nothing else
  (`review/acceptance.py:165-215`): a recorded REJECT does not block it, and
  attestations nobody recorded satisfy it.
* It falls back to the 0.1 event on every `LedgerTransitionError`
  (`review/acceptance.py:203`), also when a typed lifecycle forbids the acceptance.
* The flags of an acceptance go by attestation_id (`review/quorum.py:186-203`): two
  attestations with one id let the word on one dimension set the flag of another, so an
  R3 acceptance can claim an implementation review nobody was asked for.
* The quorum is looked for greedily: an assignment of people to roles may exist and
  not be found (`review/quorum.py:163`).
* Two decision files with one review_id and other obligations are taken for one
  decision; a review_id `attest_X` takes the event id of attestation X.
* A repair request that lands between the check of `accept-quorum` and its append
  makes the typed acceptance illegal, and the 0.1 fallback accepts the artifact.
* `repair-request` asks nothing of the attestations it is given;
  `next_repair_candidate_id` depends on the prior id alone, so two repairs of one
  candidate get the same new id (`review/repair.py:43`).
* `adjudicate` takes original reviewers and roles from its command line and reveals
  the peers' reviews itself at that moment.

*TPPR.*

* Corrections count neither for nor against: an invalidated regression still revokes
  credit (`metrics/tppr_v2.py:391`), as an invalidated acceptance still earns it.
* `lpe tppr compute-v2` reads the events in their 0.1 projection (`cli.py:820`), so
  typed events earn nothing, though its help speaks of "typed UtilityEventV2
  records" (`cli.py:813`).
* The window of a calendar rule is the longer of two differences, so it always
  counts from the freeze (`metrics/tppr_v2.py:329-336`), whatever the comment says
  it prefers.
* Two predeclared obligations of one lineage earn one credit.
* Credit is kept when a later candidate of the obligation is registered and not yet
  accepted.
* The "duplicate credit" error (`tppr_v2.py:446-449`) cannot be reached: a lineage
  credited before already denies the credit (`428-432`).
* `lpe tppr compute`, the 0.1 metric, raises KeyError on projected
  OBLIGATION_FROZEN rows, whose payload has no `weight`.

*Workspaces.*

* An error while the snapshots are made leaves worktrees that nothing removes, and
  `verify_cleanup()` returns True as there is no workspace
  (`workspace/snapshots.py:372`, `workspace/manager.py:285`).
* The second pass of cleanup does nothing, as the token already says cleaned
  (`evidence/compiler.py:1250`, `manager.py:269`).
* The packet is written after its snapshots are removed (`evidence/compiler.py:1246`,
  `cli.py:401`); `mark_persisted` means assembled, not stored.
* A file of the artifact store is written in place: a kill between open and write
  leaves a partial file that no later `put_bytes` repairs (`workspace/artifacts.py:129`).
* `executor.run` of a fixture is given no snapshot root, so base fixtures run on the
  candidate (`providers/fixture_runners.py:36`); downstream suites do pass one.

*Extraction, diff and risk.*

* Beside the finding: a run of `lpe_extract` that exits 0 without writing loads
  whatever artifact was there before (`lean/toolchain.py:142`).
* `_collect_uses` loses uses in other files (`lean/extractor.py:342`); the cone rests on
  imports, and a module that only re-exports cuts it.
* So does a module with the name of a declaration: `extract_repository` keeps the edges
  of a module only under names no declaration has (`lean/extractor.py:530`).
* The pairing of renames hides a change of axioms or visibility and the removal of a
  public name; changes of kind are not compared (`lean/declaration_diff.py:79`).
* A changed body of a public definition is R1 by the diff and R3 lexically; a change
  of `lean-toolchain` alone is R1 (`evidence/risk.py:76`, `197`).
* A definition that becomes a theorem, with another body, is R0: only the present kind is
  looked at (`evidence/risk.py:175`).
* Classification from git drops removed declarations and counts the lines of a deleted
  file to the file before it (`git/diff.py:71`).

*Evidence compiler.*

* R0 needs a pair of live extractions, which works on the host executor only, and that
  executor blocks auto-acceptance: no candidate is accepted as R0.
* With `skip_build`, the extraction still runs the lake of the host on the build
  directory (`evidence/compiler.py:821`), whatever the policy says of host builds;
  HostBuildIsAsked speaks of the build only.
* A complete artifact that the commit or the patch brings to `.lpe/lean-extraction.json`
  is taken for the toolchain's report without a run.  `lean/toolchain.py:13` and
  `SECURITY.md:77` document this; a candidate can be accepted on it.
* The placeholder scan reads the operator's working tree; in copy mode a patch that
  does not apply is ignored.
* Infrastructure errors and timeouts of Docker, and a truncated phase marker, count as
  a FAIL of `lean.build` and reject the candidate; a container that timed out is left
  running.
* A host without lake aborts the compilation without a packet (FileNotFoundError).
* ACCEPT is compatible with a FAIL of a check that is not hard, which is never the
  subject of a review question either (`docs/ENGINEERING_SPEC.md` 8.6 speaks of hard
  failures only).
* An errored extraction makes `import_expansion` NOT_APPLICABLE.
* The downstream replacement check compiles the first eight modules of a cone and its
  PASS speaks of all; an empty cone is UNKNOWN; a timeout of the base with a successful
  candidate counts as "enabled" (`providers/downstream.py:145`).
* Suites are loaded from the candidate (`downstream.py:163`), which may so change what
  it is tested with.

*Pilot.*

* `lpe pilot analyze` takes any text as data lock hash (`cli.py:1767`);
  `require_locked_for_analysis` (`pilot/lock.py:187`) is called by tests only.
* `validate_bundle_dir` hashes the files after it has parsed them, and `freeze_protocol`
  writes after its checks: an edit or a second freeze in between goes unnoticed
  (`pilot/protocol.py:213`, `278`; atomic here).
* The lock hashes whatever plan it is given and does not compare its protocol_id
  (`pilot/lock.py:102`); the closure specification (15.9) lists "condition assignments
  verified", and the command says it verifies the assignment (`cli.py:1740`).  `assign` can be run again with another seed or other episodes after outcomes are known.
* A repair whose `root_candidate_id` names an earlier repair is not blinded against that
  repair's reviewer; repairs may repeat a candidate id and unbalance the conditions.
* The lock does not stop the ledger from growing.

## 6. Plan

Done: the ledger (store, seal, migration), quorum, review and repair commands, TPPR v2,
workspaces and artifacts, extraction, diff and risk, the evidence compiler with its
executors and providers, the pilot from its protocol to its lock.  What is left:

1. *TPPR 0.1* (`Tppr01`): its credit rules on the projected ledger, compared with v2.
2. *Warehouse and overhead* (`src/lpe/pilot/`): the counts of the pilot summary over
   recorded events.
3. *Adjudication*: recorded attestations and who has seen whose.
4. *Proofs*: that the cone holds nothing it need not (its converse), and what a
   satisfied quorum means for who was asked, beyond `AcceptedByQuorum`.

**Not modelled.**  Parsing of Lean text, of YAML and of git's output, the invocation of git,
Docker, lake and HTTP (their outcomes are inputs), statistics on real numbers
(`pilot/analysis.py`), redaction, formatting and reports, the gates and honesty checks
(documents and files are read, no state is kept), and the evaluation harness of routing.
PROJECT.json gives the reason component by component.
