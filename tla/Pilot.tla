--------------------------------- MODULE Pilot ---------------------------------
(***************************************************************************)
(* A pilot study from its protocol to its data lock (src/lpe/pilot):       *)
(*                                                                         *)
(*   lpe pilot freeze-protocol   the bundle of files becomes the protocol  *)
(*   lpe pilot assign            conditions and reviewers for the episodes *)
(*   lpe pilot record            warehouse events in the ledger            *)
(*   lpe ledger seal             a seal, next to the ledger or elsewhere   *)
(*   lpe pilot lock              the record the analysis refers to         *)
(*                                                                         *)
(* The files of the bundle are edited at any time between the commands.    *)
(* A version of a file stands for its content and its digest.  A command   *)
(* that is refused writes nothing and is no step here.  The ledger is its  *)
(* length: LedgerStore and LedgerSeal have what it is made of.             *)
(***************************************************************************)
EXTENDS Assignment

CONSTANTS
    Versions,       \* of a file; the first is the one of the template
    Rosters,        \* per version of reviewer-roster.yaml, the eligible reviewers
    Configs,        \* per version of assignment.yaml, its three switches
    Images,         \* per version of analysis.yaml, its image digest or None
    Edited,         \* the files people edit
    EpisodeLists,   \* the lists of episodes given to `pilot assign`
    Seeds,          \* the seeds given to it
    OtherPlans,     \* plans `pilot assign` did not write for this bundle
    MaxEdits,       \* edits of the bundle, for model checking
    MaxEvents       \* events recorded, for model checking

\* REQUIRED_BUNDLE_FILES.  "other" stands for endpoints, comprehension and
\* signatures, which are validated and hashed like the rest.
Files == {"held-out-set", "analysis", "reviewer-roster", "assignment", "other"}

\* The files whose digests protocol.yaml names.
Linked == {"held-out-set", "analysis", "reviewer-roster"}

\* What protocol_hash covers: every file, protocol.yaml with its links included.
Protocols == [files : [Files -> Versions], links : [Linked -> Versions]]

Switches == [workload_balance : BOOLEAN, author_exclusion : BOOLEAN, repair_blinding : BOOLEAN]

ASSUME PilotAssumptions ==
    /\ 1 \in Versions
    /\ None \notin Protocols
    /\ None \notin OtherPlans
    /\ Configs \in [Versions -> Switches]
    /\ Edited \subseteq Files
    /\ MaxEdits \in Nat /\ MaxEvents \in Nat

\* Names are numbers, in their order.
ASSUME NamesAreNumbers ==
    /\ \A v \in Versions : Rosters[v] \subseteq Nat
    /\ EpisodeLists \subseteq Seq(Episodes)

\* Every candidate has a digest, and every block is an order of the pattern.
ASSUME SeedsAreDigests ==
    \A seed \in Seeds :
        /\ \A list \in EpisodeLists : \A i \in DOMAIN list : seed.order[list[i].candidate] \in Nat
        /\ \A b \in DOMAIN seed.slots : seed.slots[b] \in BlockOrders

VARIABLES
    files,      \* the version of each file in the bundle
    links,      \* the digests in protocol.yaml
    frozen,     \* the protocol_hash in freeze.json, None when there is none
    plan,       \* the assignment manifest last written
    ledger,     \* the number of events in the ledger
    seal,       \* what the seal file covers and where it is
    lock,       \* the data lock record last written
    edits       \* how often the bundle was edited

vars == <<files, links, frozen, plan, ledger, seal, lock, edits>>

Init ==
    /\ files = [f \in Files |-> 1]
    /\ links = [f \in Linked |-> 1]
    /\ frozen = None
    /\ plan = None
    /\ ledger = 0
    /\ seal = None
    /\ lock = None
    /\ edits = 0

-----------------------------------------------------------------------------
(* The bundle *)

ProtocolHash == [files |-> files, links |-> links]

\* validate_bundle_dir: protocol.yaml names the digests of the files there are.
Valid == \A f \in Linked : links[f] = files[f]

\* verify_freeze: freeze.json is there and names the bundle.
VerifiedFreeze == Valid /\ frozen = ProtocolHash

\* Somebody saves another version of a file.
Edit(f, v) ==
    /\ edits < MaxEdits
    /\ files' = [files EXCEPT ![f] = v]
    /\ edits' = edits + 1
    /\ UNCHANGED <<links, frozen, plan, ledger, seal, lock>>

\* Somebody brings the digests in protocol.yaml up to date.
Link ==
    /\ ~Valid
    /\ links' = [f \in Linked |-> files[f]]
    /\ UNCHANGED <<files, frozen, plan, ledger, seal, lock, edits>>

\* freeze_protocol: once, and never again for another bundle.
Freeze ==
    /\ Valid
    /\ frozen = None
    /\ frozen' = ProtocolHash
    /\ UNCHANGED <<files, links, plan, ledger, seal, lock, edits>>

-----------------------------------------------------------------------------
(* From the assignment to the lock *)

\* The assignment of the bundle there is, unless it is refused.
Manifests(list, seed) ==
    {AssignConditions(list, Rosters[files["reviewer-roster"]], seed, Configs[files["assignment"]])}
        \ {None}

\* Faulty variant of MakePlan: the bundle is validated, not compared with its freeze.
MakePlanOfValid(list, seed) ==
    /\ Valid
    /\ \E rows \in Manifests(list, seed) :
          plan' = [protocol |-> ProtocolHash, seed |-> seed, rows |-> rows]
    /\ UNCHANGED <<files, links, frozen, ledger, seal, lock, edits>>

\* pilot assign: the manifest, with the protocol and the seed it was made from.
MakePlan(list, seed) ==
    /\ VerifiedFreeze
    /\ \E rows \in Manifests(list, seed) :
          plan' = [protocol |-> ProtocolHash, seed |-> seed, rows |-> rows]
    /\ UNCHANGED <<files, links, frozen, ledger, seal, lock, edits>>

\* pilot record: one 0.1 event, whatever its kind.
Record ==
    /\ ledger < MaxEvents
    /\ ledger' = ledger + 1
    /\ UNCHANGED <<files, links, frozen, plan, seal, lock, edits>>

Seal(colocated) ==
    /\ seal' = [events |-> ledger, colocated |-> colocated]
    /\ UNCHANGED <<files, links, frozen, plan, ledger, lock, edits>>

\* The image given on the command line; a tag is no digest.
ImageAccepted(image) ==
    /\ image # "latest"
    /\ Images[files["analysis"]] \in {None, image}

\* The seal is elsewhere, and covers the ledger there is (verify_seal).
SealAccepted == seal # None /\ ~seal.colocated /\ seal.events = ledger

\* perform_data_lock hashes the plan it is given, p, whatever is in it; claims are
\* the operator's word on episodes, attestations and exclusions.
Lock(p, image, claims) ==
    /\ VerifiedFreeze
    /\ SealAccepted
    /\ ImageAccepted(image)
    /\ claims.completed /\ claims.attested /\ claims.exclusions_resolved
    /\ lock' = [protocol |-> frozen, held_out |-> files["held-out-set"], plan |-> p,
                events |-> seal.events, image |-> image]
    /\ UNCHANGED <<files, links, frozen, plan, ledger, seal, edits>>

Claims == [completed : BOOLEAN, attested : BOOLEAN, exclusions_resolved : BOOLEAN]

\* The files that can be given to `pilot lock`: the plan last written, or one from
\* elsewhere, of another study or edited by hand.
PlanFiles == ({plan} \ {None}) \cup OtherPlans

Next ==
    \/ \E f \in Edited, v \in Versions : Edit(f, v)
    \/ Link
    \/ Freeze
    \/ \E list \in EpisodeLists, seed \in Seeds : MakePlan(list, seed)
    \/ Record
    \/ \E colocated \in BOOLEAN : Seal(colocated)
    \/ \E p \in PlanFiles, image \in (Range(Images) \ {None}) \cup {"latest"}, claims \in Claims :
          Lock(p, image, claims)

Spec == Init /\ [][Next]_vars

-----------------------------------------------------------------------------
(* Properties *)

TypeOK ==
    /\ files \in [Files -> Versions]
    /\ links \in [Linked -> Versions]
    /\ frozen \in Protocols \cup {None}
    /\ ledger \in Nat /\ edits \in Nat
    /\ seal = None \/ seal \in [events : 0 .. ledger, colocated : BOOLEAN]

\* A data lock is of one study, whatever is edited or restored between the commands:
\* the protocol it names is the frozen one, and the held-out set and the image are
\* those of that protocol.  Of the plan it hashes this is so only when `pilot assign`
\* wrote the plan for this bundle: the lock does not look into it
\* (perform_data_lock, freeze_protocol, assign).
LockIsOfOneStudy ==
    lock # None =>
        /\ lock.protocol = frozen
        /\ lock.held_out = frozen.files["held-out-set"]
        /\ Images[frozen.files["analysis"]] \in {None, lock.image}
        /\ lock.plan \notin OtherPlans => lock.plan.protocol = frozen

\* The rows of the original that row i has a repair of.
OriginalsOf(rows, i) ==
    {j \in DOMAIN rows : /\ rows[i].episode.is_repair /\ ~rows[j].episode.is_repair
                         /\ rows[j].episode.candidate = rows[i].episode.root}

\* Nobody judges their own work or the repair of what they have judged: no
\* reviewer is the author of the episode, and the reviewer of a repair is not
\* one the original had.  A repair stays in the condition of its original
\* (assign_conditions, _pick_reviewers).
IsBlind(rows, config) ==
    \A i \in DOMAIN rows :
        /\ config.author_exclusion => rows[i].reviewer # rows[i].episode.author
        /\ \A j \in OriginalsOf(rows, i) :
              /\ rows[i].tag = rows[j].tag
              /\ config.repair_blinding => rows[i].reviewer # rows[j].reviewer

\* Every plan is blind, under the switches of the protocol it was made under.
AssignmentIsBlind ==
    plan # None => IsBlind(plan.rows, Configs[plan.protocol.files["assignment"]])

\* Reviewer r is not to have the episode of row i.
Barred(rows, config, r, i) ==
    \/ config.author_exclusion /\ rows[i].episode.author = r
    \/ config.repair_blinding /\ \E j \in OriginalsOf(rows, i) : rows[j].reviewer = r

RowsOf(rows, r) == {i \in DOMAIN rows : rows[i].reviewer = r}

\* A reviewer has at most one episode more than another, those not counted which
\* the other one was barred from (workload_balance).
IsShared(rows, config, eligible) ==
    \A p, q \in eligible :
        Cardinality({i \in RowsOf(rows, p) : ~Barred(rows, config, q, i)})
            <= Cardinality(RowsOf(rows, q)) + 1

\* The work of every plan is shared, where the protocol wants it balanced.
WorkloadIsShared ==
    plan # None /\ Configs[plan.protocol.files["assignment"]].workload_balance =>
        IsShared(plan.rows, Configs[plan.protocol.files["assignment"]],
                 Rosters[plan.protocol.files["reviewer-roster"]])

=============================================================================
