----------------------------- MODULE LedgerStore -----------------------------
(***************************************************************************)
(* The SQLite utility ledger (src/lpe/ledger/store.py) under concurrent    *)
(* writers, crashes of a writer and power failures of the host.            *)
(*                                                                         *)
(* An append is a transaction of several steps on one connection: take the *)
(* write lock (BEGIN IMMEDIATE), fold the stored rows and judge the event  *)
(* (append_v2 only), read the tip of the artifact's chain, insert, commit. *)
(* Each step is an action, so writers interleave.                          *)
(*                                                                         *)
(* SHA-256 is taken to be free of collisions: the digest of an event and   *)
(* the digest before it is the chain of events itself, so two digests are  *)
(* equal exactly when they cover the same events in the same order.        *)
(*                                                                         *)
(* A row does not hold all that was hashed: the version a 0.1 event was    *)
(* submitted in has no column.  Left out is a 0.1 payload with the store's *)
(* own key __lpe_event_v2__, which would be read back as a typed event.    *)
(***************************************************************************)
EXTENDS Lifecycle, FiniteSetsExt, SequencesExt

CONSTANTS
    Submissions,    \* the events clients may submit
    Writers,        \* connections that append
    MaxRows         \* bound on the rows of the table, for model checking

ASSUME StoreAssumptions ==
    /\ Submissions \subseteq Events
    /\ None \notin Writers \cup Submissions
    /\ MaxRows \in Nat

VARIABLES
    rows,       \* the committed rows of table events, in sequence order
    states,     \* states[n + 1]: what _load_reducer_state folds from n rows
    durable,    \* rows the WAL has been checkpointed for
    lock,       \* the connection that holds SQLite's write lock
    conn        \* per connection, the transaction it is in

vars == <<rows, states, durable, lock, conn>>

-----------------------------------------------------------------------------
(* The table *)

Hashes == Seq(Events)

NoHash == <<>>

\* _hash_material: the digest chains the event to the digest before it.
Hash(e, previous) == Append(previous, e)

\* What a row gives back of an event (_row_to_event_any): a typed event is
\* stored whole, a 0.1 event by its columns, without its schema_version.
StoredAs(e) == IF e.schema = "v2" THEN e ELSE [e EXCEPT !.version = CurrentVersion]

Rows == [event : Events, previous_hash : Hashes, event_hash : Hashes]

RowIds(r) == {r[i].event.id : i \in DOMAIN r}

ChainOf(r, a) == {i \in DOMAIN r : r[i].event.artifact = a}

\* _previous_hash: the digest of the artifact's last row.
PreviousHash(r, a) ==
    IF ChainOf(r, a) = {} THEN NoHash ELSE r[Max(ChainOf(r, a))].event_hash

\* The projection of all committed rows.
ReducerState == states[Len(rows) + 1]

-----------------------------------------------------------------------------
(* Transactions *)

Idle == [pc |-> "idle", event |-> None, previous |-> NoHash]

Conns ==
    [pc : {"idle", "begun", "validated", "hashed", "inserted"},
     event : Submissions \cup {None}, previous : Hashes]

Init ==
    /\ rows = <<>>
    /\ states = <<EmptyState>>
    /\ durable = 0
    /\ lock = None
    /\ conn = [w \in Writers |-> Idle]

\* Faulty variant of Begin: a deferred BEGIN, which takes no write lock.
BeginDeferred(w, e) ==
    /\ conn[w].pc = "idle"
    /\ Len(rows) < MaxRows
    /\ lock' = lock
    /\ conn' = [conn EXCEPT ![w] = [Idle EXCEPT !.pc = "begun", !.event = e]]
    /\ UNCHANGED <<rows, states, durable>>

\* BEGIN IMMEDIATE: waits for the write lock.  The table is bounded here.
Begin(w, e) ==
    /\ conn[w].pc = "idle"
    /\ lock = None
    /\ Len(rows) < MaxRows
    /\ lock' = w
    /\ conn' = [conn EXCEPT ![w] = [Idle EXCEPT !.pc = "begun", !.event = e]]
    /\ UNCHANGED <<rows, states, durable>>

\* Faulty variant of Validate: the reducer's verdict is ignored.
ValidateNothing(w) ==
    /\ conn[w].pc = "begun"
    /\ conn[w].event.schema = "v2"
    /\ conn' = [conn EXCEPT ![w].pc = "validated"]
    /\ UNCHANGED <<rows, states, durable, lock>>

\* append_v2: the event passes the reducer over the rows it sees.
Validate(w) ==
    /\ conn[w].pc = "begun"
    /\ conn[w].event.schema = "v2"
    /\ Accepts(ReducerState, conn[w].event)
    /\ conn' = [conn EXCEPT ![w].pc = "validated"]
    /\ UNCHANGED <<rows, states, durable, lock>>

\* ROLLBACK: the connection gives the lock back and nothing is stored.
Rollback(w) ==
    /\ lock' = None
    /\ conn' = [conn EXCEPT ![w] = Idle]
    /\ UNCHANGED <<rows, states, durable>>

\* append_v2: LifecycleError becomes LedgerTransitionError.
RefuseTransition(w) ==
    /\ conn[w].pc = "begun"
    /\ conn[w].event.schema = "v2"
    /\ ~ Accepts(ReducerState, conn[w].event)
    /\ Rollback(w)

\* Both appends read the tip; the 0.1 append asks no reducer first.
ReadTip(w) ==
    /\ \/ conn[w].pc = "validated"
       \/ conn[w].pc = "begun" /\ conn[w].event.schema = "v1"
    /\ conn' = [conn EXCEPT ![w].pc = "hashed",
                            ![w].previous = PreviousHash(rows, conn[w].event.artifact)]
    /\ UNCHANGED <<rows, states, durable, lock>>

\* Faulty variant of Insert: the table has no UNIQUE constraint on event_id.
InsertUnchecked(w) ==
    /\ conn[w].pc = "hashed"
    /\ conn' = [conn EXCEPT ![w].pc = "inserted"]
    /\ UNCHANGED <<rows, states, durable, lock>>

\* INSERT: the UNIQUE constraint on event_id.
Insert(w) ==
    /\ conn[w].pc = "hashed"
    /\ conn[w].event.id \notin RowIds(rows)
    /\ conn' = [conn EXCEPT ![w].pc = "inserted"]
    /\ UNCHANGED <<rows, states, durable, lock>>

\* INSERT fails: sqlite3.IntegrityError becomes LedgerIntegrityError.
RefuseDuplicate(w) ==
    /\ conn[w].pc = "hashed"
    /\ conn[w].event.id \in RowIds(rows)
    /\ Rollback(w)

\* COMMIT: only now do other connections see the row.
Commit(w) ==
    LET row == [event         |-> StoredAs(conn[w].event),
                previous_hash |-> conn[w].previous,
                event_hash    |-> Hash(conn[w].event, conn[w].previous)]
    IN  /\ conn[w].pc = "inserted"
        /\ rows' = Append(rows, row)
        /\ states' = Append(states, ReduceRow(ReducerState, row.event))
        /\ lock' = None
        /\ conn' = [conn EXCEPT ![w] = Idle]
        /\ UNCHANGED durable

\* The process dies: SQLite drops its open transaction.
Crash(w) ==
    /\ conn[w].pc # "idle"
    /\ Rollback(w)

\* Faulty variant of Checkpoint: the frame being written counts as synced.
CheckpointAhead(n) ==
    /\ durable' = n + 1
    /\ UNCHANGED <<rows, states, lock, conn>>

\* A checkpoint, automatic or checkpoint(): it may stop short of the end.
Checkpoint(n) ==
    /\ durable' = n
    /\ UNCHANGED <<rows, states, lock, conn>>

\* synchronous=NORMAL: commits since the last checkpoint may be lost.
PowerLoss(n) ==
    /\ rows' = SubSeq(rows, 1, n)
    /\ states' = SubSeq(states, 1, n + 1)
    /\ lock' = None
    /\ conn' = [w \in Writers |-> Idle]
    /\ UNCHANGED durable

Next ==
    \/ \E w \in Writers :
          \/ \E e \in Submissions : Begin(w, e)
          \/ Validate(w) \/ RefuseTransition(w)
          \/ ReadTip(w)
          \/ Insert(w) \/ RefuseDuplicate(w)
          \/ Commit(w)
          \/ Crash(w)
    \/ \E n \in durable .. Len(rows) : Checkpoint(n) \/ PowerLoss(n)

Spec == Init /\ [][Next]_vars

-----------------------------------------------------------------------------
(* verify() *)

\* Every row names the tip its artifact had before it.
Linked(r) ==
    \A i \in DOMAIN r :
        r[i].previous_hash = PreviousHash(SubSeq(r, 1, i - 1), r[i].event.artifact)

\* The hash of every row is that of the event read back from it.
HashesHold(r) == \A i \in DOMAIN r : r[i].event_hash = Hash(r[i].event, r[i].previous_hash)

\* Folding the typed rows in sequence order raises no LifecycleError.
LifecycleHolds ==
    \A i \in DOMAIN rows :
        rows[i].event.schema = "v2" => Accepts(states[i], rows[i].event)

\* verify() collects the ids of all rows first.
SupersedesKnown(r) ==
    \A i \in DOMAIN r : r[i].event.supersedes \in RowIds(r) \cup {None}

\* LedgerStore.verify returns.
VerifyPasses ==
    LifecycleHolds /\ Linked(rows) /\ HashesHold(rows) /\ SupersedesKnown(rows)

-----------------------------------------------------------------------------
(* Corrections *)

\* Faulty variant of Invalidated: a withdrawn correction restores its target.
InvalidatedUnlessWithdrawn(r) ==
    LET invalidating(i) == /\ r[i].event.schema = "v2"
                           /\ r[i].event.type = "CORRECTION_RECORDED"
                           /\ r[i].event.payload.invalidation
        targets == [i \in {k \in DOMAIN r : invalidating(k)} |->
                        r[i].event.payload.target_event_id]
    IN  {targets[i] : i \in {k \in DOMAIN targets :
            \A j \in DOMAIN targets : targets[j] # r[k].event.id}}

\* apply_corrections_deterministically: the events whose effect is None.
Invalidated(r) ==
    {r[i].event.payload.target_event_id :
        i \in {k \in DOMAIN r : /\ r[k].event.schema = "v2"
                                /\ r[k].event.type = "CORRECTION_RECORDED"
                                /\ r[k].event.payload.invalidation}}

-----------------------------------------------------------------------------
(* Properties *)

\* Every variable has its type, and there is one projection per prefix.
TypeOK ==
    /\ rows \in Seq(Rows)
    /\ states \in Seq(States)
    /\ Len(states) = Len(rows) + 1
    /\ durable \in 0 .. Len(rows)
    /\ lock \in Writers \cup {None}
    /\ conn \in [Writers -> Conns]

\* The hash of a row covers an event, and the row stores that event.
Covers(row) ==
    \E e \in Submissions : /\ row.event_hash = Hash(e, row.previous_hash)
                           /\ row.event = StoredAs(e)

\* That event, as it was submitted: the last one the hash covers.
Submitted(row) == Last(row.event_hash)

EventsAsSubmitted == [i \in DOMAIN rows |-> Submitted(rows[i])]

\* Every row carries on the chain of its artifact from the row before it, and
\* its hash covers the event the row stores, no matter how writers interleave,
\* die or lose power (_previous_hash, append).
ChainIntact == Linked(rows) /\ \A i \in DOMAIN rows : Covers(rows[i])

\* A ledger written through the two append functions fails verify() for one of
\* two reasons and no other: a row supersedes an event that is not there
\* (append checks no supersedes_event_id), or a 0.1 event was submitted in an
\* older version than the one it is read back in, so its hash is never found
\* again.  Either is enough.  Races, crashes and losses never make it fail.
VerifyFailsForTwoReasons ==
    VerifyPasses <=> /\ SupersedesKnown(rows)
                     /\ \A i \in DOMAIN rows : EventsAsSubmitted[i].version = CurrentVersion

\* The log of the store is the events as they were submitted.
History == INSTANCE EventLog WITH log <- EventsAsSubmitted

\* The projection the reducer folds up row by row means what the history says:
\* the phase is the type of the last step, an attestation counts only if no
\* candidate was registered after it, and so on (_load_reducer_state).
ProjectionIsHistory ==
    ReducerState = History!Projection(EventsAsSubmitted)

\* The concurrent store implements the atomic log: every commit is one legal
\* addition at the end, whatever the other connections did in between.
ImplementsEventLog == History!Spec

\* The typed rows of artifact a with one of the given types.
StepRows(a, types) ==
    {i \in DOMAIN rows : /\ rows[i].event.schema = "v2"
                         /\ rows[i].event.artifact = a
                         /\ rows[i].event.type \in types}

\* A typed acceptance rests on work done for the very candidate it accepts:
\* the artifact's only registration came first, evidence was compiled after
\* it, and if a review was ever assigned an attestation followed.
AcceptanceIsBacked ==
    \A a \in Artifacts : \A i \in StepRows(a, {"ARTIFACT_ACCEPTED"}) :
        \E j, k \in 1 .. i - 1 :
            /\ j < k
            /\ StepRows(a, {"CANDIDATE_REGISTERED"}) = {j}
            /\ k \in StepRows(a, {"EVIDENCE_COMPILED"})
            /\ \A m \in StepRows(a, {"REVIEW_ASSIGNED"}) :
                  m < i => \E n \in m .. i : n \in StepRows(a, {"REVIEW_ATTESTED"})

\* An obligation freeze is immutable: a freeze_id is frozen at most once, a
\* candidate is registered only after its freeze, and on an artifact that
\* froze obligations the candidate answers to that freeze.
FreezeIsImmutable ==
    /\ \A a, b \in Artifacts :
          \A i \in StepRows(a, {"OBLIGATION_FROZEN"}), j \in StepRows(b, {"OBLIGATION_FROZEN"}) :
              rows[i].event.payload = rows[j].event.payload => i = j
    /\ \A a \in Artifacts : \A i \in StepRows(a, {"CANDIDATE_REGISTERED"}) :
          /\ \E b \in Artifacts : \E j \in StepRows(b, {"OBLIGATION_FROZEN"}) :
                j < i /\ rows[j].event.payload.freeze_id = rows[i].event.payload.freeze_id
          /\ \A j \in StepRows(a, {"OBLIGATION_FROZEN"}) :
                rows[j].event.payload.freeze_id = rows[i].event.payload.freeze_id

\* A closed tip stays closed: nothing typed advances an artifact after its
\* rejection, its completed repair or a detected regression.
ClosedTipStaysClosed ==
    \A a \in Artifacts :
        \A i \in StepRows(a, {"ARTIFACT_REJECTED", "REPAIR_COMPLETED", "REGRESSION_DETECTED"}) :
            \A j \in StepRows(a, LifecycleTypes) : j <= i

\* Retracting is permanent: an event once invalidated stays invalidated while
\* the row that did it is there, even if that correction is itself corrected.
InvalidationIsPermanent ==
    [][Len(rows') >= Len(rows) => Invalidated(rows) \subseteq Invalidated(rows')]_vars

=============================================================================
