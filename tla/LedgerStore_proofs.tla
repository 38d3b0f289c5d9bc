------------------------- MODULE LedgerStore_proofs -------------------------
(***************************************************************************)
(* Theorems about LedgerStore, for any number of writers, any events and   *)
(* rows without bound (MaxRows only stops Begin).                          *)
(***************************************************************************)
EXTENDS LedgerStore, FiniteSetTheorems, WellFoundedInduction, SequenceTheorems, TLAPS

-----------------------------------------------------------------------------
(* Lemmas about the operators of the model *)

\* A finite, nonempty set of integers has a maximum, so Max(S) is one of its
\* members and no member is greater.
LEMMA MaxIsGreatest ==
  ASSUME NEW S \in SUBSET Int, IsFiniteSet(S), S # {}
  PROVE  /\ Max(S) \in S
         /\ \A j \in S : j <= Max(S)
<1> DEFINE Above(i) == {j \in S : i <= j}
<1> DEFINE T == {Above(i) : i \in S}
<1>1. T \subseteq FiniteSubsetsOf(S) /\ T # {}
  <2>1. ASSUME NEW i \in S PROVE Above(i) \in SUBSET S /\ IsFiniteSet(Above(i))
    BY FS_Subset
  <2> QED BY <2>1 DEF FiniteSubsetsOf
<1>2. IsWellFoundedOn(StrictSubsetOrdering(S), FiniteSubsetsOf(S))
  BY FS_StrictSubsetOrderingWellFounded
<1>3. PICK m \in T : \A k \in T : ~(<<k, m>> \in StrictSubsetOrdering(S))
  <2> HIDE DEF T
  <2> QED BY <1>1, <1>2, WFMin, Zenon
<1>4. PICK i \in S : m = Above(i)
  BY <1>3
<1>5. ASSUME NEW j \in S, i < j PROVE FALSE
  <2>0. i \in Int /\ j \in Int OBVIOUS
  <2>1. Above(j) \in T OBVIOUS
  <2>2. \A k \in S : k \in Int /\ (j <= k => i <= k)
    BY <2>0, <1>5
  <2>3. Above(j) \subseteq Above(i) BY <2>2
  <2>4. i \notin Above(j) BY <2>0, <1>5
  <2>5. i \in Above(i) BY <2>0
  <2>6. <<Above(j), Above(i)>> \in StrictSubsetOrdering(S)
    BY <2>3, <2>4, <2>5 DEF StrictSubsetOrdering
  <2> QED BY <2>6, <1>3, <1>4, <2>1
<1>6. \A j \in S : i \in Int /\ j \in Int OBVIOUS
<1>7. \A j \in S : i >= j BY <1>5, <1>6
<1>8. Max(S) \in S /\ \A j \in S : Max(S) >= j
  BY <1>7 DEF Max
<1> QED BY <1>6, <1>8

\* The tip of a chain is a digest some row of the table carries, or NoHash.
LEMMA PreviousHashType ==
  ASSUME NEW r \in Seq(Rows), NEW a
  PROVE  PreviousHash(r, a) \in Hashes
<1>1. CASE ChainOf(r, a) = {}
  BY <1>1 DEF PreviousHash, NoHash, Hashes
<1>2. CASE ChainOf(r, a) # {}
  <2>1. ChainOf(r, a) \in SUBSET (1 .. Len(r)) /\ Len(r) \in Nat
    BY LenProperties DEF ChainOf
  <2>2. IsFiniteSet(ChainOf(r, a))
    <3>1. IsFiniteSet(1 .. Len(r)) BY <2>1, FS_Interval
    <3> QED BY <2>1, <3>1, FS_Subset
  <2>3. ChainOf(r, a) \in SUBSET Int
    BY <2>1
  <2>4. Max(ChainOf(r, a)) \in 1 .. Len(r)
    BY <1>2, <2>1, <2>2, <2>3, MaxIsGreatest
  <2>5. r[Max(ChainOf(r, a))] \in Rows
    BY <2>4, ElementOfSeq
  <2> QED BY <1>2, <2>5 DEF PreviousHash, Rows
<1> QED BY <1>1, <1>2

\* A typed event carries the payload its type calls for.
LEMMA PayloadType ==
  ASSUME NEW e \in Events, e.schema = "v2"
  PROVE  /\ e.type \in EventTypesV2 /\ e.artifact \in Artifacts /\ e.id \in EventIds
         /\ e.type = "OBLIGATION_FROZEN" => e.payload.freeze_id \in Freezes
         /\ e.type = "CANDIDATE_REGISTERED" =>
               e.payload.freeze_id \in Freezes /\ e.payload.candidate_id \in Candidates
         /\ e.type = "REVIEW_ATTESTED" => e.payload.attestation_id \in Attestations
<1>1. e \in Envelopes /\ e.type \in EventTypesV2 /\ e.payload \in PayloadOf(e.type)
  BY DEF Events
<1>2. e.artifact \in Artifacts /\ e.id \in EventIds
  BY <1>1 DEF Envelopes
<1>3. ASSUME e.type = "OBLIGATION_FROZEN" PROVE e.payload.freeze_id \in Freezes
  BY <1>1, <1>3 DEF PayloadOf, FreezePayload
<1>4. ASSUME e.type = "CANDIDATE_REGISTERED"
      PROVE  e.payload.freeze_id \in Freezes /\ e.payload.candidate_id \in Candidates
  BY <1>1, <1>4 DEF PayloadOf, CandidatePayload
<1>5. ASSUME e.type = "REVIEW_ATTESTED" PROVE e.payload.attestation_id \in Attestations
  BY <1>1, <1>5 DEF PayloadOf, AttestationPayload
<1> QED BY <1>1, <1>2, <1>3, <1>4, <1>5

\* The reducer maps projections to projections.
LEMMA ReduceType ==
  ASSUME NEW s \in States, NEW e \in Events
  PROVE  ReduceRow(s, e) \in States
<1>1. CASE e.schema # "v2"
  BY <1>1 DEF ReduceRow
<1>2. CASE e.schema = "v2"
  <2>1. Apply(s, e) \in States
    <3>1. CASE e.type = "OBLIGATION_FROZEN"
      <4>1. e.payload.freeze_id \in Freezes /\ e.artifact \in Artifacts
        BY <1>2, <3>1, PayloadType
      <4>2. /\ s.freezes \cup {e.payload.freeze_id} \in SUBSET Freezes
            /\ [s.freeze EXCEPT ![e.artifact] = e.payload.freeze_id]
                  \in [Artifacts -> Freezes \cup {None}]
        BY <4>1 DEF States
      <4>3. FreezeObligation(s, e) \in States
        BY <4>2 DEF FreezeObligation, States
      <4> QED BY <3>1, <4>3 DEF Apply
    <3>2. CASE e.type = "CANDIDATE_REGISTERED"
      <4>1. /\ e.payload.freeze_id \in Freezes /\ e.payload.candidate_id \in Candidates
            /\ e.artifact \in Artifacts
        BY <1>2, <3>2, PayloadType
      <4>2. /\ [s.freeze EXCEPT ![e.artifact] = e.payload.freeze_id]
                  \in [Artifacts -> Freezes \cup {None}]
            /\ [s.candidate EXCEPT ![e.artifact] = e.payload.candidate_id]
                  \in [Artifacts -> Candidates \cup {None}]
            /\ [s.attested EXCEPT ![e.artifact] = {}] \in [Artifacts -> SUBSET Attestations]
        BY <4>1 DEF States
      <4>3. [s.governed EXCEPT ![e.payload.freeze_id] = @ \cup {e.payload.candidate_id}]
               \in [Freezes -> SUBSET Candidates]
        BY <4>1 DEF States
      <4>4. RegisterCandidate(s, e) \in States
        BY <4>2, <4>3 DEF RegisterCandidate, States
      <4> QED BY <3>2, <4>4 DEF Apply
    <3>3. CASE e.type = "REVIEW_ATTESTED"
      <4>1. e.payload.attestation_id \in Attestations /\ e.artifact \in Artifacts
        BY <1>2, <3>3, PayloadType
      <4>2. [s.attested EXCEPT ![e.artifact] = @ \cup {e.payload.attestation_id}]
               \in [Artifacts -> SUBSET Attestations]
        BY <4>1 DEF States
      <4> QED BY <3>3, <4>2 DEF Apply, States
    <3>4. CASE e.type = "CORRECTION_RECORDED"
      <4>1. Append(s.corrections, e.id) \in Seq(EventIds)
        BY <1>2, PayloadType, AppendProperties DEF States
      <4> QED BY <3>4, <4>1 DEF Apply, States
    <3>5. CASE e.type \notin {"OBLIGATION_FROZEN", "CANDIDATE_REGISTERED",
                               "REVIEW_ATTESTED", "CORRECTION_RECORDED"}
      BY <3>5 DEF Apply
    <3> QED BY <3>1, <3>2, <3>3, <3>4, <3>5
  <2>2. e.id \in EventIds /\ e.artifact \in Artifacts /\ e.type \in EventTypesV2
    BY <1>2, PayloadType
  <2>3. e.type \notin SideChannelTypes => e.type \in Phases
    BY <2>2 DEF EventTypesV2, Phases
  <2>4. Reduce(s, e) \in States
    BY <2>1, <2>2, <2>3 DEF Reduce, States
  <2> QED BY <1>2, <2>4 DEF ReduceRow
<1> QED BY <1>1, <1>2

\* A row added at the end leaves the prefixes before it as they were.
LEMMA PrefixOfAppend ==
  ASSUME NEW S, NEW s \in Seq(S), NEW x \in S, NEW n \in 0 .. Len(s)
  PROVE  SubSeq(Append(s, x), 1, n) = SubSeq(s, 1, n)
<1>1. Append(s, x) \in Seq(S) /\ Len(Append(s, x)) = Len(s) + 1 /\ Len(s) \in Nat
      /\ \A i \in 1 .. Len(s) : Append(s, x)[i] = s[i]
  BY AppendProperties, LenProperties
<1>2. n \in Nat /\ \A i \in 1 .. n : Append(s, x)[i] = s[i] /\ s[i] \in S
  BY <1>1, ElementOfSeq
<1>3. /\ SubSeq(s, 1, n) \in Seq(S) /\ Len(SubSeq(s, 1, n)) = n
      /\ \A i \in 1 .. n : SubSeq(s, 1, n)[i] = s[i]
  BY <1>2, SubSeqProperties
<1>4. /\ SubSeq(Append(s, x), 1, n) \in Seq(S) /\ Len(SubSeq(Append(s, x), 1, n)) = n
      /\ \A i \in 1 .. n : SubSeq(Append(s, x), 1, n)[i] = s[i]
  BY <1>2, SubSeqProperties
<1> QED BY <1>3, <1>4, SeqEqual

\* What is left after a loss is a prefix, and so are its prefixes.
LEMMA PrefixProperties ==
  ASSUME NEW S, NEW s \in Seq(S), NEW n \in 0 .. Len(s)
  PROVE  /\ SubSeq(s, 1, n) \in Seq(S)
         /\ Len(SubSeq(s, 1, n)) = n
         /\ \A i \in 1 .. n : SubSeq(s, 1, n)[i] = s[i]
         /\ \A k \in 0 .. n : SubSeq(SubSeq(s, 1, n), 1, k) = SubSeq(s, 1, k)
<1>1. Len(s) \in Nat /\ n \in Nat /\ \A i \in 1 .. n : s[i] \in S
  BY LenProperties, ElementOfSeq
<1>2. /\ SubSeq(s, 1, n) \in Seq(S) /\ Len(SubSeq(s, 1, n)) = n
      /\ \A i \in 1 .. n : SubSeq(s, 1, n)[i] = s[i]
  BY <1>1, SubSeqProperties
<1>3. ASSUME NEW k \in 0 .. n
      PROVE  SubSeq(SubSeq(s, 1, n), 1, k) = SubSeq(s, 1, k)
  <2>1. k \in Nat /\ \A i \in 1 .. k : s[i] \in S /\ SubSeq(s, 1, n)[i] = s[i]
    BY <1>1, <1>2
  <2>2. /\ SubSeq(s, 1, k) \in Seq(S) /\ Len(SubSeq(s, 1, k)) = k
        /\ \A i \in 1 .. k : SubSeq(s, 1, k)[i] = s[i]
    BY <2>1, SubSeqProperties
  <2>3. /\ SubSeq(SubSeq(s, 1, n), 1, k) \in Seq(S)
        /\ Len(SubSeq(SubSeq(s, 1, n), 1, k)) = k
        /\ \A i \in 1 .. k : SubSeq(SubSeq(s, 1, n), 1, k)[i] = s[i]
    BY <2>1, SubSeqProperties
  <2> QED BY <2>2, <2>3, SeqEqual
<1> QED BY <1>2, <1>3

\* What is read back of a typed event is the event; of a 0.1 event it is one of
\* the current version.  The reducer sees no difference.
LEMMA StoredType ==
  ASSUME NEW e \in Events
  PROVE  /\ StoredAs(e) \in Events /\ StoredAs(e).schema = e.schema /\ StoredAs(e).id = e.id
         /\ StoredAs(e).artifact = e.artifact
         /\ e.schema = "v2" => StoredAs(e) = e
         /\ StoredAs(e) = e <=> e.version = CurrentVersion
         /\ \A s : ReduceRow(s, StoredAs(e)) = ReduceRow(s, e)
<1>1. e \in Envelopes /\ e.schema \in {"v1", "v2"}
  BY DEF Events, Envelopes
<1>2. CASE e.schema = "v2"
  <2>1. StoredAs(e) = e
    BY <1>2 DEF StoredAs
  <2>2. e.version = CurrentVersion
    BY <1>2 DEF Events
  <2> QED BY <2>1, <2>2
<1>3. CASE e.schema = "v1"
  <2> DEFINE d == [e EXCEPT !.version = CurrentVersion]
  <2>1. StoredAs(e) = d
    BY <1>3 DEF StoredAs
  <2>2. /\ d \in Envelopes /\ d.schema = e.schema /\ d.type = e.type /\ d.payload = e.payload
        /\ d.id = e.id /\ d.artifact = e.artifact /\ d.version = CurrentVersion
    BY <1>1 DEF Envelopes, CurrentVersion, SchemaVersions
  <2>3. e.version = CurrentVersion => d = e
    BY <1>1 DEF Envelopes
  <2> HIDE DEF d
  <2>4. d \in Events
    BY <1>3, <2>2 DEF Events
  <2>5. \A s : ReduceRow(s, d) = s /\ ReduceRow(s, e) = s
    BY <1>3, <2>2 DEF ReduceRow
  <2> QED BY <1>3, <2>1, <2>2, <2>3, <2>4, <2>5
<1> QED BY <1>1, <1>2, <1>3

\* The last event a digest covers is the one it was computed for.
LEMMA LastOfHash ==
  ASSUME NEW h \in Hashes, NEW e \in Events
  PROVE  /\ Hash(e, h) \in Hashes /\ Last(Hash(e, h)) = e
         /\ \A d \in Events : Hash(d, h) = Hash(e, h) <=> d = e
<1>1. ASSUME NEW d \in Events
      PROVE  Hash(d, h) \in Hashes /\ Last(Hash(d, h)) = d
  BY AppendProperties, LenProperties DEF Hash, Hashes, Last
<1> QED BY <1>1

\* A row that names the tip of its artifact carries the chain on.
LEMMA ChainAppend ==
  ASSUME NEW r \in Seq(Rows), Linked(r), NEW row \in Rows,
         row.previous_hash = PreviousHash(r, row.event.artifact)
  PROVE  Linked(Append(r, row))
<1>1. /\ DOMAIN Append(r, row) = 1 .. Len(r) + 1 /\ DOMAIN r = 1 .. Len(r) /\ Len(r) \in Nat
      /\ \A i \in 1 .. Len(r) : Append(r, row)[i] = r[i]
      /\ Append(r, row)[Len(r) + 1] = row
  BY AppendProperties, LenProperties
<1>2. ASSUME NEW i \in 1 .. Len(r) + 1
      PROVE  SubSeq(Append(r, row), 1, i - 1) = SubSeq(r, 1, i - 1)
  <2>1. i - 1 \in 0 .. Len(r) BY <1>1
  <2> QED BY <2>1, PrefixOfAppend
<1>3. SubSeq(r, 1, Len(r)) = r
  BY SubSeqFull
<1>4. ASSUME NEW i \in 1 .. Len(r) + 1
      PROVE  Append(r, row)[i].previous_hash =
                PreviousHash(SubSeq(Append(r, row), 1, i - 1), Append(r, row)[i].event.artifact)
  <2>1. CASE i \in 1 .. Len(r)
    BY <1>1, <1>2, <2>1 DEF Linked
  <2>2. CASE i = Len(r) + 1
    <3>1. i - 1 = Len(r) BY <1>1, <2>2
    <3>2. SubSeq(Append(r, row), 1, i - 1) = r BY <1>2, <1>3, <3>1
    <3> QED BY <1>1, <2>2, <3>2
  <2> QED BY <1>1, <2>1, <2>2
<1> QED BY <1>1, <1>4 DEF Linked

\* A prefix of an unbroken chain is unbroken.
LEMMA ChainPrefix ==
  ASSUME NEW r \in Seq(Rows), Linked(r), NEW n \in 0 .. Len(r)
  PROVE  Linked(SubSeq(r, 1, n))
<1>1. /\ DOMAIN r = 1 .. Len(r) /\ Len(r) \in Nat /\ n \in Nat
  BY LenProperties
<1>2. /\ SubSeq(r, 1, n) \in Seq(Rows) /\ Len(SubSeq(r, 1, n)) = n
      /\ \A i \in 1 .. n : SubSeq(r, 1, n)[i] = r[i]
      /\ \A k \in 0 .. n : SubSeq(SubSeq(r, 1, n), 1, k) = SubSeq(r, 1, k)
  BY PrefixProperties
<1>3. DOMAIN SubSeq(r, 1, n) = 1 .. n
  BY <1>2, LenProperties
<1>4. ASSUME NEW i \in 1 .. n
      PROVE  i \in DOMAIN r /\ SubSeq(SubSeq(r, 1, n), 1, i - 1) = SubSeq(r, 1, i - 1)
  <2>1. i - 1 \in 0 .. n /\ i \in 1 .. Len(r) BY <1>1
  <2> QED BY <1>1, <1>2, <2>1
<1> DEFINE p == SubSeq(r, 1, n)
<1>5. ASSUME NEW i \in 1 .. n
      PROVE  p[i].previous_hash = PreviousHash(SubSeq(p, 1, i - 1), p[i].event.artifact)
  BY <1>2, <1>4 DEF Linked
<1> QED BY <1>3, <1>5 DEF Linked

LEMMA EmptyStateType == EmptyState \in States
<1>1. "EMPTY" \in Phases BY DEF Phases
<1>2. <<>> \in Seq(EventIds) BY EmptySeq
<1> QED BY <1>1, <1>2 DEF EmptyState, States

-----------------------------------------------------------------------------
(* Typing *)

\* Only the holder of the write lock is inside a transaction.
Exclusive ==
    \A w \in Writers :
        conn[w].pc # "idle" => lock = w /\ conn[w].event \in Submissions

TypeInv == TypeOK /\ Exclusive

LEMMA InitTypeInv == Init => TypeInv
<1> SUFFICES ASSUME Init PROVE TypeInv OBVIOUS
<1>1. rows \in Seq(Rows) /\ Len(rows) = 0
  BY EmptySeq DEF Init
<1>2. states \in Seq(States) /\ Len(states) = 1
  BY EmptyStateType DEF Init
<1>3. Idle \in Conns
  BY EmptySeq DEF Idle, Conns, NoHash, Hashes
<1> QED BY <1>1, <1>2, <1>3 DEF Init, TypeInv, TypeOK, Exclusive, Idle

\* Every step of a transaction keeps the types and the exclusion.
LEMMA NextTypeInv == TypeInv /\ [Next]_vars => TypeInv'
<1> SUFFICES ASSUME TypeInv, [Next]_vars PROVE TypeInv' OBVIOUS
<1> USE DEF TypeInv
<1>0. Idle \in Conns /\ Idle.pc = "idle"
  BY EmptySeq DEF Idle, Conns, NoHash, Hashes
<1>1. ASSUME NEW w \in Writers, NEW e \in Submissions, Begin(w, e) PROVE TypeInv'
  <2>1. conn'[w] = [pc |-> "begun", event |-> e, previous |-> NoHash]
    BY <1>1 DEF Begin, TypeOK, Idle
  <2>2. conn'[w] \in Conns
    BY <2>1, EmptySeq DEF Conns, NoHash, Hashes
  <2>3. TypeOK'
    BY <1>1, <2>2 DEF Begin, TypeOK
  <2>4. Exclusive'
    BY <1>1, <2>1, StoreAssumptions DEF Begin, TypeOK, Exclusive
  <2> QED BY <2>3, <2>4
<1>2. ASSUME NEW w \in Writers, Rollback(w), conn[w].pc # "idle" PROVE TypeInv'
  <2>1. TypeOK'
    BY <1>0, <1>2 DEF Rollback, TypeOK
  <2>2. Exclusive'
    BY <1>0, <1>2 DEF Rollback, TypeOK, Exclusive
  <2> QED BY <2>1, <2>2
<1>3. ASSUME NEW w \in Writers, Validate(w) PROVE TypeInv'
  BY <1>3 DEF Validate, TypeOK, Exclusive, Conns
<1>4. ASSUME NEW w \in Writers, RefuseTransition(w) PROVE TypeInv'
  BY <1>2, <1>4 DEF RefuseTransition
<1>5. ASSUME NEW w \in Writers, ReadTip(w) PROVE TypeInv'
  <2>1. PreviousHash(rows, conn[w].event.artifact) \in Hashes
    BY PreviousHashType DEF TypeOK
  <2> QED BY <1>5, <2>1 DEF ReadTip, TypeOK, Exclusive, Conns
<1>6. ASSUME NEW w \in Writers, Insert(w) PROVE TypeInv'
  BY <1>6 DEF Insert, TypeOK, Exclusive, Conns
<1>7. ASSUME NEW w \in Writers, RefuseDuplicate(w) PROVE TypeInv'
  BY <1>2, <1>7 DEF RefuseDuplicate
<1>8. ASSUME NEW w \in Writers, Commit(w) PROVE TypeInv'
  <2> DEFINE row == [event         |-> StoredAs(conn[w].event),
                     previous_hash |-> conn[w].previous,
                     event_hash    |-> Hash(conn[w].event, conn[w].previous)]
  <2>1. conn[w].event \in Events /\ conn[w].previous \in Hashes
    BY <1>8, StoreAssumptions DEF Commit, TypeOK, Exclusive, Conns
  <2>2. row \in Rows
    BY <2>1, AppendProperties, StoredType DEF Rows, Hash, Hashes
  <2>3. ReduceRow(ReducerState, row.event) \in States
    <3>1. ReducerState \in States
      BY LenProperties, ElementOfSeq DEF ReducerState, TypeOK
    <3>2. row.event \in Events
      BY <2>1, StoredType
    <3> QED BY <3>1, <3>2, ReduceType
  <2>4. rows' = Append(rows, row) /\ states' = Append(states, ReduceRow(ReducerState, row.event))
    BY <1>8 DEF Commit
  <2>5. rows' \in Seq(Rows) /\ states' \in Seq(States)
        /\ Len(rows') = Len(rows) + 1 /\ Len(states') = Len(states) + 1
    <3> HIDE DEF row
    <3> QED BY <2>2, <2>3, <2>4, AppendProperties DEF TypeOK
  <2>6. durable' \in 0 .. Len(rows') /\ Len(states') = Len(rows') + 1
    BY <1>8, <2>5, LenProperties DEF Commit, TypeOK
  <2>7. TypeOK'
    BY <1>0, <1>8, <2>5, <2>6 DEF Commit, TypeOK
  <2>8. Exclusive'
    BY <1>0, <1>8 DEF Commit, TypeOK, Exclusive
  <2> QED BY <2>7, <2>8
<1>9. ASSUME NEW w \in Writers, Crash(w) PROVE TypeInv'
  BY <1>2, <1>9 DEF Crash
<1>10. ASSUME NEW n \in durable .. Len(rows), Checkpoint(n) PROVE TypeInv'
  <2>1. n \in 0 .. Len(rows)
    BY LenProperties DEF TypeOK
  <2> QED BY <1>10, <2>1 DEF Checkpoint, TypeOK, Exclusive
<1>11. ASSUME NEW n \in durable .. Len(rows), PowerLoss(n) PROVE TypeInv'
  <2>1. n \in 0 .. Len(rows) /\ n \in Nat /\ durable \in 0 .. n /\ Len(states) = Len(rows) + 1
    BY LenProperties DEF TypeOK
  <2>2. rows' \in Seq(Rows) /\ Len(rows') = n
    BY <1>11, <2>1, SubSeqProperties, ElementOfSeq DEF PowerLoss, TypeOK
  <2>3. states' \in Seq(States) /\ Len(states') = n + 1
    BY <1>11, <2>1, SubSeqProperties, ElementOfSeq DEF PowerLoss, TypeOK
  <2> QED BY <1>0, <1>11, <2>1, <2>2, <2>3 DEF PowerLoss, TypeOK, Exclusive
<1>12. CASE UNCHANGED vars
  BY <1>12 DEF vars, TypeOK, Exclusive
<1> QED
  BY <1>1, <1>3, <1>4, <1>5, <1>6, <1>7, <1>8, <1>9, <1>10, <1>11, <1>12 DEF Next

\* Every variable of the store keeps its type, however writers interleave.
THEOREM StoreTypeCorrect == Spec => []TypeOK
<1>1. TypeInv => TypeOK BY DEF TypeInv
<1> QED BY <1>1, InitTypeInv, NextTypeInv, PTL DEF Spec

-----------------------------------------------------------------------------
(* The hash chain *)

\* The digest a transaction has read is still the tip when it inserts: this is
\* what holding the write lock from BEGIN to COMMIT is for.
TipKnown ==
    \A w \in Writers :
        conn[w].pc \in {"hashed", "inserted"} =>
            conn[w].previous = PreviousHash(rows, conn[w].event.artifact)

ChainInv == TipKnown /\ ChainIntact

LEMMA InitChainInv == Init => ChainInv
  BY DEF Init, ChainInv, TipKnown, ChainIntact, Linked, Idle

LEMMA NextChainInv == TypeInv /\ ChainInv /\ [Next]_vars => ChainInv'
<1> SUFFICES ASSUME TypeInv, ChainInv, [Next]_vars PROVE ChainInv' OBVIOUS
<1> USE DEF TypeInv, ChainInv
<1>0. Idle.pc = "idle" BY DEF Idle
<1>1. ASSUME NEW w \in Writers, NEW e \in Submissions, Begin(w, e) PROVE ChainInv'
  BY <1>1 DEF Begin, Idle, TypeOK, TipKnown, ChainIntact
<1>2. ASSUME NEW w \in Writers, Rollback(w) PROVE ChainInv'
  BY <1>0, <1>2 DEF Rollback, TypeOK, TipKnown, ChainIntact
<1>3. ASSUME NEW w \in Writers, Validate(w) PROVE ChainInv'
  BY <1>3 DEF Validate, TypeOK, TipKnown, ChainIntact
<1>4. ASSUME NEW w \in Writers, ReadTip(w) PROVE ChainInv'
  BY <1>4 DEF ReadTip, TypeOK, TipKnown, ChainIntact, Conns
<1>5. ASSUME NEW w \in Writers, Insert(w) PROVE ChainInv'
  BY <1>5 DEF Insert, TypeOK, TipKnown, ChainIntact, Conns
<1>6. ASSUME NEW w \in Writers, Commit(w) PROVE ChainInv'
  <2> DEFINE row == [event         |-> StoredAs(conn[w].event),
                     previous_hash |-> conn[w].previous,
                     event_hash    |-> Hash(conn[w].event, conn[w].previous)]
  <2>1. conn[w].event \in Events /\ conn[w].previous \in Hashes
    BY <1>6, StoreAssumptions DEF Commit, TypeOK, Exclusive, Conns
  <2>2. row \in Rows
    BY <2>1, AppendProperties, StoredType DEF Rows, Hash, Hashes
  <2>3. row.previous_hash = PreviousHash(rows, row.event.artifact)
    <3>1. row.event.artifact = conn[w].event.artifact
      BY <2>1, StoredType
    <3> QED BY <1>6, <3>1 DEF Commit, TipKnown
  <2>4. rows' = Append(rows, row) BY <1>6 DEF Commit
  <2>5. Covers(row)
    BY <1>6 DEF Commit, Exclusive, Covers
  <2>6. ChainIntact'
    <3> HIDE DEF row
    <3>1. Linked(rows')
      BY <2>2, <2>3, <2>4, ChainAppend DEF ChainIntact, TypeOK
    <3>2. \A i \in DOMAIN rows' : rows'[i] = row \/ (i \in DOMAIN rows /\ rows'[i] = rows[i])
      BY <2>2, <2>4, AppendProperties, LenProperties DEF TypeOK
    <3> QED BY <2>5, <3>1, <3>2 DEF ChainIntact
  <2>7. \A v \in Writers : conn'[v].pc = "idle"
    BY <1>0, <1>6 DEF Commit, TypeOK, Exclusive
  <2> QED BY <2>6, <2>7 DEF TipKnown
<1>7. ASSUME NEW n \in durable .. Len(rows), Checkpoint(n) PROVE ChainInv'
  BY <1>7 DEF Checkpoint, TipKnown, ChainIntact
<1>8. ASSUME NEW n \in durable .. Len(rows), PowerLoss(n) PROVE ChainInv'
  <2>1. n \in 0 .. Len(rows) BY LenProperties DEF TypeOK
  <2>2. ChainIntact'
    <3>1. Linked(rows')
      BY <1>8, <2>1, ChainPrefix DEF PowerLoss, ChainIntact, TypeOK
    <3>2. \A i \in DOMAIN rows' : i \in DOMAIN rows /\ rows'[i] = rows[i]
      BY <1>8, <2>1, PrefixProperties, LenProperties DEF PowerLoss, TypeOK
    <3> QED BY <3>1, <3>2 DEF ChainIntact
  <2> QED BY <1>0, <1>8, <2>2 DEF PowerLoss, TipKnown
<1>9. CASE UNCHANGED vars
  BY <1>9 DEF vars, TipKnown, ChainIntact
<1> QED
  BY <1>1, <1>2, <1>3, <1>4, <1>5, <1>6, <1>7, <1>8, <1>9
  DEF Next, RefuseTransition, RefuseDuplicate, Crash

\* No interleaving, crash or power loss breaks the hash chain of an artifact.
THEOREM ChainNeverBreaks == Spec => []ChainIntact
<1>1. ChainInv => ChainIntact BY DEF ChainInv
<1> QED
  BY <1>1, InitTypeInv, NextTypeInv, InitChainInv, NextChainInv, PTL DEF Spec

-----------------------------------------------------------------------------
(* The lifecycle *)

\* The reducer's verdict on a typed event still stands when it is committed.
Judged ==
    \A w \in Writers :
        conn[w].pc \in {"validated", "hashed", "inserted"} /\ conn[w].event.schema = "v2"
            => Accepts(ReducerState, conn[w].event)

LifecycleInv == Judged /\ LifecycleHolds

LEMMA InitLifecycleInv == Init => LifecycleInv
  BY DEF Init, LifecycleInv, Judged, LifecycleHolds, Idle

LEMMA NextLifecycleInv == TypeInv /\ LifecycleInv /\ [Next]_vars => LifecycleInv'
<1> SUFFICES ASSUME TypeInv, LifecycleInv, [Next]_vars PROVE LifecycleInv' OBVIOUS
<1> USE DEF TypeInv, LifecycleInv
<1>0. Idle.pc = "idle" BY DEF Idle
<1>1. ASSUME NEW w \in Writers, NEW e \in Submissions, Begin(w, e) PROVE LifecycleInv'
  BY <1>1 DEF Begin, Idle, TypeOK, Judged, LifecycleHolds, ReducerState
<1>2. ASSUME NEW w \in Writers, Rollback(w) PROVE LifecycleInv'
  BY <1>0, <1>2 DEF Rollback, TypeOK, Judged, LifecycleHolds, ReducerState
<1>3. ASSUME NEW w \in Writers, Validate(w) PROVE LifecycleInv'
  BY <1>3 DEF Validate, TypeOK, Judged, LifecycleHolds, ReducerState, Conns
<1>4. ASSUME NEW w \in Writers, ReadTip(w) PROVE LifecycleInv'
  BY <1>4 DEF ReadTip, TypeOK, Judged, LifecycleHolds, ReducerState, Conns
<1>5. ASSUME NEW w \in Writers, Insert(w) PROVE LifecycleInv'
  BY <1>5 DEF Insert, TypeOK, Judged, LifecycleHolds, ReducerState, Conns
<1>6. ASSUME NEW w \in Writers, Commit(w) PROVE LifecycleInv'
  <2> DEFINE row == [event         |-> StoredAs(conn[w].event),
                     previous_hash |-> conn[w].previous,
                     event_hash    |-> Hash(conn[w].event, conn[w].previous)]
  <2> DEFINE after == ReduceRow(ReducerState, row.event)
  <2>1. conn[w].event \in Events /\ conn[w].previous \in Hashes
    BY <1>6, StoreAssumptions DEF Commit, TypeOK, Exclusive, Conns
  <2>2. row \in Rows
    BY <2>1, AppendProperties, StoredType DEF Rows, Hash, Hashes
  <2>3. ReducerState \in States
    BY LenProperties, ElementOfSeq DEF ReducerState, TypeOK
  <2>4. after \in States
    BY <2>1, <2>3, StoredType, ReduceType
  <2>5. row.event.schema = "v2" => Accepts(ReducerState, row.event)
    BY <1>6, <2>1, StoredType DEF Commit, Judged
  <2>6. rows' = Append(rows, row) /\ states' = Append(states, after)
    BY <1>6 DEF Commit
  <2>7. LifecycleHolds'
    <3> HIDE DEF row, after
    <3>1. DOMAIN rows' = 1 .. Len(rows) + 1 /\ DOMAIN rows = 1 .. Len(rows) /\ Len(rows) \in Nat
      BY <2>2, <2>6, AppendProperties, LenProperties DEF TypeOK
    <3>2. \A i \in 1 .. Len(rows) : rows'[i] = rows[i]
      BY <2>2, <2>6, AppendProperties DEF TypeOK
    <3>3. rows'[Len(rows) + 1] = row
      BY <2>2, <2>6, AppendProperties DEF TypeOK
    <3>4. \A i \in 1 .. Len(rows) + 1 : states'[i] = states[i]
      BY <2>4, <2>6, AppendProperties DEF TypeOK
    <3>5. ASSUME NEW i \in 1 .. Len(rows) PROVE rows'[i].event.schema = "v2"
                                                  => Accepts(states'[i], rows'[i].event)
      BY <3>1, <3>2, <3>4 DEF LifecycleHolds
    <3>6. rows'[Len(rows) + 1].event.schema = "v2"
            => Accepts(states'[Len(rows) + 1], rows'[Len(rows) + 1].event)
      BY <2>5, <3>1, <3>3, <3>4 DEF ReducerState
    <3>7. \A i \in 1 .. Len(rows) + 1 : i \in 1 .. Len(rows) \/ i = Len(rows) + 1
      BY <3>1
    <3> QED BY <3>1, <3>5, <3>6, <3>7 DEF LifecycleHolds
  <2>8. \A v \in Writers : conn'[v].pc = "idle"
    BY <1>0, <1>6 DEF Commit, TypeOK, Exclusive
  <2> QED BY <2>7, <2>8 DEF Judged
<1>7. ASSUME NEW n \in durable .. Len(rows), Checkpoint(n) PROVE LifecycleInv'
  BY <1>7 DEF Checkpoint, Judged, LifecycleHolds, ReducerState
<1>8. ASSUME NEW n \in durable .. Len(rows), PowerLoss(n) PROVE LifecycleInv'
  <2>1. n \in 0 .. Len(rows) /\ n + 1 \in 0 .. Len(states) /\ n \in Nat
    BY LenProperties DEF TypeOK
  <2>2. /\ DOMAIN rows' = 1 .. n /\ DOMAIN rows = 1 .. Len(rows) /\ Len(rows) \in Nat
        /\ \A i \in 1 .. n : rows'[i] = rows[i]
    BY <1>8, <2>1, PrefixProperties, LenProperties DEF PowerLoss, TypeOK
  <2>3. \A i \in 1 .. n + 1 : states'[i] = states[i]
    BY <1>8, <2>1, PrefixProperties DEF PowerLoss, TypeOK
  <2>4. LifecycleHolds'
    BY <2>1, <2>2, <2>3 DEF LifecycleHolds
  <2> QED BY <1>0, <1>8, <2>4 DEF PowerLoss, Judged
<1>9. CASE UNCHANGED vars
  BY <1>9 DEF vars, Judged, LifecycleHolds, ReducerState
<1> QED
  BY <1>1, <1>2, <1>3, <1>4, <1>5, <1>6, <1>7, <1>8, <1>9
  DEF Next, RefuseTransition, RefuseDuplicate, Crash

\* Every row stores the event it was submitted as, up to its version.
LEMMA RowsAreSubmitted ==
  ASSUME TypeOK, ChainIntact, NEW i \in DOMAIN rows
  PROVE  /\ Submitted(rows[i]) \in Events
         /\ rows[i].event = StoredAs(Submitted(rows[i]))
         /\ rows[i].event_hash = Hash(Submitted(rows[i]), rows[i].previous_hash)
<1>1. rows[i].previous_hash \in Hashes
  <2>1. rows[i] \in Rows
    BY ElementOfSeq, LenProperties DEF TypeOK
  <2> QED BY <2>1 DEF Rows
<1>2. PICK e \in Submissions : /\ rows[i].event_hash = Hash(e, rows[i].previous_hash)
                               /\ rows[i].event = StoredAs(e)
  BY DEF ChainIntact, Covers
<1>3. e \in Events /\ Submitted(rows[i]) = e
  BY <1>1, <1>2, StoreAssumptions, LastOfHash DEF Submitted
<1> QED BY <1>2, <1>3

\* The hash that verify() recomputes from a row is the one stored exactly when
\* the event had the version it is read back in.
LEMMA HashesOfVersions ==
  ASSUME TypeOK, ChainIntact
  PROVE  HashesHold(rows) <=>
            \A i \in DOMAIN rows : EventsAsSubmitted[i].version = CurrentVersion
<1>1. ASSUME NEW i \in DOMAIN rows
      PROVE  rows[i].event_hash = Hash(rows[i].event, rows[i].previous_hash)
                <=> EventsAsSubmitted[i].version = CurrentVersion
  <2> DEFINE e == Submitted(rows[i])
  <2>1. EventsAsSubmitted[i] = e
    BY DEF EventsAsSubmitted
  <2>2. e \in Events /\ rows[i].event = StoredAs(e) /\ rows[i].event_hash = Hash(e, rows[i].previous_hash)
    BY RowsAreSubmitted
  <2>3. rows[i].previous_hash \in Hashes
    <3>1. rows[i] \in Rows
      BY ElementOfSeq, LenProperties DEF TypeOK
    <3> QED BY <3>1 DEF Rows
  <2> HIDE DEF e
  <2>4. StoredAs(e) \in Events /\ (StoredAs(e) = e <=> e.version = CurrentVersion)
    BY <2>2, StoredType
  <2> QED BY <2>1, <2>2, <2>3, <2>4, LastOfHash
<1> QED BY <1>1 DEF HashesHold

\* The lifecycle of every ledger the store can hold folds without an error and
\* its chain is linked; so verify() fails exactly when a superseded event is
\* missing or the version of an event has changed on the way (verify).
THEOREM VerifyFailsOnlyAsForeseen == Spec => []VerifyFailsForTwoReasons
<1>1. TypeInv /\ ChainInv /\ LifecycleInv => VerifyFailsForTwoReasons
  <2> SUFFICES ASSUME TypeInv, ChainInv, LifecycleInv PROVE VerifyFailsForTwoReasons
    OBVIOUS
  <2>1. HashesHold(rows) <=>
            \A i \in DOMAIN rows : EventsAsSubmitted[i].version = CurrentVersion
    BY HashesOfVersions DEF TypeInv, ChainInv
  <2>2. LifecycleHolds /\ Linked(rows)
    BY DEF LifecycleInv, ChainInv, ChainIntact
  <2> QED BY <2>1, <2>2 DEF VerifyFailsForTwoReasons, VerifyPasses
<1> QED
  BY <1>1, InitTypeInv, NextTypeInv, InitChainInv, NextChainInv,
     InitLifecycleInv, NextLifecycleInv, PTL DEF Spec

-----------------------------------------------------------------------------
(* What a step may never do *)

\* A step adds a row at the end or cuts off a tail.
LEMMA StepAppendsOnly ==
  TypeInv /\ [Next]_vars =>
      [/\ Len(rows') >= durable
       /\ \A i \in DOMAIN rows \cap DOMAIN rows' : rows'[i] = rows[i]]_vars
<1> SUFFICES ASSUME TypeInv, Next
             PROVE  /\ Len(rows') >= durable
                    /\ \A i \in DOMAIN rows \cap DOMAIN rows' : rows'[i] = rows[i]
  BY DEF TypeInv
<1>0. Len(rows) \in Nat /\ durable \in 0 .. Len(rows) /\ DOMAIN rows = 1 .. Len(rows)
  BY LenProperties DEF TypeInv, TypeOK
<1>1. CASE rows' = rows
  BY <1>0, <1>1
<1>2. ASSUME NEW w \in Writers, Commit(w) PROVE rows' \in Seq(Rows) /\ Len(rows') >= durable
                                 /\ \A i \in DOMAIN rows \cap DOMAIN rows' : rows'[i] = rows[i]
  <2> DEFINE row == [event         |-> StoredAs(conn[w].event),
                     previous_hash |-> conn[w].previous,
                     event_hash    |-> Hash(conn[w].event, conn[w].previous)]
  <2>1. conn[w].event \in Events /\ conn[w].previous \in Hashes
    BY <1>2, StoreAssumptions DEF Commit, TypeInv, TypeOK, Exclusive, Conns
  <2>2. row \in Rows
    BY <2>1, AppendProperties, StoredType DEF Rows, Hash, Hashes
  <2>3. rows' = Append(rows, row) BY <1>2 DEF Commit
  <2> HIDE DEF row
  <2> QED BY <1>0, <2>2, <2>3, AppendProperties DEF TypeInv, TypeOK
<1>3. ASSUME NEW n \in durable .. Len(rows), PowerLoss(n)
      PROVE  /\ Len(rows') >= durable
             /\ \A i \in DOMAIN rows \cap DOMAIN rows' : rows'[i] = rows[i]
  <2>1. n \in 0 .. Len(rows) /\ n >= durable BY <1>0
  <2>2. /\ Len(rows') = n /\ DOMAIN rows' = 1 .. n
        /\ \A i \in 1 .. n : rows'[i] = rows[i]
    BY <1>3, <2>1, PrefixProperties, LenProperties DEF PowerLoss, TypeInv, TypeOK
  <2> QED BY <2>1, <2>2
<1> QED
  BY <1>1, <1>2, <1>3
  DEF Next, Begin, Validate, RefuseTransition, Rollback, ReadTip, Insert,
      RefuseDuplicate, Crash, Checkpoint

\* Rows that stay are still there in a table that did not shrink, and so is all
\* they invalidate.
LEMMA StepKeepsInvalidated ==
  TypeInv /\ [Next]_vars =>
      [Len(rows') >= Len(rows) => Invalidated(rows) \subseteq Invalidated(rows')]_vars
<1> SUFFICES ASSUME TypeInv, [Next]_vars, vars' # vars, Len(rows') >= Len(rows),
                    NEW x \in Invalidated(rows)
             PROVE  x \in Invalidated(rows')
  OBVIOUS
<1>1. \A i \in DOMAIN rows \cap DOMAIN rows' : rows'[i] = rows[i]
  BY StepAppendsOnly
<1>2. /\ DOMAIN rows = 1 .. Len(rows) /\ Len(rows) \in Nat
      /\ DOMAIN rows' = 1 .. Len(rows') /\ Len(rows') \in Nat
  <2>1. rows \in Seq(Rows) /\ rows' \in Seq(Rows)
    BY NextTypeInv DEF TypeInv, TypeOK
  <2> QED BY <2>1, LenProperties
<1>3. PICK i \in DOMAIN rows :
         /\ x = rows[i].event.payload.target_event_id
         /\ rows[i].event.schema = "v2"
         /\ rows[i].event.type = "CORRECTION_RECORDED"
         /\ rows[i].event.payload.invalidation
  BY DEF Invalidated
<1>4. i \in DOMAIN rows' /\ rows'[i] = rows[i]
  BY <1>1, <1>2
<1> QED BY <1>3, <1>4 DEF Invalidated

\* What a correction retracted stays retracted, even when the correction is
\* itself corrected, unless a power failure takes the row (apply_corrections_deterministically).
THEOREM InvalidationsArePermanent == Spec => InvalidationIsPermanent
<1> QED BY InitTypeInv, NextTypeInv, StepKeepsInvalidated, PTL DEF Spec, InvalidationIsPermanent

-----------------------------------------------------------------------------
(***************************************************************************)
(* What the lifecycle makes of every ledger the store can hold, and that   *)
(* the store implements the atomic log of module EventLog: theorems that   *)
(* rest on what the projection says of the rows it was folded from.  No    *)
(* fold is unrolled: what a row adds to that meaning is proved once, and   *)
(* it is kept for every prefix of the rows, so that a power failure, which *)
(* leaves a prefix, leaves it true.                                        *)
(***************************************************************************)

-----------------------------------------------------------------------------
(* What a projection says of the rows before it *)

\* Row i is a step of artifact a, of one of these types.
StepIs(r, i, a, types) ==
    r[i].event.schema = "v2" /\ r[i].event.artifact = a /\ r[i].event.type \in types

FreezeOf(r, i) == r[i].event.payload.freeze_id

ClosedTypes == {"ARTIFACT_REJECTED", "REPAIR_COMPLETED", "REGRESSION_DETECTED"}

\* The phase is the type of the last step.
PhaseIsLast(r, n, s) ==
    \A a \in Artifacts :
        IF s.phase[a] = "EMPTY"
        THEN \A i \in 1 .. n : ~StepIs(r, i, a, LifecycleTypes)
        ELSE \E i \in 1 .. n :
                 /\ StepIs(r, i, a, {s.phase[a]})
                 /\ \A j \in 1 .. n : StepIs(r, j, a, LifecycleTypes) => j <= i

\* Nothing follows a step that closes its artifact.
ClosedIsLast(r, n) ==
    \A a \in Artifacts : \A i, j \in 1 .. n :
        StepIs(r, i, a, ClosedTypes) /\ StepIs(r, j, a, LifecycleTypes) => j <= i

\* The freezes are those of the rows, each made once, and an artifact that made
\* one is bound to it.
FreezesAreRows(r, n, s) ==
    /\ \A a \in Artifacts : \A i \in 1 .. n : StepIs(r, i, a, {"OBLIGATION_FROZEN"}) =>
           FreezeOf(r, i) \in s.freezes /\ s.freeze[a] = FreezeOf(r, i)
    /\ \A f \in s.freezes : \E b \in Artifacts : \E i \in 1 .. n :
           StepIs(r, i, b, {"OBLIGATION_FROZEN"}) /\ FreezeOf(r, i) = f
    /\ \A a, b \in Artifacts : \A i, j \in 1 .. n :
           /\ StepIs(r, i, a, {"OBLIGATION_FROZEN"})
           /\ StepIs(r, j, b, {"OBLIGATION_FROZEN"})
           /\ FreezeOf(r, i) = FreezeOf(r, j)
           => i = j

\* A registration comes after its freeze, and is of the artifact's own if it has one.
RegistrationsAreFrozen(r, n) ==
    \A a \in Artifacts : \A i \in 1 .. n : StepIs(r, i, a, {"CANDIDATE_REGISTERED"}) =>
        /\ \E b \in Artifacts : \E j \in 1 .. i - 1 :
              StepIs(r, j, b, {"OBLIGATION_FROZEN"}) /\ FreezeOf(r, j) = FreezeOf(r, i)
        /\ \A j \in 1 .. n :
              StepIs(r, j, a, {"OBLIGATION_FROZEN"}) => FreezeOf(r, j) = FreezeOf(r, i)

\* An artifact is registered once, and compiled after that before anything else:
\* what its phase p tells of its steps.
WorkOf(r, n, a, p) ==
    /\ \A i, j \in 1 .. n :
           /\ StepIs(r, i, a, {"CANDIDATE_REGISTERED"})
           /\ StepIs(r, j, a, {"CANDIDATE_REGISTERED"})
           => i = j
    /\ p \in {"EMPTY", "OBLIGATION_FROZEN"} =>
           \A i \in 1 .. n : ~StepIs(r, i, a, {"CANDIDATE_REGISTERED"})
    /\ p = "CANDIDATE_REGISTERED" =>
           \E j \in 1 .. n : StepIs(r, j, a, {"CANDIDATE_REGISTERED"})
    /\ p \notin {"EMPTY", "OBLIGATION_FROZEN", "CANDIDATE_REGISTERED"} =>
           \E j, k \in 1 .. n :
               /\ j < k
               /\ StepIs(r, j, a, {"CANDIDATE_REGISTERED"})
               /\ StepIs(r, k, a, {"EVIDENCE_COMPILED"})
    /\ p \in {"EMPTY", "OBLIGATION_FROZEN", "CANDIDATE_REGISTERED", "EVIDENCE_COMPILED"} =>
           \A i \in 1 .. n : ~StepIs(r, i, a, {"REVIEW_ASSIGNED"})

WorkIsRegistered(r, n, s) == \A a \in Artifacts : WorkOf(r, n, a, s.phase[a])

\* What AcceptanceIsBacked asks of an acceptance.
Backed(r, i, a) ==
    \E j, k \in 1 .. i - 1 :
        /\ j < k
        /\ StepIs(r, j, a, {"CANDIDATE_REGISTERED"})
        /\ StepIs(r, k, a, {"EVIDENCE_COMPILED"})
        /\ \A m \in 1 .. i - 1 : StepIs(r, m, a, {"REVIEW_ASSIGNED"}) =>
               \E q \in m .. i : StepIs(r, q, a, {"REVIEW_ATTESTED"})

AcceptancesAreBacked(r, n) ==
    \A a \in Artifacts : \A i \in 1 .. n :
        StepIs(r, i, a, {"ARTIFACT_ACCEPTED"}) => Backed(r, i, a)

\* The events of some rows as they were submitted, and a projection that means
\* what they say.
EventsOf(r) == [i \in DOMAIN r |-> Submitted(r[i])]

ProjectsHistory(r, s) == s = History!Projection(EventsOf(r))

Meaning(r, n, s) ==
    /\ ProjectsHistory(r, s)
    /\ PhaseIsLast(r, n, s)
    /\ ClosedIsLast(r, n)
    /\ FreezesAreRows(r, n, s)
    /\ RegistrationsAreFrozen(r, n)
    /\ WorkIsRegistered(r, n, s)
    /\ AcceptancesAreBacked(r, n)

MeaningInv == \A n \in 0 .. Len(rows) : Meaning(SubSeq(rows, 1, n), n, states[n + 1])

-----------------------------------------------------------------------------
(* What an accepted event does *)

\* e is a step of artifact a.
IsStep(e, a) == e.schema = "v2" /\ e.artifact = a /\ e.type \in LifecycleTypes

\* What the transition table and the freeze rules say of a step.
Allowed(s, e) ==
    IsStep(e, e.artifact) =>
        LET p == s.phase[e.artifact]
        IN  /\ p \notin ClosedTypes
            /\ e.type = "OBLIGATION_FROZEN" =>
                   p = "EMPTY" /\ e.payload.freeze_id \notin s.freezes
            /\ e.type = "CANDIDATE_REGISTERED" =>
                   /\ p \in {"EMPTY", "OBLIGATION_FROZEN"}
                   /\ e.payload.freeze_id \in s.freezes
                   /\ p = "EMPTY" \/ s.freeze[e.artifact] \in {None, e.payload.freeze_id}
            /\ e.type = "EVIDENCE_COMPILED" => p = "CANDIDATE_REGISTERED"
            /\ e.type = "REVIEW_ASSIGNED" => p \in {"EVIDENCE_COMPILED", "REVIEW_ASSIGNED"}
            /\ e.type = "ARTIFACT_ACCEPTED" => p \in {"EVIDENCE_COMPILED", "REVIEW_ATTESTED"}
            /\ e.type \notin {"OBLIGATION_FROZEN", "CANDIDATE_REGISTERED", "EVIDENCE_COMPILED"} =>
                   p \notin {"EMPTY", "OBLIGATION_FROZEN", "CANDIDATE_REGISTERED"}

\* Projection t is s after event e, as far as the lifecycle goes.
Follows(s, e, t) ==
    /\ \A a \in Artifacts : t.phase[a] = IF IsStep(e, a) THEN e.type ELSE s.phase[a]
    /\ \A a \in Artifacts :
          t.freeze[a] = IF IsStep(e, a) /\ e.type \in {"OBLIGATION_FROZEN", "CANDIDATE_REGISTERED"}
                        THEN e.payload.freeze_id ELSE s.freeze[a]
    /\ t.freezes = IF e.schema = "v2" /\ e.type = "OBLIGATION_FROZEN"
                   THEN s.freezes \cup {e.payload.freeze_id} ELSE s.freezes

LEMMA TypesAreDisjoint ==
  /\ \A type \in LifecycleTypes : type \notin SideChannelTypes /\ type # "EMPTY"
  /\ \A type \in EventTypesV2 : type \notin LifecycleTypes => type \in SideChannelTypes
  /\ {"OBLIGATION_FROZEN", "CANDIDATE_REGISTERED", "EVIDENCE_COMPILED", "REVIEW_ASSIGNED",
      "REVIEW_ATTESTED", "ARTIFACT_ACCEPTED"} \subseteq LifecycleTypes
  /\ ClosedTypes \subseteq LifecycleTypes
  /\ "CORRECTION_RECORDED" \notin LifecycleTypes
BY DEF LifecycleTypes, SideChannelTypes, EventTypesV2, ClosedTypes

\* The transition table, phase by phase.
LEMMA TransitionFacts ==
  ASSUME NEW p \in Phases, NEW type \in TransitionsOf(p)
  PROVE  /\ p \notin ClosedTypes
         /\ type = "OBLIGATION_FROZEN" => p = "EMPTY"
         /\ type = "CANDIDATE_REGISTERED" => p \in {"EMPTY", "OBLIGATION_FROZEN"}
         /\ type = "EVIDENCE_COMPILED" => p = "CANDIDATE_REGISTERED"
         /\ type = "REVIEW_ASSIGNED" => p \in {"EVIDENCE_COMPILED", "REVIEW_ASSIGNED"}
         /\ type = "ARTIFACT_ACCEPTED" => p \in {"EVIDENCE_COMPILED", "REVIEW_ATTESTED"}
         /\ type \notin {"OBLIGATION_FROZEN", "CANDIDATE_REGISTERED", "EVIDENCE_COMPILED"} =>
                p \notin {"EMPTY", "OBLIGATION_FROZEN", "CANDIDATE_REGISTERED"}
BY DEF TransitionsOf, ClosedTypes

LEMMA AcceptedIsAllowed ==
  ASSUME NEW s \in States, NEW e \in Events, e.schema = "v2" => Accepts(s, e)
  PROVE  Allowed(s, e)
<1> SUFFICES ASSUME IsStep(e, e.artifact) PROVE Allowed(s, e)
  BY DEF Allowed
<1>1. e.schema = "v2" /\ e.type \in LifecycleTypes /\ Accepts(s, e)
  BY DEF IsStep
<1>2. s.phase[e.artifact] \in Phases
  BY <1>1, PayloadType DEF States
<1>3. e.type \in TransitionsOf(s.phase[e.artifact])
  BY <1>1, <1>2, TypesAreDisjoint DEF Accepts, Transitions
<1>4. e.type = "OBLIGATION_FROZEN" => e.payload.freeze_id \notin s.freezes
  BY <1>1 DEF Accepts, FreezeAccepted
<1>5. e.type = "CANDIDATE_REGISTERED" =>
        /\ e.payload.freeze_id \in s.freezes
        /\ s.phase[e.artifact] = "EMPTY" \/ s.freeze[e.artifact] \in {None, e.payload.freeze_id}
  BY <1>1 DEF Accepts, CandidateAccepted
<1>6. LET p == s.phase[e.artifact] IN
         /\ p \notin ClosedTypes
         /\ e.type = "OBLIGATION_FROZEN" => p = "EMPTY"
         /\ e.type = "CANDIDATE_REGISTERED" => p \in {"EMPTY", "OBLIGATION_FROZEN"}
         /\ e.type = "EVIDENCE_COMPILED" => p = "CANDIDATE_REGISTERED"
         /\ e.type = "REVIEW_ASSIGNED" => p \in {"EVIDENCE_COMPILED", "REVIEW_ASSIGNED"}
         /\ e.type = "ARTIFACT_ACCEPTED" => p \in {"EVIDENCE_COMPILED", "REVIEW_ATTESTED"}
         /\ e.type \notin {"OBLIGATION_FROZEN", "CANDIDATE_REGISTERED", "EVIDENCE_COMPILED"} =>
                p \notin {"EMPTY", "OBLIGATION_FROZEN", "CANDIDATE_REGISTERED"}
  BY <1>2, <1>3, TransitionFacts
<1> QED BY <1>4, <1>5, <1>6 DEF Allowed

\* The rule of an event's own type leaves the phases alone.
LEMMA ApplyEffect ==
  ASSUME NEW s \in States, NEW e \in Events, e.schema = "v2"
  PROVE  /\ Apply(s, e).phase = s.phase
         /\ \A a \in Artifacts :
               Apply(s, e).freeze[a] =
                  IF e.artifact = a /\ e.type \in {"OBLIGATION_FROZEN", "CANDIDATE_REGISTERED"}
                  THEN e.payload.freeze_id ELSE s.freeze[a]
         /\ Apply(s, e).freezes = IF e.type = "OBLIGATION_FROZEN"
                                  THEN s.freezes \cup {e.payload.freeze_id} ELSE s.freezes
<1>1. CASE e.type = "OBLIGATION_FROZEN"
  BY <1>1, PayloadType DEF Apply, FreezeObligation, States
<1>2. CASE e.type = "CANDIDATE_REGISTERED"
  BY <1>2, PayloadType DEF Apply, RegisterCandidate, States
<1>3. CASE e.type = "REVIEW_ATTESTED"
  BY <1>3, PayloadType DEF Apply, States
<1>4. CASE e.type = "CORRECTION_RECORDED"
  BY <1>4 DEF Apply, States
<1>5. CASE e.type \notin {"OBLIGATION_FROZEN", "CANDIDATE_REGISTERED",
                         "REVIEW_ATTESTED", "CORRECTION_RECORDED"}
  BY <1>5 DEF Apply
<1> QED BY <1>1, <1>2, <1>3, <1>4, <1>5

LEMMA ReduceFollows ==
  ASSUME NEW s \in States, NEW e \in Events
  PROVE  Follows(s, e, ReduceRow(s, e))
<1>1. CASE e.schema # "v2"
  BY <1>1 DEF ReduceRow, Follows, IsStep
<1>2. CASE e.schema = "v2"
  <2> DEFINE u == Apply(s, e)
             t == Reduce(s, e)
  <2>1. e.artifact \in Artifacts /\ e.type \in EventTypesV2
    BY <1>2, PayloadType
  <2>2. e.type \in SideChannelTypes <=> e.type \notin LifecycleTypes
    BY <2>1, TypesAreDisjoint
  <2>3. /\ t.freezes = u.freezes /\ t.freeze = u.freeze
        /\ t.phase = IF e.type \in SideChannelTypes THEN u.phase
                     ELSE [u.phase EXCEPT ![e.artifact] = e.type]
    <3>1. {"phase", "freezes", "freeze", "known"} \subseteq DOMAIN u
      <4>1. CASE e.type = "OBLIGATION_FROZEN"
        BY <4>1 DEF Apply, FreezeObligation, States
      <4>2. CASE e.type = "CANDIDATE_REGISTERED"
        BY <4>2 DEF Apply, RegisterCandidate, States
      <4>3. CASE e.type = "REVIEW_ATTESTED"
        BY <4>3 DEF Apply, States
      <4>4. CASE e.type = "CORRECTION_RECORDED"
        BY <4>4 DEF Apply, States
      <4>5. CASE e.type \notin {"OBLIGATION_FROZEN", "CANDIDATE_REGISTERED",
                               "REVIEW_ATTESTED", "CORRECTION_RECORDED"}
        BY <4>5 DEF Apply, States
      <4> QED BY <4>1, <4>2, <4>3, <4>4, <4>5
    <3> HIDE DEF u
    <3>2. t = [u EXCEPT !.known = @ \cup {e.id},
                        !.phase = IF e.type \in SideChannelTypes THEN @
                                  ELSE [@ EXCEPT ![e.artifact] = e.type]]
      BY DEF Reduce, u
    <3> HIDE DEF t
    <3> QED BY <3>1, <3>2
  <2>4. /\ u.phase = s.phase /\ DOMAIN s.phase = Artifacts
        /\ \A a \in Artifacts :
               u.freeze[a] =
                  IF e.artifact = a /\ e.type \in {"OBLIGATION_FROZEN", "CANDIDATE_REGISTERED"}
                  THEN e.payload.freeze_id ELSE s.freeze[a]
        /\ u.freezes = IF e.type = "OBLIGATION_FROZEN"
                       THEN s.freezes \cup {e.payload.freeze_id} ELSE s.freezes
    BY <1>2, ApplyEffect DEF States
  <2> HIDE DEF u, t
  <2>5. \A a \in Artifacts : t.phase[a] = IF IsStep(e, a) THEN e.type ELSE s.phase[a]
    BY <1>2, <2>2, <2>3, <2>4 DEF IsStep
  <2>6. \A a \in Artifacts :
          t.freeze[a] = IF IsStep(e, a) /\ e.type \in {"OBLIGATION_FROZEN", "CANDIDATE_REGISTERED"}
                        THEN e.payload.freeze_id ELSE s.freeze[a]
    BY <1>2, <2>3, <2>4, TypesAreDisjoint DEF IsStep
  <2>7. t.freezes = IF e.schema = "v2" /\ e.type = "OBLIGATION_FROZEN"
                    THEN s.freezes \cup {e.payload.freeze_id} ELSE s.freezes
    BY <1>2, <2>3, <2>4
  <2>8. ReduceRow(s, e) = t
    BY <1>2 DEF ReduceRow, t
  <2> QED BY <2>5, <2>6, <2>7, <2>8 DEF Follows
<1> QED BY <1>1, <1>2

-----------------------------------------------------------------------------
(* One row more *)

\* q has the events of r up to n, and then e.
Extends(q, r, n, e) == (\A i \in 1 .. n : q[i].event = r[i].event) /\ q[n + 1].event = e

LEMMA OneMore ==
  ASSUME NEW n \in Nat
  PROVE  /\ n + 1 \in 1 .. n + 1
         /\ \A i \in 1 .. n : i \in 1 .. n + 1 /\ i < n + 1
         /\ \A i \in 1 .. n + 1 : i <= n + 1 /\ (i \in 1 .. n \/ i = n + 1)
OBVIOUS

\* The steps of q are those of r, and e if it is one.
LEMMA OldSteps ==
  ASSUME NEW q, NEW r, NEW n \in Nat, NEW e, Extends(q, r, n, e), NEW types, NEW a
  PROVE  /\ \A i \in 1 .. n : StepIs(q, i, a, types) <=> StepIs(r, i, a, types)
         /\ \A i \in 1 .. n : FreezeOf(q, i) = FreezeOf(r, i)
BY DEF Extends, StepIs, FreezeOf

LEMMA NewStep ==
  ASSUME NEW q, NEW r, NEW n \in Nat, NEW e, Extends(q, r, n, e), NEW types, NEW a
  PROVE  /\ types \subseteq LifecycleTypes =>
               (StepIs(q, n + 1, a, types) <=> IsStep(e, a) /\ e.type \in types)
         /\ FreezeOf(q, n + 1) = e.payload.freeze_id
BY DEF Extends, StepIs, FreezeOf, IsStep

LEMMA PhaseStaysLast ==
  ASSUME NEW q, NEW r, NEW n \in Nat, NEW e, NEW s, NEW t, Extends(q, r, n, e),
         Follows(s, e, t), PhaseIsLast(r, n, s)
  PROVE  PhaseIsLast(q, n + 1, t)
<1> SUFFICES ASSUME NEW a \in Artifacts
             PROVE  IF t.phase[a] = "EMPTY"
                    THEN \A i \in 1 .. n + 1 : ~StepIs(q, i, a, LifecycleTypes)
                    ELSE \E i \in 1 .. n + 1 :
                             /\ StepIs(q, i, a, {t.phase[a]})
                             /\ \A j \in 1 .. n + 1 : StepIs(q, j, a, LifecycleTypes) => j <= i
  BY DEF PhaseIsLast
<1>1. CASE IsStep(e, a)
  <2>1. t.phase[a] = e.type /\ e.type # "EMPTY"
    BY <1>1, TypesAreDisjoint DEF Follows, IsStep
  <2>2. StepIs(q, n + 1, a, {e.type})
    BY <1>1 DEF IsStep, StepIs, Extends
  <2> QED BY <2>1, <2>2, OneMore
<1>2. CASE ~IsStep(e, a)
  <2>1. t.phase[a] = s.phase[a]
    BY <1>2 DEF Follows
  <2>2. ~StepIs(q, n + 1, a, LifecycleTypes)
    BY <1>2 DEF IsStep, StepIs, Extends
  <2>3. CASE t.phase[a] = "EMPTY"
    <3>1. \A i \in 1 .. n : ~StepIs(r, i, a, LifecycleTypes)
      BY <2>1, <2>3 DEF PhaseIsLast
    <3>2. \A i \in 1 .. n : ~StepIs(q, i, a, LifecycleTypes)
      BY <3>1, OldSteps
    <3> QED BY <2>2, <2>3, <3>2, OneMore
  <2>4. CASE t.phase[a] # "EMPTY"
    <3>1. PICK i \in 1 .. n : /\ StepIs(r, i, a, {t.phase[a]})
                             /\ \A j \in 1 .. n : StepIs(r, j, a, LifecycleTypes) => j <= i
      BY <2>1, <2>4 DEF PhaseIsLast
    <3>2. i \in 1 .. n + 1 /\ StepIs(q, i, a, {t.phase[a]})
      BY <3>1, OldSteps, OneMore
    <3>3. \A j \in 1 .. n : StepIs(q, j, a, LifecycleTypes) => j <= i
      BY <3>1, OldSteps
    <3>4. \A j \in 1 .. n + 1 : StepIs(q, j, a, LifecycleTypes) => j <= i
      BY <2>2, <3>3, OneMore
    <3> QED BY <2>4, <3>2, <3>4
  <2> QED BY <2>3, <2>4
<1> QED BY <1>1, <1>2

\* An artifact with a step is not EMPTY: its phase is that of its last step.
LEMMA LastStep ==
  ASSUME NEW r, NEW n \in Nat, NEW s \in States, PhaseIsLast(r, n, s), NEW a \in Artifacts,
         NEW i \in 1 .. n, StepIs(r, i, a, LifecycleTypes)
  PROVE  /\ s.phase[a] # "EMPTY"
         /\ \E k \in i .. n : /\ StepIs(r, k, a, {s.phase[a]})
                             /\ StepIs(r, k, a, LifecycleTypes)
                             /\ \A j \in 1 .. n : StepIs(r, j, a, LifecycleTypes) => j <= k
<1>1. s.phase[a] # "EMPTY"
  BY DEF PhaseIsLast
<1>2. PICK k \in 1 .. n : /\ StepIs(r, k, a, {s.phase[a]})
                         /\ \A j \in 1 .. n : StepIs(r, j, a, LifecycleTypes) => j <= k
  BY <1>1 DEF PhaseIsLast
<1>3. s.phase[a] \in LifecycleTypes
  BY <1>1 DEF States, Phases
<1>4. StepIs(r, k, a, LifecycleTypes)
  BY <1>2, <1>3 DEF StepIs
<1>5. k \in i .. n
  BY <1>2
<1> QED BY <1>1, <1>2, <1>4, <1>5

LEMMA ClosedStaysLast ==
  ASSUME NEW q, NEW r, NEW n \in Nat, NEW e, NEW s \in States, Extends(q, r, n, e),
         Allowed(s, e), PhaseIsLast(r, n, s), ClosedIsLast(r, n)
  PROVE  ClosedIsLast(q, n + 1)
<1> SUFFICES ASSUME NEW a \in Artifacts, NEW i \in 1 .. n + 1, NEW j \in 1 .. n + 1,
                    StepIs(q, i, a, ClosedTypes), StepIs(q, j, a, LifecycleTypes)
             PROVE  j <= i
  BY DEF ClosedIsLast
<1>1. CASE i = n + 1
  BY <1>1
<1>2. CASE i \in 1 .. n /\ j \in 1 .. n
  <2>1. StepIs(r, i, a, ClosedTypes) /\ StepIs(r, j, a, LifecycleTypes)
    BY <1>2, OldSteps
  <2> QED BY <1>2, <2>1 DEF ClosedIsLast
<1>3. CASE i \in 1 .. n /\ j = n + 1
  <2>1. IsStep(e, a) /\ e.artifact = a
    BY <1>3 DEF IsStep, StepIs, Extends
  <2>2. StepIs(r, i, a, ClosedTypes)
    BY <1>3, OldSteps
  <2>3. StepIs(r, i, a, LifecycleTypes)
    BY <2>2, TypesAreDisjoint DEF StepIs
  <2>4. PICK k \in i .. n : StepIs(r, k, a, {s.phase[a]}) /\ StepIs(r, k, a, LifecycleTypes)
    BY <1>3, <2>3, LastStep
  <2>5. s.phase[a] \notin ClosedTypes
    BY <2>1 DEF Allowed
  <2>6. i # k
    BY <2>2, <2>4, <2>5 DEF StepIs
  <2>7. k \in 1 .. n /\ ~(k <= i)
    BY <1>3, <2>4, <2>6
  <2> QED BY <1>3, <2>2, <2>4, <2>7 DEF ClosedIsLast
<1> QED BY <1>1, <1>2, <1>3, OneMore

\* An artifact that froze its obligations is bound to that freeze, and is not
\* EMPTY: it neither freezes again nor takes another freeze.
LEMMA BoundToFreeze ==
  ASSUME NEW r, NEW n \in Nat, NEW e, NEW s \in States, Allowed(s, e), PhaseIsLast(r, n, s),
         FreezesAreRows(r, n, s), NEW a \in Artifacts, IsStep(e, a), NEW i \in 1 .. n,
         StepIs(r, i, a, {"OBLIGATION_FROZEN"})
  PROVE  /\ e.type # "OBLIGATION_FROZEN"
         /\ e.type = "CANDIDATE_REGISTERED" => e.payload.freeze_id = FreezeOf(r, i)
<1>1. StepIs(r, i, a, LifecycleTypes)
  BY TypesAreDisjoint DEF StepIs
<1>2. s.phase[a] # "EMPTY"
  BY <1>1, LastStep
<1>3. FreezeOf(r, i) \in s.freezes /\ s.freeze[a] = FreezeOf(r, i)
  BY DEF FreezesAreRows
<1>4. FreezeOf(r, i) # None
  BY <1>3, NoneIsFresh DEF States
<1>5. e.artifact = a
  BY DEF IsStep
<1> QED BY <1>2, <1>3, <1>4, <1>5 DEF Allowed

LEMMA FreezesStayRows ==
  ASSUME NEW q, NEW r, NEW n \in Nat, NEW e, NEW s \in States, NEW t, Extends(q, r, n, e),
         Follows(s, e, t), Allowed(s, e), e.artifact \in Artifacts, PhaseIsLast(r, n, s),
         FreezesAreRows(r, n, s)
  PROVE  FreezesAreRows(q, n + 1, t)
<1> DEFINE T == {"OBLIGATION_FROZEN"}
<1>0. T \subseteq LifecycleTypes
  BY TypesAreDisjoint
<1>1. \A a : StepIs(q, n + 1, a, T) <=> IsStep(e, a) /\ e.type = "OBLIGATION_FROZEN"
  BY <1>0, NewStep
<1>2. FreezeOf(q, n + 1) = e.payload.freeze_id
  BY NewStep
<1>3. s.freezes \subseteq t.freezes
  BY DEF Follows
<1>4. \A a : StepIs(q, n + 1, a, T) =>
         /\ a = e.artifact /\ a \in Artifacts /\ e.payload.freeze_id \notin s.freezes
         /\ e.payload.freeze_id \in t.freezes /\ t.freeze[a] = e.payload.freeze_id
  BY <1>1 DEF Follows, Allowed, IsStep
<1>5. ASSUME NEW a \in Artifacts, NEW i \in 1 .. n + 1, StepIs(q, i, a, T)
      PROVE  FreezeOf(q, i) \in t.freezes /\ t.freeze[a] = FreezeOf(q, i)
  <2>1. CASE i \in 1 .. n
    <3>1. StepIs(r, i, a, T) /\ FreezeOf(q, i) = FreezeOf(r, i)
      BY <1>5, <2>1, OldSteps
    <3>2. FreezeOf(r, i) \in s.freezes /\ s.freeze[a] = FreezeOf(r, i)
      BY <2>1, <3>1 DEF FreezesAreRows
    <3>3. CASE IsStep(e, a)
      <4>1. /\ e.type # "OBLIGATION_FROZEN"
            /\ e.type = "CANDIDATE_REGISTERED" => e.payload.freeze_id = FreezeOf(r, i)
        BY <2>1, <3>1, <3>3, BoundToFreeze
      <4> QED BY <1>3, <3>1, <3>2, <3>3, <4>1 DEF Follows
    <3>4. CASE ~IsStep(e, a)
      BY <1>3, <3>1, <3>2, <3>4 DEF Follows
    <3> QED BY <3>3, <3>4
  <2>2. CASE i = n + 1
    BY <1>2, <1>4, <1>5, <2>2
  <2> QED BY <2>1, <2>2, OneMore
<1>6. ASSUME NEW f \in t.freezes
      PROVE  \E b \in Artifacts : \E i \in 1 .. n + 1 : StepIs(q, i, b, T) /\ FreezeOf(q, i) = f
  <2>1. CASE f \in s.freezes
    <3>1. PICK b \in Artifacts, i \in 1 .. n : StepIs(r, i, b, T) /\ FreezeOf(r, i) = f
      BY <2>1 DEF FreezesAreRows
    <3>2. StepIs(q, i, b, T) /\ FreezeOf(q, i) = f
      BY <3>1, OldSteps
    <3> QED BY <3>2, OneMore
  <2>2. CASE f \notin s.freezes
    <3>1. f = e.payload.freeze_id /\ e.schema = "v2" /\ e.type = "OBLIGATION_FROZEN"
      BY <2>2 DEF Follows
    <3>2. StepIs(q, n + 1, e.artifact, T)
      BY <3>1 DEF Extends, StepIs
    <3> QED BY <1>2, <3>1, <3>2, OneMore
  <2> QED BY <2>1, <2>2
<1>7. \A a \in Artifacts : \A i \in 1 .. n : StepIs(q, i, a, T) => FreezeOf(q, i) \in s.freezes
  <2> SUFFICES ASSUME NEW a \in Artifacts, NEW i \in 1 .. n, StepIs(q, i, a, T)
               PROVE  FreezeOf(q, i) \in s.freezes
    OBVIOUS
  <2>1. StepIs(r, i, a, T) /\ FreezeOf(q, i) = FreezeOf(r, i)
    BY OldSteps
  <2> QED BY <2>1 DEF FreezesAreRows
<1>8. ASSUME NEW a \in Artifacts, NEW b \in Artifacts, NEW i \in 1 .. n + 1, NEW j \in 1 .. n + 1,
             StepIs(q, i, a, T), StepIs(q, j, b, T), FreezeOf(q, i) = FreezeOf(q, j)
      PROVE  i = j
  <2>1. CASE i \in 1 .. n /\ j \in 1 .. n
    <3>1. /\ StepIs(r, i, a, T) /\ StepIs(r, j, b, T)
          /\ FreezeOf(r, i) = FreezeOf(r, j)
      <4>1. StepIs(r, i, a, T) /\ FreezeOf(q, i) = FreezeOf(r, i)
        BY <1>8, <2>1, OldSteps
      <4>2. StepIs(r, j, b, T) /\ FreezeOf(q, j) = FreezeOf(r, j)
        BY <1>8, <2>1, OldSteps
      <4> QED BY <1>8, <4>1, <4>2
    <3> QED BY <2>1, <3>1 DEF FreezesAreRows
  <2>2. CASE i = n + 1 /\ j \in 1 .. n
    <3>1. FreezeOf(q, j) \in s.freezes /\ FreezeOf(q, i) \notin s.freezes
      BY <1>2, <1>4, <1>7, <1>8, <2>2
    <3> QED BY <1>8, <3>1
  <2>3. CASE i \in 1 .. n /\ j = n + 1
    <3>1. FreezeOf(q, i) \in s.freezes /\ FreezeOf(q, j) \notin s.freezes
      BY <1>2, <1>4, <1>7, <1>8, <2>3
    <3> QED BY <1>8, <3>1
  <2>4. (i \in 1 .. n \/ i = n + 1) /\ (j \in 1 .. n \/ j = n + 1)
    BY OneMore
  <2> QED BY <2>1, <2>2, <2>3, <2>4
<1> QED BY <1>5, <1>6, <1>8 DEF FreezesAreRows

LEMMA RegistrationsStayFrozen ==
  ASSUME NEW q, NEW r, NEW n \in Nat, NEW e, NEW s \in States, Extends(q, r, n, e),
         Allowed(s, e), PhaseIsLast(r, n, s), FreezesAreRows(r, n, s),
         RegistrationsAreFrozen(r, n)
  PROVE  RegistrationsAreFrozen(q, n + 1)
<1> DEFINE T == {"OBLIGATION_FROZEN"}
           C == {"CANDIDATE_REGISTERED"}
<1>0. T \subseteq LifecycleTypes /\ C \subseteq LifecycleTypes
  BY TypesAreDisjoint
<1> SUFFICES ASSUME NEW a \in Artifacts, NEW i \in 1 .. n + 1, StepIs(q, i, a, C)
             PROVE  /\ \E b \in Artifacts : \E j \in 1 .. i - 1 :
                          StepIs(q, j, b, T) /\ FreezeOf(q, j) = FreezeOf(q, i)
                    /\ \A j \in 1 .. n + 1 :
                          StepIs(q, j, a, T) => FreezeOf(q, j) = FreezeOf(q, i)
  BY DEF RegistrationsAreFrozen
<1>1. CASE i \in 1 .. n
  <2>1. StepIs(r, i, a, C) /\ FreezeOf(q, i) = FreezeOf(r, i)
    BY <1>1, OldSteps
  <2>2. PICK b \in Artifacts, j \in 1 .. i - 1 :
           StepIs(r, j, b, T) /\ FreezeOf(r, j) = FreezeOf(r, i)
    BY <1>1, <2>1 DEF RegistrationsAreFrozen
  <2>3. j \in 1 .. n
    BY <1>1
  <2>4. StepIs(q, j, b, T) /\ FreezeOf(q, j) = FreezeOf(r, j)
    BY <2>2, <2>3, OldSteps
  <2>5. ASSUME NEW k \in 1 .. n + 1, StepIs(q, k, a, T) PROVE FreezeOf(q, k) = FreezeOf(q, i)
    <3>1. CASE k \in 1 .. n
      <4>1. StepIs(r, k, a, T) /\ FreezeOf(q, k) = FreezeOf(r, k)
        BY <2>5, <3>1, OldSteps
      <4> QED BY <1>1, <2>1, <3>1, <4>1 DEF RegistrationsAreFrozen
    <3>2. CASE k = n + 1
      <4>1. IsStep(e, a) /\ e.type = "OBLIGATION_FROZEN" /\ e.artifact = a
        BY <1>0, <2>5, <3>2, NewStep DEF IsStep
      <4>2. s.phase[a] = "EMPTY"
        BY <4>1 DEF Allowed
      <4>3. StepIs(r, i, a, LifecycleTypes)
        BY <1>0, <2>1 DEF StepIs
      <4> QED BY <1>1, <4>2, <4>3, LastStep
    <3> QED BY <3>1, <3>2, OneMore
  <2> QED BY <2>1, <2>2, <2>4, <2>5
<1>2. CASE i = n + 1
  <2>1. IsStep(e, a) /\ e.type = "CANDIDATE_REGISTERED" /\ e.artifact = a
    BY <1>0, <1>2, NewStep DEF IsStep
  <2>2. FreezeOf(q, i) = e.payload.freeze_id /\ e.payload.freeze_id \in s.freezes
    BY <1>2, <2>1, NewStep DEF Allowed
  <2>3. PICK b \in Artifacts, j \in 1 .. n :
           StepIs(r, j, b, T) /\ FreezeOf(r, j) = FreezeOf(q, i)
    BY <2>2 DEF FreezesAreRows
  <2>4. StepIs(q, j, b, T) /\ FreezeOf(q, j) = FreezeOf(r, j) /\ j \in 1 .. i - 1
    BY <1>2, <2>3, OldSteps
  <2>5. ASSUME NEW k \in 1 .. n + 1, StepIs(q, k, a, T) PROVE FreezeOf(q, k) = FreezeOf(q, i)
    <3>1. CASE k \in 1 .. n
      <4>1. StepIs(r, k, a, T) /\ FreezeOf(q, k) = FreezeOf(r, k)
        BY <2>5, <3>1, OldSteps
      <4> QED BY <2>1, <2>2, <3>1, <4>1, BoundToFreeze
    <3>2. CASE k = n + 1
      BY <1>2, <2>5, <3>2 DEF StepIs
    <3> QED BY <3>1, <3>2, OneMore
  <2> QED BY <2>3, <2>4, <2>5
<1> QED BY <1>1, <1>2, OneMore

\* Where e is no step of a of these types, a has the steps it had.
LEMMA SameSteps ==
  ASSUME NEW q, NEW r, NEW n \in Nat, NEW e, Extends(q, r, n, e), NEW types, NEW a,
         types \subseteq LifecycleTypes, ~(IsStep(e, a) /\ e.type \in types)
  PROVE  /\ \A i \in 1 .. n : StepIs(q, i, a, types) <=> StepIs(r, i, a, types)
         /\ \A i \in 1 .. n + 1 : StepIs(q, i, a, types) => i \in 1 .. n /\ StepIs(r, i, a, types)
<1>1. ~StepIs(q, n + 1, a, types)
  BY NewStep
<1>2. \A i \in 1 .. n : StepIs(q, i, a, types) <=> StepIs(r, i, a, types)
  BY OldSteps
<1> QED BY <1>1, <1>2, OneMore

LEMMA WorkStaysRegistered ==
  ASSUME NEW q, NEW r, NEW n \in Nat, NEW e, NEW s, NEW t, Extends(q, r, n, e),
         Follows(s, e, t), Allowed(s, e), WorkIsRegistered(r, n, s)
  PROVE  WorkIsRegistered(q, n + 1, t)
<1> DEFINE C == {"CANDIDATE_REGISTERED"}
           E == {"EVIDENCE_COMPILED"}
           R == {"REVIEW_ASSIGNED"}
<1>0. C \subseteq LifecycleTypes /\ E \subseteq LifecycleTypes /\ R \subseteq LifecycleTypes
  BY TypesAreDisjoint
<1> SUFFICES ASSUME NEW a \in Artifacts PROVE WorkOf(q, n + 1, a, t.phase[a])
  BY DEF WorkIsRegistered
<1>1. WorkOf(r, n, a, s.phase[a])
  BY DEF WorkIsRegistered
<1>2. t.phase[a] = IF IsStep(e, a) THEN e.type ELSE s.phase[a]
  BY DEF Follows
<1>3. IsStep(e, a) => e.artifact = a
  BY DEF IsStep
<1>4. /\ \A i \in 1 .. n : StepIs(r, i, a, C) => StepIs(q, i, a, C)
      /\ \A i \in 1 .. n : StepIs(r, i, a, E) => StepIs(q, i, a, E)
  BY OldSteps
<1>5. ~(IsStep(e, a) /\ e.type \in C) =>
         \A i \in 1 .. n + 1 : StepIs(q, i, a, C) => i \in 1 .. n /\ StepIs(r, i, a, C)
  BY <1>0, SameSteps
<1>6. ~(IsStep(e, a) /\ e.type \in R) =>
         \A i \in 1 .. n + 1 : StepIs(q, i, a, R) => i \in 1 .. n /\ StepIs(r, i, a, R)
  BY <1>0, SameSteps
<1>7. /\ IsStep(e, a) /\ e.type \in C => StepIs(q, n + 1, a, C)
      /\ IsStep(e, a) /\ e.type \in E => StepIs(q, n + 1, a, E)
  BY <1>0, NewStep
<1>8. \A i \in 1 .. n : StepIs(q, i, a, C) => StepIs(r, i, a, C)
  BY OldSteps
<1> HIDE DEF C, E, R
<1>9. CASE ~IsStep(e, a)
  BY <1>1, <1>2, <1>4, <1>5, <1>6, <1>9, OneMore DEF WorkOf, C, E, R
<1>10. CASE IsStep(e, a) /\ e.type = "OBLIGATION_FROZEN"
  <2>1. s.phase[a] = "EMPTY"
    BY <1>3, <1>10 DEF Allowed
  <2> QED BY <1>1, <1>2, <1>5, <1>6, <1>10, <2>1, OneMore DEF WorkOf, C, E, R
<1>11. CASE IsStep(e, a) /\ e.type = "CANDIDATE_REGISTERED"
  <2>1. s.phase[a] \in {"EMPTY", "OBLIGATION_FROZEN"}
    BY <1>3, <1>11 DEF Allowed
  <2>2. \A i \in 1 .. n : ~StepIs(q, i, a, C)
    BY <1>1, <1>8, <2>1 DEF WorkOf, C
  <2>3. StepIs(q, n + 1, a, C)
    BY <1>7, <1>11 DEF C
  <2> QED BY <1>1, <1>2, <1>6, <1>11, <2>1, <2>2, <2>3, OneMore DEF WorkOf, C, R
<1>12. CASE IsStep(e, a) /\ e.type = "EVIDENCE_COMPILED"
  <2>1. s.phase[a] = "CANDIDATE_REGISTERED"
    BY <1>3, <1>12 DEF Allowed
  <2>2. PICK j \in 1 .. n : StepIs(r, j, a, C)
    BY <1>1, <2>1 DEF WorkOf, C
  <2>3. j < n + 1 /\ StepIs(q, j, a, C) /\ StepIs(q, n + 1, a, E)
    BY <1>4, <1>7, <1>12, <2>2, OneMore DEF E
  <2> QED BY <1>1, <1>2, <1>5, <1>6, <1>12, <2>1, <2>3, OneMore DEF WorkOf, C, E, R
<1>13. CASE IsStep(e, a) /\ e.type \notin {"OBLIGATION_FROZEN", "CANDIDATE_REGISTERED",
                                          "EVIDENCE_COMPILED"}
  <2>0. e.type # "EMPTY"
    BY <1>13, TypesAreDisjoint DEF IsStep
  <2>1. s.phase[a] \notin {"EMPTY", "OBLIGATION_FROZEN", "CANDIDATE_REGISTERED"}
    BY <1>3, <1>13 DEF Allowed
  <2>2. PICK j \in 1 .. n, k \in 1 .. n : j < k /\ StepIs(r, j, a, C) /\ StepIs(r, k, a, E)
    BY <1>1, <2>1 DEF WorkOf, C, E
  <2>3. StepIs(q, j, a, C) /\ StepIs(q, k, a, E)
    BY <1>4, <2>2
  <2> QED BY <1>1, <1>2, <1>5, <1>13, <2>0, <2>2, <2>3, OneMore DEF WorkOf, C, E
<1> QED BY <1>9, <1>10, <1>11, <1>12, <1>13

\* What backs an acceptance lies before it, and stays.
LEMMA BackedStays ==
  ASSUME NEW q, NEW r, NEW n \in Nat, NEW e, Extends(q, r, n, e), NEW a,
         NEW i \in 1 .. n, Backed(r, i, a)
  PROVE  Backed(q, i, a)
<1>1. PICK j \in 1 .. i - 1, k \in 1 .. i - 1 :
         /\ j < k
         /\ StepIs(r, j, a, {"CANDIDATE_REGISTERED"})
         /\ StepIs(r, k, a, {"EVIDENCE_COMPILED"})
         /\ \A m \in 1 .. i - 1 : StepIs(r, m, a, {"REVIEW_ASSIGNED"}) =>
                \E p \in m .. i : StepIs(r, p, a, {"REVIEW_ATTESTED"})
  BY DEF Backed
<1>2. \A m \in 1 .. i - 1 : m \in 1 .. n /\ m .. i \subseteq 1 .. n
  OBVIOUS
<1>3. StepIs(q, j, a, {"CANDIDATE_REGISTERED"}) /\ StepIs(q, k, a, {"EVIDENCE_COMPILED"})
  BY <1>1, <1>2, OldSteps
<1>4. ASSUME NEW m \in 1 .. i - 1, StepIs(q, m, a, {"REVIEW_ASSIGNED"})
      PROVE  \E p \in m .. i : StepIs(q, p, a, {"REVIEW_ATTESTED"})
  <2>1. StepIs(r, m, a, {"REVIEW_ASSIGNED"})
    BY <1>2, <1>4, OldSteps
  <2>2. PICK p \in m .. i : StepIs(r, p, a, {"REVIEW_ATTESTED"})
    BY <1>1, <2>1
  <2>3. p \in 1 .. n
    BY <1>2
  <2> QED BY <2>2, <2>3, OldSteps
<1> QED BY <1>1, <1>3, <1>4 DEF Backed

LEMMA AcceptancesStayBacked ==
  ASSUME NEW q, NEW r, NEW n \in Nat, NEW e, NEW s \in States, Extends(q, r, n, e),
         Allowed(s, e), PhaseIsLast(r, n, s), WorkIsRegistered(r, n, s),
         AcceptancesAreBacked(r, n)
  PROVE  AcceptancesAreBacked(q, n + 1)
<1> SUFFICES ASSUME NEW a \in Artifacts, NEW i \in 1 .. n + 1,
                    StepIs(q, i, a, {"ARTIFACT_ACCEPTED"})
             PROVE  Backed(q, i, a)
  BY DEF AcceptancesAreBacked
<1>1. CASE i \in 1 .. n
  <2>1. StepIs(r, i, a, {"ARTIFACT_ACCEPTED"})
    BY <1>1, OldSteps
  <2> QED BY <1>1, <2>1, BackedStays DEF AcceptancesAreBacked
<1>2. CASE i = n + 1
  <2>1. IsStep(e, a) /\ e.type = "ARTIFACT_ACCEPTED" /\ e.artifact = a
    BY <1>2, TypesAreDisjoint, NewStep DEF IsStep
  <2>2. s.phase[a] \in {"EVIDENCE_COMPILED", "REVIEW_ATTESTED"}
    BY <2>1 DEF Allowed
  <2>3. WorkOf(r, n, a, s.phase[a])
    BY DEF WorkIsRegistered
  <2>4. PICK j \in 1 .. n, k \in 1 .. n :
           /\ j < k
           /\ StepIs(r, j, a, {"CANDIDATE_REGISTERED"})
           /\ StepIs(r, k, a, {"EVIDENCE_COMPILED"})
    BY <2>2, <2>3 DEF WorkOf
  <2>5. StepIs(q, j, a, {"CANDIDATE_REGISTERED"}) /\ StepIs(q, k, a, {"EVIDENCE_COMPILED"})
    BY <2>4, OldSteps
  <2>6. ASSUME NEW m \in 1 .. n, StepIs(q, m, a, {"REVIEW_ASSIGNED"})
        PROVE  \E p \in m .. i : StepIs(q, p, a, {"REVIEW_ATTESTED"})
    <3>1. StepIs(r, m, a, {"REVIEW_ASSIGNED"})
      BY <2>6, OldSteps
    <3>2. s.phase[a] = "REVIEW_ATTESTED"
      BY <2>2, <2>3, <3>1 DEF WorkOf
    <3>3. StepIs(r, m, a, LifecycleTypes)
      BY <3>1, TypesAreDisjoint DEF StepIs
    <3>4. PICK p \in m .. n : StepIs(r, p, a, {s.phase[a]})
      BY <3>3, LastStep
    <3>5. p \in 1 .. n /\ p \in m .. i
      BY <1>2
    <3>6. StepIs(q, p, a, {"REVIEW_ATTESTED"})
      BY <3>2, <3>4, <3>5, OldSteps
    <3> QED BY <3>5, <3>6
  <2>7. i - 1 = n
    BY <1>2
  <2> QED BY <2>4, <2>5, <2>6, <2>7 DEF Backed
<1> QED BY <1>1, <1>2, OneMore

-----------------------------------------------------------------------------
(* The projection and the history *)

\* One more member above all others is the maximum.
LEMMA MaxOfMore ==
  ASSUME NEW n \in Nat, NEW T \in SUBSET (1 .. n)
  PROVE  /\ Max(T \cup {n + 1}) = n + 1
         /\ T # {} => Max(T) \in T /\ \A j \in T : j <= Max(T)
<1>1. IsFiniteSet(1 .. n)
  BY FS_Interval
<1>2. IsFiniteSet(T)
  BY <1>1, FS_Subset
<1>0. T \in SUBSET Int
  OBVIOUS
<1>3. IsFiniteSet(T \cup {n + 1}) /\ T \cup {n + 1} \in SUBSET Int
  BY <1>0, <1>2, FS_AddElement
<1>4. /\ Max(T \cup {n + 1}) \in T \cup {n + 1}
      /\ \A j \in T \cup {n + 1} : j <= Max(T \cup {n + 1})
  BY <1>3, MaxIsGreatest
<1>5. T # {} => Max(T) \in T /\ \A j \in T : j <= Max(T)
  BY <1>0, <1>2, MaxIsGreatest
<1>6. Max(T \cup {n + 1}) = n + 1
  <2> DEFINE x == Max(T \cup {n + 1})
  <2> HIDE DEF x
  <2>1. x \in T \cup {n + 1} /\ n + 1 <= x
    BY <1>4 DEF x
  <2>2. x = n + 1
    BY <2>1
  <2> QED BY <2>2 DEF x
<1> QED BY <1>5, <1>6

\* m is history l with e at its end.
Longer(m, l, n, e) ==
    /\ n \in Nat
    /\ DOMAIN l = 1 .. n /\ DOMAIN m = 1 .. n + 1
    /\ \A i \in 1 .. n : m[i] = l[i]
    /\ m[n + 1] = e

LEMMA LongerByOne ==
  ASSUME NEW l \in Seq(Events), NEW e \in Events
  PROVE  Longer(Append(l, e), l, Len(l), e)
BY AppendProperties, LenProperties DEF Longer

\* Nothing but e is added to a set of positions.
Grown(S, n, yes) == IF yes THEN S \cup {n + 1} ELSE S

LEMMA PositionsGrow ==
  ASSUME NEW m, NEW l, NEW n, NEW e, Longer(m, l, n, e)
  PROVE  /\ History!Typed(m) = Grown(History!Typed(l), n, e.schema = "v2")
         /\ \A type : History!OfType(m, type) =
               Grown(History!OfType(l, type), n, e.schema = "v2" /\ e.type = type)
         /\ \A a : History!Steps(m, a) = Grown(History!Steps(l, a), n, IsStep(e, a))
         /\ \A a, types : History!StepsOfType(m, a, types) =
               Grown(History!StepsOfType(l, a, types), n, IsStep(e, a) /\ e.type \in types)
         /\ \A type : History!OfType(l, type) \subseteq 1 .. n
         /\ \A a : History!Steps(l, a) \subseteq 1 .. n
         /\ \A a, types : History!StepsOfType(l, a, types) \subseteq 1 .. n
<1>1. n + 1 \notin 1 .. n /\ 1 .. n + 1 = (1 .. n) \cup {n + 1}
  BY DEF Longer
<1>2. History!Typed(m) = Grown(History!Typed(l), n, e.schema = "v2")
  BY <1>1 DEF Longer, Grown, History!Typed
<1>3. \A type : History!OfType(m, type) =
        Grown(History!OfType(l, type), n, e.schema = "v2" /\ e.type = type)
  BY <1>1 DEF Longer, Grown, History!Typed, History!OfType
<1>4. \A a : History!Steps(m, a) = Grown(History!Steps(l, a), n, IsStep(e, a))
  <2> SUFFICES ASSUME NEW a PROVE History!Steps(m, a) = Grown(History!Steps(l, a), n, IsStep(e, a))
    OBVIOUS
  <2> QED BY <1>1 DEF Longer, Grown, History!Typed, History!Steps, IsStep,
                      LifecycleTypes, History!LifecycleTypes
<1>5. \A a, types : History!StepsOfType(m, a, types) =
        Grown(History!StepsOfType(l, a, types), n, IsStep(e, a) /\ e.type \in types)
  <2> SUFFICES ASSUME NEW a, NEW types
               PROVE  History!StepsOfType(m, a, types) =
                        Grown(History!StepsOfType(l, a, types), n, IsStep(e, a) /\ e.type \in types)
    OBVIOUS
  <2>1. History!Steps(m, a) = Grown(History!Steps(l, a), n, IsStep(e, a))
    BY <1>4
  <2>2. History!Steps(l, a) \subseteq 1 .. n
    BY DEF Longer, History!Typed, History!Steps
  <2> QED BY <1>1, <2>1, <2>2 DEF Longer, Grown, History!StepsOfType
<1>6. /\ \A type : History!OfType(l, type) \subseteq 1 .. n
      /\ \A a : History!Steps(l, a) \subseteq 1 .. n
      /\ \A a, types : History!StepsOfType(l, a, types) \subseteq 1 .. n
  BY DEF Longer, History!Typed, History!Steps, History!OfType, History!StepsOfType
<1> QED BY <1>2, <1>3, <1>4, <1>5, <1>6

\* The rest of what an event does to a projection.
FollowsToo(s, e, t) ==
    /\ \A a \in Artifacts :
          t.candidate[a] = IF IsStep(e, a) /\ e.type = "CANDIDATE_REGISTERED"
                           THEN e.payload.candidate_id ELSE s.candidate[a]
    /\ \A a \in Artifacts :
          t.attested[a] = IF IsStep(e, a) /\ e.type = "CANDIDATE_REGISTERED" THEN {}
                          ELSE IF IsStep(e, a) /\ e.type = "REVIEW_ATTESTED"
                          THEN s.attested[a] \cup {e.payload.attestation_id} ELSE s.attested[a]
    /\ \A f \in Freezes :
          t.governed[f] = IF /\ e.schema = "v2" /\ e.type = "CANDIDATE_REGISTERED"
                             /\ e.payload.freeze_id = f
                          THEN s.governed[f] \cup {e.payload.candidate_id} ELSE s.governed[f]
    /\ t.known = IF e.schema = "v2" THEN s.known \cup {e.id} ELSE s.known
    /\ t.corrections = IF e.schema = "v2" /\ e.type = "CORRECTION_RECORDED"
                       THEN Append(s.corrections, e.id) ELSE s.corrections

LEMMA ApplyEffectToo ==
  ASSUME NEW s \in States, NEW e \in Events, e.schema = "v2"
  PROVE  LET u == Apply(s, e)
         IN  /\ {"phase", "candidate", "attested", "governed", "known", "corrections"}
                    \subseteq DOMAIN u
             /\ \A a \in Artifacts :
                   /\ u.candidate[a] = IF e.artifact = a /\ e.type = "CANDIDATE_REGISTERED"
                                       THEN e.payload.candidate_id ELSE s.candidate[a]
                   /\ u.attested[a] = IF e.artifact = a /\ e.type = "CANDIDATE_REGISTERED" THEN {}
                                      ELSE IF e.artifact = a /\ e.type = "REVIEW_ATTESTED"
                                      THEN s.attested[a] \cup {e.payload.attestation_id}
                                      ELSE s.attested[a]
             /\ \A f \in Freezes :
                   u.governed[f] = IF e.type = "CANDIDATE_REGISTERED" /\ e.payload.freeze_id = f
                                   THEN s.governed[f] \cup {e.payload.candidate_id}
                                   ELSE s.governed[f]
             /\ u.known = s.known
             /\ u.corrections = IF e.type = "CORRECTION_RECORDED"
                                THEN Append(s.corrections, e.id) ELSE s.corrections
<1>1. CASE e.type = "OBLIGATION_FROZEN"
  BY <1>1, PayloadType DEF Apply, FreezeObligation, States
<1>2. CASE e.type = "CANDIDATE_REGISTERED"
  BY <1>2, PayloadType DEF Apply, RegisterCandidate, States
<1>3. CASE e.type = "REVIEW_ATTESTED"
  BY <1>3, PayloadType DEF Apply, States
<1>4. CASE e.type = "CORRECTION_RECORDED"
  BY <1>4 DEF Apply, States
<1>5. CASE e.type \notin {"OBLIGATION_FROZEN", "CANDIDATE_REGISTERED",
                         "REVIEW_ATTESTED", "CORRECTION_RECORDED"}
  BY <1>5 DEF Apply, States
<1> QED BY <1>1, <1>2, <1>3, <1>4, <1>5

LEMMA ReduceFollowsToo ==
  ASSUME NEW s \in States, NEW e \in Events
  PROVE  FollowsToo(s, e, ReduceRow(s, e))
<1>1. CASE e.schema # "v2"
  BY <1>1 DEF ReduceRow, FollowsToo, IsStep
<1>2. CASE e.schema = "v2"
  <2> DEFINE u == Apply(s, e)
             t == Reduce(s, e)
  <2>1. \A a : /\ IsStep(e, a) /\ e.type = "CANDIDATE_REGISTERED"
                      <=> e.artifact = a /\ e.type = "CANDIDATE_REGISTERED"
               /\ IsStep(e, a) /\ e.type = "REVIEW_ATTESTED"
                      <=> e.artifact = a /\ e.type = "REVIEW_ATTESTED"
    BY <1>2, TypesAreDisjoint DEF IsStep
  <2>2. /\ {"phase", "candidate", "attested", "governed", "known", "corrections"} \subseteq DOMAIN u
        /\ \A a \in Artifacts :
              /\ u.candidate[a] = IF e.artifact = a /\ e.type = "CANDIDATE_REGISTERED"
                                  THEN e.payload.candidate_id ELSE s.candidate[a]
              /\ u.attested[a] = IF e.artifact = a /\ e.type = "CANDIDATE_REGISTERED" THEN {}
                                 ELSE IF e.artifact = a /\ e.type = "REVIEW_ATTESTED"
                                 THEN s.attested[a] \cup {e.payload.attestation_id}
                                 ELSE s.attested[a]
        /\ \A f \in Freezes :
              u.governed[f] = IF e.type = "CANDIDATE_REGISTERED" /\ e.payload.freeze_id = f
                              THEN s.governed[f] \cup {e.payload.candidate_id}
                              ELSE s.governed[f]
        /\ u.known = s.known
        /\ u.corrections = IF e.type = "CORRECTION_RECORDED"
                           THEN Append(s.corrections, e.id) ELSE s.corrections
    BY <1>2, ApplyEffectToo
  <2> HIDE DEF u
  <2>3. t = [u EXCEPT !.known = @ \cup {e.id},
                      !.phase = IF e.type \in SideChannelTypes THEN @
                                ELSE [@ EXCEPT ![e.artifact] = e.type]]
    BY DEF Reduce, u
  <2> HIDE DEF t
  <2>4. /\ t.candidate = u.candidate /\ t.attested = u.attested /\ t.governed = u.governed
        /\ t.known = u.known \cup {e.id} /\ t.corrections = u.corrections
    BY <2>2, <2>3
  <2>5. ReduceRow(s, e) = t
    BY <1>2 DEF ReduceRow, t
  <2>6. \A a \in Artifacts :
          t.candidate[a] = IF IsStep(e, a) /\ e.type = "CANDIDATE_REGISTERED"
                           THEN e.payload.candidate_id ELSE s.candidate[a]
    <3> TAKE a \in Artifacts
    <3>1. t.candidate[a] = IF e.artifact = a /\ e.type = "CANDIDATE_REGISTERED"
                           THEN e.payload.candidate_id ELSE s.candidate[a]
      BY <2>2, <2>4
    <3> QED BY <2>1, <3>1
  <2>7. \A a \in Artifacts :
          t.attested[a] = IF IsStep(e, a) /\ e.type = "CANDIDATE_REGISTERED" THEN {}
                          ELSE IF IsStep(e, a) /\ e.type = "REVIEW_ATTESTED"
                          THEN s.attested[a] \cup {e.payload.attestation_id} ELSE s.attested[a]
    <3> TAKE a \in Artifacts
    <3> DEFINE more == s.attested[a] \cup {e.payload.attestation_id}
    <3>1. t.attested[a] = IF e.artifact = a /\ e.type = "CANDIDATE_REGISTERED" THEN {}
                          ELSE IF e.artifact = a /\ e.type = "REVIEW_ATTESTED"
                          THEN more ELSE s.attested[a]
      BY <2>2, <2>4
    <3> HIDE DEF more
    <3>2. t.attested[a] = IF IsStep(e, a) /\ e.type = "CANDIDATE_REGISTERED" THEN {}
                          ELSE IF IsStep(e, a) /\ e.type = "REVIEW_ATTESTED"
                          THEN more ELSE s.attested[a]
      BY <2>1, <3>1
    <3> QED BY <3>2 DEF more
  <2>8. \A f \in Freezes :
          t.governed[f] = IF /\ e.schema = "v2" /\ e.type = "CANDIDATE_REGISTERED"
                             /\ e.payload.freeze_id = f
                          THEN s.governed[f] \cup {e.payload.candidate_id} ELSE s.governed[f]
    BY <1>2, <2>2, <2>4
  <2>9. /\ t.known = IF e.schema = "v2" THEN s.known \cup {e.id} ELSE s.known
        /\ t.corrections = IF e.schema = "v2" /\ e.type = "CORRECTION_RECORDED"
                           THEN Append(s.corrections, e.id) ELSE s.corrections
    BY <1>2, <2>2, <2>4
  <2> QED BY <2>5, <2>6, <2>7, <2>8, <2>9 DEF FollowsToo
<1> QED BY <1>1, <1>2

\* The operators the history takes from the library are those of the store.
LEMMA SameLibrary ==
  /\ \A S : History!Max(S) = Max(S)
  /\ \A S : History!Cardinality(S) = Cardinality(S)
BY DEF Max, History!Max, Cardinality, History!Cardinality

\* The last of some positions of the longer history: e, or the last one of l.
LEMMA LastOfGrown ==
  ASSUME NEW m, NEW l, NEW n, NEW e, Longer(m, l, n, e), NEW T \in SUBSET (1 .. n),
         NEW yes \in BOOLEAN, NEW G, G = Grown(T, n, yes)
  PROVE  /\ yes => G # {} /\ m[Max(G)] = e
         /\ ~yes => G = T /\ (T # {} => m[Max(T)] = l[Max(T)])
<1>1. n \in Nat
  BY DEF Longer
<1>2. /\ Max(T \cup {n + 1}) = n + 1
      /\ T # {} => Max(T) \in T
  BY <1>1, MaxOfMore
<1>3. CASE yes
  BY <1>2, <1>3 DEF Grown, Longer
<1>4. CASE ~yes
  BY <1>2, <1>4 DEF Grown, Longer
<1> QED BY <1>3, <1>4

LEMMA StepIsBoolean ==
  ASSUME NEW e, NEW a, NEW types
  PROVE  IsStep(e, a) \in BOOLEAN /\ (IsStep(e, a) /\ e.type \in types) \in BOOLEAN
BY DEF IsStep

LEMMA PhaseOfLonger ==
  ASSUME NEW m, NEW l, NEW n, NEW e, Longer(m, l, n, e), NEW a
  PROVE  History!PhaseIn(m, a) = IF IsStep(e, a) THEN e.type ELSE History!PhaseIn(l, a)
<1> DEFINE T == History!Steps(l, a)
           yes == IsStep(e, a)
           G == Grown(T, n, yes)
<1>1. History!Steps(m, a) = G /\ T \in SUBSET (1 .. n) /\ yes \in BOOLEAN
  BY PositionsGrow, StepIsBoolean
<1>0. G = Grown(T, n, yes)
  OBVIOUS
<1>2. /\ History!PhaseIn(m, a) = IF G = {} THEN "EMPTY" ELSE m[Max(G)].type
      /\ History!PhaseIn(l, a) = IF T = {} THEN "EMPTY" ELSE l[Max(T)].type
  BY <1>1, SameLibrary DEF History!PhaseIn
<1> HIDE DEF G, T, yes
<1>3. /\ yes => G # {} /\ m[Max(G)] = e
      /\ ~yes => G = T /\ (T # {} => m[Max(T)] = l[Max(T)])
  <2>1. T \in SUBSET (1 .. n) /\ yes \in BOOLEAN
    BY <1>1
  <2> QED BY <1>0, <2>1, LastOfGrown
<1>4. History!PhaseIn(m, a) = IF yes THEN e.type ELSE History!PhaseIn(l, a)
  BY <1>1, <1>2, <1>3
<1> QED BY <1>4 DEF yes

LEMMA FreezeOfLonger ==
  ASSUME NEW m, NEW l, NEW n, NEW e, Longer(m, l, n, e), NEW a
  PROVE  History!FreezeIn(m, a) =
            IF IsStep(e, a) /\ e.type \in {"OBLIGATION_FROZEN", "CANDIDATE_REGISTERED"}
            THEN e.payload.freeze_id ELSE History!FreezeIn(l, a)
<1> DEFINE types == {"OBLIGATION_FROZEN", "CANDIDATE_REGISTERED"}
           T == History!StepsOfType(l, a, types)
           yes == IsStep(e, a) /\ e.type \in types
           G == Grown(T, n, yes)
<1>1. History!StepsOfType(m, a, types) = G /\ T \in SUBSET (1 .. n) /\ yes \in BOOLEAN
  BY PositionsGrow, StepIsBoolean
<1>0. G = Grown(T, n, yes)
  OBVIOUS
<1>2. /\ History!FreezeIn(m, a) = IF G = {} THEN None ELSE m[Max(G)].payload.freeze_id
      /\ History!FreezeIn(l, a) = IF T = {} THEN None ELSE l[Max(T)].payload.freeze_id
  BY <1>1, SameLibrary DEF History!FreezeIn, History!Bindings
<1> HIDE DEF G, T, yes
<1>3. /\ yes => G # {} /\ m[Max(G)] = e
      /\ ~yes => G = T /\ (T # {} => m[Max(T)] = l[Max(T)])
  <2>1. T \in SUBSET (1 .. n) /\ yes \in BOOLEAN
    BY <1>1
  <2> QED BY <1>0, <2>1, LastOfGrown
<1>4. History!FreezeIn(m, a) = IF yes THEN e.payload.freeze_id ELSE History!FreezeIn(l, a)
  BY <1>1, <1>2, <1>3
<1> QED BY <1>4 DEF yes

LEMMA CandidateOfLonger ==
  ASSUME NEW m, NEW l, NEW n, NEW e, Longer(m, l, n, e), NEW a
  PROVE  History!CandidateIn(m, a) =
            IF IsStep(e, a) /\ e.type = "CANDIDATE_REGISTERED"
            THEN e.payload.candidate_id ELSE History!CandidateIn(l, a)
<1> DEFINE types == {"CANDIDATE_REGISTERED"}
           T == History!StepsOfType(l, a, types)
           yes == IsStep(e, a) /\ e.type \in types
           G == Grown(T, n, yes)
<1>1. History!StepsOfType(m, a, types) = G /\ T \in SUBSET (1 .. n) /\ yes \in BOOLEAN
  BY PositionsGrow, StepIsBoolean
<1>0. G = Grown(T, n, yes)
  OBVIOUS
<1>2. /\ History!CandidateIn(m, a) = IF G = {} THEN None ELSE m[Max(G)].payload.candidate_id
      /\ History!CandidateIn(l, a) = IF T = {} THEN None ELSE l[Max(T)].payload.candidate_id
  BY <1>1, SameLibrary DEF History!CandidateIn, History!Registrations
<1> HIDE DEF G, T, yes
<1>3. /\ yes => G # {} /\ m[Max(G)] = e
      /\ ~yes => G = T /\ (T # {} => m[Max(T)] = l[Max(T)])
  <2>1. T \in SUBSET (1 .. n) /\ yes \in BOOLEAN
    BY <1>1
  <2> QED BY <1>0, <2>1, LastOfGrown
<1>4. History!CandidateIn(m, a) = IF yes THEN e.payload.candidate_id ELSE History!CandidateIn(l, a)
  BY <1>1, <1>2, <1>3
<1> QED BY <1>4 DEF yes

LEMMA AttestedOfLonger ==
  ASSUME NEW m, NEW l, NEW n, NEW e, Longer(m, l, n, e), NEW a
  PROVE  History!AttestedIn(m, a) =
            IF IsStep(e, a) /\ e.type = "CANDIDATE_REGISTERED" THEN {}
            ELSE IF IsStep(e, a) /\ e.type = "REVIEW_ATTESTED"
            THEN History!AttestedIn(l, a) \cup {e.payload.attestation_id}
            ELSE History!AttestedIn(l, a)
<1> DEFINE A == History!StepsOfType(l, a, {"REVIEW_ATTESTED"})
           C == History!Registrations(l, a)
           A1 == History!StepsOfType(m, a, {"REVIEW_ATTESTED"})
           C1 == History!Registrations(m, a)
           Live == {k \in A : \A r \in C : r < k}
           Live1 == {k \in A1 : \A r \in C1 : r < k}
<1>1. /\ A1 = Grown(A, n, IsStep(e, a) /\ e.type = "REVIEW_ATTESTED")
      /\ C1 = Grown(C, n, IsStep(e, a) /\ e.type = "CANDIDATE_REGISTERED")
      /\ A \subseteq 1 .. n /\ C \subseteq 1 .. n
  <2>1. /\ A1 = Grown(A, n, IsStep(e, a) /\ e.type \in {"REVIEW_ATTESTED"})
        /\ A \subseteq 1 .. n
    BY PositionsGrow
  <2>2. /\ C1 = Grown(C, n, IsStep(e, a) /\ e.type \in {"CANDIDATE_REGISTERED"})
        /\ C \subseteq 1 .. n
    BY PositionsGrow DEF History!Registrations
  <2> QED BY <2>1, <2>2 DEF Grown
<1>2. /\ History!AttestedIn(l, a) = {l[i].payload.attestation_id : i \in Live}
      /\ History!AttestedIn(m, a) = {m[i].payload.attestation_id : i \in Live1}
  BY DEF History!AttestedIn
<1>3. n \in Nat /\ (\A i \in 1 .. n : m[i] = l[i]) /\ m[n + 1] = e
  BY DEF Longer
<1>4. Live \subseteq 1 .. n
  BY <1>1
<1> HIDE DEF A, C, A1, C1
<1>5. CASE IsStep(e, a) /\ e.type = "CANDIDATE_REGISTERED"
  <2>1. A1 \subseteq 1 .. n /\ n + 1 \in C1
    BY <1>1, <1>5 DEF Grown
  <2>2. ASSUME NEW k \in A1, \A r \in C1 : r < k PROVE FALSE
    <3>1. k \in 1 .. n /\ n + 1 < k
      BY <2>1, <2>2
    <3> QED BY <1>3, <3>1
  <2>3. Live1 = {}
    BY <2>2
  <2> QED BY <1>2, <1>5, <2>3
<1>6. CASE IsStep(e, a) /\ e.type = "REVIEW_ATTESTED"
  <2>1. A1 = A \cup {n + 1} /\ C1 = C
    BY <1>1, <1>6 DEF Grown
  <2>2. Live1 = Live \cup {n + 1}
    BY <1>1, <1>3, <2>1
  <2> HIDE DEF Live, Live1
  <2>3. {m[i].payload.attestation_id : i \in Live1} =
            {l[i].payload.attestation_id : i \in Live} \cup {e.payload.attestation_id}
    BY <1>3, <1>4, <2>2
  <2> QED BY <1>2, <1>6, <2>3
<1>7. CASE ~(IsStep(e, a) /\ e.type \in {"CANDIDATE_REGISTERED", "REVIEW_ATTESTED"})
  <2>1. A1 = A /\ C1 = C
    BY <1>1, <1>7 DEF Grown
  <2>2. Live1 = Live
    BY <2>1
  <2> HIDE DEF Live, Live1
  <2>3. {m[i].payload.attestation_id : i \in Live1} = {l[i].payload.attestation_id : i \in Live}
    BY <1>3, <1>4, <2>2
  <2> QED BY <1>2, <1>7, <2>3
<1> QED BY <1>5, <1>6, <1>7

LEMMA GovernedOfLonger ==
  ASSUME NEW m, NEW l, NEW n, NEW e, Longer(m, l, n, e), NEW f
  PROVE  History!GovernedIn(m, f) =
            IF /\ e.schema = "v2" /\ e.type = "CANDIDATE_REGISTERED"
               /\ e.payload.freeze_id = f
            THEN History!GovernedIn(l, f) \cup {e.payload.candidate_id}
            ELSE History!GovernedIn(l, f)
<1> DEFINE C == History!OfType(l, "CANDIDATE_REGISTERED")
           C1 == History!OfType(m, "CANDIDATE_REGISTERED")
           K == {k \in C : l[k].payload.freeze_id = f}
           K1 == {k \in C1 : m[k].payload.freeze_id = f}
           yes == e.schema = "v2" /\ e.type = "CANDIDATE_REGISTERED"
<1>1. C1 = Grown(C, n, yes) /\ C \subseteq 1 .. n
  BY PositionsGrow
<1>2. /\ History!GovernedIn(l, f) = {l[i].payload.candidate_id : i \in K}
      /\ History!GovernedIn(m, f) = {m[i].payload.candidate_id : i \in K1}
  BY DEF History!GovernedIn
<1>3. n \in Nat /\ (\A i \in 1 .. n : m[i] = l[i]) /\ m[n + 1] = e /\ n + 1 \notin 1 .. n
  BY DEF Longer
<1> HIDE DEF C, C1
<1>4. CASE yes /\ e.payload.freeze_id = f
  <2>1. K1 = K \cup {n + 1} /\ K \subseteq 1 .. n
    BY <1>1, <1>3, <1>4 DEF Grown
  <2> HIDE DEF K, K1
  <2>2. {m[i].payload.candidate_id : i \in K1} =
            {l[i].payload.candidate_id : i \in K} \cup {e.payload.candidate_id}
    BY <1>3, <2>1
  <2> QED BY <1>2, <1>4, <2>2
<1>5. CASE ~(yes /\ e.payload.freeze_id = f)
  <2>1. K1 = K /\ K \subseteq 1 .. n
    BY <1>1, <1>3, <1>5 DEF Grown
  <2> HIDE DEF K, K1
  <2>2. {m[i].payload.candidate_id : i \in K1} = {l[i].payload.candidate_id : i \in K}
    BY <1>3, <2>1
  <2> QED BY <1>2, <1>5, <2>2
<1> QED BY <1>4, <1>5

\* The freeze ids and the event ids of a history.
FrozenIn(l) == {l[i].payload.freeze_id : i \in History!OfType(l, "OBLIGATION_FROZEN")}

KnownIn(l) == {l[i].id : i \in History!Typed(l)}

LEMMA IdsOfLonger ==
  ASSUME NEW m, NEW l, NEW n, NEW e, Longer(m, l, n, e)
  PROVE  /\ FrozenIn(m) = IF e.schema = "v2" /\ e.type = "OBLIGATION_FROZEN"
                          THEN FrozenIn(l) \cup {e.payload.freeze_id} ELSE FrozenIn(l)
         /\ KnownIn(m) = IF e.schema = "v2" THEN KnownIn(l) \cup {e.id} ELSE KnownIn(l)
<1> DEFINE F == History!OfType(l, "OBLIGATION_FROZEN")
           F1 == History!OfType(m, "OBLIGATION_FROZEN")
           T == History!Typed(l)
           T1 == History!Typed(m)
<1>1. /\ F1 = Grown(F, n, e.schema = "v2" /\ e.type = "OBLIGATION_FROZEN")
      /\ F \subseteq 1 .. n
  BY PositionsGrow
<1>2. T1 = Grown(T, n, e.schema = "v2") /\ T \subseteq 1 .. n
  <2>1. T1 = Grown(T, n, e.schema = "v2")
    BY PositionsGrow
  <2>2. T \subseteq 1 .. n
    BY DEF History!Typed, Longer
  <2> QED BY <2>1, <2>2
<1>3. n \in Nat /\ (\A i \in 1 .. n : m[i] = l[i]) /\ m[n + 1] = e
  BY DEF Longer
<1>4. /\ FrozenIn(l) = {l[i].payload.freeze_id : i \in F}
      /\ FrozenIn(m) = {m[i].payload.freeze_id : i \in F1}
      /\ KnownIn(l) = {l[i].id : i \in T}
      /\ KnownIn(m) = {m[i].id : i \in T1}
  BY DEF FrozenIn, KnownIn
<1> HIDE DEF F, F1, T, T1
<1>5. {m[i].payload.freeze_id : i \in F1} =
         IF e.schema = "v2" /\ e.type = "OBLIGATION_FROZEN"
         THEN {l[i].payload.freeze_id : i \in F} \cup {e.payload.freeze_id}
         ELSE {l[i].payload.freeze_id : i \in F}
  BY <1>1, <1>3 DEF Grown
<1>6. {m[i].id : i \in T1} = IF e.schema = "v2" THEN {l[i].id : i \in T} \cup {e.id}
                             ELSE {l[i].id : i \in T}
  BY <1>2, <1>3 DEF Grown
<1> QED BY <1>4, <1>5, <1>6

\* The places of some positions are 1, 2, ... up to their number.
LEMMA RanksAreOrdered ==
  ASSUME NEW n \in Nat, NEW K \in SUBSET (1 .. n)
  PROVE  /\ Cardinality(K) \in Nat
         /\ \A i \in K : History!PlaceOf(K, i) \in 1 .. Cardinality(K)
         /\ \A i, j \in K : History!PlaceOf(K, i) = History!PlaceOf(K, j) => i = j
         /\ \A r \in 1 .. Cardinality(K) : History!AtPlace(K, r) \in K /\ History!PlaceOf(K, History!AtPlace(K, r)) = r
<1> DEFINE Below(i) == {k \in K : k <= i}
<1>1. IsFiniteSet(K) /\ Cardinality(K) \in Nat
  <2>1. IsFiniteSet(1 .. n)
    BY FS_Interval
  <2>2. IsFiniteSet(K)
    BY <2>1, FS_Subset
  <2> QED BY <2>2, FS_CardinalityType
<1>2. ASSUME NEW i \in K
      PROVE  /\ IsFiniteSet(Below(i)) /\ History!PlaceOf(K, i) = Cardinality(Below(i))
             /\ History!PlaceOf(K, i) \in 1 .. Cardinality(K)
  <2>1. Below(i) \in SUBSET K /\ i \in Below(i)
    OBVIOUS
  <2>2. IsFiniteSet(Below(i)) /\ Cardinality(Below(i)) <= Cardinality(K)
    BY <1>1, <2>1, FS_Subset
  <2>3. Cardinality(Below(i)) \in Nat /\ Cardinality(Below(i)) # 0
    BY <2>1, <2>2, FS_CardinalityType, FS_EmptySet
  <2>4. History!PlaceOf(K, i) = Cardinality(Below(i))
    BY SameLibrary DEF History!PlaceOf
  <2> QED BY <1>1, <2>2, <2>3, <2>4
<1>3. ASSUME NEW i \in K, NEW j \in K, i < j PROVE History!PlaceOf(K, i) # History!PlaceOf(K, j)
  <2>0. \A k \in K : k \in Nat
    OBVIOUS
  <2>1. Below(i) \in SUBSET Below(j) /\ j \in Below(j) /\ j \notin Below(i)
    <3>1. \A k \in K : k <= i => k <= j
      BY <1>3, <2>0
    <3>2. j <= j /\ ~(j <= i)
      BY <1>3, <2>0
    <3> QED BY <3>1, <3>2
  <2>2. IsFiniteSet(Below(j))
    BY <1>2
  <2>3. Cardinality(Below(i)) # Cardinality(Below(j))
    <3> HIDE DEF Below
    <3> QED BY <2>1, <2>2, FS_Subset
  <2> QED BY <1>2, <2>3
<1>4. \A i, j \in K : History!PlaceOf(K, i) = History!PlaceOf(K, j) => i = j
  <2>1. \A i, j \in K : i < j \/ j < i \/ i = j
    OBVIOUS
  <2> QED BY <1>3, <2>1
<1> DEFINE c == Cardinality(K)
           rank == [i \in K |-> History!PlaceOf(K, i)]
<1>5. rank \in Injection(K, 1 .. c)
  BY <1>2, <1>4 DEF Injection, IsInjective
<1>6. IsFiniteSet(1 .. c) /\ Cardinality(1 .. c) = c
  BY <1>1, FS_Interval
<1>7. rank \in Surjection(K, 1 .. c)
  <2> HIDE DEF rank
  <2> QED BY <1>5, <1>6, FS_Injection
<1>8. ASSUME NEW r \in 1 .. c PROVE History!AtPlace(K, r) \in K /\ History!PlaceOf(K, History!AtPlace(K, r)) = r
  <2>1. \E i \in K : History!PlaceOf(K, i) = r
    BY <1>7 DEF Surjection
  <2> QED BY <2>1 DEF History!AtPlace
<1> QED BY <1>1, <1>2, <1>4, <1>8

\* The corrections of a history, place by place.
LEMMA CorrectionsAreRanked ==
  ASSUME NEW l
  PROVE  History!CorrectionsIn(l) =
            [r \in 1 .. Cardinality(History!OfType(l, "CORRECTION_RECORDED")) |->
                l[History!AtPlace(History!OfType(l, "CORRECTION_RECORDED"), r)].id]
BY SameLibrary DEF History!CorrectionsIn

LEMMA CorrectionsOfLonger ==
  ASSUME NEW m, NEW l, NEW n, NEW e, Longer(m, l, n, e)
  PROVE  LET c == Cardinality(History!OfType(l, "CORRECTION_RECORDED"))
         IN  /\ c \in Nat
             /\ History!CorrectionsIn(l) =
                   [r \in 1 .. c |-> History!CorrectionsIn(l)[r]]
             /\ History!CorrectionsIn(m) =
                   IF e.schema = "v2" /\ e.type = "CORRECTION_RECORDED"
                   THEN [r \in 1 .. c + 1 |->
                            IF r = c + 1 THEN e.id ELSE History!CorrectionsIn(l)[r]]
                   ELSE History!CorrectionsIn(l)
<1> DEFINE K == History!OfType(l, "CORRECTION_RECORDED")
           K1 == History!OfType(m, "CORRECTION_RECORDED")
           yes == e.schema = "v2" /\ e.type = "CORRECTION_RECORDED"
           c == Cardinality(K)
           old == History!CorrectionsIn(l)
<1>1. K1 = Grown(K, n, yes) /\ K \in SUBSET (1 .. n)
  BY PositionsGrow
<1>2. /\ old = [r \in 1 .. c |-> l[History!AtPlace(K, r)].id]
      /\ History!CorrectionsIn(m) = [r \in 1 .. Cardinality(K1) |-> m[History!AtPlace(K1, r)].id]
  BY CorrectionsAreRanked
<1>3. n \in Nat /\ (\A i \in 1 .. n : m[i] = l[i]) /\ m[n + 1] = e
  BY DEF Longer
<1> HIDE DEF K, K1, old
<1>4. /\ c \in Nat
      /\ \A i \in K : History!PlaceOf(K, i) \in 1 .. c
      /\ \A r \in 1 .. c : History!AtPlace(K, r) \in K /\ History!PlaceOf(K, History!AtPlace(K, r)) = r
  BY <1>1, <1>3, RanksAreOrdered
<1>5. old = [r \in 1 .. c |-> old[r]]
  BY <1>2
<1>6. CASE ~yes
  <2>1. K1 = K
    BY <1>1, <1>6 DEF Grown
  <2>2. \A r \in 1 .. c : m[History!AtPlace(K, r)].id = l[History!AtPlace(K, r)].id
    BY <1>1, <1>3, <1>4
  <2>3. History!CorrectionsIn(m) = old
    BY <1>2, <2>1, <2>2
  <2> QED BY <1>4, <1>5, <1>6, <2>3 DEF old, K
<1>7. CASE yes
  <2>1. K1 = K \cup {n + 1} /\ K1 \in SUBSET (1 .. n + 1) /\ n + 1 \notin K
    BY <1>1, <1>3, <1>7 DEF Grown
  <2>2. Cardinality(K1) = c + 1
    <3>1. IsFiniteSet(1 .. n)
      BY <1>3, FS_Interval
    <3>2. IsFiniteSet(K)
      BY <1>1, <3>1, FS_Subset
    <3> QED BY <2>1, <3>2, FS_AddElement
  <2>3. /\ \A i, j \in K1 : History!PlaceOf(K1, i) = History!PlaceOf(K1, j) => i = j
        /\ \A r \in 1 .. c + 1 : History!AtPlace(K1, r) \in K1 /\ History!PlaceOf(K1, History!AtPlace(K1, r)) = r
    <3>1. n + 1 \in Nat
      BY <1>3
    <3>2. /\ \A i, j \in K1 : History!PlaceOf(K1, i) = History!PlaceOf(K1, j) => i = j
          /\ \A r \in 1 .. Cardinality(K1) :
                History!AtPlace(K1, r) \in K1 /\ History!PlaceOf(K1, History!AtPlace(K1, r)) = r
      BY <2>1, <3>1, RanksAreOrdered
    <3> QED BY <2>2, <3>2
  <2>4. ASSUME NEW i \in K PROVE History!PlaceOf(K1, i) = History!PlaceOf(K, i)
    <3>1. {k \in K1 : k <= i} = {k \in K : k <= i}
      BY <1>1, <1>3, <2>1
    <3> QED BY <3>1, SameLibrary DEF History!PlaceOf
  <2>5. History!PlaceOf(K1, n + 1) = c + 1
    <3>0. \A k \in K1 : k <= n + 1
      BY <1>3, <2>1
    <3>1. {k \in K1 : k <= n + 1} = K1
      BY <3>0
    <3> QED BY <2>2, <3>1, SameLibrary DEF History!PlaceOf
  <2>6. History!AtPlace(K1, c + 1) = n + 1
    <3>1. c + 1 \in 1 .. c + 1 /\ n + 1 \in K1
      BY <1>4, <2>1
    <3> QED BY <2>3, <2>5, <3>1
  <2>7. ASSUME NEW r \in 1 .. c PROVE History!AtPlace(K1, r) = History!AtPlace(K, r)
    <3>1. History!AtPlace(K, r) \in K1 /\ History!PlaceOf(K1, History!AtPlace(K, r)) = r
      BY <1>4, <2>1, <2>4
    <3>2. r \in 1 .. c + 1
      BY <1>4
    <3> QED BY <2>3, <3>1, <3>2
  <2>8. ASSUME NEW r \in 1 .. c + 1
        PROVE  m[History!AtPlace(K1, r)].id = IF r = c + 1 THEN e.id ELSE old[r]
    <3>1. CASE r = c + 1
      BY <1>3, <2>6, <3>1
    <3>2. CASE r # c + 1
      <4>1. r \in 1 .. c
        BY <1>4, <3>2
      <4>2. History!AtPlace(K1, r) = History!AtPlace(K, r) /\ History!AtPlace(K, r) \in 1 .. n
        BY <1>1, <1>4, <2>7, <4>1
      <4>3. old[r] = l[History!AtPlace(K, r)].id
        BY <1>2, <4>1
      <4> QED BY <1>3, <3>2, <4>2, <4>3
    <3> QED BY <3>1, <3>2
  <2>9. History!CorrectionsIn(m) = [r \in 1 .. c + 1 |-> IF r = c + 1 THEN e.id ELSE old[r]]
    <3> HIDE DEF c
    <3> QED BY <1>2, <2>2, <2>8
  <2> QED BY <1>4, <1>5, <1>7, <2>9 DEF old, K
<1> QED BY <1>6, <1>7

\* The projection of a longer history is what the reducer makes of it.
LEMMA ProjectionOfLonger ==
  ASSUME NEW m, NEW l, NEW n, NEW e \in Events, Longer(m, l, n, e), NEW s \in States,
         s = History!Projection(l)
  PROVE  ReduceRow(s, e) = History!Projection(m)
<1> DEFINE t == ReduceRow(s, e)
<1>1. Follows(s, e, t) /\ FollowsToo(s, e, t) /\ t \in States
  BY ReduceFollows, ReduceFollowsToo, ReduceType
<1>2. /\ \A a \in Artifacts : s.phase[a] = History!PhaseIn(l, a)
      /\ \A a \in Artifacts : s.freeze[a] = History!FreezeIn(l, a)
      /\ \A a \in Artifacts : s.candidate[a] = History!CandidateIn(l, a)
      /\ \A a \in Artifacts : s.attested[a] = History!AttestedIn(l, a)
      /\ \A f \in Freezes : s.governed[f] = History!GovernedIn(l, f)
      /\ s.freezes = FrozenIn(l) /\ s.known = KnownIn(l)
      /\ s.corrections = History!CorrectionsIn(l)
  BY DEF History!Projection, FrozenIn, KnownIn
<1> HIDE DEF t
<1>3. t = [phase |-> t.phase, freeze |-> t.freeze, candidate |-> t.candidate,
           attested |-> t.attested, freezes |-> t.freezes, governed |-> t.governed,
           known |-> t.known, corrections |-> t.corrections]
  BY <1>1 DEF States
<1>4. t.phase = [a \in Artifacts |-> History!PhaseIn(m, a)]
  <2>1. t.phase = [a \in Artifacts |-> t.phase[a]]
    BY <1>1 DEF States
  <2>2. ASSUME NEW a \in Artifacts PROVE t.phase[a] = History!PhaseIn(m, a)
    BY <1>1, <1>2, PhaseOfLonger DEF Follows
  <2> QED BY <2>1, <2>2
<1>5. t.freeze = [a \in Artifacts |-> History!FreezeIn(m, a)]
  <2>1. t.freeze = [a \in Artifacts |-> t.freeze[a]]
    BY <1>1 DEF States
  <2>2. ASSUME NEW a \in Artifacts PROVE t.freeze[a] = History!FreezeIn(m, a)
    BY <1>1, <1>2, FreezeOfLonger DEF Follows
  <2> QED BY <2>1, <2>2
<1>6. t.candidate = [a \in Artifacts |-> History!CandidateIn(m, a)]
  <2>1. t.candidate = [a \in Artifacts |-> t.candidate[a]]
    BY <1>1 DEF States
  <2>2. ASSUME NEW a \in Artifacts PROVE t.candidate[a] = History!CandidateIn(m, a)
    BY <1>1, <1>2, CandidateOfLonger DEF FollowsToo
  <2> QED BY <2>1, <2>2
<1>7. t.attested = [a \in Artifacts |-> History!AttestedIn(m, a)]
  <2>1. t.attested = [a \in Artifacts |-> t.attested[a]]
    BY <1>1 DEF States
  <2>2. ASSUME NEW a \in Artifacts PROVE t.attested[a] = History!AttestedIn(m, a)
    <3> DEFINE more == History!AttestedIn(l, a) \cup {e.payload.attestation_id}
    <3>1. t.attested[a] = IF IsStep(e, a) /\ e.type = "CANDIDATE_REGISTERED" THEN {}
                          ELSE IF IsStep(e, a) /\ e.type = "REVIEW_ATTESTED"
                          THEN more ELSE History!AttestedIn(l, a)
      BY <1>1, <1>2 DEF FollowsToo
    <3>2. History!AttestedIn(m, a) =
             IF IsStep(e, a) /\ e.type = "CANDIDATE_REGISTERED" THEN {}
             ELSE IF IsStep(e, a) /\ e.type = "REVIEW_ATTESTED"
             THEN more ELSE History!AttestedIn(l, a)
      BY AttestedOfLonger
    <3> QED BY <3>1, <3>2
  <2> QED BY <2>1, <2>2
<1>8. t.governed = [f \in Freezes |-> History!GovernedIn(m, f)]
  <2>1. t.governed = [f \in Freezes |-> t.governed[f]]
    BY <1>1 DEF States
  <2>2. ASSUME NEW f \in Freezes PROVE t.governed[f] = History!GovernedIn(m, f)
    <3> DEFINE more == History!GovernedIn(l, f) \cup {e.payload.candidate_id}
               yes == /\ e.schema = "v2" /\ e.type = "CANDIDATE_REGISTERED"
                      /\ e.payload.freeze_id = f
    <3>1. t.governed[f] = IF yes THEN more ELSE History!GovernedIn(l, f)
      BY <1>1, <1>2 DEF FollowsToo
    <3>2. History!GovernedIn(m, f) = IF yes THEN more ELSE History!GovernedIn(l, f)
      BY GovernedOfLonger
    <3> QED BY <3>1, <3>2
  <2> QED BY <2>1, <2>2
<1>9. t.freezes = FrozenIn(m) /\ t.known = KnownIn(m)
  BY <1>1, <1>2, IdsOfLonger DEF Follows, FollowsToo
<1>10. t.corrections = History!CorrectionsIn(m)
  <2> DEFINE c == Cardinality(History!OfType(l, "CORRECTION_RECORDED"))
             old == History!CorrectionsIn(l)
             yes == e.schema = "v2" /\ e.type = "CORRECTION_RECORDED"
  <2>1. /\ c \in Nat /\ old = [r \in 1 .. c |-> old[r]]
        /\ History!CorrectionsIn(m) =
              IF yes THEN [r \in 1 .. c + 1 |-> IF r = c + 1 THEN e.id ELSE old[r]] ELSE old
    BY CorrectionsOfLonger
  <2>2. old \in Seq(EventIds) /\ t.corrections = IF yes THEN Append(old, e.id) ELSE old
    BY <1>1, <1>2 DEF States, FollowsToo
  <2> HIDE DEF c, old, yes
  <2>3. Len(old) = c
    <3>1. DOMAIN old = 1 .. Len(old) /\ Len(old) \in Nat /\ DOMAIN old = 1 .. c
      BY <2>1, <2>2, LenProperties
    <3> QED BY <2>1, <3>1
  <2>4. Append(old, e.id) = [r \in 1 .. c + 1 |-> IF r = c + 1 THEN e.id ELSE old[r]]
    BY <2>1, <2>2, <2>3
  <2> QED BY <2>1, <2>2, <2>4
<1>11. History!Projection(m) =
         [phase       |-> [a \in Artifacts |-> History!PhaseIn(m, a)],
          freeze      |-> [a \in Artifacts |-> History!FreezeIn(m, a)],
          candidate   |-> [a \in Artifacts |-> History!CandidateIn(m, a)],
          attested    |-> [a \in Artifacts |-> History!AttestedIn(m, a)],
          freezes     |-> FrozenIn(m),
          governed    |-> [f \in Freezes |-> History!GovernedIn(m, f)],
          known       |-> KnownIn(m),
          corrections |-> History!CorrectionsIn(m)]
  BY DEF History!Projection, FrozenIn, KnownIn
<1>12. t = History!Projection(m)
  BY <1>3, <1>4, <1>5, <1>6, <1>7, <1>8, <1>9, <1>10, <1>11
<1> QED BY <1>12 DEF t

\* Nothing has happened: the projection the reducer starts from.
LEMMA ProjectionOfNothing ==
  ASSUME NEW l, DOMAIN l = {}
  PROVE  EmptyState = History!Projection(l)
<1>1. /\ History!Typed(l) = {}
      /\ \A type : History!OfType(l, type) = {}
      /\ \A a : History!Steps(l, a) = {}
      /\ \A a, types : History!StepsOfType(l, a, types) = {}
  BY DEF History!Typed, History!OfType, History!Steps, History!StepsOfType
<1>2. ASSUME NEW a
      PROVE  /\ History!PhaseIn(l, a) = "EMPTY" /\ History!FreezeIn(l, a) = None
             /\ History!CandidateIn(l, a) = None /\ History!AttestedIn(l, a) = {}
  BY <1>1 DEF History!PhaseIn, History!FreezeIn, History!CandidateIn, History!AttestedIn,
              History!Bindings, History!Registrations
<1>3. \A f : History!GovernedIn(l, f) = {}
  BY <1>1 DEF History!GovernedIn
<1>4. FrozenIn(l) = {} /\ KnownIn(l) = {}
  BY <1>1 DEF FrozenIn, KnownIn
<1>5. History!CorrectionsIn(l) = <<>>
  <2>1. Cardinality({}) = 0
    BY FS_EmptySet
  <2>2. History!CorrectionsIn(l) = [n \in 1 .. 0 |-> l[History!AtPlace({}, n)].id]
    BY <1>1, <2>1, CorrectionsAreRanked
  <2> QED BY <2>2
<1> QED BY <1>2, <1>3, <1>4, <1>5 DEF EmptyState, History!Projection, FrozenIn, KnownIn

-----------------------------------------------------------------------------
(* Every ledger the store can hold *)

LEMMA MeaningStays ==
  ASSUME NEW q, NEW r, NEW n \in Nat, NEW e \in Events, NEW s \in States,
         Extends(q, r, n, e), DOMAIN r = 1 .. n, DOMAIN q = 1 .. n + 1,
         NEW u \in Events, e = StoredAs(u), Submitted(q[n + 1]) = u,
         \A i \in 1 .. n : Submitted(q[i]) = Submitted(r[i]),
         e.schema = "v2" => Accepts(s, e), Meaning(r, n, s)
  PROVE  Meaning(q, n + 1, ReduceRow(s, e))
<1> DEFINE t == ReduceRow(s, e)
<1>1. Allowed(s, e) /\ Follows(s, e, t)
  BY AcceptedIsAllowed, ReduceFollows
<1>2. e.artifact \in Artifacts
  BY DEF Events, Envelopes
<1> HIDE DEF t
<1>3. /\ PhaseIsLast(r, n, s) /\ ClosedIsLast(r, n) /\ FreezesAreRows(r, n, s)
      /\ RegistrationsAreFrozen(r, n) /\ WorkIsRegistered(r, n, s) /\ AcceptancesAreBacked(r, n)
  BY DEF Meaning
<1>4. PhaseIsLast(q, n + 1, t)
  BY <1>1, <1>3, PhaseStaysLast
<1>5. ClosedIsLast(q, n + 1)
  BY <1>1, <1>3, ClosedStaysLast
<1>6. FreezesAreRows(q, n + 1, t)
  BY <1>1, <1>2, <1>3, FreezesStayRows
<1>7. RegistrationsAreFrozen(q, n + 1)
  BY <1>1, <1>3, RegistrationsStayFrozen
<1>8. WorkIsRegistered(q, n + 1, t)
  BY <1>1, <1>3, WorkStaysRegistered
<1>9. AcceptancesAreBacked(q, n + 1)
  BY <1>1, <1>3, AcceptancesStayBacked
<1>10. ProjectsHistory(q, t)
  <2>1. Longer(EventsOf(q), EventsOf(r), n, u)
    <3>1. /\ DOMAIN EventsOf(r) = 1 .. n /\ DOMAIN EventsOf(q) = 1 .. n + 1
          /\ \A i \in 1 .. n : EventsOf(r)[i] = Submitted(r[i])
          /\ \A i \in 1 .. n + 1 : EventsOf(q)[i] = Submitted(q[i])
      BY DEF EventsOf
    <3> QED BY <3>1, OneMore DEF Longer
  <2>2. s = History!Projection(EventsOf(r))
    BY DEF Meaning, ProjectsHistory
  <2>3. ReduceRow(s, u) = t
    BY StoredType DEF t
  <2> QED BY <2>1, <2>2, <2>3, ProjectionOfLonger DEF ProjectsHistory
<1> QED BY <1>4, <1>5, <1>6, <1>7, <1>8, <1>9, <1>10 DEF Meaning, t

LEMMA EmptyMeaning ==
  ASSUME NEW r, DOMAIN r = {}
  PROVE  Meaning(r, 0, EmptyState)
<1>1. 1 .. 0 = {}
  OBVIOUS
<1>2. \A a \in Artifacts : EmptyState.phase[a] = "EMPTY"
  BY DEF EmptyState
<1>3. EmptyState.freezes = {}
  BY DEF EmptyState
<1>10. ProjectsHistory(r, EmptyState)
  BY ProjectionOfNothing DEF ProjectsHistory, EventsOf
<1> HIDE DEF EmptyState
<1>4. PhaseIsLast(r, 0, EmptyState)
  BY <1>1, <1>2 DEF PhaseIsLast
<1>5. ClosedIsLast(r, 0)
  BY <1>1 DEF ClosedIsLast
<1>6. FreezesAreRows(r, 0, EmptyState)
  BY <1>1, <1>3 DEF FreezesAreRows
<1>7. RegistrationsAreFrozen(r, 0)
  BY <1>1 DEF RegistrationsAreFrozen
<1>8. WorkIsRegistered(r, 0, EmptyState)
  BY <1>1, <1>2 DEF WorkIsRegistered, WorkOf
<1>9. AcceptancesAreBacked(r, 0)
  BY <1>1 DEF AcceptancesAreBacked
<1> QED BY <1>4, <1>5, <1>6, <1>7, <1>8, <1>9, <1>10 DEF Meaning

LEMMA InitMeaningInv == Init => MeaningInv
<1> SUFFICES ASSUME Init PROVE MeaningInv
  OBVIOUS
<1>1. Len(rows) = 0 /\ states[1] = EmptyState
  BY DEF Init
<1>2. \A n \in 0 .. Len(rows) : n = 0
  BY <1>1
<1>3. Meaning(SubSeq(rows, 1, 0), 0, EmptyState)
  <2>1. rows \in Seq(Rows)
    BY EmptySeq DEF Init
  <2>2. SubSeq(rows, 1, 0) \in Seq(Rows) /\ Len(SubSeq(rows, 1, 0)) = 0
    BY <1>1, <2>1, PrefixProperties
  <2>3. DOMAIN SubSeq(rows, 1, 0) = {}
    BY <2>2, LenProperties
  <2> QED BY <2>3, EmptyMeaning
<1>4. 0 + 1 = 1
  OBVIOUS
<1> QED BY <1>1, <1>2, <1>3, <1>4 DEF MeaningInv

\* Rows that stay, with the projections of their prefixes, keep their meaning.
LEMMA MeaningOfPrefix ==
  ASSUME TypeOK, MeaningInv, NEW n \in 0 .. Len(rows),
         rows' = SubSeq(rows, 1, n), states' = SubSeq(states, 1, n + 1)
  PROVE  MeaningInv'
<1>1. n + 1 \in 0 .. Len(states) /\ n \in Nat /\ Len(rows) \in Nat
  BY LenProperties DEF TypeOK
<1>2. Len(rows') = n /\ \A k \in 0 .. n : SubSeq(rows', 1, k) = SubSeq(rows, 1, k)
  BY PrefixProperties DEF TypeOK
<1>3. \A i \in 1 .. n + 1 : states'[i] = states[i]
  BY <1>1, PrefixProperties DEF TypeOK
<1>4. ASSUME NEW k \in 0 .. n PROVE Meaning(SubSeq(rows', 1, k), k, states'[k + 1])
  <2>1. k \in 0 .. Len(rows) /\ k + 1 \in 1 .. n + 1
    BY <1>1
  <2>2. Meaning(SubSeq(rows, 1, k), k, states[k + 1])
    BY <2>1 DEF MeaningInv
  <2> QED BY <1>2, <1>3, <2>1, <2>2
<1> QED BY <1>2, <1>4 DEF MeaningInv

\* A row the reducer accepts adds its own meaning.
LEMMA MeaningOfAppend ==
  ASSUME TypeOK, MeaningInv, NEW row \in Rows,
         Submitted(row) \in Events, row.event = StoredAs(Submitted(row)),
         row.event.schema = "v2" => Accepts(ReducerState, row.event),
         rows' = Append(rows, row), states' = Append(states, ReduceRow(ReducerState, row.event))
  PROVE  MeaningInv'
<1> DEFINE e == row.event
           n == Len(rows)
           s == states[n + 1]
           t == ReduceRow(s, e)
<1>1. /\ n \in Nat /\ Len(states) = n + 1 /\ s \in States /\ e \in Events
      /\ SubSeq(rows, 1, n) = rows
  BY LenProperties, ElementOfSeq, SubSeqFull DEF TypeOK, Rows
<1>2. t \in States
  BY <1>1, ReduceType
<1>3. ReducerState = s
  BY DEF ReducerState
<1> HIDE DEF e, s, t, n
<1>4. states' = Append(states, t) /\ (e.schema = "v2" => Accepts(s, e))
  BY <1>3 DEF e, t
<1>5. /\ rows' \in Seq(Rows) /\ Len(rows') = n + 1 /\ rows'[n + 1] = row
      /\ \A i \in 1 .. n : rows'[i] = rows[i]
  BY AppendProperties DEF TypeOK, n
<1>6. states'[n + 2] = t /\ \A i \in 1 .. n + 1 : states'[i] = states[i]
  BY <1>1, <1>2, <1>4, AppendProperties DEF TypeOK
<1>7. SubSeq(rows', 1, n + 1) = rows'
  BY <1>5, SubSeqFull
<1>8. \A k \in 0 .. n : SubSeq(rows', 1, k) = SubSeq(rows, 1, k)
  BY PrefixOfAppend DEF TypeOK, n
<1>9. Extends(rows', rows, n, e)
  BY <1>5 DEF Extends, e
<1>10. Meaning(rows, n, s)
  <2>1. n \in 0 .. Len(rows)
    BY <1>1 DEF n
  <2> QED BY <1>1, <2>1 DEF MeaningInv, s
<1>11. Meaning(rows', n + 1, t)
  <2>1. DOMAIN rows = 1 .. n /\ DOMAIN rows' = 1 .. n + 1
    BY <1>5, LenProperties DEF TypeOK, n
  <2>2. e = StoredAs(Submitted(row)) /\ Submitted(rows'[n + 1]) = Submitted(row)
        /\ \A i \in 1 .. n : Submitted(rows'[i]) = Submitted(rows[i])
    BY <1>5 DEF e
  <2> QED BY <1>1, <1>4, <1>9, <1>10, <2>1, <2>2, MeaningStays DEF t
<1>12. ASSUME NEW k \in 0 .. n + 1 PROVE Meaning(SubSeq(rows', 1, k), k, states'[k + 1])
  <2>1. CASE k = n + 1
    <3>1. k + 1 = n + 2
      BY <1>1, <2>1
    <3> QED BY <1>6, <1>7, <1>11, <2>1, <3>1
  <2>2. CASE k # n + 1
    <3>1. k \in 0 .. n /\ k + 1 \in 1 .. n + 1
      BY <1>1, <2>2
    <3>2. Meaning(SubSeq(rows, 1, k), k, states[k + 1])
      BY <3>1 DEF MeaningInv, n
    <3> QED BY <1>6, <1>8, <3>1, <3>2
  <2> QED BY <2>1, <2>2
<1> QED BY <1>5, <1>12 DEF MeaningInv

LEMMA NextMeaningInv == TypeInv /\ LifecycleInv /\ MeaningInv /\ [Next]_vars => MeaningInv'
<1> SUFFICES ASSUME TypeInv, LifecycleInv, MeaningInv, [Next]_vars PROVE MeaningInv'
  OBVIOUS
<1>0. TypeOK
  BY DEF TypeInv
<1>1. CASE UNCHANGED <<rows, states>>
  BY <1>1 DEF MeaningInv
<1>2. ASSUME NEW w \in Writers, Commit(w) PROVE MeaningInv'
  <2> DEFINE row == [event         |-> StoredAs(conn[w].event),
                     previous_hash |-> conn[w].previous,
                     event_hash    |-> Hash(conn[w].event, conn[w].previous)]
  <2>1. conn[w].event \in Events /\ conn[w].previous \in Hashes
    BY <1>2, StoreAssumptions DEF Commit, TypeInv, TypeOK, Exclusive, Conns
  <2>2. row \in Rows
    BY <2>1, AppendProperties, StoredType DEF Rows, Hash, Hashes
  <2>3. row.event.schema = "v2" => Accepts(ReducerState, row.event)
    BY <1>2, <2>1, StoredType DEF Commit, LifecycleInv, Judged
  <2>4. rows' = Append(rows, row) /\ states' = Append(states, ReduceRow(ReducerState, row.event))
    BY <1>2 DEF Commit
  <2>5. Submitted(row) \in Events /\ row.event = StoredAs(Submitted(row))
    BY <2>1, LastOfHash DEF Submitted
  <2> HIDE DEF row
  <2> QED BY <1>0, <2>2, <2>3, <2>4, <2>5, MeaningOfAppend
<1>3. ASSUME NEW n \in durable .. Len(rows), PowerLoss(n) PROVE MeaningInv'
  <2>1. n \in 0 .. Len(rows)
    BY <1>0, LenProperties DEF TypeOK
  <2>2. rows' = SubSeq(rows, 1, n) /\ states' = SubSeq(states, 1, n + 1)
    BY <1>3 DEF PowerLoss
  <2> QED BY <1>0, <2>1, <2>2, MeaningOfPrefix
<1> QED
  BY <1>1, <1>2, <1>3
  DEF Next, Begin, Validate, RefuseTransition, Rollback, ReadTip, Insert,
      RefuseDuplicate, Crash, Checkpoint, vars

\* All rows together have the meaning of their projection.
LEMMA WholeMeaning ==
  ASSUME TypeOK, MeaningInv
  PROVE  /\ Meaning(rows, Len(rows), ReducerState)
         /\ Len(rows) \in Nat /\ DOMAIN rows = 1 .. Len(rows)
<1>1. Len(rows) \in 0 .. Len(rows) /\ SubSeq(rows, 1, Len(rows)) = rows
      /\ Len(rows) \in Nat /\ DOMAIN rows = 1 .. Len(rows)
  BY LenProperties, SubSeqFull DEF TypeOK
<1>2. Meaning(SubSeq(rows, 1, Len(rows)), Len(rows), states[Len(rows) + 1])
  BY <1>1 DEF MeaningInv
<1> QED BY <1>1, <1>2 DEF ReducerState

LEMMA StepRowsAreSteps ==
  ASSUME TypeOK, MeaningInv, NEW a, NEW types
  PROVE  StepRows(a, types) = {i \in 1 .. Len(rows) : StepIs(rows, i, a, types)}
BY WholeMeaning DEF StepRows, StepIs

-----------------------------------------------------------------------------
(* Theorems *)

LEMMA MeaningOfFreezes == TypeOK /\ MeaningInv => FreezeIsImmutable
<1> SUFFICES ASSUME TypeOK, MeaningInv PROVE FreezeIsImmutable
  OBVIOUS
<1> DEFINE n == Len(rows)
           T == {"OBLIGATION_FROZEN"}
           C == {"CANDIDATE_REGISTERED"}
<1>1. FreezesAreRows(rows, n, ReducerState) /\ RegistrationsAreFrozen(rows, n)
  BY WholeMeaning DEF Meaning
<1>2. /\ \A a : \A i : i \in StepRows(a, T) <=> i \in 1 .. n /\ StepIs(rows, i, a, T)
      /\ \A a : \A i : i \in StepRows(a, C) <=> i \in 1 .. n /\ StepIs(rows, i, a, C)
  BY StepRowsAreSteps
<1>3. n \in Nat
  BY WholeMeaning
<1> HIDE DEF n
<1>4. ASSUME NEW a \in Artifacts, NEW b \in Artifacts, NEW i \in StepRows(a, T),
             NEW j \in StepRows(b, T), rows[i].event.payload = rows[j].event.payload
      PROVE  i = j
  <2>1. FreezeOf(rows, i) = FreezeOf(rows, j)
    BY <1>4 DEF FreezeOf
  <2>2. /\ i \in 1 .. n /\ StepIs(rows, i, a, T)
        /\ j \in 1 .. n /\ StepIs(rows, j, b, T)
    BY <1>2
  <2> QED BY <1>1, <2>1, <2>2 DEF FreezesAreRows
<1>5. ASSUME NEW a \in Artifacts, NEW i \in StepRows(a, C)
      PROVE  /\ \E b \in Artifacts : \E j \in StepRows(b, T) :
                   j < i /\ rows[j].event.payload.freeze_id = rows[i].event.payload.freeze_id
             /\ \A j \in StepRows(a, T) :
                   rows[j].event.payload.freeze_id = rows[i].event.payload.freeze_id
  <2>1. i \in 1 .. n /\ StepIs(rows, i, a, C)
    BY <1>2
  <2>2. PICK b \in Artifacts, j \in 1 .. i - 1 :
           StepIs(rows, j, b, T) /\ FreezeOf(rows, j) = FreezeOf(rows, i)
    BY <1>1, <2>1 DEF RegistrationsAreFrozen
  <2>3. j \in 1 .. n /\ j < i
    BY <1>3, <2>1
  <2>4. j \in StepRows(b, T)
    BY <1>2, <2>2, <2>3
  <2>5. \A k \in 1 .. n : StepIs(rows, k, a, T) => FreezeOf(rows, k) = FreezeOf(rows, i)
    BY <1>1, <2>1 DEF RegistrationsAreFrozen
  <2>6. \A k \in StepRows(a, T) : FreezeOf(rows, k) = FreezeOf(rows, i)
    BY <1>2, <2>5
  <2> QED BY <2>2, <2>3, <2>4, <2>6 DEF FreezeOf
<1> QED BY <1>4, <1>5 DEF FreezeIsImmutable

LEMMA MeaningOfClosing == TypeOK /\ MeaningInv => ClosedTipStaysClosed
<1> SUFFICES ASSUME TypeOK, MeaningInv, NEW a \in Artifacts,
                    NEW i \in StepRows(a, ClosedTypes), NEW j \in StepRows(a, LifecycleTypes)
             PROVE  j <= i
  BY DEF ClosedTipStaysClosed, ClosedTypes
<1>1. ClosedIsLast(rows, Len(rows))
  BY WholeMeaning DEF Meaning
<1>2. /\ i \in 1 .. Len(rows) /\ StepIs(rows, i, a, ClosedTypes)
      /\ j \in 1 .. Len(rows) /\ StepIs(rows, j, a, LifecycleTypes)
  BY StepRowsAreSteps
<1> QED BY <1>1, <1>2 DEF ClosedIsLast

LEMMA MeaningOfAcceptance == TypeOK /\ MeaningInv => AcceptanceIsBacked
<1> SUFFICES ASSUME TypeOK, MeaningInv, NEW a \in Artifacts,
                    NEW i \in StepRows(a, {"ARTIFACT_ACCEPTED"})
             PROVE  \E j, k \in 1 .. i - 1 :
                        /\ j < k
                        /\ StepRows(a, {"CANDIDATE_REGISTERED"}) = {j}
                        /\ k \in StepRows(a, {"EVIDENCE_COMPILED"})
                        /\ \A m \in StepRows(a, {"REVIEW_ASSIGNED"}) : m < i =>
                              \E p \in m .. i : p \in StepRows(a, {"REVIEW_ATTESTED"})
  BY DEF AcceptanceIsBacked
<1> DEFINE n == Len(rows)
           C == {"CANDIDATE_REGISTERED"}
           E == {"EVIDENCE_COMPILED"}
           R == {"REVIEW_ASSIGNED"}
           D == {"REVIEW_ATTESTED"}
<1>1. /\ AcceptancesAreBacked(rows, n) /\ WorkOf(rows, n, a, ReducerState.phase[a])
      /\ n \in Nat
  BY WholeMeaning DEF Meaning, WorkIsRegistered
<1>2. i \in 1 .. n /\ StepIs(rows, i, a, {"ARTIFACT_ACCEPTED"})
  BY StepRowsAreSteps
<1>3. /\ \A x : x \in StepRows(a, C) <=> x \in 1 .. n /\ StepIs(rows, x, a, C)
      /\ \A x : x \in StepRows(a, E) <=> x \in 1 .. n /\ StepIs(rows, x, a, E)
      /\ \A x : x \in StepRows(a, R) <=> x \in 1 .. n /\ StepIs(rows, x, a, R)
      /\ \A x : x \in StepRows(a, D) <=> x \in 1 .. n /\ StepIs(rows, x, a, D)
  BY StepRowsAreSteps
<1> HIDE DEF n
<1>4. Backed(rows, i, a)
  BY <1>1, <1>2 DEF AcceptancesAreBacked
<1>5. PICK j \in 1 .. i - 1, k \in 1 .. i - 1 :
         /\ j < k
         /\ StepIs(rows, j, a, C)
         /\ StepIs(rows, k, a, E)
         /\ \A m \in 1 .. i - 1 : StepIs(rows, m, a, R) =>
                \E p \in m .. i : StepIs(rows, p, a, D)
  BY <1>4 DEF Backed
<1>6. j \in 1 .. n /\ k \in 1 .. n
  BY <1>1, <1>2
<1>7. StepRows(a, C) = {j}
  <2>1. \A x \in 1 .. n : StepIs(rows, x, a, C) => x = j
    BY <1>1, <1>5, <1>6 DEF WorkOf
  <2> QED BY <1>3, <1>5, <1>6, <2>1
<1>8. k \in StepRows(a, E)
  BY <1>3, <1>5, <1>6
<1>9. ASSUME NEW m \in StepRows(a, R), m < i
      PROVE  \E p \in m .. i : p \in StepRows(a, D)
  <2>1. m \in 1 .. i - 1 /\ StepIs(rows, m, a, R) /\ m .. i \subseteq 1 .. n
    BY <1>1, <1>2, <1>3, <1>9
  <2>2. PICK p \in m .. i : StepIs(rows, p, a, D)
    BY <1>5, <2>1
  <2> QED BY <1>3, <2>1, <2>2
<1> QED BY <1>5, <1>7, <1>8, <1>9

\* A freeze is immutable in every ledger the store can hold: a freeze_id is
\* frozen once, and a candidate registered after its freeze answers to it,
\* whoever writes at the same time and whatever is lost (_accept_freeze_obligation).
THEOREM FreezesAreImmutable == Spec => []FreezeIsImmutable
<1>1. TypeInv => TypeOK
  BY DEF TypeInv
<1> QED
  BY <1>1, InitTypeInv, NextTypeInv, InitLifecycleInv, NextLifecycleInv,
     InitMeaningInv, NextMeaningInv, MeaningOfFreezes, PTL DEF Spec

\* Nothing typed advances an artifact after it was closed (_TRANSITIONS).
THEOREM ClosedTipsStayClosed == Spec => []ClosedTipStaysClosed
<1>1. TypeInv => TypeOK
  BY DEF TypeInv
<1> QED
  BY <1>1, InitTypeInv, NextTypeInv, InitLifecycleInv, NextLifecycleInv,
     InitMeaningInv, NextMeaningInv, MeaningOfClosing, PTL DEF Spec

\* Every typed acceptance rests on the registration of its candidate, on
\* evidence compiled after that and, if a review was assigned, on an attestation
\* after it (_TRANSITIONS, append_v2).
THEOREM AcceptancesRestOnWork == Spec => []AcceptanceIsBacked
<1>1. TypeInv => TypeOK
  BY DEF TypeInv
<1> QED
  BY <1>1, InitTypeInv, NextTypeInv, InitLifecycleInv, NextLifecycleInv,
     InitMeaningInv, NextMeaningInv, MeaningOfAcceptance, PTL DEF Spec

-----------------------------------------------------------------------------
(* The store implements the log *)

LEMMA MeaningOfHistory == TypeOK /\ MeaningInv => ProjectionIsHistory
  BY WholeMeaning DEF Meaning, ProjectsHistory, EventsOf, EventsAsSubmitted, ProjectionIsHistory

\* The projection the reducer folds up is what the history says, whatever
\* interleaving wrote it (_load_reducer_state).
THEOREM ProjectionMeansHistory == Spec => []ProjectionIsHistory
<1>1. TypeInv => TypeOK
  BY DEF TypeInv
<1> QED
  BY <1>1, InitTypeInv, NextTypeInv, InitLifecycleInv, NextLifecycleInv,
     InitMeaningInv, NextMeaningInv, MeaningOfHistory, PTL DEF Spec

\* An event that was inserted is still new when it is committed.
Fresh == \A w \in Writers : conn[w].pc = "inserted" => conn[w].event.id \notin RowIds(rows)

LEMMA InitFresh == Init => Fresh
  BY DEF Init, Fresh, Idle

LEMMA NextFresh == TypeInv /\ Fresh /\ [Next]_vars => Fresh'
<1> SUFFICES ASSUME TypeInv, Fresh, [Next]_vars PROVE Fresh'
  OBVIOUS
<1> USE DEF TypeInv
<1>0. Idle.pc = "idle"
  BY DEF Idle
<1>1. ASSUME NEW w \in Writers, NEW e \in Submissions, Begin(w, e) PROVE Fresh'
  BY <1>1 DEF Begin, Idle, TypeOK, Fresh
<1>2. ASSUME NEW w \in Writers, Rollback(w) PROVE Fresh'
  BY <1>0, <1>2 DEF Rollback, TypeOK, Fresh
<1>3. ASSUME NEW w \in Writers, Validate(w) PROVE Fresh'
  BY <1>3 DEF Validate, TypeOK, Fresh
<1>4. ASSUME NEW w \in Writers, ReadTip(w) PROVE Fresh'
  BY <1>4 DEF ReadTip, TypeOK, Fresh, Conns
<1>5. ASSUME NEW w \in Writers, Insert(w) PROVE Fresh'
  BY <1>5 DEF Insert, TypeOK, Fresh, Conns
<1>6. ASSUME NEW w \in Writers, Commit(w) PROVE Fresh'
  <2>1. \A v \in Writers : conn'[v].pc = "idle"
    BY <1>0, <1>6 DEF Commit, TypeOK, Exclusive
  <2> QED BY <2>1 DEF Fresh
<1>7. ASSUME NEW n \in durable .. Len(rows), Checkpoint(n) PROVE Fresh'
  BY <1>7 DEF Checkpoint, Fresh
<1>8. ASSUME NEW n \in durable .. Len(rows), PowerLoss(n) PROVE Fresh'
  BY <1>0, <1>8 DEF PowerLoss, Fresh
<1>9. CASE UNCHANGED vars
  BY <1>9 DEF vars, Fresh
<1> QED
  BY <1>1, <1>2, <1>3, <1>4, <1>5, <1>6, <1>7, <1>8, <1>9
  DEF Next, RefuseTransition, RefuseDuplicate, Crash

\* The lifecycle the log is judged by is the one of the store.
LEMMA SameLifecycle == \A s, e : History!Accepts(s, e) <=> Accepts(s, e)
BY DEF History!Accepts, Accepts, History!Transitions, Transitions, History!TransitionsOf,
       TransitionsOf, History!Phases, Phases, History!LifecycleTypes, LifecycleTypes,
       History!SideChannelTypes, SideChannelTypes, History!CorrectionAccepted,
       CorrectionAccepted, History!FreezeAccepted, FreezeAccepted,
       History!CandidateAccepted, CandidateAccepted

\* The events of rows are a sequence that grows and shrinks with them.
LEMMA EventsOfRows ==
  ASSUME NEW r \in Seq(Rows), \A i \in DOMAIN r : Submitted(r[i]) \in Events
  PROVE  /\ EventsOf(r) \in Seq(Events) /\ Len(EventsOf(r)) = Len(r)
         /\ \A row \in Rows : Submitted(row) \in Events =>
               EventsOf(Append(r, row)) = Append(EventsOf(r), Submitted(row))
         /\ \A n \in 0 .. Len(r) : EventsOf(SubSeq(r, 1, n)) = SubSeq(EventsOf(r), 1, n)
<1>1. /\ Len(r) \in Nat /\ DOMAIN r = 1 .. Len(r)
      /\ \A i \in 1 .. Len(r) : Submitted(r[i]) \in Events
  BY LenProperties
<1>2. EventsOf(r) \in Seq(Events) /\ Len(EventsOf(r)) = Len(r)
  <2>1. EventsOf(r) \in [1 .. Len(r) -> Events]
    BY <1>1 DEF EventsOf
  <2>2. EventsOf(r) \in Seq(Events)
    BY <1>1, <2>1, SeqDef
  <2>3. DOMAIN EventsOf(r) = 1 .. Len(EventsOf(r)) /\ Len(EventsOf(r)) \in Nat
    BY <2>2, LenProperties
  <2> QED BY <1>1, <2>1, <2>2, <2>3
<1>3. ASSUME NEW row \in Rows, Submitted(row) \in Events
      PROVE  EventsOf(Append(r, row)) = Append(EventsOf(r), Submitted(row))
  <2>2. /\ DOMAIN Append(r, row) = 1 .. Len(r) + 1 /\ Append(r, row)[Len(r) + 1] = row
        /\ \A i \in 1 .. Len(r) : Append(r, row)[i] = r[i]
    BY AppendProperties, LenProperties
  <2>3. /\ DOMAIN Append(EventsOf(r), Submitted(row)) = 1 .. Len(r) + 1
        /\ Append(EventsOf(r), Submitted(row))[Len(r) + 1] = Submitted(row)
        /\ \A i \in 1 .. Len(r) : Append(EventsOf(r), Submitted(row))[i] = EventsOf(r)[i]
        /\ Append(EventsOf(r), Submitted(row)) \in Seq(Events)
    BY <1>2, <1>3, AppendProperties, LenProperties
  <2>4. \A i \in 1 .. Len(r) : EventsOf(r)[i] = Submitted(r[i])
    BY <1>1 DEF EventsOf
  <2>5. \A i \in 1 .. Len(r) + 1 :
           Append(EventsOf(r), Submitted(row))[i] = Submitted(Append(r, row)[i])
    BY <1>1, <2>2, <2>3, <2>4, OneMore
  <2>6. Append(EventsOf(r), Submitted(row)) =
           [i \in 1 .. Len(r) + 1 |-> Append(EventsOf(r), Submitted(row))[i]]
    BY <2>3, LenProperties
  <2> QED BY <2>2, <2>5, <2>6 DEF EventsOf
<1>4. ASSUME NEW n \in 0 .. Len(r) PROVE EventsOf(SubSeq(r, 1, n)) = SubSeq(EventsOf(r), 1, n)
  <2>1. DOMAIN SubSeq(r, 1, n) = 1 .. n /\ \A i \in 1 .. n : SubSeq(r, 1, n)[i] = r[i]
    BY PrefixProperties, LenProperties
  <2>2. /\ SubSeq(EventsOf(r), 1, n) \in Seq(Events) /\ DOMAIN SubSeq(EventsOf(r), 1, n) = 1 .. n
        /\ \A i \in 1 .. n : SubSeq(EventsOf(r), 1, n)[i] = EventsOf(r)[i]
    BY <1>2, PrefixProperties, LenProperties
  <2>3. \A i \in 1 .. n : i \in DOMAIN r
    BY <1>1
  <2>4. \A i \in 1 .. n : SubSeq(EventsOf(r), 1, n)[i] = Submitted(SubSeq(r, 1, n)[i])
    BY <2>1, <2>2, <2>3 DEF EventsOf
  <2>5. SubSeq(EventsOf(r), 1, n) = [i \in 1 .. n |-> SubSeq(EventsOf(r), 1, n)[i]]
    BY <2>2, LenProperties
  <2> QED BY <2>1, <2>4, <2>5 DEF EventsOf
<1> QED BY <1>2, <1>3, <1>4

LEMMA InitImplements == Init => History!Init
<1> SUFFICES ASSUME Init PROVE History!Init
  OBVIOUS
<1>1. rows = <<>> /\ durable = 0
  BY DEF Init
<1> QED BY <1>1 DEF History!Init, EventsAsSubmitted

\* A commit is one legal addition to the log; a checkpoint and a power failure
\* are those of the log; every other step leaves it alone.
LEMMA NextImplements ==
  TypeInv /\ ChainInv /\ LifecycleInv /\ MeaningInv /\ Fresh /\ [Next]_vars =>
      [History!Next]_(History!vars)
<1> SUFFICES ASSUME TypeInv, ChainInv, LifecycleInv, MeaningInv, Fresh, [Next]_vars
             PROVE  [History!Next]_(History!vars)
  OBVIOUS
<1>0. TypeOK /\ ChainIntact /\ rows \in Seq(Rows)
  BY DEF TypeInv, TypeOK, ChainInv
<1>00. /\ \A i \in DOMAIN rows : /\ Submitted(rows[i]) \in Events
                               /\ Submitted(rows[i]).id = rows[i].event.id
       /\ EventsAsSubmitted = EventsOf(rows)
  BY <1>0, RowsAreSubmitted, StoredType DEF EventsAsSubmitted, EventsOf
<1>1. CASE UNCHANGED <<rows, durable>>
  BY <1>1 DEF History!vars, EventsAsSubmitted
<1>2. ASSUME NEW w \in Writers, Commit(w) PROVE History!Next
  <2> DEFINE row == [event         |-> StoredAs(conn[w].event),
                     previous_hash |-> conn[w].previous,
                     event_hash    |-> Hash(conn[w].event, conn[w].previous)]
  <2>0. conn[w].event \in Submissions /\ conn[w].previous \in Hashes
    BY <1>2 DEF Commit, TypeInv, TypeOK, Exclusive, Conns
  <2> PICK e \in Submissions : e = conn[w].event
    BY <2>0
  <2>1. e \in Events
    BY StoreAssumptions
  <2>2. row \in Rows /\ Submitted(row) = e
    BY <2>0, <2>1, AppendProperties, StoredType, LastOfHash DEF Rows, Hash, Hashes, Submitted
  <2>3. rows' = Append(rows, row) /\ durable' = durable
    BY <1>2 DEF Commit
  <2>4. e.schema = "v2" => Accepts(ReducerState, e)
    BY <1>2 DEF Commit, LifecycleInv, Judged
  <2>5. e.id \notin RowIds(rows)
    BY <1>2 DEF Commit, Fresh
  <2> HIDE DEF row
  <2>6. EventsOf(rows)' = Append(EventsOf(rows), e)
    <3>1. EventsOf(rows)' = EventsOf(rows')
      BY DEF EventsOf
    <3> QED BY <1>0, <1>00, <2>1, <2>2, <2>3, <3>1, EventsOfRows
  <2>7. History!Legal(EventsOf(rows), e)
    <3>1. ReducerState = History!Projection(EventsOf(rows))
      BY <1>0, WholeMeaning DEF Meaning, ProjectsHistory
    <3>2. e.id \notin History!Ids(EventsOf(rows))
      BY <1>00, <2>5 DEF History!Ids, EventsOf, RowIds
    <3> QED BY <2>4, <3>1, <3>2, SameLifecycle DEF History!Legal
  <2>8. History!Add(e)
    BY <2>3, <2>6, <2>7 DEF History!Add, EventsOf, EventsAsSubmitted
  <2> QED BY <2>8 DEF History!Next
<1>3. ASSUME NEW n \in durable .. Len(rows), Checkpoint(n) PROVE History!Next
  <2>1. n \in durable .. Len(EventsOf(rows))
    BY <1>0, <1>00, EventsOfRows
  <2>2. History!Sync(n)
    BY <1>3 DEF Checkpoint, History!Sync, EventsAsSubmitted
  <2> QED BY <2>1, <2>2 DEF History!Next, EventsOf, EventsAsSubmitted
<1>4. ASSUME NEW n \in durable .. Len(rows), PowerLoss(n) PROVE History!Next
  <2>1. n \in durable .. Len(EventsOf(rows)) /\ n \in 0 .. Len(rows)
    BY <1>0, <1>00, EventsOfRows, LenProperties DEF TypeOK
  <2>2. rows' = SubSeq(rows, 1, n) /\ durable' = durable
    BY <1>4 DEF PowerLoss
  <2>3. EventsOf(rows)' = SubSeq(EventsOf(rows), 1, n)
    <3>1. EventsOf(rows)' = EventsOf(rows')
      BY DEF EventsOf
    <3> QED BY <1>0, <1>00, <2>1, <2>2, <3>1, EventsOfRows
  <2>4. History!Lose(n)
    BY <2>2, <2>3 DEF History!Lose, EventsOf, EventsAsSubmitted
  <2> QED BY <2>1, <2>4 DEF History!Next, EventsOf, EventsAsSubmitted
<1> QED
  BY <1>1, <1>2, <1>3, <1>4
  DEF Next, Begin, Validate, RefuseTransition, Rollback, ReadTip, Insert,
      RefuseDuplicate, Crash, vars

\* The concurrent store implements the atomic log of module EventLog: the steps
\* of an append come down to one legal addition, or to nothing (append,
\* append_v2 between BEGIN IMMEDIATE and COMMIT).
THEOREM StoreImplementsLog == Spec => ImplementsEventLog
<1> QED
  BY InitTypeInv, NextTypeInv, InitChainInv, NextChainInv, InitLifecycleInv, NextLifecycleInv, InitMeaningInv,
     NextMeaningInv, InitFresh, NextFresh, InitImplements, NextImplements, PTL
  DEF Spec, ImplementsEventLog, History!Spec

=============================================================================
