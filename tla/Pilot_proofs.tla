----------------------------- MODULE Pilot_proofs -----------------------------
(***************************************************************************)
(* Theorems about Pilot, for any files, versions, rosters and assignments, *)
(* and any number of edits.                                                *)
(***************************************************************************)
EXTENDS Pilot, SequenceTheorems, FiniteSetTheorems, WellFoundedInduction, TLAPS

-----------------------------------------------------------------------------
(* Types *)

\* The digest of a bundle is that of a protocol.
LEMMA HashType ==
  ASSUME TypeOK
  PROVE  ProtocolHash \in Protocols
BY DEF TypeOK, ProtocolHash, Protocols

\* Every step keeps the type of every variable.
LEMMA TypeStep ==
  ASSUME TypeOK, [Next]_vars
  PROVE  TypeOK'
<1> USE PilotAssumptions
<1>1. ASSUME NEW f \in Edited, NEW v \in Versions, Edit(f, v) PROVE TypeOK'
  BY <1>1 DEF Edit, TypeOK, Protocols
<1>2. CASE Link
  BY <1>2 DEF Link, TypeOK, Linked, Files, Protocols
<1>3. CASE Freeze
  BY <1>3, HashType DEF Freeze, TypeOK
<1>4. ASSUME NEW list \in EpisodeLists, NEW seed \in Seeds, MakePlan(list, seed) PROVE TypeOK'
  BY <1>4 DEF MakePlan, TypeOK
<1>5. CASE Record
  <2>1. ledger \in Nat /\ ledger' = ledger + 1 /\ seal' = seal
    BY <1>5 DEF Record, TypeOK
  <2>2. 0 .. ledger \subseteq 0 .. ledger'
    BY <2>1
  <2>3. seal' = None \/ seal' \in [events : 0 .. ledger', colocated : BOOLEAN]
    BY <2>1, <2>2 DEF TypeOK
  <2> QED BY <1>5, <2>1, <2>3 DEF Record, TypeOK
<1>6. ASSUME NEW colocated \in BOOLEAN, Seal(colocated) PROVE TypeOK'
  BY <1>6 DEF Seal, TypeOK
<1>7. ASSUME NEW p, NEW image, NEW claims \in Claims, Lock(p, image, claims) PROVE TypeOK'
  BY <1>7 DEF Lock, TypeOK
<1>8. CASE UNCHANGED vars
  BY <1>8 DEF vars, TypeOK
<1> QED BY <1>1, <1>2, <1>3, <1>4, <1>5, <1>6, <1>7, <1>8 DEF Next

\* The files and digests, the protocol, the ledger and the seal are what their
\* types say: the seal covers events there are.
THEOREM PilotTypeCorrect == Spec => []TypeOK
<1>1. Init => TypeOK
  BY PilotAssumptions DEF Init, TypeOK, Files, Linked
<1> QED BY <1>1, TypeStep, PTL DEF Spec

-----------------------------------------------------------------------------
(* One study *)

\* A plan is made under the freeze there is, which no later command replaces.
PlanIsOfFreeze == plan # None => frozen # None /\ plan.protocol = frozen

StudyInv == TypeOK /\ PlanIsOfFreeze /\ LockIsOfOneStudy /\ (lock # None => frozen # None)

\* A freeze that is there stays: Freeze is for a bundle without one.
LEMMA FreezeStays ==
  ASSUME TypeOK, [Next]_vars, frozen # None
  PROVE  frozen' = frozen
BY DEF Next, vars, Edit, Link, Freeze, MakePlan, Record, Seal, Lock

\* A step that leaves plan, lock and an existing freeze alone keeps the invariant.
LEMMA StudyKept ==
  ASSUME StudyInv, TypeOK', plan' = plan, lock' = lock, frozen # None => frozen' = frozen
  PROVE  StudyInv'
BY DEF StudyInv, PlanIsOfFreeze, LockIsOfOneStudy

\* No command separates a lock or a plan from the protocol it was made under.
LEMMA StudyStep ==
  ASSUME StudyInv, [Next]_vars
  PROVE  StudyInv'
<1>1. TypeOK' /\ (frozen # None => frozen' = frozen)
  BY TypeStep, FreezeStays DEF StudyInv
<1>2. ASSUME NEW f \in Edited, NEW v \in Versions, Edit(f, v) PROVE StudyInv'
  BY <1>1, <1>2, StudyKept DEF Edit
<1>3. CASE Link \/ Freeze \/ Record
  BY <1>1, <1>3, StudyKept DEF Link, Freeze, Record
<1>4. ASSUME NEW list \in EpisodeLists, NEW seed \in Seeds, MakePlan(list, seed)
      PROVE  StudyInv'
  <2>1. frozen = ProtocolHash /\ frozen' = frozen /\ lock' = lock /\ frozen # None
    BY <1>4, HashType, PilotAssumptions DEF MakePlan, VerifiedFreeze, StudyInv
  <2>2. plan'.protocol = frozen'
    BY <1>4, <2>1 DEF MakePlan
  <2> QED BY <1>1, <2>1, <2>2 DEF StudyInv, PlanIsOfFreeze, LockIsOfOneStudy
<1>5. ASSUME NEW colocated \in BOOLEAN, Seal(colocated) PROVE StudyInv'
  BY <1>1, <1>5, StudyKept DEF Seal
<1>6. ASSUME NEW p \in PlanFiles, NEW image, NEW claims \in Claims, Lock(p, image, claims)
      PROVE  StudyInv'
  <2>1. /\ frozen = ProtocolHash /\ ImageAccepted(image)
        /\ frozen' = frozen /\ plan' = plan
        /\ lock' = [protocol |-> frozen, held_out |-> files["held-out-set"],
                    plan |-> p, events |-> seal.events, image |-> image]
    BY <1>6 DEF Lock, VerifiedFreeze
  <2>2. frozen # None /\ frozen.files = files
    BY <2>1, HashType, PilotAssumptions DEF StudyInv, ProtocolHash
  <2>3. lock'.protocol = frozen' /\ (lock'.plan \notin OtherPlans => lock'.plan.protocol = frozen')
    BY <2>1 DEF PlanFiles, StudyInv, PlanIsOfFreeze
  <2>4. lock'.held_out = frozen'.files["held-out-set"]
    BY <2>1, <2>2
  <2>5. Images[frozen'.files["analysis"]] \in {None, lock'.image}
    BY <2>1, <2>2 DEF ImageAccepted
  <2>6. LockIsOfOneStudy' /\ (lock' # None => frozen' # None)
    BY <2>1, <2>2, <2>3, <2>4, <2>5 DEF LockIsOfOneStudy
  <2> QED BY <1>1, <2>1, <2>6 DEF StudyInv, PlanIsOfFreeze
<1>7. CASE UNCHANGED vars
  BY <1>1, <1>7, StudyKept DEF vars
<1> QED BY <1>2, <1>3, <1>4, <1>5, <1>6, <1>7 DEF Next

\* A data lock is of one study: its protocol is the frozen one, its held-out set
\* and image are that protocol's, and so is its plan if this bundle's assignment
\* wrote it, however the bundle is edited between the commands.
THEOREM LockIsAlwaysOfOneStudy == Spec => []LockIsOfOneStudy
<1>1. Init => StudyInv
  <2> SUFFICES ASSUME Init PROVE StudyInv
    OBVIOUS
  <2>1. TypeOK
    BY PilotAssumptions DEF Init, TypeOK, Files, Linked
  <2> QED BY <2>1 DEF Init, StudyInv, PlanIsOfFreeze, LockIsOfOneStudy
<1>2. StudyInv => LockIsOfOneStudy
  BY DEF StudyInv
<1> QED BY <1>1, <1>2, StudyStep, PTL DEF Spec

-----------------------------------------------------------------------------
(* Numbers *)

\* Some natural numbers have a least one.
LEMMA LeastNumber ==
  ASSUME NEW S \in SUBSET Nat, S # {}
  PROVE  Min(S) \in S /\ \A j \in S : Min(S) <= j
<1> DEFINE Until(i) == {j \in S : j <= i}
           heads == {Until(i) : i \in S}
<1>1. heads \subseteq FiniteSubsetsOf(S) /\ heads # {}
  <2>1. ASSUME NEW i \in S PROVE Until(i) \in SUBSET S /\ IsFiniteSet(Until(i))
    <3>1. IsFiniteSet(0 .. i)
      BY FS_Interval
    <3>2. Until(i) \subseteq 0 .. i
      <4>1. \A j \in S : j \in Nat /\ i \in Nat
        OBVIOUS
      <4>2. \A j \in S : j <= i => j \in 0 .. i
        BY <4>1
      <4> QED BY <4>2
    <3> QED BY <3>1, <3>2, FS_Subset
  <2> QED BY <2>1 DEF FiniteSubsetsOf
<1>2. PICK least \in heads : \A other \in heads : ~(<<other, least>> \in StrictSubsetOrdering(S))
  <2>1. IsWellFoundedOn(StrictSubsetOrdering(S), FiniteSubsetsOf(S))
    BY FS_StrictSubsetOrderingWellFounded
  <2> HIDE DEF heads
  <2> QED BY <1>1, <2>1, WFMin, Zenon
<1>3. PICK i \in S : least = Until(i)
  BY <1>2
<1>4. ASSUME NEW j \in S, j < i PROVE FALSE
  <2>1. \A k \in S : k \in Nat /\ i \in Nat /\ j \in Nat
    OBVIOUS
  <2>2. Until(j) \subseteq Until(i)
    <3>1. \A k \in S : k <= j => k <= i
      BY <1>4, <2>1
    <3> QED BY <3>1
  <2>3. i \in Until(i) /\ i \notin Until(j)
    BY <1>4, <2>1
  <2>4. <<Until(j), Until(i)>> \in StrictSubsetOrdering(S)
    BY <2>2, <2>3 DEF StrictSubsetOrdering
  <2> QED BY <1>2, <1>3, <2>4
<1>5. \A j \in S : i <= j
  BY <1>4
<1> QED BY <1>5 DEF Min

\* What holds at 0 and passes on from each number to the next holds up to n.
LEMMA Ascending ==
  ASSUME NEW n \in Nat, NEW T, 0 \in T, \A k \in 0 .. n : k \in T /\ k < n => k + 1 \in T
  PROVE  \A k \in 0 .. n : k \in T
<1> DEFINE U == {k \in 0 .. n : k \notin T}
<1>1. SUFFICES ASSUME U # {} PROVE FALSE
  OBVIOUS
<1>2. PICK k \in U : \A j \in U : k <= j
  <2>1. U \in SUBSET Nat
    OBVIOUS
  <2> HIDE DEF U
  <2> QED BY <1>1, <2>1, LeastNumber
<1>3. k \in 0 .. n /\ k # 0 /\ k \notin T
  BY <1>2
<1>4. k - 1 \in 0 .. n /\ k - 1 < n /\ k - 1 + 1 = k /\ ~(k <= k - 1)
  BY <1>3
<1>5. k - 1 \in T
  BY <1>2, <1>4
<1> QED BY <1>3, <1>4, <1>5

-----------------------------------------------------------------------------
(* Sorting *)

\* The keys are in a strict total order.
IsOrder(key) ==
    /\ IsFiniteSet(DOMAIN key)
    /\ \A i \in DOMAIN key : ~Precedes(key[i], key[i])
    /\ \A i, j, k \in DOMAIN key :
          Precedes(key[i], key[j]) /\ Precedes(key[j], key[k]) => Precedes(key[i], key[k])
    /\ \A i, j \in DOMAIN key : i # j => Precedes(key[i], key[j]) \/ Precedes(key[j], key[i])

\* Sorted by their keys, every place has a turn and only one.
LEMMA InOrderSorts ==
  ASSUME NEW key, IsOrder(key)
  PROVE  /\ Len(InOrder(key)) = Cardinality(DOMAIN key) /\ Len(InOrder(key)) \in Nat
         /\ \A n \in 1 .. Len(InOrder(key)) : InOrder(key)[n] \in DOMAIN key
         /\ \A m, n \in 1 .. Len(InOrder(key)) : InOrder(key)[m] = InOrder(key)[n] => m = n
<1> DEFINE D == DOMAIN key
           c == Cardinality(D)
           Behind(i) == {j \in D : Precedes(key[j], key[i])}
           rank == [i \in D |-> Cardinality(Behind(i)) + 1]
           sorted == InOrder(key)
<1>1. IsFiniteSet(D) /\ c \in Nat
  BY FS_CardinalityType DEF IsOrder
<1>2. \A i \in D : /\ IsFiniteSet(Behind(i)) /\ Cardinality(Behind(i)) \in Nat
                   /\ Cardinality(Behind(i)) < c
  <2> TAKE i \in D
  <2>1. Behind(i) \in SUBSET D /\ i \notin Behind(i)
    BY DEF IsOrder
  <2>2. IsFiniteSet(Behind(i)) /\ Cardinality(Behind(i)) <= c /\ (c = Cardinality(Behind(i)) => D = Behind(i))
    BY <1>1, <2>1, FS_Subset
  <2>3. Cardinality(Behind(i)) \in Nat
    BY <2>2, FS_CardinalityType
  <2> HIDE DEF Behind
  <2> QED BY <1>1, <2>1, <2>2, <2>3
<1>3. ASSUME NEW i \in D, NEW j \in D, Precedes(key[i], key[j])
      PROVE  Cardinality(Behind(i)) # Cardinality(Behind(j))
  <2>1. Behind(i) \in SUBSET Behind(j) /\ i \in Behind(j) /\ i \notin Behind(i)
    BY <1>3 DEF IsOrder
  <2>2. Cardinality(Behind(j)) = Cardinality(Behind(i)) => Behind(j) = Behind(i)
    <3> HIDE DEF Behind
    <3> QED BY <1>2, <2>1, FS_Subset
  <2> QED BY <2>1, <2>2
<1>4. \A i, j \in D : rank[i] = rank[j] => i = j
  <2> TAKE i, j \in D
  <2>1. rank[i] = rank[j] => Cardinality(Behind(i)) = Cardinality(Behind(j))
    <3> HIDE DEF Behind
    <3> QED BY <1>2
  <2>2. i # j => Precedes(key[i], key[j]) \/ Precedes(key[j], key[i])
    BY DEF IsOrder
  <2> HIDE DEF rank, Behind
  <2> QED BY <1>3, <2>1, <2>2
<1>5. rank \in [D -> 1 .. c]
  <2> HIDE DEF Behind
  <2> QED BY <1>1, <1>2
<1>6. \A n \in 1 .. c : \E i \in D : rank[i] = n
  <2>1. rank \in Injection(D, 1 .. c)
    <3> HIDE DEF rank
    <3> QED BY <1>4, <1>5 DEF Injection, IsInjective
  <2>2. IsFiniteSet(1 .. c) /\ Cardinality(1 .. c) = c
    BY <1>1, FS_Interval
  <2>3. rank \in Surjection(D, 1 .. c)
    <3> HIDE DEF rank
    <3> QED BY <2>1, <2>2, FS_Injection
  <2> HIDE DEF rank
  <2> QED BY <2>3 DEF Surjection
<1>7. sorted = [n \in 1 .. c |-> CHOOSE i \in D : Cardinality(Behind(i)) = n - 1]
  BY DEF InOrder
<1>8. \A n \in 1 .. c : sorted[n] \in D /\ Cardinality(Behind(sorted[n])) = n - 1
  <2> TAKE n \in 1 .. c
  <2>1. PICK i \in D : rank[i] = n
    BY <1>6
  <2>2. Cardinality(Behind(i)) = n - 1
    <3> HIDE DEF Behind
    <3> QED BY <1>2, <2>1
  <2> HIDE DEF sorted, Behind, rank
  <2> QED BY <1>7, <2>2
<1>9. Len(sorted) = c
  <2> HIDE DEF sorted, Behind
  <2> QED BY <1>1, <1>7
<1> HIDE DEF sorted, Behind, rank
<1> QED BY <1>1, <1>8, <1>9 DEF sorted

\* A pair is before another by its first number, then by its second.
LEMMA PairPrecedes ==
  ASSUME NEW a, NEW b, NEW c, NEW d
  PROVE  Precedes(<<a, b>>, <<c, d>>) <=> a < c \/ (a = c /\ b < d)
<1> DEFINE k == <<a, b>>
           l == <<c, d>>
<1>1. DOMAIN k = {1, 2} /\ k[1] = a /\ k[2] = b /\ l[1] = c /\ l[2] = d
  OBVIOUS
<1>2. 1 .. 1 - 1 = {} /\ 1 .. 2 - 1 = {1}
  OBVIOUS
<1> HIDE DEF k, l
<1>3. Precedes(k, l) <=> \/ k[1] < l[1] /\ \A m \in {} : k[m] = l[m]
                         \/ k[2] < l[2] /\ \A m \in {1} : k[m] = l[m]
  BY <1>1, <1>2 DEF Precedes
<1> QED BY <1>1, <1>3 DEF k, l

LEMMA TriplePrecedes ==
  ASSUME NEW a, NEW b, NEW i, NEW c, NEW d, NEW j
  PROVE  Precedes(<<a, b, i>>, <<c, d, j>>) <=>
            a < c \/ (a = c /\ b < d) \/ (a = c /\ b = d /\ i < j)
<1> DEFINE k == <<a, b, i>>
           l == <<c, d, j>>
<1>1. DOMAIN k = {1, 2, 3} /\ k[1] = a /\ k[2] = b /\ k[3] = i /\ l[1] = c /\ l[2] = d /\ l[3] = j
  OBVIOUS
<1>2. 1 .. 1 - 1 = {} /\ 1 .. 2 - 1 = {1} /\ 1 .. 3 - 1 = {1, 2}
  OBVIOUS
<1> HIDE DEF k, l
<1>3. Precedes(k, l) <=> \/ k[1] < l[1] /\ \A m \in {} : k[m] = l[m]
                         \/ k[2] < l[2] /\ \A m \in {1} : k[m] = l[m]
                         \/ k[3] < l[3] /\ \A m \in {1, 2} : k[m] = l[m]
  BY <1>1, <1>2 DEF Precedes
<1> QED BY <1>1, <1>3 DEF k, l

LEMMA TriplesChain ==
  ASSUME NEW a \in Nat, NEW b \in Nat, NEW i \in Nat, NEW c \in Nat, NEW d \in Nat, NEW j \in Nat,
         NEW e \in Nat, NEW f \in Nat, NEW k \in Nat,
         a < c \/ (a = c /\ b < d) \/ (a = c /\ b = d /\ i < j),
         c < e \/ (c = e /\ d < f) \/ (c = e /\ d = f /\ j < k)
  PROVE  a < e \/ (a = e /\ b < f) \/ (a = e /\ b = f /\ i < k)
OBVIOUS

\* The places taken up one after another: valid ones, each once.
Visits(places, list, repairs) ==
    /\ Len(places) \in Nat
    /\ \A n \in 1 .. Len(places) : /\ places[n] \in DOMAIN list
                                   /\ list[places[n]].is_repair = repairs
    /\ \A m, n \in 1 .. Len(places) : places[m] = places[n] => m = n

\* The originals are taken up stratum by stratum, each once.
LEMMA OrderedVisits ==
  ASSUME NEW list \in Seq(Episodes), NEW seed,
         \A i \in DOMAIN list : seed.order[list[i].candidate] \in Nat
  PROVE  Visits(Ordered(list, seed), list, FALSE)
<1> DEFINE D == {j \in DOMAIN list : ~list[j].is_repair}
           key == [i \in D |-> <<list[i].stratum, seed.order[list[i].candidate], i>>]
<1>1. /\ DOMAIN list = 1 .. Len(list) /\ Len(list) \in Nat
      /\ \A i \in DOMAIN list : list[i] \in Episodes
  BY LenProperties
<1>2. \A i \in D : i \in Nat /\ list[i].stratum \in Nat /\ seed.order[list[i].candidate] \in Nat
  BY <1>1 DEF Episodes
<1>3. DOMAIN key = D /\ IsFiniteSet(D)
  <2>1. IsFiniteSet(1 .. Len(list)) /\ D \in SUBSET (1 .. Len(list))
    BY <1>1, FS_Interval
  <2> HIDE DEF D
  <2> QED BY <2>1, FS_Subset
<1>4. \A i, j \in D : Precedes(key[i], key[j]) <=>
         \/ list[i].stratum < list[j].stratum
         \/ list[i].stratum = list[j].stratum
            /\ seed.order[list[i].candidate] < seed.order[list[j].candidate]
         \/ list[i].stratum = list[j].stratum
            /\ seed.order[list[i].candidate] = seed.order[list[j].candidate] /\ i < j
  BY TriplePrecedes
<1>5. IsOrder(key)
  <2>1. \A i \in D : ~Precedes(key[i], key[i])
    <3> HIDE DEF key, D
    <3> QED BY <1>2, <1>4
  <2>2. \A i, j, k \in D :
           Precedes(key[i], key[j]) /\ Precedes(key[j], key[k]) => Precedes(key[i], key[k])
    <3> TAKE i, j, k \in D
    <3> HIDE DEF key, D
    <3>1. /\ i \in Nat /\ j \in Nat /\ k \in Nat
          /\ list[i].stratum \in Nat /\ list[j].stratum \in Nat /\ list[k].stratum \in Nat
      BY <1>2
    <3>2. /\ seed.order[list[i].candidate] \in Nat /\ seed.order[list[j].candidate] \in Nat
          /\ seed.order[list[k].candidate] \in Nat
      BY <1>2
    <3> DEFINE Before(x, a, y, b, m, n) == x < y \/ (x = y /\ a < b) \/ (x = y /\ a = b /\ m < n)
               Ahead(m, n) == Before(list[m].stratum, seed.order[list[m].candidate],
                                     list[n].stratum, seed.order[list[n].candidate], m, n)
    <3>3. /\ Precedes(key[i], key[j]) <=> Ahead(i, j)
          /\ Precedes(key[j], key[k]) <=> Ahead(j, k)
          /\ Precedes(key[i], key[k]) <=> Ahead(i, k)
      BY <1>4
    <3>4. Ahead(i, j) /\ Ahead(j, k) => Ahead(i, k)
      BY <3>1, <3>2, TriplesChain
    <3> HIDE DEF Ahead
    <3> QED BY <3>3, <3>4
  <2>3. \A i, j \in D : i # j => Precedes(key[i], key[j]) \/ Precedes(key[j], key[i])
    <3> HIDE DEF key, D
    <3> QED BY <1>2, <1>4
  <2> HIDE DEF key, D
  <2> QED BY <1>3, <2>1, <2>2, <2>3 DEF IsOrder
<1>6. Ordered(list, seed) = InOrder(key)
  BY DEF Ordered
<1>7. \A i \in D : i \in DOMAIN list /\ list[i].is_repair = FALSE
  BY <1>1 DEF Episodes
<1> HIDE DEF key, D
<1> QED BY <1>3, <1>5, <1>6, <1>7, InOrderSorts DEF Visits

\* The repairs are taken up by their names, each once.
LEMMA RepairOrderVisits ==
  ASSUME NEW list \in Seq(Episodes)
  PROVE  Visits(RepairOrder(list), list, TRUE)
<1> DEFINE D == {j \in DOMAIN list : list[j].is_repair}
           key == [i \in D |-> <<list[i].candidate, i>>]
<1>1. /\ DOMAIN list = 1 .. Len(list) /\ Len(list) \in Nat
      /\ \A i \in DOMAIN list : list[i] \in Episodes
  BY LenProperties
<1>2. \A i \in D : i \in Nat /\ list[i].candidate \in Nat
  BY <1>1 DEF Episodes
<1>3. DOMAIN key = D /\ IsFiniteSet(D)
  <2>1. IsFiniteSet(1 .. Len(list)) /\ D \in SUBSET (1 .. Len(list))
    BY <1>1, FS_Interval
  <2> HIDE DEF D
  <2> QED BY <2>1, FS_Subset
<1>4. \A i, j \in D : Precedes(key[i], key[j]) <=>
         \/ list[i].candidate < list[j].candidate
         \/ list[i].candidate = list[j].candidate /\ i < j
  BY PairPrecedes
<1>5. IsOrder(key)
  <2>1. \A i \in D : ~Precedes(key[i], key[i])
    <3> HIDE DEF key, D
    <3> QED BY <1>2, <1>4
  <2>2. \A i, j, k \in D :
           Precedes(key[i], key[j]) /\ Precedes(key[j], key[k]) => Precedes(key[i], key[k])
    <3> HIDE DEF key, D
    <3> QED BY <1>2, <1>4
  <2>3. \A i, j \in D : i # j => Precedes(key[i], key[j]) \/ Precedes(key[j], key[i])
    <3> HIDE DEF key, D
    <3> QED BY <1>2, <1>4
  <2> HIDE DEF key, D
  <2> QED BY <1>3, <2>1, <2>2, <2>3 DEF IsOrder
<1>6. RepairOrder(list) = InOrder(key)
  BY DEF RepairOrder
<1>7. \A i \in D : i \in DOMAIN list /\ list[i].is_repair = TRUE
  BY <1>1 DEF Episodes
<1> HIDE DEF key, D
<1> QED BY <1>3, <1>5, <1>6, <1>7, InOrderSorts DEF Visits

-----------------------------------------------------------------------------
(* One more row *)

Rows(eligible, tags) == [episode : Episodes, tag : tags, reviewer : eligible]

Accs(eligible, tags) == [rows : Seq(Rows(eligible, tags)), workload : [eligible -> Nat]]

\* The rows of the originals a repair e is to be compared with.
Priors(rows, e) ==
    {j \in DOMAIN rows : ~rows[j].episode.is_repair /\ rows[j].episode.candidate = e.root}

\* Who is chosen is in the pool, and where the work is balanced nobody in it has less.
LEMMA ChosenIsLeast ==
  ASSUME NEW pool \in SUBSET Nat, pool # {}, NEW workload, NEW config \in Switches,
         \A r \in pool : workload[r] \in Nat
  PROVE  /\ Chosen(pool, workload, config) \in pool
         /\ config.workload_balance =>
               \A r \in pool : workload[Chosen(pool, workload, config)] <= workload[r]
<1> DEFINE loads == {workload[r] : r \in pool}
           first == {r \in pool : workload[r] = Min(loads)}
<1>1. loads \in SUBSET Nat /\ loads # {}
  OBVIOUS
<1>2. Min(loads) \in loads /\ \A l \in loads : Min(loads) <= l
  <2> HIDE DEF loads
  <2> QED BY <1>1, LeastNumber
<1>3. first \in SUBSET Nat /\ first # {}
  BY <1>2
<1>4. Min(first) \in first
  <2> HIDE DEF first
  <2> QED BY <1>3, LeastNumber
<1>5. Min(pool) \in pool
  BY LeastNumber
<1>6. Min(first) \in pool /\ \A r \in pool : workload[Min(first)] <= workload[r]
  BY <1>2, <1>4
<1>7. Chosen(pool, workload, config) = IF config.workload_balance THEN Min(first) ELSE Min(pool)
  BY DEF Chosen
<1> HIDE DEF first, loads
<1> QED BY <1>5, <1>6, <1>7

\* next has the row of episode e with reviewer p on top of acc.
Adds(next, acc, e, tag, p) ==
    /\ next.rows = Append(acc.rows, [episode |-> e, tag |-> tag, reviewer |-> p])
    /\ next.workload = [acc.workload EXCEPT ![p] = @ + 1]

\* Reviewer p is one of the allowed, and has least work where it is balanced.
Suits(p, allowed, workload, config) ==
    /\ p \in allowed
    /\ config.workload_balance => \A r \in allowed : workload[p] <= workload[r]

\* An assignment is one more row, of a reviewer who may have it.
LEMMA AssignAdds ==
  ASSUME NEW eligible \in SUBSET Nat, NEW tags, NEW acc \in Accs(eligible, tags),
         NEW e \in Episodes, NEW pool \in SUBSET eligible, NEW tag \in tags,
         NEW config \in Switches,
         NEW next, next = Assign(acc, e, pool, tag, config), next # None
  PROVE  /\ next \in Accs(eligible, tags)
         /\ \E p \in eligible : /\ Suits(p, Allowed(pool, e, config), acc.workload, config)
                               /\ Adds(next, acc, e, tag, p)
<1> DEFINE allowed == Allowed(pool, e, config)
           p == Chosen(allowed, acc.workload, config)
           row == [episode |-> e, tag |-> tag, reviewer |-> p]
<1>1. acc.rows \in Seq(Rows(eligible, tags)) /\ acc.workload \in [eligible -> Nat]
  BY DEF Accs
<1>2. allowed \in SUBSET eligible
  BY DEF Allowed
<1>3. acc # None /\ allowed # {}
  BY DEF Assign
<1>4. next = [rows |-> Append(acc.rows, row), workload |-> [acc.workload EXCEPT ![p] = @ + 1]]
  BY <1>3 DEF Assign
<1>5. /\ p \in allowed
      /\ config.workload_balance => \A r \in allowed : acc.workload[p] <= acc.workload[r]
  <2> HIDE DEF allowed
  <2> QED BY <1>1, <1>2, <1>3, ChosenIsLeast
<1>6. row \in Rows(eligible, tags)
  BY <1>2, <1>5 DEF Rows
<1>7. Append(acc.rows, row) \in Seq(Rows(eligible, tags))
  <2> HIDE DEF row
  <2> QED BY <1>1, <1>6
<1>8. [acc.workload EXCEPT ![p] = @ + 1] \in [eligible -> Nat]
  BY <1>1, <1>2, <1>5
<1>9. next \in Accs(eligible, tags)
  <2> HIDE DEF p, row
  <2> QED BY <1>4, <1>7, <1>8 DEF Accs
<1>10. Suits(p, allowed, acc.workload, config)
  <2> HIDE DEF p, allowed
  <2> QED BY <1>5 DEF Suits
<1>11. Adds(next, acc, e, tag, p)
  <2> HIDE DEF p
  <2> QED BY <1>4 DEF Adds
<1>12. p \in eligible
  BY <1>2, <1>5
<1> HIDE DEF p
<1> QED BY <1>9, <1>10, <1>11, <1>12

\* The workload counts the rows, nobody has an episode to be kept from them, and
\* the work is shared.
Good(acc, eligible, config) ==
    /\ \A r \in eligible : acc.workload[r] = Cardinality(RowsOf(acc.rows, r))
    /\ IsBlind(acc.rows, config)
    /\ config.workload_balance => IsShared(acc.rows, config, eligible)

\* A row may follow: it is a repair's, or there are none of a repair yet.
Follows(rows, row) ==
    row.episode.is_repair \/ \A i \in DOMAIN rows : ~rows[i].episode.is_repair

\* What a row changes: nothing is a later original of an earlier row.
LEMMA RowsGrow ==
  ASSUME NEW eligible, NEW tags, NEW rows \in Seq(Rows(eligible, tags)),
         NEW row \in Rows(eligible, tags), Follows(rows, row)
  PROVE  LET after == Append(rows, row)
             n     == Len(rows) + 1
         IN  /\ n \in Nat /\ n \notin DOMAIN rows
             /\ DOMAIN rows = 1 .. Len(rows) /\ Len(after) = n
             /\ DOMAIN after = DOMAIN rows \cup {n}
             /\ \A i \in DOMAIN rows : after[i] = rows[i]
             /\ after[n] = row
             /\ \A i \in DOMAIN rows : OriginalsOf(after, i) = OriginalsOf(rows, i)
             /\ OriginalsOf(after, n) =
                   IF row.episode.is_repair THEN Priors(rows, row.episode) ELSE {}
             /\ \A r : RowsOf(after, r) =
                          IF r = row.reviewer THEN RowsOf(rows, r) \cup {n} ELSE RowsOf(rows, r)
             /\ \A r : IsFiniteSet(RowsOf(rows, r)) /\ n \notin RowsOf(rows, r)
<1> DEFINE after == Append(rows, row)
           n     == Len(rows) + 1
<1>1. Len(rows) \in Nat /\ DOMAIN rows = 1 .. Len(rows)
  BY LenProperties
<1>2. n \in Nat /\ n \notin DOMAIN rows /\ 1 .. n = DOMAIN rows \cup {n}
  BY <1>1
<1>3. after \in Seq(Rows(eligible, tags)) /\ Len(after) = n
  OBVIOUS
<1>4. DOMAIN after = DOMAIN rows \cup {n}
  <2> HIDE DEF after, n
  <2> QED BY <1>2, <1>3, LenProperties
<1>5. after[n] = row /\ \A i \in DOMAIN rows : after[i] = rows[i]
  BY <1>1
<1> HIDE DEF after
<1>6. \A i \in DOMAIN rows : OriginalsOf(after, i) = OriginalsOf(rows, i)
  <2> TAKE i \in DOMAIN rows
  <2>1. rows[i].episode.is_repair => row.episode.is_repair
    BY DEF Follows
  <2> HIDE DEF n
  <2> QED BY <1>2, <1>4, <1>5, <2>1 DEF OriginalsOf
<1>7. OriginalsOf(after, n) = IF row.episode.is_repair THEN Priors(rows, row.episode) ELSE {}
  <2> HIDE DEF n
  <2> QED BY <1>2, <1>4, <1>5 DEF OriginalsOf, Priors
<1>8. \A r : RowsOf(after, r) =
                IF r = row.reviewer THEN RowsOf(rows, r) \cup {n} ELSE RowsOf(rows, r)
  <2> HIDE DEF n
  <2> QED BY <1>2, <1>4, <1>5 DEF RowsOf
<1>9. \A r : IsFiniteSet(RowsOf(rows, r)) /\ n \notin RowsOf(rows, r)
  <2> TAKE r
  <2>1. IsFiniteSet(1 .. Len(rows)) /\ RowsOf(rows, r) \in SUBSET (1 .. Len(rows))
    BY <1>1, FS_Interval DEF RowsOf
  <2> QED BY <1>2, <2>1, FS_Subset DEF RowsOf
<1> HIDE DEF n
<1> QED BY <1>1, <1>2, <1>3, <1>4, <1>5, <1>6, <1>7, <1>8, <1>9 DEF after, n

\* A row keeps the rows blind when its reviewer is not the author and, if it is a
\* repair's, it has the tag of the original and another reviewer.
LEMMA BlindAfter ==
  ASSUME NEW eligible, NEW tags, NEW rows \in Seq(Rows(eligible, tags)),
         NEW row \in Rows(eligible, tags), Follows(rows, row),
         NEW config, IsBlind(rows, config),
         config.author_exclusion => row.reviewer # row.episode.author,
         row.episode.is_repair =>
            \A j \in Priors(rows, row.episode) :
               /\ row.tag = rows[j].tag
               /\ config.repair_blinding => row.reviewer # rows[j].reviewer
  PROVE  IsBlind(Append(rows, row), config)
<1> DEFINE after == Append(rows, row)
           n     == Len(rows) + 1
<1>1. /\ DOMAIN after = DOMAIN rows \cup {n}
      /\ after[n] = row /\ \A i \in DOMAIN rows : after[i] = rows[i]
      /\ \A i \in DOMAIN rows : OriginalsOf(after, i) = OriginalsOf(rows, i)
      /\ OriginalsOf(after, n) = IF row.episode.is_repair THEN Priors(rows, row.episode) ELSE {}
  BY RowsGrow
<1>2. \A i \in DOMAIN rows : OriginalsOf(rows, i) \in SUBSET DOMAIN rows
  BY DEF OriginalsOf
<1>3. Priors(rows, row.episode) \in SUBSET DOMAIN rows
  BY DEF Priors
<1> HIDE DEF after, n
<1>4. ASSUME NEW i \in DOMAIN rows
      PROVE  /\ config.author_exclusion => after[i].reviewer # after[i].episode.author
             /\ \A j \in OriginalsOf(after, i) :
                   /\ after[i].tag = after[j].tag
                   /\ config.repair_blinding => after[i].reviewer # after[j].reviewer
  BY <1>1, <1>2 DEF IsBlind
<1>5. /\ config.author_exclusion => after[n].reviewer # after[n].episode.author
      /\ \A j \in OriginalsOf(after, n) :
            /\ after[n].tag = after[j].tag
            /\ config.repair_blinding => after[n].reviewer # after[j].reviewer
  BY <1>1, <1>3
<1>6. IsBlind(after, config)
  BY <1>1, <1>4, <1>5 DEF IsBlind
<1> QED BY <1>6 DEF after

\* A row keeps the work shared when nobody who may have it has less.
LEMMA SharedAfter ==
  ASSUME NEW eligible, NEW tags, NEW rows \in Seq(Rows(eligible, tags)),
         NEW row \in Rows(eligible, tags), Follows(rows, row),
         NEW config, IsShared(rows, config, eligible),
         \A q \in eligible :
            ~Barred(Append(rows, row), config, q, Len(rows) + 1) =>
               Cardinality(RowsOf(rows, row.reviewer)) <= Cardinality(RowsOf(rows, q))
  PROVE  IsShared(Append(rows, row), config, eligible)
<1> DEFINE after == Append(rows, row)
           n     == Len(rows) + 1
           Open(all, p, q) == {i \in RowsOf(all, p) : ~Barred(all, config, q, i)}
<1>1. /\ n \notin DOMAIN rows
      /\ after[n] = row /\ \A i \in DOMAIN rows : after[i] = rows[i]
      /\ \A i \in DOMAIN rows : OriginalsOf(after, i) = OriginalsOf(rows, i)
      /\ \A r : RowsOf(after, r) =
                   IF r = row.reviewer THEN RowsOf(rows, r) \cup {n} ELSE RowsOf(rows, r)
      /\ \A r : IsFiniteSet(RowsOf(rows, r)) /\ n \notin RowsOf(rows, r)
  BY RowsGrow
<1>2. \A q : \A i \in DOMAIN rows : Barred(after, config, q, i) <=> Barred(rows, config, q, i)
  <2>1. \A i \in DOMAIN rows : OriginalsOf(rows, i) \in SUBSET DOMAIN rows
    BY DEF OriginalsOf
  <2> HIDE DEF after, n
  <2> QED BY <1>1, <2>1 DEF Barred
<1>3. \A r : RowsOf(rows, r) \in SUBSET DOMAIN rows
  BY DEF RowsOf
<1>4. \A q \in eligible : ~Barred(after, config, q, n) =>
         Cardinality(RowsOf(rows, row.reviewer)) <= Cardinality(RowsOf(rows, q))
  OBVIOUS
<1> HIDE DEF after, n
<1>5. \A r : /\ IsFiniteSet(RowsOf(after, r))
             /\ Cardinality(RowsOf(rows, r)) \in Nat
             /\ Cardinality(RowsOf(after, r)) =
                   IF r = row.reviewer THEN Cardinality(RowsOf(rows, r)) + 1
                   ELSE Cardinality(RowsOf(rows, r))
  <2> TAKE r
  <2>1. IsFiniteSet(RowsOf(rows, r)) /\ n \notin RowsOf(rows, r)
    BY <1>1
  <2>2. Cardinality(RowsOf(rows, r)) \in Nat
    BY <2>1, FS_CardinalityType
  <2>3. /\ IsFiniteSet(RowsOf(rows, r) \cup {n})
        /\ Cardinality(RowsOf(rows, r) \cup {n}) = Cardinality(RowsOf(rows, r)) + 1
    BY <2>1, FS_AddElement
  <2>4. RowsOf(after, r) = IF r = row.reviewer THEN RowsOf(rows, r) \cup {n} ELSE RowsOf(rows, r)
    BY <1>1
  <2> QED BY <2>1, <2>2, <2>3, <2>4
<1>6. ASSUME NEW p \in eligible, NEW q \in eligible
      PROVE  Cardinality(Open(after, p, q)) <= Cardinality(RowsOf(after, q)) + 1
  <2>1. CASE p = row.reviewer /\ ~Barred(after, config, q, n)
    <3>1. Cardinality(Open(after, p, q)) <= Cardinality(RowsOf(after, p))
      <4>1. Open(after, p, q) \in SUBSET RowsOf(after, p) /\ IsFiniteSet(RowsOf(after, p))
        BY <1>5
      <4> QED BY <4>1, FS_Subset
    <3>2. Cardinality(Open(after, p, q)) \in Nat
      <4>1. Open(after, p, q) \in SUBSET RowsOf(after, p) /\ IsFiniteSet(RowsOf(after, p))
        BY <1>5
      <4> QED BY <4>1, FS_Subset, FS_CardinalityType
    <3>3. Cardinality(RowsOf(after, p)) = Cardinality(RowsOf(rows, p)) + 1
      BY <1>5, <2>1
    <3>4. Cardinality(RowsOf(rows, p)) <= Cardinality(RowsOf(rows, q))
      BY <1>4, <2>1
    <3>5. /\ Cardinality(RowsOf(rows, p)) \in Nat /\ Cardinality(RowsOf(rows, q)) \in Nat
          /\ \/ Cardinality(RowsOf(after, q)) = Cardinality(RowsOf(rows, q)) + 1
             \/ Cardinality(RowsOf(after, q)) = Cardinality(RowsOf(rows, q))
      BY <1>5
    <3> HIDE DEF Open
    <3> QED BY <3>1, <3>2, <3>3, <3>4, <3>5
  <2>2. CASE p # row.reviewer \/ Barred(after, config, q, n)
    <3>1. Open(after, p, q) = Open(rows, p, q)
      BY <1>1, <1>2, <1>3, <2>2
    <3>2. Cardinality(Open(rows, p, q)) <= Cardinality(RowsOf(rows, q)) + 1
      BY DEF IsShared
    <3>3. Cardinality(Open(rows, p, q)) \in Nat
      <4>1. Open(rows, p, q) \in SUBSET RowsOf(rows, p) /\ IsFiniteSet(RowsOf(rows, p))
        BY <1>1
      <4> QED BY <4>1, FS_Subset, FS_CardinalityType
    <3>4. /\ Cardinality(RowsOf(rows, q)) \in Nat
          /\ \/ Cardinality(RowsOf(after, q)) = Cardinality(RowsOf(rows, q)) + 1
             \/ Cardinality(RowsOf(after, q)) = Cardinality(RowsOf(rows, q))
      BY <1>5
    <3> HIDE DEF Open
    <3> QED BY <3>1, <3>2, <3>3, <3>4
  <2> QED BY <2>1, <2>2
<1>7. IsShared(after, config, eligible)
  BY <1>6 DEF IsShared
<1> QED BY <1>7 DEF after

\* acc has one row more than before, for episode e.
OneMore(acc, before, e) ==
    /\ Len(acc.rows) = Len(before.rows) + 1
    /\ \A i \in DOMAIN before.rows : acc.rows[i] = before.rows[i]
    /\ acc.rows[Len(before.rows) + 1].episode = e

\* The pool of an episode: that of a repair is without the reviewers of its original.
PoolFor(rows, e, eligible, config) ==
    IF e.is_repair /\ config.repair_blinding
    THEN eligible \ {rows[j].reviewer : j \in Priors(rows, e)} ELSE eligible

TagFits(rows, e, tag) == e.is_repair => \A j \in Priors(rows, e) : tag = rows[j].tag

TurnOf(rows, e) == e.is_repair \/ \A i \in DOMAIN rows : ~rows[i].episode.is_repair

\* An assignment keeps the rows good when the pool of a repair lacks the
\* reviewers of its original and its tag is the original's.
LEMMA AssignKeepsGood ==
  ASSUME NEW eligible \in SUBSET Nat, NEW tags, NEW acc \in Accs(eligible, tags),
         NEW e \in Episodes, NEW tag \in tags, NEW config \in Switches, NEW pool,
         Good(acc, eligible, config),
         pool = PoolFor(acc.rows, e, eligible, config),
         TagFits(acc.rows, e, tag), TurnOf(acc.rows, e),
         NEW next, next = Assign(acc, e, pool, tag, config), next # None
  PROVE  next \in Accs(eligible, tags) /\ Good(next, eligible, config) /\ OneMore(next, acc, e)
<1> DEFINE rows == acc.rows
           n    == Len(rows) + 1
<1>1. rows \in Seq(Rows(eligible, tags)) /\ acc.workload \in [eligible -> Nat]
  BY DEF Accs
<1>2. pool \in SUBSET eligible
  BY DEF PoolFor
<1>3. /\ next \in Accs(eligible, tags)
      /\ \E p \in eligible : /\ Suits(p, Allowed(pool, e, config), acc.workload, config)
                            /\ Adds(next, acc, e, tag, p)
  BY <1>2, AssignAdds
<1>4. PICK p \in eligible : /\ Suits(p, Allowed(pool, e, config), acc.workload, config)
                            /\ Adds(next, acc, e, tag, p)
  BY <1>3
<1> DEFINE row == [episode |-> e, tag |-> tag, reviewer |-> p]
<1>5. /\ row.episode = e /\ row.tag = tag /\ row.reviewer = p
      /\ next.rows = Append(rows, row) /\ next.workload = [acc.workload EXCEPT ![p] = @ + 1]
  BY <1>4 DEF Adds
<1>6. row \in Rows(eligible, tags) /\ Follows(rows, row)
  BY <1>4 DEF Rows, Follows, TurnOf
<1>7. p \in pool /\ (config.author_exclusion => p # e.author)
  BY <1>4 DEF Allowed, Suits
<1> HIDE DEF row, rows
<1>8. LET after == Append(rows, row)
          m     == Len(rows) + 1
      IN  /\ m \in Nat /\ m \notin DOMAIN rows
          /\ DOMAIN rows = 1 .. Len(rows) /\ Len(after) = m
          /\ DOMAIN after = DOMAIN rows \cup {m}
          /\ \A i \in DOMAIN rows : after[i] = rows[i]
          /\ after[m] = row
          /\ \A i \in DOMAIN rows : OriginalsOf(after, i) = OriginalsOf(rows, i)
          /\ OriginalsOf(after, m) =
                IF row.episode.is_repair THEN Priors(rows, row.episode) ELSE {}
          /\ \A r : RowsOf(after, r) =
                       IF r = row.reviewer THEN RowsOf(rows, r) \cup {m} ELSE RowsOf(rows, r)
          /\ \A r : IsFiniteSet(RowsOf(rows, r)) /\ m \notin RowsOf(rows, r)
  BY <1>1, <1>6, RowsGrow
<1>9. /\ n \in Nat /\ DOMAIN rows = 1 .. Len(rows) /\ Len(next.rows) = n
      /\ \A i \in DOMAIN rows : next.rows[i] = rows[i]
      /\ next.rows[n] = row
      /\ OriginalsOf(next.rows, n) = IF e.is_repair THEN Priors(rows, e) ELSE {}
      /\ \A r : RowsOf(next.rows, r) = IF r = p THEN RowsOf(rows, r) \cup {n} ELSE RowsOf(rows, r)
      /\ \A r : IsFiniteSet(RowsOf(rows, r)) /\ n \notin RowsOf(rows, r)
  BY <1>5, <1>8, Zenon
<1>10. IsBlind(Append(rows, row), config)
  <2>1. IsBlind(rows, config)
    BY DEF Good, rows
  <2>2. row.episode.is_repair =>
           \A j \in Priors(rows, row.episode) :
              /\ row.tag = rows[j].tag
              /\ config.repair_blinding => row.reviewer # rows[j].reviewer
    BY <1>5, <1>7 DEF PoolFor, TagFits, rows
  <2>3. config.author_exclusion => row.reviewer # row.episode.author
    BY <1>5, <1>7
  <2> QED BY <1>1, <1>6, <2>1, <2>2, <2>3, BlindAfter
<1>11. ASSUME NEW r \in eligible
       PROVE  next.workload[r] = Cardinality(RowsOf(next.rows, r))
  <2>1. acc.workload[r] = Cardinality(RowsOf(rows, r)) /\ acc.workload \in [eligible -> Nat]
    BY <1>1 DEF Good, rows
  <2>2. next.workload[r] = IF r = p THEN acc.workload[r] + 1 ELSE acc.workload[r]
    BY <1>5, <2>1
  <2>3. IsFiniteSet(RowsOf(rows, r)) /\ n \notin RowsOf(rows, r)
    BY <1>9
  <2>4. Cardinality(RowsOf(rows, r) \cup {n}) = Cardinality(RowsOf(rows, r)) + 1
    <3> HIDE DEF n
    <3> QED BY <2>3, FS_AddElement
  <2>5. RowsOf(next.rows, r) = IF r = p THEN RowsOf(rows, r) \cup {n} ELSE RowsOf(rows, r)
    BY <1>9, Zenon
  <2> HIDE DEF n
  <2> QED BY <2>1, <2>2, <2>4, <2>5
<1>12. config.workload_balance => IsShared(Append(rows, row), config, eligible)
  <2>1. SUFFICES ASSUME config.workload_balance
                 PROVE  IsShared(Append(rows, row), config, eligible)
    OBVIOUS
  <2>2. ASSUME NEW q \in eligible, ~Barred(next.rows, config, q, n)
        PROVE  Cardinality(RowsOf(rows, p)) <= Cardinality(RowsOf(rows, q))
    <3>1. config.author_exclusion => q # e.author
      BY <1>5, <1>9, <2>2 DEF Barred
    <3>2. e.is_repair /\ config.repair_blinding => \A j \in Priors(rows, e) : rows[j].reviewer # q
      <4>1. Priors(rows, e) \in SUBSET DOMAIN rows
        BY DEF Priors
      <4> HIDE DEF n
      <4> QED BY <1>9, <2>2, <4>1 DEF Barred
    <3>3. q \in pool
      BY <3>2 DEF PoolFor, rows
    <3>4. q \in Allowed(pool, e, config)
      BY <3>1, <3>3 DEF Allowed
    <3>5. acc.workload[p] <= acc.workload[q]
      BY <1>4, <2>1, <3>4 DEF Suits
    <3>6. /\ acc.workload[p] = Cardinality(RowsOf(rows, p))
          /\ acc.workload[q] = Cardinality(RowsOf(rows, q))
      BY <1>4 DEF Good, rows
    <3> QED BY <3>5, <3>6
  <2>3. IsShared(rows, config, eligible)
    BY <2>1 DEF Good, rows
  <2>4. \A q \in eligible :
           ~Barred(Append(rows, row), config, q, Len(rows) + 1) =>
              Cardinality(RowsOf(rows, row.reviewer)) <= Cardinality(RowsOf(rows, q))
    BY <1>5, <2>2
  <2> QED BY <1>1, <1>6, <2>3, <2>4, SharedAfter
<1>13. OneMore(next, acc, e)
  BY <1>5, <1>9 DEF OneMore, rows
<1>14. Good(next, eligible, config)
  BY <1>5, <1>10, <1>11, <1>12 DEF Good
<1> QED BY <1>3, <1>13, <1>14

\* Without rows nothing is amiss.
LEMMA UnloadedIsGood ==
  ASSUME NEW eligible, NEW tags, NEW config
  PROVE  /\ Unloaded(eligible) \in Accs(eligible, tags)
         /\ Good(Unloaded(eligible), eligible, config)
         /\ Len(Unloaded(eligible).rows) = 0
<1> DEFINE acc == Unloaded(eligible)
<1>1. acc.rows = <<>> /\ acc.workload = [r \in eligible |-> 0] /\ acc \in Accs(eligible, tags)
  BY DEF Unloaded, Accs
<1>2. DOMAIN acc.rows = {} /\ Len(acc.rows) = 0
  BY <1>1
<1>3. \A r : RowsOf(acc.rows, r) = {}
  BY <1>2 DEF RowsOf
<1>4. Cardinality({}) = 0
  BY FS_EmptySet
<1> HIDE DEF acc
<1>5. IsBlind(acc.rows, config)
  BY <1>2 DEF IsBlind
<1>6. IsShared(acc.rows, config, eligible)
  <2>1. \A p, q \in eligible :
           {i \in RowsOf(acc.rows, p) : ~Barred(acc.rows, config, q, i)} = {}
    BY <1>3
  <2>2. 0 <= 0 + 1
    OBVIOUS
  <2> QED BY <1>3, <1>4, <2>1, <2>2 DEF IsShared
<1>7. \A r \in eligible : acc.workload[r] = Cardinality(RowsOf(acc.rows, r))
  BY <1>1, <1>3, <1>4
<1> QED BY <1>1, <1>2, <1>5, <1>6, <1>7 DEF Good, acc

-----------------------------------------------------------------------------
(* The loops *)

\* One round: of the repairs, or of the originals.
Step(loop, acc, n) ==
    IF loop.repairs
    THEN Repair(acc, loop.list[loop.places[n]], loop.first.rows, loop.eligible, loop.config)
    ELSE Assign(acc, loop.list[loop.places[n]], loop.eligible, TagAt(n, loop.seed), loop.config)

IsLoop(loop, f, n) == f = [i \in 0 .. n |-> IF i = 0 THEN loop.first ELSE Step(loop, f[i - 1], i)]

LEMMA LoopExists ==
  ASSUME NEW loop, NEW n \in Nat
  PROVE  \E f : IsLoop(loop, f, n)
<1> DEFINE T == {k \in 0 .. n : \E f : IsLoop(loop, f, k)}
<1>1. 0 \in T
  <2> DEFINE f == [i \in 0 .. 0 |-> loop.first]
  <2>1. IsLoop(loop, f, 0)
    BY DEF IsLoop
  <2> QED BY <2>1
<1>2. ASSUME NEW k \in 0 .. n, k \in T, k < n PROVE k + 1 \in T
  <2>1. PICK f : IsLoop(loop, f, k)
    BY <1>2
  <2> DEFINE g == [i \in 0 .. k + 1 |-> IF i = k + 1 THEN Step(loop, f[k], k + 1) ELSE f[i]]
  <2>2. \A i \in 0 .. k + 1 : g[i] = IF i = 0 THEN loop.first ELSE Step(loop, g[i - 1], i)
    <3>1. /\ \A i \in 0 .. k : i \in 0 .. k + 1 /\ i # k + 1
          /\ k + 1 \in 0 .. k + 1 /\ k \in 0 .. k /\ k + 1 - 1 = k /\ k + 1 # 0
          /\ \A i \in 0 .. k + 1 : i = k + 1 \/ i \in 0 .. k
          /\ \A i \in 0 .. k : i # 0 => i - 1 \in 0 .. k
      OBVIOUS
    <3>2. g[k + 1] = Step(loop, f[k], k + 1) /\ \A i \in 0 .. k : g[i] = f[i]
      BY <3>1
    <3>3. \A i \in 0 .. k : f[i] = IF i = 0 THEN loop.first ELSE Step(loop, f[i - 1], i)
      <4> HIDE DEF g
      <4> QED BY <2>1 DEF IsLoop
    <3> HIDE DEF g
    <3> QED BY <3>1, <3>2, <3>3
  <2>3. IsLoop(loop, g, k + 1)
    <3>1. g = [i \in 0 .. k + 1 |-> g[i]]
      OBVIOUS
    <3> HIDE DEF g
    <3> QED BY <2>2, <3>1 DEF IsLoop
  <2>4. k + 1 \in 0 .. n
    BY <1>2
  <2> HIDE DEF g
  <2> QED BY <2>3, <2>4
<1>3. n \in T
  <2>1. n \in 0 .. n
    OBVIOUS
  <2> HIDE DEF T
  <2> QED BY <1>1, <1>2, <2>1, Ascending
<1> QED BY <1>3

\* The loop over the originals starts with nothing and assigns one after another.
RunsOriginals(after, list, eligible, seed, config, places, last) ==
    /\ Originals(list, eligible, seed, config) = after[last]
    /\ after[0] = Unloaded(eligible)
    /\ \A n \in 1 .. last :
          after[n] = Assign(after[n - 1], list[places[n]], eligible, TagAt(n, seed), config)

LEMMA OriginalsUnfold ==
  ASSUME NEW list, NEW eligible, NEW seed, NEW config,
         NEW places, places = Ordered(list, seed), NEW last \in Nat, last = Len(places)
  PROVE  \E after : RunsOriginals(after, list, eligible, seed, config, places, last)
<1> DEFINE Body(f) == [n \in 0 .. last |->
                          IF n = 0 THEN Unloaded(eligible)
                          ELSE Assign(f[n - 1], list[places[n]], eligible, TagAt(n, seed), config)]
           after == CHOOSE f : f = Body(f)
           loop == [repairs |-> FALSE, first |-> Unloaded(eligible), places |-> places, list |-> list,
                    eligible |-> eligible, seed |-> seed, config |-> config]
<1>1. Originals(list, eligible, seed, config) = after[last]
  BY DEF Originals
<1>2. PICK f : IsLoop(loop, f, last)
  BY LoopExists
<1>3. f = Body(f)
  BY <1>2 DEF IsLoop, Step
<1>4. after = Body(after)
  <2> HIDE DEF Body
  <2> QED BY <1>3
<1> HIDE DEF after
<1>5. after[0] = Unloaded(eligible)
  BY <1>4
<1>6. \A n \in 1 .. last :
         after[n] = Assign(after[n - 1], list[places[n]], eligible, TagAt(n, seed), config)
  BY <1>4
<1> QED BY <1>1, <1>5, <1>6 DEF RunsOriginals

\* The loop over the repairs starts with the rows of the originals.
RunsRepairs(after, first, list, eligible, config, places, last) ==
    /\ Repairs(first, list, eligible, config) = after[last]
    /\ after[0] = first
    /\ \A n \in 1 .. last :
          after[n] = Repair(after[n - 1], list[places[n]], first.rows, eligible, config)

LEMMA RepairsUnfold ==
  ASSUME NEW first, NEW list, NEW eligible, NEW config,
         NEW places, places = RepairOrder(list), NEW last \in Nat, last = Len(places)
  PROVE  \E after : RunsRepairs(after, first, list, eligible, config, places, last)
<1> DEFINE Body(f) == [n \in 0 .. last |->
                          IF n = 0 THEN first
                          ELSE Repair(f[n - 1], list[places[n]], first.rows, eligible, config)]
           after == CHOOSE f : f = Body(f)
           loop == [repairs |-> TRUE, first |-> first, places |-> places, list |-> list,
                    eligible |-> eligible, seed |-> first, config |-> config]
<1>1. Repairs(first, list, eligible, config) = after[last]
  BY DEF Repairs
<1>2. PICK f : IsLoop(loop, f, last)
  BY LoopExists
<1>3. f = Body(f)
  BY <1>2 DEF IsLoop, Step
<1>4. after = Body(after)
  <2> HIDE DEF Body
  <2> QED BY <1>3
<1> HIDE DEF after
<1>5. after[0] = first
  BY <1>4
<1>6. \A n \in 1 .. last :
         after[n] = Repair(after[n - 1], list[places[n]], first.rows, eligible, config)
  BY <1>4
<1> QED BY <1>1, <1>5, <1>6 DEF RunsRepairs

\* The first n of the originals have their rows, in the order of places.
Made(acc, places, list, n) ==
    /\ Len(acc.rows) = n
    /\ \A i \in 1 .. n : acc.rows[i].episode = list[places[i]]

LEMMA OriginalsAreGood ==
  ASSUME NEW eligible \in SUBSET Nat, NEW tags, NEW list \in Seq(Episodes), NEW seed,
         \A i \in DOMAIN list : seed.order[list[i].candidate] \in Nat,
         \A n \in Nat : TagAt(n, seed) \in tags, NEW config \in Switches,
         NEW first, first = Originals(list, eligible, seed, config), first # None
  PROVE  /\ first \in Accs(eligible, tags) /\ Good(first, eligible, config)
         /\ Made(first, Ordered(list, seed), list, Len(Ordered(list, seed)))
<1> DEFINE places == Ordered(list, seed)
           last == Len(places)
<1>1. Visits(places, list, FALSE)
  BY OrderedVisits
<1>2. last \in Nat /\ \A n \in 1 .. last : places[n] \in DOMAIN list /\ ~list[places[n]].is_repair
  BY <1>1 DEF Visits
<1>3. PICK after :
         /\ Originals(list, eligible, seed, config) = after[last]
         /\ after[0] = Unloaded(eligible)
         /\ \A n \in 1 .. last :
               after[n] = Assign(after[n - 1], list[places[n]], eligible, TagAt(n, seed), config)
  <2>1. places = Ordered(list, seed) /\ last = Len(places)
    OBVIOUS
  <2> HIDE DEF last, places
  <2>2. last \in Nat
    BY <1>2
  <2>3. \E after : RunsOriginals(after, list, eligible, seed, config, places, last)
    BY <2>1, <2>2, OriginalsUnfold
  <2> QED BY <2>3 DEF RunsOriginals
<1>4. \A n \in 1 .. last : list[places[n]] \in Episodes
  BY <1>2
<1> HIDE DEF last, places
<1> DEFINE Fine(n) == /\ after[n] \in Accs(eligible, tags) /\ Good(after[n], eligible, config)
                      /\ Made(after[n], places, list, n)
           T == {n \in 0 .. last : after[n] # None => Fine(n)}
<1>5. 0 \in T
  <2>1. Unloaded(eligible) \in Accs(eligible, tags) /\ Good(Unloaded(eligible), eligible, config)
        /\ Len(Unloaded(eligible).rows) = 0
    BY UnloadedIsGood
  <2>2. Made(Unloaded(eligible), places, list, 0)
    BY <2>1 DEF Made
  <2> QED BY <1>2, <1>3, <2>1, <2>2
<1>6. ASSUME NEW k \in 0 .. last, k \in T, k < last PROVE k + 1 \in T
  <2>1. k + 1 \in 1 .. last /\ k \in Nat /\ k + 1 - 1 = k /\ k + 1 \in 0 .. last
    BY <1>2, <1>6
  <2>2. SUFFICES ASSUME after[k + 1] # None PROVE Fine(k + 1)
    BY <2>1
  <2> DEFINE acc == after[k]
             e   == list[places[k + 1]]
             tag == TagAt(k + 1, seed)
  <2>3. after[k + 1] = Assign(acc, e, eligible, tag, config) /\ acc # None
    <3>1. after[k + 1] = Assign(acc, e, eligible, tag, config)
      BY <1>3, <2>1
    <3> QED BY <2>2, <3>1 DEF Assign
  <2>4. acc \in Accs(eligible, tags) /\ Good(acc, eligible, config) /\ Made(acc, places, list, k)
    BY <1>6, <2>3
  <2>5. e \in Episodes /\ ~e.is_repair /\ tag \in tags
    BY <1>2, <1>4, <2>1
  <2>6. DOMAIN acc.rows = 1 .. k
    <3>1. acc.rows \in Seq(Rows(eligible, tags))
      BY <2>4 DEF Accs
    <3> QED BY <2>4, <3>1, LenProperties DEF Made
  <2>7. eligible = PoolFor(acc.rows, e, eligible, config) /\ TagFits(acc.rows, e, tag)
    BY <2>5 DEF PoolFor, TagFits
  <2>8. TurnOf(acc.rows, e)
    <3>1. \A i \in 1 .. k : i \in 1 .. last
      BY <1>2, <1>6
    <3> QED BY <1>2, <2>4, <2>6, <3>1 DEF TurnOf, Made
  <2> HIDE DEF acc, e, tag
  <2>9. /\ after[k + 1] \in Accs(eligible, tags) /\ Good(after[k + 1], eligible, config)
        /\ OneMore(after[k + 1], acc, e)
    BY <2>2, <2>3, <2>4, <2>5, <2>7, <2>8, AssignKeepsGood
  <2>10. Made(after[k + 1], places, list, k + 1)
    <3>1. \A i \in 1 .. k + 1 : i = k + 1 \/ i \in 1 .. k
      BY <2>1
    <3>2. /\ Len(after[k + 1].rows) = k + 1
          /\ \A i \in 1 .. k : after[k + 1].rows[i] = acc.rows[i]
          /\ after[k + 1].rows[k + 1].episode = e
      BY <2>4, <2>6, <2>9 DEF OneMore, Made
    <3> QED BY <2>4, <3>1, <3>2 DEF Made, e
  <2> QED BY <2>9, <2>10
<1>7. last \in T
  <2>1. last \in 0 .. last
    BY <1>2
  <2> HIDE DEF T
  <2> QED BY <1>2, <1>5, <1>6, <2>1, Ascending
<1>8. after[last] = first
  BY <1>3
<1>9. Fine(last)
  BY <1>7, <1>8
<1> QED BY <1>8, <1>9 DEF last, places

\* No two of the rows are of one candidate, and none is a repair's.
Distinct(rows) ==
    /\ \A i \in DOMAIN rows : ~rows[i].episode.is_repair
    /\ \A i, j \in DOMAIN rows : rows[i].episode.candidate = rows[j].episode.candidate => i = j

\* acc has the rows of first and those of n repairs.
Repaired(acc, first, n) ==
    /\ Len(acc.rows) = Len(first.rows) + n
    /\ \A i \in DOMAIN first.rows : acc.rows[i] = first.rows[i]
    /\ \A i \in DOMAIN acc.rows : i \notin DOMAIN first.rows => acc.rows[i].episode.is_repair

\* A repair finds its original first, and leaves out whoever had it.
LEMMA RepairKeepsGood ==
  ASSUME NEW eligible \in SUBSET Nat, NEW tags, NEW config \in Switches,
         NEW first \in Accs(eligible, tags), Distinct(first.rows),
         NEW acc \in Accs(eligible, tags), Good(acc, eligible, config),
         NEW n \in Nat, Repaired(acc, first, n), NEW e \in Episodes, e.is_repair,
         NEW next, next = Repair(acc, e, first.rows, eligible, config), next # None, acc # None
  PROVE  /\ next \in Accs(eligible, tags) /\ Good(next, eligible, config)
         /\ Repaired(next, first, n + 1)
<1> DEFINE rows == acc.rows
           made == first.rows
           roots == {i \in DOMAIN rows : rows[i].episode.candidate = e.root}
           prior == ReviewersOf(made, e.root)
           pool  == IF config.repair_blinding THEN eligible \ prior ELSE eligible
           tag   == rows[Min(roots)].tag
<1>1. roots # {} /\ next = Assign(acc, e, pool, tag, config)
  BY DEF Repair
<1>2. /\ rows \in Seq(Rows(eligible, tags)) /\ made \in Seq(Rows(eligible, tags))
      /\ DOMAIN rows = 1 .. Len(rows) /\ DOMAIN made = 1 .. Len(made)
      /\ Len(rows) \in Nat /\ Len(made) \in Nat /\ Len(rows) = Len(made) + n
      /\ \A i \in DOMAIN rows : rows[i] \in Rows(eligible, tags)
  BY LenProperties, ElementOfSeq DEF Accs, Repaired
<1>3. DOMAIN made \subseteq DOMAIN rows
  BY <1>2
<1>4. Min(roots) \in roots /\ \A i \in roots : Min(roots) <= i
  <2>1. roots \in SUBSET Nat
    BY <1>2
  <2> HIDE DEF roots
  <2> QED BY <1>1, <2>1, LeastNumber
<1>5. tag \in tags
  BY <1>2, <1>4 DEF Rows
<1>6. Priors(rows, e) = {j \in DOMAIN made : made[j].episode.candidate = e.root}
  <2> HIDE DEF rows, made
  <2> QED BY <1>3 DEF Priors, Distinct, Repaired, rows, made
<1>7. pool = PoolFor(rows, e, eligible, config)
  <2>1. prior = {rows[j].reviewer : j \in Priors(rows, e)}
    BY <1>6 DEF ReviewersOf, Repaired
  <2> QED BY <2>1 DEF PoolFor
<1>8. TagFits(rows, e, tag)
  <2>1. ASSUME NEW j \in Priors(rows, e) PROVE j = Min(roots)
    <3>1. j \in DOMAIN made /\ made[j].episode.candidate = e.root /\ j \in roots
      BY <1>3, <1>6, <2>1 DEF Repaired
    <3>2. Min(roots) \in DOMAIN made
      <4>1. Min(roots) <= j /\ Min(roots) \in DOMAIN rows
        BY <1>4, <3>1
      <4> HIDE DEF roots
      <4> QED BY <1>2, <3>1, <4>1
    <3>3. made[Min(roots)].episode.candidate = e.root
      <4>1. rows[Min(roots)].episode.candidate = e.root
        BY <1>4
      <4> HIDE DEF roots
      <4> QED BY <3>2, <4>1 DEF Repaired
    <3> HIDE DEF roots
    <3> QED BY <3>1, <3>2, <3>3 DEF Distinct
  <2> QED BY <2>1 DEF TagFits
<1>9. TurnOf(rows, e)
  BY DEF TurnOf
<1> HIDE DEF tag, pool, roots, prior
<1>10. /\ next \in Accs(eligible, tags) /\ Good(next, eligible, config) /\ OneMore(next, acc, e)
  BY <1>1, <1>5, <1>7, <1>8, <1>9, AssignKeepsGood
<1>11. Repaired(next, first, n + 1)
  <2>1. next.rows \in Seq(Rows(eligible, tags))
    BY <1>10 DEF Accs
  <2>2. /\ Len(next.rows) = Len(rows) + 1 /\ \A i \in DOMAIN rows : next.rows[i] = rows[i]
        /\ next.rows[Len(rows) + 1].episode = e
    BY <1>10 DEF OneMore
  <2>3. DOMAIN next.rows = 1 .. Len(rows) + 1
    BY <2>1, <2>2, LenProperties
  <2>4. \A i \in DOMAIN next.rows : i \in DOMAIN rows \/ i = Len(rows) + 1
    <3>1. ASSUME NEW m \in Nat, NEW i \in 1 .. m + 1 PROVE i \in 1 .. m \/ i = m + 1
      OBVIOUS
    <3> HIDE DEF rows
    <3> QED BY <1>2, <2>3, <3>1
  <2>5. Len(next.rows) = Len(made) + (n + 1)
    <3> HIDE DEF rows, made
    <3> QED BY <1>2, <2>2
  <2>6. \A i \in DOMAIN made : next.rows[i] = made[i]
    BY <1>3, <2>2 DEF Repaired
  <2>7. \A i \in DOMAIN next.rows : i \notin DOMAIN made => next.rows[i].episode.is_repair
    BY <2>2, <2>4 DEF Repaired
  <2> QED BY <2>5, <2>6, <2>7 DEF Repaired
<1> QED BY <1>10, <1>11

LEMMA RepairsAreGood ==
  ASSUME NEW eligible \in SUBSET Nat, NEW tags, NEW list \in Seq(Episodes), NEW config \in Switches,
         NEW first \in Accs(eligible, tags), Distinct(first.rows), Good(first, eligible, config),
         NEW all, all = Repairs(first, list, eligible, config), all # None, first # None
  PROVE  all \in Accs(eligible, tags) /\ Good(all, eligible, config)
<1> DEFINE places == RepairOrder(list)
           last == Len(places)
<1>1. Visits(places, list, TRUE)
  BY RepairOrderVisits
<1>2. last \in Nat /\ \A n \in 1 .. last : places[n] \in DOMAIN list /\ list[places[n]].is_repair
  BY <1>1 DEF Visits
<1>3. PICK after :
         /\ Repairs(first, list, eligible, config) = after[last]
         /\ after[0] = first
         /\ \A n \in 1 .. last :
               after[n] = Repair(after[n - 1], list[places[n]], first.rows, eligible, config)
  <2>1. places = RepairOrder(list) /\ last = Len(places)
    OBVIOUS
  <2> HIDE DEF last, places
  <2>2. last \in Nat
    BY <1>2
  <2>3. \E after : RunsRepairs(after, first, list, eligible, config, places, last)
    BY <2>1, <2>2, RepairsUnfold
  <2> QED BY <2>3 DEF RunsRepairs
<1>4. \A n \in 1 .. last : list[places[n]] \in Episodes
  BY <1>2
<1> HIDE DEF last, places
<1> DEFINE Fine(n) == /\ after[n] \in Accs(eligible, tags) /\ Good(after[n], eligible, config)
                      /\ Repaired(after[n], first, n)
           T == {n \in 0 .. last : after[n] # None => Fine(n)}
<1>5. 0 \in T
  <2>1. Repaired(first, first, 0)
    <3>1. Len(first.rows) \in Nat
      BY LenProperties DEF Accs
    <3> QED BY <3>1 DEF Repaired
  <2> QED BY <1>2, <1>3, <2>1
<1>6. ASSUME NEW k \in 0 .. last, k \in T, k < last PROVE k + 1 \in T
  <2>1. k + 1 \in 1 .. last /\ k \in Nat /\ k + 1 - 1 = k /\ k + 1 \in 0 .. last
    BY <1>2, <1>6
  <2>2. SUFFICES ASSUME after[k + 1] # None PROVE Fine(k + 1)
    BY <2>1
  <2> DEFINE acc == after[k]
             e   == list[places[k + 1]]
  <2>3. after[k + 1] = Repair(acc, e, first.rows, eligible, config) /\ acc # None
    <3>1. after[k + 1] = Repair(acc, e, first.rows, eligible, config)
      BY <1>3, <2>1
    <3> QED BY <2>2, <3>1 DEF Repair
  <2>4. acc \in Accs(eligible, tags) /\ Good(acc, eligible, config) /\ Repaired(acc, first, k)
    BY <1>6, <2>3
  <2>5. e \in Episodes /\ e.is_repair
    BY <1>2, <1>4, <2>1
  <2> HIDE DEF acc, e
  <2> QED BY <2>1, <2>2, <2>3, <2>4, <2>5, RepairKeepsGood
<1>7. last \in T
  <2>1. last \in 0 .. last
    BY <1>2
  <2> HIDE DEF T
  <2> QED BY <1>2, <1>5, <1>6, <2>1, Ascending
<1> QED BY <1>3, <1>7

\* The rows of a manifest are blind and, where that is wanted, the work in them
\* is shared (assign_conditions).
LEMMA ManifestIsGood ==
  ASSUME NEW eligible \in SUBSET Nat, NEW list \in Seq(Episodes), NEW seed,
         \A i \in DOMAIN list : seed.order[list[i].candidate] \in Nat, NEW config \in Switches,
         NEW rows, rows = AssignConditions(list, eligible, seed, config), rows # None
  PROVE  /\ IsBlind(rows, config)
         /\ config.workload_balance => IsShared(rows, config, eligible)
<1> DEFINE originals == [i \in {j \in DOMAIN list : ~list[j].is_repair} |-> list[i]]
           first == Originals(list, eligible, seed, config)
           all == Repairs(first, list, eligible, config)
           places == Ordered(list, seed)
           tags == {TagAt(n, seed) : n \in Nat}
<1>1. NoDuplicates(originals) /\ first # None /\ all # None /\ rows = all.rows
  BY DEF AssignConditions
<1>2. \A n \in Nat : TagAt(n, seed) \in tags
  OBVIOUS
<1>3. /\ first \in Accs(eligible, tags) /\ Good(first, eligible, config)
      /\ Made(first, places, list, Len(places))
  <2> HIDE DEF first, tags
  <2> QED BY <1>1, <1>2, OriginalsAreGood DEF first
<1>4. Distinct(first.rows)
  <2>1. Visits(places, list, FALSE)
    BY OrderedVisits
  <2> HIDE DEF first, places, tags
  <2>2. DOMAIN first.rows = 1 .. Len(places)
    <3>1. first.rows \in Seq(Rows(eligible, tags))
      BY <1>3 DEF Accs
    <3> QED BY <1>3, <3>1, LenProperties DEF Made
  <2>3. \A i \in DOMAIN first.rows : /\ first.rows[i].episode = list[places[i]]
                                     /\ places[i] \in DOMAIN list /\ ~list[places[i]].is_repair
    BY <1>3, <2>1, <2>2 DEF Made, Visits
  <2>4. \A i, j \in DOMAIN list :
           ~list[i].is_repair /\ ~list[j].is_repair /\ list[i].candidate = list[j].candidate => i = j
    BY <1>1 DEF NoDuplicates
  <2>5. \A i, j \in DOMAIN first.rows : places[i] = places[j] => i = j
    BY <2>1, <2>2 DEF Visits
  <2> HIDE DEF originals
  <2> QED BY <2>3, <2>4, <2>5 DEF Distinct
<1>5. Good(all, eligible, config)
  <2> HIDE DEF first, tags, all
  <2> QED BY <1>1, <1>3, <1>4, RepairsAreGood DEF all
<1> QED BY <1>1, <1>5 DEF Good

-----------------------------------------------------------------------------
(* Every plan *)

\* A plan is what assign_conditions made of some episodes and some seed, with the
\* roster and the switches of the protocol the plan names.
PlanIsAssigned ==
    plan # None =>
        \E list \in EpisodeLists, seed \in Seeds :
            /\ plan.protocol \in Protocols
            /\ plan.rows # None
            /\ plan.rows = AssignConditions(list, Rosters[plan.protocol.files["reviewer-roster"]], seed,
                                            Configs[plan.protocol.files["assignment"]])

LEMMA PlanStep ==
  ASSUME TypeOK, PlanIsAssigned, [Next]_vars
  PROVE  PlanIsAssigned'
<1>1. ASSUME NEW list \in EpisodeLists, NEW seed \in Seeds, MakePlan(list, seed)
      PROVE  PlanIsAssigned'
  <2>1. PICK rows \in Manifests(list, seed) :
           plan' = [protocol |-> ProtocolHash, seed |-> seed, rows |-> rows]
    BY <1>1 DEF MakePlan
  <2>2. rows # None /\ rows = AssignConditions(list, Rosters[files["reviewer-roster"]], seed,
                                               Configs[files["assignment"]])
    BY <2>1 DEF Manifests
  <2>3. plan'.protocol = ProtocolHash /\ plan'.rows = rows
    BY <2>1
  <2>4. ProtocolHash \in Protocols /\ ProtocolHash.files = files
    BY HashType DEF ProtocolHash
  <2> QED BY <2>2, <2>3, <2>4 DEF PlanIsAssigned
<1>2. CASE plan' = plan
  BY <1>2 DEF PlanIsAssigned
<1>3. plan' = plan \/ \E list \in EpisodeLists, seed \in Seeds : MakePlan(list, seed)
  BY DEF Next, vars, Edit, Link, Freeze, Record, Seal, Lock
<1> QED BY <1>1, <1>2, <1>3

\* What is assigned is blind and shared.
LEMMA AssignedIsGood ==
  ASSUME PlanIsAssigned
  PROVE  AssignmentIsBlind /\ WorkloadIsShared
<1>1. SUFFICES ASSUME plan # None
      PROVE  LET roster == Rosters[plan.protocol.files["reviewer-roster"]]
                 config == Configs[plan.protocol.files["assignment"]]
             IN  /\ IsBlind(plan.rows, config)
                 /\ config.workload_balance => IsShared(plan.rows, config, roster)
  BY DEF AssignmentIsBlind, WorkloadIsShared
<1>2. PICK list \in EpisodeLists, seed \in Seeds :
         /\ plan.protocol \in Protocols
         /\ plan.rows # None
         /\ plan.rows = AssignConditions(list, Rosters[plan.protocol.files["reviewer-roster"]], seed,
                                         Configs[plan.protocol.files["assignment"]])
  BY <1>1 DEF PlanIsAssigned
<1> DEFINE roster == Rosters[plan.protocol.files["reviewer-roster"]]
           config == Configs[plan.protocol.files["assignment"]]
<1>3. plan.protocol.files["reviewer-roster"] \in Versions /\ plan.protocol.files["assignment"] \in Versions
  BY <1>2 DEF Protocols, Files
<1>4. roster \in SUBSET Nat /\ config \in Switches /\ list \in Seq(Episodes)
  BY <1>3, NamesAreNumbers, PilotAssumptions
<1>5. \A i \in DOMAIN list : seed.order[list[i].candidate] \in Nat
  BY SeedsAreDigests
<1> HIDE DEF roster, config
<1> QED BY <1>2, <1>4, <1>5, ManifestIsGood DEF roster, config

LEMMA PlanAlwaysAssigned == Spec => []PlanIsAssigned
<1>1. Init => TypeOK /\ PlanIsAssigned
  BY PilotAssumptions DEF Init, TypeOK, Files, Linked, PlanIsAssigned
<1> QED BY <1>1, TypeStep, PlanStep, PTL DEF Spec

\* Whatever the episodes, the roster and what HMAC makes of the seed: no plan
\* gives an author the own episode or a reviewer the repair of what they had, and
\* every repair has the condition of its original.
THEOREM AssignmentIsAlwaysBlind == Spec => []AssignmentIsBlind
BY PlanAlwaysAssigned, AssignedIsGood, PTL

\* And where the protocol balances the work, no reviewer has more than one episode
\* more than another, those not counted which the other was barred from.
THEOREM WorkloadIsAlwaysShared == Spec => []WorkloadIsShared
BY PlanAlwaysAssigned, AssignedIsGood, PTL

=============================================================================
