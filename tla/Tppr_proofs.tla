------------------------------ MODULE Tppr_proofs ------------------------------
(***************************************************************************)
(* Theorems about Tppr, for any obligations, suites and entries, and       *)
(* ledgers of any length (MaxEntries only stops Record).                   *)
(***************************************************************************)
EXTENDS Tppr, SequenceTheorems, FiniteSetTheorems, WellFoundedInduction, TLAPS

-----------------------------------------------------------------------------
(* Numbers *)

\* A finite, nonempty set of integers has a greatest member.
LEMMA MaxIsGreatest ==
  ASSUME NEW S \in SUBSET Int, IsFiniteSet(S), S # {}
  PROVE  Max(S) \in S /\ \A j \in S : j <= Max(S)
<1> DEFINE From(i) == {j \in S : i <= j}
           tails == {From(i) : i \in S}
<1>1. tails \subseteq FiniteSubsetsOf(S) /\ tails # {}
  <2>1. \A i \in S : From(i) \in SUBSET S /\ IsFiniteSet(From(i))
    BY FS_Subset
  <2> QED BY <2>1 DEF FiniteSubsetsOf
<1>2. PICK least \in tails : \A other \in tails : ~(<<other, least>> \in StrictSubsetOrdering(S))
  <2>1. IsWellFoundedOn(StrictSubsetOrdering(S), FiniteSubsetsOf(S))
    BY FS_StrictSubsetOrderingWellFounded
  <2> HIDE DEF tails
  <2> QED BY <1>1, <2>1, WFMin, Zenon
<1>3. PICK i \in S : least = From(i)
  BY <1>2
<1>4. ASSUME NEW j \in S, i < j PROVE FALSE
  <2>1. From(j) \subseteq From(i)
    <3>1. \A k \in S : k \in Int /\ i \in Int /\ j \in Int
      OBVIOUS
    <3>2. \A k \in S : j <= k => i <= k
      BY <1>4, <3>1
    <3> QED BY <3>2
  <2>2. i \in From(i) /\ i \notin From(j)
    <3>1. i \in Int /\ j \in Int
      OBVIOUS
    <3> QED BY <1>4, <3>1
  <2>3. <<From(j), From(i)>> \in StrictSubsetOrdering(S)
    BY <2>1, <2>2 DEF StrictSubsetOrdering
  <2> QED BY <1>2, <1>3, <2>3
<1>5. \A j \in S : i \in Int /\ j \in Int
  OBVIOUS
<1>6. \A j \in S : i >= j
  BY <1>4, <1>5
<1>7. Max(S) \in S /\ \A j \in S : Max(S) >= j
  BY <1>6 DEF Max
<1> QED BY <1>5, <1>7

\* Two numbers: the greater is the maximum.
LEMMA MaxOfTwo ==
  ASSUME NEW a \in Int, NEW b \in Int
  PROVE  Max({a, b}) = IF a >= b THEN a ELSE b
<1>1. \E x \in {a, b} : \A y \in {a, b} : x >= y
  <2>1. CASE a >= b
    BY <2>1
  <2>2. CASE ~(a >= b)
    BY <2>2
  <2> QED BY <2>1, <2>2
<1>2. Max({a, b}) \in {a, b} /\ \A y \in {a, b} : Max({a, b}) >= y
  BY <1>1 DEF Max
<1> QED BY <1>2

-----------------------------------------------------------------------------
(* Entries *)

Freezing(e)    == e.event.type = "OBLIGATION_FROZEN"
Registering(e) == e.event.type = "CANDIDATE_REGISTERED"
Accepting(e)   == e.event.type = "ARTIFACT_ACCEPTED"
Integrating(e) == e.event.type = "INTEGRATION_CONFIRMED"
Enabling(e)    == e.event.type = "DOWNSTREAM_ENABLED"
Persisting(e)  == e.event.type = "PERSISTENCE_CONFIRMED"
Regressing(e)  == e.event.type = "REGRESSION_DETECTED"
Timing(e)      == e.event.type = "EXPERT_TIME_RECORDED"

\* An entry carries the data its type calls for.
LEMMA EntryData ==
  ASSUME NEW e, IsEntry(e)
  PROVE  /\ e.event \in Events /\ e.event.schema = "v2"
         /\ e.obligations \subseteq Obligations /\ e.day \in Nat
         /\ Freezing(e) =>
               /\ e.event.payload.freeze_id \in Freezes
               /\ DOMAIN e.data.frozen.weights \subseteq Obligations
               /\ \A o \in DOMAIN e.data.frozen.weights : e.data.frozen.weights[o] \in Nat
               /\ e.data.frozen.rule \in Rules
         /\ Registering(e) =>
               e.event.payload.candidate_id \in Candidates /\ e.data.root \in Candidates
         /\ Accepting(e) => e.data.accepted \subseteq Obligations
         /\ Integrating(e) => e.data.candidate \in Candidates
         /\ Enabling(e) => e.data.suites \subseteq Suites
         /\ Persisting(e) => e.data.confirmed \in Nat
         /\ Timing(e) => e.data.hours \in Nat
<1>1. /\ e.event \in Events /\ e.event.schema = "v2"
      /\ e.obligations \subseteq Obligations /\ e.day \in Nat
  BY DEF IsEntry
<1>2. PICK weighed \in SUBSET Obligations : e.data \in DataOf(e.event.type, weighed)
  BY DEF IsEntry
<1>3. e.event.payload \in PayloadOf(e.event.type)
  BY <1>1 DEF Events
<1>4. ASSUME Freezing(e)
      PROVE  /\ e.event.payload.freeze_id \in Freezes
             /\ DOMAIN e.data.frozen.weights \subseteq Obligations
             /\ \A o \in DOMAIN e.data.frozen.weights : e.data.frozen.weights[o] \in Nat
             /\ e.data.frozen.rule \in Rules
  <2>1. e.data \in [frozen : FreezeData(weighed)] /\ e.event.payload \in FreezePayload
    BY <1>2, <1>3, <1>4 DEF DataOf, PayloadOf, Freezing
  <2>2. e.data.frozen.weights \in [weighed -> Nat] /\ e.data.frozen.rule \in Rules
    BY <2>1 DEF FreezeData
  <2> QED BY <2>1, <2>2 DEF FreezePayload
<1>5. ASSUME Registering(e)
      PROVE  e.event.payload.candidate_id \in Candidates /\ e.data.root \in Candidates
  <2>1. e.data \in [root : Candidates] /\ e.event.payload \in CandidatePayload
    BY <1>2, <1>3, <1>5 DEF DataOf, PayloadOf, Registering
  <2> QED BY <2>1 DEF CandidatePayload
<1>6. ASSUME Accepting(e) PROVE e.data.accepted \subseteq Obligations
  BY <1>2, <1>6 DEF DataOf, Accepting
<1>7. ASSUME Integrating(e) PROVE e.data.candidate \in Candidates
  BY <1>2, <1>7 DEF DataOf, Integrating
<1>8. ASSUME Enabling(e) PROVE e.data.suites \subseteq Suites
  BY <1>2, <1>8 DEF DataOf, Enabling
<1>9. ASSUME Persisting(e) PROVE e.data.confirmed \in Nat
  BY <1>2, <1>9 DEF DataOf, Persisting
<1>10. ASSUME Timing(e) PROVE e.data.hours \in Nat
  BY <1>2, <1>10 DEF DataOf, Timing
<1> QED BY <1>1, <1>4, <1>5, <1>6, <1>7, <1>8, <1>9, <1>10

\* The types are different.
LEMMA TypesDiffer ==
  ASSUME NEW e
  PROVE  /\ Freezing(e) => ~Registering(e) /\ ~Accepting(e) /\ ~Integrating(e) /\ ~Enabling(e)
                           /\ ~Persisting(e) /\ ~Regressing(e) /\ ~Timing(e)
         /\ Registering(e) => ~Accepting(e) /\ ~Integrating(e) /\ ~Enabling(e)
                              /\ ~Persisting(e) /\ ~Regressing(e) /\ ~Timing(e)
         /\ Accepting(e) => ~Integrating(e) /\ ~Enabling(e) /\ ~Persisting(e)
                            /\ ~Regressing(e) /\ ~Timing(e)
         /\ Integrating(e) => ~Enabling(e) /\ ~Persisting(e) /\ ~Regressing(e) /\ ~Timing(e)
         /\ Enabling(e) => ~Persisting(e) /\ ~Regressing(e) /\ ~Timing(e)
         /\ Persisting(e) => ~Regressing(e) /\ ~Timing(e)
         /\ Regressing(e) => ~Timing(e)
BY DEF Freezing, Registering, Accepting, Integrating, Enabling, Persisting, Regressing, Timing

-----------------------------------------------------------------------------
(* A longer ledger *)

\* m is l and one entry e more.
Longer(l, m, e) ==
    /\ DOMAIN l \subseteq Int /\ IsFiniteSet(DOMAIN l) /\ Len(m) \in Int
    /\ DOMAIN m = DOMAIN l \cup {Len(m)} /\ Len(m) \notin DOMAIN l
    /\ \A i \in DOMAIN l : m[i] = l[i] /\ i < Len(m) /\ ~(Len(m) < i)
    /\ m[Len(m)] = e

LEMMA AppendIsLonger ==
  ASSUME NEW S, NEW l \in Seq(S), NEW e \in S
  PROVE  Longer(l, Append(l, e), e) /\ Append(l, e) \in Seq(S) /\ Len(Append(l, e)) = Len(l) + 1
<1>1. /\ Append(l, e) \in Seq(S) /\ Len(Append(l, e)) = Len(l) + 1 /\ Len(l) \in Nat
      /\ DOMAIN l = 1 .. Len(l) /\ DOMAIN Append(l, e) = 1 .. Len(l) + 1
      /\ \A i \in 1 .. Len(l) : Append(l, e)[i] = l[i]
      /\ Append(l, e)[Len(l) + 1] = e
  BY AppendProperties, LenProperties
<1>2. IsFiniteSet(DOMAIN l)
  BY <1>1, FS_Interval
<1>3. \A n \in Nat : 1 .. n + 1 = 1 .. n \cup {n + 1} /\ n + 1 \notin 1 .. n
  OBVIOUS
<1>4. \A i \in 1 .. Len(l) : i < Len(l) + 1 /\ ~(Len(l) + 1 < i)
  BY <1>1
<1> QED BY <1>1, <1>2, <1>3, <1>4 DEF Longer

\* The entries found in the longer ledger are those found in l, and perhaps e.
Found(p, n) == IF p THEN {n} ELSE {}

LEMMA NamingLonger ==
  ASSUME NEW l, NEW m, NEW e, Longer(l, m, e), NEW type, NEW o
  PROVE  /\ OfEntryType(m, type) = OfEntryType(l, type) \cup Found(e.event.type = type, Len(m))
         /\ Naming(m, type, o) =
               Naming(l, type, o) \cup Found(e.event.type = type /\ o \in e.obligations, Len(m))
         /\ OfEntryType(l, type) \subseteq DOMAIN l /\ Naming(l, type, o) \subseteq DOMAIN l
<1>1. OfEntryType(m, type) = OfEntryType(l, type) \cup Found(e.event.type = type, Len(m))
  BY DEF OfEntryType, Longer, Found
<1>2. OfEntryType(l, type) \subseteq DOMAIN l
  BY DEF OfEntryType
<1>3. ASSUME NEW i
      PROVE  i \in Naming(m, type, o) <=>
                i \in Naming(l, type, o) \cup Found(e.event.type = type /\ o \in e.obligations, Len(m))
  BY <1>1, <1>2 DEF Naming, Longer, Found
<1> QED BY <1>1, <1>2, <1>3 DEF Naming

LEMMA FreezesLonger ==
  ASSUME NEW l, NEW m, NEW e, Longer(l, m, e), NEW o
  PROVE  /\ FreezesOf(m, o) =
               FreezesOf(l, o) \cup Found(Freezing(e) /\ o \in DOMAIN e.data.frozen.weights, Len(m))
         /\ FreezesOf(l, o) \subseteq DOMAIN l
<1>1. /\ OfEntryType(m, "OBLIGATION_FROZEN") =
            OfEntryType(l, "OBLIGATION_FROZEN") \cup Found(Freezing(e), Len(m))
      /\ OfEntryType(l, "OBLIGATION_FROZEN") \subseteq DOMAIN l
  BY DEF OfEntryType, Longer, Found, Freezing
<1>2. ASSUME NEW i
      PROVE  i \in FreezesOf(m, o) <=>
                i \in FreezesOf(l, o) \cup Found(Freezing(e) /\ o \in DOMAIN e.data.frozen.weights, Len(m))
  BY <1>1 DEF FreezesOf, Longer, Found
<1> QED BY <1>1, <1>2 DEF FreezesOf

\* What was before an entry of l still is, and everything is before e.
LEMMA BeforeLonger ==
  ASSUME NEW l, NEW m, NEW e, Longer(l, m, e), NEW found, found \subseteq DOMAIN l, NEW p \in BOOLEAN
  PROVE  /\ \A i \in DOMAIN l : Before(i, found \cup Found(p, Len(m))) = Before(i, found)
         /\ Before(Len(m), found \cup Found(p, Len(m))) = found
<1>1. ASSUME NEW i \in DOMAIN l, NEW k
      PROVE  k \in Before(i, found \cup Found(p, Len(m))) <=> k \in Before(i, found)
  BY DEF Before, Longer, Found
<1>2. ASSUME NEW k
      PROVE  k \in Before(Len(m), found \cup Found(p, Len(m))) <=> k \in found
  <2>1. ~(Len(m) < Len(m))
    BY DEF Longer
  <2> QED BY <2>1 DEF Before, Longer, Found
<1>3. ASSUME NEW i \in DOMAIN l
      PROVE  Before(i, found \cup Found(p, Len(m))) = Before(i, found)
  BY <1>1
<1>4. Before(Len(m), found \cup Found(p, Len(m))) = found
  BY <1>2
<1> QED BY <1>3, <1>4

\* Integrated is what was registered last, or its root, or nothing was registered.
Agrees(e, l, registered) ==
    registered # {} =>
        e.data.candidate \in
            {l[Max(registered)].event.payload.candidate_id, l[Max(registered)].data.root}

Registered(l, o) == Naming(l, "CANDIDATE_REGISTERED", o)

\* The last of some entries of l is one of them, in the longer ledger too.
LEMMA LastLonger ==
  ASSUME NEW l, NEW m, NEW e, Longer(l, m, e), NEW found, found \subseteq DOMAIN l, found # {}
  PROVE  /\ Max(found) \in found /\ \A i \in found : i <= Max(found)
         /\ m[Max(found)] = l[Max(found)]
<1>1. found \in SUBSET Int /\ IsFiniteSet(found)
  BY FS_Subset DEF Longer
<1>2. Max(found) \in found /\ \A i \in found : i <= Max(found)
  BY <1>1, MaxIsGreatest
<1> QED BY <1>2 DEF Longer

LEMMA AgreesLonger ==
  ASSUME NEW l, NEW m, NEW e, Longer(l, m, e), NEW found, found \subseteq DOMAIN l, NEW d
  PROVE  Agrees(d, m, found) <=> Agrees(d, l, found)
<1>1. CASE found = {}
  BY <1>1 DEF Agrees
<1>2. CASE found # {}
  BY <1>2, LastLonger DEF Agrees
<1> QED BY <1>1, <1>2

LEMMA IntegrationsLonger ==
  ASSUME NEW l, NEW m, NEW e, Longer(l, m, e), NEW o
  PROVE  /\ IntegrationsOf(m, o) =
               IntegrationsOf(l, o) \cup
               Found(Integrating(e) /\ o \in e.obligations /\ Agrees(e, l, Registered(l, o)), Len(m))
         /\ IntegrationsOf(l, o) \subseteq DOMAIN l
<1> DEFINE type == "INTEGRATION_CONFIRMED"
           earlier(k, i) == Before(i, Registered(k, o))
           p == Registering(e) /\ o \in e.obligations
<1>1. \A k : IntegrationsOf(k, o) = {i \in Naming(k, type, o) : Agrees(k[i], k, earlier(k, i))}
  BY DEF IntegrationsOf, Agrees, Registered
<1>2. /\ Naming(m, type, o) =
            Naming(l, type, o) \cup Found(Integrating(e) /\ o \in e.obligations, Len(m))
      /\ Naming(l, type, o) \subseteq DOMAIN l
  BY NamingLonger DEF Integrating
<1>3. /\ Registered(m, o) = Registered(l, o) \cup Found(p, Len(m))
      /\ Registered(l, o) \subseteq DOMAIN l
  BY NamingLonger DEF Registered, Registering
<1>4. /\ \A i \in DOMAIN l : earlier(m, i) = earlier(l, i)
      /\ earlier(m, Len(m)) = Registered(l, o)
  <2>1. p \in BOOLEAN
    OBVIOUS
  <2> HIDE DEF p
  <2> QED BY <1>3, <2>1, BeforeLonger
<1>5. \A i \in DOMAIN l : Agrees(m[i], m, earlier(m, i)) <=> Agrees(l[i], l, earlier(l, i))
  <2>1. ASSUME NEW i \in DOMAIN l
        PROVE  Agrees(l[i], m, earlier(l, i)) <=> Agrees(l[i], l, earlier(l, i))
    <3>1. earlier(l, i) \subseteq DOMAIN l
      BY <1>3 DEF Before
    <3> HIDE DEF earlier
    <3> QED BY <3>1, AgreesLonger
  <2>2. \A i \in DOMAIN l : m[i] = l[i]
    BY DEF Longer
  <2> QED BY <1>4, <2>1, <2>2
<1>6. Agrees(m[Len(m)], m, earlier(m, Len(m))) <=> Agrees(e, l, Registered(l, o))
  BY <1>3, <1>4, AgreesLonger DEF Longer
<1> HIDE DEF earlier, type
<1>7. ASSUME NEW i
      PROVE  i \in IntegrationsOf(m, o) <=>
                i \in IntegrationsOf(l, o) \cup
                Found(Integrating(e) /\ o \in e.obligations /\ Agrees(e, l, Registered(l, o)), Len(m))
  <2>1. Len(m) \notin DOMAIN l
    BY DEF Longer
  <2>2. CASE i \in DOMAIN l
    BY <1>1, <1>2, <1>5, <2>1, <2>2 DEF Found
  <2>3. CASE i = Len(m)
    BY <1>1, <1>2, <1>6, <2>1, <2>3 DEF Found
  <2>4. CASE i \notin DOMAIN l /\ i # Len(m)
    BY <1>1, <1>2, <2>4 DEF Found
  <2> QED BY <2>2, <2>3, <2>4
<1> QED BY <1>1, <1>2, <1>7

Revoking(e, l, freezes) == e.data.blocking /\ \A f \in freezes : l[f].data.frozen.rule.revoke

LEMMA RevocationsLonger ==
  ASSUME NEW l, NEW m, NEW e, Longer(l, m, e), NEW o
  PROVE  /\ RevocationsOf(m, o) =
               RevocationsOf(l, o) \cup
               Found(Regressing(e) /\ o \in e.obligations /\ Revoking(e, l, FreezesOf(l, o)), Len(m))
         /\ RevocationsOf(l, o) \subseteq DOMAIN l
<1> DEFINE type == "REGRESSION_DETECTED"
           earlier(k, i) == Before(i, FreezesOf(k, o))
           p == Freezing(e) /\ o \in DOMAIN e.data.frozen.weights
<1>1. \A k : RevocationsOf(k, o) = {i \in Naming(k, type, o) : Revoking(k[i], k, earlier(k, i))}
  BY DEF RevocationsOf, Revoking
<1>2. /\ Naming(m, type, o) =
            Naming(l, type, o) \cup Found(Regressing(e) /\ o \in e.obligations, Len(m))
      /\ Naming(l, type, o) \subseteq DOMAIN l
  BY NamingLonger DEF Regressing
<1>3. /\ FreezesOf(m, o) = FreezesOf(l, o) \cup Found(p, Len(m))
      /\ FreezesOf(l, o) \subseteq DOMAIN l
  BY FreezesLonger
<1>4. /\ \A i \in DOMAIN l : earlier(m, i) = earlier(l, i) /\ earlier(l, i) \subseteq DOMAIN l
      /\ earlier(m, Len(m)) = FreezesOf(l, o)
  <2>1. p \in BOOLEAN
    OBVIOUS
  <2>2. \A i : earlier(l, i) \subseteq DOMAIN l
    BY <1>3 DEF Before
  <2> HIDE DEF p
  <2> QED BY <1>3, <2>1, <2>2, BeforeLonger
<1> HIDE DEF earlier, type
<1>5. \A i \in DOMAIN l : Revoking(m[i], m, earlier(m, i)) <=> Revoking(l[i], l, earlier(l, i))
  BY <1>4 DEF Revoking, Longer
<1>6. Revoking(m[Len(m)], m, earlier(m, Len(m))) <=> Revoking(e, l, FreezesOf(l, o))
  BY <1>3, <1>4 DEF Revoking, Longer
<1>7. ASSUME NEW i
      PROVE  i \in RevocationsOf(m, o) <=>
                i \in RevocationsOf(l, o) \cup
                Found(Regressing(e) /\ o \in e.obligations /\ Revoking(e, l, FreezesOf(l, o)), Len(m))
  <2>1. Len(m) \notin DOMAIN l
    BY DEF Longer
  <2>2. CASE i \in DOMAIN l
    BY <1>1, <1>2, <1>5, <2>1, <2>2 DEF Found
  <2>3. CASE i = Len(m)
    BY <1>1, <1>2, <1>6, <2>1, <2>3 DEF Found
  <2>4. CASE i \notin DOMAIN l /\ i # Len(m)
    BY <1>1, <1>2, <2>4 DEF Found
  <2> QED BY <2>2, <2>3, <2>4
<1> QED BY <1>1, <1>2, <1>7

LEMMA SuitesLonger ==
  ASSUME NEW l, NEW m, NEW e, Longer(l, m, e), NEW o
  PROVE  SuitesOf(m, o) =
            IF Enabling(e) /\ o \in e.obligations THEN SuitesOf(l, o) \cup e.data.suites
            ELSE SuitesOf(l, o)
<1> DEFINE type == "DOWNSTREAM_ENABLED"
<1>1. /\ Naming(m, type, o) =
            Naming(l, type, o) \cup Found(Enabling(e) /\ o \in e.obligations, Len(m))
      /\ Naming(l, type, o) \subseteq DOMAIN l
  BY NamingLonger DEF Enabling
<1>2. \A k, s : s \in SuitesOf(k, o) <=> \E i \in Naming(k, type, o) : s \in k[i].data.suites
  BY DEF SuitesOf
<1>3. /\ Len(m) \notin DOMAIN l /\ m[Len(m)] = e
      /\ \A i \in DOMAIN l : m[i] = l[i]
  BY DEF Longer
<1> HIDE DEF type
<1>4. CASE Enabling(e) /\ o \in e.obligations
  <2>1. Naming(m, type, o) = Naming(l, type, o) \cup {Len(m)}
    BY <1>1, <1>4 DEF Found
  <2>2. \A s : s \in SuitesOf(m, o) <=> s \in SuitesOf(l, o) \/ s \in e.data.suites
    BY <1>1, <1>2, <1>3, <2>1
  <2> QED BY <1>4, <2>2
<1>5. CASE ~(Enabling(e) /\ o \in e.obligations)
  <2>1. Naming(m, type, o) = Naming(l, type, o)
    BY <1>1, <1>5 DEF Found
  <2>2. \A s : s \in SuitesOf(m, o) <=> s \in SuitesOf(l, o)
    BY <1>1, <1>2, <1>3, <2>1
  <2> QED BY <1>5, <2>2
<1> QED BY <1>4, <1>5

-----------------------------------------------------------------------------
(* Offending entries *)

\* Entry e must not come after these freezes and integrations of o.
Bad(e, l, o, freezes, integrations) ==
    \/ Freezing(e) /\ o \in DOMAIN e.data.frozen.weights /\ freezes # {}
    \/ Registering(e) /\ o \in e.obligations /\ ~\E f \in freezes : l[f].day <= e.day
    \/ /\ Persisting(e) /\ o \in e.obligations
       /\ \/ integrations = {}
          \/ \E f \in freezes :
                /\ l[f].data.frozen.rule.calendar /\ ~e.data.elapsed
                /\ e.data.confirmed < l[f].day + l[f].data.frozen.rule.threshold

\* Entry e must not be there at all.
Unsupported(e) == (Accepting(e) /\ ~e.data.grounded) \/ (Timing(e) /\ ~e.data.known)

LEMMA OffendsIsBad ==
  ASSUME NEW l, NEW i \in DOMAIN l
  PROVE  Offends(l, i) <=>
            \/ Unsupported(l[i])
            \/ \E o \in Obligations :
                  Bad(l[i], l, o, Before(i, FreezesOf(l, o)), Before(i, IntegrationsOf(l, o)))
<1>1. /\ \A o : i \in FreezesOf(l, o) <=> Freezing(l[i]) /\ o \in DOMAIN l[i].data.frozen.weights
      /\ \A o : i \in Naming(l, "CANDIDATE_REGISTERED", o) <=>
                    Registering(l[i]) /\ o \in l[i].obligations
      /\ \A o : i \in Naming(l, "PERSISTENCE_CONFIRMED", o) <=>
                    Persisting(l[i]) /\ o \in l[i].obligations
      /\ i \in OfEntryType(l, "ARTIFACT_ACCEPTED") <=> Accepting(l[i])
      /\ i \in OfEntryType(l, "EXPERT_TIME_RECORDED") <=> Timing(l[i])
  BY DEF FreezesOf, Naming, OfEntryType, Freezing, Registering, Persisting, Accepting, Timing
<1> QED BY <1>1 DEF Offends, Bad, Unsupported

LEMMA BadLonger ==
  ASSUME NEW l, NEW m, NEW e, Longer(l, m, e), NEW freezes, freezes \subseteq DOMAIN l,
         NEW d, NEW o, NEW integrations
  PROVE  Bad(d, m, o, freezes, integrations) <=> Bad(d, l, o, freezes, integrations)
<1>1. \A f \in freezes : m[f] = l[f]
  BY DEF Longer
<1> QED BY <1>1 DEF Bad

\* Whether an entry offends depends on the entries before it only.
LEMMA OffendsLonger ==
  ASSUME NEW l, NEW m, NEW e, Longer(l, m, e)
  PROVE  /\ \A i \in DOMAIN l : Offends(m, i) <=> Offends(l, i)
         /\ Offends(m, Len(m)) <=>
               \/ Unsupported(e)
               \/ \E o \in Obligations : Bad(e, l, o, FreezesOf(l, o), IntegrationsOf(l, o))
<1>1. \A o : /\ \A i \in DOMAIN l :
                   /\ Before(i, FreezesOf(m, o)) = Before(i, FreezesOf(l, o))
                   /\ Before(i, IntegrationsOf(m, o)) = Before(i, IntegrationsOf(l, o))
             /\ Before(Len(m), FreezesOf(m, o)) = FreezesOf(l, o)
             /\ Before(Len(m), IntegrationsOf(m, o)) = IntegrationsOf(l, o)
             /\ FreezesOf(l, o) \subseteq DOMAIN l
             /\ \A i : Before(i, FreezesOf(l, o)) \subseteq DOMAIN l
  <2> TAKE o
  <2> DEFINE p == Freezing(e) /\ o \in DOMAIN e.data.frozen.weights
             q == Integrating(e) /\ o \in e.obligations /\ Agrees(e, l, Registered(l, o))
  <2>1. /\ FreezesOf(m, o) = FreezesOf(l, o) \cup Found(p, Len(m))
        /\ FreezesOf(l, o) \subseteq DOMAIN l /\ p \in BOOLEAN
    BY FreezesLonger
  <2>2. /\ IntegrationsOf(m, o) = IntegrationsOf(l, o) \cup Found(q, Len(m))
        /\ IntegrationsOf(l, o) \subseteq DOMAIN l /\ q \in BOOLEAN
    BY IntegrationsLonger
  <2>3. \A i : Before(i, FreezesOf(l, o)) \subseteq DOMAIN l
    BY <2>1 DEF Before
  <2> HIDE DEF p, q
  <2>4. /\ \A i \in DOMAIN l : Before(i, FreezesOf(m, o)) = Before(i, FreezesOf(l, o))
        /\ Before(Len(m), FreezesOf(m, o)) = FreezesOf(l, o)
    BY <2>1, BeforeLonger
  <2>5. /\ \A i \in DOMAIN l : Before(i, IntegrationsOf(m, o)) = Before(i, IntegrationsOf(l, o))
        /\ Before(Len(m), IntegrationsOf(m, o)) = IntegrationsOf(l, o)
    BY <2>2, BeforeLonger
  <2> QED BY <2>1, <2>3, <2>4, <2>5
<1>2. ASSUME NEW i \in DOMAIN l
      PROVE  Offends(m, i) <=> Offends(l, i)
  <2>1. m[i] = l[i] /\ i \in DOMAIN m
    BY DEF Longer
  <2>2. \A o : Bad(l[i], m, o, Before(i, FreezesOf(m, o)), Before(i, IntegrationsOf(m, o)))
               <=> Bad(l[i], l, o, Before(i, FreezesOf(l, o)), Before(i, IntegrationsOf(l, o)))
    <3> TAKE o
    <3> DEFINE F == Before(i, FreezesOf(l, o))
               I == Before(i, IntegrationsOf(l, o))
    <3>1. /\ Before(i, FreezesOf(m, o)) = F /\ Before(i, IntegrationsOf(m, o)) = I
          /\ F \subseteq DOMAIN l
      BY <1>1
    <3> HIDE DEF F, I
    <3>2. Bad(l[i], m, o, F, I) <=> Bad(l[i], l, o, F, I)
      BY <3>1, BadLonger
    <3> QED BY <3>1, <3>2 DEF F, I
  <2> QED BY <2>1, <2>2, OffendsIsBad
<1>3. Offends(m, Len(m)) <=>
               \/ Unsupported(e)
               \/ \E o \in Obligations : Bad(e, l, o, FreezesOf(l, o), IntegrationsOf(l, o))
  <2>1. m[Len(m)] = e /\ Len(m) \in DOMAIN m
    BY DEF Longer
  <2>2. \A o : Bad(e, m, o, FreezesOf(l, o), IntegrationsOf(l, o))
               <=> Bad(e, l, o, FreezesOf(l, o), IntegrationsOf(l, o))
    BY <1>1, BadLonger
  <2> QED BY <1>1, <2>1, <2>2, OffendsIsBad
<1> QED BY <1>2, <1>3

-----------------------------------------------------------------------------
(* What the state of an obligation means *)

FreezeMeans(l, o, s) ==
    /\ s.freeze = None <=> FreezesOf(l, o) = {}
    /\ FreezesOf(l, o) = {} => s.rule.revoke
    /\ \A f \in FreezesOf(l, o) :
          /\ FreezesOf(l, o) = {f}
          /\ s.freeze = l[f].event.payload.freeze_id
          /\ s.weight = l[f].data.frozen.weights[o]
          /\ s.frozenOn = l[f].day
          /\ s.rule = l[f].data.frozen.rule

CandidateMeans(l, o, s) ==
    /\ Registered(l, o) = {} => s.candidate = None /\ s.root = None /\ s.registeredOn = None
    /\ Registered(l, o) # {} =>
          /\ s.candidate = l[Max(Registered(l, o))].event.payload.candidate_id
          /\ s.root = l[Max(Registered(l, o))].data.root
          /\ s.candidate # None /\ s.registeredOn \in Nat
          /\ s.freeze # None /\ s.frozenOn <= s.registeredOn

WorkMeans(l, o, s) ==
    /\ s.accepted <=> \E i \in OfEntryType(l, "ARTIFACT_ACCEPTED") : o \in AcceptedBy(l[i])
    /\ s.integration <=> IntegrationsOf(l, o) # {}
    /\ s.suites = SuitesOf(l, o)
    /\ s.regression <=> RevocationsOf(l, o) # {}
    /\ ~s.regression => (s.persistence <=> Naming(l, "PERSISTENCE_CONFIRMED", o) # {})

Means(l, o, s) == FreezeMeans(l, o, s) /\ CandidateMeans(l, o, s) /\ WorkMeans(l, o, s)

TpprInv ==
    /\ ledger \in Seq(Submissions)
    /\ tally \in Tallies
    /\ tally.refused <=> \E i \in DOMAIN ledger : Offends(ledger, i)
    /\ ~tally.refused => \A o \in Obligations : Means(ledger, o, tally.of[o])

-----------------------------------------------------------------------------
(* One round of the fold *)

\* The metric objects to exactly the entries that offend.
LEMMA ObjectsToBad ==
  ASSUME NEW l, NEW t \in Tallies, NEW e, IsEntry(e),
         \A o \in Obligations : Means(l, o, t.of[o]),
         Freezing(e) => \A i \in DOMAIN l : Freezing(l[i]) =>
             l[i].event.payload.freeze_id # e.event.payload.freeze_id
  PROVE  Objects(t, e) <=>
            \/ Unsupported(e)
            \/ \E o \in Obligations : Bad(e, l, o, FreezesOf(l, o), IntegrationsOf(l, o))
<1>1. /\ \A o \in Obligations : t.of[o] \in ObligationStates
      /\ \A o : FreezesOf(l, o) \subseteq DOMAIN l
  BY DEF Tallies, FreezesOf, OfEntryType
<1>2. CASE Freezing(e)
  <2>1. DOMAIN e.data.frozen.weights \subseteq Obligations
    BY <1>2, EntryData
  <2>2. ASSUME NEW o \in DOMAIN e.data.frozen.weights
        PROVE  Reweighs(t.of[o], e, o) <=> FreezesOf(l, o) # {}
    <3>1. o \in Obligations /\ FreezeMeans(l, o, t.of[o])
      BY <2>1 DEF Means
    <3>2. ASSUME FreezesOf(l, o) # {} PROVE Reweighs(t.of[o], e, o)
      <4>1. PICK f \in FreezesOf(l, o) : TRUE
        BY <3>2
      <4>2. f \in DOMAIN l /\ Freezing(l[f])
        BY DEF FreezesOf, OfEntryType, Freezing
      <4>3. t.of[o].freeze # None /\ t.of[o].freeze = l[f].event.payload.freeze_id
        BY <3>1, <3>2 DEF FreezeMeans
      <4> QED BY <1>2, <4>2, <4>3 DEF Reweighs
    <3>3. ASSUME FreezesOf(l, o) = {} PROVE ~Reweighs(t.of[o], e, o)
      BY <3>1, <3>3 DEF FreezeMeans, Reweighs
    <3> QED BY <3>2, <3>3
  <2>3. Objects(t, e) <=> \E o \in DOMAIN e.data.frozen.weights : Reweighs(t.of[o], e, o)
    BY <1>2 DEF Objects, Freezing
  <2>4. ~Unsupported(e) /\ ~Registering(e) /\ ~Persisting(e)
    BY <1>2, TypesDiffer DEF Unsupported
  <2> QED BY <1>2, <2>1, <2>2, <2>3, <2>4 DEF Bad
<1>3. CASE Registering(e)
  <2>1. e.obligations \subseteq Obligations /\ e.day \in Nat
    BY EntryData
  <2>2. ASSUME NEW o \in e.obligations
        PROVE  (t.of[o].freeze = None \/ e.day < t.of[o].frozenOn)
                  <=> ~\E f \in FreezesOf(l, o) : l[f].day <= e.day
    <3>1. o \in Obligations /\ FreezeMeans(l, o, t.of[o]) /\ t.of[o].frozenOn \in Nat
      BY <1>1, <2>1 DEF Means, ObligationStates
    <3>2. CASE FreezesOf(l, o) = {}
      BY <3>1, <3>2 DEF FreezeMeans
    <3>3. CASE FreezesOf(l, o) # {}
      <4>1. PICK f : FreezesOf(l, o) = {f}
        BY <3>1, <3>3 DEF FreezeMeans
      <4>2. t.of[o].freeze # None /\ t.of[o].frozenOn = l[f].day
        BY <3>1, <4>1 DEF FreezeMeans
      <4> QED BY <2>1, <3>1, <4>1, <4>2
    <3> QED BY <3>2, <3>3
  <2>3. Objects(t, e) <=>
            \E o \in e.obligations : t.of[o].freeze = None \/ e.day < t.of[o].frozenOn
    BY <1>3 DEF Objects, Registering
  <2>4. ~Unsupported(e) /\ ~Freezing(e) /\ ~Persisting(e)
    BY <1>3, TypesDiffer DEF Unsupported
  <2> QED BY <1>3, <2>1, <2>2, <2>3, <2>4 DEF Bad
<1>4. CASE Accepting(e)
  <2>1. ~Freezing(e) /\ ~Registering(e) /\ ~Persisting(e) /\ ~Timing(e)
    BY <1>4, TypesDiffer
  <2>2. Objects(t, e) <=> ~e.data.grounded
    BY <1>4 DEF Objects, Accepting
  <2> QED BY <1>4, <2>1, <2>2 DEF Bad, Unsupported
<1>5. CASE Persisting(e)
  <2>1. e.obligations \subseteq Obligations /\ e.data.confirmed \in Nat
    BY <1>5, EntryData
  <2>2. ASSUME NEW o \in e.obligations
        PROVE  (~t.of[o].integration \/ TooEarly(t.of[o], e))
                  <=> \/ IntegrationsOf(l, o) = {}
                      \/ \E f \in FreezesOf(l, o) :
                            /\ l[f].data.frozen.rule.calendar /\ ~e.data.elapsed
                            /\ e.data.confirmed < l[f].day + l[f].data.frozen.rule.threshold
    <3> DEFINE s == t.of[o]
    <3>1. o \in Obligations /\ Means(l, o, s) /\ s \in ObligationStates
      BY <1>1, <2>1
    <3> HIDE DEF s
    <3>2. ~s.integration <=> IntegrationsOf(l, o) = {}
      BY <3>1 DEF Means, WorkMeans
    <3>3. CASE FreezesOf(l, o) = {}
      <4>1. s.freeze = None
        BY <3>1, <3>3 DEF Means, FreezeMeans
      <4> QED BY <3>2, <3>3, <4>1 DEF TooEarly, s
    <3>4. CASE FreezesOf(l, o) # {}
      <4>1. PICK f : FreezesOf(l, o) = {f}
        BY <3>1, <3>4 DEF Means, FreezeMeans
      <4>2. s.freeze # None /\ s.frozenOn = l[f].day /\ s.rule = l[f].data.frozen.rule
        BY <3>1, <4>1 DEF Means, FreezeMeans
      <4>3. s.frozenOn \in Nat /\ s.rule.threshold \in Nat
        BY <3>1 DEF ObligationStates, Rules
      <4>4. WindowOf(s, e.data.confirmed) = e.data.confirmed - s.frozenOn
        <5>1. CASE s.registeredOn = None
          BY <5>1 DEF WindowOf
        <5>2. CASE s.registeredOn # None
          <6>1. s.registeredOn \in Nat /\ s.frozenOn <= s.registeredOn
            BY <3>1, <5>2 DEF Means, CandidateMeans
          <6>2. Max({e.data.confirmed - s.frozenOn, e.data.confirmed - s.registeredOn})
                   = e.data.confirmed - s.frozenOn
            BY <2>1, <4>3, <6>1, MaxOfTwo
          <6> QED BY <5>2, <6>2 DEF WindowOf
        <5> QED BY <5>1, <5>2
      <4>5. TooEarly(s, e) <=>
               /\ l[f].data.frozen.rule.calendar /\ ~e.data.elapsed
               /\ e.data.confirmed < l[f].day + l[f].data.frozen.rule.threshold
        BY <2>1, <4>2, <4>3, <4>4 DEF TooEarly
      <4> QED BY <3>2, <4>1, <4>5 DEF s
    <3> QED BY <3>3, <3>4
  <2>3. Objects(t, e) <=>
            \E o \in e.obligations : ~t.of[o].integration \/ TooEarly(t.of[o], e)
    BY <1>5 DEF Objects, Persisting
  <2>4. ~Unsupported(e) /\ ~Freezing(e) /\ ~Registering(e)
    BY <1>5, TypesDiffer DEF Unsupported
  <2> QED BY <1>5, <2>1, <2>2, <2>3, <2>4 DEF Bad
<1>6. CASE Timing(e)
  <2>1. ~Freezing(e) /\ ~Registering(e) /\ ~Persisting(e) /\ ~Accepting(e)
    BY <1>6, TypesDiffer
  <2>2. Objects(t, e) <=> ~e.data.known
    BY <1>6 DEF Objects, Timing
  <2> QED BY <1>6, <2>1, <2>2 DEF Bad, Unsupported
<1>7. CASE ~Freezing(e) /\ ~Registering(e) /\ ~Accepting(e) /\ ~Persisting(e) /\ ~Timing(e)
  <2>1. ~Objects(t, e)
    BY <1>7 DEF Objects, Freezing, Registering, Accepting, Persisting, Timing
  <2> QED BY <1>7, <2>1 DEF Bad, Unsupported
<1> QED BY <1>2, <1>3, <1>4, <1>5, <1>6, <1>7

\* The states of an obligation an event leads to.
Frozen(s, e, o) ==
    [s EXCEPT !.freeze = e.event.payload.freeze_id, !.weight = e.data.frozen.weights[o],
              !.frozenOn = e.day, !.rule = e.data.frozen.rule]

Assigned(s, e) ==
    [s EXCEPT !.candidate = e.event.payload.candidate_id, !.root = e.data.root,
              !.registeredOn = e.day]

Accepted(s)   == [s EXCEPT !.accepted = TRUE]
Integrated(s) == [s EXCEPT !.integration = TRUE]
Enabled(s, e) == [s EXCEPT !.suites = @ \cup e.data.suites]
Persisted(s)  == [s EXCEPT !.persistence = TRUE]
Revoked(s)    == [s EXCEPT !.regression = TRUE, !.persistence = FALSE]

\* A regression of o that its policy does not let pass.
Revokes(s, e, o) == Regressing(e) /\ o \in e.obligations /\ e.data.blocking /\ s.rule.revoke

LEMMA StateAfterFields ==
  ASSUME NEW s \in ObligationStates, NEW e, NEW o
  PROVE  /\ (Freezing(e) /\ o \in DOMAIN e.data.frozen.weights) =>
               StateAfter(s, e, o) = Frozen(s, e, o)
         /\ (Registering(e) /\ o \in e.obligations) => StateAfter(s, e, o) = Assigned(s, e)
         /\ (Accepting(e) /\ o \in AcceptedBy(e)) => StateAfter(s, e, o) = Accepted(s)
         /\ (Integrating(e) /\ o \in e.obligations /\ Integrates(s, e)) => StateAfter(s, e, o) = Integrated(s)
         /\ (Enabling(e) /\ o \in e.obligations) => StateAfter(s, e, o) = Enabled(s, e)
         /\ (Persisting(e) /\ o \in e.obligations) => StateAfter(s, e, o) = Persisted(s)
         /\ Revokes(s, e, o) => StateAfter(s, e, o) = Revoked(s)
         /\ \/ Freezing(e) /\ o \in DOMAIN e.data.frozen.weights
            \/ Registering(e) /\ o \in e.obligations
            \/ Accepting(e) /\ o \in AcceptedBy(e)
            \/ Integrating(e) /\ o \in e.obligations /\ Integrates(s, e)
            \/ Enabling(e) /\ o \in e.obligations
            \/ Persisting(e) /\ o \in e.obligations
            \/ Revokes(s, e, o)
            \/ StateAfter(s, e, o) = s
<1> USE DEF Freezing, Registering, Accepting, Integrating, Enabling, Persisting, Regressing, Revokes
<1>1. (Freezing(e) /\ o \in DOMAIN e.data.frozen.weights) =>
         StateAfter(s, e, o) = Frozen(s, e, o)
  BY DEF StateAfter, Frozen
<1>2. (Registering(e) /\ o \in e.obligations) => StateAfter(s, e, o) = Assigned(s, e)
  BY DEF StateAfter, Assigned
<1>3. (Accepting(e) /\ o \in AcceptedBy(e)) => StateAfter(s, e, o) = Accepted(s)
  BY DEF StateAfter, Accepted
<1>4. (Integrating(e) /\ o \in e.obligations /\ Integrates(s, e)) => StateAfter(s, e, o) = Integrated(s)
  BY DEF StateAfter, Integrated
<1>5. (Enabling(e) /\ o \in e.obligations) => StateAfter(s, e, o) = Enabled(s, e)
  BY DEF StateAfter, Enabled
<1>6. (Persisting(e) /\ o \in e.obligations) => StateAfter(s, e, o) = Persisted(s)
  BY DEF StateAfter, Persisted
<1>7. Revokes(s, e, o) => StateAfter(s, e, o) = Revoked(s)
  BY DEF StateAfter, Revoked
<1>8. \/ Freezing(e) /\ o \in DOMAIN e.data.frozen.weights
      \/ Registering(e) /\ o \in e.obligations
      \/ Accepting(e) /\ o \in AcceptedBy(e)
      \/ Integrating(e) /\ o \in e.obligations /\ Integrates(s, e)
      \/ Enabling(e) /\ o \in e.obligations
      \/ Persisting(e) /\ o \in e.obligations
      \/ Revokes(s, e, o)
      \/ StateAfter(s, e, o) = s
  BY DEF StateAfter
<1> QED BY <1>1, <1>2, <1>3, <1>4, <1>5, <1>6, <1>7, <1>8

LEMMA StateAfterType ==
  ASSUME NEW s \in ObligationStates, NEW e, IsEntry(e), NEW o
  PROVE  StateAfter(s, e, o) \in ObligationStates
<1>1. CASE Freezing(e) /\ o \in DOMAIN e.data.frozen.weights
  <2>1. StateAfter(s, e, o) = Frozen(s, e, o)
    BY <1>1, StateAfterFields
  <2>2. /\ e.event.payload.freeze_id \in Freezes /\ e.data.frozen.weights[o] \in Nat
        /\ e.day \in Nat /\ e.data.frozen.rule \in Rules
    BY <1>1, EntryData
  <2> QED BY <2>1, <2>2 DEF ObligationStates, Frozen
<1>2. CASE Registering(e) /\ o \in e.obligations
  <2>1. StateAfter(s, e, o) = Assigned(s, e)
    BY <1>2, StateAfterFields
  <2>2. /\ e.event.payload.candidate_id \in Candidates /\ e.data.root \in Candidates
        /\ e.day \in Nat
    BY <1>2, EntryData
  <2> QED BY <2>1, <2>2 DEF ObligationStates, Assigned
<1>3. CASE Accepting(e) /\ o \in AcceptedBy(e)
  <2>1. StateAfter(s, e, o) = Accepted(s)
    BY <1>3, StateAfterFields
  <2> QED BY <2>1 DEF ObligationStates, Accepted
<1>4. CASE Integrating(e) /\ o \in e.obligations /\ Integrates(s, e)
  <2>1. StateAfter(s, e, o) = Integrated(s)
    BY <1>4, StateAfterFields
  <2> QED BY <2>1 DEF ObligationStates, Integrated
<1>5. CASE Enabling(e) /\ o \in e.obligations
  <2>1. StateAfter(s, e, o) = Enabled(s, e)
    BY <1>5, StateAfterFields
  <2>2. e.data.suites \subseteq Suites
    BY <1>5, EntryData
  <2> QED BY <2>1, <2>2 DEF ObligationStates, Enabled
<1>6. CASE Persisting(e) /\ o \in e.obligations
  <2>1. StateAfter(s, e, o) = Persisted(s)
    BY <1>6, StateAfterFields
  <2> QED BY <2>1 DEF ObligationStates, Persisted
<1>7. CASE Revokes(s, e, o)
  <2>1. StateAfter(s, e, o) = Revoked(s)
    BY <1>7, StateAfterFields
  <2> QED BY <2>1 DEF ObligationStates, Revoked
<1>8. CASE StateAfter(s, e, o) = s
  BY <1>8
<1>9. \/ Freezing(e) /\ o \in DOMAIN e.data.frozen.weights
      \/ Registering(e) /\ o \in e.obligations
      \/ Accepting(e) /\ o \in AcceptedBy(e)
      \/ Integrating(e) /\ o \in e.obligations /\ Integrates(s, e)
      \/ Enabling(e) /\ o \in e.obligations
      \/ Persisting(e) /\ o \in e.obligations
      \/ Revokes(s, e, o)
      \/ StateAfter(s, e, o) = s
  BY StateAfterFields
<1> QED BY <1>1, <1>2, <1>3, <1>4, <1>5, <1>6, <1>7, <1>8, <1>9

\* t is s with the parts changed that entry e changes for o.
Parts(s, e, o, t) ==
    /\ IF Freezing(e) /\ o \in DOMAIN e.data.frozen.weights
       THEN /\ t.freeze = e.event.payload.freeze_id /\ t.weight = e.data.frozen.weights[o]
            /\ t.frozenOn = e.day /\ t.rule = e.data.frozen.rule
       ELSE /\ t.freeze = s.freeze /\ t.weight = s.weight
            /\ t.frozenOn = s.frozenOn /\ t.rule = s.rule
    /\ IF Registering(e) /\ o \in e.obligations
       THEN /\ t.candidate = e.event.payload.candidate_id
            /\ t.root = e.data.root /\ t.registeredOn = e.day
       ELSE t.candidate = s.candidate /\ t.root = s.root /\ t.registeredOn = s.registeredOn
    /\ t.accepted <=> s.accepted \/ (Accepting(e) /\ o \in AcceptedBy(e))
    /\ t.integration <=>
          s.integration \/ (Integrating(e) /\ o \in e.obligations /\ Integrates(s, e))
    /\ t.suites =
          IF Enabling(e) /\ o \in e.obligations THEN s.suites \cup e.data.suites ELSE s.suites
    /\ t.regression <=> s.regression \/ Revokes(s, e, o)
    /\ ~Revokes(s, e, o) =>
          (t.persistence <=> s.persistence \/ (Persisting(e) /\ o \in e.obligations))

LEMMA StateAfterParts ==
  ASSUME NEW s \in ObligationStates, NEW e, IsEntry(e), NEW o, NEW t, t = StateAfter(s, e, o)
  PROVE  Parts(s, e, o, t)
<1>1. CASE Freezing(e) /\ o \in DOMAIN e.data.frozen.weights
  <2>1. t = Frozen(s, e, o)
    BY <1>1, StateAfterFields
  <2>2. ~Registering(e) /\ ~Accepting(e) /\ ~Integrating(e) /\ ~Enabling(e) /\ ~Persisting(e) /\ ~Regressing(e)
    BY <1>1, TypesDiffer
  <2>3. ~Revokes(s, e, o)
    BY <2>2 DEF Revokes
  <2> QED BY <1>1, <2>1, <2>2, <2>3 DEF ObligationStates, Frozen, Parts
<1>2. CASE Registering(e) /\ o \in e.obligations
  <2>1. t = Assigned(s, e)
    BY <1>2, StateAfterFields
  <2>2. ~Freezing(e) /\ ~Accepting(e) /\ ~Integrating(e) /\ ~Enabling(e) /\ ~Persisting(e) /\ ~Regressing(e)
    BY <1>2, TypesDiffer
  <2>3. ~Revokes(s, e, o)
    BY <2>2 DEF Revokes
  <2> QED BY <1>2, <2>1, <2>2, <2>3 DEF ObligationStates, Assigned, Parts
<1>3. CASE Accepting(e) /\ o \in AcceptedBy(e)
  <2>1. t = Accepted(s)
    BY <1>3, StateAfterFields
  <2>2. ~Freezing(e) /\ ~Registering(e) /\ ~Integrating(e) /\ ~Enabling(e) /\ ~Persisting(e) /\ ~Regressing(e)
    BY <1>3, TypesDiffer
  <2>3. ~Revokes(s, e, o)
    BY <2>2 DEF Revokes
  <2> QED BY <1>3, <2>1, <2>2, <2>3 DEF ObligationStates, Accepted, Parts
<1>4. CASE Integrating(e) /\ o \in e.obligations /\ Integrates(s, e)
  <2>1. t = Integrated(s)
    BY <1>4, StateAfterFields
  <2>2. ~Freezing(e) /\ ~Registering(e) /\ ~Accepting(e) /\ ~Enabling(e) /\ ~Persisting(e) /\ ~Regressing(e)
    BY <1>4, TypesDiffer
  <2>3. ~Revokes(s, e, o)
    BY <2>2 DEF Revokes
  <2> QED BY <1>4, <2>1, <2>2, <2>3 DEF ObligationStates, Integrated, Parts
<1>5. CASE Enabling(e) /\ o \in e.obligations
  <2>1. t = Enabled(s, e)
    BY <1>5, StateAfterFields
  <2>2. ~Freezing(e) /\ ~Registering(e) /\ ~Accepting(e) /\ ~Integrating(e) /\ ~Persisting(e) /\ ~Regressing(e)
    BY <1>5, TypesDiffer
  <2>3. ~Revokes(s, e, o)
    BY <2>2 DEF Revokes
  <2> QED BY <1>5, <2>1, <2>2, <2>3 DEF ObligationStates, Enabled, Parts
<1>6. CASE Persisting(e) /\ o \in e.obligations
  <2>1. t = Persisted(s)
    BY <1>6, StateAfterFields
  <2>2. ~Freezing(e) /\ ~Registering(e) /\ ~Accepting(e) /\ ~Integrating(e) /\ ~Enabling(e) /\ ~Regressing(e)
    BY <1>6, TypesDiffer
  <2>3. ~Revokes(s, e, o)
    BY <2>2 DEF Revokes
  <2> QED BY <1>6, <2>1, <2>2, <2>3 DEF ObligationStates, Persisted, Parts
<1>7. CASE Revokes(s, e, o)
  <2>1. t = Revoked(s)
    BY <1>7, StateAfterFields
  <2>2. Regressing(e)
    BY <1>7 DEF Revokes
  <2>3. ~Freezing(e) /\ ~Registering(e) /\ ~Accepting(e) /\ ~Integrating(e) /\ ~Enabling(e) /\ ~Persisting(e)
    BY <1>7, <2>2, TypesDiffer
  <2> QED BY <1>7, <2>1, <2>2, <2>3 DEF ObligationStates, Revoked, Parts
<1>8. CASE /\ ~(Freezing(e) /\ o \in DOMAIN e.data.frozen.weights)
           /\ ~(Registering(e) /\ o \in e.obligations)
           /\ ~(Accepting(e) /\ o \in AcceptedBy(e))
           /\ ~(Integrating(e) /\ o \in e.obligations /\ Integrates(s, e))
           /\ ~(Enabling(e) /\ o \in e.obligations)
           /\ ~(Persisting(e) /\ o \in e.obligations)
           /\ ~Revokes(s, e, o)
  <2>1. t = s
    BY <1>8, StateAfterFields
  <2> QED BY <1>8, <2>1 DEF Parts
<1> QED BY <1>1, <1>2, <1>3, <1>4, <1>5, <1>6, <1>7, <1>8

-----------------------------------------------------------------------------
(* An entry that does not offend is understood *)

LEMMA FreezeStep ==
  ASSUME NEW l, NEW m, NEW e, Longer(l, m, e), IsEntry(e),
         NEW o \in Obligations, NEW s \in ObligationStates, Means(l, o, s),
         ~Bad(e, l, o, FreezesOf(l, o), IntegrationsOf(l, o)),
         NEW t, t = StateAfter(s, e, o)
  PROVE  FreezeMeans(m, o, t)
<1>0. Parts(s, e, o, t)
  BY StateAfterParts
<1> DEFINE p == Freezing(e) /\ o \in DOMAIN e.data.frozen.weights
<1>1. FreezesOf(m, o) = FreezesOf(l, o) \cup Found(p, Len(m)) /\ FreezesOf(l, o) \subseteq DOMAIN l
  BY FreezesLonger
<1>2. m[Len(m)] = e /\ \A i \in DOMAIN l : m[i] = l[i]
  BY DEF Longer
<1>3. FreezeMeans(l, o, s)
  BY DEF Means
<1>4. CASE p
  <2>1. FreezesOf(m, o) = {Len(m)}
    BY <1>1, <1>4 DEF Bad, Found
  <2>2. /\ t.freeze = e.event.payload.freeze_id /\ t.weight = e.data.frozen.weights[o]
        /\ t.frozenOn = e.day /\ t.rule = e.data.frozen.rule
    BY <1>4, <1>0 DEF Parts
  <2>3. e.event.payload.freeze_id # None
    BY <1>4, EntryData, NoneIsFresh
  <2> QED BY <1>2, <2>1, <2>2, <2>3 DEF FreezeMeans
<1>5. CASE ~p
  <2>1. FreezesOf(m, o) = FreezesOf(l, o)
    BY <1>1, <1>5 DEF Found
  <2>2. t.freeze = s.freeze /\ t.weight = s.weight /\ t.frozenOn = s.frozenOn /\ t.rule = s.rule
    BY <1>5, <1>0 DEF Parts
  <2> HIDE DEF p
  <2>3. \A f \in FreezesOf(l, o) : m[f] = l[f]
    BY <1>1, <1>2
  <2> QED BY <1>3, <2>1, <2>2, <2>3 DEF FreezeMeans
<1> QED BY <1>4, <1>5

LEMMA CandidateStep ==
  ASSUME NEW l, NEW m, NEW e, Longer(l, m, e), IsEntry(e),
         NEW o \in Obligations, NEW s \in ObligationStates, Means(l, o, s),
         ~Bad(e, l, o, FreezesOf(l, o), IntegrationsOf(l, o)),
         NEW t, t = StateAfter(s, e, o)
  PROVE  CandidateMeans(m, o, t)
<1>0. Parts(s, e, o, t)
  BY StateAfterParts
<1> DEFINE p == Registering(e) /\ o \in e.obligations
<1>1. Registered(m, o) = Registered(l, o) \cup Found(p, Len(m)) /\ Registered(l, o) \subseteq DOMAIN l
  BY NamingLonger DEF Registered, Registering
<1>2. CandidateMeans(l, o, s) /\ FreezeMeans(l, o, s)
  BY DEF Means
<1>3. CASE p
  <2>1. Registered(m, o) = Registered(l, o) \cup {Len(m)}
    BY <1>1, <1>3 DEF Found
  <2>2. Max(Registered(m, o)) = Len(m)
    <3>1. /\ Registered(m, o) \in SUBSET Int /\ IsFiniteSet(Registered(m, o))
      <4>1. IsFiniteSet(Registered(l, o))
        BY <1>1, FS_Subset DEF Longer
      <4>2. IsFiniteSet(Registered(m, o))
        BY <2>1, <4>1, FS_AddElement
      <4> QED BY <1>1, <2>1, <4>2 DEF Longer
    <3>2. /\ Max(Registered(m, o)) \in Registered(m, o)
          /\ Len(m) <= Max(Registered(m, o))
      BY <2>1, <3>1, MaxIsGreatest
    <3>3. \A i \in Registered(l, o) : i \in Int /\ i < Len(m)
      BY <1>1 DEF Longer
    <3>4. \A i \in Int, n \in Int : i < n => ~(n <= i)
      OBVIOUS
    <3> QED BY <2>1, <3>2, <3>3, <3>4 DEF Longer
  <2>3. m[Len(m)] = e
    BY DEF Longer
  <2>4. /\ t.candidate = e.event.payload.candidate_id
        /\ t.root = e.data.root /\ t.registeredOn = e.day
    BY <1>3, <1>0 DEF Parts
  <2>5. e.event.payload.candidate_id # None /\ e.day \in Nat
    BY <1>3, EntryData, NoneIsFresh
  <2>6. t.freeze = s.freeze /\ t.frozenOn = s.frozenOn
    <3>1. ~Freezing(e)
      BY <1>3, TypesDiffer
    <3> QED BY <3>1, <1>0 DEF Parts
  <2>7. s.freeze # None /\ s.frozenOn <= e.day
    <3>1. PICK f \in FreezesOf(l, o) : l[f].day <= e.day
      BY <1>3 DEF Bad
    <3> QED BY <1>2, <3>1 DEF FreezeMeans
  <2>8. Registered(m, o) # {}
    BY <2>1
  <2> HIDE DEF p
  <2> QED BY <2>2, <2>3, <2>4, <2>5, <2>6, <2>7, <2>8 DEF CandidateMeans
<1>4. CASE ~p
  <2>1. Registered(m, o) = Registered(l, o)
    BY <1>1, <1>4 DEF Found
  <2>2. t.candidate = s.candidate /\ t.root = s.root /\ t.registeredOn = s.registeredOn
    BY <1>4, <1>0 DEF Parts
  <2> HIDE DEF p
  <2>3. CASE Registered(l, o) = {}
    BY <1>2, <2>1, <2>2, <2>3 DEF CandidateMeans
  <2>4. CASE Registered(l, o) # {}
    <3>1. m[Max(Registered(l, o))] = l[Max(Registered(l, o))]
      BY <1>1, <2>4, LastLonger
    <3>2. ~(Freezing(e) /\ o \in DOMAIN e.data.frozen.weights)
      <4>1. FreezesOf(l, o) # {}
        BY <1>2, <2>4 DEF CandidateMeans, FreezeMeans
      <4> QED BY <4>1 DEF Bad
    <3>3. t.freeze = s.freeze /\ t.frozenOn = s.frozenOn
      BY <3>2, <1>0 DEF Parts
    <3> QED BY <1>2, <2>1, <2>2, <2>4, <3>1, <3>3 DEF CandidateMeans
  <2> QED BY <2>3, <2>4
<1> QED BY <1>3, <1>4

\* The rule in the state is the one the obligation was frozen with, or revokes.
LEMMA RevokesByPolicy ==
  ASSUME NEW l, NEW e, NEW o, NEW s, FreezeMeans(l, o, s)
  PROVE  Revokes(s, e, o) <=>
            Regressing(e) /\ o \in e.obligations /\ Revoking(e, l, FreezesOf(l, o))
<1>1. s.rule.revoke <=> \A f \in FreezesOf(l, o) : l[f].data.frozen.rule.revoke
  <2>1. CASE FreezesOf(l, o) = {}
    BY <2>1 DEF FreezeMeans
  <2>2. CASE FreezesOf(l, o) # {}
    <3>1. PICK f : FreezesOf(l, o) = {f}
      BY <2>2 DEF FreezeMeans
    <3>2. s.rule = l[f].data.frozen.rule
      BY <3>1 DEF FreezeMeans
    <3> QED BY <3>1, <3>2
  <2> QED BY <2>1, <2>2
<1> QED BY <1>1 DEF Revokes, Revoking

LEMMA WorkStep ==
  ASSUME NEW l, NEW m, NEW e, Longer(l, m, e), IsEntry(e),
         NEW o \in Obligations, NEW s \in ObligationStates, Means(l, o, s),
         ~Bad(e, l, o, FreezesOf(l, o), IntegrationsOf(l, o)),
         NEW t, t = StateAfter(s, e, o)
  PROVE  WorkMeans(m, o, t)
<1>0. Parts(s, e, o, t)
  BY StateAfterParts
<1>1. WorkMeans(l, o, s) /\ CandidateMeans(l, o, s) /\ FreezeMeans(l, o, s)
  BY DEF Means
<1>2. m[Len(m)] = e /\ (\A i \in DOMAIN l : m[i] = l[i]) /\ Len(m) \notin DOMAIN l
  BY DEF Longer
<1>3. t.accepted <=> \E i \in OfEntryType(m, "ARTIFACT_ACCEPTED") : o \in AcceptedBy(m[i])
  <2>1. /\ OfEntryType(m, "ARTIFACT_ACCEPTED") =
              OfEntryType(l, "ARTIFACT_ACCEPTED") \cup Found(Accepting(e), Len(m))
        /\ OfEntryType(l, "ARTIFACT_ACCEPTED") \subseteq DOMAIN l
    BY DEF OfEntryType, Longer, Found, Accepting
  <2>2. t.accepted <=> s.accepted \/ (Accepting(e) /\ o \in AcceptedBy(e))
    BY <1>0 DEF Parts
  <2>3. \A i \in DOMAIN l : AcceptedBy(m[i]) = AcceptedBy(l[i])
    BY <1>2
  <2>4. AcceptedBy(m[Len(m)]) = AcceptedBy(e)
    BY <1>2
  <2>5. s.accepted <=> \E i \in OfEntryType(l, "ARTIFACT_ACCEPTED") : o \in AcceptedBy(l[i])
    BY <1>1 DEF WorkMeans
  <2> QED BY <2>1, <2>2, <2>3, <2>4, <2>5 DEF Found
<1>4. t.integration <=> IntegrationsOf(m, o) # {}
  <2> DEFINE p == Integrating(e) /\ o \in e.obligations
  <2>1. IntegrationsOf(m, o) =
           IntegrationsOf(l, o) \cup Found(p /\ Agrees(e, l, Registered(l, o)), Len(m))
    BY IntegrationsLonger
  <2>2. t.integration <=> s.integration \/ (p /\ Integrates(s, e))
    BY <1>0 DEF Parts
  <2>3. ASSUME p PROVE Integrates(s, e) <=> Agrees(e, l, Registered(l, o))
    <3>1. e.data.candidate # None
      BY <2>3, EntryData, NoneIsFresh
    <3> QED BY <1>1, <3>1 DEF Integrates, Agrees, CandidateMeans
  <2>4. s.integration <=> IntegrationsOf(l, o) # {}
    BY <1>1 DEF WorkMeans
  <2> HIDE DEF p
  <2> QED BY <2>1, <2>2, <2>3, <2>4 DEF Found
<1>5. t.suites = SuitesOf(m, o)
  <2>1. t.suites =
           IF Enabling(e) /\ o \in e.obligations THEN s.suites \cup e.data.suites ELSE s.suites
    BY <1>0 DEF Parts
  <2>2. s.suites = SuitesOf(l, o)
    BY <1>1 DEF WorkMeans
  <2> QED BY <2>1, <2>2, SuitesLonger
<1>6. Revokes(s, e, o) <=> Regressing(e) /\ o \in e.obligations /\ Revoking(e, l, FreezesOf(l, o))
  BY <1>1, RevokesByPolicy
<1>7. t.regression <=> RevocationsOf(m, o) # {}
  <2> DEFINE p == Regressing(e) /\ o \in e.obligations /\ Revoking(e, l, FreezesOf(l, o))
  <2>1. RevocationsOf(m, o) = RevocationsOf(l, o) \cup Found(p, Len(m))
    BY RevocationsLonger
  <2>2. t.regression <=> s.regression \/ p
    BY <1>6, <1>0 DEF Parts
  <2>3. s.regression <=> RevocationsOf(l, o) # {}
    BY <1>1 DEF WorkMeans
  <2> HIDE DEF p
  <2> QED BY <2>1, <2>2, <2>3 DEF Found
<1>8. ASSUME ~t.regression
      PROVE  t.persistence <=> Naming(m, "PERSISTENCE_CONFIRMED", o) # {}
  <2> DEFINE p == Persisting(e) /\ o \in e.obligations
  <2>1. Naming(m, "PERSISTENCE_CONFIRMED", o) =
           Naming(l, "PERSISTENCE_CONFIRMED", o) \cup Found(p, Len(m))
    BY NamingLonger DEF Persisting
  <2>2. ~s.regression /\ ~Revokes(s, e, o)
    BY <1>8, <1>0 DEF Parts
  <2>3. t.persistence <=> s.persistence \/ p
    BY <2>2, <1>0 DEF Parts
  <2>4. s.persistence <=> Naming(l, "PERSISTENCE_CONFIRMED", o) # {}
    BY <1>1, <2>2 DEF WorkMeans
  <2> HIDE DEF p
  <2> QED BY <2>1, <2>3, <2>4 DEF Found
<1> QED BY <1>3, <1>4, <1>5, <1>7, <1>8 DEF WorkMeans

LEMMA FoldParts ==
  ASSUME NEW t \in Tallies, NEW e, IsEntry(e)
  PROVE  /\ Fold(t, e) \in Tallies
         /\ Fold(t, e).refused <=> t.refused \/ Objects(t, e)
         /\ ~Fold(t, e).refused =>
               \A o \in Obligations : Fold(t, e).of[o] = StateAfter(t.of[o], e, o)
         /\ Fold(t, e).refused => Fold(t, e).of = t.of
<1>1. CASE t.refused \/ Objects(t, e)
  <2>1. Fold(t, e) = [t EXCEPT !.refused = TRUE]
    BY <1>1 DEF Fold
  <2> QED BY <1>1, <2>1 DEF Tallies
<1>2. CASE ~(t.refused \/ Objects(t, e))
  <2> DEFINE of == [o \in Obligations |-> StateAfter(t.of[o], e, o)]
             h  == AddHours(t, e)
  <2>1. Fold(t, e) = [h EXCEPT !.of = of]
    BY <1>2 DEF Fold
  <2>2. of \in [Obligations -> ObligationStates]
    <3>1. ASSUME NEW o \in Obligations PROVE StateAfter(t.of[o], e, o) \in ObligationStates
      <4>1. t.of[o] \in ObligationStates
        BY DEF Tallies
      <4> QED BY <4>1, StateAfterType
    <3> QED BY <3>1
  <2>3. h \in Tallies /\ h.refused = t.refused
    <3>1. CASE ~Timing(e)
      BY <3>1 DEF AddHours, Timing
    <3>2. CASE Timing(e)
      <4>1. e.data.hours \in Nat
        BY <3>2, EntryData
      <4>2. CASE e.data.retrospective
        <5>1. h = [t EXCEPT !.retrospective = @ + e.data.hours]
          BY <3>2, <4>2 DEF AddHours, Timing
        <5> QED BY <4>1, <5>1 DEF Tallies
      <4>3. CASE ~e.data.retrospective
        <5>1. h = [t EXCEPT !.hours = @ + e.data.hours]
          BY <3>2, <4>3 DEF AddHours, Timing
        <5> QED BY <4>1, <5>1 DEF Tallies
      <4> QED BY <4>2, <4>3
    <3> QED BY <3>1, <3>2
  <2>4. \A o \in Obligations : of[o] = StateAfter(t.of[o], e, o)
    OBVIOUS
  <2> HIDE DEF of, h
  <2>5. /\ Fold(t, e) \in Tallies /\ Fold(t, e).refused = t.refused /\ Fold(t, e).of = of
    BY <2>1, <2>2, <2>3 DEF Tallies
  <2> QED BY <1>2, <2>4, <2>5
<1> QED BY <1>1, <1>2

-----------------------------------------------------------------------------
(* The invariant *)

\* Nothing has been recorded: every obligation is fresh.
LEMMA TpprBegins == Init => TpprInv
<1> SUFFICES ASSUME Init PROVE TpprInv
  OBVIOUS
<1>1. ledger = <<>> /\ DOMAIN ledger = {} /\ ledger \in Seq(Submissions)
  BY EmptySeq DEF Init
<1>2. Fresh \in ObligationStates
  BY DEF Fresh, ObligationStates, DefaultRule, Rules
<1>3. /\ tally \in Tallies /\ tally.refused = FALSE
      /\ \A o \in Obligations : tally.of[o] = Fresh
  BY <1>2 DEF Init, EmptyTally, Tallies
<1>4. ASSUME NEW o \in Obligations PROVE Means(ledger, o, Fresh)
  <2>1. \A type : OfEntryType(ledger, type) = {} /\ Naming(ledger, type, o) = {}
    BY <1>1 DEF OfEntryType, Naming
  <2>2. /\ FreezesOf(ledger, o) = {} /\ Registered(ledger, o) = {}
        /\ IntegrationsOf(ledger, o) = {} /\ RevocationsOf(ledger, o) = {}
        /\ SuitesOf(ledger, o) = {}
    BY <2>1 DEF FreezesOf, Registered, IntegrationsOf, RevocationsOf, SuitesOf
  <2> QED BY <2>1, <2>2 DEF Means, FreezeMeans, CandidateMeans, WorkMeans, Fresh, DefaultRule
<1> QED BY <1>1, <1>3, <1>4 DEF TpprInv

\* A legal freeze has an id no freeze of the ledger has.
LEMMA FreezeIsNew ==
  ASSUME NEW l, NEW e, IsEntry(e), Legal(EventsOf(l), e.event), Freezing(e),
         NEW i \in DOMAIN l, IsEntry(l[i]), Freezing(l[i])
  PROVE  l[i].event.payload.freeze_id # e.event.payload.freeze_id
<1> DEFINE h == EventsOf(l)
<1>1. DOMAIN h = DOMAIN l /\ h[i] = l[i].event
  BY DEF EventsOf
<1> HIDE DEF h
<1>2. Accepts(Projection(h), e.event)
  BY DEF Legal, IsEntry, h
<1>3. e.event.payload.freeze_id \notin Projection(h).freezes
  BY <1>2 DEF Accepts, FreezeAccepted, Freezing
<1>4. h[i].payload.freeze_id \in Projection(h).freezes
  <2>1. i \in OfType(h, "OBLIGATION_FROZEN")
    BY <1>1 DEF OfType, Typed, Freezing, IsEntry
  <2> QED BY <2>1 DEF Projection
<1> QED BY <1>1, <1>3, <1>4

LEMMA TpprGoesOn == TpprInv /\ [Next]_vars => TpprInv'
<1> SUFFICES ASSUME TpprInv, [Next]_vars PROVE TpprInv'
  OBVIOUS
<1>1. CASE UNCHANGED vars
  BY <1>1 DEF TpprInv, vars
<1>2. ASSUME NEW e \in Submissions, Record(e) PROVE TpprInv'
  <2> DEFINE l == ledger
             m == ledger'
  <2>1. /\ Longer(l, m, e) /\ m \in Seq(Submissions)
        /\ Legal(EventsOf(l), e.event) /\ tally' = Fold(tally, e)
    BY <1>2, AppendIsLonger DEF Record, TpprInv
  <2>2. IsEntry(e) /\ \A i \in DOMAIN l : IsEntry(l[i])
    <3>1. \A i \in DOMAIN l : l[i] \in Submissions
      BY ElementOfSeq, LenProperties DEF TpprInv
    <3> QED BY <3>1, TpprAssumptions
  <2>3. /\ tally' \in Tallies
        /\ tally'.refused <=> tally.refused \/ Objects(tally, e)
        /\ ~tally'.refused =>
               \A o \in Obligations : tally'.of[o] = StateAfter(tally.of[o], e, o)
    BY <2>1, <2>2, FoldParts DEF TpprInv
  <2>4. /\ \A i \in DOMAIN l : Offends(m, i) <=> Offends(l, i)
        /\ Offends(m, Len(m)) <=>
               \/ Unsupported(e)
               \/ \E o \in Obligations : Bad(e, l, o, FreezesOf(l, o), IntegrationsOf(l, o))
        /\ DOMAIN m = DOMAIN l \cup {Len(m)}
    <3>1. DOMAIN m = DOMAIN l \cup {Len(m)}
      BY <2>1 DEF Longer
    <3> HIDE DEF l, m
    <3> QED BY <2>1, <3>1, OffendsLonger
  <2>5. ASSUME ~tally.refused
        PROVE  Objects(tally, e) <=> Offends(m, Len(m))
    <3>1. Freezing(e) => \A i \in DOMAIN l : Freezing(l[i]) =>
             l[i].event.payload.freeze_id # e.event.payload.freeze_id
      BY <2>1, <2>2, FreezeIsNew
    <3>2. tally \in Tallies /\ \A o \in Obligations : Means(l, o, tally.of[o])
      BY <2>5 DEF TpprInv
    <3> HIDE DEF l, m
    <3> QED BY <2>2, <2>4, <3>1, <3>2, ObjectsToBad
  <2>6. tally'.refused <=> \E i \in DOMAIN m : Offends(m, i)
    <3>1. tally.refused <=> \E i \in DOMAIN l : Offends(l, i)
      BY DEF TpprInv
    <3> HIDE DEF l, m
    <3> QED BY <2>3, <2>4, <2>5, <3>1
  <2>7. ASSUME ~tally'.refused, NEW o \in Obligations
        PROVE  Means(m, o, tally'.of[o])
    <3>1. tally.of[o] \in ObligationStates /\ Means(l, o, tally.of[o])
      BY <2>3, <2>7 DEF TpprInv, Tallies
    <3>2. ~Bad(e, l, o, FreezesOf(l, o), IntegrationsOf(l, o))
      BY <2>3, <2>4, <2>5, <2>7
    <3>3. tally'.of[o] = StateAfter(tally.of[o], e, o)
      BY <2>3, <2>7
    <3> HIDE DEF l, m
    <3>4. FreezeMeans(m, o, tally'.of[o])
      BY <2>1, <2>2, <3>1, <3>2, <3>3, FreezeStep
    <3>5. CandidateMeans(m, o, tally'.of[o])
      BY <2>1, <2>2, <3>1, <3>2, <3>3, CandidateStep
    <3>6. WorkMeans(m, o, tally'.of[o])
      BY <2>1, <2>2, <3>1, <3>2, <3>3, WorkStep
    <3> QED BY <3>4, <3>5, <3>6 DEF Means
  <2> QED BY <2>1, <2>3, <2>6, <2>7 DEF TpprInv
<1> QED BY <1>1, <1>2 DEF Next

LEMMA TpprAlways == Spec => []TpprInv
BY TpprBegins, TpprGoesOn, PTL DEF Spec

\* Ledger and tally always have their types (utility_events, compute_tppr_v2).
THEOREM TpprTypeCorrect == Spec => []TypeOK
<1>1. TpprInv => TypeOK
  <2> SUFFICES ASSUME TpprInv PROVE TypeOK
    OBVIOUS
  <2>1. /\ DOMAIN ledger = 1 .. Len(ledger) /\ Len(ledger) \in Nat
        /\ \A i \in 1 .. Len(ledger) : ledger[i] \in Submissions
    BY ElementOfSeq, LenProperties DEF TpprInv
  <2>2. \A i \in 1 .. Len(ledger) : ledger[i].event \in Events
    BY <2>1, TpprAssumptions DEF IsEntry
  <2>3. EventsOf(ledger) \in Seq(Events)
    BY <2>1, <2>2, IsASeq DEF EventsOf
  <2> QED BY <2>3 DEF TypeOK, TpprInv
<1> QED BY <1>1, TpprAlways, PTL

\* A report is refused exactly for a ledger with an offending entry
\* (TPPRAntiGamingError in compute_tppr_v2).
THEOREM RefusalsHaveCause == Spec => []RefusalHasCause
<1>1. TpprInv => RefusalHasCause
  BY DEF TpprInv, RefusalHasCause
<1> QED BY <1>1, TpprAlways, PTL

LEMMA EarnedByMeaning ==
  ASSUME NEW l, NEW o \in Obligations, NEW s \in ObligationStates, Means(l, o, s),
         \A i \in DOMAIN l : ~Offends(l, i)
  PROVE  Earns(s) <=> EarnedIn(l, o)
<1>1. FreezeMeans(l, o, s) /\ WorkMeans(l, o, s)
  BY DEF Means
<1>2. s.freeze # None /\ s.weight > 0 /\ s.rule.suites \subseteq s.suites <=>
         \E f \in FreezesOf(l, o) :
            /\ l[f].data.frozen.weights[o] > 0
            /\ l[f].data.frozen.rule.suites \subseteq SuitesOf(l, o)
  <2>1. s.suites = SuitesOf(l, o)
    BY <1>1 DEF WorkMeans
  <2>2. CASE FreezesOf(l, o) = {}
    BY <1>1, <2>2 DEF FreezeMeans
  <2>3. CASE FreezesOf(l, o) # {}
    <3>1. PICK f : FreezesOf(l, o) = {f}
      BY <1>1, <2>3 DEF FreezeMeans
    <3>2. /\ s.freeze # None
          /\ s.weight = l[f].data.frozen.weights[o] /\ s.rule = l[f].data.frozen.rule
      BY <1>1, <3>1 DEF FreezeMeans
    <3> QED BY <2>1, <3>1, <3>2
  <2> QED BY <2>2, <2>3
<1>3. /\ s.suites = SuitesOf(l, o)
      /\ s.accepted <=> \E i \in OfEntryType(l, "ARTIFACT_ACCEPTED") : o \in AcceptedBy(l[i])
      /\ ~s.regression <=> RevocationsOf(l, o) = {}
      /\ s.integration <=> IntegrationsOf(l, o) # {}
  BY <1>1 DEF WorkMeans
<1>4. ASSUME ~s.regression
      PROVE  s.persistence /\ s.integration <=>
                \E k \in Naming(l, "PERSISTENCE_CONFIRMED", o) : Before(k, IntegrationsOf(l, o)) # {}
  <2>1. s.persistence <=> Naming(l, "PERSISTENCE_CONFIRMED", o) # {}
    BY <1>1, <1>4 DEF WorkMeans
  <2>2. ASSUME NEW k \in Naming(l, "PERSISTENCE_CONFIRMED", o)
        PROVE  Before(k, IntegrationsOf(l, o)) # {}
    <3>1. k \in DOMAIN l
      BY DEF Naming, OfEntryType
    <3> QED BY <3>1 DEF Offends
  <2>3. \A k : Before(k, IntegrationsOf(l, o)) # {} => IntegrationsOf(l, o) # {}
    BY DEF Before
  <2> QED BY <1>3, <2>1, <2>2, <2>3
<1> QED BY <1>2, <1>3, <1>4 DEF Earns, EarnedIn

\* Credit follows from the whole ledger, whatever the order of its entries
\* (compute_tppr_v2, the conditions of its credit loop).
THEOREM CreditIsAlwaysEarned == Spec => []CreditIsEarned
<1>1. TpprInv => CreditIsEarned
  <2> SUFFICES ASSUME TpprInv, ~tally.refused, NEW o \in Obligations
               PROVE  Earns(tally.of[o]) <=> EarnedIn(ledger, o)
    BY DEF CreditIsEarned
  <2>1. /\ tally.of[o] \in ObligationStates /\ Means(ledger, o, tally.of[o])
        /\ \A i \in DOMAIN ledger : ~Offends(ledger, i)
    BY DEF TpprInv, Tallies
  <2> QED BY <2>1, EarnedByMeaning
<1> QED BY <1>1, TpprAlways, PTL

-----------------------------------------------------------------------------
(* The credit loop *)

\* What holds at 0 and passes on from each number to the next holds up to n.
LEMMA Ascending ==
  ASSUME NEW n \in Nat, NEW T, 0 \in T, \A k \in 0 .. n : k \in T /\ k < n => k + 1 \in T
  PROVE  \A k \in 0 .. n : k \in T
<1> DEFINE U == {k \in 0 .. n : \A j \in 0 .. k : j \in T}
<1>1. U \in SUBSET Int /\ IsFiniteSet(U) /\ U # {}
  <2>1. IsFiniteSet(0 .. n)
    BY FS_Interval
  <2>2. IsFiniteSet(U)
    BY <2>1, FS_Subset
  <2>3. 0 \in U
    OBVIOUS
  <2> QED BY <2>2, <2>3
<1>2. PICK k \in U : \A j \in U : j <= k
  <2> HIDE DEF U
  <2> QED BY <1>1, MaxIsGreatest
<1>3. k = n
  <2>1. SUFFICES ASSUME k < n PROVE FALSE
    BY <1>2
  <2>2. k \in 0 .. n /\ k + 1 \in T
    BY <1>2, <2>1
  <2>3. \A j \in 0 .. k + 1 : j = k + 1 \/ j \in 0 .. k
    BY <2>2
  <2>4. k + 1 \in U
    BY <1>2, <2>1, <2>2, <2>3
  <2> QED BY <1>2, <2>2, <2>4
<1> QED BY <1>2, <1>3

\* One round of the loop, for obligation i after those with credit c.
Round(t, i, c) ==
    IF i \in Obligations /\ Earns(t.of[i]) /\ ~CreditedElsewhere(t, i, c) THEN c \cup {i} ELSE c

IsLoop(t, f, n) == f = [i \in 0 .. n |-> IF i = 0 THEN {} ELSE Round(t, i, f[i - 1])]

LEMMA LoopExists ==
  ASSUME NEW t, NEW n \in Nat
  PROVE  \E f : IsLoop(t, f, n)
<1> DEFINE T == {k \in 0 .. n : \E f : IsLoop(t, f, k)}
<1>1. 0 \in T
  <2> DEFINE f == [i \in 0 .. 0 |-> {}]
  <2>1. IsLoop(t, f, 0)
    BY DEF IsLoop
  <2> QED BY <2>1
<1>2. ASSUME NEW k \in 0 .. n, k \in T, k < n PROVE k + 1 \in T
  <2>1. PICK f : IsLoop(t, f, k)
    BY <1>2
  <2> DEFINE g == [i \in 0 .. k + 1 |-> IF i = k + 1 THEN Round(t, k + 1, f[k]) ELSE f[i]]
  <2>2. \A i \in 0 .. k + 1 : g[i] = IF i = 0 THEN {} ELSE Round(t, i, g[i - 1])
    <3>1. /\ \A i \in 0 .. k : i \in 0 .. k + 1 /\ i # k + 1
          /\ k + 1 \in 0 .. k + 1 /\ k \in 0 .. k /\ k + 1 - 1 = k /\ k + 1 # 0
          /\ \A i \in 0 .. k + 1 : i = k + 1 \/ i \in 0 .. k
          /\ \A i \in 0 .. k : i # 0 => i - 1 \in 0 .. k
      OBVIOUS
    <3>2. g[k + 1] = Round(t, k + 1, f[k]) /\ \A i \in 0 .. k : g[i] = f[i]
      BY <3>1
    <3>3. \A i \in 0 .. k : f[i] = IF i = 0 THEN {} ELSE Round(t, i, f[i - 1])
      <4> HIDE DEF g
      <4> QED BY <2>1 DEF IsLoop
    <3> HIDE DEF g
    <3> QED BY <3>1, <3>2, <3>3
  <2>3. IsLoop(t, g, k + 1)
    <3>1. g = [i \in 0 .. k + 1 |-> g[i]]
      OBVIOUS
    <3> HIDE DEF g
    <3> QED BY <2>2, <3>1 DEF IsLoop
  <2>4. k + 1 \in 0 .. n
    BY <1>2
  <2> HIDE DEF g
  <2> QED BY <2>3, <2>4
<1>3. n \in T
  <2> HIDE DEF T
  <2> QED BY <1>1, <1>2, Ascending
<1> QED BY <1>3

\* The credit after the obligations up to k: each has earned it, no two are of
\* one lineage, and whoever earns credit has it or is of a lineage that has.
Shared(t, k, c) ==
    /\ \A o \in c : o \in Obligations /\ Earns(t.of[o])
    /\ \A o, p \in c : o # p /\ t.of[o].root # None => t.of[o].root # t.of[p].root
    /\ \A o \in Obligations : o <= k /\ Earns(t.of[o]) =>
          o \in c \/ \E p \in c : t.of[p].root = t.of[o].root

LEMMA RoundShares ==
  ASSUME NEW t, NEW k \in Nat, NEW c, Shared(t, k, c)
  PROVE  Shared(t, k + 1, Round(t, k + 1, c))
<1>1. \A o \in Obligations : o \in Nat /\ (o <= k + 1 => o <= k \/ o = k + 1)
  BY TpprAssumptions
<1>2. CASE k + 1 \in Obligations /\ Earns(t.of[k + 1]) /\ ~CreditedElsewhere(t, k + 1, c)
  <2>1. Round(t, k + 1, c) = c \cup {k + 1}
    BY <1>2 DEF Round
  <2>2. t.of[k + 1].root # None => \A p \in c : t.of[p].root # t.of[k + 1].root
    BY <1>2 DEF CreditedElsewhere
  <2> QED BY <1>1, <1>2, <2>1, <2>2 DEF Shared
<1>3. CASE ~(k + 1 \in Obligations /\ Earns(t.of[k + 1]) /\ ~CreditedElsewhere(t, k + 1, c))
  <2>1. Round(t, k + 1, c) = c
    BY <1>3 DEF Round
  <2>2. k + 1 \in Obligations /\ Earns(t.of[k + 1]) =>
           \E p \in c : t.of[p].root = t.of[k + 1].root
    BY <1>3 DEF CreditedElsewhere
  <2> QED BY <1>1, <2>1, <2>2 DEF Shared
<1> QED BY <1>2, <1>3

LEMMA CreditedIsShared ==
  ASSUME NEW t
  PROVE  /\ \A o \in Credited(t) : o \in Obligations /\ Earns(t.of[o])
         /\ \A o, p \in Credited(t) :
               o # p /\ t.of[o].root # None => t.of[o].root # t.of[p].root
         /\ \A o \in Obligations : Earns(t.of[o]) =>
               o \in Credited(t) \/ \E p \in Credited(t) : t.of[p].root = t.of[o].root
<1> DEFINE last == Max(Obligations \cup {0})
           f == CHOOSE g : IsLoop(t, g, last)
<1>1. last \in Nat /\ \A o \in Obligations : o <= last
  <2>1. Obligations \cup {0} \in SUBSET Int /\ IsFiniteSet(Obligations \cup {0})
    BY TpprAssumptions, FS_AddElement
  <2>2. last \in Obligations \cup {0} /\ \A o \in Obligations \cup {0} : o <= last
    BY <2>1, MaxIsGreatest
  <2> HIDE DEF last
  <2>3. \A o \in Obligations : o \in Nat
    BY TpprAssumptions
  <2> QED BY <2>2, <2>3
<1>2. Credited(t) = f[last]
  BY DEF Credited, IsLoop, Round
<1>3. IsLoop(t, f, last)
  BY <1>1, LoopExists
<1> HIDE DEF last, f
<1>4. \A k \in 0 .. last : f[k] = IF k = 0 THEN {} ELSE Round(t, k, f[k - 1])
  BY <1>3 DEF IsLoop
<1> DEFINE T == {k \in 0 .. last : Shared(t, k, f[k])}
<1>5. 0 \in T
  <2>1. f[0] = {} /\ \A o \in Obligations : ~(o <= 0)
    BY <1>1, <1>4, TpprAssumptions
  <2> QED BY <1>1, <2>1 DEF Shared
<1>6. ASSUME NEW k \in 0 .. last, k \in T, k < last PROVE k + 1 \in T
  <2>1. k + 1 \in 0 .. last /\ k \in Nat /\ f[k + 1] = Round(t, k + 1, f[k])
    <3>1. k + 1 \in 0 .. last /\ k \in Nat /\ k + 1 # 0 /\ k + 1 - 1 = k
      BY <1>1, <1>6
    <3> QED BY <1>4, <3>1
  <2>2. Shared(t, k + 1, Round(t, k + 1, f[k]))
    BY <1>6, <2>1, RoundShares
  <2> QED BY <2>1, <2>2
<1>7. last \in T
  <2>1. last \in 0 .. last
    BY <1>1
  <2> HIDE DEF T
  <2> QED BY <1>1, <1>5, <1>6, <2>1, Ascending
<1>8. Shared(t, last, Credited(t))
  BY <1>2, <1>7
<1> QED BY <1>1, <1>8 DEF Shared

\* A lineage is credited once, and credited if any obligation of it earns credit
\* (credited_lineages in compute_tppr_v2).
THEOREM LineagesAreCreditedOnce == Spec => []LineageCreditedOnce
<1>1. LineageCreditedOnce
  BY CreditedIsShared DEF LineageCreditedOnce
<1> QED BY <1>1, PTL

\* An entry that does not offend takes earned credit back only by revoking it.
LEMMA EarningGoesOn ==
  ASSUME NEW l, NEW e, IsEntry(e), NEW o, NEW s \in ObligationStates, Means(l, o, s),
         ~Bad(e, l, o, FreezesOf(l, o), IntegrationsOf(l, o)),
         Earns(s), ~Revokes(s, e, o)
  PROVE  Earns(StateAfter(s, e, o))
<1> DEFINE t == StateAfter(s, e, o)
<1>1. Parts(s, e, o, t)
  BY StateAfterParts
<1>2. ~(Freezing(e) /\ o \in DOMAIN e.data.frozen.weights)
  BY DEF Means, FreezeMeans, Bad, Earns
<1> HIDE DEF t
<1>3. t.freeze = s.freeze /\ t.weight = s.weight /\ t.rule = s.rule
  BY <1>1, <1>2 DEF Parts
<1>4. s.suites \subseteq t.suites
  BY <1>1 DEF Parts
<1>5. t.accepted /\ t.integration /\ t.persistence /\ ~t.regression
  BY <1>1 DEF Parts, Earns
<1>6. Earns(t)
  BY <1>3, <1>4, <1>5 DEF Earns
<1> QED BY <1>6 DEF t

\* Credit goes only with the report, with a regression of the obligation, or to
\* another obligation of its lineage (compute_tppr_v2 over a longer ledger).
THEOREM CreditIsAlwaysKept == Spec => CreditIsKept
<1> DEFINE Kept == \A o \in Credited(tally) \ Credited(tally') :
                      \/ tally'.refused
                      \/ Len(ledger') \in RevocationsOf(ledger', o)
                      \/ \E p \in Credited(tally') : tally'.of[p].root = tally'.of[o].root
<1>1. ASSUME TpprInv, [Next]_vars PROVE [Kept]_vars
  <2>1. SUFFICES ASSUME NEW e \in Submissions, Record(e),
                        NEW o \in Credited(tally) \ Credited(tally'), ~tally'.refused
                 PROVE  \/ Len(ledger') \in RevocationsOf(ledger', o)
                        \/ \E p \in Credited(tally') : tally'.of[p].root = tally'.of[o].root
    BY <1>1 DEF Next
  <2> DEFINE l == ledger
             m == ledger'
             s == tally.of[o]
  <2>2. o \in Obligations /\ Earns(s)
    BY CreditedIsShared
  <2>3. IsEntry(e) /\ Longer(l, m, e) /\ tally' = Fold(tally, e) /\ tally \in Tallies
    BY <1>1, <2>1, AppendIsLonger, TpprAssumptions DEF Record, TpprInv
  <2>4. ~tally.refused /\ tally'.of[o] = StateAfter(s, e, o)
    BY <2>1, <2>2, <2>3, FoldParts
  <2>5. s \in ObligationStates /\ Means(l, o, s)
    BY <1>1, <2>2, <2>3, <2>4 DEF TpprInv, Tallies
  <2>6. ~Bad(e, l, o, FreezesOf(l, o), IntegrationsOf(l, o))
    <3>1. TpprInv'
      BY <1>1, TpprGoesOn
    <3>2. ~Offends(m, Len(m))
      BY <2>1, <2>3, <3>1 DEF TpprInv, Longer
    <3> HIDE DEF l, m
    <3> QED BY <2>2, <2>3, <3>2, OffendsLonger
  <2>7. CASE Revokes(s, e, o)
    <3>1. Regressing(e) /\ o \in e.obligations /\ Revoking(e, l, FreezesOf(l, o))
      BY <2>5, <2>7, RevokesByPolicy DEF Means
    <3> HIDE DEF l, m
    <3>2. Len(m) \in RevocationsOf(m, o)
      BY <2>3, <3>1, RevocationsLonger DEF Found
    <3> QED BY <3>2 DEF m
  <2>8. CASE ~Revokes(s, e, o)
    <3>1. Earns(tally'.of[o])
      BY <2>2, <2>3, <2>4, <2>5, <2>6, <2>8, EarningGoesOn
    <3> QED BY <2>1, <2>2, <3>1, CreditedIsShared
  <2> QED BY <2>7, <2>8
<1>2. TpprInv /\ [Next]_vars => [Kept]_vars
  BY <1>1
<1>3. CreditIsKept <=> [][Kept]_vars
  BY DEF CreditIsKept
<1> QED BY <1>2, <1>3, TpprAlways, PTL DEF Spec

=============================================================================
