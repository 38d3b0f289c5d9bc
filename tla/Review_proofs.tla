----------------------------- MODULE Review_proofs -----------------------------
(***************************************************************************)
(* Theorems about Review, for any people, files, requests and number of    *)
(* commands that run at once, are killed and repeated.                     *)
(***************************************************************************)
EXTENDS Review, SequenceTheorems, FiniteSetTheorems, WellFoundedInduction, TLAPS

-----------------------------------------------------------------------------
(* Events that need an earlier one *)

\* A time needs the review, or every event of the decision, it was spent on.
Needs(id, x) ==
    \/ \E t \in Attestations : id = TimeId(t) /\ x = AttestId(t)
    \/ \E v \in Verdicts :
          id = DecisionTimeId(v.id) /\ \E k \in 1 .. v.linked + 1 : x = DecisionId(v.id, k)

\* f is the event x that e needs: on e's artifact and in its vocabulary.
Is(f, x, e) == f.id = x /\ f.artifact = e.artifact /\ f.schema = e.schema

\* A script that may be appended, one by one, to a ledger that begins with l.
Prepared(events, l) ==
    \A i \in DOMAIN events : \A x \in EventIds : Needs(events[i].id, x) =>
        \/ \E j \in 1 .. i - 1 : Is(events[j], x, events[i])
        \/ \E j \in DOMAIN l : Is(l[j], x, events[i])

Commands ==
    [pc : {"idle", "asked", "typed", "legacy"}, events : Seq(Events),
     legacy : Seq(Events), request : Requests \cup {None}]

\* A command that appends has something to append, and to fall back on.
IsCommand(c) ==
    /\ c \in Commands
    /\ c.pc \in {"typed", "legacy"} => c.events # <<>>
    /\ c.pc = "typed" => c.legacy # <<>>
    /\ c.pc = "asked" => c.request \in Requests
    /\ Prepared(c.legacy, <<>>)

TypeInv ==
    /\ log \in Seq(Events)
    /\ grounds \in Seq([event : Events, request : Requests])
    /\ process \in [Processes -> Commands]
    /\ \A p \in Processes : IsCommand(process[p])

ReviewInv ==
    /\ TypeInv
    /\ Prepared(log, <<>>)
    /\ \A p \in Processes : Prepared(process[p].events, log)

LEMMA NothingPrepared ==
  ASSUME NEW l
  PROVE  Prepared(<<>>, l)
BY DEF Prepared

LEMMA PreparedLonger ==
  ASSUME NEW s \in Seq(Events), NEW l \in Seq(Events), NEW e \in Events, Prepared(s, l)
  PROVE  Prepared(s, Append(l, e))
<1>1. DOMAIN l \subseteq DOMAIN Append(l, e) /\ \A j \in DOMAIN l : Append(l, e)[j] = l[j]
  BY AppendProperties, LenProperties
<1> QED BY <1>1 DEF Prepared

LEMMA PreparedOnEmpty ==
  ASSUME NEW s, NEW l, Prepared(s, <<>>)
  PROVE  Prepared(s, l)
<1>1. DOMAIN <<>> = {}
  OBVIOUS
<1> QED BY <1>1 DEF Prepared

\* What the first event of a script needs is in the ledger already, so it can be
\* appended, and the rest of the script after it.
LEMMA PreparedNext ==
  ASSUME NEW s \in Seq(Events), s # <<>>, NEW l \in Seq(Events),
         Prepared(s, l), Prepared(l, <<>>)
  PROVE  /\ Prepared(Tail(s), Append(l, Head(s)))
         /\ Prepared(Append(l, Head(s)), <<>>)
<1> DEFINE e == Head(s)
           longer == Append(l, e)
           rest == Tail(s)
<1>1. /\ e \in Events /\ rest \in Seq(Events) /\ Len(rest) = Len(s) - 1 /\ Len(s) \in Nat
      /\ \A i \in 1 .. Len(rest) : rest[i] = s[i + 1]
      /\ e = s[1] /\ 1 \in DOMAIN s /\ DOMAIN s = 1 .. Len(s) /\ DOMAIN rest = 1 .. Len(rest)
  <2>1. Len(s) \in Nat \ {0}
    BY EmptySeq
  <2> QED BY <2>1, HeadTailProperties, LenProperties
<1>2. /\ longer \in Seq(Events) /\ Len(longer) = Len(l) + 1 /\ Len(l) \in Nat
      /\ DOMAIN l = 1 .. Len(l) /\ DOMAIN longer = 1 .. Len(l) + 1
      /\ \A j \in 1 .. Len(l) : longer[j] = l[j]
      /\ longer[Len(l) + 1] = e
  BY <1>1, AppendProperties, LenProperties
<1> HIDE DEF e, longer, rest
<1>3. ASSUME NEW x \in EventIds, Needs(e.id, x)
      PROVE  \E j \in 1 .. Len(l) : Is(l[j], x, e)
  <2>1. \/ \E j \in 1 .. 1 - 1 : Is(s[j], x, s[1])
        \/ \E j \in DOMAIN l : Is(l[j], x, s[1])
    BY <1>1, <1>3 DEF Prepared
  <2> QED BY <1>1, <1>2, <2>1
<1>4. ASSUME NEW i \in DOMAIN rest, NEW x \in EventIds, Needs(rest[i].id, x)
      PROVE  \/ \E j \in 1 .. i - 1 : Is(rest[j], x, rest[i])
             \/ \E j \in DOMAIN longer : Is(longer[j], x, rest[i])
  <2>1. i \in 1 .. Len(rest) /\ i + 1 \in DOMAIN s /\ rest[i] = s[i + 1]
    BY <1>1
  <2>2. \/ \E j \in 1 .. (i + 1) - 1 : Is(s[j], x, s[i + 1])
        \/ \E j \in DOMAIN l : Is(l[j], x, s[i + 1])
    BY <1>4, <2>1 DEF Prepared
  <2>3. ASSUME NEW j \in 1 .. (i + 1) - 1, Is(s[j], x, rest[i])
        PROVE  \/ \E k \in 1 .. i - 1 : Is(rest[k], x, rest[i])
               \/ \E k \in DOMAIN longer : Is(longer[k], x, rest[i])
    <3>1. CASE j = 1
      <4>1. Is(longer[Len(l) + 1], x, rest[i]) /\ Len(l) + 1 \in DOMAIN longer
        BY <1>1, <1>2, <2>3, <3>1
      <4> QED BY <4>1
    <3>2. CASE j # 1
      <4>1. j - 1 \in 1 .. i - 1 /\ j - 1 \in 1 .. Len(rest)
        BY <1>1, <2>1, <3>2
      <4>2. rest[j - 1] = s[j]
        BY <1>1, <4>1
      <4> QED BY <2>3, <4>1, <4>2
    <3> QED BY <3>1, <3>2
  <2>4. ASSUME NEW j \in DOMAIN l, Is(l[j], x, rest[i])
        PROVE  \E k \in DOMAIN longer : Is(longer[k], x, rest[i])
    BY <1>2, <2>4
  <2> QED BY <2>1, <2>2, <2>3, <2>4
<1>5. ASSUME NEW i \in DOMAIN longer, NEW x \in EventIds, Needs(longer[i].id, x)
      PROVE  \E j \in 1 .. i - 1 : Is(longer[j], x, longer[i])
  <2>1. CASE i = Len(l) + 1
    <3>1. PICK j \in 1 .. Len(l) : Is(l[j], x, e)
      BY <1>2, <1>3, <1>5, <2>1
    <3> QED BY <1>2, <2>1, <3>1
  <2>2. CASE i # Len(l) + 1
    <3>1. i \in DOMAIN l /\ longer[i] = l[i]
      BY <1>2, <2>2
    <3>2. \/ \E j \in 1 .. i - 1 : Is(l[j], x, l[i])
          \/ \E j \in DOMAIN <<>> : Is(<<>>[j], x, l[i])
      BY <1>5, <3>1 DEF Prepared
    <3>3. \E j \in 1 .. i - 1 : Is(l[j], x, l[i])
      BY <3>2
    <3>4. PICK j \in 1 .. i - 1 : Is(l[j], x, l[i])
      BY <3>3
    <3>5. j \in 1 .. Len(l)
      BY <1>2, <3>1
    <3> QED BY <1>2, <3>1, <3>4, <3>5
  <2> QED BY <2>1, <2>2
<1>6. Prepared(rest, longer)
  BY <1>4 DEF Prepared
<1>7. Prepared(longer, <<>>)
  BY <1>5 DEF Prepared
<1> QED BY <1>6, <1>7 DEF e, longer, rest

-----------------------------------------------------------------------------
(* The scripts *)

LEMMA V1Typed ==
  ASSUME NEW id \in EventIds, NEW type \in EventTypesV1, NEW a \in Artifacts
  PROVE  /\ V1Event(id, type, a) \in Events
         /\ V1Event(id, type, a).id = id /\ V1Event(id, type, a).artifact = a
         /\ V1Event(id, type, a).schema = "v1"
<1>1. [opaque |-> TRUE] \in OpaquePayload /\ [opaque |-> TRUE] \in Payloads
  BY DEF OpaquePayload, Payloads
<1>2. V1Event(id, type, a) \in Envelopes
  BY <1>1 DEF V1Event, Envelopes, SchemaVersions, CurrentVersion
<1> QED BY <1>1, <1>2 DEF V1Event, Events

LEMMA V2Typed ==
  ASSUME NEW id \in EventIds, NEW type \in EventTypesV2, NEW a \in Artifacts,
         NEW payload \in PayloadOf(type), payload \in Payloads
  PROVE  /\ V2Event(id, type, a, payload) \in Events
         /\ V2Event(id, type, a, payload).id = id
         /\ V2Event(id, type, a, payload).artifact = a
         /\ V2Event(id, type, a, payload).schema = "v2"
<1>1. V2Event(id, type, a, payload) \in Envelopes
  BY DEF V2Event, Envelopes, SchemaVersions, CurrentVersion
<1> QED BY <1>1 DEF V2Event, Events

\* The opaque payload is what most types require.
LEMMA OpaqueTyped ==
  /\ [opaque |-> TRUE] \in Payloads
  /\ \A type \in {"EXPERT_TIME_RECORDED", "ARTIFACT_ACCEPTED", "REPAIR_REQUESTED",
                   "REPAIR_COMPLETED"} :
        type \in EventTypesV2 /\ [opaque |-> TRUE] \in PayloadOf(type)
  /\ {"EXPERT_TIME_RECORDED", "ARTIFACT_ACCEPTED", "ARTIFACT_REJECTED",
      "REVIEW_SUBMITTED"} \subseteq EventTypesV1
<1>1. [opaque |-> TRUE] \in OpaquePayload
  BY DEF OpaquePayload
<1>2. [opaque |-> TRUE] \in Payloads
  BY <1>1 DEF Payloads
<1>3. \A type \in {"EXPERT_TIME_RECORDED", "ARTIFACT_ACCEPTED", "REPAIR_REQUESTED",
                   "REPAIR_COMPLETED"} :
        type \in EventTypesV2 /\ PayloadOf(type) = OpaquePayload
  BY DEF EventTypesV2, SideChannelTypes, LifecycleTypes, PayloadOf
<1> QED BY <1>1, <1>2, <1>3 DEF EventTypesV1

\* A time needs nothing but its own review or decision; nothing else needs any.
LEMMA NeedsOfIds ==
  /\ \A t \in Attestations : \A x : Needs(TimeId(t), x) <=> x = AttestId(t)
  /\ \A t \in Attestations : \A x : ~Needs(AttestId(t), x)
  /\ \A a, x : ~Needs(AcceptId(a), x)
  /\ \A n, x : ~Needs(RepairId(n), x)
  /\ \A t, k, x : ~Needs(DecisionId(t, k), x)
BY DEF Needs, TimeId, AttestId, AcceptId, RepairId, DecisionId, DecisionTimeId

LEMMA PreparedPair ==
  ASSUME NEW e, NEW f, \A x : ~Needs(e.id, x),
         \A x : Needs(f.id, x) => Is(e, x, f)
  PROVE  Prepared(<<e, f>>, <<>>)
<1>1. ASSUME NEW i \in DOMAIN <<e, f>>, NEW x \in EventIds, Needs(<<e, f>>[i].id, x)
      PROVE  \E j \in 1 .. i - 1 : Is(<<e, f>>[j], x, <<e, f>>[i])
  <2>1. i = 1 \/ i = 2
    OBVIOUS
  <2>2. i # 1
    BY <1>1
  <2>3. i = 2
    BY <2>1, <2>2
  <2>4. Is(<<e, f>>[1], x, <<e, f>>[2])
    BY <1>1, <2>3
  <2>5. 1 \in 1 .. i - 1
    BY <2>3
  <2> QED BY <2>3, <2>4, <2>5
<1> QED BY <1>1 DEF Prepared

LEMMA PreparedAlone ==
  ASSUME NEW e, \A x : ~Needs(e.id, x)
  PROVE  Prepared(<<e>>, <<>>)
<1>1. \A i \in DOMAIN <<e>> : <<e>>[i] = e
  OBVIOUS
<1> QED BY <1>1 DEF Prepared

LEMMA DoneIsCommand == IsCommand(Done) /\ Prepared(Done.events, <<>>)
<1>1. Done \in Commands
  BY EmptySeq DEF Done, Commands
<1> QED BY <1>1, NothingPrepared DEF Done, IsCommand

\* A script of typed events and its 0.1 counterpart make a command.
LEMMA ScriptIsCommand ==
  ASSUME NEW typed \in Seq(Events), NEW legacy \in Seq(Events), legacy # <<>>,
         NEW request \in Requests \cup {None},
         Prepared(typed, <<>>), Prepared(legacy, <<>>)
  PROVE  /\ IsCommand(Command(typed, legacy, request))
         /\ Prepared(Command(typed, legacy, request).events, <<>>)
BY DEF Command, IsCommand, Commands

LEMMA AttestationIsCommand ==
  ASSUME NEW sheet \in Sheets
  PROVE  IsCommand(Attestation(sheet)) /\ Prepared(Attestation(sheet).events, <<>>)
<1> DEFINE t == sheet.id
           a == sheet.packet
           review  == V2Event(AttestId(t), "REVIEW_ATTESTED", a, [attestation_id |-> t])
           time    == V2Event(TimeId(t), "EXPERT_TIME_RECORDED", a, [opaque |-> TRUE])
           review1 == V1Event(AttestId(t), "REVIEW_SUBMITTED", a)
           time1   == V1Event(TimeId(t), "EXPERT_TIME_RECORDED", a)
<1>1. t \in Attestations /\ a \in Artifacts
  BY ReviewAssumptions DEF AttestationSheets
<1>2. AttestId(t) \in EventIds /\ TimeId(t) \in EventIds
  BY <1>1, IdAssumptions
<1>3. [attestation_id |-> t] \in PayloadOf("REVIEW_ATTESTED") /\ [attestation_id |-> t] \in Payloads
      /\ "REVIEW_ATTESTED" \in EventTypesV2
  <2>1. [attestation_id |-> t] \in AttestationPayload
    BY <1>1 DEF AttestationPayload
  <2>2. PayloadOf("REVIEW_ATTESTED") = AttestationPayload
    BY DEF PayloadOf
  <2> QED BY <2>1, <2>2 DEF Payloads, EventTypesV2, LifecycleTypes
<1>4. /\ review \in Events /\ review.id = AttestId(t)
      /\ review.artifact = a /\ review.schema = "v2"
  BY <1>1, <1>2, <1>3, V2Typed
<1>5. /\ time \in Events /\ time.id = TimeId(t) /\ time.artifact = a /\ time.schema = "v2"
  BY <1>1, <1>2, OpaqueTyped, V2Typed
<1>6. /\ review1 \in Events /\ review1.id = AttestId(t)
      /\ review1.artifact = a /\ review1.schema = "v1"
  BY <1>1, <1>2, OpaqueTyped, V1Typed
<1>7. /\ time1 \in Events /\ time1.id = TimeId(t) /\ time1.artifact = a /\ time1.schema = "v1"
  BY <1>1, <1>2, OpaqueTyped, V1Typed
<1>8. Attestation(sheet) = Command(<<review, time>>, <<review1, time1>>, None)
  BY DEF Attestation
<1> HIDE DEF t, a, review, time, review1, time1
<1>9. Prepared(<<review, time>>, <<>>)
  BY <1>1, <1>4, <1>5, NeedsOfIds, PreparedPair DEF Is
<1>10. Prepared(<<review1, time1>>, <<>>)
  BY <1>1, <1>6, <1>7, NeedsOfIds, PreparedPair DEF Is
<1>11. /\ <<review, time>> \in Seq(Events)
       /\ <<review1, time1>> \in Seq(Events) /\ <<review1, time1>> # <<>>
  BY <1>4, <1>5, <1>6, <1>7
<1> QED BY <1>8, <1>9, <1>10, <1>11, ScriptIsCommand

LEMMA AcceptanceIsCommand ==
  ASSUME NEW request \in Requests
  PROVE  IsCommand(Acceptance(request)) /\ Prepared(Acceptance(request).events, <<>>)
<1> DEFINE a == request.artifact
           typed  == V2Event(AcceptId(a), "ARTIFACT_ACCEPTED", a, [opaque |-> TRUE])
           legacy == V1Event(AcceptId(a), "ARTIFACT_ACCEPTED", a)
<1>1. a \in Artifacts
  BY ReviewAssumptions DEF AcceptRequests
<1>2. AcceptId(a) \in EventIds
  BY <1>1, IdAssumptions
<1>3. typed \in Events /\ typed.id = AcceptId(a)
  BY <1>1, <1>2, OpaqueTyped, V2Typed
<1>4. legacy \in Events /\ legacy.id = AcceptId(a)
  BY <1>1, <1>2, OpaqueTyped, V1Typed
<1>5. Acceptance(request) = Command(<<typed>>, <<legacy>>, request)
  BY DEF Acceptance
<1> HIDE DEF a, typed, legacy
<1>6. Prepared(<<typed>>, <<>>) /\ Prepared(<<legacy>>, <<>>)
  BY <1>3, <1>4, NeedsOfIds, PreparedAlone
<1>7. <<typed>> \in Seq(Events) /\ <<legacy>> \in Seq(Events) /\ <<legacy>> # <<>>
  BY <1>3, <1>4
<1> QED BY <1>5, <1>6, <1>7, ScriptIsCommand

LEMMA DecisionIsCommand ==
  ASSUME NEW v \in Verdicts
  PROVE  IsCommand(Decision(v)) /\ Prepared(Decision(v).events, <<>>)
<1> DEFINE n == v.linked + 1
           rows == DecisionRows(v)
           time == DecisionTime(v)
           script == rows \o <<time>>
<1>1. /\ v.id \in Attestations /\ v.artifact \in Artifacts /\ v.linked \in Nat
      /\ DecisionType(v.decision) \in EventTypesV1
  BY ReviewAssumptions, OpaqueTyped DEF ReviewVerdicts, DecisionType
<1>2. \A k \in 1 .. n : DecisionId(v.id, k) \in EventIds
  BY IdAssumptions
<1>3. \A k \in 1 .. n :
         /\ rows[k] \in Events /\ rows[k].id = DecisionId(v.id, k)
         /\ rows[k].artifact = v.artifact /\ rows[k].schema = "v1"
  BY <1>1, <1>2, V1Typed DEF DecisionRows
<1>4. rows \in Seq(Events) /\ Len(rows) = n /\ n \in Nat \ {0}
  <2>1. n \in Nat \ {0}
    BY <1>1
  <2>2. DOMAIN rows = 1 .. n
    BY DEF DecisionRows
  <2>3. rows \in [1 .. n -> Events]
    BY <1>1, <1>2, V1Typed DEF DecisionRows
  <2> HIDE DEF rows, n
  <2> QED BY <2>1, <2>2, <2>3
<1>5. DecisionTimeId(v.id) \in EventIds
  BY <1>1, IdAssumptions
<1>6. /\ time \in Events /\ time.id = DecisionTimeId(v.id)
      /\ time.artifact = v.artifact /\ time.schema = "v1"
  BY <1>1, <1>5, OpaqueTyped, V1Typed DEF DecisionTime
<1>7. Decision(v) = Command(<<>>, script, None)
  BY DEF Decision
<1>8. \A x : Needs(DecisionTimeId(v.id), x) =>
               \E k \in 1 .. n : x = DecisionId(v.id, k)
  <2>1. SUFFICES ASSUME NEW x, Needs(DecisionTimeId(v.id), x)
                 PROVE  \E k \in 1 .. n : x = DecisionId(v.id, k)
    OBVIOUS
  <2>2. \A t \in Attestations : DecisionTimeId(v.id) # TimeId(t)
    BY DEF DecisionTimeId, TimeId
  <2>3. PICK w \in Verdicts : /\ DecisionTimeId(v.id) = DecisionTimeId(w.id)
                              /\ \E k \in 1 .. w.linked + 1 : x = DecisionId(w.id, k)
    BY <2>1, <2>2 DEF Needs
  <2>4. v.id = w.id
    BY <2>3 DEF DecisionTimeId
  <2>5. v.linked = w.linked
    BY <2>4, IdAssumptions
  <2> QED BY <2>3, <2>4, <2>5
<1> HIDE DEF n, rows, time
<1>9. /\ script \in Seq(Events) /\ Len(script) = n + 1 /\ DOMAIN script = 1 .. n + 1
      /\ \A k \in 1 .. n : script[k] = rows[k]
      /\ script[n + 1] = time
  <2>1. /\ <<time>> \in Seq(Events) /\ Len(<<time>>) = 1 /\ <<time>>[1] = time
    BY <1>6
  <2>2. /\ script \in Seq(Events) /\ Len(script) = n + 1
        /\ \A i \in 1 .. n + 1 : script[i] = IF i <= n THEN rows[i] ELSE <<time>>[i - n]
    BY <1>4, <2>1, ConcatProperties
  <2> HIDE DEF script
  <2>3. DOMAIN script = 1 .. n + 1
    BY <2>2, LenProperties
  <2> QED BY <1>4, <2>1, <2>2, <2>3
<1> HIDE DEF script
<1>10. ASSUME NEW i \in DOMAIN script, NEW x \in EventIds, Needs(script[i].id, x)
       PROVE  \E j \in 1 .. i - 1 : Is(script[j], x, script[i])
  <2>1. i = n + 1
    <3>1. SUFFICES ASSUME i # n + 1 PROVE FALSE
      OBVIOUS
    <3>2. i \in 1 .. n
      BY <1>4, <1>9, <3>1
    <3>3. script[i].id = DecisionId(v.id, i)
      BY <1>3, <1>9, <3>2
    <3> QED BY <1>10, <3>3, NeedsOfIds
  <2>2. PICK k \in 1 .. n : x = DecisionId(v.id, k)
    BY <1>6, <1>8, <1>9, <1>10, <2>1
  <2>3. Is(script[k], x, script[i])
    BY <1>3, <1>6, <1>9, <2>1, <2>2 DEF Is
  <2>4. k \in 1 .. i - 1
    BY <1>4, <2>1, <2>2
  <2> QED BY <2>3, <2>4
<1>11. Prepared(script, <<>>)
  BY <1>10 DEF Prepared
<1>12. script # <<>>
  BY <1>4, <1>9
<1> QED BY <1>7, <1>9, <1>11, <1>12, ScriptIsCommand, NothingPrepared, EmptySeq

-----------------------------------------------------------------------------
(* The steps *)

\* The invariant holds after one process changed and the log did not.
LEMMA OneCommandChanges ==
  ASSUME ReviewInv, NEW p \in Processes, NEW c, IsCommand(c), Prepared(c.events, log),
         process' = [process EXCEPT ![p] = c], UNCHANGED <<log, grounds>>
  PROVE  ReviewInv'
<1>1. c \in Commands
  BY DEF IsCommand
<1>2. process' \in [Processes -> Commands]
  BY <1>1 DEF ReviewInv, TypeInv
<1>3. \A q \in Processes : process'[q] = IF q = p THEN c ELSE process[q]
  BY DEF ReviewInv, TypeInv
<1>4. \A q \in Processes : IsCommand(process'[q]) /\ Prepared(process'[q].events, log)
  BY <1>3 DEF ReviewInv, TypeInv
<1> QED BY <1>2, <1>4 DEF ReviewInv, TypeInv

\* A process that ends leaves the invariant.
LEMMA ProcessEnds ==
  ASSUME ReviewInv, NEW p \in Processes,
         process' = [process EXCEPT ![p] = Done], UNCHANGED <<log, grounds>>
  PROVE  ReviewInv'
<1>1. IsCommand(Done) /\ Prepared(Done.events, log)
  BY DoneIsCommand, PreparedOnEmpty
<1> HIDE DEF Done
<1> QED BY <1>1, OneCommandChanges

LEMMA StartKeeps ==
  ASSUME ReviewInv, NEW p \in Processes, NEW c, IsCommand(c), Prepared(c.events, <<>>),
         Start(p, c)
  PROVE  ReviewInv'
<1>1. Prepared(c.events, log)
  BY PreparedOnEmpty
<1> QED BY <1>1, OneCommandChanges DEF Start

\* An event that needs nothing is added, or one the ledger is prepared for.
LEMMA AddKeepsLog ==
  ASSUME log \in Seq(Events), NEW e \in Events, Prepared(log, <<>>), Prepared(<<e>>, log),
         log' = Append(log, e)
  PROVE  log' \in Seq(Events) /\ Prepared(log', <<>>)
<1>1. <<e>> \in Seq(Events) /\ <<e>> # <<>> /\ Head(<<e>>) = e
  OBVIOUS
<1> DEFINE s == <<e>>
<1> HIDE DEF s
<1>2. s \in Seq(Events) /\ s # <<>> /\ Head(s) = e /\ Prepared(s, log)
  BY <1>1 DEF s
<1> QED BY <1>2, PreparedNext, AppendProperties

\* The processes are prepared for the longer ledger.
LEMMA OtherEventKeeps ==
  ASSUME ReviewInv, NEW e \in Events, \A x : ~Needs(e.id, x),
         log' = Append(log, e), UNCHANGED <<process, grounds>>
  PROVE  ReviewInv'
<1>1. log \in Seq(Events)
  BY DEF ReviewInv, TypeInv
<1>2. Prepared(<<e>>, log)
  BY PreparedAlone, PreparedOnEmpty
<1>3. log' \in Seq(Events) /\ Prepared(log', <<>>)
  BY <1>1, <1>2, AddKeepsLog DEF ReviewInv
<1>4. ASSUME NEW q \in Processes PROVE Prepared(process[q].events, log')
  <2>1. process[q].events \in Seq(Events) /\ Prepared(process[q].events, log)
    BY DEF ReviewInv, TypeInv, Commands
  <2> QED BY <1>1, <2>1, PreparedLonger
<1> QED BY <1>3, <1>4 DEF ReviewInv, TypeInv

LEMMA AppendNextKeeps ==
  ASSUME ReviewInv, NEW p \in Processes, AppendNext(p)
  PROVE  ReviewInv'
<1> DEFINE s == process[p].events
           e == Head(s)
           rest == Tail(s)
           c == IF rest = <<>> THEN Done ELSE [process[p] EXCEPT !.events = rest]
<1>1. /\ IsCommand(process[p]) /\ process[p] \in Commands
      /\ s \in Seq(Events) /\ s # <<>> /\ Prepared(s, log)
      /\ log \in Seq(Events) /\ Prepared(log, <<>>)
      /\ process \in [Processes -> Commands]
  BY DEF ReviewInv, TypeInv, IsCommand, Commands, AppendNext
<1>2. log' = Append(log, e) /\ process' = [process EXCEPT ![p] = c]
  BY DEF AppendNext, Ledger!Add
<1>3. e \in Events /\ rest \in Seq(Events)
  BY <1>1, HeadTailProperties
<1>4. Prepared(rest, log') /\ Prepared(log', <<>>)
  BY <1>1, <1>2, PreparedNext
<1>5. log' \in Seq(Events)
  BY <1>1, <1>2, <1>3, AppendProperties
<1>6. grounds' \in Seq([event : Events, request : Requests])
  <2>1. CASE process[p].request = None
    BY <2>1 DEF AppendNext, ReviewInv, TypeInv
  <2>2. CASE process[p].request # None
    <3>1. process[p].request \in Requests
      BY <1>1, <2>2 DEF Commands
    <3>2. [event |-> e, request |-> process[p].request] \in [event : Events, request : Requests]
      BY <1>3, <3>1
    <3>3. grounds' = Append(grounds, [event |-> e, request |-> process[p].request])
      BY <2>2 DEF AppendNext
    <3>4. grounds \in Seq([event : Events, request : Requests])
      BY DEF ReviewInv, TypeInv
    <3> QED BY <3>2, <3>3, <3>4, AppendProperties
  <2> QED BY <2>1, <2>2
<1>7. IsCommand(c) /\ Prepared(c.events, log')
  <2>1. CASE rest = <<>>
    BY <2>1, DoneIsCommand, PreparedOnEmpty
  <2>2. CASE rest # <<>>
    <3>1. c = [process[p] EXCEPT !.events = rest]
      BY <2>2
    <3> HIDE DEF rest, c
    <3>2. /\ c \in Commands /\ c.events = rest /\ c.pc = process[p].pc
          /\ c.legacy = process[p].legacy
      BY <1>1, <1>3, <3>1 DEF Commands
    <3>3. c.pc # "asked"
      BY <3>2 DEF AppendNext
    <3> QED BY <1>1, <1>4, <2>2, <3>2, <3>3 DEF IsCommand
  <2> QED BY <2>1, <2>2
<1> HIDE DEF c, e, rest, s
<1>8. c \in Commands
  BY <1>7 DEF IsCommand
<1>9. process' \in [Processes -> Commands]
      /\ \A q \in Processes : process'[q] = IF q = p THEN c ELSE process[q]
  BY <1>1, <1>2, <1>8
<1>10. ASSUME NEW q \in Processes
       PROVE  IsCommand(process'[q]) /\ Prepared(process'[q].events, log')
  <2>1. CASE q = p
    BY <1>7, <1>9, <2>1
  <2>2. CASE q # p
    <3>1. /\ process'[q] = process[q] /\ IsCommand(process[q])
          /\ process[q].events \in Seq(Events) /\ Prepared(process[q].events, log)
      BY <1>9, <2>2 DEF ReviewInv, TypeInv, Commands
    <3>2. Prepared(process[q].events, log')
      BY <1>1, <1>2, <1>3, <3>1, PreparedLonger
    <3> QED BY <3>1, <3>2
  <2> QED BY <2>1, <2>2
<1> QED BY <1>4, <1>5, <1>6, <1>9, <1>10 DEF ReviewInv, TypeInv

LEMMA FallBackKeeps ==
  ASSUME ReviewInv, NEW p \in Processes, FallBack(p)
  PROVE  ReviewInv'
<1> DEFINE c == [process[p] EXCEPT !.pc = "legacy", !.events = process[p].legacy]
<1>1. process[p].pc = "typed" /\ IsCommand(process[p]) /\ process[p] \in Commands
  BY DEF FallBack, ReviewInv, TypeInv, IsCommand
<1>2. process' = [process EXCEPT ![p] = c]
  BY DEF FallBack, ReviewInv, TypeInv
<1>3. c \in Commands /\ c.pc = "legacy" /\ c.events = process[p].legacy
      /\ c.legacy = process[p].legacy
  BY <1>1 DEF Commands
<1> HIDE DEF c
<1>4. IsCommand(c)
  BY <1>1, <1>3 DEF IsCommand
<1>5. Prepared(c.events, log)
  BY <1>1, <1>3, PreparedOnEmpty DEF IsCommand
<1> QED BY <1>2, <1>4, <1>5, OneCommandChanges DEF FallBack

LEMMA AskQuorumKeeps ==
  ASSUME ReviewInv, NEW p \in Processes, NEW request \in Requests, AskQuorum(p, request)
  PROVE  ReviewInv'
<1> DEFINE c == [Done EXCEPT !.pc = "asked", !.request = request]
<1>1. /\ c \in Commands /\ c.pc = "asked" /\ c.request = request
      /\ c.events = <<>> /\ c.legacy = <<>>
  BY EmptySeq DEF Done, Commands
<1>2. Start(p, c)
  BY DEF AskQuorum
<1> HIDE DEF c
<1>3. IsCommand(c) /\ Prepared(c.events, <<>>)
  BY <1>1, NothingPrepared DEF IsCommand
<1> QED BY <1>2, <1>3, StartKeeps

LEMMA AcceptQuorumKeeps ==
  ASSUME ReviewInv, NEW p \in Processes, AcceptQuorum(p)
  PROVE  ReviewInv'
<1>1. CASE Satisfied(process[p].request)
  <2>1. process' = [process EXCEPT ![p] = Acceptance(process[p].request)]
    BY <1>1 DEF AcceptQuorum
  <2>2. process[p].request \in Requests
    BY DEF AcceptQuorum, ReviewInv, TypeInv, IsCommand
  <2>3. /\ IsCommand(Acceptance(process[p].request))
        /\ Prepared(Acceptance(process[p].request).events, log)
    BY <2>2, AcceptanceIsCommand, PreparedOnEmpty
  <2> QED BY <2>1, <2>3, OneCommandChanges DEF AcceptQuorum
<1>2. CASE ~Satisfied(process[p].request)
  <2>1. process' = [process EXCEPT ![p] = Done]
    BY <1>2 DEF AcceptQuorum
  <2> QED BY <2>1, ProcessEnds DEF AcceptQuorum
<1> QED BY <1>1, <1>2

LEMMA RepairKeeps ==
  ASSUME ReviewInv, NEW a \in Artifacts, RequestRepair(a) \/ CompleteRepair(a)
  PROVE  ReviewInv'
<1>1. RepairId(Len(log)) \in EventIds
  <2>1. Len(log) \in Nat /\ Len(log) < MaxEvents
    BY LenProperties DEF RequestRepair, CompleteRepair, ReviewInv, TypeInv
  <2> QED BY <2>1, IdAssumptions, ReviewAssumptions
<1>2. PICK type \in {"REPAIR_REQUESTED", "REPAIR_COMPLETED"} :
         /\ log' = Append(log, V2Event(RepairId(Len(log)), type, a, [opaque |-> TRUE]))
         /\ UNCHANGED <<process, grounds>>
  BY DEF RequestRepair, CompleteRepair, Ledger!Add
<1> DEFINE e == V2Event(RepairId(Len(log)), type, a, [opaque |-> TRUE])
<1>3. e \in Events /\ e.id = RepairId(Len(log))
  BY <1>1, OpaqueTyped, V2Typed
<1>4. log' = Append(log, e)
  BY <1>2
<1> HIDE DEF e
<1>5. \A x : ~Needs(e.id, x)
  BY <1>3, NeedsOfIds
<1> QED BY <1>2, <1>3, <1>4, <1>5, OtherEventKeeps

LEMMA AppendOtherKeeps ==
  ASSUME ReviewInv, NEW e \in Submissions, AppendOther(e)
  PROVE  ReviewInv'
<1>1. e \in Events
  BY ReviewAssumptions
<1>2. \A x : ~Needs(e.id, x)
  <2>1. \A t \in Attestations : e.id # TimeId(t) /\ e.id # DecisionTimeId(t)
    BY IdAssumptions
  <2>2. \A v \in Verdicts : v.id \in Attestations
    BY ReviewAssumptions DEF ReviewVerdicts
  <2> QED BY <2>1, <2>2 DEF Needs
<1>3. log' = Append(log, e) /\ UNCHANGED <<process, grounds>>
  BY DEF AppendOther, Ledger!Add
<1> QED BY <1>1, <1>2, <1>3, OtherEventKeeps

-----------------------------------------------------------------------------
(* Theorems *)

LEMMA ReviewBegins == Init => ReviewInv
<1> SUFFICES ASSUME Init PROVE ReviewInv
  OBVIOUS
<1>1. log = <<>> /\ grounds = <<>> /\ process = [p \in Processes |-> Done]
  BY DEF Init, Ledger!Init
<1>2. Done \in Commands /\ IsCommand(Done) /\ Prepared(Done.events, <<>>)
  BY DoneIsCommand DEF IsCommand
<1> HIDE DEF Done
<1>3. \A p \in Processes : process[p] = Done
  BY <1>1
<1>4. process \in [Processes -> Commands]
  BY <1>1, <1>2
<1>5. log \in Seq(Events) /\ grounds \in Seq([event : Events, request : Requests])
  BY <1>1, EmptySeq
<1> QED BY <1>1, <1>2, <1>3, <1>4, <1>5, NothingPrepared DEF ReviewInv, TypeInv

LEMMA ReviewGoesOn == ReviewInv /\ [Next]_vars => ReviewInv'
<1> SUFFICES ASSUME ReviewInv, [Next]_vars PROVE ReviewInv'
  OBVIOUS
<1>1. ASSUME NEW e \in Submissions, AppendOther(e) PROVE ReviewInv'
  BY <1>1, AppendOtherKeeps
<1>2. ASSUME NEW a \in Artifacts, RequestRepair(a) \/ CompleteRepair(a) PROVE ReviewInv'
  BY <1>2, RepairKeeps
<1>3. ASSUME NEW p \in Processes, NEW sheet \in Sheets, NEW risk \in Risks,
             Attest(p, sheet, risk)
      PROVE  ReviewInv'
  BY <1>3, AttestationIsCommand, StartKeeps DEF Attest
<1>4. ASSUME NEW p \in Processes, NEW request \in Requests, AskQuorum(p, request)
      PROVE  ReviewInv'
  BY <1>4, AskQuorumKeeps
<1>5. ASSUME NEW p \in Processes, AcceptQuorum(p) PROVE ReviewInv'
  BY <1>5, AcceptQuorumKeeps
<1>6. ASSUME NEW p \in Processes, NEW verdict \in Verdicts, Record(p, verdict)
      PROVE  ReviewInv'
  BY <1>6, DecisionIsCommand, StartKeeps DEF Record
<1>7. ASSUME NEW p \in Processes, AppendNext(p) PROVE ReviewInv'
  BY <1>7, AppendNextKeeps
<1>8. ASSUME NEW p \in Processes, FallBack(p) PROVE ReviewInv'
  BY <1>8, FallBackKeeps
<1>9. ASSUME NEW p \in Processes, Refuse(p) PROVE ReviewInv'
  BY <1>9, ProcessEnds DEF Refuse
<1>10. ASSUME NEW p \in Processes, Crash(p) PROVE ReviewInv'
  BY <1>10, ProcessEnds DEF Crash
<1>11. ASSUME UNCHANGED vars PROVE ReviewInv'
  BY <1>11 DEF vars, ReviewInv, TypeInv
<1> QED BY <1>1, <1>2, <1>3, <1>4, <1>5, <1>6, <1>7, <1>8, <1>9, <1>10, <1>11 DEF Next

LEMMA ReviewAlways == Spec => []ReviewInv
BY ReviewBegins, ReviewGoesOn, PTL DEF Spec

\* Types: the events of the commands are well-typed events of the ledger
\* (src/lpe/review/acceptance.py, decisions.py).
THEOREM ReviewTypeCorrect == Spec => []TypeOK
<1>1. ReviewInv => TypeOK
  <2> SUFFICES ASSUME ReviewInv PROVE TypeOK
    OBVIOUS
  <2>1. Requests \subseteq AcceptRequests
    BY ReviewAssumptions
  <2>2. grounds \in Seq([event : Events, request : AcceptRequests])
    <3>1. grounds \in Seq([event : Events, request : Requests])
      BY DEF ReviewInv, TypeInv
    <3>2. [event : Events, request : Requests] \subseteq [event : Events, request : AcceptRequests]
      BY <2>1
    <3> QED BY <3>1, <3>2, SeqMonotonic
  <2>3. process \in [Processes -> [pc : {"idle", "asked", "typed", "legacy"}, events : Seq(Events),
                                   legacy : Seq(Events), request : AcceptRequests \cup {None}]]
    BY <2>1 DEF ReviewInv, TypeInv, Commands
  <2> QED BY <2>2, <2>3 DEF ReviewInv, TypeInv, TypeOK
<1> QED BY <1>1, ReviewAlways, PTL

\* Expert time stays with its review, in every interleaving of commands that
\* are killed, repeated and fall back to 0.1 events (record_attestation_event).
THEOREM TimeAlwaysFollowsReview == Spec => []TimeFollowsReview
<1>1. ReviewInv => TimeFollowsReview
  <2> SUFFICES ASSUME ReviewInv, NEW t \in Attestations, NEW i \in RowOf(TimeId(t))
               PROVE  \E j \in RowOf(AttestId(t)) :
                         j < i /\ log[j].artifact = log[i].artifact
                               /\ log[j].schema = log[i].schema
    BY DEF TimeFollowsReview
  <2>1. i \in DOMAIN log /\ log[i].id = TimeId(t) /\ DOMAIN log = 1 .. Len(log) /\ Len(log) \in Nat
    BY LenProperties DEF RowOf, ReviewInv, TypeInv
  <2>2. AttestId(t) \in EventIds /\ Needs(log[i].id, AttestId(t))
    BY <2>1, IdAssumptions, NeedsOfIds
  <2>3. \/ \E j \in 1 .. i - 1 : Is(log[j], AttestId(t), log[i])
        \/ \E j \in DOMAIN <<>> : Is(<<>>[j], AttestId(t), log[i])
    BY <2>1, <2>2 DEF ReviewInv, Prepared
  <2>4. PICK j \in 1 .. i - 1 : Is(log[j], AttestId(t), log[i])
    BY <2>3
  <2>5. j \in DOMAIN log /\ j < i
    BY <2>1, <2>4
  <2> QED BY <2>4, <2>5 DEF RowOf, Is
<1> QED BY <1>1, ReviewAlways, PTL

\* A recorded decision time means that an event for every obligation of the
\* decision is there (record_review_decision).
THEOREM DecisionsAreComplete == Spec => []DecisionIsComplete
<1>1. ReviewInv => DecisionIsComplete
  <2> SUFFICES ASSUME ReviewInv, NEW v \in Verdicts, NEW i \in RowOf(DecisionTimeId(v.id)),
                      NEW k \in 1 .. v.linked + 1
               PROVE  RowOf(DecisionId(v.id, k)) # {}
    BY DEF DecisionIsComplete
  <2>1. i \in DOMAIN log /\ log[i].id = DecisionTimeId(v.id)
        /\ DOMAIN log = 1 .. Len(log) /\ Len(log) \in Nat
    BY LenProperties DEF RowOf, ReviewInv, TypeInv
  <2>2. DecisionId(v.id, k) \in EventIds /\ Needs(log[i].id, DecisionId(v.id, k))
    BY <2>1, IdAssumptions DEF Needs
  <2>3. \/ \E j \in 1 .. i - 1 : Is(log[j], DecisionId(v.id, k), log[i])
        \/ \E j \in DOMAIN <<>> : Is(<<>>[j], DecisionId(v.id, k), log[i])
    BY <2>1, <2>2 DEF ReviewInv, Prepared
  <2>4. PICK j \in 1 .. i - 1 : Is(log[j], DecisionId(v.id, k), log[i])
    BY <2>3
  <2>5. j \in DOMAIN log /\ log[j].id = DecisionId(v.id, k)
    BY <2>1, <2>4 DEF Is
  <2> QED BY <2>5 DEF RowOf
<1> QED BY <1>1, ReviewAlways, PTL

-----------------------------------------------------------------------------
(* The matching finds an assignment of reviewers to the requirements *)

\* Some places have a first one.
LEMMA FirstPlace ==
  ASSUME NEW n \in Nat, NEW places \in SUBSET (1 .. n), places # {}
  PROVE  Min(places) \in places
<1> DEFINE Until(i) == {j \in places : j <= i}
           prefixes == {Until(i) : i \in places}
<1>1. IsFiniteSet(places) /\ \A i \in places : i \in Int
  <2>1. IsFiniteSet(1 .. n)
    BY FS_Interval
  <2>2. IsFiniteSet(places)
    BY <2>1, FS_Subset
  <2>3. \A i \in places : i \in Int
    OBVIOUS
  <2> QED BY <2>2, <2>3
<1>2. prefixes \subseteq FiniteSubsetsOf(places) /\ prefixes # {}
  <2>1. \A i \in places : Until(i) \in SUBSET places /\ IsFiniteSet(Until(i))
    BY <1>1, FS_Subset
  <2> QED BY <2>1 DEF FiniteSubsetsOf
<1>3. PICK least \in prefixes :
         \A other \in prefixes : ~(<<other, least>> \in StrictSubsetOrdering(places))
  <2>1. IsWellFoundedOn(StrictSubsetOrdering(places), FiniteSubsetsOf(places))
    BY <1>1, FS_StrictSubsetOrderingWellFounded
  <2> HIDE DEF prefixes
  <2> QED BY <1>2, <2>1, WFMin, Zenon
<1>4. PICK i \in places : least = Until(i)
  BY <1>3
<1>5. ASSUME NEW j \in places, j < i PROVE FALSE
  <2>0. i \in Int /\ j \in Int
    BY <1>1
  <2>1. \A k \in places : k \in Int /\ (k <= j => k <= i)
    BY <1>1, <1>5, <2>0
  <2>2. Until(j) \subseteq Until(i) /\ i \in Until(i) /\ i \notin Until(j)
    <3>1. Until(j) \subseteq Until(i)
      BY <2>1
    <3>2. i \in Until(i)
      BY <2>0
    <3>3. i \notin Until(j)
      BY <1>5, <2>0
    <3> QED BY <3>1, <3>2, <3>3
  <2>3. <<Until(j), Until(i)>> \in StrictSubsetOrdering(places)
    BY <2>2 DEF StrictSubsetOrdering
  <2> QED BY <1>3, <1>4, <2>3
<1>6. \A j \in places : i <= j
  BY <1>1, <1>5
<1> QED BY <1>6 DEF Min

\* a[k] is the sheet the k-th requirement was met with.
IsAssignment(a, count, m, sheets, required) ==
    /\ a \in [1 .. count -> DOMAIN sheets]
    /\ \A k \in 1 .. count : Meets(sheets[a[k]], required[k])
    /\ \A k, l \in 1 .. count : sheets[a[k]].reviewer = sheets[a[l]].reviewer => k = l
    /\ m.taken = {a[k] : k \in 1 .. count}
    /\ m.reviewers = {sheets[a[k]].reviewer : k \in 1 .. count}

Assigned(count, m, sheets, required) ==
    /\ DOMAIN m = {"taken", "reviewers", "missing"}
    /\ m.missing \in BOOLEAN
    /\ ~m.missing => \E a : IsAssignment(a, count, m, sheets, required)

LEMMA NothingAssigned ==
  ASSUME NEW sheets, NEW required
  PROVE  Assigned(0, NothingMatched, sheets, required)
<1> DEFINE a == [k \in 1 .. 0 |-> 0]
<1>1. 1 .. 0 = {}
  OBVIOUS
<1>2. IsAssignment(a, 0, NothingMatched, sheets, required)
  BY <1>1 DEF IsAssignment, NothingMatched
<1> QED BY <1>2 DEF Assigned, NothingMatched

LEMMA MatchStep ==
  ASSUME NEW sheets, NEW n \in Nat, DOMAIN sheets = 1 .. n, NEW required,
         NEW count \in Nat, NEW m, Assigned(count, m, sheets, required)
  PROVE  Assigned(count + 1, MatchRequirement(sheets, m, required[count + 1]), sheets, required)
<1> DEFINE r     == required[count + 1]
           open  == {i \in DOMAIN sheets \ m.taken :
                        Meets(sheets[i], r) /\ sheets[i].reviewer \notin m.reviewers}
           first == Min(open)
           next  == MatchRequirement(sheets, m, r)
<1>1. CASE open = {}
  <2>1. next = [m EXCEPT !.missing = TRUE]
    BY <1>1 DEF MatchRequirement
  <2>2. DOMAIN next = {"taken", "reviewers", "missing"} /\ next.missing = TRUE
    BY <2>1 DEF Assigned
  <2> QED BY <2>2 DEF Assigned
<1>2. CASE open # {}
  <2>1. first \in open
    BY <1>2, FirstPlace
  <2>2. next = [m EXCEPT !.taken = @ \cup {first}, !.reviewers = @ \cup {sheets[first].reviewer}]
    BY <1>2 DEF MatchRequirement
  <2>3. first \in DOMAIN sheets /\ Meets(sheets[first], r) /\ sheets[first].reviewer \notin m.reviewers
    BY <2>1
  <2> HIDE DEF open, first, next
  <2>4. /\ DOMAIN next = {"taken", "reviewers", "missing"}
        /\ next.missing = m.missing /\ next.taken = m.taken \cup {first}
        /\ next.reviewers = m.reviewers \cup {sheets[first].reviewer}
    BY <2>2 DEF Assigned
  <2>5. ASSUME ~m.missing
        PROVE  \E a : IsAssignment(a, count + 1, next, sheets, required)
    <3>1. PICK a : IsAssignment(a, count, m, sheets, required)
      BY <2>5 DEF Assigned
    <3> DEFINE b == [k \in 1 .. count + 1 |-> IF k = count + 1 THEN first ELSE a[k]]
    <3>2. /\ \A k \in 1 .. count + 1 : k = count + 1 \/ k \in 1 .. count
          /\ \A k \in 1 .. count : k # count + 1 /\ k \in 1 .. count + 1
          /\ count + 1 \in 1 .. count + 1
      OBVIOUS
    <3>3. b \in [1 .. count + 1 -> DOMAIN sheets]
      BY <2>3, <3>1, <3>2 DEF IsAssignment
    <3>4. b[count + 1] = first /\ \A k \in 1 .. count : b[k] = a[k]
      BY <3>2
    <3> HIDE DEF b, r
    <3>5. \A k \in 1 .. count + 1 : Meets(sheets[b[k]], required[k])
      BY <2>3, <3>1, <3>2, <3>4 DEF IsAssignment, r
    <3>6. \A k \in 1 .. count : sheets[b[k]].reviewer # sheets[first].reviewer
      BY <2>3, <3>1, <3>4 DEF IsAssignment
    <3>7. \A k, l \in 1 .. count + 1 : sheets[b[k]].reviewer = sheets[b[l]].reviewer => k = l
      BY <3>1, <3>2, <3>4, <3>6 DEF IsAssignment
    <3>8. next.taken = {b[k] : k \in 1 .. count + 1}
      <4>1. m.taken = {a[k] : k \in 1 .. count}
        BY <3>1 DEF IsAssignment
      <4> QED BY <2>4, <3>2, <3>4, <4>1
    <3>9. next.reviewers = {sheets[b[k]].reviewer : k \in 1 .. count + 1}
      <4>1. m.reviewers = {sheets[a[k]].reviewer : k \in 1 .. count}
        BY <3>1 DEF IsAssignment
      <4> QED BY <2>4, <3>2, <3>4, <4>1
    <3> QED BY <3>3, <3>5, <3>7, <3>8, <3>9 DEF IsAssignment
  <2>6. next.missing \in BOOLEAN
    BY <2>4 DEF Assigned
  <2> QED BY <2>4, <2>5, <2>6 DEF Assigned, next
<1> QED BY <1>1, <1>2

\* No risk asks for more than three attestations.
LEMMA FewRequirements ==
  ASSUME NEW risk \in Risks, NEW semanticForR2 \in BOOLEAN
  PROVE  /\ Len(Requirements(risk, semanticForR2)) \in 0 .. 3
         /\ DOMAIN Requirements(risk, semanticForR2)
               = 1 .. Len(Requirements(risk, semanticForR2))
<1>1. \/ Requirements(risk, semanticForR2) = <<>>
      \/ \E x : Requirements(risk, semanticForR2) = <<x>>
      \/ \E x, y : Requirements(risk, semanticForR2) = <<x, y>>
      \/ \E x, y, z : Requirements(risk, semanticForR2) = <<x, y, z>>
  <2>1. CASE risk = "R0"
    BY <2>1 DEF Requirements
  <2>2. CASE risk = "R1"
    BY <2>2 DEF Requirements
  <2>3. CASE risk = "R2"
    BY <2>3 DEF Requirements
  <2>4. CASE risk = "R3"
    BY <2>4 DEF Requirements
  <2>5. CASE risk = "R4"
    BY <2>5 DEF Requirements
  <2> QED BY <2>1, <2>2, <2>3, <2>4, <2>5 DEF Risks
<1> QED BY <1>1

LEMMA MatchingAssigns ==
  ASSUME NEW sheets, NEW size \in Nat, DOMAIN sheets = 1 .. size,
         NEW required, NEW n, n = Len(required), n \in 0 .. 3
  PROVE  Assigned(n, Matching(sheets, required), sheets, required)
<1> DEFINE Next1(m, k) == MatchRequirement(sheets, m, required[k])
           After(f) == [k \in 0 .. n |-> IF k = 0 THEN NothingMatched ELSE Next1(f[k - 1], k)]
           after == CHOOSE f : f = After(f)
<1>1. \E f : f = After(f)
  <2> DEFINE m0 == NothingMatched
             m1 == Next1(m0, 1)
             m2 == Next1(m1, 2)
             m3 == Next1(m2, 3)
             f  == [k \in 0 .. n |-> IF k = 0 THEN m0 ELSE IF k = 1 THEN m1
                                     ELSE IF k = 2 THEN m2 ELSE m3]
  <2> HIDE DEF m0
  <2>1. ASSUME NEW k \in 0 .. n
        PROVE  f[k] = IF k = 0 THEN m0 ELSE Next1(f[k - 1], k)
    <3>1. k \in {0, 1, 2, 3}
      OBVIOUS
    <3>2. k # 0 => k - 1 \in 0 .. n
      OBVIOUS
    <3> HIDE DEF Next1
    <3>3. CASE k = 0
      BY <3>3
    <3>4. CASE k = 1
      BY <3>2, <3>4
    <3>5. CASE k = 2
      BY <3>2, <3>5
    <3>6. CASE k = 3
      BY <3>2, <3>6
    <3> QED BY <3>1, <3>3, <3>4, <3>5, <3>6
  <2> HIDE DEF m1, m2, m3, Next1
  <2>2. f = After(f)
    BY <2>1 DEF m0
  <2> QED BY <2>2
<1>2. after = After(after)
  <2> HIDE DEF After
  <2> QED BY <1>1
<1>3. Matching(sheets, required) = after[n]
  BY DEF Matching
<1> HIDE DEF after
<1>4. after[0] = NothingMatched /\ \A k \in 1 .. n : after[k] = Next1(after[k - 1], k)
  <2>1. \A k \in 0 .. n : after[k] = IF k = 0 THEN NothingMatched ELSE Next1(after[k - 1], k)
    <3> HIDE DEF Next1
    <3> QED BY <1>2
  <2> HIDE DEF Next1
  <2> QED BY <2>1
<1>5. Assigned(0, after[0], sheets, required)
  BY <1>4, NothingAssigned
<1>6. ASSUME NEW k \in 1 .. n, Assigned(k - 1, after[k - 1], sheets, required)
      PROVE  Assigned(k, after[k], sheets, required)
  <2>1. k - 1 \in Nat /\ (k - 1) + 1 = k
    OBVIOUS
  <2>2. Assigned((k - 1) + 1, Next1(after[k - 1], (k - 1) + 1), sheets, required)
    BY <1>6, <2>1, MatchStep
  <2> QED BY <1>4, <2>1, <2>2
<1>7. n >= 1 => Assigned(1, after[1], sheets, required)
  <2>1. n >= 1 => 1 \in 1 .. n /\ 1 - 1 = 0
    OBVIOUS
  <2> QED BY <1>5, <1>6, <2>1
<1>8. n >= 2 => Assigned(2, after[2], sheets, required)
  <2>1. n >= 2 => 2 \in 1 .. n /\ 2 - 1 = 1
    OBVIOUS
  <2> QED BY <1>6, <1>7, <2>1
<1>9. n >= 3 => Assigned(3, after[3], sheets, required)
  <2>1. n >= 3 => 3 \in 1 .. n /\ 3 - 1 = 2
    OBVIOUS
  <2> QED BY <1>6, <1>8, <2>1
<1>10. n = 0 \/ n = 1 \/ n = 2 \/ n = 3
  OBVIOUS
<1> QED BY <1>3, <1>5, <1>7, <1>8, <1>9, <1>10

-----------------------------------------------------------------------------
(* The quorum *)

LEMMA EvaluatedFields ==
  ASSUME NEW risk, NEW sheets, NEW fingerprint, NEW semanticForR2
  PROVE  LET v == EvaluateQuorum(risk, sheets, fingerprint, semanticForR2)
             m == Matching(sheets, Requirements(risk, semanticForR2))
             matched == {sheets[i].id : i \in m.taken}
             earned(d) == \E i \in DOMAIN sheets :
                             /\ sheets[i].decision = "ACCEPT"
                             /\ sheets[i].dimension = d
                             /\ sheets[i].id \in matched
             flag(d) == \/ risk = "R0"
                        \/ v.satisfied /\ (earned(d) \/ risk \in GrantedUnasked(d, semanticForR2))
         IN /\ v.satisfied = (~(Dissent(sheets) \/ OtherEvidence(sheets, fingerprint)) /\ ~m.missing)
            /\ v.semantic = flag("SEMANTIC_FIDELITY")
            /\ v.repository = flag("REPOSITORY_FIT")
            /\ v.implementation = flag("IMPLEMENTATION_QUALITY")
BY DEF EvaluateQuorum

\* What accept-quorum is satisfied with, has an assignment, and no one dissents.
LEMMA SatisfiedAssigns ==
  ASSUME NEW r \in Requests, Satisfied(r)
  PROVE  LET required == Requirements(r.risk, FALSE)
         IN /\ r.risk \in Risks /\ r.sheets \in Seq(AttestationSheets)
            /\ \A i \in DOMAIN r.sheets :
                  r.sheets[i].decision = "ACCEPT" /\ r.sheets[i].fingerprint = r.fingerprint
            /\ DOMAIN required = 1 .. Len(required) /\ Len(required) \in 0 .. 3
            /\ \E a : IsAssignment(a, Len(required), Matching(r.sheets, required), r.sheets, required)
<1> DEFINE required == Requirements(r.risk, FALSE)
           m == Matching(r.sheets, required)
<1>1. r.risk \in Risks /\ r.sheets \in Seq(AttestationSheets)
  BY ReviewAssumptions DEF AcceptRequests
<1>2. DOMAIN required = 1 .. Len(required) /\ Len(required) \in 0 .. 3
  BY <1>1, FewRequirements
<1>3. ~Dissent(r.sheets) /\ ~OtherEvidence(r.sheets, r.fingerprint) /\ ~m.missing
  BY EvaluatedFields DEF Satisfied
<1>4. DOMAIN r.sheets = 1 .. Len(r.sheets) /\ Len(r.sheets) \in Nat
  BY <1>1, LenProperties
<1> HIDE DEF m, required
<1>5. Assigned(Len(required), m, r.sheets, required)
  BY <1>2, <1>4, MatchingAssigns DEF m
<1>6. \A i \in DOMAIN r.sheets :
         r.sheets[i].decision = "ACCEPT" /\ r.sheets[i].fingerprint = r.fingerprint
  BY <1>3 DEF Dissent, OtherEvidence
<1> QED BY <1>1, <1>2, <1>3, <1>5, <1>6 DEF Assigned, m, required

\* The matching never goes back on a match, and what it finds is a quorum.
LEMMA SatisfiedIsQuorum ==
  ASSUME NEW r \in Requests, Satisfied(r)
  PROVE  HasQuorum(r.risk, r.sheets, r.fingerprint, FALSE)
<1> DEFINE required == Requirements(r.risk, FALSE)
           m == Matching(r.sheets, required)
<1>1. PICK a : IsAssignment(a, Len(required), m, r.sheets, required)
  BY SatisfiedAssigns
<1>2. DOMAIN required = 1 .. Len(required)
  BY SatisfiedAssigns
<1>3. \A i \in DOMAIN r.sheets :
         r.sheets[i].decision = "ACCEPT" /\ r.sheets[i].fingerprint = r.fingerprint
  BY SatisfiedAssigns
<1> HIDE DEF m, required
<1>4. a \in [DOMAIN required -> DOMAIN r.sheets]
  BY <1>1, <1>2 DEF IsAssignment
<1>5. \A k \in DOMAIN required :
         /\ r.sheets[a[k]].dimension = required[k].dimension
         /\ r.sheets[a[k]].role = required[k].role
  BY <1>1, <1>2 DEF IsAssignment, Meets
<1>6. \A k, l \in DOMAIN required :
         r.sheets[a[k]].reviewer = r.sheets[a[l]].reviewer => k = l
  BY <1>1, <1>2 DEF IsAssignment
<1> QED BY <1>3, <1>4, <1>5, <1>6 DEF HasQuorum, required

\* What R3 and R4 ask for.
LEMMA HighRiskAsks ==
  /\ LET required == Requirements("R3", FALSE)
     IN /\ Len(required) = 2
        /\ required[1].dimension = "SEMANTIC_FIDELITY"
        /\ required[2].dimension = "REPOSITORY_FIT"
  /\ LET required == Requirements("R4", FALSE)
     IN /\ Len(required) = 3
        /\ required[1].dimension = "SEMANTIC_FIDELITY"
        /\ required[2].dimension = "REPOSITORY_FIT"
        /\ required[3].dimension = "IMPLEMENTATION_QUALITY"
BY DEF Requirements, Semantic, Repository, Architecture, Implementation

LEMMA SatisfiedFlags ==
  ASSUME NEW r \in Requests, Satisfied(r), r.risk \in HighRisks
  PROVE  LET verdict == EvaluateQuorum(r.risk, r.sheets, r.fingerprint, FALSE)
             accepted(d) == \E k \in DOMAIN r.sheets :
                               r.sheets[k].dimension = d /\ r.sheets[k].decision = "ACCEPT"
             distinctIds == \A k, l \in DOMAIN r.sheets : r.sheets[k].id = r.sheets[l].id => k = l
         IN  /\ verdict.semantic /\ accepted("SEMANTIC_FIDELITY")
             /\ verdict.repository /\ accepted("REPOSITORY_FIT")
             /\ r.risk = "R4" => verdict.implementation
             /\ verdict.implementation =>
                   accepted("IMPLEMENTATION_QUALITY") /\ (distinctIds => r.risk = "R4")
<1> DEFINE required == Requirements(r.risk, FALSE)
           m == Matching(r.sheets, required)
           n == Len(required)
           sheets == r.sheets
           verdict == EvaluateQuorum(r.risk, r.sheets, r.fingerprint, FALSE)
           Earned(d) == \E i \in DOMAIN sheets :
                           /\ sheets[i].decision = "ACCEPT"
                           /\ sheets[i].dimension = d
                           /\ sheets[i].id \in {sheets[j].id : j \in m.taken}
<1>1. PICK a : IsAssignment(a, n, m, sheets, required)
  BY SatisfiedAssigns
<1>2. r.risk = "R3" \/ r.risk = "R4"
  BY DEF HighRisks
<1>3. verdict.satisfied
  BY DEF Satisfied
<1>4. /\ verdict.semantic = Earned("SEMANTIC_FIDELITY")
      /\ verdict.repository = Earned("REPOSITORY_FIT")
      /\ verdict.implementation = Earned("IMPLEMENTATION_QUALITY")
  <2>1. /\ r.risk \notin GrantedUnasked("SEMANTIC_FIDELITY", FALSE)
        /\ r.risk \notin GrantedUnasked("REPOSITORY_FIT", FALSE)
        /\ r.risk \notin GrantedUnasked("IMPLEMENTATION_QUALITY", FALSE)
        /\ r.risk # "R0"
    BY <1>2 DEF GrantedUnasked
  <2> QED BY <1>3, <2>1, EvaluatedFields, Zenon
<1>5. /\ 1 \in 1 .. n /\ required[1].dimension = "SEMANTIC_FIDELITY"
      /\ 2 \in 1 .. n /\ required[2].dimension = "REPOSITORY_FIT"
      /\ r.risk = "R4" => 3 \in 1 .. n /\ required[3].dimension = "IMPLEMENTATION_QUALITY"
      /\ r.risk = "R3" => \A k \in 1 .. n : k = 1 \/ k = 2
  <2> HIDE DEF n
  <2>1. CASE r.risk = "R3"
    <3>1. /\ n = 2 /\ required[1].dimension = "SEMANTIC_FIDELITY"
          /\ required[2].dimension = "REPOSITORY_FIT"
      BY <2>1, HighRiskAsks DEF n
    <3> HIDE DEF required
    <3> QED BY <2>1, <3>1
  <2>2. CASE r.risk = "R4"
    <3>1. /\ n = 3 /\ required[1].dimension = "SEMANTIC_FIDELITY"
          /\ required[2].dimension = "REPOSITORY_FIT"
          /\ required[3].dimension = "IMPLEMENTATION_QUALITY"
      BY <2>2, HighRiskAsks DEF n
    <3> HIDE DEF required
    <3> QED BY <2>2, <3>1
  <2> QED BY <1>2, <2>1, <2>2
<1> HIDE DEF required, m, n, sheets, verdict
<1>6. ASSUME NEW k \in 1 .. n
      PROVE  /\ a[k] \in DOMAIN sheets /\ a[k] \in m.taken
             /\ sheets[a[k]].decision = "ACCEPT" /\ sheets[a[k]].dimension = required[k].dimension
             /\ Earned(required[k].dimension)
  <2>1. /\ a[k] \in DOMAIN sheets /\ a[k] \in m.taken
        /\ sheets[a[k]].decision = "ACCEPT" /\ sheets[a[k]].dimension = required[k].dimension
    BY <1>1 DEF IsAssignment, Meets
  <2> QED BY <2>1
<1>7. Earned("SEMANTIC_FIDELITY") /\ Earned("REPOSITORY_FIT")
      /\ (r.risk = "R4" => Earned("IMPLEMENTATION_QUALITY"))
  <2> HIDE DEF Earned
  <2> QED BY <1>5, <1>6
<1>8. ASSUME r.risk = "R3", Earned("IMPLEMENTATION_QUALITY"),
             \A k, l \in DOMAIN sheets : sheets[k].id = sheets[l].id => k = l
      PROVE  FALSE
  <2>1. PICK i \in DOMAIN sheets : /\ sheets[i].dimension = "IMPLEMENTATION_QUALITY"
                                   /\ sheets[i].id \in {sheets[j].id : j \in m.taken}
    BY <1>8
  <2>2. PICK k \in 1 .. n : sheets[i].id = sheets[a[k]].id
    BY <1>1, <2>1 DEF IsAssignment
  <2>3. i = a[k]
    BY <1>6, <1>8, <2>2
  <2>4. sheets[i].dimension \in {"SEMANTIC_FIDELITY", "REPOSITORY_FIT"}
    BY <1>5, <1>6, <1>8, <2>3
  <2> QED BY <2>1, <2>4
<1>9. \A d : Earned(d) => \E k \in DOMAIN sheets :
                               sheets[k].dimension = d /\ sheets[k].decision = "ACCEPT"
  OBVIOUS
<1> HIDE DEF Earned
<1> QED BY <1>2, <1>4, <1>7, <1>8, <1>9 DEF sheets, verdict

-----------------------------------------------------------------------------
(* What acceptances rest on *)

\* A command that appends an acceptance has found its request satisfied, and so
\* has every one that did.
QuorumInv ==
    /\ \A p \in Processes :
          process[p].pc \in {"typed", "legacy"} /\ process[p].request # None =>
              Satisfied(process[p].request)
    /\ \A i \in DOMAIN grounds :
          grounds[i].request \in Requests /\ Satisfied(grounds[i].request)

\* One process goes on, and no acceptance is recorded.
LEMMA QuorumOfOne ==
  ASSUME ReviewInv, QuorumInv, NEW p \in Processes, NEW c,
         process' = [process EXCEPT ![p] = c], grounds' = grounds,
         c.pc \in {"typed", "legacy"} /\ c.request # None => Satisfied(c.request)
  PROVE  QuorumInv'
<1>1. \A q \in Processes : process'[q] = IF q = p THEN c ELSE process[q]
  BY DEF ReviewInv, TypeInv
<1>2. \A q \in Processes :
         process'[q].pc \in {"typed", "legacy"} /\ process'[q].request # None =>
             Satisfied(process'[q].request)
  BY <1>1 DEF QuorumInv
<1> QED BY <1>2 DEF QuorumInv, Satisfied

LEMMA DoneAsksNothing == Done.pc = "idle" /\ Done.request = None
BY DEF Done

LEMMA QuorumOfAppend ==
  ASSUME ReviewInv, QuorumInv, NEW p \in Processes, AppendNext(p)
  PROVE  QuorumInv'
<1> DEFINE rest == Tail(process[p].events)
           c == IF rest = <<>> THEN Done ELSE [process[p] EXCEPT !.events = rest]
           e == Head(process[p].events)
<1>1. process[p] \in Commands /\ process[p].pc \in {"typed", "legacy"}
  BY DEF ReviewInv, TypeInv, AppendNext
<1>2. process' = [process EXCEPT ![p] = c]
  BY DEF AppendNext
<1>3. c.pc \in {"typed", "legacy"} /\ c.request # None => Satisfied(c.request)
  <2>1. CASE c = Done
    BY <2>1, DoneAsksNothing
  <2>2. CASE c = [process[p] EXCEPT !.events = rest]
    <3>1. c.request = process[p].request
      BY <1>1, <2>2 DEF Commands
    <3> QED BY <1>1, <3>1 DEF QuorumInv
  <2> QED BY <2>1, <2>2
<1> HIDE DEF c, e
<1>4. CASE process[p].request = None
  <2>1. grounds' = grounds
    BY <1>4 DEF AppendNext
  <2> QED BY <1>2, <1>3, <2>1, QuorumOfOne
<1>5. CASE process[p].request # None
  <2> DEFINE g == [event |-> e, request |-> process[p].request]
  <2>1. grounds' = Append(grounds, g)
    BY <1>5 DEF AppendNext, e
  <2>2. g.request \in Requests /\ Satisfied(g.request)
    BY <1>1, <1>5 DEF Commands, QuorumInv
  <2>3. grounds \in Seq([event : Events, request : Requests])
    BY DEF ReviewInv, TypeInv
  <2> HIDE DEF g
  <2>4. \A i \in DOMAIN grounds' :
           grounds'[i].request \in Requests /\ Satisfied(grounds'[i].request)
    <3>1. \A i \in DOMAIN grounds' : grounds'[i] = g \/ (i \in DOMAIN grounds /\ grounds'[i] = grounds[i])
      BY <2>1, <2>3, AppendProperties, LenProperties
    <3> QED BY <2>2, <3>1 DEF QuorumInv
  <2>5. \A q \in Processes : process'[q] = IF q = p THEN c ELSE process[q]
    BY <1>2 DEF ReviewInv, TypeInv
  <2>6. \A q \in Processes :
           process'[q].pc \in {"typed", "legacy"} /\ process'[q].request # None =>
               Satisfied(process'[q].request)
    BY <1>3, <2>5 DEF QuorumInv
  <2> QED BY <2>4, <2>6 DEF QuorumInv, Satisfied
<1> QED BY <1>4, <1>5

LEMMA QuorumGoesOn ==
  ASSUME ReviewInv, QuorumInv, [Next]_vars
  PROVE  QuorumInv'
<1>1. ASSUME NEW e \in Submissions, AppendOther(e) PROVE QuorumInv'
  BY <1>1 DEF AppendOther, QuorumInv, Satisfied
<1>2. ASSUME NEW a \in Artifacts, RequestRepair(a) \/ CompleteRepair(a) PROVE QuorumInv'
  BY <1>2 DEF RequestRepair, CompleteRepair, QuorumInv, Satisfied
<1>3. ASSUME NEW p \in Processes, NEW typed, NEW legacy, Start(p, Command(typed, legacy, None))
      PROVE  QuorumInv'
  <2> DEFINE c == Command(typed, legacy, None)
  <2>1. c.request = None /\ process' = [process EXCEPT ![p] = c] /\ grounds' = grounds
    BY <1>3 DEF Start, Command
  <2> HIDE DEF c
  <2> QED BY <2>1, QuorumOfOne
<1>4. ASSUME NEW p \in Processes, NEW sheet \in Sheets, NEW risk \in Risks, Attest(p, sheet, risk)
      PROVE  QuorumInv'
  BY <1>3, <1>4 DEF Attest, Attestation
<1>5. ASSUME NEW p \in Processes, NEW request \in Requests, AskQuorum(p, request)
      PROVE  QuorumInv'
  <2> DEFINE c == [Done EXCEPT !.pc = "asked", !.request = request]
  <2>1. c.pc = "asked" /\ process' = [process EXCEPT ![p] = c] /\ grounds' = grounds
    BY <1>5 DEF AskQuorum, Start, Done
  <2> HIDE DEF c
  <2> QED BY <2>1, QuorumOfOne
<1>6. ASSUME NEW p \in Processes, AcceptQuorum(p) PROVE QuorumInv'
  <2> DEFINE r == process[p].request
             c == IF Satisfied(r) THEN Acceptance(r) ELSE Done
  <2>1. process' = [process EXCEPT ![p] = c] /\ grounds' = grounds
    BY <1>6 DEF AcceptQuorum
  <2>2. c.pc \in {"typed", "legacy"} => c.request = r /\ Satisfied(r)
    BY DoneAsksNothing DEF Acceptance, Command
  <2> HIDE DEF r, c
  <2> QED BY <2>1, <2>2, QuorumOfOne
<1>7. ASSUME NEW p \in Processes, NEW verdict \in Verdicts, Record(p, verdict) PROVE QuorumInv'
  BY <1>3, <1>7 DEF Record, Decision
<1>8. ASSUME NEW p \in Processes, FallBack(p) PROVE QuorumInv'
  <2> DEFINE c == [process[p] EXCEPT !.pc = "legacy", !.events = process[p].legacy]
  <2>1. process[p] \in Commands /\ process[p].pc = "typed"
    BY <1>8 DEF FallBack, ReviewInv, TypeInv
  <2>2. process' = [process EXCEPT ![p] = c] /\ grounds' = grounds
    BY <1>8 DEF FallBack, ReviewInv, TypeInv
  <2>3. c.request = process[p].request
    BY <2>1 DEF Commands
  <2>4. c.request # None => Satisfied(c.request)
    BY <2>1, <2>3 DEF QuorumInv
  <2> HIDE DEF c
  <2> QED BY <2>2, <2>4, QuorumOfOne
<1>9. ASSUME NEW p \in Processes, Refuse(p) \/ Crash(p) PROVE QuorumInv'
  <2>1. process' = [process EXCEPT ![p] = Done] /\ grounds' = grounds
    BY <1>9 DEF Refuse, Crash
  <2> QED BY <2>1, DoneAsksNothing, QuorumOfOne
<1>10. ASSUME UNCHANGED vars PROVE QuorumInv'
  BY <1>10 DEF vars, QuorumInv, Satisfied
<1> QED BY <1>1, <1>2, <1>4, <1>5, <1>6, <1>7, <1>8, <1>9, <1>10, QuorumOfAppend DEF Next

LEMMA QuorumAlways == Spec => []QuorumInv
<1>1. Init => QuorumInv
  <2> SUFFICES ASSUME Init PROVE QuorumInv
    OBVIOUS
  <2>1. grounds = <<>> /\ \A p \in Processes : process[p].pc = "idle"
    BY DoneAsksNothing DEF Init
  <2> QED BY <2>1 DEF QuorumInv
<1> QED BY <1>1, QuorumGoesOn, ReviewAlways, PTL DEF Spec

\* Whoever asks, and whatever is in the files, an acceptance recorded by
\* accept-quorum has distinct reviewers in all the required roles (evaluate_quorum).
THEOREM AcceptancesHaveQuorum == Spec => []AcceptedByQuorum
<1>1. QuorumInv => AcceptedByQuorum
  BY SatisfiedIsQuorum DEF QuorumInv, AcceptedByQuorum
<1> QED BY <1>1, QuorumAlways, PTL

\* The flags an R3 or R4 acceptance carries are the word of reviewers who accepted
\* that dimension (QuorumEvaluation).
THEOREM FlagsAreAlwaysEarned == Spec => []FlagsAreEarned
<1>1. QuorumInv => FlagsAreEarned
  BY SatisfiedFlags, Zenon DEF QuorumInv, FlagsAreEarned
<1> QED BY <1>1, QuorumAlways, PTL

=============================================================================
