------------------------- MODULE LedgerMigration_proofs -------------------------
(***************************************************************************)
(* Theorems about LedgerMigration, for any events, any number of processes *)
(* that migrate at once and a source of any length.                        *)
(***************************************************************************)
EXTENDS LedgerMigration, SequenceTheorems, TLAPS

-----------------------------------------------------------------------------
(* Ledgers that begin with another *)

\* IsPrefix, event by event.
Begins(p, l) == Len(p) <= Len(l) /\ \A i \in 1 .. Len(p) : p[i] = l[i]

LEMMA BeginsIsPrefix ==
  ASSUME NEW S, NEW p \in Seq(S), NEW l \in Seq(S), Begins(p, l)
  PROVE  IsPrefix(p, l)
<1>1. Len(p) \in Nat /\ Len(l) \in Nat /\ Len(p) <= Len(l)
  BY LenProperties DEF Begins
<1> DEFINE a == SubSeq(p, 1, Len(p))
           b == SubSeq(l, 1, Len(p))
<1>2. \A i \in 1 .. Len(p) : p[i] \in S /\ l[i] \in S /\ p[i] = l[i]
  BY <1>1 DEF Begins
<1>3. a \in Seq(S) /\ Len(a) = Len(p) /\ \A i \in 1 .. Len(p) : a[i] = p[i]
  BY <1>1, <1>2, SubSeqProperties
<1>4. b \in Seq(S) /\ Len(b) = Len(p) /\ \A i \in 1 .. Len(p) : b[i] = l[i]
  BY <1>1, <1>2, SubSeqProperties
<1>5. Len(a) = Len(b) /\ \A i \in 1 .. Len(a) : a[i] = b[i]
  BY <1>2, <1>3, <1>4
<1> HIDE DEF a, b
<1>6. a = b
  BY <1>3, <1>4, <1>5, SeqEqual, Zenon
<1> QED BY <1>1, <1>6 DEF IsPrefix, a, b

LEMMA BeginsWithItself ==
  ASSUME NEW S, NEW l \in Seq(S)
  PROVE  Begins(l, l)
BY LenProperties DEF Begins

\* What a ledger begins with it still begins with when an event is added.
LEMMA BeginsLonger ==
  ASSUME NEW S, NEW p \in Seq(S), NEW l \in Seq(S), NEW e \in S, Begins(p, l)
  PROVE  Begins(p, Append(l, e))
<1>1. /\ Len(Append(l, e)) = Len(l) + 1
      /\ \A i \in 1 .. Len(l) : Append(l, e)[i] = l[i]
  BY AppendProperties
<1>2. Len(p) \in Nat /\ Len(l) \in Nat
  BY LenProperties
<1> QED BY <1>1, <1>2 DEF Begins

-----------------------------------------------------------------------------
(* Migrated events *)

\* Migration keeps the id of an event and takes its meaning.
LEMMA MigratedType ==
  ASSUME NEW e \in Events
  PROVE  /\ Migrated(e) \in Events
         /\ Migrated(e).id = e.id
         /\ Migrated(e).type = "LEGACY_UNRESOLVED"
<1>1. e \in Envelopes
  BY DEF Events
<1>2. Migrated(e).schema = "v2" /\ Migrated(e).type = "LEGACY_UNRESOLVED"
      /\ Migrated(e).version = CurrentVersion
      /\ Migrated(e).payload = [opaque |-> TRUE] /\ Migrated(e).id = e.id
  BY <1>1 DEF Envelopes, Migrated
<1>3. [opaque |-> TRUE] \in OpaquePayload
  BY DEF OpaquePayload
<1>4. "LEGACY_UNRESOLVED" \in EventTypesV2 /\ PayloadOf("LEGACY_UNRESOLVED") = OpaquePayload
  BY DEF EventTypesV2, SideChannelTypes, PayloadOf
<1>5. [opaque |-> TRUE] \in Payloads
  BY <1>3 DEF Payloads
<1>6. Migrated(e) \in Envelopes
  BY <1>1, <1>4, <1>5 DEF Envelopes, Migrated, SchemaVersions, CurrentVersion
<1> QED BY <1>2, <1>3, <1>4, <1>6 DEF Events

\* A ledger of unresolved events has no lifecycle.
LEMMA UnresolvedIsEmpty ==
  ASSUME NEW l, NEW a, \A i \in DOMAIN l : l[i].type = "LEGACY_UNRESOLVED"
  PROVE  PhaseIn(l, a) = "EMPTY"
<1>1. "LEGACY_UNRESOLVED" \notin LifecycleTypes
  BY DEF LifecycleTypes
<1>2. Steps(l, a) = {}
  BY <1>1 DEF Steps, Typed
<1> QED BY <1>2 DEF PhaseIn

-----------------------------------------------------------------------------
(* Types *)

MigratorStates ==
    [pc : {"idle", "verified", "read", "recheck", "create", "copy", "sealSource", "sealTarget"},
     events : Seq(Events), next : 1 .. MaxEvents + 1, sealed : Seq(Events)]

\* TypeOK, and no migration has read more events than a source can have.
TypeInv ==
    /\ TypeOK
    /\ Len(source) <= MaxEvents
    /\ \A m \in Migrators : Len(migrator[m].events) <= MaxEvents

LEMMA AtRestType == AtRest \in MigratorStates /\ AtRest.events = <<>> /\ AtRest.next = 1
<1>1. <<>> \in Seq(Events)
  OBVIOUS
<1> QED BY <1>1, MigrationAssumptions DEF AtRest, MigratorStates

\* A process that goes on, or one that ends.
LEMMA GotoType ==
  ASSUME TypeInv, NEW m \in Migrators,
         NEW pc \in {"idle", "verified", "read", "recheck", "create", "copy",
                     "sealSource", "sealTarget"},
         Goto(m, pc) \/ Fail(m)
  PROVE  /\ migrator' \in [Migrators -> MigratorStates]
         /\ \A k \in Migrators : Len(migrator'[k].events) <= MaxEvents
<1>1. migrator \in [Migrators -> MigratorStates]
  BY DEF TypeInv, TypeOK, MigratorStates
<1>2. [migrator[m] EXCEPT !.pc = pc] \in MigratorStates
      /\ [migrator[m] EXCEPT !.pc = pc].events = migrator[m].events
  BY <1>1 DEF MigratorStates
<1>3. Len(<<>>) = 0 /\ MaxEvents \in Nat
  BY MigrationAssumptions
<1>4. CASE Goto(m, pc)
  BY <1>1, <1>2, <1>4 DEF Goto, TypeInv
<1>5. CASE Fail(m)
  BY <1>1, <1>3, <1>5, AtRestType DEF Fail, TypeInv
<1> QED BY <1>4, <1>5

LEMMA TypeStep ==
  ASSUME TypeInv, [Next]_vars
  PROVE  TypeInv'
<1>1. ASSUME NEW e \in Submissions, UseSource(e) PROVE TypeInv'
  <2>1. source \in Seq(Events) /\ e \in Events /\ source' = Append(source, e)
        /\ UNCHANGED <<exists, target, migrator, report>>
    BY <1>1, MigrationAssumptions DEF TypeInv, TypeOK, UseSource, Source!Add
  <2>2. source' \in Seq(Events) /\ Len(source') = Len(source) + 1
    BY <2>1, AppendProperties
  <2>3. Len(source') <= MaxEvents
    BY <1>1, <2>1, <2>2, MigrationAssumptions, LenProperties DEF UseSource
  <2> QED BY <2>1, <2>2, <2>3 DEF TypeInv, TypeOK
<1> DEFINE Moves(m) == \E pc \in {"idle", "verified", "read", "recheck", "create", "copy",
                                  "sealSource", "sealTarget"} : Goto(m, pc) \/ Fail(m)
<1>2. ASSUME NEW m \in Migrators, Moves(m), UNCHANGED <<source, target>>, exists' \in BOOLEAN,
             report' = report
      PROVE  TypeInv'
  BY <1>2, GotoType DEF TypeInv, TypeOK, MigratorStates
<1>3. ASSUME NEW m \in Migrators,
             \/ Start(m) \/ LookForTarget(m) \/ Recheck(m) \/ Create(m) \/ VerifyCopy(m)
             \/ Crash(m)
      PROVE  TypeInv'
  <2>1. Moves(m) /\ UNCHANGED <<source, target>> /\ report' = report
    BY <1>3 DEF Start, LookForTarget, Recheck, Create, VerifyCopy, Crash
  <2>2. exists' \in BOOLEAN
    BY <1>3 DEF TypeInv, TypeOK, Start, LookForTarget, Recheck, Create, VerifyCopy, Crash
  <2> HIDE DEF Moves
  <2> QED BY <1>2, <2>1, <2>2
<1>4. ASSUME NEW m \in Migrators, ReadSource(m) PROVE TypeInv'
  <2>1. [migrator[m] EXCEPT !.pc = "read", !.events = source] \in MigratorStates
    BY DEF TypeInv, TypeOK, MigratorStates
  <2>2. migrator' \in [Migrators -> MigratorStates]
    BY <1>4, <2>1 DEF TypeInv, TypeOK, ReadSource, MigratorStates
  <2>3. \A k \in Migrators : Len(migrator'[k].events) <= MaxEvents
    BY <1>4 DEF TypeInv, TypeOK, ReadSource
  <2> QED BY <1>4, <2>2, <2>3 DEF TypeInv, TypeOK, ReadSource, MigratorStates
<1>5. ASSUME NEW m \in Migrators, Copy(m) PROVE TypeInv'
  <2> DEFINE events == migrator[m].events
             n      == migrator[m].next
  <2>1. /\ events \in Seq(Events) /\ Len(events) <= MaxEvents /\ n \in 1 .. Len(events)
        /\ Len(events) \in Nat
    BY <1>5, LenProperties DEF TypeInv, TypeOK, Copy
  <2>2. n + 1 \in 1 .. MaxEvents + 1
    BY <2>1, MigrationAssumptions
  <2>3. CASE Legal(target, Migrated(events[n]))
    <3>1. target' = Append(target, Migrated(events[n]))
          /\ migrator' = [migrator EXCEPT ![m].next = n + 1]
          /\ UNCHANGED <<source, exists, report>>
      BY <1>5, <2>3 DEF Copy, Target!Add
    <3>2. target' \in Seq(Events)
      BY <2>1, <3>1, MigratedType, AppendProperties DEF TypeInv, TypeOK
    <3>3. migrator' \in [Migrators -> MigratorStates]
          /\ \A k \in Migrators : Len(migrator'[k].events) <= MaxEvents
      BY <2>2, <3>1 DEF TypeInv, TypeOK, MigratorStates
    <3> QED BY <3>1, <3>2, <3>3 DEF TypeInv, TypeOK, MigratorStates
  <2>4. CASE ~Legal(target, Migrated(events[n]))
    <3>1. Fail(m) /\ UNCHANGED <<source, exists, target, report>>
      BY <1>5, <2>4 DEF Copy
    <3> QED BY <1>2, <3>1 DEF TypeInv, TypeOK
  <2> QED BY <2>3, <2>4
<1>6. ASSUME NEW m \in Migrators, SealSource(m) PROVE TypeInv'
  <2>1. CASE Verifies(source)
    <3> DEFINE sealing == [migrator[m] EXCEPT !.pc = "sealTarget", !.sealed = source]
    <3>1. sealing \in MigratorStates /\ sealing.events = migrator[m].events
      BY DEF TypeInv, TypeOK, MigratorStates
    <3>2. migrator' = [migrator EXCEPT ![m] = sealing]
      BY <1>6, <2>1 DEF SealSource
    <3> HIDE DEF sealing
    <3>3. migrator' \in [Migrators -> MigratorStates]
          /\ \A k \in Migrators : Len(migrator'[k].events) <= MaxEvents
      BY <3>1, <3>2 DEF TypeInv, TypeOK, MigratorStates
    <3> QED BY <1>6, <3>3 DEF TypeInv, TypeOK, SealSource, MigratorStates
  <2>2. CASE ~Verifies(source)
    <3>1. Fail(m) /\ UNCHANGED <<source, exists, target, report>>
      BY <1>6, <2>2 DEF SealSource
    <3> QED BY <1>2, <3>1 DEF TypeInv, TypeOK
  <2> QED BY <2>1, <2>2
<1>7. ASSUME NEW m \in Migrators, SealTargetAndReport(m) PROVE TypeInv'
  <2>1. Fail(m) /\ UNCHANGED <<source, exists, target>>
    BY <1>7 DEF SealTargetAndReport
  <2>2. report' \in Reports \cup {None}
    BY <1>7 DEF TypeInv, TypeOK, SealTargetAndReport, Reports
  <2> QED BY <2>1, <2>2, GotoType DEF TypeInv, TypeOK, MigratorStates
<1>8. CASE UNCHANGED vars
  BY <1>8 DEF TypeInv, TypeOK, vars
<1> HIDE DEF Moves
<1>9. ASSUME NEW m \in Migrators,
             \/ Start(m) \/ ReadSource(m) \/ LookForTarget(m) \/ Recheck(m) \/ Create(m)
             \/ Copy(m) \/ VerifyCopy(m) \/ SealSource(m) \/ SealTargetAndReport(m) \/ Crash(m)
      PROVE  TypeInv'
  BY <1>3, <1>4, <1>5, <1>6, <1>7, <1>9, Zenon
<1> QED BY <1>1, <1>8, <1>9 DEF Next

LEMMA TypeInit == Init => TypeInv
<1> SUFFICES ASSUME Init PROVE TypeInv
  OBVIOUS
<1>1. <<>> \in Seq(Events) /\ Len(<<>>) = 0
  OBVIOUS
<1>2. source = <<>> /\ target = <<>> /\ exists = FALSE /\ report = None
      /\ migrator = [m \in Migrators |-> AtRest]
  BY DEF Init, Source!Init, Target!Init
<1>3. migrator \in [Migrators -> MigratorStates]
  BY <1>2, AtRestType
<1>4. \A m \in Migrators : Len(migrator[m].events) <= MaxEvents
  BY <1>1, <1>2, AtRestType, MigrationAssumptions
<1>5. Len(source) <= MaxEvents
  BY <1>1, <1>2, MigrationAssumptions
<1>6. TypeOK
  BY <1>1, <1>2, <1>3 DEF TypeOK, MigratorStates
<1> QED BY <1>4, <1>5, <1>6 DEF TypeInv

\* Migrations keep the types of both ledgers and of the report.
THEOREM MigrationTypeCorrect == Spec => []TypeOK
<1>1. TypeInv => TypeOK
  BY DEF TypeInv
<1> QED BY <1>1, TypeInit, TypeStep, PTL DEF Spec

-----------------------------------------------------------------------------
(* The report *)

\* The target holds migrated source events from the first on, one for one.
Copied ==
    /\ Len(target) <= Len(source)
    /\ \A i \in 1 .. Len(target) : target[i] = Migrated(source[i])

\* What a process knows of the source is still there, and it has copied no event
\* that is not in the target; the ones it seals are all there.
Follows(m) ==
    /\ Begins(migrator[m].events, source)
    /\ Begins(migrator[m].sealed, source)
    /\ migrator[m].next <= Len(target) + 1
    /\ migrator[m].pc \in {"sealSource", "sealTarget"} =>
          Len(migrator[m].events) <= Len(target)
    /\ migrator[m].pc = "sealTarget" => Begins(migrator[m].events, migrator[m].sealed)

Reported ==
    report # None =>
        /\ Len(report.mapped) <= Len(target)
        /\ Begins(report.mapped, source)
        /\ Begins(report.targetSeal, target)
        /\ Begins(report.mapped, report.sourceSeal)
        /\ Begins(report.sourceSeal, source)

MigrationInv == TypeInv /\ Copied /\ (\A m \in Migrators : Follows(m)) /\ Reported

\* No report is the absence of one.
LEMMA ReportType ==
  ASSUME TypeInv, report # None
  PROVE  /\ report.mapped \in Seq(Events)
         /\ report.sourceSeal \in Seq(Events)
         /\ report.targetSeal \in Seq(Events)
BY DEF TypeInv, TypeOK, Reports

LEMMA MigrationInit == Init => MigrationInv
<1> SUFFICES ASSUME Init PROVE MigrationInv
  OBVIOUS
<1>1. source = <<>> /\ target = <<>> /\ report = None
      /\ migrator = [m \in Migrators |-> AtRest]
  BY DEF Init, Source!Init, Target!Init
<1>2. TypeInv
  BY TypeInit
<1>3. Begins(<<>>, <<>>) /\ Len(<<>>) = 0
  BY DEF Begins
<1>4. Copied /\ Reported
  BY <1>1, <1>3 DEF Copied, Reported
<1>5. ASSUME NEW m \in Migrators PROVE Follows(m)
  <2>1. migrator[m] = AtRest
    BY <1>1
  <2> QED BY <1>1, <1>3, <2>1 DEF Follows, AtRest
<1> QED BY <1>2, <1>4, <1>5 DEF MigrationInv

\* A longer source disturbs nobody.
LEMMA LongerSource ==
  ASSUME MigrationInv, NEW e \in Events, source' = Append(source, e),
         UNCHANGED <<target, migrator, report>>
  PROVE  Copied' /\ (\A m \in Migrators : Follows(m)') /\ Reported'
<1>1. source \in Seq(Events) /\ target \in Seq(Events)
  BY DEF MigrationInv, TypeInv, TypeOK
<1>2. Len(source') = Len(source) + 1 /\ (\A i \in 1 .. Len(source) : source'[i] = source[i])
      /\ Len(source) \in Nat /\ Len(target) \in Nat
  BY <1>1, AppendProperties, LenProperties
<1>3. Copied'
  BY <1>2 DEF MigrationInv, Copied
<1>4. ASSUME NEW m \in Migrators PROVE Follows(m)'
  <2>1. migrator[m].events \in Seq(Events) /\ migrator[m].sealed \in Seq(Events)
    BY DEF MigrationInv, TypeInv, TypeOK
  <2>2. Begins(migrator[m].events, source') /\ Begins(migrator[m].sealed, source')
    BY <1>1, <2>1, BeginsLonger DEF MigrationInv, Follows
  <2> QED BY <2>2 DEF MigrationInv, Follows
<1>5. Reported'
  <2> SUFFICES ASSUME report # None PROVE Reported'
    BY DEF Reported
  <2>1. Begins(report.mapped, source') /\ Begins(report.sourceSeal, source')
    BY <1>1, ReportType, BeginsLonger DEF MigrationInv, Reported
  <2> QED BY <2>1 DEF MigrationInv, Reported
<1> QED BY <1>3, <1>4, <1>5

\* A process that goes on, or one that ends, keeps what it follows.
LEMMA GotoFollows ==
  ASSUME MigrationInv, NEW m \in Migrators, UNCHANGED <<source, target>>,
         NEW pc \in {"idle", "verified", "read", "recheck", "create", "copy", "sealSource"},
         \/ Goto(m, pc) /\ (pc = "sealSource" => Len(migrator[m].events) <= Len(target))
         \/ Fail(m)
  PROVE  Copied' /\ \A k \in Migrators : Follows(k)'
<1>1. Copied'
  BY DEF MigrationInv, Copied
<1>2. source \in Seq(Events) /\ target \in Seq(Events)
      /\ Len(source) \in Nat /\ Len(target) \in Nat
      /\ migrator \in [Migrators -> MigratorStates]
  BY LenProperties DEF MigrationInv, TypeInv, TypeOK, MigratorStates
<1>3. ASSUME NEW k \in Migrators, k # m PROVE Follows(k)'
  <2>1. migrator'[k] = migrator[k]
    BY <1>2, <1>3 DEF Goto, Fail
  <2> QED BY <2>1 DEF MigrationInv, Follows
<1>4. CASE Goto(m, pc) /\ (pc = "sealSource" => Len(migrator[m].events) <= Len(target))
  <2>1. migrator'[m] = [migrator[m] EXCEPT !.pc = pc]
    BY <1>2, <1>4 DEF Goto
  <2>2. migrator'[m].pc = pc /\ migrator'[m].events = migrator[m].events
        /\ migrator'[m].sealed = migrator[m].sealed /\ migrator'[m].next = migrator[m].next
    BY <1>2, <2>1 DEF MigratorStates
  <2>3. Follows(m)'
    BY <1>4, <2>2 DEF MigrationInv, Follows
  <2> QED BY <1>1, <1>3, <2>3
<1>5. CASE Fail(m)
  <2>1. migrator'[m] = AtRest
    BY <1>2, <1>5 DEF Fail
  <2>2. Begins(<<>>, source)
    BY <1>2 DEF Begins
  <2>3. Follows(m)'
    BY <1>2, <2>1, <2>2 DEF Follows, AtRest
  <2> QED BY <1>1, <1>3, <2>3
<1> QED BY <1>4, <1>5

LEMMA MigrationStep ==
  ASSUME MigrationInv, [Next]_vars
  PROVE  MigrationInv'
<1>1. TypeInv'
  BY TypeStep DEF MigrationInv
<1>2. source \in Seq(Events) /\ target \in Seq(Events)
      /\ Len(source) \in Nat /\ Len(target) \in Nat
      /\ migrator \in [Migrators -> MigratorStates]
  BY LenProperties DEF MigrationInv, TypeInv, TypeOK, MigratorStates
<1>3. ASSUME NEW e \in Submissions, UseSource(e) PROVE MigrationInv'
  <2>1. e \in Events /\ source' = Append(source, e) /\ UNCHANGED <<target, migrator, report>>
    BY <1>3, MigrationAssumptions DEF UseSource, Source!Add
  <2> QED BY <1>1, <2>1, LongerSource DEF MigrationInv
<1> DEFINE Moves(m) ==
             \E pc \in {"idle", "verified", "read", "recheck", "create", "copy", "sealSource"} :
                \/ Goto(m, pc) /\ (pc = "sealSource" => Len(migrator[m].events) <= Len(target))
                \/ Fail(m)
<1>4. ASSUME NEW m \in Migrators, Moves(m), UNCHANGED <<source, target, report>>
      PROVE  MigrationInv'
  <2>1. Copied' /\ \A k \in Migrators : Follows(k)'
    BY <1>4, GotoFollows
  <2>2. Reported'
    BY <1>4 DEF MigrationInv, Reported
  <2> QED BY <1>1, <2>1, <2>2 DEF MigrationInv
<1>5. ASSUME NEW m \in Migrators,
             \/ Start(m) \/ LookForTarget(m) \/ Recheck(m) \/ Create(m) \/ VerifyCopy(m)
             \/ Crash(m)
      PROVE  MigrationInv'
  <2>1. migrator[m].events \in Seq(Events) /\ Len(migrator[m].events) \in Nat
    BY <1>2, LenProperties DEF MigratorStates
  <2>2. UNCHANGED <<source, target, report>>
    BY <1>5 DEF Start, LookForTarget, Recheck, Create, VerifyCopy, Crash
  <2>3. Moves(m)
    BY <1>2, <1>5, <2>1
       DEF Start, LookForTarget, Recheck, SameEvents, Create, VerifyCopy, Crash
  <2> HIDE DEF Moves
  <2> QED BY <1>4, <2>2, <2>3
<1>6. ASSUME NEW m \in Migrators, ReadSource(m) PROVE MigrationInv'
  <2>1. migrator' = [migrator EXCEPT ![m] = [migrator[m] EXCEPT !.pc = "read", !.events = source]]
        /\ UNCHANGED <<source, exists, target, report>>
    BY <1>2, <1>6 DEF ReadSource, MigratorStates
  <2>2. /\ migrator'[m].pc = "read" /\ migrator'[m].events = source
        /\ migrator'[m].sealed = migrator[m].sealed /\ migrator'[m].next = migrator[m].next
    BY <1>2, <2>1 DEF MigratorStates
  <2>3. Begins(source, source)
    BY <1>2, BeginsWithItself
  <2>4. Follows(m)'
    BY <2>1, <2>2, <2>3 DEF MigrationInv, Follows
  <2>5. ASSUME NEW k \in Migrators, k # m PROVE Follows(k)'
    <3>1. migrator'[k] = migrator[k]
      BY <1>2, <2>1, <2>5
    <3> QED BY <2>1, <3>1 DEF MigrationInv, Follows
  <2>6. Copied' /\ Reported'
    BY <2>1 DEF MigrationInv, Copied, Reported
  <2> QED BY <1>1, <2>4, <2>5, <2>6 DEF MigrationInv
<1>7. ASSUME NEW m \in Migrators, Copy(m) PROVE MigrationInv'
  <2> DEFINE events == migrator[m].events
             n      == migrator[m].next
             e      == Migrated(events[n])
  <2>1. /\ events \in Seq(Events) /\ Len(events) \in Nat /\ n \in 1 .. Len(events) /\ n \in Nat
        /\ n <= Len(target) + 1 /\ Begins(events, source)
    BY <1>2, <1>7, LenProperties DEF MigrationInv, Follows, Copy, MigratorStates
  <2>2. CASE ~Legal(target, e)
    <3>1. Fail(m) /\ UNCHANGED <<source, exists, target, report>>
      BY <1>7, <2>2 DEF Copy
    <3> QED BY <1>4, <3>1
  <2>3. CASE Legal(target, e)
    <3>1. target' = Append(target, e) /\ migrator' = [migrator EXCEPT ![m].next = n + 1]
          /\ UNCHANGED <<source, exists, report>>
      BY <1>7, <2>3 DEF Copy, Target!Add
    <3>2. events[n] = source[n] /\ n <= Len(source) /\ events[n] \in Events
      BY <1>2, <2>1 DEF Begins
    <3>3. e \in Events
      BY <3>2, MigratedType
    <3>4. ~ n <= Len(target)
      <4> SUFFICES ASSUME n <= Len(target) PROVE FALSE
        OBVIOUS
      <4>1. n \in DOMAIN target /\ target[n] = e
        BY <1>2, <2>1, <3>2, LenProperties DEF MigrationInv, Copied
      <4>2. e.id \in Ids(target)
        BY <4>1 DEF Ids
      <4> QED BY <2>3, <4>2 DEF Legal
    <3>5. n = Len(target) + 1
      BY <1>2, <2>1, <3>4
    <3> HIDE DEF e
    <3>6. /\ Len(target') = Len(target) + 1
          /\ \A i \in 1 .. Len(target) : target'[i] = target[i]
          /\ target'[Len(target) + 1] = e
      BY <1>2, <3>1, <3>3, AppendProperties
    <3>7. Copied'
      <4>1. ASSUME NEW i \in 1 .. Len(target') PROVE target'[i] = Migrated(source[i])
        <5>1. CASE i = n
          BY <3>2, <3>5, <3>6, <5>1 DEF e
        <5>2. CASE i # n
          BY <1>2, <3>5, <3>6, <5>2 DEF MigrationInv, Copied
        <5> QED BY <5>1, <5>2
      <4> QED BY <1>2, <3>1, <3>2, <3>5, <3>6, <4>1 DEF Copied
    <3>8. ASSUME NEW k \in Migrators PROVE Follows(k)'
      <4>1. migrator'[k].pc = migrator[k].pc /\ migrator'[k].events = migrator[k].events
            /\ migrator'[k].sealed = migrator[k].sealed
            /\ migrator'[k].next \in {migrator[k].next, n + 1}
        BY <1>2, <3>1 DEF MigratorStates
      <4>2. migrator[k].next \in Nat /\ Len(migrator[k].events) \in Nat
        BY <1>2, MigrationAssumptions, LenProperties DEF MigratorStates
      <4>3. migrator'[k].next <= Len(target') + 1
        BY <1>2, <3>5, <3>6, <4>1, <4>2 DEF MigrationInv, Follows
      <4>4. Len(migrator[k].events) <= Len(target) => Len(migrator[k].events) <= Len(target')
        BY <1>2, <3>6, <4>2
      <4> QED BY <3>1, <4>1, <4>3, <4>4 DEF MigrationInv, Follows
    <3>9. Reported'
      <4> SUFFICES ASSUME report # None PROVE Reported'
        BY <3>1 DEF Reported
      <4>1. Begins(report.targetSeal, target')
        BY <1>2, <3>1, <3>3, ReportType, BeginsLonger DEF MigrationInv, Reported
      <4>2. Len(report.mapped) <= Len(target')
        BY <1>2, <3>6, ReportType, LenProperties DEF MigrationInv, Reported
      <4> QED BY <3>1, <4>1, <4>2 DEF MigrationInv, Reported
    <3> QED BY <1>1, <3>7, <3>8, <3>9 DEF MigrationInv
  <2> QED BY <2>2, <2>3
<1>8. ASSUME NEW m \in Migrators, SealSource(m) PROVE MigrationInv'
  <2>1. CASE ~Verifies(source)
    <3>1. Fail(m) /\ UNCHANGED <<source, exists, target, report>>
      BY <1>8, <2>1 DEF SealSource
    <3> QED BY <1>4, <3>1
  <2>2. CASE Verifies(source)
    <3>1. migrator' = [migrator EXCEPT ![m] =
                          [migrator[m] EXCEPT !.pc = "sealTarget", !.sealed = source]]
          /\ UNCHANGED <<source, exists, target, report>> /\ migrator[m].pc = "sealSource"
      BY <1>2, <1>8, <2>2 DEF SealSource, MigratorStates
    <3>2. /\ migrator'[m].pc = "sealTarget" /\ migrator'[m].sealed = source
          /\ migrator'[m].events = migrator[m].events /\ migrator'[m].next = migrator[m].next
      BY <1>2, <3>1 DEF MigratorStates
    <3>3. Begins(source, source)
      BY <1>2, BeginsWithItself
    <3>4. Follows(m)'
      BY <3>1, <3>2, <3>3 DEF MigrationInv, Follows
    <3>5. ASSUME NEW k \in Migrators, k # m PROVE Follows(k)'
      <4>1. migrator'[k] = migrator[k]
        BY <1>2, <3>1, <3>5
      <4> QED BY <3>1, <4>1 DEF MigrationInv, Follows
    <3>6. Copied' /\ Reported'
      BY <3>1 DEF MigrationInv, Copied, Reported
    <3> QED BY <1>1, <3>4, <3>5, <3>6 DEF MigrationInv
  <2> QED BY <2>1, <2>2
<1>9. ASSUME NEW m \in Migrators, SealTargetAndReport(m) PROVE MigrationInv'
  <2>1. migrator[m].pc = "sealTarget" /\ Fail(m) /\ UNCHANGED <<source, exists, target>>
    BY <1>9 DEF SealTargetAndReport
  <2>2. Copied' /\ \A k \in Migrators : Follows(k)'
    BY <2>1, GotoFollows
  <2>3. CASE Verifies(target)
    <3>1. report' = [mapped |-> migrator[m].events, sourceSeal |-> migrator[m].sealed,
                     targetSeal |-> target]
      BY <1>9, <2>3 DEF SealTargetAndReport
    <3>2. /\ report'.mapped = migrator[m].events /\ report'.sourceSeal = migrator[m].sealed
          /\ report'.targetSeal = target
      BY <3>1
    <3>3. Begins(target, target)
      BY <1>2, BeginsWithItself
    <3> QED BY <1>1, <2>1, <2>2, <3>2, <3>3 DEF MigrationInv, Follows, Reported
  <2>4. CASE ~Verifies(target)
    <3>1. report' = report
      BY <1>9, <2>4 DEF SealTargetAndReport
    <3> QED BY <1>1, <2>1, <2>2, <3>1 DEF MigrationInv, Reported
  <2> QED BY <2>3, <2>4
<1>10. CASE UNCHANGED vars
  BY <1>1, <1>10 DEF MigrationInv, Copied, Follows, Reported, vars
<1> HIDE DEF Moves
<1>11. ASSUME NEW m \in Migrators,
              \/ Start(m) \/ ReadSource(m) \/ LookForTarget(m) \/ Recheck(m) \/ Create(m)
              \/ Copy(m) \/ VerifyCopy(m) \/ SealSource(m) \/ SealTargetAndReport(m) \/ Crash(m)
       PROVE  MigrationInv'
  BY <1>5, <1>6, <1>7, <1>8, <1>9, <1>11, Zenon
<1> QED BY <1>3, <1>10, <1>11 DEF Next

\* The invariant says of the report what ReportIsTrue says of it.
LEMMA InvariantReports ==
  ASSUME MigrationInv, report # None
  PROVE  /\ IsPrefix([i \in DOMAIN report.mapped |-> Migrated(report.mapped[i])], target)
         /\ IsPrefix(report.targetSeal, target)
         /\ IsPrefix(report.mapped, report.sourceSeal)
         /\ IsPrefix(report.sourceSeal, source)
         /\ \A a \in Artifacts : PhaseIn(target, a) = "EMPTY"
<1>1. source \in Seq(Events) /\ target \in Seq(Events)
      /\ Len(source) \in Nat /\ Len(target) \in Nat
  BY LenProperties DEF MigrationInv, TypeInv, TypeOK
<1>2. /\ report.mapped \in Seq(Events) /\ report.sourceSeal \in Seq(Events)
      /\ report.targetSeal \in Seq(Events)
  BY ReportType DEF MigrationInv
<1>3. /\ Len(report.mapped) <= Len(target) /\ Begins(report.mapped, source)
      /\ Begins(report.targetSeal, target) /\ Begins(report.mapped, report.sourceSeal)
      /\ Begins(report.sourceSeal, source)
  BY DEF MigrationInv, Reported
<1>4. IsPrefix(report.targetSeal, target) /\ IsPrefix(report.mapped, report.sourceSeal)
      /\ IsPrefix(report.sourceSeal, source)
  BY <1>1, <1>2, <1>3, BeginsIsPrefix
<1> DEFINE copies == [i \in DOMAIN report.mapped |-> Migrated(report.mapped[i])]
<1>5. DOMAIN report.mapped = 1 .. Len(report.mapped) /\ Len(report.mapped) \in Nat
      /\ \A i \in 1 .. Len(report.mapped) : report.mapped[i] \in Events
  BY <1>2, LenProperties
<1>6. copies \in Seq(Events) /\ Len(copies) = Len(report.mapped)
      /\ \A i \in 1 .. Len(copies) : copies[i] = Migrated(report.mapped[i])
  <2>1. copies = [i \in 1 .. Len(report.mapped) |-> Migrated(report.mapped[i])]
    BY <1>5
  <2>2. \A i \in 1 .. Len(report.mapped) : Migrated(report.mapped[i]) \in Events
    BY <1>5, MigratedType
  <2> HIDE DEF copies
  <2> QED BY <1>5, <2>1, <2>2
<1> HIDE DEF copies
<1>7. Begins(copies, target)
  <2>1. ASSUME NEW i \in 1 .. Len(copies) PROVE copies[i] = target[i]
    <3>1. i \in 1 .. Len(report.mapped) /\ i \in 1 .. Len(target)
      BY <1>1, <1>3, <1>5, <1>6
    <3>2. report.mapped[i] = source[i]
      BY <1>3, <3>1 DEF Begins
    <3>3. target[i] = Migrated(source[i])
      BY <3>1 DEF MigrationInv, Copied
    <3> QED BY <1>6, <3>2, <3>3
  <2> QED BY <1>3, <1>6, <2>1 DEF Begins
<1>8. IsPrefix(copies, target)
  BY <1>1, <1>6, <1>7, BeginsIsPrefix
<1>9. \A i \in DOMAIN target : target[i].type = "LEGACY_UNRESOLVED"
  <2> SUFFICES ASSUME NEW i \in DOMAIN target PROVE target[i].type = "LEGACY_UNRESOLVED"
    OBVIOUS
  <2>1. i \in 1 .. Len(target) /\ i \in 1 .. Len(source)
    BY <1>1, LenProperties DEF MigrationInv, Copied
  <2>2. target[i] = Migrated(source[i]) /\ source[i] \in Events
    BY <1>1, <2>1 DEF MigrationInv, Copied
  <2> QED BY <2>2, MigratedType
<1>10. \A a \in Artifacts : PhaseIn(target, a) = "EMPTY"
  BY <1>9, UnresolvedIsEmpty
<1> QED BY <1>4, <1>8, <1>10 DEF copies

\* Every report is true, of a source of any length that others use meanwhile, for
\* any number of migrations that race for one target, over crashes and re-runs.
THEOREM ReportsAreTrue == Spec => []ReportIsTrue
<1>1. MigrationInv => ReportIsTrue
  BY InvariantReports DEF ReportIsTrue
<1> QED BY <1>1, MigrationInit, MigrationStep, PTL DEF Spec

=============================================================================
