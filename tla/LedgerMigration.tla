---------------------------- MODULE LedgerMigration ----------------------------
(***************************************************************************)
(* Migration of a 0.1 ledger into a new 0.2 ledger                         *)
(* (src/lpe/ledger/migration.py) while the source stays in use, with       *)
(* several migrations at once, and with crashes at any step.               *)
(*                                                                         *)
(* The events read from the source are copied one append_v2 at a time, so  *)
(* a crash leaves a partial target behind.  A later run finds a target and *)
(* only checks it.  Writing a seal is one step here; module LedgerSeal has *)
(* its parts.                                                              *)
(***************************************************************************)
EXTENDS EventHistory, SequencesExt

CONSTANTS
    Submissions,    \* the events clients may submit to the source
    Migrators,      \* processes that run `lpe ledger migrate`
    MaxEvents       \* bound on the length of the source, for model checking

ASSUME MigrationAssumptions == Submissions \subseteq Events /\ MaxEvents \in Nat

VARIABLES
    source,     \* the events of the source ledger
    exists,     \* the target file is there
    target,     \* the events of the target ledger
    migrator,   \* per process, how far migrate_ledger is
    report      \* the mapping report, or None

vars == <<source, exists, target, migrator, report>>

Source == INSTANCE EventLog WITH log <- source, durable <- 0

Target == INSTANCE EventLog WITH log <- target, durable <- 0

AtRest == [pc |-> "idle", events |-> <<>>, next |-> 1, sealed |-> <<>>]

Goto(m, pc) == migrator' = [migrator EXCEPT ![m].pc = pc]

\* An error is raised: the process ends.
Fail(m) == migrator' = [migrator EXCEPT ![m] = AtRest]

Init ==
    /\ Source!Init
    /\ exists = FALSE
    /\ Target!Init
    /\ migrator = [m \in Migrators |-> AtRest]
    /\ report = None

\* migrate_legacy_event: every type becomes LEGACY_UNRESOLVED; events() has
\* already projected typed rows of the source to 0.1 events.
Migrated(e) ==
    [e EXCEPT !.schema = "v2", !.version = CurrentVersion,
              !.type = "LEGACY_UNRESOLVED", !.payload = [opaque |-> TRUE]]

-----------------------------------------------------------------------------

\* Other processes go on using the source.
UseSource(e) ==
    /\ Len(source) < MaxEvents
    /\ Source!Add(e)
    /\ UNCHANGED <<exists, target, migrator, report>>

\* source_store.verify(); a failure is a LedgerMigrationError.
Start(m) ==
    /\ migrator[m].pc = "idle"
    /\ Verifies(source)
    /\ Goto(m, "verified")
    /\ UNCHANGED <<source, exists, target, report>>

ReadSource(m) ==
    /\ migrator[m].pc = "verified"
    /\ migrator' = [migrator EXCEPT ![m].pc = "read", ![m].events = source]
    /\ UNCHANGED <<source, exists, target, report>>

\* target.exists()
LookForTarget(m) ==
    /\ migrator[m].pc = "read"
    /\ Goto(m, IF exists THEN "recheck" ELSE "create")
    /\ UNCHANGED <<source, exists, target, report>>

\* The checks of a re-run, against a target and the events just read.
SameEvents(events, copied) ==
    /\ Len(copied) = Len(events)
    /\ \A i \in DOMAIN events :
          copied[i].id = events[i].id /\ copied[i].type = "LEGACY_UNRESOLVED"

\* Faulty variant of Recheck: an existing target is taken as it is.
TrustTarget(m) ==
    /\ migrator[m].pc = "recheck"
    /\ Goto(m, "sealSource")
    /\ UNCHANGED <<source, exists, target, report>>

Recheck(m) ==
    /\ migrator[m].pc = "recheck"
    /\ IF Verifies(target) /\ SameEvents(migrator[m].events, target)
       THEN Goto(m, "sealSource") ELSE Fail(m)
    /\ UNCHANGED <<source, exists, target, report>>

\* initialize(): the tables are created unless another process just did.
Create(m) ==
    /\ migrator[m].pc = "create"
    /\ exists' = TRUE
    /\ Goto(m, "copy")
    /\ UNCHANGED <<source, target, report>>

\* Faulty variant of Copy: every other event is left out.
CopySkipping(m) ==
    LET events == migrator[m].events
        n      == migrator[m].next
    IN  /\ migrator[m].pc = "copy"
        /\ n \in DOMAIN events
        /\ Target!Add(Migrated(events[n]))
        /\ migrator' = [migrator EXCEPT ![m].next = n + 2]
        /\ UNCHANGED <<source, exists, report>>

\* One append_v2 per source event; the first error ends the migration.
Copy(m) ==
    LET events == migrator[m].events
        n      == migrator[m].next
    IN  /\ migrator[m].pc = "copy"
        /\ n \in DOMAIN events
        /\ IF Legal(target, Migrated(events[n]))
           THEN /\ Target!Add(Migrated(events[n]))
                /\ migrator' = [migrator EXCEPT ![m].next = n + 1]
           ELSE Fail(m) /\ UNCHANGED target
        /\ UNCHANGED <<source, exists, report>>

\* verify and count the finished target.
VerifyCopy(m) ==
    /\ migrator[m].pc = "copy"
    /\ migrator[m].next \notin DOMAIN migrator[m].events
    /\ IF Verifies(target) /\ Len(target) = Len(migrator[m].events)
       THEN Goto(m, "sealSource") ELSE Fail(m)
    /\ UNCHANGED <<source, exists, target, report>>

\* write_seal(source_store): the source as it is by now.
SealSource(m) ==
    /\ migrator[m].pc = "sealSource"
    /\ IF Verifies(source)
       THEN migrator' = [migrator EXCEPT ![m].pc = "sealTarget", ![m].sealed = source]
       ELSE Fail(m)
    /\ UNCHANGED <<source, exists, target, report>>

\* write_seal(target_store), then the report that links both seals.
SealTargetAndReport(m) ==
    /\ migrator[m].pc = "sealTarget"
    /\ report' = IF Verifies(target)
                 THEN [mapped |-> migrator[m].events,
                       sourceSeal |-> migrator[m].sealed, targetSeal |-> target]
                 ELSE report
    /\ Fail(m)
    /\ UNCHANGED <<source, exists, target>>

Crash(m) ==
    /\ migrator[m].pc # "idle"
    /\ Fail(m)
    /\ UNCHANGED <<source, exists, target, report>>

Next ==
    \/ \E e \in Submissions : UseSource(e)
    \/ \E m \in Migrators :
          \/ Start(m) \/ ReadSource(m) \/ LookForTarget(m)
          \/ Recheck(m)
          \/ Create(m) \/ Copy(m) \/ VerifyCopy(m)
          \/ SealSource(m) \/ SealTargetAndReport(m)
          \/ Crash(m)

Spec == Init /\ [][Next]_vars

-----------------------------------------------------------------------------
(* Properties *)

Reports == [mapped : Seq(Events), sourceSeal : Seq(Events), targetSeal : Seq(Events)]

TypeOK ==
    /\ {source, target} \subseteq Seq(Events)
    /\ exists \in BOOLEAN
    /\ migrator \in [Migrators ->
          [pc : {"idle", "verified", "read", "recheck", "create", "copy",
                 "sealSource", "sealTarget"},
           events : Seq(Events), next : 1 .. MaxEvents + 1, sealed : Seq(Events)]]
    /\ report \in Reports \cup {None}

\* A report tells the truth about the target: the target begins with the
\* mapped source events, one for one and in order, none of them given a meaning
\* in the lifecycle; both seals cover what their ledger begins with, the source's at
\* least the mapped events.  This holds over crashes, re-runs and migrations that
\* race for the same target.
ReportIsTrue ==
    report # None =>
        /\ IsPrefix([i \in DOMAIN report.mapped |-> Migrated(report.mapped[i])], target)
        /\ IsPrefix(report.targetSeal, target)
        /\ IsPrefix(report.mapped, report.sourceSeal)
        /\ IsPrefix(report.sourceSeal, source)
        /\ \A a \in Artifacts : PhaseIn(target, a) = "EMPTY"

=============================================================================
