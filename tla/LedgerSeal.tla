------------------------------ MODULE LedgerSeal ------------------------------
(***************************************************************************)
(* External seals (src/lpe/ledger/seal.py) over a ledger that other        *)
(* processes keep appending to.                                            *)
(*                                                                         *)
(* write_seal verifies the ledger on one connection, takes the snapshot on *)
(* another, reads the seal it replaces and rewrites the file; verify_seal  *)
(* loads the file, verifies, takes its own snapshot and compares.  Each of *)
(* these is a step of its own here.                                        *)
(*                                                                         *)
(* A manifest's event_count, tips, global_tip and export_content_hash are  *)
(* functions of the events it covers, and the last one determines them     *)
(* (no collisions), so a manifest is those events and its seal_sequence.   *)
(***************************************************************************)
EXTENDS EventHistory

CONSTANTS
    Submissions,    \* the events clients may submit
    Sealers,        \* processes that run `lpe ledger seal`
    Checkers,       \* processes that run `lpe ledger verify-seal`
    MaxEvents,      \* bound on the length of the ledger, for model checking
    MaxSequence     \* bound on seal_sequence, for model checking

ASSUME SealAssumptions ==
    /\ Submissions \subseteq Events
    /\ MaxEvents \in Nat /\ MaxSequence \in Nat

VARIABLES
    log,            \* the ledger
    file,           \* the seal file
    sealer,         \* per sealing process, how far write_seal is
    checker,        \* per checking process, how far verify_seal is
    lost            \* a power failure has cut off committed events

vars == <<log, file, sealer, checker, lost>>

\* Nothing is known to be checkpointed: a power failure may cut off any tail.
Ledger == INSTANCE EventLog WITH durable <- 0

-----------------------------------------------------------------------------
(* The seal file *)

Absent == [kind |-> "absent"]
Torn   == [kind |-> "torn"]     \* not valid JSON: load_seal raises

Seal(content, sequence) == [kind |-> "seal", content |-> content, sequence |-> sequence]

Files == {Absent, Torn} \cup [kind : {"seal"}, content : Seq(Events), sequence : Nat]

\* Faulty variant of NextSequence: the sequence runs downwards.
NextSequenceDown == IF file.kind = "seal" THEN file.sequence - 2 ELSE 1

\* _prior_seal_metadata: an unreadable prior counts as none.
NextSequence == IF file.kind = "seal" THEN file.sequence + 1 ELSE 1

-----------------------------------------------------------------------------

AtRest == [pc |-> "idle", content |-> <<>>, sequence |-> 0]

Init ==
    /\ Ledger!Init
    /\ file = Absent
    /\ sealer = [s \in Sealers |-> AtRest]
    /\ checker = [c \in Checkers |-> AtRest]
    /\ lost = FALSE

\* Any process appends.
AppendEvent(e) ==
    /\ Len(log) < MaxEvents
    /\ Ledger!Add(e)
    /\ UNCHANGED <<file, sealer, checker, lost>>

(* write_seal *)

\* store.verify() returned; a ledger that fails is refused (fail closed).
VerifyBeforeSeal(s) ==
    /\ sealer[s].pc = "idle"
    /\ Verifies(log)
    /\ sealer' = [sealer EXCEPT ![s].pc = "verified"]
    /\ UNCHANGED <<log, file, checker, lost>>

\* snapshot_state, on a connection of its own.
Snapshot(s) ==
    /\ sealer[s].pc = "verified"
    /\ sealer' = [sealer EXCEPT ![s].pc = "snapped", ![s].content = log]
    /\ UNCHANGED <<log, file, checker, lost>>

ReadPrior(s) ==
    /\ sealer[s].pc = "snapped"
    /\ NextSequence <= MaxSequence
    /\ sealer' = [sealer EXCEPT ![s].pc = "built", ![s].sequence = NextSequence]
    /\ UNCHANGED <<log, file, checker, lost>>

\* path.write_text opens the file for writing: it is empty now.
OpenFile(s) ==
    /\ sealer[s].pc = "built"
    /\ file' = Torn
    /\ sealer' = [sealer EXCEPT ![s].pc = "writing"]
    /\ UNCHANGED <<log, checker, lost>>

\* The manifest is written.  If another sealer wrote its own since the file
\* was opened, a longer text may stick out behind this one.
WriteFile(s) ==
    /\ sealer[s].pc = "writing"
    /\ \/ file' = Seal(sealer[s].content, sealer[s].sequence)
       \/ file.kind = "seal" /\ file' = Torn
    /\ sealer' = [sealer EXCEPT ![s] = AtRest]
    /\ UNCHANGED <<log, checker, lost>>

CrashSealer(s) ==
    /\ sealer[s].pc # "idle"
    /\ sealer' = [sealer EXCEPT ![s] = AtRest]
    /\ UNCHANGED <<log, file, checker, lost>>

(* verify_seal *)

\* load_seal, and the checks of kind and schema.
Load(c) ==
    /\ checker[c].pc = "idle"
    /\ file.kind = "seal"
    /\ checker' = [checker EXCEPT ![c] = [AtRest EXCEPT !.pc = "loaded",
                                                         !.content = file.content]]
    /\ UNCHANGED <<log, file, sealer, lost>>

VerifyUnderSeal(c) ==
    /\ checker[c].pc = "loaded"
    /\ checker' = [checker EXCEPT ![c] = IF Verifies(log) THEN [@ EXCEPT !.pc = "verified"]
                                         ELSE AtRest]
    /\ UNCHANGED <<log, file, sealer, lost>>

\* Faulty variant of Compare: only the number of events is compared.
CompareCount(c) ==
    /\ checker[c].pc = "verified"
    /\ checker' = [checker EXCEPT ![c] = IF Len(checker[c].content) = Len(log)
                                         THEN [@ EXCEPT !.pc = "ok"] ELSE AtRest]
    /\ UNCHANGED <<log, file, sealer, lost>>

\* A second snapshot is compared with the seal; any mismatch is an error.
Compare(c) ==
    /\ checker[c].pc = "verified"
    /\ checker' = [checker EXCEPT ![c] = IF checker[c].content = log
                                         THEN [@ EXCEPT !.pc = "ok"] ELSE AtRest]
    /\ UNCHANGED <<log, file, sealer, lost>>

Report(c) ==
    /\ checker[c].pc = "ok"
    /\ checker' = [checker EXCEPT ![c] = AtRest]
    /\ UNCHANGED <<log, file, sealer, lost>>

(* The host *)

\* Every process dies.  The seal file is not synced either.
PowerLoss(n) ==
    /\ Ledger!Lose(n)
    /\ sealer' = [s \in Sealers |-> AtRest]
    /\ checker' = [c \in Checkers |-> AtRest]
    /\ lost' = (lost \/ n < Len(log))
    /\ file' \in {file} \cup (IF file = Absent THEN {} ELSE {Torn})

Next ==
    \/ \E e \in Submissions : AppendEvent(e)
    \/ \E s \in Sealers :
          \/ VerifyBeforeSeal(s) \/ Snapshot(s) \/ ReadPrior(s)
          \/ OpenFile(s) \/ WriteFile(s) \/ CrashSealer(s)
    \/ \E c \in Checkers : Load(c) \/ VerifyUnderSeal(c) \/ Compare(c) \/ Report(c)
    \/ \E n \in 0 .. Len(log) : PowerLoss(n)

Spec == Init /\ [][Next]_vars

-----------------------------------------------------------------------------
(* Properties *)

TypeOK ==
    /\ log \in Seq(Events)
    /\ file \in Files
    /\ sealer \in [Sealers -> [pc : {"idle", "verified", "snapped", "built", "writing"},
                               content : Seq(Events), sequence : 0 .. MaxSequence]]
    /\ checker \in [Checkers -> [pc : {"idle", "loaded", "verified", "ok"},
                                 content : Seq(Events), sequence : {0}]]
    /\ lost \in BOOLEAN

IsPrefixOf(p, l) == Len(p) <= Len(l) /\ p = SubSeq(l, 1, Len(p))

\* A seal that verify-seal reports as good covers a ledger that verifies, and
\* the live ledger still begins with exactly the sealed events - although
\* neither command reads the ledger in one transaction.  (Unless committed
\* events were lost: then the chain may have grown back in between.)
GoodSealIsVerified ==
    \A c \in Checkers :
        checker[c].pc = "ok" =>
            /\ IsPrefixOf(checker[c].content, log)
            /\ ~lost => Verifies(checker[c].content)

=============================================================================
