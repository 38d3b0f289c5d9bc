--------------------------- MODULE LedgerSeal_proofs ---------------------------
(***************************************************************************)
(* Theorems about LedgerSeal, for any events, any number of sealers and    *)
(* checkers and ledgers of any length.                                     *)
(***************************************************************************)
EXTENDS LedgerSeal, SequenceTheorems, TLAPS

-----------------------------------------------------------------------------
(* Prefixes of a ledger *)

LEMMA PrefixOfItself ==
  ASSUME NEW l \in Seq(Events)
  PROVE  IsPrefixOf(l, l)
BY LenProperties, SubSeqProperties DEF IsPrefixOf

\* What a ledger began with it still begins with when an event is added, and
\* what it began with is not the longer ledger.
LEMMA PrefixOfLonger ==
  ASSUME NEW l \in Seq(Events), NEW p \in Seq(Events), NEW e \in Events, IsPrefixOf(p, l)
  PROVE  IsPrefixOf(p, Append(l, e)) /\ p # Append(l, e)
<1>1. /\ Append(l, e) \in Seq(Events) /\ Len(Append(l, e)) = Len(l) + 1
      /\ \A i \in 1 .. Len(l) : Append(l, e)[i] = l[i]
  BY AppendProperties
<1>2. Len(p) \in Nat /\ Len(l) \in Nat /\ Len(p) <= Len(l)
  BY LenProperties DEF IsPrefixOf
<1>3. SubSeq(Append(l, e), 1, Len(p)) = SubSeq(l, 1, Len(p))
  <2>1. \A i \in 1 .. Len(p) : l[i] \in Events /\ Append(l, e)[i] \in Events
    BY <1>1, <1>2, LenProperties
  <2> DEFINE longer  == SubSeq(Append(l, e), 1, Len(p))
             shorter == SubSeq(l, 1, Len(p))
  <2>2. /\ longer \in Seq(Events) /\ Len(longer) = Len(p)
        /\ \A i \in 1 .. Len(p) : longer[i] = Append(l, e)[i]
    BY <1>2, <2>1, SubSeqProperties
  <2>3. /\ shorter \in Seq(Events) /\ Len(shorter) = Len(p)
        /\ \A i \in 1 .. Len(p) : shorter[i] = l[i]
    BY <1>2, <2>1, SubSeqProperties
  <2>4. \A i \in 1 .. Len(p) : longer[i] = shorter[i]
    BY <1>1, <1>2, <2>2, <2>3
  <2> HIDE DEF longer, shorter
  <2>5. Len(longer) = Len(shorter) /\ \A i \in 1 .. Len(longer) : longer[i] = shorter[i]
    BY <2>2, <2>3, <2>4
  <2>6. longer = shorter
    BY <2>2, <2>3, <2>5, SeqEqual, Zenon
  <2> QED BY <2>6 DEF longer, shorter
<1>4. p # Append(l, e)
  <2>1. Len(p) # Len(Append(l, e))
    BY <1>1, <1>2
  <2> QED BY <2>1
<1>5. p = SubSeq(Append(l, e), 1, Len(p))
  BY <1>3 DEF IsPrefixOf
<1>6. Len(p) <= Len(Append(l, e))
  BY <1>1, <1>2
<1> QED BY <1>4, <1>5, <1>6 DEF IsPrefixOf

\* A power failure that cuts nothing off changes nothing.
LEMMA NothingCut ==
  ASSUME NEW l \in Seq(Events)
  PROVE  SubSeq(l, 1, Len(l)) = l
BY LenProperties, SubSeqProperties

LEMMA CutType ==
  ASSUME NEW l \in Seq(Events), NEW n \in 0 .. Len(l)
  PROVE  SubSeq(l, 1, n) \in Seq(Events)
BY LenProperties, SubSeqProperties

-----------------------------------------------------------------------------
(* Types *)

SealerStates ==
    [pc : {"idle", "verified", "snapped", "built", "writing"},
     content : Seq(Events), sequence : 0 .. MaxSequence]

CheckerStates ==
    [pc : {"idle", "loaded", "verified", "ok"}, content : Seq(Events), sequence : {0}]

LEMMA AtRestType == AtRest \in SealerStates /\ AtRest \in CheckerStates
<1>1. <<>> \in Seq(Events)
  OBVIOUS
<1> QED BY <1>1, SealAssumptions DEF AtRest, SealerStates, CheckerStates

LEMMA SequenceType ==
  ASSUME TypeOK
  PROVE  NextSequence \in Nat
BY DEF TypeOK, Files, NextSequence, Absent, Torn

LEMMA TypeStep ==
  ASSUME TypeOK, [Next]_vars
  PROVE  TypeOK'
<1> USE SealAssumptions
<1>1. ASSUME NEW e \in Submissions, AppendEvent(e) PROVE TypeOK'
  BY <1>1, AppendProperties DEF TypeOK, AppendEvent, Ledger!Add
<1>2. ASSUME NEW s \in Sealers, VerifyBeforeSeal(s) PROVE TypeOK'
  BY <1>2 DEF TypeOK, VerifyBeforeSeal
<1>3. ASSUME NEW s \in Sealers, Snapshot(s) PROVE TypeOK'
  BY <1>3 DEF TypeOK, Snapshot
<1>4. ASSUME NEW s \in Sealers, ReadPrior(s) PROVE TypeOK'
  <2>1. NextSequence \in 0 .. MaxSequence
    BY <1>4, SequenceType DEF ReadPrior
  <2> QED BY <1>4, <2>1 DEF TypeOK, ReadPrior
<1>5. ASSUME NEW s \in Sealers, OpenFile(s) PROVE TypeOK'
  BY <1>5 DEF TypeOK, OpenFile, Files, Torn
<1>6. ASSUME NEW s \in Sealers, WriteFile(s) PROVE TypeOK'
  BY <1>6 DEF TypeOK, WriteFile, Files, Torn, Seal, AtRest
<1>7. ASSUME NEW s \in Sealers, CrashSealer(s) PROVE TypeOK'
  BY <1>7 DEF TypeOK, CrashSealer, AtRest
<1>8. ASSUME NEW c \in Checkers, Load(c) PROVE TypeOK'
  <2>1. file.content \in Seq(Events)
    BY <1>8 DEF TypeOK, Load, Files, Absent, Torn
  <2>2. [AtRest EXCEPT !.pc = "loaded", !.content = file.content] \in CheckerStates
    BY <2>1, AtRestType DEF CheckerStates
  <2>3. checker' \in [Checkers -> CheckerStates]
    BY <1>8, <2>2 DEF TypeOK, Load, CheckerStates
  <2> QED BY <1>8, <2>3 DEF TypeOK, Load, CheckerStates
<1>9. ASSUME NEW c \in Checkers, VerifyUnderSeal(c) \/ Compare(c) \/ Report(c)
      PROVE  TypeOK'
  <2>1. checker[c] \in CheckerStates /\ checker \in [Checkers -> CheckerStates]
    BY DEF TypeOK, CheckerStates
  <2>2. \A pc \in {"verified", "ok"} : [checker[c] EXCEPT !.pc = pc] \in CheckerStates
    BY <2>1 DEF CheckerStates
  <2>3. checker'[c] \in CheckerStates /\ checker' = [checker EXCEPT ![c] = checker'[c]]
    <3>1. CASE VerifyUnderSeal(c)
      <4>1. checker'[c] \in {[checker[c] EXCEPT !.pc = "verified"], AtRest}
        BY <2>1, <3>1 DEF VerifyUnderSeal
      <4> QED BY <2>1, <2>2, <3>1, <4>1, AtRestType DEF VerifyUnderSeal
    <3>2. CASE Compare(c)
      <4>1. checker'[c] \in {[checker[c] EXCEPT !.pc = "ok"], AtRest}
        BY <2>1, <3>2 DEF Compare
      <4> QED BY <2>1, <2>2, <3>2, <4>1, AtRestType DEF Compare
    <3>3. CASE Report(c)
      BY <2>1, <3>3, AtRestType DEF Report
    <3> QED BY <1>9, <3>1, <3>2, <3>3
  <2>4. checker' \in [Checkers -> CheckerStates]
    BY <2>1, <2>3
  <2>5. UNCHANGED <<log, file, sealer, lost>>
    BY <1>9 DEF VerifyUnderSeal, Compare, Report
  <2> QED BY <2>4, <2>5 DEF TypeOK, CheckerStates
<1>10. ASSUME NEW n \in 0 .. Len(log), PowerLoss(n) PROVE TypeOK'
  <2>1. log' \in Seq(Events)
    BY <1>10, CutType DEF TypeOK, PowerLoss, Ledger!Lose
  <2> QED BY <1>10, <2>1 DEF TypeOK, PowerLoss, AtRest, Files, Torn
<1>11. CASE UNCHANGED vars
  BY <1>11 DEF TypeOK, vars
<1> QED BY <1>1, <1>2, <1>3, <1>4, <1>5, <1>6, <1>7, <1>8, <1>9, <1>10, <1>11 DEF Next

LEMMA TypeInit == Init => TypeOK
<1>1. <<>> \in Seq(Events)
  OBVIOUS
<1> QED BY <1>1, AtRestType DEF Init, TypeOK, Ledger!Init, Files, SealerStates, CheckerStates

\* Sealing and checking keep the type of their state, torn files and lost events
\* included.
THEOREM SealTypeCorrect == Spec => []TypeOK
BY TypeInit, TypeStep, PTL DEF Spec

-----------------------------------------------------------------------------
(* What a good seal covers *)

\* As long as nothing is lost, whatever a seal or a process holds of the ledger is
\* what the ledger began with.
Prefixes ==
    ~lost =>
        /\ file.kind = "seal" => IsPrefixOf(file.content, log)
        /\ \A s \in Sealers : sealer[s].pc \in {"snapped", "built", "writing"}
                                  => IsPrefixOf(sealer[s].content, log)
        /\ \A c \in Checkers : checker[c].pc # "idle" => IsPrefixOf(checker[c].content, log)

\* A checker that has verified: should the ledger be the sealed one when it is
\* compared, then it was when it was verified.
Checked ==
    \A c \in Checkers :
        checker[c].pc = "verified" /\ ~lost /\ checker[c].content = log => Verifies(log)

SealInv == TypeOK /\ Prefixes /\ Checked /\ GoodSealIsVerified

LEMMA AppendKeeps ==
  ASSUME SealInv, NEW e \in Submissions, AppendEvent(e)
  PROVE  Prefixes' /\ Checked' /\ GoodSealIsVerified'
<1>1. /\ log \in Seq(Events) /\ e \in Events /\ log' = Append(log, e)
      /\ UNCHANGED <<file, sealer, checker, lost>>
  BY SealAssumptions DEF SealInv, TypeOK, AppendEvent, Ledger!Add
<1>2. ASSUME NEW p \in Seq(Events), IsPrefixOf(p, log)
      PROVE  IsPrefixOf(p, log') /\ p # log'
  BY <1>1, <1>2, PrefixOfLonger
<1>3. /\ \A c \in Checkers : checker[c].content \in Seq(Events)
      /\ \A s \in Sealers : sealer[s].content \in Seq(Events)
      /\ file.kind = "seal" => file.content \in Seq(Events)
  BY DEF SealInv, TypeOK, Files, Absent, Torn
<1>4. Prefixes'
  BY <1>1, <1>2, <1>3 DEF SealInv, Prefixes
<1>5. Checked'
  BY <1>1, <1>2, <1>3 DEF SealInv, Prefixes, Checked
<1>6. GoodSealIsVerified'
  BY <1>1, <1>2, <1>3 DEF SealInv, GoodSealIsVerified
<1> QED BY <1>4, <1>5, <1>6

LEMMA SealerKeeps ==
  ASSUME SealInv, NEW s \in Sealers,
         \/ VerifyBeforeSeal(s) \/ Snapshot(s) \/ ReadPrior(s)
         \/ OpenFile(s) \/ WriteFile(s) \/ CrashSealer(s)
  PROVE  Prefixes' /\ Checked' /\ GoodSealIsVerified'
<1>1. UNCHANGED <<log, checker, lost>>
  BY DEF VerifyBeforeSeal, Snapshot, ReadPrior, OpenFile, WriteFile, CrashSealer
<1>2. Checked' /\ GoodSealIsVerified'
  BY <1>1 DEF SealInv, Checked, GoodSealIsVerified
<1>3. IsPrefixOf(log, log)
  BY PrefixOfItself DEF SealInv, TypeOK
<1>4. ASSUME ~lost
      PROVE  \A t \in Sealers : sealer'[t].pc \in {"snapped", "built", "writing"}
                                    => IsPrefixOf(sealer'[t].content, log)
  <2>1. /\ \A t \in Sealers : t # s => sealer'[t] = sealer[t]
        /\ \/ sealer'[s].pc \in {"idle", "verified"}
           \/ sealer'[s].content = log
           \/ /\ sealer[s].pc \in {"snapped", "built", "writing"}
              /\ sealer'[s].content = sealer[s].content
    <3>1. CASE VerifyBeforeSeal(s) \/ Snapshot(s)
      BY <3>1 DEF SealInv, TypeOK, VerifyBeforeSeal, Snapshot
    <3>2. CASE ReadPrior(s) \/ OpenFile(s)
      BY <3>2 DEF SealInv, TypeOK, ReadPrior, OpenFile
    <3>3. CASE WriteFile(s) \/ CrashSealer(s)
      BY <3>3 DEF SealInv, TypeOK, WriteFile, CrashSealer, AtRest
    <3> QED BY <3>1, <3>2, <3>3
  <2> QED BY <1>3, <1>4, <2>1 DEF SealInv, Prefixes
<1>5. ASSUME ~lost, file'.kind = "seal" PROVE IsPrefixOf(file'.content, log)
  <2>1. CASE WriteFile(s)
    <3>1. file' = Seal(sealer[s].content, sealer[s].sequence)
      BY <1>5, <2>1 DEF WriteFile, Torn
    <3>2. file'.content = sealer[s].content /\ sealer[s].pc = "writing"
      BY <2>1, <3>1 DEF WriteFile, Seal
    <3> QED BY <1>5, <3>2 DEF SealInv, Prefixes
  <2>2. CASE OpenFile(s)
    BY <1>5, <2>2 DEF OpenFile, Torn
  <2>3. CASE UNCHANGED file
    BY <1>5, <2>3 DEF SealInv, Prefixes
  <2> QED BY <2>1, <2>2, <2>3 DEF VerifyBeforeSeal, Snapshot, ReadPrior, CrashSealer
<1> QED BY <1>1, <1>2, <1>4, <1>5 DEF SealInv, Prefixes

\* What the invariants ask of one checker.
OfOne(state) ==
    /\ ~lost /\ state.pc # "idle" => IsPrefixOf(state.content, log)
    /\ state.pc = "verified" /\ ~lost /\ state.content = log => Verifies(log)
    /\ state.pc = "ok" => state.content = log /\ IsPrefixOf(log, log) /\ (~lost => Verifies(log))

LEMMA CheckerKeeps ==
  ASSUME SealInv, NEW c \in Checkers, Load(c) \/ VerifyUnderSeal(c) \/ Compare(c) \/ Report(c)
  PROVE  Prefixes' /\ Checked' /\ GoodSealIsVerified'
<1>1. UNCHANGED <<log, file, sealer, lost>>
  BY DEF Load, VerifyUnderSeal, Compare, Report
<1>2. checker' = [checker EXCEPT ![c] = checker'[c]]
  BY DEF SealInv, TypeOK, Load, VerifyUnderSeal, Compare, Report
<1>3. c \in DOMAIN checker /\ checker[c] = [checker[c] EXCEPT !.pc = checker[c].pc]
  BY DEF SealInv, TypeOK
<1>4. OfOne(checker'[c])
  <2>3. CASE Load(c)
    <3>1. checker'[c].pc = "loaded" /\ checker'[c].content = file.content /\ file.kind = "seal"
      BY <1>3, <2>3 DEF Load, AtRest
    <3> QED BY <3>1 DEF SealInv, Prefixes, OfOne
  <2>4. CASE checker'[c] = AtRest
    BY <2>4 DEF AtRest, OfOne
  <2>5. CASE VerifyUnderSeal(c) /\ Verifies(log)
    <3>1. checker'[c].pc = "verified" /\ checker'[c].content = checker[c].content
      BY <1>3, <2>5 DEF SealInv, TypeOK, VerifyUnderSeal
    <3>2. checker[c].pc = "loaded"
      BY <2>5 DEF VerifyUnderSeal
    <3> QED BY <2>5, <3>1, <3>2 DEF SealInv, Prefixes, OfOne
  <2>6. CASE Compare(c) /\ checker[c].content = log
    <3>1. checker'[c].pc = "ok" /\ checker'[c].content = log
      BY <1>3, <2>6 DEF SealInv, TypeOK, Compare
    <3>2. checker[c].pc = "verified" /\ IsPrefixOf(log, log)
      BY <2>6, PrefixOfItself DEF Compare, SealInv, TypeOK
    <3> QED BY <2>6, <3>1, <3>2 DEF SealInv, Checked, OfOne
  <2>7. VerifyUnderSeal(c) /\ ~Verifies(log) => checker'[c] = AtRest
    BY <1>3 DEF VerifyUnderSeal
  <2>8. Compare(c) /\ checker[c].content # log => checker'[c] = AtRest
    BY <1>3 DEF Compare
  <2>9. Report(c) => checker'[c] = AtRest
    BY <1>3 DEF Report
  <2> QED BY <2>3, <2>4, <2>5, <2>6, <2>7, <2>8, <2>9
<1>5. \A d \in Checkers : d # c => checker'[d] = checker[d]
  BY <1>2 DEF SealInv, TypeOK
<1>6. Prefixes'
  BY <1>1, <1>4, <1>5 DEF SealInv, Prefixes, OfOne
<1>7. Checked'
  BY <1>1, <1>4, <1>5 DEF SealInv, Checked, OfOne
<1>8. GoodSealIsVerified'
  BY <1>1, <1>4, <1>5 DEF SealInv, GoodSealIsVerified, OfOne
<1> QED BY <1>6, <1>7, <1>8

LEMMA LossKeeps ==
  ASSUME SealInv, NEW n \in 0 .. Len(log), PowerLoss(n)
  PROVE  Prefixes' /\ Checked' /\ GoodSealIsVerified'
<1>1. /\ sealer' = [s \in Sealers |-> AtRest] /\ checker' = [c \in Checkers |-> AtRest]
      /\ file'.kind = "seal" => file' = file
  BY DEF PowerLoss, Torn
<1>2. ~lost' => ~lost /\ log' = log
  <2>1. log \in Seq(Events) /\ Len(log) \in Nat
    BY LenProperties DEF SealInv, TypeOK
  <2>2. ~lost' => n = Len(log)
    <3>1. ~lost' => ~ (n < Len(log))
      BY Zenon DEF PowerLoss
    <3> QED BY <2>1, <3>1
  <2>3. log' = SubSeq(log, 1, n)
    BY DEF PowerLoss, Ledger!Lose
  <2> QED BY <2>1, <2>2, <2>3, NothingCut DEF PowerLoss
<1> QED BY <1>1, <1>2 DEF SealInv, Prefixes, Checked, GoodSealIsVerified, AtRest

\* A seal that is reported as good covers a verified beginning of the ledger,
\* whatever is appended, sealed, torn or lost while it is checked.
THEOREM GoodSealsAreVerified == Spec => []GoodSealIsVerified
<1>1. Init => SealInv
  BY TypeInit DEF Init, SealInv, Prefixes, Checked, GoodSealIsVerified, Absent, AtRest
<1>2. ASSUME SealInv, [Next]_vars PROVE SealInv'
  <2>1. TypeOK'
    BY <1>2, TypeStep DEF SealInv
  <2>2. CASE UNCHANGED vars
    BY <1>2, <2>1, <2>2 DEF SealInv, Prefixes, Checked, GoodSealIsVerified, vars
  <2> QED BY <1>2, <2>1, <2>2, AppendKeeps, SealerKeeps, CheckerKeeps, LossKeeps
          DEF Next, SealInv
<1>3. SealInv => GoodSealIsVerified
  BY DEF SealInv
<1> QED BY <1>1, <1>2, <1>3, PTL DEF Spec

=============================================================================
