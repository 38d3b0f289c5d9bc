------------------------------ MODULE Providers ------------------------------
(***************************************************************************)
(* What each evidence provider concludes from what it meets: semantic.py,  *)
(* fixture_runners.py, fixtures.py and downstream.py.                      *)
(*                                                                         *)
(* A finding has a status, a scope ("complete" or "partial" when the       *)
(* provider declares its coverage, "none" when it does not), and whether   *)
(* it says that it was attempted.                                          *)
(***************************************************************************)
EXTENDS FiniteSets

CONSTANT None

Finding(check, dim, status, scope, attempted) ==
    [check |-> check, dim |-> dim, status |-> status, scope |-> scope, attempted |-> attempted]

Public(candidate) == {d \in candidate.changed : d.public}

Signed(candidate) == {d \in candidate.changed : d.signature}

\* A provider looks at what made the extraction, and not at its errors.
Elaborated(x) == x.by = "toolchain" /\ x.complete

(***************************************************************************)
(* The statements of the changed signatures.  met is "found" when each has *)
(* one declaration in the extraction and no line of the patch is used,     *)
(* "missing" when one has none; a line of the patch "agrees" or "differs". *)
(***************************************************************************)
StatementDiff(candidate, x, met) ==
    LET is(status, scope) == Finding("semantic.statement_diff", "semantic", status, scope, FALSE)
    IN IF Signed(candidate) = {} THEN is("NOT_APPLICABLE", "complete")
       ELSE IF met = "missing" THEN is("UNKNOWN", "partial")
       ELSE IF ~Elaborated(x) /\ met = "differs" THEN is("FAIL", "complete")
       ELSE IF Elaborated(x) \/ met = "found" THEN is("PASS", "complete")
       ELSE is("UNKNOWN", "complete")

\* Is there a declaration like a changed one?  Its type hash or its name may say so.
Duplicates(candidate, x, met) ==
    LET is(status, scope) == Finding("semantic.duplicate_retrieval", "semantic", status, scope, TRUE)
    IN IF candidate.changed = {} THEN is("NOT_APPLICABLE", "none")
       ELSE IF met = "no declarations" THEN is("UNKNOWN", "none")
       ELSE IF Elaborated(x) /\ met = "no hash" THEN is("UNKNOWN", "partial")
       ELSE IF met = "alike" THEN is("WARN", "complete")
       ELSE is("PASS", "complete")

(***************************************************************************)
(* The declarations that depend on a changed one: they must have hashes    *)
(* that match their signatures, and their modules must still compile, of   *)
(* which the first eight are tried.                                        *)
(***************************************************************************)
Replacement(candidate, x, lakeCapable, met) ==
    LET is(status) == Finding("downstream.replacement_tests", "downstream", status, "none", TRUE)
    IN IF candidate.changed = {} THEN is("NOT_APPLICABLE")
       ELSE IF met = "no cone" THEN is("UNKNOWN")
       ELSE IF ~Elaborated(x) \/ x.errors THEN is("WARN")
       ELSE IF met = "no signatures" THEN is("UNKNOWN")
       ELSE IF met = "bad hash" THEN is("FAIL")
       ELSE IF ~lakeCapable THEN is("UNKNOWN")
       ELSE IF met = "does not compile" THEN is("FAIL")
       ELSE is("PASS")

-----------------------------------------------------------------------------
(***************************************************************************)
(* A fixture suite.  One run of one fixture is of a file that is "lean",   *)
(* "other" or "missing"; it "passed", "failed" or was "not run"; its exit  *)
(* code and its diagnostics were as expected or not.                       *)
(***************************************************************************)
RunOutcome(expectSuccess, lakeCapable, r) ==
    IF r.file # "lean" \/ ~lakeCapable \/ r.ran = "not run" THEN "unknown"
    ELSE IF ~expectSuccess /\ r.exit /\ ~r.diagnostic THEN "unknown"
    ELSE IF r.exit /\ r.diagnostic /\ (expectSuccess => r.ran = "passed") THEN "ok"
    ELSE "failed"

\* Failures beside unknowns are unknown.
SuiteStatus(outcomes) ==
    IF "unknown" \in outcomes THEN "UNKNOWN"
    ELSE IF "failed" \in outcomes THEN "FAIL"
    ELSE "PASS"

SuiteCheck(kind) == IF kind = "examples" THEN "semantic.project_examples" ELSE "semantic.counterexamples"

\* The manifest is the first that is found; one that is missing or broken is no suite.
Manifest(found) == IF found.manifests = <<>> \/ ~found.valid THEN None ELSE found.suite

Fixtures(kind, candidate, lakeCapable, suite) ==
    LET is(status, scope) == Finding(SuiteCheck(kind), "semantic", status, scope, TRUE)
        outcomes == {RunOutcome(kind = "examples", lakeCapable, r) : r \in suite.runs}
    IN IF suite = None THEN is("UNKNOWN", "partial")
       ELSE IF suite.obligations \cap candidate.obligations = {} THEN is("UNKNOWN", "partial")
       ELSE is(SuiteStatus(outcomes), IF "unknown" \in outcomes THEN "partial" ELSE "complete")

-----------------------------------------------------------------------------
(***************************************************************************)
(* The successor suite runs each command on the base and on the candidate. *)
(* A run is "ok", "failed" (a timeout too), or was "not run".              *)
(***************************************************************************)
Regressed(s) == s.base = "ok" /\ s.head # "ok"

SuccessorStatus(suite) ==
    IF \E s \in suite : "not run" \in {s.base, s.head} THEN "UNKNOWN"
    ELSE IF \E s \in suite : Regressed(s) /\ s.required THEN "FAIL"
    ELSE IF \E s \in suite : Regressed(s) THEN "WARN"
    ELSE "PASS"

Successors(candidate, suite) ==
    LET is(status, scope) == Finding("downstream.successor_suite", "downstream", status, scope, TRUE)
    IN IF suite = None
       THEN IF Public(candidate) = {} THEN is("NOT_APPLICABLE", "complete") ELSE is("UNKNOWN", "partial")
       ELSE is(SuccessorStatus(suite), IF SuccessorStatus(suite) = "UNKNOWN" THEN "partial" ELSE "complete")

=============================================================================
