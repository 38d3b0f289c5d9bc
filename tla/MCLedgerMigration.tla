--------------------------- MODULE MCLedgerMigration ---------------------------
(***************************************************************************)
(* Events for model-checking LedgerMigration: two plain 0.1 events, one    *)
(* that supersedes an event appended after it, one in the older schema     *)
(* version, and a typed event.                                             *)
(***************************************************************************)
EXTENDS LedgerMigration, MCEvents, TLC

CONSTANTS m1, m2

SourceEvents ==
    {V1(e1, "OBLIGATION_REGISTERED", a1, None),
     V1(e2, "CORRECTION_RECORDED", a1, e3),
     V1(e3, "ARTIFACT_ACCEPTED", a1, None),
     V2(e4, "OBLIGATION_FROZEN", a2, Freeze(f1)),
     Old(V1(e5, "REVIEW_SUBMITTED", a1, None))}

\* A source whose every event can be copied.
PlainEvents ==
    {V1(e1, "OBLIGATION_REGISTERED", a1, None),
     V1(e3, "ARTIFACT_ACCEPTED", a1, None)}

\* Migrations run the same code.
MigratorSymmetry == Permutations(Migrators)

=============================================================================
