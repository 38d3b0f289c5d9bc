----------------------------- MODULE MCLedgerSeal -----------------------------
(***************************************************************************)
(* Events for model-checking LedgerSeal: a freeze, a 0.1 event that        *)
(* supersedes one which is not there yet, the event it waits for, and a    *)
(* 0.1 event in the older schema version.                                  *)
(***************************************************************************)
EXTENDS LedgerSeal, MCEvents, TLC

CONSTANTS s1, s2, k1

SealedEvents ==
    {V2(e1, "OBLIGATION_FROZEN", a1, Freeze(f1)),
     V1(e2, "CORRECTION_RECORDED", a1, e3),
     V1(e3, "REVIEW_SUBMITTED", a2, None),
     Old(V1(e4, "EVIDENCE_COMPILED", a2, None))}

\* The two sealers run the same code.
SealerSymmetry == Permutations(Sealers)

=============================================================================
