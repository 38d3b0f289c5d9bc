------------------------------- MODULE MCEvents -------------------------------
(***************************************************************************)
(* Names and shorthands for the events the model-checking modules submit.  *)
(***************************************************************************)
EXTENDS Lifecycle

CONSTANTS
    a1, a2, e1, e2, e3, e4, e5, e6, e7, e8, e9, e10, e11, e12, e13, e14, e15,
    f1, f2, c1, c2, t1, t2

Opaque == [opaque |-> TRUE]

V1(id, type, artifact, supersedes) ==
    [schema |-> "v1", version |-> CurrentVersion, id |-> id, type |-> type,
     artifact |-> artifact, supersedes |-> supersedes, payload |-> Opaque]

\* An event file that states the version before.
Old(event) == [event EXCEPT !.version = "0.1.0"]

V2(id, type, artifact, payload) ==
    [schema |-> "v2", version |-> CurrentVersion, id |-> id, type |-> type,
     artifact |-> artifact, supersedes |-> None, payload |-> payload]

Freeze(f) == [freeze_id |-> f]

Candidate(f, c) == [freeze_id |-> f, candidate_id |-> c]

Invalidate(id) ==
    [target_event_id |-> id, justified |-> TRUE, invalidation |-> TRUE, replacement |-> FALSE]

=============================================================================
