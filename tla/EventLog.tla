------------------------------- MODULE EventLog -------------------------------
(***************************************************************************)
(* What the utility ledger promises, whatever stores it: one sequence of   *)
(* events.  An event is added at the end, in one step, when its id is new  *)
(* and - for a typed event - when the lifecycle accepts it after the       *)
(* events already there.  Nothing else changes the log, except that a      *)
(* power failure may cut off events that were not yet durable.             *)
(*                                                                         *)
(* LedgerStore implements this module; the modules of the components that  *)
(* use a ledger instantiate it.                                            *)
(***************************************************************************)
EXTENDS EventHistory

CONSTANT Submissions    \* the events clients may submit

VARIABLES
    log,        \* the events of the ledger, in order
    durable     \* how many of them survive a power failure

Init ==
    /\ log = <<>>
    /\ durable = 0

Add(e) ==
    /\ log' = Append(log, e)
    /\ Legal(log, e)
    /\ UNCHANGED durable

Sync(n) ==
    /\ durable' = n
    /\ UNCHANGED log

Lose(n) ==
    /\ log' = SubSeq(log, 1, n)
    /\ UNCHANGED durable

Next ==
    \/ \E e \in Submissions : Add(e)
    \/ \E n \in durable .. Len(log) : Sync(n) \/ Lose(n)

vars == <<log, durable>>

Spec == Init /\ [][Next]_vars

=============================================================================
