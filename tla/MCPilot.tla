------------------------------- MODULE MCPilot --------------------------------
(***************************************************************************)
(* Three reviewers, two versions of each file and five lists of episodes   *)
(* for model-checking Pilot.                                               *)
(***************************************************************************)
EXTENDS Pilot

\* The second roster has lost a reviewer.
TwoRosters == <<{1, 2, 3}, {1, 2}>>

TwoConfigs ==
    <<[workload_balance |-> TRUE, author_exclusion |-> TRUE, repair_blinding |-> TRUE],
      [workload_balance |-> TRUE, author_exclusion |-> FALSE, repair_blinding |-> FALSE]>>

\* The second analysis plan names no image.
TwoImages == <<"sha256:a", None>>

\* Candidates 1 to 5 and 6 to 10, by their authors; a stratum each.
Original(c, author) ==
    [candidate |-> c, stratum |-> 1 + (c - 1) \div 5, author |-> author, root |-> None,
     is_repair |-> FALSE]

RepairOf(root, c, author) ==
    [candidate |-> c, stratum |-> 1 + (root - 1) \div 5, author |-> author, root |-> root,
     is_repair |-> TRUE]

FirstStratum == <<Original(3, 1), Original(1, 1), Original(2, 2), Original(4, 3), Original(5, None)>>

SecondStratum ==
    <<Original(6, 1), Original(7, 1), Original(8, 2), Original(9, None), Original(10, 1)>>

\* Candidate 13 is a repair of a repair.
WithRepairs ==
    <<RepairOf(11, 13, 2), RepairOf(2, 12, 3)>> \o FirstStratum \o <<RepairOf(1, 11, 1)>>

\* Two repairs, of different candidates, have the same name.
TwoStrata == SecondStratum \o <<RepairOf(7, 11, 2), RepairOf(3, 11, 1)>> \o FirstStratum

\* Lists that are refused: a block too short, a candidate twice, no root.
Refused == {FirstStratum \o <<Original(6, 1)>>,
            SubSeq(FirstStratum, 1, 4) \o <<Original(1, 2)>>,
            FirstStratum \o <<RepairOf(9, 11, 1)>>}

Lists == {WithRepairs, TwoStrata} \cup Refused

Backwards == [i \in 1 .. 5 |-> BLOCK_PATTERN[6 - i]]

\* Every order of four candidates of a stratum, the fifth before or after them.
AllSeeds ==
    {[order |-> [c \in 1 .. 13 |-> digests[1 + ((c - 1) % 5)]],
      slots |-> <<BLOCK_PATTERN, Backwards>>] :
         digests \in {p \in [1 .. 5 -> 1 .. 5] : Range(p) = 1 .. 5 /\ p[5] \in {1, 5}}}

\* The plan of every seed is looked at, that of one is followed further.
Followed == plan # None => \A i \in 1 .. 5 : plan.seed.order[i] = i

=============================================================================
