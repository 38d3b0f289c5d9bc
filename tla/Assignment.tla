------------------------------ MODULE Assignment ------------------------------
(***************************************************************************)
(* The blocked assignment of pilot episodes to conditions and reviewers    *)
(* (src/lpe/pilot/assignment.py), a function of the episodes, the roster,  *)
(* the configuration and what HMAC makes of the seed.                      *)
(*                                                                         *)
(* A seed stands for its digests: the order it puts the candidates of a    *)
(* stratum in, and the order of the five slots of each block.  Candidates, *)
(* strata and reviewers are numbers, in the order of their names; hashes   *)
(* and identifiers of the manifest are left out.                           *)
(***************************************************************************)
EXTENDS Integers, SequencesExt, FiniteSetsExt

CONSTANTS None

BLOCK_PATTERN == <<"control", "control", "instrumented", "instrumented", "shadow">>

BlockSize == Len(BLOCK_PATTERN)

\* The orders HMAC can put the slots of a block in.
BlockOrders == {order \in [1 .. BlockSize -> Range(BLOCK_PATTERN)] :
                    \A tag \in Range(BLOCK_PATTERN) :
                        Cardinality({i \in 1 .. BlockSize : order[i] = tag})
                            = Cardinality({i \in 1 .. BlockSize : BLOCK_PATTERN[i] = tag})}

\* EpisodeSpec: root is root_candidate_id, or what the name of a repair says.
Episodes ==
    [candidate : Nat, stratum : Nat, author : Nat \cup {None}, root : Nat \cup {None},
     is_repair : BOOLEAN]

-----------------------------------------------------------------------------
(* The loop: the assignments so far, and the episodes each reviewer has. *)

Unloaded(reviewers) == [rows |-> <<>>, workload |-> [r \in reviewers |-> 0]]

\* Faulty variant of Allowed: when nobody else is there, the author will do.
AllowedOrAuthor(pool, episode, config) ==
    IF config.author_exclusion /\ pool # {episode.author} THEN pool \ {episode.author} ELSE pool

\* Authors do not review their own candidates (_pick_reviewers).
Allowed(pool, episode, config) ==
    IF config.author_exclusion THEN pool \ {episode.author} ELSE pool

\* The first of the pool: by workload, where it is balanced, and by name.
Chosen(pool, workload, config) ==
    LET least == Min({workload[r] : r \in pool})
    IN  IF config.workload_balance THEN Min({r \in pool : workload[r] = least}) ELSE Min(pool)

\* One more episode; None is the AssignmentError that nobody is left.
Assign(acc, episode, pool, tag, config) ==
    IF acc = None \/ Allowed(pool, episode, config) = {} THEN None
    ELSE LET reviewer == Chosen(Allowed(pool, episode, config), acc.workload, config)
         IN  [rows     |-> Append(acc.rows, [episode |-> episode, tag |-> tag,
                                             reviewer |-> reviewer]),
              workload |-> [acc.workload EXCEPT ![reviewer] = @ + 1]]

\* The first number in which two keys differ is the smaller in k.
Precedes(k, l) ==
    \E n \in DOMAIN k : k[n] < l[n] /\ \A m \in 1 .. n - 1 : k[m] = l[m]

\* The places that have a key, sorted by it.
InOrder(key) ==
    [n \in 1 .. Cardinality(DOMAIN key) |->
        CHOOSE i \in DOMAIN key :
            Cardinality({j \in DOMAIN key : Precedes(key[j], key[i])}) = n - 1]

\* The places of the originals: stratum by stratum, by their digests.
Ordered(list, seed) ==
    InOrder([i \in {j \in DOMAIN list : ~list[j].is_repair} |->
                <<list[i].stratum, seed.order[list[i].candidate], i>>])

\* The places of the repairs, by the names of the candidates.
RepairOrder(list) ==
    InOrder([i \in {j \in DOMAIN list : list[j].is_repair} |-> <<list[i].candidate, i>>])

\* The tag of the i-th original: its slot in its block.
TagAt(i, seed) == seed.slots[1 + (i - 1) \div BlockSize][1 + ((i - 1) % BlockSize)]

\* Faulty variant of Originals: each stratum is balanced on its own.
OriginalsPerStratum(list, eligible, seed, config) ==
    LET ordered == Ordered(list, seed)
        opens(n) == n > 1 /\ list[ordered[n]].stratum # list[ordered[n - 1]].stratum
        before(acc, n) == IF acc # None /\ opens(n)
                          THEN [acc EXCEPT !.workload = Unloaded(eligible).workload] ELSE acc
        after[n \in 0 .. Len(ordered)] ==
            IF n = 0 THEN Unloaded(eligible)
            ELSE Assign(before(after[n - 1], n), list[ordered[n]], eligible, TagAt(n, seed), config)
    IN  after[Len(ordered)]

\* after[n] is what the first n originals come to.
Originals(list, eligible, seed, config) ==
    LET ordered == Ordered(list, seed)
        after[n \in 0 .. Len(ordered)] ==
            IF n = 0 THEN Unloaded(eligible)
            ELSE Assign(after[n - 1], list[ordered[n]], eligible, TagAt(n, seed), config)
    IN  after[Len(ordered)]

ReviewersOf(rows, candidate) ==
    {rows[i].reviewer : i \in {j \in DOMAIN rows : rows[j].episode.candidate = candidate}}

\* Repairs get the condition of their root, and other reviewers than the
\* original had: original holds the rows made before the first repair.
Repair(acc, episode, original, eligible, config) ==
    LET roots == IF acc = None THEN {}
                 ELSE {i \in DOMAIN acc.rows : acc.rows[i].episode.candidate = episode.root}
        prior == ReviewersOf(original, episode.root)
        pool  == IF config.repair_blinding THEN eligible \ prior ELSE eligible
    IN  IF roots = {} THEN None
        ELSE Assign(acc, episode, pool, acc.rows[Min(roots)].tag, config)

\* after[n] is what the originals' rows and the first n repairs come to.
Repairs(acc, list, eligible, config) ==
    LET ordered == RepairOrder(list)
        after[n \in 0 .. Len(ordered)] ==
            IF n = 0 THEN acc
            ELSE Repair(after[n - 1], list[ordered[n]], acc.rows, eligible, config)
    IN  after[Len(ordered)]

WholeBlocks(originals) ==
    \A e \in Range(originals) :
        Cardinality({i \in DOMAIN originals : originals[i].stratum = e.stratum}) % BlockSize = 0

NoDuplicates(originals) ==
    \A i, j \in DOMAIN originals : originals[i].candidate = originals[j].candidate => i = j

\* The rows of the manifest, or None for an AssignmentError.  A manifest without
\* rows is refused by its validator.
AssignConditions(list, eligible, seed, config) ==
    LET originals == [i \in {j \in DOMAIN list : ~list[j].is_repair} |-> list[i]]
    IN  IF Cardinality(eligible) < 2 \/ DOMAIN originals = {}
            \/ ~WholeBlocks(originals) \/ ~NoDuplicates(originals)
        THEN None
        ELSE LET first == Originals(list, eligible, seed, config)
                 all   == IF first = None THEN None ELSE Repairs(first, list, eligible, config)
             IN  IF all = None THEN None ELSE all.rows

=============================================================================
