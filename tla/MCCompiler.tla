----------------------------- MODULE MCCompiler -----------------------------
(***************************************************************************)
(* Small values for Compiler: two trees of one project, of which one uses  *)
(* an axiom and leaves a proof open, and everything around them with a     *)
(* bounded number of departures from what usually happens.                 *)
(***************************************************************************)
EXTENDS Compiler

Clean == [modules |-> {1, 2}, axiom |-> "none", sorry |-> FALSE]
Uses  == [modules |-> {1, 2}, axiom |-> "used", sorry |-> FALSE]
Opens == [modules |-> {1, 2, 3}, axiom |-> "declared", sorry |-> TRUE]

MCTrees == {Clean, Uses}

Declaration(kind, signature, public) ==
    [kind |-> kind, signature |-> signature, public |-> public, foundational |-> FALSE]

Made(by, complete, tree, modules) ==
    [by |-> by, complete |-> complete, errors |-> FALSE, v11 |-> TRUE,
     of |-> tree, modules |-> modules, axiom |-> tree.axiom]

Proposed(tree, patch, changed, paths, elaborated) ==
    [tree |-> tree, patch |-> patch, brings |-> <<None, None>>, changed |-> changed,
     paths |-> paths, obligations |-> {"o"}, elaborated |-> elaborated]

\* The patch, or the commit, has an artifact that was made of another tree.
Committed(c, tree) ==
    [c EXCEPT !.brings[1] = Made("toolchain", TRUE, tree, tree.modules)]

MCOwnCandidates ==
    {Proposed(Clean, FALSE, {Declaration("theorem", FALSE, FALSE)}, {"lean"}, 0),
     Proposed(Uses, TRUE, {Declaration("theorem", FALSE, TRUE)}, {"lean"}, 0),
     Proposed(Clean, TRUE, {Declaration("theorem", TRUE, FALSE)}, {"lean"}, 2),
     Proposed(Opens, TRUE, {}, {"lean", "ci"}, 1),
     Proposed(Clean, FALSE, {}, {}, 1)}

MCCandidates ==
    MCOwnCandidates
    \cup {Committed(Proposed(Uses, TRUE, {Declaration("theorem", FALSE, FALSE)}, {"lean"}, 0), Clean)}

Deviations(usual, others) ==
    {usual} \cup UNION {{[usual EXCEPT ![field] = v] : v \in others[field]} : field \in DOMAIN others}

MCHosts ==
    Deviations([lake |-> TRUE, docker |-> "pinned", policy |-> "deny", combined |-> TRUE,
                paired |-> FALSE, prefer |-> "auto", custom |-> FALSE],
               [docker |-> {"unpinned", "absent"}, combined |-> {FALSE}, lake |-> {FALSE}])
    \cup {[lake |-> lake, docker |-> "absent", policy |-> "allow", combined |-> TRUE,
           paired |-> TRUE, prefer |-> "auto", custom |-> FALSE] : lake \in BOOLEAN}

MCProjects ==
    Deviations([tree |-> Clean, git |-> FALSE, lakefile |-> TRUE, declares |-> TRUE,
                supported |-> TRUE, layout |-> "found", stored |-> <<None, None>>],
               [git |-> {TRUE}, declares |-> {FALSE}, lakefile |-> {FALSE},
                stored |-> {<<Junk, None>>, <<None, Made("toolchain", TRUE, Clean, {1})>>}])

MCRequests ==
    Deviations([skip |-> FALSE, sandbox |-> "default", insecure |-> FALSE,
                extraction |-> TRUE, semantic |-> TRUE],
               [skip |-> {TRUE}, extraction |-> {FALSE}, semantic |-> {FALSE}])
    \cup {[skip |-> sandbox = "off", sandbox |-> sandbox, insecure |-> TRUE,
           extraction |-> TRUE, semantic |-> TRUE] : sandbox \in {"default", "off", "force"}}

MCRuns ==
    Deviations([ends |-> "ok", builds |-> TRUE, writes |-> "all"],
               [ends   |-> {"failed", "raised", "no target"},
                builds |-> {FALSE},
                writes |-> {"nothing", "junk", "incomplete", "one module"}])

FixtureRun(file, ran, exit) == [file |-> file, ran |-> ran, exit |-> exit, diagnostic |-> TRUE]

Suite(run) == [obligations |-> {"o"}, runs |-> {FixtureRun("lean", "passed", TRUE), run}]

Usual == FixtureRun("lean", "passed", TRUE)

MCEncounters ==
    Deviations([statement |-> "found", duplicates |-> "none", replacement |-> "ok",
                examples |-> Suite(Usual), counterexamples |-> Suite(Usual),
                successors |-> {[base |-> "ok", head |-> "ok", required |-> TRUE]}],
               [statement       |-> {"missing", "agrees", "differs"},
                duplicates      |-> {"no declarations", "no hash", "alike"},
                replacement     |-> {"no cone", "no signatures", "bad hash", "does not compile"},
                examples        |-> {None, Suite(FixtureRun("missing", "not run", FALSE)),
                                     Suite(FixtureRun("lean", "failed", FALSE))},
                counterexamples |-> {None},
                successors      |-> {None, {[base |-> "ok", head |-> "failed", required |-> TRUE]},
                                     {[base |-> "ok", head |-> "failed", required |-> FALSE]}}])

(***************************************************************************)
(* For the reuse of an artifact: a fresh project, the build and extraction *)
(* in two containers, and runs that always write what they should.         *)
(***************************************************************************)
MCFresh == {project \in MCProjects : project.stored = <<None, None>> /\ project.lakefile}

MCSequential == {h \in MCHosts : ~h.combined}

MCGoodRuns == {[ends |-> "ok", builds |-> TRUE, writes |-> "all"]}

=============================================================================
