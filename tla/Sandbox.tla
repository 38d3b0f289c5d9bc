------------------------------- MODULE Sandbox -------------------------------
(***************************************************************************)
(* Which executor a compilation gets, what a run in it reports, and what   *)
(* may be claimed of it afterwards: sandbox.py, runner.py, select_executor *)
(* and the parts of the executor descriptor that decide.                   *)
(***************************************************************************)
EXTENDS Naturals, Sequences

CONSTANT None

\* Anything but "allow" is a policy that denies the network.
Policy(written) == IF written = "allow" THEN "allow" ELSE "deny"

HostExecutor(policy) ==
    [backend |-> "host", isolated |-> FALSE, digest |-> FALSE, policy |-> policy]

DockerExecutor(policy, docker) ==
    [backend |-> "docker", isolated |-> policy = "deny",
     digest |-> docker = "pinned", policy |-> policy]

(***************************************************************************)
(* docker is "absent", "pinned" when the digest of the image resolves, or  *)
(* "unpinned".  A build on the host needs the policy and the caller.       *)
(***************************************************************************)
\* Faulty variant of SelectExecutor: the caller's word is enough for the host.
SelectExecutorOnWord(policy, insecure, docker) ==
    IF insecure THEN HostExecutor(policy)
    ELSE IF docker = "absent" THEN None
    ELSE DockerExecutor(policy, docker)

SelectExecutor(policy, insecure, docker) ==
    IF policy = "deny" /\ insecure THEN None
    ELSE IF insecure THEN HostExecutor(policy)
    ELSE IF docker = "absent" THEN None
    ELSE DockerExecutor(policy, docker)

\* A compilation that does not build takes what there is and never refuses.
ExecutorWithoutBuild(policy, insecure, docker) ==
    IF policy = "deny" /\ docker = "absent" THEN HostExecutor("deny")
    ELSE IF insecure /\ policy = "allow" THEN HostExecutor("allow")
    ELSE IF docker # "absent" THEN SelectExecutor(policy, FALSE, docker)
    ELSE HostExecutor(policy)

\* Host mode or an image without a digest cannot support automatic acceptance.
BlocksAutoAccept(executor) == executor.backend = "host" \/ ~executor.digest

-----------------------------------------------------------------------------
(***************************************************************************)
(* The script of the combined run: build, then extract, with a mark of the *)
(* phase that ended it on its last line.                                   *)
(***************************************************************************)
Script(build, extract) ==
    IF build # 0 THEN [exit |-> build, stderr |-> <<"build">>]
    ELSE IF extract # 0 THEN [exit |-> extract, stderr |-> <<"extract">>]
    ELSE [exit |-> 0, stderr |-> <<"ok">>]

(***************************************************************************)
(* How a run ends: by itself, at the timeout, or without a container.  The *)
(* output keeps its head, so a run that says much loses its last lines.    *)
(***************************************************************************)
Reported(script, ends, verbose) ==
    CASE ends = "exits" ->
            [exit |-> script.exit, stderr |-> IF verbose THEN <<>> ELSE script.stderr]
      [] ends = "times out" -> [exit |-> 124, stderr |-> <<>>]
      [] ends = "no container" -> [exit |-> 125, stderr |-> <<>>]

\* The last mark of stderr and then stdout counts.
ParsePhase(stderr, stdout) ==
    LET marks == stderr \o stdout
    IN IF marks = <<>> THEN None ELSE marks[Len(marks)]

\* A failure of the extract phase means that the build succeeded.
BuildOk(result) ==
    \/ result.exit = 0
    \/ ParsePhase(result.stderr, <<>>) = "extract"

ExtractEnds(result) ==
    IF result.exit = 0 \/ ParsePhase(result.stderr, <<>>) = "ok" THEN "ok" ELSE "failed"

\* Isolation is claimed only of a build that ran in a pinned, isolated container.
IsolationStatus(executor, ran) ==
    IF ~ran THEN "NOT_APPLICABLE"
    ELSE IF executor.backend = "docker" /\ executor.isolated /\ executor.digest THEN "PASS"
    ELSE "UNKNOWN"

=============================================================================
