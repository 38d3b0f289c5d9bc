------------------------------- MODULE Workspaces -------------------------------
(***************************************************************************)
(* Evaluation workspaces and the content-addressed artifact store          *)
(* (src/lpe/workspace/), as compile_evidence drives them, with several     *)
(* compilations of one repository at once, failures and killed processes.  *)
(*                                                                         *)
(* Every compilation makes two snapshots of the repository in a directory  *)
(* of its own, runs its providers on them, stores artifacts under the      *)
(* digest of their contents, and removes the snapshots.  The store is      *)
(* shared: all compilations write below the repository.                    *)
(***************************************************************************)
EXTENDS Naturals, FiniteSets

CONSTANTS
    Runs,           \* processes that run `lpe compile`
    Artifacts,      \* contents of artifacts; a content stands for its digest
    MaxSessions     \* bound on the compilations started, for model checking

ASSUME WorkspaceAssumptions == MaxSessions \in Nat

VARIABLES
    blob,       \* per digest, what its file holds
    made,       \* sessions made so far, numbered from 1
    dirs,       \* per session, what is left of its directories
    packets,    \* sessions whose packet is written
    run,        \* per process, how far compile_evidence is
    returned,   \* history: digests some put_bytes has returned a reference to
    torn,       \* history: digests whose writer failed or was killed writing
    excused     \* history: sessions whose removal the code does not attempt or finish

vars == <<blob, made, dirs, packets, run, returned, torn, excused>>

Sessions == 1 .. MaxSessions

\* A session root with the two snapshots in it.
Everything == {"root", "base", "candidate"}

Idle == [pc |-> "idle", session |-> 0, persisted |-> FALSE, writes |-> {}]

Goto(p, pc) == run' = [run EXCEPT ![p].pc = pc]

SetDirs(p, left) == dirs' = [dirs EXCEPT ![run[p].session] = left]

Init ==
    /\ blob = [d \in Artifacts |-> "absent"]
    /\ made = 0
    /\ dirs = [s \in Sessions |-> {}]
    /\ packets = {}
    /\ run = [p \in Runs |-> Idle]
    /\ returned = {} /\ torn = {} /\ excused = {}

-----------------------------------------------------------------------------
(* create_snapshot_pair and EvaluationWorkspaceManager.create *)

\* Faulty variant of NewSession: the directory of the compilation before.
PriorSession(n) == n

\* Faulty variant of NewSession: one directory for every compilation.
FixedSession(n) == 1

\* tempfile.mkdtemp makes a directory nobody else has.
NewSession(n) == n + 1

Start(p) ==
    /\ run[p].pc = "idle"
    /\ made < MaxSessions
    /\ made' = made + 1
    /\ run' = [run EXCEPT ![p] = [pc |-> "base", session |-> NewSession(made),
                                  persisted |-> FALSE, writes |-> {}]]
    /\ dirs' = [dirs EXCEPT ![NewSession(made)] = {"root"}]
    /\ UNCHANGED <<blob, packets, returned, torn, excused>>

AddBase(p) ==
    /\ run[p].pc = "base"
    /\ SetDirs(p, {"root", "base"})
    /\ Goto(p, "candidate")
    /\ UNCHANGED <<blob, made, packets, returned, torn, excused>>

AddCandidate(p) ==
    /\ run[p].pc = "candidate"
    /\ SetDirs(p, Everything)
    /\ Goto(p, "patch")
    /\ UNCHANGED <<blob, made, packets, returned, torn, excused>>

\* Patch applied and committed, trees hashed, cleanup token made.
Bind(p) ==
    /\ run[p].pc = "patch"
    /\ Goto(p, "bound")
    /\ UNCHANGED <<blob, made, dirs, packets, returned, torn, excused>>

\* An error before the workspace exists: nothing is cleaned but the worktrees the
\* function removes itself, when the head does not resolve or no patch is given.
CreateFails(p) ==
    /\ run[p].pc \in {"base", "candidate", "patch"}
    /\ \/ SetDirs(p, dirs[run[p].session])
       \/ run[p].pc # "base" /\ SetDirs(p, {"root"})
    /\ run' = [run EXCEPT ![p] = Idle]
    /\ excused' = excused \cup {run[p].session}
    /\ UNCHANGED <<blob, made, packets, returned, torn>>

-----------------------------------------------------------------------------
(* ContentAddressedArtifactStore.put_bytes, while the providers run *)

\* dest.exists(): a stored digest is not written again.
FindArtifact(p, d) ==
    /\ run[p].pc = "bound"
    /\ blob[d] # "absent"
    /\ returned' = returned \cup {d}
    /\ UNCHANGED <<blob, made, dirs, packets, run, torn, excused>>

MissArtifact(p, d) ==
    /\ run[p].pc = "bound"
    /\ blob[d] = "absent"
    /\ run' = [run EXCEPT ![p].pc = "open", ![p].writes = {d}]
    /\ UNCHANGED <<blob, made, dirs, packets, returned, torn, excused>>

\* write_bytes opens the file, which empties it, ...
OpenArtifact(p) ==
    \E d \in run[p].writes :
        /\ run[p].pc = "open"
        /\ blob' = [blob EXCEPT ![d] = "partial"]
        /\ Goto(p, "write")
        /\ UNCHANGED <<made, dirs, packets, returned, torn, excused>>

\* Faulty variant of Contents: what was given is written, not what was redacted.
UnredactedContents(d) == "other"

\* The payload the digest was taken of.
Contents(d) == "whole"

\* ... and writes it.  Writers of a digest write the same contents.
WriteArtifact(p) ==
    \E d \in run[p].writes :
        /\ run[p].pc = "write"
        /\ blob' = [blob EXCEPT ![d] = Contents(d)]
        /\ returned' = returned \cup {d}
        /\ run' = [run EXCEPT ![p].pc = "bound", ![p].writes = {}]
        /\ UNCHANGED <<made, dirs, packets, torn, excused>>

\* The disk is full or the device fails: the error ends the compilation, and the
\* file keeps what was written of it.
WriteFails(p) ==
    /\ run[p].pc = "write"
    /\ torn' = torn \cup run[p].writes
    /\ run' = [run EXCEPT ![p].pc = "clean", ![p].writes = {}]
    /\ UNCHANGED <<blob, made, dirs, packets, returned, excused>>

-----------------------------------------------------------------------------
(* The end of compile_evidence *)

\* The packet is assembled, in memory: mark_persisted.
MarkPersisted(p) ==
    /\ run[p].pc = "bound"
    /\ run' = [run EXCEPT ![p].pc = "clean", ![p].persisted = TRUE]
    /\ UNCHANGED <<blob, made, dirs, packets, returned, torn, excused>>

\* Faulty variant of Raise: cleanup is not forced, so it refuses.
RaiseUnforced(p) ==
    /\ run[p].pc = "bound"
    /\ run' = [run EXCEPT ![p] = Idle]
    /\ UNCHANGED <<blob, made, dirs, packets, returned, torn, excused>>

\* A provider fails or the packet is too large: cleanup(force=True).
Raise(p) ==
    /\ run[p].pc = "bound"
    /\ Goto(p, "clean")
    /\ UNCHANGED <<blob, made, dirs, packets, returned, torn, excused>>

\* cleanup_snapshot_pair, one directory after the other.
RemoveWorktree(p) ==
    /\ run[p].pc = "clean"
    /\ \E w \in dirs[run[p].session] \ {"root"} : SetDirs(p, dirs[run[p].session] \ {w})
    /\ UNCHANGED <<blob, made, packets, run, returned, torn, excused>>

\* rmtree(session_root, ignore_errors=True) removes what is left, or not all of it.
\* The token says cleaned either way, so the second pass does nothing.
RemoveRoot(p) ==
    /\ run[p].pc = "clean"
    /\ \/ SetDirs(p, {}) /\ UNCHANGED excused
       \/ UNCHANGED dirs /\ excused' = excused \cup {run[p].session}
    /\ run' = [run EXCEPT ![p] = IF @.persisted THEN [@ EXCEPT !.pc = "packet"] ELSE Idle]
    /\ UNCHANGED <<blob, made, packets, returned, torn>>

\* The command writes the packet that compile_evidence returned.
WritePacket(p) ==
    /\ run[p].pc = "packet"
    /\ packets' = packets \cup {run[p].session}
    /\ run' = [run EXCEPT ![p] = Idle]
    /\ UNCHANGED <<blob, made, dirs, returned, torn, excused>>

\* The process is killed.
Kill(p) ==
    /\ run[p].pc # "idle"
    /\ torn' = IF run[p].pc = "write" THEN torn \cup run[p].writes ELSE torn
    /\ excused' = excused \cup {run[p].session}
    /\ run' = [run EXCEPT ![p] = Idle]
    /\ UNCHANGED <<blob, made, dirs, packets, returned>>

-----------------------------------------------------------------------------

Next ==
    \E p \in Runs :
        \/ Kill(p)
        \/ Start(p) \/ AddBase(p) \/ AddCandidate(p) \/ Bind(p) \/ CreateFails(p)
        \/ \E d \in Artifacts : FindArtifact(p, d) \/ MissArtifact(p, d)
        \/ OpenArtifact(p) \/ WriteArtifact(p) \/ WriteFails(p)
        \/ MarkPersisted(p) \/ Raise(p)
        \/ RemoveWorktree(p) \/ RemoveRoot(p) \/ WritePacket(p)

Spec == Init /\ [][Next]_vars

-----------------------------------------------------------------------------
(* Properties *)

\* The file of a digest may hold other contents than the digest's.
Files == {"absent", "partial", "whole", "other"}

\* The steps of a compilation, in order.
Steps == {"idle", "base", "candidate", "patch", "bound", "open", "write", "clean", "packet"}

\* A process works on a session that was made, and writes one artifact at a time.
TypeOK ==
    /\ blob \in [Artifacts -> Files]
    /\ made \in 0 .. MaxSessions
    /\ dirs \in [Sessions -> SUBSET Everything]
    /\ packets \subseteq 1 .. made
    /\ run \in [Runs -> [pc : Steps, session : 0 .. MaxSessions,
                         persisted : BOOLEAN, writes : SUBSET Artifacts]]
    /\ \A p \in Runs :
          /\ run[p].session \in 0 .. made
          /\ run[p].pc = "idle" <=> run[p].session = 0
          /\ (run[p].writes # {}) <=> (run[p].pc \in {"open", "write"})
    /\ returned \subseteq Artifacts /\ torn \subseteq Artifacts /\ excused \subseteq 1 .. made

Writing(d) == \E p \in Runs : run[p].pc = "write" /\ d \in run[p].writes

\* A reference that put_bytes returned verifies, whichever compilations stored the
\* same contents at the same time: but for the moment in which another writer has
\* emptied the file, and for a writer that failed or was killed in that moment.
ReferencesVerify == \A d \in returned \ torn : Writing(d) \/ blob[d] = "whole"

\* Both snapshots are there while providers run, whatever other compilations
\* clean up.
SnapshotsLast ==
    \A p \in Runs : run[p].pc \in {"bound", "open", "write"} => dirs[run[p].session] = Everything

\* A session that no process works on any more is gone, unless its process was
\* killed, its creation failed, or the removal itself did.
OnlyExcusedSessionsStay ==
    \A s \in Sessions \ excused :
        (\A p \in Runs : run[p].session # s) => dirs[s] = {}

=============================================================================
