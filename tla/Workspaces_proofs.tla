-------------------------- MODULE Workspaces_proofs --------------------------
(***************************************************************************)
(* Theorems about Workspaces, for any number of processes, contents and    *)
(* compilations.                                                           *)
(***************************************************************************)
EXTENDS Workspaces, TLAPS

-----------------------------------------------------------------------------
(* The inductive invariant *)

\* No two processes work on one session: mkdtemp makes a new directory.
Separate ==
    \A p, q \in Runs :
        p # q /\ run[p].session # 0 => run[p].session # run[q].session

\* The snapshots are complete from the last worktree to the end of the providers.
Complete ==
    \A p \in Runs :
        run[p].pc \in {"patch", "bound", "open", "write"} => dirs[run[p].session] = Everything

\* What is left of a session that is not excused belongs to a process that will
\* still remove it.
Owned ==
    \A s \in Sessions \ excused :
        dirs[s] # {} => \E p \in Runs : run[p].session = s /\ run[p].pc # "packet"

\* A process writes one file, a file holds its contents or a part of them that
\* somebody is writing or stopped writing, and what was returned has a file.
Stored ==
    /\ \A p \in Runs : \A d, e \in run[p].writes : d = e
    /\ \A d \in Artifacts :
          /\ blob[d] # "other"
          /\ blob[d] = "partial" => Writing(d) \/ d \in torn
          /\ d \in returned => blob[d] # "absent"

-----------------------------------------------------------------------------
(* Each part is preserved by every step *)

\* How far a compilation can be.
Progress == [pc : Steps, session : 0 .. MaxSessions, persisted : BOOLEAN, writes : SUBSET Artifacts]

\* The part of the type that is about one process.
Consistent(r, n) ==
    /\ r \in Progress
    /\ r.session \in 0 .. n
    /\ r.pc = "idle" <=> r.session = 0
    /\ (r.writes # {}) <=> (r.pc \in {"open", "write"})

\* A step of one process, with no fewer sessions, keeps the types of all of them.
LEMMA RunType ==
  ASSUME TypeOK, made' \in made .. MaxSessions, NEW p \in Runs, NEW r,
         Consistent(r, made'), run' = [run EXCEPT ![p] = r]
  PROVE  /\ run' \in [Runs -> Progress]
         /\ \A q \in Runs : Consistent(run'[q], made')
<1>1. /\ run \in [Runs -> Progress] /\ made \in Nat
      /\ \A q \in Runs : Consistent(run[q], made)
  BY WorkspaceAssumptions DEF TypeOK, Consistent, Progress
<1>2. \A q \in Runs : run'[q] = IF q = p THEN r ELSE run[q]
  BY <1>1
<1>3. ASSUME NEW q \in Runs PROVE Consistent(run[q], made')
  BY <1>1, WorkspaceAssumptions DEF Consistent
<1> QED BY <1>1, <1>2, <1>3 DEF Consistent

\* A process that is not idle works on a session that was made.
LEMMA Working ==
  ASSUME TypeOK, NEW p \in Runs, run[p].pc # "idle"
  PROVE  run[p].session \in 1 .. made /\ run[p].session \in Sessions
<1>1. run[p].session \in 0 .. made /\ run[p].session # 0 /\ made \in 0 .. MaxSessions
  BY DEF TypeOK
<1> QED BY <1>1, WorkspaceAssumptions DEF Sessions

\* The variables that are not about processes have their types.
StoreTypes ==
    /\ blob \in [Artifacts -> Files] /\ made \in 0 .. MaxSessions
    /\ dirs \in [Sessions -> SUBSET Everything] /\ packets \subseteq 1 .. made
    /\ returned \subseteq Artifacts /\ torn \subseteq Artifacts /\ excused \subseteq 1 .. made

\* Every step keeps the type of every variable.
LEMMA TypeStep ==
  ASSUME TypeOK, [Next]_vars
  PROVE  TypeOK'
<1> USE WorkspaceAssumptions DEF Files, Steps, Sessions, Everything, Idle, Goto, SetDirs
<1>1. ASSUME NEW p \in Runs, Kill(p) PROVE TypeOK'
  <2>1. /\ Consistent(Idle, made')
        /\ made' \in made .. MaxSessions
    BY <1>1 DEF Kill, TypeOK, Consistent, Progress
  <2>2. run' = [run EXCEPT ![p] = Idle]
    BY <1>1 DEF Kill, TypeOK
  <2>3. run' \in [Runs -> Progress] /\ \A q \in Runs : Consistent(run'[q], made')
    BY <2>1, <2>2, RunType
  <2>4. StoreTypes'
    BY <1>1, Working DEF Kill, TypeOK, StoreTypes
  <2> QED BY <2>3, <2>4 DEF TypeOK, StoreTypes, Consistent, Progress
<1>2. ASSUME NEW p \in Runs, Start(p) PROVE TypeOK'
  <2>0. made \in Nat /\ made' = made + 1 /\ made' \in made .. MaxSessions
        /\ made' \in 1 .. MaxSessions /\ made' \in 0 .. made'
    BY <1>2 DEF Start, TypeOK
  <2> DEFINE r == [pc |-> "base", session |-> made + 1, persisted |-> FALSE, writes |-> {}]
  <2>1. Consistent(r, made')
    BY <2>0 DEF Consistent, Progress
  <2>2. run' = [run EXCEPT ![p] = r]
    BY <1>2 DEF Start, NewSession
  <2>3. run' \in [Runs -> Progress] /\ \A q \in Runs : Consistent(run'[q], made')
    BY <2>0, <2>1, <2>2, RunType
  <2>4. StoreTypes'
    BY <1>2 DEF Start, TypeOK, StoreTypes, NewSession
  <2> QED BY <2>3, <2>4 DEF TypeOK, StoreTypes, Consistent, Progress
<1>3. ASSUME NEW p \in Runs, AddBase(p) PROVE TypeOK'
  BY <1>3 DEF AddBase, TypeOK
<1>4. ASSUME NEW p \in Runs, AddCandidate(p) PROVE TypeOK'
  BY <1>4 DEF AddCandidate, TypeOK
<1>5. ASSUME NEW p \in Runs, Bind(p) PROVE TypeOK'
  BY <1>5 DEF Bind, TypeOK
<1>6. ASSUME NEW p \in Runs, CreateFails(p) PROVE TypeOK'
  <2>1. /\ Consistent(Idle, made')
        /\ made' \in made .. MaxSessions
    BY <1>6 DEF CreateFails, TypeOK, Consistent, Progress
  <2>2. run' = [run EXCEPT ![p] = Idle]
    BY <1>6 DEF CreateFails, TypeOK
  <2>3. run' \in [Runs -> Progress] /\ \A q \in Runs : Consistent(run'[q], made')
    BY <2>1, <2>2, RunType
  <2>4. StoreTypes'
    <3>1. run[p].session \in 1 .. made /\ run[p].session \in Sessions
      BY <1>6, Working DEF CreateFails
    <3>2. dirs' \in [Sessions -> SUBSET Everything]
      BY <1>6, <3>1 DEF CreateFails, TypeOK
    <3> QED BY <1>6, <3>1, <3>2 DEF CreateFails, TypeOK, StoreTypes
  <2> QED BY <2>3, <2>4 DEF TypeOK, StoreTypes, Consistent, Progress
<1>7. ASSUME NEW p \in Runs, NEW d \in Artifacts, FindArtifact(p, d) PROVE TypeOK'
  BY <1>7 DEF FindArtifact, TypeOK
<1>8. ASSUME NEW p \in Runs, NEW d \in Artifacts, MissArtifact(p, d) PROVE TypeOK'
  BY <1>8 DEF MissArtifact, TypeOK
<1>9. ASSUME NEW p \in Runs, OpenArtifact(p) PROVE TypeOK'
  <2>1. /\ Consistent([run[p] EXCEPT !.pc = "write"], made')
        /\ made' \in made .. MaxSessions
    BY <1>9 DEF OpenArtifact, TypeOK, Consistent, Progress
  <2>2. run' = [run EXCEPT ![p] = [run[p] EXCEPT !.pc = "write"]]
    BY <1>9 DEF OpenArtifact, TypeOK
  <2>3. run' \in [Runs -> Progress] /\ \A q \in Runs : Consistent(run'[q], made')
    BY <2>1, <2>2, RunType
  <2>4. StoreTypes'
    BY <1>9, Working DEF OpenArtifact, TypeOK, StoreTypes
  <2> QED BY <2>3, <2>4 DEF TypeOK, StoreTypes, Consistent, Progress
<1>10. ASSUME NEW p \in Runs, WriteArtifact(p) PROVE TypeOK'
  <2>0. made' = made /\ made' \in made .. MaxSessions /\ run[p].pc = "write" /\ run[p] \in Progress
    BY <1>10 DEF WriteArtifact, TypeOK, Progress
  <2>1. /\ Consistent([run[p] EXCEPT !.pc = "bound", !.writes = {}], made')
        /\ made' \in made .. MaxSessions
    BY <1>10, <2>0 DEF WriteArtifact, TypeOK, Consistent, Progress, Contents
  <2>2. run' = [run EXCEPT ![p] = [run[p] EXCEPT !.pc = "bound", !.writes = {}]]
    BY <1>10 DEF WriteArtifact, TypeOK, Contents
  <2>3. run' \in [Runs -> Progress] /\ \A q \in Runs : Consistent(run'[q], made')
    BY <2>1, <2>2, RunType
  <2>4. StoreTypes'
    BY <1>10, Working DEF WriteArtifact, TypeOK, StoreTypes, Contents
  <2> QED BY <2>3, <2>4 DEF TypeOK, StoreTypes, Consistent, Progress
<1>11. ASSUME NEW p \in Runs, WriteFails(p) PROVE TypeOK'
  BY <1>11 DEF WriteFails, TypeOK
<1>12. ASSUME NEW p \in Runs, MarkPersisted(p) PROVE TypeOK'
  BY <1>12 DEF MarkPersisted, TypeOK
<1>13. ASSUME NEW p \in Runs, Raise(p) PROVE TypeOK'
  BY <1>13 DEF Raise, TypeOK
<1>14. ASSUME NEW p \in Runs, RemoveWorktree(p) PROVE TypeOK'
  BY <1>14 DEF RemoveWorktree, TypeOK
<1>15. ASSUME NEW p \in Runs, RemoveRoot(p) PROVE TypeOK'
  <2>1. /\ Consistent((IF run[p].persisted THEN [run[p] EXCEPT !.pc = "packet"] ELSE Idle), made')
        /\ made' \in made .. MaxSessions
    BY <1>15 DEF RemoveRoot, TypeOK, Consistent, Progress
  <2>2. run' = [run EXCEPT ![p] = (IF run[p].persisted THEN [run[p] EXCEPT !.pc = "packet"] ELSE Idle)]
    BY <1>15 DEF RemoveRoot, TypeOK
  <2>3. run' \in [Runs -> Progress] /\ \A q \in Runs : Consistent(run'[q], made')
    BY <2>1, <2>2, RunType
  <2>4. StoreTypes'
    BY <1>15, Working DEF RemoveRoot, TypeOK, StoreTypes
  <2> QED BY <2>3, <2>4 DEF TypeOK, StoreTypes, Consistent, Progress
<1>16. ASSUME NEW p \in Runs, WritePacket(p) PROVE TypeOK'
  <2>1. /\ Consistent(Idle, made')
        /\ made' \in made .. MaxSessions
    BY <1>16 DEF WritePacket, TypeOK, Consistent, Progress
  <2>2. run' = [run EXCEPT ![p] = Idle]
    BY <1>16 DEF WritePacket, TypeOK
  <2>3. run' \in [Runs -> Progress] /\ \A q \in Runs : Consistent(run'[q], made')
    BY <2>1, <2>2, RunType
  <2>4. StoreTypes'
    BY <1>16, Working DEF WritePacket, TypeOK, StoreTypes
  <2> QED BY <2>3, <2>4 DEF TypeOK, StoreTypes, Consistent, Progress
<1>17. CASE UNCHANGED vars
  BY <1>17 DEF vars, TypeOK
<1> QED BY <1>1, <1>2, <1>3, <1>4, <1>5, <1>6, <1>7, <1>8, <1>9,
           <1>10, <1>11, <1>12, <1>13, <1>14, <1>15, <1>16, <1>17
    DEF Next

\* Every step keeps the sessions of processes apart.
LEMMA SeparateStep ==
  ASSUME TypeOK, Separate, [Next]_vars
  PROVE  Separate'
<1> USE WorkspaceAssumptions DEF TypeOK, Sessions, Idle, Goto
<1>1. ASSUME NEW p \in Runs, Kill(p) PROVE Separate'
  BY <1>1 DEF Kill, Separate
<1>2. ASSUME NEW p \in Runs, Start(p) PROVE Separate'
  BY <1>2 DEF Start, Separate, NewSession
<1>3. ASSUME NEW p \in Runs, AddBase(p) PROVE Separate'
  BY <1>3 DEF AddBase, Separate
<1>4. ASSUME NEW p \in Runs, AddCandidate(p) PROVE Separate'
  BY <1>4 DEF AddCandidate, Separate
<1>5. ASSUME NEW p \in Runs, Bind(p) PROVE Separate'
  BY <1>5 DEF Bind, Separate
<1>6. ASSUME NEW p \in Runs, CreateFails(p) PROVE Separate'
  BY <1>6 DEF CreateFails, Separate
<1>7. ASSUME NEW p \in Runs, NEW d \in Artifacts, FindArtifact(p, d) PROVE Separate'
  BY <1>7 DEF FindArtifact, Separate
<1>8. ASSUME NEW p \in Runs, NEW d \in Artifacts, MissArtifact(p, d) PROVE Separate'
  BY <1>8 DEF MissArtifact, Separate
<1>9. ASSUME NEW p \in Runs, OpenArtifact(p) PROVE Separate'
  BY <1>9 DEF OpenArtifact, Separate
<1>10. ASSUME NEW p \in Runs, WriteArtifact(p) PROVE Separate'
  BY <1>10 DEF WriteArtifact, Separate
<1>11. ASSUME NEW p \in Runs, WriteFails(p) PROVE Separate'
  BY <1>11 DEF WriteFails, Separate
<1>12. ASSUME NEW p \in Runs, MarkPersisted(p) PROVE Separate'
  BY <1>12 DEF MarkPersisted, Separate
<1>13. ASSUME NEW p \in Runs, Raise(p) PROVE Separate'
  BY <1>13 DEF Raise, Separate
<1>14. ASSUME NEW p \in Runs, RemoveWorktree(p) PROVE Separate'
  BY <1>14 DEF RemoveWorktree, Separate
<1>15. ASSUME NEW p \in Runs, RemoveRoot(p) PROVE Separate'
  BY <1>15 DEF RemoveRoot, Separate
<1>16. ASSUME NEW p \in Runs, WritePacket(p) PROVE Separate'
  BY <1>16 DEF WritePacket, Separate
<1>17. CASE UNCHANGED vars
  BY <1>17 DEF vars, Separate
<1> QED BY <1>1, <1>2, <1>3, <1>4, <1>5, <1>6, <1>7, <1>8, <1>9,
           <1>10, <1>11, <1>12, <1>13, <1>14, <1>15, <1>16, <1>17
    DEF Next

\* Every step keeps the snapshots that are in use.
LEMMA CompleteStep ==
  ASSUME TypeOK, Separate, Complete, [Next]_vars
  PROVE  Complete'
<1> USE WorkspaceAssumptions DEF TypeOK, Separate, Sessions, Steps, Idle, Goto, SetDirs
<1>1. ASSUME NEW p \in Runs, Kill(p) PROVE Complete'
  BY <1>1 DEF Kill, Complete
<1>2. ASSUME NEW p \in Runs, Start(p) PROVE Complete'
  BY <1>2 DEF Start, Complete, NewSession
<1>3. ASSUME NEW p \in Runs, AddBase(p) PROVE Complete'
  BY <1>3 DEF AddBase, Complete
<1>4. ASSUME NEW p \in Runs, AddCandidate(p) PROVE Complete'
  BY <1>4 DEF AddCandidate, Complete
<1>5. ASSUME NEW p \in Runs, Bind(p) PROVE Complete'
  BY <1>5 DEF Bind, Complete
<1>6. ASSUME NEW p \in Runs, CreateFails(p) PROVE Complete'
  BY <1>6 DEF CreateFails, Complete
<1>7. ASSUME NEW p \in Runs, NEW d \in Artifacts, FindArtifact(p, d) PROVE Complete'
  BY <1>7 DEF FindArtifact, Complete
<1>8. ASSUME NEW p \in Runs, NEW d \in Artifacts, MissArtifact(p, d) PROVE Complete'
  BY <1>8 DEF MissArtifact, Complete
<1>9. ASSUME NEW p \in Runs, OpenArtifact(p) PROVE Complete'
  BY <1>9 DEF OpenArtifact, Complete
<1>10. ASSUME NEW p \in Runs, WriteArtifact(p) PROVE Complete'
  BY <1>10 DEF WriteArtifact, Complete
<1>11. ASSUME NEW p \in Runs, WriteFails(p) PROVE Complete'
  BY <1>11 DEF WriteFails, Complete
<1>12. ASSUME NEW p \in Runs, MarkPersisted(p) PROVE Complete'
  BY <1>12 DEF MarkPersisted, Complete
<1>13. ASSUME NEW p \in Runs, Raise(p) PROVE Complete'
  BY <1>13 DEF Raise, Complete
<1>14. ASSUME NEW p \in Runs, RemoveWorktree(p) PROVE Complete'
  BY <1>14 DEF RemoveWorktree, Complete
<1>15. ASSUME NEW p \in Runs, RemoveRoot(p) PROVE Complete'
  BY <1>15 DEF RemoveRoot, Complete
<1>16. ASSUME NEW p \in Runs, WritePacket(p) PROVE Complete'
  BY <1>16 DEF WritePacket, Complete
<1>17. CASE UNCHANGED vars
  BY <1>17 DEF vars, Complete
<1> QED BY <1>1, <1>2, <1>3, <1>4, <1>5, <1>6, <1>7, <1>8, <1>9,
           <1>10, <1>11, <1>12, <1>13, <1>14, <1>15, <1>16, <1>17
    DEF Next

\* While the directories stay, a process that goes on with its session still owns it.
LEMMA OwnerStays ==
  ASSUME Owned, dirs' = dirs, excused' = excused,
         \A q \in Runs : /\ run'[q].session = run[q].session
                         /\ run[q].pc # "packet" => run'[q].pc # "packet"
  PROVE  Owned'
  BY DEF Owned, Sessions

\* Every step that leaves a session to nobody empties it or excuses it.
LEMMA OwnedStep ==
  ASSUME TypeOK, Separate, Owned, [Next]_vars
  PROVE  Owned'
<1> USE WorkspaceAssumptions DEF TypeOK, Separate, Sessions, Steps, Idle, Goto, SetDirs
<1>1. ASSUME NEW p \in Runs, Kill(p) PROVE Owned'
  BY <1>1 DEF Kill, Owned
<1>2. ASSUME NEW p \in Runs, Start(p) PROVE Owned'
  BY <1>2 DEF Start, Owned, NewSession
<1>3. ASSUME NEW p \in Runs, AddBase(p) PROVE Owned'
  BY <1>3 DEF AddBase, Owned
<1>4. ASSUME NEW p \in Runs, AddCandidate(p) PROVE Owned'
  BY <1>4 DEF AddCandidate, Owned
<1>5. ASSUME NEW p \in Runs, Bind(p) PROVE Owned'
  <2>1. \A q \in Runs : /\ run'[q].session = run[q].session
                       /\ run[q].pc # "packet" => run'[q].pc # "packet"
    BY <1>5 DEF Bind
  <2> QED BY <1>5, <2>1, OwnerStays DEF Bind
<1>6. ASSUME NEW p \in Runs, CreateFails(p) PROVE Owned'
  BY <1>6 DEF CreateFails, Owned
<1>7. ASSUME NEW p \in Runs, NEW d \in Artifacts, FindArtifact(p, d) PROVE Owned'
  BY <1>7 DEF FindArtifact, Owned
<1>8. ASSUME NEW p \in Runs, NEW d \in Artifacts, MissArtifact(p, d) PROVE Owned'
  <2>1. \A q \in Runs : /\ run'[q].session = run[q].session
                       /\ run[q].pc # "packet" => run'[q].pc # "packet"
    BY <1>8 DEF MissArtifact
  <2> QED BY <1>8, <2>1, OwnerStays DEF MissArtifact
<1>9. ASSUME NEW p \in Runs, OpenArtifact(p) PROVE Owned'
  BY <1>9 DEF OpenArtifact, Owned
<1>10. ASSUME NEW p \in Runs, WriteArtifact(p) PROVE Owned'
  BY <1>10 DEF WriteArtifact, Owned
<1>11. ASSUME NEW p \in Runs, WriteFails(p) PROVE Owned'
  BY <1>11 DEF WriteFails, Owned
<1>12. ASSUME NEW p \in Runs, MarkPersisted(p) PROVE Owned'
  <2>1. \A q \in Runs : /\ run'[q].session = run[q].session
                       /\ run[q].pc # "packet" => run'[q].pc # "packet"
    BY <1>12 DEF MarkPersisted
  <2> QED BY <1>12, <2>1, OwnerStays DEF MarkPersisted
<1>13. ASSUME NEW p \in Runs, Raise(p) PROVE Owned'
  <2>1. \A q \in Runs : /\ run'[q].session = run[q].session
                       /\ run[q].pc # "packet" => run'[q].pc # "packet"
    BY <1>13 DEF Raise
  <2> QED BY <1>13, <2>1, OwnerStays DEF Raise
<1>14. ASSUME NEW p \in Runs, RemoveWorktree(p) PROVE Owned'
  BY <1>14 DEF RemoveWorktree, Owned
<1>15. ASSUME NEW p \in Runs, RemoveRoot(p) PROVE Owned'
  BY <1>15 DEF RemoveRoot, Owned
<1>16. ASSUME NEW p \in Runs, WritePacket(p) PROVE Owned'
  BY <1>16 DEF WritePacket, Owned
<1>17. CASE UNCHANGED vars
  BY <1>17 DEF vars, Owned
<1> QED BY <1>1, <1>2, <1>3, <1>4, <1>5, <1>6, <1>7, <1>8, <1>9,
           <1>10, <1>11, <1>12, <1>13, <1>14, <1>15, <1>16, <1>17
    DEF Next

\* Every step keeps the files of what was returned.
LEMMA StoredStep ==
  ASSUME TypeOK, Stored, [Next]_vars
  PROVE  Stored'
<1> USE WorkspaceAssumptions DEF TypeOK, Writing, Files, Steps, Idle, Goto
<1>1. ASSUME NEW p \in Runs, Kill(p) PROVE Stored'
  BY <1>1 DEF Kill, Stored
<1>2. ASSUME NEW p \in Runs, Start(p) PROVE Stored'
  BY <1>2 DEF Start, Stored
<1>3. ASSUME NEW p \in Runs, AddBase(p) PROVE Stored'
  BY <1>3 DEF AddBase, Stored
<1>4. ASSUME NEW p \in Runs, AddCandidate(p) PROVE Stored'
  BY <1>4 DEF AddCandidate, Stored
<1>5. ASSUME NEW p \in Runs, Bind(p) PROVE Stored'
  BY <1>5 DEF Bind, Stored
<1>6. ASSUME NEW p \in Runs, CreateFails(p) PROVE Stored'
  BY <1>6 DEF CreateFails, Stored
<1>7. ASSUME NEW p \in Runs, NEW d \in Artifacts, FindArtifact(p, d) PROVE Stored'
  BY <1>7 DEF FindArtifact, Stored
<1>8. ASSUME NEW p \in Runs, NEW d \in Artifacts, MissArtifact(p, d) PROVE Stored'
  BY <1>8 DEF MissArtifact, Stored
<1>9. ASSUME NEW p \in Runs, OpenArtifact(p) PROVE Stored'
  BY <1>9 DEF OpenArtifact, Stored
<1>10. ASSUME NEW p \in Runs, WriteArtifact(p) PROVE Stored'
  BY <1>10 DEF WriteArtifact, Stored, Contents
<1>11. ASSUME NEW p \in Runs, WriteFails(p) PROVE Stored'
  BY <1>11 DEF WriteFails, Stored
<1>12. ASSUME NEW p \in Runs, MarkPersisted(p) PROVE Stored'
  BY <1>12 DEF MarkPersisted, Stored
<1>13. ASSUME NEW p \in Runs, Raise(p) PROVE Stored'
  BY <1>13 DEF Raise, Stored
<1>14. ASSUME NEW p \in Runs, RemoveWorktree(p) PROVE Stored'
  BY <1>14 DEF RemoveWorktree, Stored
<1>15. ASSUME NEW p \in Runs, RemoveRoot(p) PROVE Stored'
  BY <1>15 DEF RemoveRoot, Stored
<1>16. ASSUME NEW p \in Runs, WritePacket(p) PROVE Stored'
  BY <1>16 DEF WritePacket, Stored
<1>17. CASE UNCHANGED vars
  BY <1>17 DEF vars, Stored
<1> QED BY <1>1, <1>2, <1>3, <1>4, <1>5, <1>6, <1>7, <1>8, <1>9,
           <1>10, <1>11, <1>12, <1>13, <1>14, <1>15, <1>16, <1>17
    DEF Next

-----------------------------------------------------------------------------
(* The theorems *)

Inv == TypeOK /\ Separate /\ Complete /\ Owned /\ Stored

\* The initial state satisfies every part.
LEMMA InitInv == Init => Inv
  BY WorkspaceAssumptions
  DEF Init, Inv, TypeOK, Separate, Complete, Owned, Stored, Files, Steps, Sessions,
      Everything, Idle, Writing

\* The parts together are inductive.
LEMMA InvAlways == Spec => []Inv
<1>1. Inv /\ [Next]_vars => Inv'
  BY TypeStep, SeparateStep, CompleteStep, OwnedStep, StoredStep DEF Inv
<1> QED BY <1>1, InitInv, PTL DEF Spec

\* Every variable of the workspaces and the artifact store keeps its type.
THEOREM WorkspaceTypeCorrect == Spec => []TypeOK
<1>1. Inv => TypeOK BY DEF Inv
<1> QED BY <1>1, InvAlways, PTL

\* However many compilations of a repository run at once, and whichever of them
\* clean up, fail or are killed, the snapshots of one that runs its providers are
\* complete (cleanup_snapshot_pair removes only its own session).
THEOREM SnapshotsAlwaysLast == Spec => []SnapshotsLast
<1>1. Inv => SnapshotsLast BY DEF Inv, Complete, SnapshotsLast
<1> QED BY <1>1, InvAlways, PTL

\* A session nobody works on is gone, unless its process was killed, its creation
\* failed or its removal did: every other way out of compile_evidence cleans up.
THEOREM SessionsAreRemoved == Spec => []OnlyExcusedSessionsStay
<1>1. Inv => OnlyExcusedSessionsStay
  BY DEF Inv, Owned, OnlyExcusedSessionsStay
<1> QED BY <1>1, InvAlways, PTL

\* A reference that put_bytes returned verifies, whoever else stores the same
\* contents, but while a writer has the file open and after one stopped half-way.
THEOREM ReferencesAlwaysVerify == Spec => []ReferencesVerify
<1>1. Inv => ReferencesVerify
  <2> SUFFICES ASSUME Inv, NEW d \in returned \ torn, ~Writing(d) PROVE blob[d] = "whole"
    BY DEF ReferencesVerify
  <2>1. d \in Artifacts /\ blob[d] \in Files
    BY DEF Inv, TypeOK
  <2> QED BY <2>1 DEF Inv, Stored, Files
<1> QED BY <1>1, InvAlways, PTL

=============================================================================
