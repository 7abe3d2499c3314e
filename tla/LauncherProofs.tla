--------------------------- MODULE LauncherProofs ---------------------------
(***************************************************************************)
(* Proofs that the launcher kills nothing but recorded processes and what  *)
(* they left, and that sessions which follow each other leave none behind, *)
(* for any number of commands, sessions, reused pids and failures.         *)
(*                                                                         *)
(* What a task terminates it has read in the runtime file; what the file   *)
(* names was spawned by a launcher that spawns nothing any more, or is the *)
(* child of a stranger that has the pid of such a process.                 *)
(***************************************************************************)
EXTENDS Launcher, FiniteSetTheorems, TLAPS

USE LauncherAssumption

Terminating == {"upgrade", "worker", "worker2", "web", "web2", "rm"}
Past == {"waiting", "ready", "failing", "gone"}
Labels == Rest \cup Terminating \cup Past \cup {"clear", "prepared", "spawned", "identified"}

\* What a runtime file may record of a session: its web server and its worker, or what was
\* adopted in the place of one that is dead or was missed by a look-up: a child, one of two
\* only when the other one is dead, or the child of a stranger with its pid.
RecordedAs(p, l, role, guest, children, live, taken, gone) ==
    /\ \E r \in {role, guest} \cup children : p = Of(l, r)
    /\ p # Of(l, role) => Of(l, role) \notin live \ gone
    /\ p = Of(l, guest) => Windows /\ Of(l, role) \in taken
Recorded(f, sessions, live, taken, gone) ==
    LET l == f.launcher.launcher
    IN /\ f \in FileType /\ l \in sessions /\ f.launcher.role = "launcher"
       /\ RecordedAs(f.web, l, "web", "webguest", {"server"}, live, taken, gone)
       /\ RecordedAs(f.worker, l, "worker", "workerguest", {"inner", "other"}, live, taken, gone)
       /\ f.worker = Of(l, "other") => ~({Of(l, "worker"), Of(l, "inner")} \subseteq live)

\* The file, and what tasks have read of it; a task that terminates has read it.
FileRecorded == file # NoFile => Recorded(file, recorded, alive, reused, lost)
SavedRecorded ==
    \A t \in Tasks : saved[t] # NoFile \/ pc[t] \in Terminating =>
        Recorded(saved[t], recorded, alive, reused, lost)

\* A launcher that has recorded its session spawns no session again.
PastStart == \A l \in recorded : pc[Start(l)] \in Past

\* A stranger has the pid of a process that was recorded and is dead.
ReusedPast ==
    \A p \in reused :
        /\ p.launcher \in recorded
        /\ p.role = "other" =>
              ~({Of(p.launcher, "worker"), Of(p.launcher, "inner")} \subseteq alive)

\* A stranger's child has been started when the stranger took the pid.
GuestsHosted ==
    \A l \in Launchers :
        /\ Of(l, "webguest") \in alive \cup reused => Windows /\ Of(l, "web") \in reused
        /\ Of(l, "workerguest") \in alive \cup reused => Windows /\ Of(l, "worker") \in reused

\* What listens is a web server.
PortWeb == port \in {Of(l, role) : l \in Launchers, role \in {"web", "server"}} \cup {NoProcess}

Inv ==
    /\ TypeOK /\ FileRecorded /\ SavedRecorded /\ PastStart
    /\ ReusedPast /\ GuestsHosted /\ PortWeb

-----------------------------------------------------------------------------
(***************************************************************************)
(* Names.                                                                  *)
(***************************************************************************)

\* A process is named by its launcher and its role.
LEMMA Names ==
  /\ \A l \in Launchers, role \in Roles : Of(l, role) \in Processes
  /\ \A l, role : Of(l, role).launcher = l /\ Of(l, role).role = role
  /\ \A p \in Processes : p.launcher \in Launchers /\ p.role \in Roles /\ p = Of(p.launcher, p.role)
BY DEF Of, Processes

\* The start command of a launcher is a task of its own.
LEMMA TaskNames ==
  /\ \A l \in Launchers : Start(l) \in Tasks /\ Shutdown(l) \in Tasks /\ OnExit(l) \in Tasks
  /\ \A t \in Tasks : t[1] = "start" => t[2] \in Launchers /\ t = Start(t[2])
  /\ \A t \in Tasks : t[1] = "shutdown" => t[2] \in Launchers /\ t = Shutdown(t[2])
  /\ \A t \in Tasks : t[1] # "stop" => t[2] \in Launchers
  /\ \A l, m : Start(l) = Start(m) => l = m
  /\ \A l, m : Start(l) # Shutdown(m) /\ Start(l) # OnExit(m)
<1> USE DEF Start, Shutdown, OnExit, TasksOf, StopTasks
<1>1. \A l \in Launchers : Start(l) \in Tasks /\ Shutdown(l) \in Tasks /\ OnExit(l) \in Tasks
  <2> SUFFICES ASSUME NEW l \in Launchers PROVE TasksOf(l) \subseteq Tasks
    OBVIOUS
  <2> HIDE DEF TasksOf
  <2> QED
    BY DEF Tasks
<1>2. ASSUME NEW t \in Tasks
      PROVE  /\ t[1] = "start" => t[2] \in Launchers /\ t = Start(t[2])
             /\ t[1] = "shutdown" => t[2] \in Launchers /\ t = Shutdown(t[2])
             /\ t[1] # "stop" => t[2] \in Launchers
  <2>1. CASE t \in StopTasks
    BY <2>1
  <2>2. ASSUME NEW l \in Launchers, t \in TasksOf(l)
        PROVE  /\ t[1] = "start" => t[2] \in Launchers /\ t = Start(t[2])
               /\ t[1] = "shutdown" => t[2] \in Launchers /\ t = Shutdown(t[2])
               /\ t[1] # "stop" => t[2] \in Launchers
    BY <2>2
  <2>3. t \in StopTasks \/ \E l \in Launchers : t \in TasksOf(l)
    <3> HIDE DEF TasksOf, StopTasks, Start, Shutdown, OnExit
    <3> QED
      BY DEF Tasks
  <2> QED
    BY <2>1, <2>2, <2>3
<1> QED
  BY <1>1, <1>2

\* What is adopted stays so while its process does not come back.
LEMMA RecordedAsKept ==
  ASSUME NEW p, NEW l, NEW role, NEW guest, NEW children,
         NEW L, NEW M, NEW R, NEW Q, NEW G, NEW H,
         RecordedAs(p, l, role, guest, children, L, R, G),
         Of(l, role) \in M => Of(l, role) \in L, Windows => R \subseteq Q, G \subseteq H
  PROVE  RecordedAs(p, l, role, guest, children, M, Q, H)
BY DEF RecordedAs

\* A record stays one while no process of a recorded session is spawned.
LEMMA RecordedKept ==
  ASSUME NEW f, NEW S, NEW T, NEW L, NEW M, NEW R, NEW Q, NEW G, NEW H,
         Recorded(f, S, L, R, G), S \subseteq T, Windows => R \subseteq Q, G \subseteq H,
         \A l \in S, role \in {"web", "worker", "inner"} : Of(l, role) \in M => Of(l, role) \in L
  PROVE  Recorded(f, T, M, Q, H)
<1> DEFINE l == f.launcher.launcher
<1>1. l \in S /\ l \in T
  BY DEF Recorded
<1>2. RecordedAs(f.web, l, "web", "webguest", {"server"}, M, Q, H)
  BY <1>1, RecordedAsKept DEF Recorded
<1>3. RecordedAs(f.worker, l, "worker", "workerguest", {"inner", "other"}, M, Q, H)
  BY <1>1, RecordedAsKept DEF Recorded
<1>4. f.worker = Of(l, "other") => ~({Of(l, "worker"), Of(l, "inner")} \subseteq M)
  BY <1>1 DEF Recorded
<1> QED
  BY <1>1, <1>2, <1>3, <1>4 DEF Recorded

\* The processes of a record are processes of recorded sessions.
LEMMA RecordNames ==
  ASSUME NEW f, NEW S, NEW L, NEW R, NEW G, Recorded(f, S, L, R, G)
  PROVE  /\ f.launcher \in Processes /\ f.web \in Processes /\ f.worker \in Processes
         /\ \A p \in {f.launcher, f.web, f.worker} :
              /\ p.launcher = f.launcher.launcher /\ p.launcher \in S /\ p.role # "stray"
              /\ p.role = "other" => ~({Of(p.launcher, "worker"), Of(p.launcher, "inner")} \subseteq L)
              /\ p.role = "webguest" => Windows /\ Of(p.launcher, "web") \in R
              /\ p.role = "workerguest" => Windows /\ Of(p.launcher, "worker") \in R
         /\ f.web.role # "launcher" /\ f.worker.role # "launcher"
<1> DEFINE l == f.launcher.launcher
<1>1. f.launcher \in Processes /\ f.web \in Processes /\ f.worker \in Processes
  BY DEF Recorded, FileType
<1>2. l \in S /\ f.launcher = Of(l, "launcher")
  BY <1>1, Names DEF Recorded
<1>3. /\ \E role \in {"web", "webguest", "server"} : f.web = Of(l, role)
      /\ f.web = Of(l, "webguest") => Windows /\ Of(l, "web") \in R
  BY DEF Recorded, RecordedAs
<1>4. /\ \E role \in {"worker", "workerguest", "inner", "other"} : f.worker = Of(l, role)
      /\ f.worker = Of(l, "workerguest") => Windows /\ Of(l, "worker") \in R
      /\ f.worker = Of(l, "other") => ~({Of(l, "worker"), Of(l, "inner")} \subseteq L)
  BY DEF Recorded, RecordedAs
<1> HIDE DEF l
<1>5. /\ f.web.launcher = l /\ f.web.role \in {"web", "webguest", "server"}
      /\ f.web = Of(l, f.web.role)
  BY <1>3, Names
<1>6. /\ f.worker.launcher = l /\ f.worker.role \in {"worker", "workerguest", "inner", "other"}
      /\ f.worker = Of(l, f.worker.role)
  BY <1>4, Names
<1>7. f.launcher.launcher = l /\ f.launcher.role = "launcher"
  BY <1>2, Names
<1> QED
  BY <1>1, <1>2, <1>3, <1>4, <1>5, <1>6, <1>7

-----------------------------------------------------------------------------
(***************************************************************************)
(* Processes end.                                                          *)
(***************************************************************************)

\* No process starts, no pid is reused, and what listened may have ended; a process may be
\* missed.
Ends ==
    /\ alive' \subseteq alive /\ reused' \subseteq reused
    /\ Windows => reused' = reused
    /\ port' \in {port, NoProcess} /\ port' \in alive' \cup {NoProcess}
    /\ heard' \in [Launchers -> BOOLEAN]
    /\ lost \subseteq lost' /\ lost' \subseteq Processes /\ faults' \in 0 .. MaxFaults

\* A number of failures is one within the bound.
LEMMA FailsTyped ==
  ASSUME TypeOK, NEW n \in Nat, Fails(n)
  PROVE  faults' \in 0 .. MaxFaults
BY DEF TypeOK, Fails

\* Three look-ups at most fail in a step.
LEMMA MissedFinite ==
  ASSUME NEW a, NEW b, NEW c, NEW missed \in SUBSET {a, b, c}
  PROVE  Cardinality(missed) \in Nat
<1>1. IsFiniteSet({a}) /\ IsFiniteSet({a} \cup {b}) /\ IsFiniteSet({a} \cup {b} \cup {c})
  BY FS_Singleton, FS_AddElement
<1> QED
  BY <1>1, FS_Subset, FS_CardinalityType

\* What the end of some processes changes.
LEMMA EndEnds ==
  ASSUME TypeOK, NEW ended, NEW how, End(ended, how), reused' = reused,
         lost \subseteq lost', lost' \subseteq Processes, faults' \in 0 .. MaxFaults
  PROVE  Ends
<1>1. heard' \in [Launchers -> BOOLEAN]
  BY DEF TypeOK, End, Hear
<1>2. alive' \subseteq alive /\ port' \in {port, NoProcess} /\ port' \in alive' \cup {NoProcess}
  BY DEF TypeOK, End
<1> QED
  BY <1>1, <1>2 DEF Ends

\* A kill ends processes, and strangers only where start times are not compared.
LEMMA KillEnds ==
  ASSUME TypeOK, NEW p, Matches(p), Kill(p)
  PROVE  Ends
<1>1. UNCHANGED failures /\ lost \subseteq Processes /\ faults \in 0 .. MaxFaults
  BY DEF Kill, TypeOK
<1>2. CASE p \in alive
  <2>1. End(Tree(p), "failed") /\ reused' = reused
    BY <1>2 DEF Kill
  <2> QED
    BY <1>1, <2>1, EndEnds DEF failures
<1>3. CASE p \notin alive
  <2>1. UNCHANGED <<alive, port, heard>> /\ ~Windows /\ reused' \subseteq reused
    BY <1>3 DEF Kill, Matches
  <2> QED
    BY <1>1, <2>1 DEF Ends, TypeOK, failures
<1> QED
  BY <1>2, <1>3

\* The end of a launcher ends the tasks that run in it.
LEMMA LauncherGone ==
  ASSUME TypeOK, PortWeb, NEW l \in Launchers, LauncherEnds(l),
         UNCHANGED <<reused, port, failures>>
  PROVE  /\ Ends
         /\ pc' \in [Tasks -> Labels] /\ saved' \in [Tasks -> FileType \cup {NoFile}]
         /\ \A t \in Tasks : \/ pc'[t] = pc[t] /\ saved'[t] = saved[t]
                             \/ pc'[t] = "gone" /\ saved'[t] = NoFile
<1>1. port # Of(l, "launcher") \/ port = NoProcess
  BY Names DEF PortWeb
<1>2. Ends
  BY <1>1 DEF Ends, LauncherEnds, TypeOK, failures
<1>3. pc' \in [Tasks -> Labels] /\ saved' \in [Tasks -> FileType \cup {NoFile}]
  BY DEF LauncherEnds, TypeOK, Labels, Rest, Terminating, Past
<1>4. \A t \in Tasks : \/ pc'[t] = pc[t] /\ saved'[t] = saved[t]
                       \/ pc'[t] = "gone" /\ saved'[t] = NoFile
  BY DEF LauncherEnds
<1> QED
  BY <1>2, <1>3, <1>4

-----------------------------------------------------------------------------
(***************************************************************************)
(* The invariant is kept.                                                  *)
(***************************************************************************)

\* Steps that start no process and record nothing.
LEMMA EndsInv ==
  ASSUME Inv, Ends, recorded' = recorded, file' \in {file, NoFile},
         pc' \in [Tasks -> Labels], saved' \in [Tasks -> FileType \cup {NoFile}],
         \A t \in Tasks : saved'[t] \in {saved[t], NoFile},
         \A t \in Tasks : pc'[t] \in Terminating => pc[t] \in Terminating /\ saved'[t] = saved[t],
         \A l \in recorded : pc'[Start(l)] \in Past
  PROVE  Inv'
<1> USE DEF Inv, Ends
<1>1. TypeOK'
  BY DEF TypeOK, Labels, Rest, Terminating, Past
<1>2. /\ \A l, role : Of(l, role) \in alive' => Of(l, role) \in alive
      /\ Windows => reused \subseteq reused'
  OBVIOUS
<1>3. FileRecorded'
  BY <1>2, RecordedKept DEF FileRecorded
<1>4. SavedRecorded'
  <2> SUFFICES ASSUME NEW t \in Tasks, saved'[t] # NoFile \/ pc'[t] \in Terminating
               PROVE  Recorded(saved'[t], recorded', alive', reused', lost')
    BY DEF SavedRecorded
  <2>1. Recorded(saved[t], recorded, alive, reused, lost) /\ saved'[t] = saved[t]
    BY DEF SavedRecorded
  <2> QED
    BY <1>2, <2>1, RecordedKept
<1>5. PastStart' /\ PortWeb'
  BY DEF PastStart, PortWeb
<1>6. ReusedPast' /\ GuestsHosted'
  BY DEF ReusedPast, GuestsHosted
<1> QED
  BY <1>1, <1>3, <1>4, <1>5, <1>6

\* A task that goes on.
LEMMA GotoOnly ==
  ASSUME TypeOK, PastStart, NEW t \in Tasks, NEW a \in Labels, Goto(t, a),
         pc[t] \notin Past \/ a \in Past
  PROVE  /\ pc' \in [Tasks -> Labels]
         /\ pc'[t] = a /\ \A u \in Tasks \ {t} : pc'[u] = pc[u]
         /\ \A l \in recorded : pc'[Start(l)] \in Past
<1>1. /\ pc' \in [Tasks -> Labels]
      /\ pc'[t] = a /\ \A u \in Tasks \ {t} : pc'[u] = pc[u]
  BY DEF TypeOK, Goto, Labels, Rest, Terminating, Past
<1>2. ASSUME NEW l \in recorded
      PROVE  pc'[Start(l)] \in Past
  <2>1. Start(l) \in Tasks /\ pc[Start(l)] \in Past
    BY TaskNames DEF TypeOK, PastStart
  <2> QED
    BY <1>1, <2>1
<1> QED
  BY <1>1, <1>2

\* The web server or the worker exits by itself.
LEMMA ExitsInv ==
  ASSUME Inv, NEW p, NEW how, Exits(p, how)
  PROVE  Inv'
<1>1. PICK ended : End(ended, how)
  BY DEF Exits
<1>2. UNCHANGED <<reused, file, recorded, pc, saved, failures>>
  BY DEF Exits
<1>3. Ends
  BY <1>1, <1>2, EndEnds DEF Inv, TypeOK, failures
<1>4. pc' \in [Tasks -> Labels] /\ saved' \in [Tasks -> FileType \cup {NoFile}]
  BY <1>2 DEF Inv, TypeOK, Labels, Rest, Terminating, Past
<1> QED
  BY <1>2, <1>3, <1>4, EndsInv DEF Inv, PastStart

\* A launcher ends, killed, with its command or with its signal handler.
LEMMA LauncherEndsInv ==
  ASSUME Inv, NEW l \in Launchers, LauncherEnds(l), UNCHANGED <<reused, port, failures, recorded>>,
         file' \in {file, NoFile}
  PROVE  Inv'
<1>1. /\ Ends
      /\ pc' \in [Tasks -> Labels] /\ saved' \in [Tasks -> FileType \cup {NoFile}]
      /\ \A t \in Tasks : \/ pc'[t] = pc[t] /\ saved'[t] = saved[t]
                          \/ pc'[t] = "gone" /\ saved'[t] = NoFile
  BY LauncherGone DEF Inv
<1>2. \A m \in recorded : pc'[Start(m)] \in Past
  BY <1>1, TaskNames DEF Inv, TypeOK, PastStart, Past
<1>3. "gone" \notin Terminating
  BY DEF Terminating
<1> QED
  BY <1>1, <1>2, <1>3, EndsInv

\* A recorded process is asked to end, killed, or missed.
LEMMA TerminateInv ==
  ASSUME Inv, NEW t \in Tasks, Ask(t) \/ Enforce(t) \/ Miss(t)
  PROVE  Inv'
<1>1. PICK a \in {"worker2", "web", "web2", "rm"} : Goto(t, a)
  BY DEF Ask, Enforce, Miss, Following
<1>2. Ends
  <2>1. CASE UNCHANGED <<processes, heard, failures>>
    BY <2>1 DEF Inv, TypeOK, Ends, processes, failures
  <2>2. CASE Matches(Target(t)) /\ Kill(Target(t))
    BY <2>2, KillEnds DEF Inv
  <2>3. CASE Miss(t)
    <3>1. UNCHANGED <<processes, heard>> /\ lost' = lost \cup {Target(t)} /\ Target(t) \in alive
      BY <2>3 DEF Miss
    <3>2. faults' \in 0 .. MaxFaults
      BY <2>3, FailsTyped DEF Miss, Inv
    <3> QED
      BY <3>1, <3>2 DEF Inv, TypeOK, Ends, processes
  <2> QED
    BY <2>1, <2>2, <2>3 DEF Ask, Enforce
<1>3. pc[t] \in Terminating /\ pc[t] \notin Past /\ a \in Labels /\ a \in Terminating
  BY DEF Ask, Enforce, Miss, Terminating, Past, Labels
<1>4. UNCHANGED <<file, recorded, saved>>
  BY DEF Ask, Enforce, Miss
<1>5. /\ pc' \in [Tasks -> Labels]
      /\ \A u \in Tasks : pc'[u] \in Terminating => pc[u] \in Terminating
      /\ \A l \in recorded : pc'[Start(l)] \in Past
  BY <1>1, <1>3, GotoOnly DEF Inv
<1>6. saved' \in [Tasks -> FileType \cup {NoFile}]
  BY <1>4 DEF Inv, TypeOK
<1> QED
  BY <1>2, <1>4, <1>5, <1>6, EndsInv

\* The file is removed, and the signal handler ends its launcher.
LEMMA RemoveInv ==
  ASSUME Inv, NEW t \in Tasks, Remove(t)
  PROVE  Inv'
<1>1. CASE t[1] = "shutdown"
  BY <1>1, TaskNames, LauncherEndsInv DEF Remove
<1>2. CASE t[1] # "shutdown"
  <2>1. PICK a \in {"clear", "done"} : Goto(t, a)
    BY <1>2 DEF Remove, Cleared
  <2>2. a \in Labels /\ a \notin Terminating /\ pc[t] \notin Past
    BY DEF Remove, Labels, Rest, Terminating, Past
  <2>3. UNCHANGED <<alive, reused, port, heard, recorded, lost, faults>> /\ file' = NoFile
    BY <1>2 DEF Remove, processes, failures
  <2>4. Ends
    BY <2>3 DEF Inv, TypeOK, Ends
  <2>5. /\ pc' \in [Tasks -> Labels]
        /\ pc'[t] = a /\ \A u \in Tasks \ {t} : pc'[u] = pc[u]
        /\ \A l \in recorded : pc'[Start(l)] \in Past
    BY <2>1, <2>2, GotoOnly DEF Inv
  <2>6. saved' = [saved EXCEPT ![t] = NoFile]
    BY <1>2 DEF Remove
  <2>7. /\ saved' \in [Tasks -> FileType \cup {NoFile}]
        /\ saved'[t] = NoFile /\ \A u \in Tasks \ {t} : saved'[u] = saved[u]
    BY <2>6 DEF Inv, TypeOK
  <2> QED
    BY <2>2, <2>3, <2>4, <2>5, <2>7, EndsInv
<1> QED
  BY <1>1, <1>2

\* A start command goes on, without spawning or recording anything.
LEMMA StartingInv ==
  ASSUME Inv, NEW l \in Launchers,
         Prepare(l) \/ Identify(l) \/ Ready(l) \/ WaitFails(l)
  PROVE  Inv'
<1> DEFINE t == Start(l)
<1>1. t \in Tasks
  BY TaskNames
<1>2. PICK a \in {"prepared", "identified", "done", "ready", "failing"} :
         Goto(t, a) /\ (pc[t] \notin Past \/ a \in Past)
  BY DEF Prepare, Identify, Ready, WaitFails, Past
<1>3. a \in Labels /\ a \notin Terminating
  BY DEF Labels, Rest, Terminating, Past
<1>4. UNCHANGED <<reused, file, recorded, saved>>
  BY DEF Prepare, Identify, Ready, WaitFails, processes
<1>5. Ends
  <2>1. CASE UNCHANGED <<alive, port, heard, failures>>
    BY <1>4, <2>1 DEF Inv, TypeOK, Ends, failures
  <2>2. CASE Identify(l)
    <3> DEFINE both == {Of(l, "web"), Of(l, "worker")}
    <3>1. PICK missed \in SUBSET (both \cup {Of(l, "launcher")}) :
             /\ Fails(Cardinality(missed)) /\ lost' = lost \cup (missed \cap alive)
             /\ \/ UNCHANGED <<processes, heard>>
                \/ End(UNION {Tree(p) : p \in (both \cap alive) \ missed}, "failed")
      BY <2>2 DEF Identify
    <3>2. Cardinality(missed) \in Nat
      BY MissedFinite, missed \in SUBSET {Of(l, "web"), Of(l, "worker"), Of(l, "launcher")}
    <3>3. faults' \in 0 .. MaxFaults /\ lost \subseteq lost' /\ lost' \subseteq Processes
      BY <3>1, <3>2, FailsTyped DEF Inv, TypeOK
    <3> HIDE DEF both
    <3>4. CASE UNCHANGED <<processes, heard>>
      BY <3>3, <3>4 DEF Inv, TypeOK, Ends, processes
    <3>5. ASSUME NEW ended, End(ended, "failed")
          PROVE  Ends
      BY <1>4, <3>3, <3>5, EndEnds DEF Inv
    <3> QED
      BY <3>1, <3>4, <3>5
  <2> QED
    BY <2>1, <2>2 DEF Prepare, Ready, WaitFails, processes
<1>6. /\ pc' \in [Tasks -> Labels]
      /\ pc'[t] = a /\ \A u \in Tasks \ {t} : pc'[u] = pc[u]
      /\ \A m \in recorded : pc'[Start(m)] \in Past
  BY <1>1, <1>2, <1>3, GotoOnly DEF Inv
<1>7. saved' \in [Tasks -> FileType \cup {NoFile}]
  BY <1>4 DEF Inv, TypeOK
<1> HIDE DEF t
<1> QED
  BY <1>1, <1>3, <1>4, <1>5, <1>6, <1>7, EndsInv

\* Steps that change no more than which web server listens.
LEMMA ListenInv ==
  ASSUME Inv, UNCHANGED <<alive, reused, file, recorded, pc, saved, heard, failures>>,
         port' = port \/ \E l \in Launchers : port' \in {Of(l, "web"), Of(l, "server")} \cap alive
  PROVE  Inv'
<1>1. TypeOK' /\ PortWeb'
  BY DEF Inv, TypeOK, PortWeb, failures
<1>2. FileRecorded' /\ SavedRecorded' /\ PastStart' /\ ReusedPast' /\ GuestsHosted'
  BY DEF Inv, FileRecorded, SavedRecorded, PastStart, ReusedPast, GuestsHosted, failures
<1> QED
  BY <1>1, <1>2 DEF Inv

\* The child of a stranger is the only process that starts with it.
LEMMA GuestNames ==
  ASSUME NEW p \in Processes, NEW g \in Guests(p)
  PROVE  /\ g \in Processes /\ Windows /\ g.launcher = p.launcher
         /\ \/ g.role = "webguest" /\ p = Of(p.launcher, "web")
            \/ g.role = "workerguest" /\ p = Of(p.launcher, "worker")
<1>1. CASE p.role = "web"
  <2>1. g = Of(p.launcher, "webguest") /\ Windows
    BY <1>1 DEF Guests
  <2>2. "webguest" \in Roles
    BY DEF Roles
  <2> QED
    BY <1>1, <2>1, <2>2, Names
<1>2. CASE p.role = "worker"
  <2>1. g = Of(p.launcher, "workerguest") /\ Windows
    BY <1>2 DEF Guests
  <2>2. "workerguest" \in Roles
    BY DEF Roles
  <2> QED
    BY <1>2, <2>1, <2>2, Names
<1>3. CASE p.role \notin {"web", "worker"}
  BY <1>3 DEF Guests
<1> QED
  BY <1>1, <1>2, <1>3

\* A stranger takes the pid of a process that a file or a task names, and starts a child.
LEMMA ReuseInv ==
  ASSUME Inv, NEW p \in Processes, Reuse(p)
  PROVE  Inv'
<1>1. UNCHANGED <<port, file, recorded, pc, saved, heard, failures>>
  BY DEF Reuse
<1>2. reused' = reused \cup {p} /\ p \notin alive /\ p \notin reused
  BY DEF Reuse
<1>3. alive \subseteq alive' /\ alive' \subseteq alive \cup Guests(p)
  BY DEF Reuse
<1>4. PICK f : /\ Recorded(f, recorded, alive, reused, lost)
               /\ p \in {f.launcher, f.web, f.worker}
  <2>1. CASE file # NoFile /\ p \in {file.web, file.worker, file.launcher}
    BY <2>1 DEF Inv, FileRecorded
  <2>2. CASE \E t \in Tasks : saved[t] # NoFile /\ p \in {saved[t].web, saved[t].worker}
    BY <2>2 DEF Inv, SavedRecorded
  <2> QED
    BY <2>1, <2>2 DEF Reuse
<1>5. /\ p.launcher \in recorded
      /\ p.role = "other" => ~({Of(p.launcher, "worker"), Of(p.launcher, "inner")} \subseteq alive)
      /\ p.role = "webguest" => Windows /\ Of(p.launcher, "web") \in reused
      /\ p.role = "workerguest" => Windows /\ Of(p.launcher, "worker") \in reused
  <2>1. \A q \in {f.launcher, f.web, f.worker} :
           /\ q.launcher = f.launcher.launcher /\ q.launcher \in recorded /\ q.role # "stray"
           /\ q.role = "other" =>
                 ~({Of(q.launcher, "worker"), Of(q.launcher, "inner")} \subseteq alive)
           /\ q.role = "webguest" => Windows /\ Of(q.launcher, "web") \in reused
           /\ q.role = "workerguest" => Windows /\ Of(q.launcher, "worker") \in reused
    BY <1>4, RecordNames
  <2> QED
    BY <1>4, <2>1
<1>6. \A q \in alive' : q \notin alive =>
         /\ q \in Processes /\ Windows /\ q.launcher = p.launcher
         /\ \/ q.role = "webguest" /\ p = Of(p.launcher, "web")
            \/ q.role = "workerguest" /\ p = Of(p.launcher, "worker")
  BY <1>3, GuestNames
<1>7. \A l, role : role \notin {"webguest", "workerguest"} =>
         (Of(l, role) \in alive' <=> Of(l, role) \in alive)
  BY <1>3, <1>6, Names
<1>8. alive' \cap reused' = {}
  <2> SUFFICES ASSUME NEW q \in alive', q \in reused'
               PROVE  FALSE
    OBVIOUS
  <2>1. q \notin alive
    BY <1>2 DEF Inv, TypeOK
  <2>2. q \in reused
    BY <1>2, <1>6, <2>1, Names
  <2>3. q.launcher \in Launchers /\ q = Of(q.launcher, q.role)
    BY <2>2, Names DEF Inv, TypeOK
  <2> QED
    BY <1>2, <1>6, <2>1, <2>2, <2>3 DEF Inv, GuestsHosted
<1>9. TypeOK' /\ PortWeb'
  <2>1. alive' \subseteq Processes /\ reused' \subseteq Processes \ alive'
    BY <1>2, <1>6, <1>8 DEF Inv, TypeOK
  <2>2. port' \in alive' \cup {NoProcess}
    BY <1>1, <1>3 DEF Inv, TypeOK
  <2> QED
    BY <1>1, <2>1, <2>2 DEF Inv, TypeOK, PortWeb, failures
<1>10. ReusedPast'
  BY <1>1, <1>2, <1>5, <1>7 DEF Inv, ReusedPast
<1>11. GuestsHosted'
  <2> SUFFICES ASSUME NEW l \in Launchers, NEW role \in {"web", "worker"}, NEW guest,
                      guest = IF role = "web" THEN "webguest" ELSE "workerguest",
                      Of(l, guest) \in alive' \cup reused'
               PROVE  Windows /\ Of(l, role) \in reused'
    BY DEF GuestsHosted
  <2>1. CASE Of(l, guest) \in alive \cup reused
    BY <1>2, <2>1 DEF Inv, GuestsHosted
  <2>2. CASE Of(l, guest) = p
    BY <1>2, <1>5, <2>2, Names
  <2>3. CASE Of(l, guest) \in alive' \ alive
    BY <1>2, <1>6, <2>3, Names
  <2> QED
    BY <1>2, <2>1, <2>2, <2>3
<1>12. FileRecorded' /\ SavedRecorded'
  <2>1. lost' = lost
    BY <1>1 DEF failures
  <2>2. FileRecorded'
    BY <1>1, <1>2, <1>7, <2>1, RecordedKept DEF Inv, FileRecorded
  <2>3. SavedRecorded'
    BY <1>1, <1>2, <1>7, <2>1, RecordedKept DEF Inv, SavedRecorded
  <2> QED
    BY <2>2, <2>3
<1>13. PastStart'
  BY <1>1 DEF Inv, PastStart
<1> QED
  BY <1>9, <1>10, <1>11, <1>12, <1>13 DEF Inv

\* Two different processes are more than one.
LEMMA TwoAreMore ==
  ASSUME NEW S, IsFiniteSet(S), NEW a \in S, NEW b \in S, a # b
  PROVE  Cardinality(S) > 1
<1>1. IsFiniteSet({a}) /\ Cardinality({a}) = 1
  BY FS_Singleton
<1>2. Cardinality({a} \cup {b}) = 2
  <2>1. Cardinality({a} \cup {b}) = IF b \in {a} THEN Cardinality({a}) ELSE Cardinality({a}) + 1
    BY <1>1, FS_AddElement, ZenonT(60)
  <2> QED
    BY <1>1, <2>1
<1>3. {a} \cup {b} \in SUBSET S
  OBVIOUS
<1>4. Cardinality({a} \cup {b}) <= Cardinality(S) /\ Cardinality(S) \in Nat
  BY <1>3, FS_Subset, FS_CardinalityType
<1> QED
  BY <1>2, <1>4

\* The descendants of a process are three at most.
LEMMA DescendantsFinite ==
  ASSUME NEW p
  PROVE  IsFiniteSet(Descendants(p))
<1>1. \A a, b : IsFiniteSet({a} \cup {b}) /\ IsFiniteSet({a}) /\ IsFiniteSet({})
  BY FS_Singleton, FS_AddElement, FS_EmptySet
<1>2. IsFiniteSet(Children(p))
  <2>1. \A a, b : {a, b} = {a} \cup {b}
    OBVIOUS
  <2>2. \/ Children(p) = {Of(p.launcher, "server")} \/ Children(p) = {}
        \/ Children(p) = {Of(p.launcher, "inner")} \cup {Of(p.launcher, "other")}
    BY <2>1 DEF Children
  <2> QED
    BY <1>1, <2>2
<1>3. IsFiniteSet(Guests(p))
  BY <1>1 DEF Guests
<1>4. Descendants(p) \in SUBSET (Children(p) \cup Guests(p))
  BY DEF Descendants
<1> QED
  BY <1>2, <1>3, <1>4, FS_Union, FS_Subset

\* What a record is taken to stand for is what was recorded, or a descendant that it left
\* or that a stranger started, when it is dead or missed.
LEMMA ResolveRecorded ==
  ASSUME Inv, NEW p, NEW l \in Launchers, NEW role, NEW guest, NEW children,
         <<role, guest, children>> \in {<<"web", "webguest", {"server"}>>,
                                       <<"worker", "workerguest", {"inner", "other"}>>},
         RecordedAs(p, l, role, guest, children, alive, reused, lost),
         NEW missed, NEW unsearched, NEW q, q \in Resolve(p, missed, unsearched) \/ q = p,
         NEW gone, gone = lost \cup (missed \cap alive \cap {p})
  PROVE  /\ RecordedAs(q, l, role, guest, children, alive, reused, gone)
         /\ q = p \/ (p = Of(l, role) /\ Resolve(p, missed, unsearched) = Descendants(p))
<1>1. CASE q = p
  BY <1>1, RecordedAsKept
<1>2. CASE q # p
  <2>1. /\ q \in Descendants(p) /\ Resolve(p, missed, unsearched) = Descendants(p)
        /\ p \notin alive \ missed
    BY <1>2 DEF Resolve, Matches
  <2>2. p.launcher = l /\ p.role \in {role, guest} \cup children /\ p = Of(l, p.role)
    BY Names DEF RecordedAs
  <2>3. p.role = role
    BY <2>1, <2>2 DEF Descendants, Children, Guests
  <2>4. q \in alive /\ q \in Children(p) \cup Guests(p)
    BY <2>1 DEF Descendants
  <2>5. /\ Children(p) \subseteq {Of(l, r) : r \in children}
        /\ Guests(p) \subseteq {Of(l, guest)}
    BY <2>2, <2>3 DEF Children, Guests
  <2>6. Of(l, role) \notin alive \ gone
    BY <2>1, <2>2, <2>3
  <2>7. q = Of(l, guest) => Windows /\ Of(l, role) \in reused
    BY <2>4 DEF Inv, GuestsHosted
  <2> QED
    BY <2>1, <2>2, <2>3, <2>4, <2>5, <2>6, <2>7 DEF RecordedAs
<1> QED
  BY <1>1, <1>2

\* A reconciliation that finds a file reads a record in it, whatever look-ups fail.
LEMMA ReconcileFileDoes ==
  ASSUME Inv, file # NoFile, NEW t \in Tasks,
         NEW missed \in SUBSET {file.launcher, file.web, file.worker}, NEW unsearched,
         ReconcileFile(t, missed, unsearched)
  PROVE  /\ lost \subseteq lost' /\ lost' \subseteq Processes /\ faults' \in 0 .. MaxFaults
         /\ \/ Goto(t, "done") /\ UNCHANGED saved
            \/ /\ Goto(t, "upgrade") \/ Goto(t, "worker")
               /\ \E f : /\ saved' = [saved EXCEPT ![t] = f]
                         /\ Recorded(f, recorded, alive, reused, lost')
                         /\ f.launcher = file.launcher
<1> DEFINE webs == Resolve(file.web, missed, unsearched)
           workers == Resolve(file.worker, missed, unsearched)
           Found(old, found) == IF found = {} THEN old ELSE CHOOSE p \in found : TRUE
           now == [launcher |-> file.launcher,
                   web |-> Found(file.web, webs), worker |-> Found(file.worker, workers)]
           l == file.launcher.launcher
<1>1. /\ Recorded(file, recorded, alive, reused, lost)
      /\ l \in Launchers /\ l \in recorded
      /\ RecordedAs(file.web, l, "web", "webguest", {"server"}, alive, reused, lost)
      /\ RecordedAs(file.worker, l, "worker", "workerguest", {"inner", "other"},
                    alive, reused, lost)
      /\ file.worker = Of(l, "other") => ~({Of(l, "worker"), Of(l, "inner")} \subseteq alive)
  BY DEF Inv, TypeOK, FileRecorded, Recorded
<1>2. lost' = lost \cup ({file.web, file.worker} \cap missed \cap alive)
  BY DEF ReconcileFile
<1>3. lost \subseteq lost' /\ lost' \subseteq Processes
  BY <1>2 DEF Inv, TypeOK
<1>4. faults' \in 0 .. MaxFaults
  <2>1. Cardinality(missed) \in Nat
    BY MissedFinite
  <2>2. Cardinality(missed) + (IF unsearched = {} THEN 0 ELSE 1) \in Nat
    BY <2>1
  <2> QED
    BY <2>2, FailsTyped DEF ReconcileFile, Inv
<1>5. \/ Goto(t, "done") /\ UNCHANGED saved
      \/ /\ Goto(t, "upgrade") \/ Goto(t, "worker")
         /\ saved' = [saved EXCEPT ![t] = now]
         /\ ~(Cardinality(workers) > 1)
  BY DEF ReconcileFile
<1>6. /\ now.web \in webs \/ now.web = file.web
      /\ now.worker \in workers \/ now.worker = file.worker
      /\ now.launcher = file.launcher
      /\ now = [launcher |-> file.launcher, web |-> now.web, worker |-> now.worker]
  OBVIOUS
<1> HIDE DEF now, l
<1>7. RecordedAs(now.web, l, "web", "webguest", {"server"}, alive, reused, lost')
  <2> DEFINE gone == lost \cup (missed \cap alive \cap {file.web})
  <2>1. RecordedAs(now.web, l, "web", "webguest", {"server"}, alive, reused, gone)
    BY <1>1, <1>6, ResolveRecorded
  <2>2. gone \subseteq lost'
    BY <1>2
  <2> HIDE DEF gone
  <2> QED
    BY <2>1, <2>2, RecordedAsKept
<1>8. /\ RecordedAs(now.worker, l, "worker", "workerguest", {"inner", "other"},
                    alive, reused, lost')
      /\ now.worker = file.worker
         \/ (file.worker = Of(l, "worker") /\ workers = Descendants(file.worker))
  <2> DEFINE gone == lost \cup (missed \cap alive \cap {file.worker})
  <2>1. /\ RecordedAs(now.worker, l, "worker", "workerguest", {"inner", "other"},
                      alive, reused, gone)
        /\ now.worker = file.worker
           \/ (file.worker = Of(l, "worker") /\ workers = Descendants(file.worker))
    <3> DEFINE kin == {"inner", "other"}
    <3>1. <<"worker", "workerguest", kin>> \in {<<"web", "webguest", {"server"}>>,
                                                <<"worker", "workerguest", {"inner", "other"}>>}
      OBVIOUS
    <3>2. RecordedAs(file.worker, l, "worker", "workerguest", kin, alive, reused, lost)
      BY <1>1
    <3>3. gone = lost \cup (missed \cap alive \cap {file.worker})
      OBVIOUS
    <3>4. workers = Resolve(file.worker, missed, unsearched)
      OBVIOUS
    <3> HIDE DEF kin, gone, workers
    <3>5. /\ RecordedAs(now.worker, l, "worker", "workerguest", kin, alive, reused, gone)
          /\ now.worker = file.worker
             \/ (file.worker = Of(l, "worker") /\ workers = Descendants(file.worker))
      BY <1>1, <1>6, <3>3, <3>4, <3>1, <3>2, ResolveRecorded
    <3> QED
      BY <3>5 DEF kin
  <2>2. gone \subseteq lost'
    BY <1>2
  <2> HIDE DEF gone, workers
  <2> QED
    BY <2>1, <2>2, RecordedAsKept
<1>9. ASSUME ~(Cardinality(workers) > 1), now.worker = Of(l, "other"),
             Of(l, "inner") \in alive, Of(l, "worker") \in alive
      PROVE  FALSE
  <2>1. CASE now.worker = file.worker
    BY <1>1, <1>9, <2>1
  <2>2. CASE now.worker # file.worker
    <3>1. /\ file.worker = Of(l, "worker") /\ workers = Descendants(file.worker)
          /\ now.worker \in workers
      BY <1>6, <1>8, <2>2
    <3>2. Of(l, "inner") \in workers
      BY <1>9, <3>1, Names DEF Descendants, Children
    <3>3. Of(l, "inner") # Of(l, "other")
      BY Names
    <3> QED
      BY <1>9, <3>1, <3>2, <3>3, DescendantsFinite, TwoAreMore
  <2> QED
    BY <2>1, <2>2
<1>10. ASSUME ~(Cardinality(workers) > 1)
       PROVE  Recorded(now, recorded, alive, reused, lost')
  <2>1. now \in FileType
    <3>1. now.web \in Processes /\ now.worker \in Processes
      BY <1>1, <1>7, <1>8, Names DEF RecordedAs, Roles
    <3>2. now.launcher \in Processes
      BY <1>1, <1>6 DEF Recorded, FileType
    <3> QED
      BY <1>6, <3>1, <3>2 DEF FileType
  <2>2. now.launcher.role = "launcher" /\ l = now.launcher.launcher
    BY <1>1, <1>6 DEF Recorded, l
  <2> HIDE DEF workers
  <2> QED
    BY <1>1, <1>7, <1>8, <1>9, <1>10, <2>1, <2>2 DEF Recorded
<1> HIDE DEF workers
<1> QED
  BY <1>3, <1>4, <1>5, <1>6, <1>10

\* What a reconciliation changes, whichever way it goes.
LEMMA ReconcileDoes ==
  ASSUME Inv, NEW t \in Tasks, Reconcile(t)
  PROVE  /\ UNCHANGED <<reused, port, file, recorded, heard>> /\ pc[t] = "idle"
         /\ lost \subseteq lost' /\ lost' \subseteq Processes /\ faults' \in 0 .. MaxFaults
         /\ alive' = IF t[1] = "start" THEN alive \cup {Of(t[2], "launcher")} ELSE alive
         /\ \E a \in {"clear", "done", "upgrade", "worker"} :
              Goto(t, a) /\ (a = "clear" => t[1] = "start" /\ file = NoFile)
         /\ \/ saved' = saved /\ pc'[t] \in {"clear", "done"}
            \/ \E f : /\ saved' = [saved EXCEPT ![t] = f]
                      /\ Recorded(f, recorded, alive, reused, lost')
                      /\ file # NoFile /\ f.launcher = file.launcher
<1>1. UNCHANGED <<reused, port, file, recorded, heard>> /\ pc[t] = "idle"
      /\ alive' = IF t[1] = "start" THEN alive \cup {Of(t[2], "launcher")} ELSE alive
  BY DEF Reconcile
<1>2. Cleared(t) \in {"clear", "done"} /\ (Cleared(t) = "clear" => t[1] = "start")
  BY DEF Cleared
<1>3. ASSUME NEW a, Goto(t, a)
      PROVE  pc'[t] = a
  BY <1>3 DEF Inv, TypeOK, Goto
<1>4. CASE file = NoFile /\ Goto(t, Cleared(t)) /\ UNCHANGED <<saved, lost, faults>>
  <2>1. lost \subseteq lost' /\ lost' \subseteq Processes /\ faults' \in 0 .. MaxFaults
    BY <1>4 DEF Inv, TypeOK
  <2> QED
    BY <1>1, <1>2, <1>3, <1>4, <2>1
<1>5. CASE /\ file # NoFile
           /\ \E missed \in SUBSET {file.launcher, file.web, file.worker}, u \in Unsearched :
                 ReconcileFile(t, missed, u)
  BY <1>1, <1>3, <1>5, ReconcileFileDoes
<1> QED
  BY <1>4, <1>5 DEF Reconcile

\* A command reconciles the file; a start command runs in a launcher from then on.
LEMMA ReconcileInv ==
  ASSUME Inv, NEW t \in Tasks, Reconcile(t)
  PROVE  Inv'
<1>1. /\ UNCHANGED <<reused, port, file, recorded, heard>> /\ pc[t] = "idle"
      /\ lost \subseteq lost' /\ lost' \subseteq Processes /\ faults' \in 0 .. MaxFaults
      /\ alive' = IF t[1] = "start" THEN alive \cup {Of(t[2], "launcher")} ELSE alive
  BY ReconcileDoes
<1>2. PICK a \in {"clear", "done", "upgrade", "worker"} : Goto(t, a)
  BY ReconcileDoes
<1>3. a \in Labels /\ pc[t] \notin Past
  BY <1>1 DEF Labels, Rest, Terminating, Past
<1>4. /\ pc' \in [Tasks -> Labels]
      /\ pc'[t] = a /\ \A u \in Tasks \ {t} : pc'[u] = pc[u]
      /\ \A l \in recorded : pc'[Start(l)] \in Past
  BY <1>2, <1>3, GotoOnly DEF Inv
<1>5. \A l, role : role # "launcher" => (Of(l, role) \in alive' <=> Of(l, role) \in alive)
  BY <1>1, Names
<1>6. alive \subseteq alive' /\ alive' \subseteq Processes /\ alive' \cap reused = {}
  <2>1. ASSUME t[1] = "start"
        PROVE  Of(t[2], "launcher") \in Processes \ reused
    <3>1. t[2] \in Launchers /\ t = Start(t[2])
      BY <2>1, TaskNames
    <3>2. t[2] \notin recorded
      BY <1>1, <1>3, <3>1 DEF Inv, PastStart
    <3> QED
      BY <3>1, <3>2, Names DEF Inv, ReusedPast, Roles
  <2> QED
    BY <1>1, <2>1 DEF Inv, TypeOK
<1>7. /\ saved' \in [Tasks -> FileType \cup {NoFile}]
      /\ \A u \in Tasks \ {t} : saved'[u] = saved[u]
      /\ \/ saved'[t] = saved[t] /\ a \in {"clear", "done"}
         \/ Recorded(saved'[t], recorded, alive, reused, lost')
  <2>1. CASE saved' = saved /\ pc'[t] \in {"clear", "done"}
    BY <1>4, <2>1 DEF Inv, TypeOK
  <2>2. ASSUME NEW f, saved' = [saved EXCEPT ![t] = f],
               Recorded(f, recorded, alive, reused, lost')
        PROVE  /\ saved' \in [Tasks -> FileType \cup {NoFile}]
               /\ \A u \in Tasks \ {t} : saved'[u] = saved[u]
               /\ saved'[t] = f
    BY <2>2 DEF Inv, TypeOK, Recorded
  <2> QED
    BY <2>1, <2>2, ReconcileDoes
<1>8. TypeOK'
  BY <1>1, <1>4, <1>6, <1>7 DEF Inv, TypeOK, Labels, Rest, Terminating, Past
<1>9. FileRecorded'
  BY <1>1, <1>5, RecordedKept DEF Inv, FileRecorded
<1>10. SavedRecorded'
  <2> SUFFICES ASSUME NEW u \in Tasks, saved'[u] # NoFile \/ pc'[u] \in Terminating
               PROVE  Recorded(saved'[u], recorded', alive', reused', lost')
    BY DEF SavedRecorded
  <2>1. Recorded(saved'[u], recorded, alive, reused, lost)
        \/ Recorded(saved'[u], recorded, alive, reused, lost')
    BY <1>4, <1>7 DEF Inv, SavedRecorded, Terminating
  <2> QED
    BY <1>1, <1>5, <2>1, RecordedKept
<1>11. PastStart' /\ PortWeb'
  BY <1>1, <1>4 DEF Inv, PastStart, PortWeb
<1>12. ReusedPast' /\ GuestsHosted'
  BY <1>1, <1>5 DEF Inv, ReusedPast, GuestsHosted
<1> QED
  BY <1>8, <1>9, <1>10, <1>11, <1>12 DEF Inv

\* What was adopted is written back to the file.
LEMMA UpgradeInv ==
  ASSUME Inv, NEW t \in Tasks, Upgrade(t)
  PROVE  Inv'
<1>1. UNCHANGED <<alive, reused, port, recorded, heard, lost, faults>> /\ pc[t] = "upgrade"
  BY DEF Upgrade, processes, failures
<1>2. PICK a \in {"done", "worker"} :
         Goto(t, a) /\ saved' = IF a = "done" THEN [saved EXCEPT ![t] = NoFile] ELSE saved
  BY DEF Upgrade
<1>3. a \in Labels /\ pc[t] \in Terminating /\ pc[t] \notin Past
  BY <1>1 DEF Labels, Rest, Terminating, Past
<1>4. /\ pc' \in [Tasks -> Labels]
      /\ pc'[t] = a /\ \A u \in Tasks \ {t} : pc'[u] = pc[u]
      /\ \A l \in recorded : pc'[Start(l)] \in Past
  BY <1>2, <1>3, GotoOnly DEF Inv
<1>5. Recorded(saved[t], recorded, alive, reused, lost) /\ file' = saved[t]
  BY <1>3 DEF Inv, SavedRecorded, Upgrade
<1>6. /\ saved' \in [Tasks -> FileType \cup {NoFile}]
      /\ \A u \in Tasks \ {t} : saved'[u] = saved[u]
      /\ saved'[t] = IF a = "done" THEN NoFile ELSE saved[t]
  BY <1>2 DEF Inv, TypeOK
<1>7. TypeOK'
  BY <1>1, <1>4, <1>5, <1>6 DEF Inv, TypeOK, Recorded, Labels, Rest, Terminating, Past
<1>8. FileRecorded'
  BY <1>1, <1>5 DEF FileRecorded
<1>9. SavedRecorded'
  <2> SUFFICES ASSUME NEW u \in Tasks, saved'[u] # NoFile \/ pc'[u] \in Terminating
               PROVE  Recorded(saved'[u], recorded, alive, reused, lost)
    BY <1>1 DEF SavedRecorded
  <2> QED
    BY <1>4, <1>5, <1>6 DEF Inv, SavedRecorded, Terminating
<1>10. PastStart' /\ ReusedPast' /\ GuestsHosted' /\ PortWeb'
  BY <1>1, <1>4 DEF Inv, PastStart, ReusedPast, GuestsHosted, PortWeb
<1> QED
  BY <1>7, <1>8, <1>9, <1>10 DEF Inv

\* A launcher spawns its session, or a watcher another child: names that no stranger has.
LEMMA SpawnInv ==
  ASSUME Inv, NEW l \in Launchers, Spawn(l) \/ SpawnOther(l)
  PROVE  Inv'
<1>1. UNCHANGED <<reused, port, file, recorded, saved, heard, lost, faults>>
  BY DEF Spawn, SpawnOther, failures
<1>2. /\ pc' \in [Tasks -> Labels] /\ \A m \in recorded : pc'[Start(m)] \in Past
      /\ \A u \in Tasks : pc'[u] \in Terminating => pc[u] \in Terminating
  <2>1. CASE Spawn(l)
    <3>1. Start(l) \in Tasks /\ pc[Start(l)] = "prepared" /\ Goto(Start(l), "spawned")
      BY <2>1, TaskNames DEF Spawn
    <3>2. "spawned" \in Labels /\ "spawned" \notin Terminating /\ "prepared" \notin Past
      BY DEF Labels, Terminating, Past
    <3> QED
      BY <3>1, <3>2, GotoOnly DEF Inv
  <2>2. CASE SpawnOther(l)
    BY <2>2 DEF SpawnOther, Inv, TypeOK, PastStart, Labels, Rest, Terminating, Past
  <2> QED
    BY <2>1, <2>2
<1>3. /\ alive' \subseteq alive \cup
            {Of(l, role) : role \in {"web", "server", "worker", "inner", "other"}}
      /\ alive \subseteq alive' /\ alive' \subseteq Processes
  <2> DEFINE new == {Of(l, role) : role \in {"web", "server", "worker", "inner", "other"}}
  <2>1. new \subseteq Processes
    BY Names DEF Roles
  <2>2. alive' \subseteq alive \cup new /\ alive \subseteq alive'
    BY DEF Spawn, SpawnOther
  <2> HIDE DEF new
  <2>3. alive' \subseteq Processes
    BY <2>1, <2>2 DEF Inv, TypeOK
  <2> QED
    BY <2>2, <2>3 DEF new
<1>4. alive' \cap reused = {}
  <2>1. CASE Spawn(l)
    <3>1. l \notin recorded
      BY <2>1 DEF Spawn, Inv, PastStart, Past
    <3>2. \A p \in alive' : p \in alive \/ p.launcher = l
      BY <2>1, Names DEF Spawn
    <3>3. \A p \in reused : p \notin alive /\ p.launcher \in recorded
      BY DEF Inv, TypeOK, ReusedPast
    <3> QED
      BY <3>1, <3>2, <3>3
  <2>2. CASE SpawnOther(l)
    <3>1. Of(l, "other") \notin reused
      BY <2>2, Names DEF SpawnOther, Inv, ReusedPast
    <3> QED
      BY <2>2, <3>1 DEF SpawnOther, Inv, TypeOK
  <2> QED
    BY <2>1, <2>2
<1>5. \A m \in recorded, role \in {"web", "worker", "inner"} :
         Of(m, role) \in alive' => Of(m, role) \in alive
  <2>1. CASE Spawn(l)
    <3>1. l \notin recorded
      BY <2>1 DEF Spawn, Inv, PastStart, Past
    <3> QED
      BY <2>1, <3>1, Names DEF Spawn
  <2>2. CASE SpawnOther(l)
    BY <2>2, Names DEF SpawnOther
  <2> QED
    BY <2>1, <2>2
<1>6. TypeOK'
  BY <1>1, <1>2, <1>3, <1>4 DEF Inv, TypeOK, Labels, Rest, Terminating, Past
<1>7. FileRecorded'
  BY <1>1, <1>5, RecordedKept DEF Inv, FileRecorded
<1>8. SavedRecorded'
  BY <1>1, <1>2, <1>5, RecordedKept DEF Inv, SavedRecorded
<1>9. PastStart' /\ ReusedPast' /\ PortWeb'
  BY <1>1, <1>2, <1>5 DEF Inv, PastStart, ReusedPast, PortWeb
<1>10. GuestsHosted'
  <2>1. \A m : /\ Of(m, "webguest") \in alive' => Of(m, "webguest") \in alive
               /\ Of(m, "workerguest") \in alive' => Of(m, "workerguest") \in alive
    BY <1>3, Names
  <2> QED
    BY <1>1, <2>1 DEF Inv, GuestsHosted
<1> QED
  BY <1>6, <1>7, <1>8, <1>9, <1>10 DEF Inv

\* A launcher records the session that it has spawned.
LEMMA WriteInv ==
  ASSUME Inv, NEW l \in Launchers, Write(l)
  PROVE  Inv'
<1>1. UNCHANGED <<alive, reused, port, saved, heard, lost, faults>>
      /\ recorded' = recorded \cup {l}
      /\ pc[Start(l)] = "identified" /\ Goto(Start(l), "waiting")
  BY DEF Write, processes, failures
<1>2. Start(l) \in Tasks /\ "waiting" \in Labels /\ "waiting" \notin Terminating
      /\ "waiting" \in Past
  BY TaskNames DEF Labels, Terminating, Past
<1>3. /\ pc' \in [Tasks -> Labels] /\ pc'[Start(l)] = "waiting"
      /\ \A u \in Tasks \ {Start(l)} : pc'[u] = pc[u]
      /\ \A m \in recorded : pc'[Start(m)] \in Past
  BY <1>1, <1>2, GotoOnly DEF Inv
<1>4. Recorded(file', recorded', alive', reused', lost')
  <2> DEFINE f == [launcher |-> Of(l, "launcher"), web |-> Of(l, "web"),
                   worker |-> Of(l, "worker")]
  <2>1. file' = f /\ f \in FileType
    BY Names DEF Write, FileType, Roles
  <2> QED
    BY <1>1, <2>1, Names DEF Recorded, RecordedAs
<1>5. TypeOK'
  BY <1>1, <1>3, <1>4 DEF Inv, TypeOK, Recorded, Labels, Rest, Terminating, Past
<1>6. FileRecorded'
  BY <1>4 DEF FileRecorded
<1>7. SavedRecorded'
  BY <1>1, <1>2, <1>3, RecordedKept DEF Inv, SavedRecorded
<1>8. PastStart' /\ ReusedPast' /\ GuestsHosted' /\ PortWeb'
  BY <1>1, <1>2, <1>3 DEF Inv, PastStart, ReusedPast, GuestsHosted, PortWeb
<1> QED
  BY <1>5, <1>6, <1>7, <1>8 DEF Inv

-----------------------------------------------------------------------------
(***************************************************************************)
(* Sessions that follow each other.                                        *)
(*                                                                         *)
(* When no command is given while another one is carried out, a start      *)
(* command that has not recorded its session is alone, and every task that *)
(* terminates a session terminates the one that is recorded.               *)
(***************************************************************************)

\* A start command that has not recorded its session.
Preparing == {"clear", "prepared", "spawned", "identified"}
Before == Terminating \cup Preparing

\* A launcher is alive from the first step of its start command to its end.
Lives ==
    \A l \in Launchers : Of(l, "launcher") \in alive <=> pc[Start(l)] \notin {"idle", "gone"}

\* Only a start command waits for its session.
Waits == \A t \in Tasks : pc[t] \in {"waiting", "ready", "failing"} => t[1] = "start"

\* Until a start command has recorded its session nothing else runs.
Alone ==
    \A l \in Launchers : pc[Start(l)] \in Before =>
        /\ \A u \in Tasks \ {Start(l)} : ~Busy(u)
        /\ \A m \in Launchers \ {l} : Of(m, "launcher") \notin alive

\* When it prepares a session no other one is recorded.
NothingRecorded == \A l \in Launchers : pc[Start(l)] \in Preparing => file = NoFile

\* Whoever terminates a session terminates the recorded one.
OneSession ==
    \A t \in Tasks : pc[t] \in Terminating =>
        /\ file # NoFile => file.launcher = saved[t].launcher
        /\ \A u \in Tasks : pc[u] \in Terminating => saved[u].launcher = saved[t].launcher

\* The worker is dead or was missed when a task goes on to the web server, and that one when
\* it removes the file.
Session(t) == saved[t].launcher.launcher
Terminated(t) ==
    /\ pc[t] \in {"web", "web2", "rm"} => Of(Session(t), "worker") \notin alive \ lost
    /\ pc[t] = "rm" => Of(Session(t), "web") \notin alive \ lost

\* A recorded session has ended, but for what was missed, or is the one in the file.
Covered ==
    \A l \in recorded :
        \/ {Of(l, "web"), Of(l, "worker")} \cap alive \subseteq lost
        \/ file # NoFile /\ file.launcher = Of(l, "launcher")

Seq ==
    /\ Lives /\ Waits /\ Alone /\ NothingRecorded /\ OneSession
    /\ \A t \in Tasks : Terminated(t)
    /\ Covered

\* How a step may change where a task is: not at all; to an end; from waiting to the end
\* of it; on in preparing a session; on in terminating one.
Moves(t) ==
    \/ pc'[t] = pc[t] /\ saved'[t] = saved[t]
    \/ pc'[t] \in {"done", "gone"}
    \/ t[1] = "start" /\ pc[t] = "waiting" /\ pc'[t] \in {"ready", "failing"}
    \/ t[1] = "start" /\ pc[t] \in Before /\ pc'[t] \in Preparing /\ file' = NoFile
    \/ /\ pc[t] \in Terminating /\ pc'[t] \in Terminating /\ saved'[t] = saved[t]
       /\ Terminated(t)'

\* The web server and the worker of a recorded session do not come back, nor a launcher; what
\* was missed stays so.
NoneRevived ==
    /\ \A l \in recorded, role \in {"web", "worker"} : Of(l, role) \in alive' => Of(l, role) \in alive
    /\ \A l \in Launchers : Of(l, "launcher") \in alive' => Of(l, "launcher") \in alive
    /\ lost \subseteq lost'

\* Steps that begin no command and record no session.
LEMMA SeqKept ==
  ASSUME Inv, Seq, recorded' = recorded, NoneRevived, Lives', \A t \in Tasks : Moves(t),
         \/ file' = file
         \/ Covered' /\ (file' = NoFile \/ \E t \in Tasks :
                            pc[t] \in Terminating /\ file'.launcher = saved[t].launcher)
  PROVE  Seq'
<1> USE DEF Terminating, Preparing, Before
<1>1. Waits'
  BY DEF Seq, Waits, Moves
<1>2. Alone'
  <2> SUFFICES ASSUME NEW l \in Launchers, pc'[Start(l)] \in Before
               PROVE  /\ \A u \in Tasks \ {Start(l)} : pc'[u] \in Rest
                      /\ \A m \in Launchers \ {l} : Of(m, "launcher") \notin alive'
    BY DEF Alone, Busy
  <2>1. Start(l) \in Tasks
    BY TaskNames
  <2>2. pc[Start(l)] \in Before
    BY <2>1 DEF Moves
  <2>3. \A u \in Tasks \ {Start(l)} : pc[u] \in Rest
    BY <2>2 DEF Seq, Alone, Busy
  <2>4. \A u \in Tasks \ {Start(l)} : pc'[u] \in Rest
    BY <2>3 DEF Moves, Rest
  <2> QED
    BY <2>2, <2>4 DEF Seq, Alone, NoneRevived
<1>3. NothingRecorded'
  <2> SUFFICES ASSUME NEW l \in Launchers, pc'[Start(l)] \in Preparing, file' # NoFile
               PROVE  FALSE
    BY DEF NothingRecorded
  <2>1. Start(l) \in Tasks
    BY TaskNames
  <2>2. pc[Start(l)] \in Preparing
    BY <2>1 DEF Moves
  <2>3. file = NoFile
    BY <2>2 DEF Seq, NothingRecorded
  <2>4. PICK t \in Tasks : pc[t] \in Terminating
    BY <2>3
  <2> QED
    BY <2>2, <2>4 DEF Seq, Alone, Busy, Rest
<1>4. OneSession'
  <2>1. \A t \in Tasks : pc'[t] \in Terminating =>
           pc[t] \in Terminating /\ saved'[t] = saved[t]
    BY DEF Moves
  <2> SUFFICES ASSUME NEW t \in Tasks, pc'[t] \in Terminating
               PROVE  /\ file' # NoFile => file'.launcher = saved'[t].launcher
                      /\ \A u \in Tasks : pc'[u] \in Terminating =>
                            saved'[u].launcher = saved'[t].launcher
    BY DEF OneSession
  <2> QED
    BY <2>1 DEF Seq, OneSession
<1>5. ASSUME NEW t \in Tasks
      PROVE  Terminated(t)'
  <2>1. CASE pc'[t] = pc[t] /\ saved'[t] = saved[t]
    <3> SUFFICES ASSUME pc[t] \in {"web", "web2", "rm"}
                 PROVE  /\ Of(Session(t), "worker") \notin alive' \ lost'
                        /\ pc[t] = "rm" => Of(Session(t), "web") \notin alive' \ lost'
      BY <2>1 DEF Terminated, Session
    <3>1. Session(t) \in recorded
      BY DEF Inv, SavedRecorded, Recorded, Session
    <3> QED
      BY <3>1 DEF Seq, Terminated, NoneRevived
  <2>2. CASE pc'[t] \notin Terminating
    BY <2>2 DEF Terminated
  <2> QED
    BY <2>1, <2>2 DEF Moves
<1>6. Covered'
  <2>1. CASE file' = file
    BY <2>1 DEF Seq, Covered, NoneRevived
  <2> QED
    BY <2>1
<1> QED
  BY <1>1, <1>2, <1>3, <1>4, <1>5, <1>6 DEF Seq

\* A step of one task, while every launcher lives on.
LEMMA GotoSeq ==
  ASSUME Inv, Seq, recorded' = recorded,
         NEW t \in Tasks, NEW a \in Labels \ {"idle", "gone"}, pc[t] \notin {"idle", "gone"},
         Goto(t, a), \A u \in Tasks \ {t} : saved'[u] = saved[u], Moves(t),
         NoneRevived, \A l \in Launchers : Of(l, "launcher") \in alive => Of(l, "launcher") \in alive',
         \/ file' = file
         \/ /\ Covered'
            /\ \/ file' = NoFile
               \/ pc[t] \in Terminating /\ file'.launcher = saved[t].launcher
  PROVE  Seq'
<1>1. pc'[t] = a /\ \A u \in Tasks \ {t} : pc'[u] = pc[u]
  BY DEF Inv, TypeOK, Goto
<1>2. \A u \in Tasks : Moves(u)
  BY <1>1 DEF Moves
<1>3. Lives'
  <2> SUFFICES ASSUME NEW l \in Launchers
               PROVE  Of(l, "launcher") \in alive' <=> pc'[Start(l)] \notin {"idle", "gone"}
    BY DEF Lives
  <2>1. Of(l, "launcher") \in alive' <=> Of(l, "launcher") \in alive
    BY DEF NoneRevived
  <2>2. Start(l) \in Tasks
    BY TaskNames
  <2>3. pc'[Start(l)] \in {"idle", "gone"} <=> pc[Start(l)] \in {"idle", "gone"}
    BY <1>1, <2>2
  <2> QED
    BY <2>1, <2>3 DEF Seq, Lives
<1> QED
  BY <1>2, <1>3, SeqKept

\* No task takes a step; a launcher is not concerned.
LEMMA StillSeq ==
  ASSUME Inv, Seq, UNCHANGED <<file, recorded, pc, saved>>, NoneRevived,
         \A l \in Launchers : Of(l, "launcher") \in alive => Of(l, "launcher") \in alive'
  PROVE  Seq'
<1>1. \A u \in Tasks : Moves(u)
  BY DEF Moves
<1>2. Lives'
  BY DEF Seq, Lives, NoneRevived
<1> QED
  BY <1>1, <1>2, SeqKept

\* A launcher ends with the tasks that run in it.
LEMMA GoneSeq ==
  ASSUME Inv, Seq, NEW l \in Launchers, LauncherEnds(l), UNCHANGED <<recorded, failures>>,
         file' = file \/ (Covered' /\ file' = NoFile)
  PROVE  Seq'
<1>1. \A t \in Tasks : \/ pc'[t] = pc[t] /\ saved'[t] = saved[t]
                       \/ pc'[t] = "gone" /\ saved'[t] = NoFile
  BY DEF LauncherEnds
<1>2. \A t \in Tasks : Moves(t)
  BY <1>1 DEF Moves
<1>3. NoneRevived
  BY DEF NoneRevived, LauncherEnds, failures
<1>4. Lives'
  <2> SUFFICES ASSUME NEW m \in Launchers
               PROVE  Of(m, "launcher") \in alive' <=> pc'[Start(m)] \notin {"idle", "gone"}
    BY DEF Lives
  <2>1. Start(m) \in Tasks /\ (Start(m) \in TasksOf(l) <=> m = l)
    BY TaskNames DEF TasksOf, Start, Shutdown, OnExit
  <2>2. pc'[Start(m)] = IF m = l THEN "gone" ELSE pc[Start(m)]
    BY <2>1 DEF LauncherEnds
  <2>3. Of(m, "launcher") \in alive' <=> Of(m, "launcher") \in alive /\ m # l
    BY Names DEF LauncherEnds
  <2> QED
    BY <2>2, <2>3 DEF Seq, Lives
<1> QED
  BY <1>2, <1>3, <1>4, SeqKept

\* Processes that end are web servers, workers and their children.
LEMMA EndedRoles ==
  ASSUME NEW ended, NEW how, End(ended, how), \A p \in ended : p.role # "launcher",
         lost \subseteq lost'
  PROVE  /\ NoneRevived
         /\ \A l \in Launchers : Of(l, "launcher") \in alive => Of(l, "launcher") \in alive'
BY Names DEF End, NoneRevived

\* The tree of a process that is not a launcher has no launcher.
LEMMA TreeRoles ==
  ASSUME NEW p, p.role # "launcher"
  PROVE  \A q \in Tree(p) \cup Children(p) : q.role # "launcher"
BY Names DEF Tree, Children

\* A process that exits by itself is not a launcher.
LEMMA ExitsSeq ==
  ASSUME Inv, Seq, NEW p, NEW how, Exits(p, how)
  PROVE  Seq'
<1>1. PICK ended \in {{p}, {p} \cup Children(p)} : End(ended, how)
  BY DEF Exits
<1>2. p.role # "launcher"
  BY DEF Exits
<1>3. \A q \in ended : q.role # "launcher"
  BY <1>1, <1>2, TreeRoles
<1>4. UNCHANGED <<file, recorded, pc, saved, lost>>
  BY DEF Exits, failures
<1> QED
  BY <1>1, <1>3, <1>4, EndedRoles, StillSeq

\* What is spawned besides is a second child, and what listens was alive.
LEMMA WorldSeq ==
  ASSUME Inv, Seq, NEW l \in Launchers, SpawnOther(l) \/ Listen(l)
  PROVE  Seq'
<1>1. /\ NoneRevived /\ UNCHANGED <<file, recorded, pc, saved>>
      /\ \A m \in Launchers : Of(m, "launcher") \in alive => Of(m, "launcher") \in alive'
  BY Names DEF SpawnOther, Listen, NoneRevived, failures
<1> QED
  BY <1>1, StillSeq

\* A task that goes on from terminating the worker or the web server has seen it dead, or
\* has missed it.
LEMMA TerminateSeq ==
  ASSUME Inv, Seq, NEW t \in Tasks, Ask(t) \/ Enforce(t) \/ Miss(t)
  PROVE  Seq'
<1>1. pc[t] \in {"worker", "worker2", "web", "web2"}
  BY DEF Ask, Enforce, Miss
<1>2. UNCHANGED <<file, recorded, saved>>
  BY DEF Ask, Enforce, Miss
<1>3. Recorded(saved[t], recorded, alive, reused, lost)
  BY <1>1 DEF Inv, SavedRecorded, Terminating
<1>4. Target(t).role # "launcher"
  BY <1>3, RecordNames DEF Target
<1>5. ASSUME Kill(Target(t))
      PROVE  /\ NoneRevived /\ Target(t) \notin alive' /\ alive' \subseteq alive
             /\ \A l \in Launchers : Of(l, "launcher") \in alive => Of(l, "launcher") \in alive'
  <2>1. lost' = lost
    BY <1>5 DEF Kill, failures
  <2>2. CASE Target(t) \in alive
    <3>1. End(Tree(Target(t)), "failed") /\ Target(t) \in Tree(Target(t))
      BY <1>5, <2>2 DEF Kill, Tree
    <3> QED
      BY <1>4, <2>1, <3>1, TreeRoles, EndedRoles DEF End
  <2>3. CASE Target(t) \notin alive
    BY <1>5, <2>1, <2>3 DEF Kill, NoneRevived
  <2> QED
    BY <2>2, <2>3
<1>6. ASSUME UNCHANGED alive, lost \subseteq lost'
      PROVE  /\ NoneRevived /\ alive' \subseteq alive
             /\ \A l \in Launchers : Of(l, "launcher") \in alive => Of(l, "launcher") \in alive'
  BY <1>6 DEF NoneRevived
<1>7. /\ NoneRevived /\ alive' \subseteq alive
      /\ \A l \in Launchers : Of(l, "launcher") \in alive => Of(l, "launcher") \in alive'
  <2>1. CASE Ask(t) \/ Enforce(t)
    BY <1>5, <1>6, <2>1 DEF Ask, Enforce, processes, failures
  <2>2. CASE Miss(t)
    BY <1>6, <2>2 DEF Miss, processes
  <2> QED
    BY <2>1, <2>2
<1>8. PICK a \in {"worker2", "web", "web2", "rm"} :
         /\ Goto(t, a)
         /\ \/ pc[t] = "worker" /\ a = "worker2"
            \/ pc[t] = "web" /\ a = "web2"
            \/ a = Following(t) /\ Target(t) \notin alive' \ lost'
  <2>1. CASE Ask(t)
    BY <2>1 DEF Ask, Following, Matches, processes
  <2>2. CASE Enforce(t)
    <3>1. Target(t) \notin alive'
      BY <1>5, <2>2 DEF Enforce, Matches, processes
    <3> QED
      BY <2>2, <3>1 DEF Enforce, Following
  <2>3. CASE Miss(t)
    BY <2>3 DEF Miss, Following
  <2> QED
    BY <2>1, <2>2, <2>3
<1>9. pc'[t] = a /\ a \in Labels \ {"idle", "gone"} /\ a \in Terminating
  BY <1>8 DEF Inv, TypeOK, Goto, Labels, Terminating
<1>10. Terminated(t)'
  <2> DEFINE l == Session(t)
  <2>1. /\ saved[t].web = Of(l, "web") \/ Of(l, "web") \notin alive \ lost
        /\ saved[t].worker = Of(l, "worker") \/ Of(l, "worker") \notin alive \ lost
    BY <1>3 DEF Recorded, RecordedAs, Session
  <2>2. l' = l
    BY <1>2 DEF Session
  <2> HIDE DEF l
  <2> SUFFICES /\ a \in {"web", "web2", "rm"} => Of(l, "worker") \notin alive' \ lost'
               /\ a = "rm" => Of(l, "web") \notin alive' \ lost'
    BY <1>9, <2>2 DEF Terminated, l
  <2>3. \A p : p \notin alive \ lost => p \notin alive' \ lost'
    BY <1>7 DEF NoneRevived
  <2>4. CASE pc[t] \in {"worker", "worker2"}
    BY <1>8, <2>1, <2>3, <2>4 DEF Following, Target
  <2>5. CASE pc[t] \in {"web", "web2"}
    <3>1. Of(l, "worker") \notin alive \ lost
      BY <2>5 DEF Seq, Terminated, l
    <3> QED
      BY <1>8, <2>1, <2>3, <2>5, <3>1 DEF Following, Target
  <2> QED
    BY <1>1, <2>4, <2>5
<1>11. Moves(t)
  BY <1>1, <1>2, <1>9, <1>10 DEF Moves, Terminating
<1> QED
  BY <1>1, <1>2, <1>7, <1>8, <1>9, <1>11, GotoSeq

\* Removing the file uncovers nothing: what it recorded has been terminated.
LEMMA RemoveSeq ==
  ASSUME Inv, Seq, NEW t \in Tasks, Remove(t)
  PROVE  Seq'
<1>1. pc[t] = "rm" /\ file' = NoFile /\ UNCHANGED <<recorded, failures>> /\ lost' = lost
  BY DEF Remove, failures
<1>2. alive' \subseteq alive
  BY DEF Remove, LauncherEnds, processes
<1>3. Covered'
  <2> SUFFICES ASSUME NEW l \in recorded
               PROVE  {Of(l, "web"), Of(l, "worker")} \cap alive \subseteq lost
    BY <1>1, <1>2 DEF Covered
  <2>1. CASE file # NoFile /\ file.launcher = Of(l, "launcher")
    <3>1. saved[t].launcher = Of(l, "launcher")
      BY <1>1, <2>1 DEF Seq, OneSession, Terminating
    <3>2. Session(t) = l
      BY <3>1, Names DEF Session
    <3> QED
      BY <1>1, <3>2 DEF Seq, Terminated
  <2> QED
    BY <2>1 DEF Seq, Covered
<1>4. CASE t[1] = "shutdown"
  BY <1>1, <1>3, <1>4, TaskNames, GoneSeq DEF Remove
<1>5. CASE t[1] # "shutdown"
  <2>1. /\ Goto(t, Cleared(t)) /\ UNCHANGED alive
        /\ saved' = [saved EXCEPT ![t] = NoFile]
    BY <1>5 DEF Remove, processes
  <2>2. Cleared(t) \in Labels \ {"idle", "gone"} /\ pc'[t] = Cleared(t)
    BY <2>1 DEF Inv, TypeOK, Goto, Cleared, Labels, Rest
  <2>3. Moves(t)
    BY <1>1, <2>2 DEF Moves, Cleared, Before, Terminating, Preparing
  <2>4. \A u \in Tasks \ {t} : saved'[u] = saved[u]
    BY <2>1 DEF Inv, TypeOK
  <2>5. NoneRevived
    BY <1>1, <2>1 DEF NoneRevived
  <2> QED
    BY <1>1, <1>3, <2>1, <2>2, <2>3, <2>4, <2>5, GotoSeq
<1> QED
  BY <1>4, <1>5

\* A start command goes on to the writing of the file, or ends.
LEMMA StartingSeq ==
  ASSUME Inv, Seq, NEW l \in Launchers,
         Prepare(l) \/ Spawn(l) \/ Identify(l) \/ Ready(l) \/ WaitFails(l)
  PROVE  Seq'
<1> DEFINE t == Start(l)
<1>1. t \in Tasks /\ t[1] = "start"
  BY TaskNames DEF Start
<1>2. UNCHANGED <<file, recorded, saved>>
  BY DEF Prepare, Spawn, Identify, Ready, WaitFails, processes
<1>3. PICK a \in {"prepared", "spawned", "identified", "done", "ready", "failing"} :
         /\ Goto(t, a) /\ pc[t] \in Preparing \cup {"waiting"}
         /\ a \in {"ready", "failing"} <=> pc[t] = "waiting"
  BY DEF Prepare, Spawn, Identify, Ready, WaitFails, Preparing
<1>4. a \in Labels \ {"idle", "gone"} /\ pc'[t] = a
  BY <1>1, <1>3 DEF Inv, TypeOK, Goto, Labels, Rest, Past
<1>5. Moves(t)
  <2>1. pc[t] \in Preparing => file = NoFile
    BY DEF Seq, NothingRecorded
  <2> QED
    BY <1>1, <1>2, <1>3, <1>4, <2>1 DEF Moves, Before, Preparing
<1>6. /\ NoneRevived
      /\ \A m \in Launchers : Of(m, "launcher") \in alive => Of(m, "launcher") \in alive'
  <2>1. CASE UNCHANGED alive /\ lost \subseteq lost'
    BY <2>1 DEF NoneRevived
  <2>2. CASE Spawn(l)
    <3>1. l \notin recorded /\ lost' = lost
      BY <2>2 DEF Spawn, Inv, PastStart, Past, failures
    <3> QED
      BY <2>2, <3>1, Names DEF Spawn, NoneRevived
  <2>3. CASE Identify(l)
    <3> DEFINE both == {Of(l, "web"), Of(l, "worker")}
    <3>1. PICK missed : /\ lost \subseteq lost'
                        /\ \/ UNCHANGED alive
                           \/ End(UNION {Tree(p) : p \in (both \cap alive) \ missed}, "failed")
      BY <2>3 DEF Identify, processes
    <3>2. \A q \in UNION {Tree(p) : p \in (both \cap alive) \ missed} : q.role # "launcher"
      BY TreeRoles, Names
    <3> HIDE DEF both
    <3> QED
      BY <2>1, <3>1, <3>2, EndedRoles
  <2>4. CASE Prepare(l) \/ Ready(l) \/ WaitFails(l)
    BY <2>1, <2>4 DEF Prepare, Ready, WaitFails, processes, failures
  <2> QED
    BY <2>2, <2>3, <2>4
<1>7. pc[t] \notin {"idle", "gone"}
  BY <1>3 DEF Preparing
<1> HIDE DEF t
<1> QED
  BY <1>1, <1>2, <1>3, <1>4, <1>5, <1>6, <1>7, GotoSeq

\* What is written back is still the session that the file recorded.
LEMMA UpgradeSeq ==
  ASSUME Inv, Seq, NEW t \in Tasks, Upgrade(t)
  PROVE  Seq'
<1>1. UNCHANGED <<alive, recorded, lost>> /\ pc[t] = "upgrade" /\ file' = saved[t]
  BY DEF Upgrade, processes, failures
<1>2. PICK a \in {"done", "worker"} :
         Goto(t, a) /\ saved' = IF a = "done" THEN [saved EXCEPT ![t] = NoFile] ELSE saved
  BY DEF Upgrade
<1>3. pc'[t] = a /\ a \in Labels \ {"idle", "gone"}
  BY <1>2 DEF Inv, TypeOK, Goto, Labels, Rest, Terminating
<1>4. \A u \in Tasks \ {t} : saved'[u] = saved[u]
  BY <1>2 DEF Inv, TypeOK
<1>5. Moves(t)
  BY <1>1, <1>2, <1>3 DEF Moves, Terminating, Terminated
<1>6. pc[t] \in Terminating /\ saved[t] # NoFile
  BY <1>1, NoFileAssumption DEF Inv, SavedRecorded, Recorded, Terminating
<1>7. Covered'
  BY <1>1, <1>6 DEF Seq, Covered, OneSession
<1>8. NoneRevived
  BY <1>1 DEF NoneRevived
<1> QED
  BY <1>1, <1>2, <1>3, <1>4, <1>5, <1>6, <1>7, <1>8, GotoSeq

\* A session is recorded in place of none.
LEMMA WriteSeq ==
  ASSUME Inv, Seq, NEW l \in Launchers, Write(l)
  PROVE  Seq'
<1> DEFINE t == Start(l)
<1>1. UNCHANGED <<alive, saved, lost>> /\ recorded' = recorded \cup {l}
      /\ pc[t] = "identified" /\ Goto(t, "waiting")
  BY DEF Write, processes, failures
<1>2. t \in Tasks /\ t[1] = "start"
  BY TaskNames DEF Start
<1>3. pc'[t] = "waiting" /\ \A u \in Tasks \ {t} : pc'[u] = pc[u] /\ ~Busy(u)
  BY <1>1, <1>2 DEF Inv, TypeOK, Goto, Seq, Alone, Before, Preparing
<1>4. file = NoFile
  BY <1>1 DEF Seq, NothingRecorded, Preparing
<1>5. file' # NoFile /\ file'.launcher = Of(l, "launcher")
  <2>1. file' = [launcher |-> Of(l, "launcher"), web |-> Of(l, "web"), worker |-> Of(l, "worker")]
    BY DEF Write
  <2>2. file' \in FileType
    BY <2>1, Names DEF FileType, Roles
  <2> QED
    BY <2>1, <2>2, NoFileAssumption
<1>6. \A u \in Tasks : pc'[u] \notin Before
  BY <1>3 DEF Busy, Rest, Before, Terminating, Preparing
<1>7. Lives'
  <2>1. \A m \in Launchers : Start(m) \in Tasks
    BY TaskNames
  <2>2. \A m \in Launchers : pc'[Start(m)] \in {"idle", "gone"} <=> pc[Start(m)] \in {"idle", "gone"}
    BY <1>1, <1>3, <2>1
  <2> QED
    BY <1>1, <2>2 DEF Seq, Lives
<1>8. Waits'
  BY <1>2, <1>3 DEF Seq, Waits
<1>9. Alone' /\ NothingRecorded' /\ OneSession' /\ \A u \in Tasks : Terminated(u)'
  <2>1. \A m \in Launchers : Start(m) \in Tasks
    BY TaskNames
  <2> QED
    BY <1>6, <2>1 DEF Alone, NothingRecorded, OneSession, Terminated, Before, Terminating, Preparing
<1>10. Covered'
  BY <1>1, <1>4, <1>5 DEF Seq, Covered
<1> QED
  BY <1>7, <1>8, <1>9, <1>10 DEF Seq

\* When a start command begins no other command runs, and no launcher is alive.
LEMMA StartBegins ==
  ASSUME Sequential, Inv, Seq, NEW t \in Tasks, Begins(t), t[1] = "start"
  PROVE  /\ \A u \in Tasks : ~Busy(u)
         /\ \A m \in Launchers : Of(m, "launcher") \notin alive
<1>1. /\ \A u \in Tasks : ~Busy(u) \/ pc[u] = "waiting"
      /\ \A m \in Launchers : Of(m, "launcher") \notin alive
  BY DEF Begins
<1>2. ASSUME NEW u \in Tasks, pc[u] = "waiting"
      PROVE  FALSE
  <2>1. u[1] = "start"
    BY <1>2 DEF Seq, Waits
  <2>2. u[2] \in Launchers /\ u = Start(u[2])
    BY <2>1, TaskNames
  <2> QED
    BY <1>1, <1>2, <2>2 DEF Seq, Lives
<1> QED
  BY <1>1, <1>2

\* Nothing begins while a start command has not recorded its session.
LEMMA NoneBegins ==
  ASSUME Sequential, Inv, Seq, NEW t \in Tasks, Begins(t),
         NEW l \in Launchers, pc[Start(l)] \in Before
  PROVE  FALSE
<1> USE DEF Before, Terminating, Preparing
<1>1. Start(l) \in Tasks /\ Busy(Start(l)) /\ pc[Start(l)] # "waiting"
  BY TaskNames DEF Busy, Rest
<1>2. CASE t[1] \in {"start", "stop"}
  BY <1>1, <1>2 DEF Begins
<1>3. CASE t[1] \notin {"start", "stop"}
  <2>1. pc[Start(t[2])] \in {"waiting", "ready", "failing"} /\ t[2] \in Launchers
    BY <1>3, TaskNames DEF Begins
  <2>2. Of(t[2], "launcher") \in alive
    BY <2>1 DEF Seq, Lives
  <2>3. t[2] # l
    BY <2>1
  <2> QED
    BY <2>1, <2>2, <2>3 DEF Seq, Alone
<1> QED
  BY <1>2, <1>3

\* A command that reconciles the file terminates what is recorded, as all others do.
LEMMA ReconcileSeq ==
  ASSUME Sequential, Inv, Seq, NEW t \in Tasks, Reconcile(t)
  PROVE  Seq'
<1> USE DEF Before, Terminating, Preparing
<1>1. /\ UNCHANGED <<reused, port, file, recorded, heard>> /\ pc[t] = "idle"
      /\ lost \subseteq lost'
      /\ alive' = IF t[1] = "start" THEN alive \cup {Of(t[2], "launcher")} ELSE alive
  BY ReconcileDoes
<1>2. PICK a \in {"clear", "done", "upgrade", "worker"} :
         Goto(t, a) /\ (a = "clear" => t[1] = "start" /\ file = NoFile)
  BY ReconcileDoes
<1>3. pc'[t] = a /\ \A u \in Tasks \ {t} : pc'[u] = pc[u]
  BY <1>2 DEF Inv, TypeOK, Goto
<1>4. /\ \A u \in Tasks \ {t} : saved'[u] = saved[u]
      /\ \/ a \in {"clear", "done"}
         \/ file # NoFile /\ saved'[t].launcher = file.launcher
  BY <1>3, ReconcileDoes DEF Inv, TypeOK
<1>5. Begins(t)
  BY DEF Reconcile
<1>6. \A m \in Launchers : Start(m) \in Tasks /\ Start(m)[1] = "start" /\ Start(m)[2] = m
  BY TaskNames DEF Start
<1>7. \A l, role : role # "launcher" => (Of(l, role) \in alive' <=> Of(l, role) \in alive)
  BY <1>1, Names
<1>8. Lives'
  <2> SUFFICES ASSUME NEW m \in Launchers
               PROVE  Of(m, "launcher") \in alive' <=> pc'[Start(m)] \notin {"idle", "gone"}
    BY DEF Lives
  <2>1. CASE t = Start(m)
    BY <1>1, <1>3, <1>6, <2>1
  <2>2. CASE t # Start(m)
    <3>1. Of(m, "launcher") \in alive' <=> Of(m, "launcher") \in alive
      BY <1>1, <2>2, Names, TaskNames
    <3> QED
      BY <1>3, <1>6, <2>2, <3>1 DEF Seq, Lives
  <2> QED
    BY <2>1, <2>2
<1>9. Waits'
  BY <1>3 DEF Seq, Waits
<1>10. ASSUME NEW l \in Launchers, pc'[Start(l)] \in Before
       PROVE  /\ t = Start(l) /\ \A u \in Tasks : ~Busy(u)
              /\ \A m \in Launchers : Of(m, "launcher") \notin alive
  <2>1. t = Start(l)
    BY <1>3, <1>5, <1>6, <1>10, NoneBegins
  <2> QED
    BY <1>5, <1>6, <2>1, StartBegins
<1>11. Alone'
  <2> SUFFICES ASSUME NEW l \in Launchers, pc'[Start(l)] \in Before
               PROVE  /\ \A u \in Tasks \ {Start(l)} : pc'[u] \in Rest
                      /\ \A m \in Launchers \ {l} : Of(m, "launcher") \notin alive'
    BY DEF Alone, Busy
  <2>1. /\ t = Start(l) /\ \A u \in Tasks : ~Busy(u)
        /\ \A m \in Launchers : Of(m, "launcher") \notin alive
    BY <1>10
  <2> QED
    BY <1>1, <1>3, <1>6, <2>1, Names DEF Busy
<1>12. NothingRecorded'
  BY <1>1, <1>2, <1>3, <1>10 DEF NothingRecorded
<1>13. OneSession'
  <2>1. \A u \in Tasks : pc'[u] \in Terminating /\ file # NoFile =>
           saved'[u].launcher = file.launcher
    BY <1>3, <1>4 DEF Seq, OneSession
  <2>2. \A u, v \in Tasks : pc'[u] \in Terminating /\ pc'[v] \in Terminating /\ file = NoFile =>
           saved'[u].launcher = saved'[v].launcher
    BY <1>3, <1>4 DEF Seq, OneSession
  <2> QED
    BY <1>1, <2>1, <2>2 DEF OneSession
<1>14. ASSUME NEW u \in Tasks
       PROVE  Terminated(u)'
  <2>1. \A p : p.role # "launcher" /\ p \notin alive \ lost => p \notin alive' \ lost'
    BY <1>1, Names
  <2>2. \A l : Of(l, "web").role # "launcher" /\ Of(l, "worker").role # "launcher"
    BY Names
  <2> QED
    BY <1>3, <1>4, <2>1, <2>2 DEF Seq, Terminated, Session
<1>15. Covered'
  BY <1>1, <1>7 DEF Seq, Covered
<1> QED
  BY <1>8, <1>9, <1>11, <1>12, <1>13, <1>14, <1>15 DEF Seq

\* Every step keeps it.
LEMMA NextSeq ==
  ASSUME Sequential, Inv, Seq, [Next]_vars
  PROVE  Seq'
<1>1. ASSUME NEW p \in Processes, Reuse(p) \/ \E how \in {"failed", "clean"} : Exits(p, how)
      PROVE  Seq'
  <2>1. CASE Reuse(p)
    <3>1. UNCHANGED <<file, recorded, pc, saved, lost>> /\ alive \subseteq alive'
      BY <2>1 DEF Reuse, failures
    <3>2. \A q \in alive' : q \in alive \/ q.role \in {"webguest", "workerguest"}
      BY <2>1, GuestNames DEF Reuse
    <3>3. NoneRevived
      BY <3>1, <3>2, Names DEF NoneRevived
    <3> QED
      BY <3>1, <3>3, StillSeq
  <2> QED
    BY <1>1, <2>1, ExitsSeq
<1>2. ASSUME NEW l \in Launchers, Crash(l) \/ SpawnOther(l) \/ Listen(l)
      PROVE  Seq'
  <2>1. Crash(l) => Seq'
    BY GoneSeq DEF Crash
  <2> QED
    BY <1>2, <2>1, WorldSeq
<1>3. ASSUME NEW t \in Tasks, Reconcile(t) \/ Continue(t)
      PROVE  Seq'
  BY <1>3, ReconcileSeq, UpgradeSeq, TerminateSeq, RemoveSeq DEF Continue
<1>4. ASSUME NEW l \in Launchers, Starting(l) \/ ShutdownEnds(l)
      PROVE  Seq'
  <2>1. StartEnds(l) \/ ShutdownEnds(l) => Seq'
    BY GoneSeq DEF StartEnds, ShutdownEnds, failures
  <2> QED
    BY <1>4, <2>1, StartingSeq, WriteSeq DEF Starting
<1>5. CASE UNCHANGED vars
  BY <1>5, StillSeq DEF vars, processes, failures, NoneRevived
<1> QED
  BY <1>1, <1>2, <1>3, <1>4, <1>5 DEF Next, World

-----------------------------------------------------------------------------
(***************************************************************************)
(* The theorems.                                                           *)
(***************************************************************************)

\* Nothing is recorded in the beginning; children of earlier processes may be left.
LEMMA InitInv ==
  ASSUME Init
  PROVE  Inv
<1>1. TypeOK
  BY Names DEF Init, TypeOK, Rest, Roles
<1>2. GuestsHosted
  BY Names DEF Init, GuestsHosted
<1> QED
  BY <1>1, <1>2
  DEF Init, Inv, FileRecorded, SavedRecorded, PastStart, ReusedPast, PortWeb, Terminating

\* Every step keeps the invariant.
LEMMA NextInv ==
  ASSUME Inv, [Next]_vars
  PROVE  Inv'
<1>1. ASSUME NEW p \in Processes, Reuse(p) \/ \E how \in {"failed", "clean"} : Exits(p, how)
      PROVE  Inv'
  BY <1>1, ReuseInv, ExitsInv
<1>2. ASSUME NEW l \in Launchers, Crash(l) \/ SpawnOther(l) \/ Listen(l)
      PROVE  Inv'
  <2>1. CASE Crash(l)
    BY <2>1, LauncherEndsInv DEF Crash
  <2>2. CASE SpawnOther(l)
    BY <2>2, SpawnInv
  <2>3. CASE Listen(l)
    <3>1. port' \in {Of(l, "web"), Of(l, "server")} \cap alive
      BY <2>3 DEF Listen
    <3> QED
      BY <2>3, <3>1, ListenInv DEF Listen
  <2> QED
    BY <1>2, <2>1, <2>2, <2>3
<1>3. ASSUME NEW t \in Tasks, Reconcile(t) \/ Continue(t)
      PROVE  Inv'
  BY <1>3, ReconcileInv, UpgradeInv, TerminateInv, RemoveInv DEF Continue
<1>4. ASSUME NEW l \in Launchers, Starting(l) \/ ShutdownEnds(l)
      PROVE  Inv'
  <2>1. CASE StartEnds(l) \/ ShutdownEnds(l)
    BY <2>1, LauncherEndsInv DEF StartEnds, ShutdownEnds
  <2>2. CASE Spawn(l)
    BY <2>2, SpawnInv
  <2>3. CASE Write(l)
    BY <2>3, WriteInv
  <2>4. CASE Prepare(l) \/ Identify(l) \/ Ready(l) \/ WaitFails(l)
    BY <2>4, StartingInv
  <2> QED
    BY <1>4, <2>1, <2>2, <2>3, <2>4 DEF Starting
<1>5. CASE UNCHANGED vars
  BY <1>5, ListenInv DEF vars, processes
<1> QED
  BY <1>1, <1>2, <1>3, <1>4, <1>5 DEF Next, World

\* The children that earlier processes left, when they live on.
StraysLive == \A l \in Strays : Of(l, "stray") \in alive

\* The end of processes that are no such children spares those.
LEMMA EndSpares ==
  ASSUME StraysLive, NEW ended, NEW how, End(ended, how), \A p \in ended : p.role # "stray"
  PROVE  StraysLive'
BY Names DEF StraysLive, End

\* The tree of a process that is not left behind.
LEMMA TreeSpares ==
  ASSUME NEW p, p.role # "stray"
  PROVE  \A q \in Tree(p) \cup Children(p) : q.role # "stray"
BY Names DEF Tree, Children

\* A task kills what a record names: no process left behind and, while start times are
\* compared, no stranger.
LEMMA TerminateSpares ==
  ASSUME Inv, StraysLive, NEW t \in Tasks, Ask(t) \/ Enforce(t) \/ Miss(t)
  PROVE  StraysLive' /\ (Windows => reused \subseteq reused')
<1>1. CASE UNCHANGED <<alive, reused>>
  BY <1>1 DEF StraysLive
<1>2. CASE Matches(Target(t)) /\ Kill(Target(t))
  <2>1. pc[t] \in Terminating
    BY DEF Ask, Enforce, Miss, Terminating
  <2>2. Target(t).role # "stray"
    BY <2>1, RecordNames DEF Inv, SavedRecorded, Target
  <2>3. Windows => reused \subseteq reused'
    BY <1>2, KillEnds DEF Inv, Ends
  <2>4. CASE Target(t) \in alive
    <3>1. End(Tree(Target(t)), "failed")
      BY <1>2, <2>4 DEF Kill
    <3> QED
      BY <2>2, <2>3, <3>1, EndSpares, TreeSpares
  <2>5. CASE Target(t) \notin alive
    BY <1>2, <2>3, <2>5 DEF Kill, StraysLive
  <2> QED
    BY <2>4, <2>5
<1> QED
  BY <1>1, <1>2 DEF Ask, Enforce, Miss, processes

\* No step ends a process left behind, nor a stranger while start times are compared.
LEMMA NextSpares ==
  ASSUME Inv, StraysLive, [Next]_vars
  PROVE  StraysLive' /\ (Windows => reused \subseteq reused')
<1>1. ASSUME NEW p \in Processes, Reuse(p) \/ \E how \in {"failed", "clean"} : Exits(p, how)
      PROVE  StraysLive' /\ reused \subseteq reused'
  <2>1. CASE Reuse(p)
    BY <2>1 DEF Reuse, StraysLive
  <2>2. ASSUME NEW how, Exits(p, how)
        PROVE  StraysLive' /\ reused \subseteq reused'
    <3>1. PICK ended \in {{p}, {p} \cup Children(p)} : End(ended, how)
      BY <2>2 DEF Exits
    <3>2. p.role # "stray" /\ reused' = reused
      BY <2>2 DEF Exits
    <3> QED
      BY <3>1, <3>2, EndSpares, TreeSpares
  <2> QED
    BY <1>1, <2>1, <2>2
<1>2. ASSUME NEW l \in Launchers, LauncherEnds(l)
      PROVE  StraysLive'
  BY <1>2, Names DEF LauncherEnds, StraysLive
<1>3. ASSUME NEW l \in Launchers, Crash(l) \/ SpawnOther(l) \/ Listen(l)
      PROVE  StraysLive' /\ reused \subseteq reused'
  BY <1>2, <1>3 DEF Crash, SpawnOther, Listen, StraysLive
<1>4. ASSUME NEW t \in Tasks, Reconcile(t) \/ Upgrade(t) \/ Remove(t)
      PROVE  StraysLive' /\ reused \subseteq reused'
  <2>1. CASE Reconcile(t)
    BY <2>1 DEF Reconcile, StraysLive
  <2>2. CASE Upgrade(t)
    BY <2>2 DEF Upgrade, processes, StraysLive
  <2>3. CASE Remove(t)
    BY <1>2, <2>3, TaskNames DEF Remove, processes, StraysLive
  <2> QED
    BY <1>4, <2>1, <2>2, <2>3
<1>5. ASSUME NEW l \in Launchers, Starting(l) \/ ShutdownEnds(l)
      PROVE  StraysLive' /\ reused \subseteq reused'
  <2>1. CASE StartEnds(l) \/ ShutdownEnds(l)
    BY <1>2, <2>1 DEF StartEnds, ShutdownEnds
  <2>2. CASE Prepare(l) \/ Spawn(l) \/ Write(l) \/ Ready(l) \/ WaitFails(l)
    BY <2>2 DEF Prepare, Spawn, Write, Ready, WaitFails, processes, StraysLive
  <2>3. CASE Identify(l)
    <3> DEFINE both == {Of(l, "web"), Of(l, "worker")}
    <3>1. PICK missed : /\ reused' = reused
                        /\ \/ UNCHANGED alive
                           \/ End(UNION {Tree(p) : p \in (both \cap alive) \ missed}, "failed")
      BY <2>3 DEF Identify, processes
    <3>2. \A q \in UNION {Tree(p) : p \in (both \cap alive) \ missed} : q.role # "stray"
      BY TreeSpares, Names
    <3>3. UNCHANGED alive => StraysLive'
      BY DEF StraysLive
    <3> HIDE DEF both
    <3> QED
      BY <3>1, <3>2, <3>3, EndSpares
  <2> QED
    BY <1>5, <2>1, <2>2, <2>3 DEF Starting
<1>6. CASE UNCHANGED vars
  BY <1>6 DEF vars, processes, StraysLive
<1> QED
  BY <1>1, <1>3, <1>4, <1>5, <1>6, TerminateSpares DEF Next, World, Continue

\* The file and what tasks have read of it name recorded processes, what those left, and
\* children of strangers that have their pids, however commands overlap, sessions crash, pids
\* are reused and look-ups fail.
THEOREM InvCorrect == Spec => []Inv
<1>1. Init => Inv
  BY InitInv
<1>2. Inv /\ [Next]_vars => Inv'
  BY NextInv
<1> QED
  BY <1>1, <1>2, PTL DEF Spec

\* Every variable has its type, and a process whose pid a stranger has is dead: what is
\* spawned has no name that a stranger could have the pid of.
THEOREM TypeCorrect == Spec => []TypeOK
<1>1. Inv => TypeOK
  BY DEF Inv
<1> QED
  BY <1>1, InvCorrect, PTL

\* Where start times are compared, no step kills a process that has the pid of a recorded
\* one, also when that one died while the task waited, and none that an earlier process with
\* that pid left: what a task kills it has read in the file, under its own start time.
THEOREM NeverKillsStrangerCorrect == Spec => NeverKillsStranger
<1>1. Init => StraysLive
  BY DEF Init, StraysLive
<1>2. Inv /\ StraysLive /\ [Next]_vars =>
         /\ StraysLive'
         /\ [Windows => /\ reused \subseteq reused'
                        /\ \A l \in Strays : Of(l, "stray") \in alive']_vars
  BY NextSpares DEF StraysLive
<1> QED
  BY <1>1, <1>2, InvCorrect, PTL DEF Spec, NeverKillsStranger

\* Sessions that follow each other leave nothing behind, however they end, but what a look-up
\* missed or a kill left running: the file is removed only after what it records was seen
\* dead or missed, and a session is recorded only in place of none.
THEOREM NoOrphanCorrect ==
  ASSUME Sequential
  PROVE  Spec => []NoOrphan
<1>1. Init => Seq
  <2>1. \A l \in Launchers : Start(l) \in Tasks
    BY TaskNames
  <2>2. \A l \in Launchers, m \in Strays : Of(l, "launcher") # Of(m, "stray")
    BY Names
  <2> QED
    BY <2>1, <2>2 DEF Init, Seq, Lives, Waits, Alone, NothingRecorded, OneSession, Terminated,
       Covered, Before, Terminating, Preparing
<1>2. Inv /\ Seq /\ [Next]_vars => Seq'
  BY NextSeq
<1>3. Seq => NoOrphan
  BY DEF Seq, Covered, NoOrphan
<1> QED
  BY <1>1, <1>2, <1>3, InvCorrect, PTL DEF Spec
=============================================================================
