------------------------------ MODULE Launcher ------------------------------
(***************************************************************************)
(* The local launcher: "npm run dev:local", "stop:local", "status:local".  *)
(*                                                                         *)
(* A start command spawns the web server and the worker, writes their pids *)
(* and start times to one runtime file and stays resident.  Every command  *)
(* begins by reconciling that file with the processes that are alive: a    *)
(* recorded process may have died, its pid may belong to somebody else, or *)
(* a child it left behind may still run and is adopted.  Stopping asks a   *)
(* process to end, waits, and kills it if it is still the recorded one.    *)
(* A look-up that fails reads like a process that is dead, and a kill may  *)
(* leave its process running.                                              *)
(*                                                                         *)
(* A process is named by the launcher that started it and its role; its    *)
(* pid and start time are its name.  A stranger may take the pid of a      *)
(* process that died: the pid is then in use, the start time is another.   *)
(* It may start a child in this repository, which is newer than what is    *)
(* recorded and has the recorded pid for its parent's; a stranger with the *)
(* pid of a child leaves none.                                             *)
(***************************************************************************)
EXTENDS Naturals, FiniteSets

CONSTANTS
    Launchers,   \* start commands
    Stops,       \* stop commands
    Strays,      \* launchers whose worker has the pid of an earlier process of
                 \* this repository, which left a child behind
    Forking,     \* launchers whose web server runs in a child of its command
    Restarting,  \* launchers whose worker restarts its child
    Windows,     \* start times are compared; elsewhere a pid is all there is
    Sequential,  \* no command is given while another one is carried out
    MaxReuse,    \* pids taken by strangers
    MaxFaults,   \* look-ups and kills that fail
    NoFile, NoProcess

ASSUME LauncherAssumption ==
    /\ Windows \in BOOLEAN /\ Sequential \in BOOLEAN /\ MaxReuse \in Nat
    /\ MaxFaults \in Nat
    /\ Strays \subseteq Launchers

VARIABLES
    alive,   \* processes
    reused,  \* processes whose pid a stranger has
    port,    \* the process that listens on the web port
    file,    \* the runtime file
    pc,      \* where each command or handler is
    saved,   \* what it read and resolved
    recorded,\* launchers that wrote the file
    heard,   \* the launcher was told that its worker failed
    lost,    \* processes that a failed look-up missed or a kill left running, and
             \* launchers that recorded no start time of their own
    faults

processes == <<alive, reused, port>>
failures == <<lost, faults>>
vars == <<processes, file, recorded, pc, saved, heard, failures>>

Of(l, role) == [launcher |-> l, role |-> role]
Roles == {"launcher", "web", "server", "worker", "inner", "other", "stray",
          "webguest", "workerguest"}
Processes == {Of(l, role) : l \in Launchers, role \in Roles}
FileType == [launcher : Processes, web : Processes, worker : Processes]

ASSUME NoFileAssumption == NoFile \notin FileType

\* What runs: a start command; in its process, the signal handler and the
\* handler of the worker's exit; a stop command.
Start(l) == <<"start", l>>
Shutdown(l) == <<"shutdown", l>>
OnExit(l) == <<"exit", l>>
TasksOf(l) == {Start(l), Shutdown(l), OnExit(l)}
StopTasks == {<<"stop", s>> : s \in Stops}
Tasks == (UNION {TasksOf(l) : l \in Launchers}) \cup StopTasks

Rest == {"idle", "done", "ready", "gone"}
Busy(t) == pc[t] \notin Rest

-----------------------------------------------------------------------------
(***************************************************************************)
(* Identity.                                                               *)
(***************************************************************************)

\* Variant: any process with the recorded pid passes.
MatchesPid(p) == p \in alive \cup reused

\* processIdentity(pid) === startIdentity.
Matches(p) == p \in alive \/ (~Windows /\ p \in reused)

\* The web server may run in a child of its command, the worker does in one of
\* its watcher.
Children(p) ==
    CASE p.role = "web" -> {Of(p.launcher, "server")}
      [] p.role = "worker" -> {Of(p.launcher, "inner"), Of(p.launcher, "other")}
      [] OTHER -> {}

\* The child, in this repository, of a stranger that has the pid of p.
Guests(p) ==
    CASE Windows /\ p.role = "web" -> {Of(p.launcher, "webguest")}
      [] Windows /\ p.role = "worker" -> {Of(p.launcher, "workerguest")}
      [] OTHER -> {}

\* selectDescendant: processes of this repository whose parent pid is the
\* recorded one and which are not older than it.
Descendants(p) == alive \cap (Children(p) \cup Guests(p))

\* resolveRecord: the processes a record may stand for now, when the look-ups of
\* missed and the searches for the descendants of unsearched fail.
Resolve(p, missed, unsearched) ==
    IF Matches(p) /\ p \notin missed THEN {p}
    ELSE IF Windows /\ p \notin unsearched THEN Descendants(p) ELSE {}

\* So many look-ups fail in a step, or a kill does.
Fails(n) == faults + n <= MaxFaults /\ faults' = faults + n

-----------------------------------------------------------------------------
(***************************************************************************)
(* Processes end.                                                          *)
(***************************************************************************)

\* The launchers that hear of the failure of their worker: one before the
\* handler was registered is missed.
Hear(ended, how) ==
    heard' = [l \in Launchers |->
        heard[l] \/ (/\ Of(l, "worker") \in ended /\ how = "failed"
                    /\ pc[Start(l)] \in {"waiting", "ready"})]

\* Variant: the port of a process that ended stays taken.
EndKeepsPort(ended, how) ==
    /\ alive' = alive \ ended
    /\ UNCHANGED port
    /\ Hear(ended \cap alive, how)

End(ended, how) ==
    /\ alive' = alive \ ended
    /\ port' = IF port \in ended THEN NoProcess ELSE port
    /\ Hear(ended \cap alive, how)

\* taskkill /t ends the children of a process too.
Tree(p) == {p} \cup (IF Windows THEN Children(p) ELSE {})

\* The process with the pid of p is killed.
Kill(p) ==
    /\ IF p \in alive THEN End(Tree(p), "failed") ELSE UNCHANGED <<alive, port, heard>>
    /\ reused' = IF p \in alive THEN reused ELSE reused \ {p}
    /\ UNCHANGED failures

\* A web server or a worker exits by itself, with its children or without them.
Exits(p, how) ==
    /\ p \in alive /\ p.role \in {"web", "worker"}
    /\ \E ended \in {{p}, {p} \cup Children(p)} : End(ended, how)
    /\ UNCHANGED <<reused, file, recorded, pc, saved, failures>>

\* A launcher is gone, with every handler that runs in it.
LauncherEnds(l) ==
    /\ alive' = alive \ {Of(l, "launcher")}
    /\ pc' = [t \in Tasks |-> IF t \in TasksOf(l) THEN "gone" ELSE pc[t]]
    /\ saved' = [t \in Tasks |-> IF t \in TasksOf(l) THEN NoFile ELSE saved[t]]
    /\ heard' = [heard EXCEPT ![l] = FALSE]

\* A launcher is killed, or gets a signal before it handles signals.
Crash(l) ==
    /\ Of(l, "launcher") \in alive
    /\ LauncherEnds(l)
    /\ UNCHANGED <<reused, port, file, recorded, failures>>

\* A stranger starts under the pid of a process that died, and perhaps a child.
Reuse(p) ==
    /\ p \notin alive \cup reused
    /\ Cardinality(reused) < MaxReuse
    /\ \/ file # NoFile /\ p \in {file.web, file.worker, file.launcher}
       \/ \E t \in Tasks : Busy(t) /\ saved[t] # NoFile /\ p \in {saved[t].web, saved[t].worker}
    /\ reused' = reused \cup {p}
    /\ alive' = alive \/ alive' = alive \cup Guests(p)
    /\ UNCHANGED <<port, file, recorded, pc, saved, heard, failures>>

-----------------------------------------------------------------------------
(***************************************************************************)
(* removeStaleRuntime, with which every command begins.                    *)
(***************************************************************************)

Goto(t, label) == pc' = [pc EXCEPT ![t] = label]

\* What remains when nothing is recorded any more.
Cleared(t) == IF t[1] = "start" THEN "clear" ELSE "done"

Begins(t) ==
    CASE t[1] \in {"start", "stop"} ->
            Sequential =>
                /\ \A u \in Tasks : ~Busy(u) \/ pc[u] = "waiting"
                /\ t[1] = "start" => \A m \in Launchers : Of(m, "launcher") \notin alive
      [] t[1] = "exit" -> pc[Start(t[2])] = "ready" /\ heard[t[2]]
      [] OTHER -> pc[Start(t[2])] \in {"waiting", "ready", "failing"}

\* Each record of the file is resolved.  A session of a launcher that is not
\* found alive is terminated; so is any by a command that stops.
ReconcileFile(t, missed, unsearched) ==
    LET webs == Resolve(file.web, missed, unsearched)
        workers == Resolve(file.worker, missed, unsearched)
        Found(old, found) == IF found = {} THEN old ELSE CHOOSE p \in found : TRUE
        now == [launcher |-> file.launcher,
                web |-> Found(file.web, webs), worker |-> Found(file.worker, workers)]
        ambiguous == Cardinality(webs) > 1 \/ Cardinality(workers) > 1
        running == Matches(file.launcher) /\ file.launcher \notin missed \cup lost
        nothing == ambiguous \/ (t[1] = "start" /\ running /\ now = file)
    IN /\ missed \cup unsearched # {} => Windows
       /\ Fails(Cardinality(missed) + IF unsearched = {} THEN 0 ELSE 1)
       /\ lost' = lost \cup ({file.web, file.worker} \cap missed \cap alive)
       /\ \/ nothing /\ Goto(t, "done") /\ UNCHANGED saved
          \/ /\ ~nothing
             /\ saved' = [saved EXCEPT ![t] = now]
             /\ Goto(t, IF running /\ now # file THEN "upgrade" ELSE "worker")

\* A search fails with its snapshot, which all searches share, or because the
\* one process it found is not confirmed.
Unsearched ==
    {{}, {file.web, file.worker}}
        \cup {{p} : p \in {q \in {file.web, file.worker} : Cardinality(Descendants(q)) = 1}}

Reconcile(t) ==
    /\ pc[t] = "idle" /\ Begins(t)
    /\ alive' = IF t[1] = "start" THEN alive \cup {Of(t[2], "launcher")} ELSE alive
    /\ \/ file = NoFile /\ Goto(t, Cleared(t)) /\ UNCHANGED <<saved, lost, faults>>
       \/ /\ file # NoFile
          /\ \E missed \in SUBSET {file.launcher, file.web, file.worker}, u \in Unsearched :
                ReconcileFile(t, missed, u)
    /\ UNCHANGED <<reused, port, file, recorded, heard>>

\* A launcher that is alive: what was adopted is written back.
Upgrade(t) ==
    /\ pc[t] = "upgrade"
    /\ file' = saved[t]
    /\ Goto(t, IF t[1] = "start" THEN "done" ELSE "worker")
    /\ saved' = IF t[1] = "start" THEN [saved EXCEPT ![t] = NoFile] ELSE saved
    /\ UNCHANGED <<processes, recorded, heard, failures>>

-----------------------------------------------------------------------------
(***************************************************************************)
(* terminateRecorded, for the worker and then for the web server.          *)
(***************************************************************************)

Target(t) == IF pc[t] \in {"worker", "worker2"} THEN saved[t].worker ELSE saved[t].web

\* Variant: only the worker is terminated before the file is removed.
FollowingRemoves(t) == "rm"

Following(t) == IF pc[t] \in {"worker", "worker2"} THEN "web" ELSE "rm"

\* The recorded process, if it is still that, is asked to end, and may.
Ask(t) ==
    /\ pc[t] \in {"worker", "web"}
    /\ \/ /\ ~Matches(Target(t))
          /\ Goto(t, Following(t))
          /\ UNCHANGED <<processes, heard, failures>>
       \/ /\ Matches(Target(t))
          /\ Goto(t, IF pc[t] = "worker" THEN "worker2" ELSE "web2")
          /\ Kill(Target(t)) \/ UNCHANGED <<processes, heard, failures>>
    /\ UNCHANGED <<file, recorded, saved>>

\* Variant: what has the pid after the wait is killed.
ForceUnverified(t) ==
    /\ pc[t] \in {"worker2", "web2"}
    /\ Goto(t, Following(t))
    /\ IF MatchesPid(Target(t)) THEN Kill(Target(t))
       ELSE UNCHANGED <<processes, heard, failures>>
    /\ UNCHANGED <<file, recorded, saved>>

\* After the wait it is checked again and killed.
Enforce(t) ==
    /\ pc[t] \in {"worker2", "web2"}
    /\ Goto(t, Following(t))
    /\ IF Matches(Target(t)) THEN Kill(Target(t))
       ELSE UNCHANGED <<processes, heard, failures>>
    /\ UNCHANGED <<file, recorded, saved>>

\* A look-up of a process that is alive fails, before it is asked, while it is
\* waited for or before it is killed; or it is killed and runs on.
Miss(t) ==
    /\ pc[t] \in {"worker", "worker2", "web", "web2"}
    /\ pc[t] \in {"worker", "web"} => Windows
    /\ Target(t) \in alive
    /\ Fails(1)
    /\ lost' = lost \cup {Target(t)}
    /\ Goto(t, Following(t))
    /\ UNCHANGED <<processes, file, recorded, saved, heard>>

\* The file is removed; the signal handler then ends the launcher.
Remove(t) ==
    /\ pc[t] = "rm"
    /\ file' = NoFile
    /\ IF t[1] = "shutdown" THEN LauncherEnds(t[2]) /\ UNCHANGED <<reused, port>>
       ELSE /\ Goto(t, Cleared(t))
            /\ saved' = [saved EXCEPT ![t] = NoFile]
            /\ UNCHANGED <<processes, heard>>
    /\ UNCHANGED <<recorded, failures>>

\* Nothing was recorded, or the owner is ambiguous: the launcher ends too.
ShutdownEnds(l) ==
    /\ pc[Shutdown(l)] = "done"
    /\ LauncherEnds(l)
    /\ UNCHANGED <<reused, port, file, recorded, failures>>

-----------------------------------------------------------------------------
(***************************************************************************)
(* startLocal.                                                             *)
(***************************************************************************)

\* A session was found, the port is in use, the environment is incomplete, a
\* dependency does not become healthy, or the migrations fail: the command ends.
StartEnds(l) ==
    /\ pc[Start(l)] \in {"done", "clear"}
    /\ LauncherEnds(l)
    /\ UNCHANGED <<reused, port, file, recorded, failures>>

\* The port is free; dependencies are brought up and migrated.
Prepare(l) ==
    /\ pc[Start(l)] = "clear"
    /\ port = NoProcess
    /\ Goto(Start(l), "prepared")
    /\ UNCHANGED <<processes, file, recorded, saved, heard, failures>>

\* Both processes are spawned, and start their children.
Spawn(l) ==
    /\ pc[Start(l)] = "prepared"
    /\ alive' = alive \cup {Of(l, role) : role \in {"web", "worker", "inner"}}
                     \cup {Of(m, "server") : m \in Forking \cap {l}}
    /\ Goto(Start(l), "spawned")
    /\ UNCHANGED <<reused, port, file, recorded, saved, heard, failures>>

\* The source changed: the watcher starts another child while the first is
\* still ending.
SpawnOther(l) ==
    /\ l \in Restarting /\ pc[Start(l)] = "ready"
    /\ {Of(l, "worker"), Of(l, "inner")} \subseteq alive
    /\ alive' = alive \cup {Of(l, "other")}
    /\ UNCHANGED <<reused, port, file, recorded, pc, saved, heard, failures>>

\* The web server listens; one that finds the port taken exits.
Listen(l) ==
    /\ port = NoProcess
    /\ \E p \in {Of(l, "web"), Of(l, "server")} \cap alive : port' = p
    /\ UNCHANGED <<alive, reused, file, recorded, pc, saved, heard, failures>>

\* The start times are read.  If that of the web server or the worker is missed,
\* what has one is terminated; nobody misses that of the launcher.
Identify(l) ==
    LET both == {Of(l, "web"), Of(l, "worker")}
    IN /\ pc[Start(l)] = "spawned"
       /\ \E missed \in SUBSET (both \cup {Of(l, "launcher")}) :
             /\ missed # {} => Windows
             /\ Fails(Cardinality(missed))
             /\ lost' = lost \cup (missed \cap alive)
             /\ IF both \subseteq alive \ missed
                THEN Goto(Start(l), "identified") /\ UNCHANGED <<processes, heard>>
                ELSE /\ Goto(Start(l), "done")
                     /\ End(UNION {Tree(p) : p \in (both \cap alive) \ missed}, "failed")
                     /\ UNCHANGED reused
       /\ UNCHANGED <<file, recorded, saved>>

\* The file is written, then the handlers are registered.
Write(l) ==
    /\ pc[Start(l)] = "identified"
    /\ file' = [launcher |-> Of(l, "launcher"), web |-> Of(l, "web"), worker |-> Of(l, "worker")]
    /\ recorded' = recorded \cup {l}
    /\ Goto(Start(l), "waiting")
    /\ UNCHANGED <<processes, saved, heard, failures>>

\* Something answers on the port and the worker is not known to have failed.
Ready(l) ==
    /\ pc[Start(l)] = "waiting"
    /\ port # NoProcess
    /\ ~heard[l]
    /\ Goto(Start(l), "ready")
    /\ UNCHANGED <<processes, file, recorded, saved, heard, failures>>

\* The web server or the worker exited, or nothing answered in time: what is
\* recorded is stopped (Shutdown).
WaitFails(l) ==
    /\ pc[Start(l)] = "waiting"
    /\ Goto(Start(l), "failing")
    /\ UNCHANGED <<processes, file, recorded, saved, heard, failures>>

-----------------------------------------------------------------------------
Init ==
    /\ alive = {Of(l, "stray") : l \in Strays} /\ reused = {}
    /\ port = NoProcess
    /\ file = NoFile /\ recorded = {}
    /\ pc = [t \in Tasks |-> "idle"]
    /\ saved = [t \in Tasks |-> NoFile]
    /\ heard = [l \in Launchers |-> FALSE]
    /\ lost = {} /\ faults = 0

\* A command, once begun, goes on.
Continue(t) == Upgrade(t) \/ Ask(t) \/ Enforce(t) \/ Miss(t) \/ Remove(t)

Starting(l) ==
    \/ StartEnds(l) \/ Prepare(l) \/ Spawn(l) \/ Identify(l) \/ Write(l)
    \/ Ready(l) \/ WaitFails(l)

World ==
    \/ \E p \in Processes : Reuse(p) \/ \E how \in {"failed", "clean"} : Exits(p, how)
    \/ \E l \in Launchers : Crash(l) \/ SpawnOther(l) \/ Listen(l)

Next ==
    \/ World
    \/ \E t \in Tasks : Reconcile(t) \/ Continue(t)
    \/ \E l \in Launchers : Starting(l) \/ ShutdownEnds(l)

Spec == Init /\ [][Next]_vars

\* A command that runs goes on, and a launcher gets the events of its worker.
\* Nobody has to start, to signal or to stop anything.
Fairness ==
    /\ \A t \in Tasks : WF_vars(Continue(t))
    /\ \A l \in Launchers : WF_vars(Reconcile(OnExit(l)))

FairSpec == Spec /\ Fairness

-----------------------------------------------------------------------------
(***************************************************************************)
(* Types.                                                                  *)
(***************************************************************************)

\* Values have their types; a process whose pid a stranger has is dead.
TypeOK ==
    /\ alive \subseteq Processes
    /\ reused \subseteq Processes \ alive
    /\ port \in alive \cup {NoProcess}
    /\ file \in FileType \cup {NoFile}
    /\ recorded \subseteq Launchers
    /\ pc \in [Tasks -> Rest \cup {"upgrade", "worker", "worker2", "web", "web2", "rm", "clear",
                                   "prepared", "spawned", "identified", "waiting", "failing"}]
    /\ saved \in [Tasks -> FileType \cup {NoFile}]
    /\ heard \in [Launchers -> BOOLEAN]
    /\ lost \subseteq Processes /\ faults \in 0 .. MaxFaults

-----------------------------------------------------------------------------
(***************************************************************************)
(* Properties.                                                             *)
(***************************************************************************)

\* Where start times are compared, no process is killed that has taken the pid
\* of a recorded one, before a command or while it waits, and no child left by an
\* earlier process with that pid: only what was recorded, and newer processes of
\* this repository whose parent has, or had, the recorded pid.
NeverKillsStranger ==
    [][Windows => /\ reused \subseteq reused'
                  /\ \A l \in Strays : Of(l, "stray") \in alive']_vars

\* Sessions that follow each other leave nothing behind: when no command runs
\* and the launcher of a session is gone, the processes it recorded are dead or
\* the session is still recorded; but for a process that a look-up missed or a
\* kill left running.
NoOrphan ==
    \A l \in recorded :
        /\ Of(l, "launcher") \notin alive
        /\ \A t \in Tasks : ~Busy(t)
        => \/ {Of(l, "web"), Of(l, "worker")} \cap alive \subseteq lost
           \/ file # NoFile /\ file.launcher = Of(l, "launcher")

\* A worker that fails takes the web server with it, whatever it leaves and
\* whoever stops the session meanwhile; unless its launcher ends first, a
\* look-up missed the web server or a kill left it running, or two processes
\* could be the worker: then nothing may be touched.
HalfSessionEnds ==
    \A l \in Launchers :
        (pc[Start(l)] = "ready" /\ heard[l])
            ~> \/ Of(l, "web") \notin alive \ lost \/ Of(l, "launcher") \notin alive
               \/ Cardinality(Descendants(Of(l, "worker"))) > 1

(***************************************************************************)
(* A statement that the code does not keep.                                *)
(***************************************************************************)

\* start-local.mjs:394: "Stopping only launcher-owned process trees.": the tasks
\* of a launcher kill no process of another one that is alive, and no child of a
\* stranger.
StopsOwnOnly ==
    [][\A l \in Launchers : \A t \in TasksOf(l), p \in alive \ alive' :
          Ask(t) \/ Enforce(t) =>
              /\ Of(p.launcher, "launcher") \in alive => p.launcher = l
              /\ p.role \notin {"webguest", "workerguest"}]_vars
=============================================================================
