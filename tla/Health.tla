------------------------------- MODULE Health -------------------------------
(***************************************************************************)
(* The health monitors of the workers: ProviderHealthMonitor, with its two *)
(* modes "refresh" and "auth" over the row of a provider, and              *)
(* ModelHealthMonitor, with the one mode "model" over the row of a model.  *)
(* Both take the steps of this module: a key of the process keeps a second *)
(* probe of it out, a mark on the row keeps out the other processes, the   *)
(* CLI is resolved and run under a timer, the answer is recorded and the   *)
(* mark is cleared.  Probes are begun by interval timers and by jobs that  *)
(* the web application adds under a fixed jobId; a worker that starts      *)
(* clears every mark.  Modes are the modes that share the row modelled.    *)
(* Of an answer only whether the CLI is installed is kept: the verdicts on *)
(* the account and on the model are left out.                              *)
(***************************************************************************)
EXTENDS Integers

CONSTANTS
    Workers,       \* worker processes
    Modes,         \* {"refresh", "auth"}: a provider's row; {"model"}: a model's row
    Candidates,    \* number of files that may be the CLI, in the order of the search
    Conditions,    \* what may become of such a file
    MaxRequests,   \* bound on the requests made by the web application
    MaxFaults,     \* bound on crashes and failed statements together
    MaxChanges     \* bound on changes of the files

ASSUME HealthAssumption ==
    /\ Modes \in {{"refresh", "auth"}, {"model"}}
    /\ Candidates \in Nat \ {0}
    /\ Conditions \subseteq {"works", "broken", "missing", "denied"}
    /\ {MaxRequests, MaxFaults, MaxChanges} \subseteq Nat

VARIABLES
    row,        \* the row: its mark, and whether the CLI is installed
    files,      \* the condition of each candidate
    up,         \* the workers that run
    cached,     \* the candidate each process has resolved, 0 for none
    probe,      \* the probe of each process and mode, Idle for none
    job,        \* the job of each mode: none, waiting, kept after its end, or its worker
    asked,      \* history: the modes requested and not probed since
    lost,       \* history: a mark was left behind and no worker has started since
    disturbed,  \* history: a mark was cleared under a probe and the row was not free since
    requests, faults, changes

vars == <<row, files, up, cached, probe, job, asked, lost, disturbed,
          requests, faults, changes>>
counters == <<requests, faults, changes>>
queue == <<job, asked>>
history == <<lost, disturbed>>

Idle == [at |-> "idle", forced |-> FALSE, installed |-> FALSE]
Stages == {"idle", "detect", "open", "running", "killed", "write", "release"}
Holding == Stages \ {"idle"}

-----------------------------------------------------------------------------
(* What the probes are made of                                             *)

\* The first candidate that answers --version is taken, 0 when there is none.
Resolvable == {i \in 1..Candidates : files[i] = "works"}

\* Variant: the resolved path is the number of the last candidate looked at plus one.
ResolvedPast == IF Resolvable = {} THEN 0 ELSE Candidates + 1

Resolved == IF Resolvable = {} THEN 0
            ELSE CHOOSE i \in Resolvable : \A j \in Resolvable : i <= j

\* A process resolves once and keeps the path until a launch of it fails.
Executable(w) == IF cached[w] # 0 THEN cached[w] ELSE Resolved

\* Where a probe goes once its CLI has ended; only "auth" looks for the file again.
Answered(m) == IF m = "auth" THEN "detect" ELSE "write"

At(w, m, stage) == probe[w][m].at = stage
Put(w, m, p) == probe' = [probe EXCEPT ![w][m] = p]
Goes(w, m, stage) == Put(w, m, [probe[w][m] EXCEPT !.at = stage])

\* A probe has set the mark and not yet cleared it.
Holds(w, m) == probe[w][m].at \in Holding
Held == \E w \in Workers, m \in Modes : Holds(w, m)

\* probe() returns: its key is given back, and the job that called it is over.
Return(w, m) ==
    /\ Put(w, m, Idle)
    /\ job' = IF probe[w][m].forced THEN [job EXCEPT ![m] = "kept"] ELSE job

Init ==
    /\ row = [marked |-> FALSE, installed |-> FALSE]
    /\ files \in [1..Candidates -> Conditions]
    /\ up = {}
    /\ cached = [w \in Workers |-> 0]
    /\ probe = [w \in Workers |-> [m \in Modes |-> Idle]]
    /\ job = [m \in Modes |-> "none"]
    /\ asked = {} /\ lost = FALSE /\ disturbed = FALSE
    /\ requests = 0 /\ faults = 0 /\ changes = 0

-----------------------------------------------------------------------------
(* Beginning a probe                                                       *)

\* Variant: the mark is set without a condition.
ClaimUnconditionally(w, m) ==
    /\ row' = [row EXCEPT !.marked = TRUE]
    /\ asked' = asked \ {m}

\* probe() past its key: the row is looked up and its mark is set by a compare-and-swap.
Claim(w, m) ==
    /\ ~row.marked
    /\ row' = [row EXCEPT !.marked = TRUE]
    /\ asked' = asked \ {m}

First(m) == IF m = "refresh" THEN "detect" ELSE "open"

\* An interval timer of the provider monitor.  It does nothing while the key is taken or
\* the mark is set, and for "auth" while the last check is recent.
Tick(w, m) ==
    /\ w \in up /\ At(w, m, "idle") /\ m # "model"
    /\ Claim(w, m)
    /\ Goes(w, m, First(m))
    /\ UNCHANGED <<files, up, cached, job, history, counters>>

\* A health worker, of concurrency one, takes a job: it probes, or finds the key taken or
\* the mark set and is done.
Takes(w, m) == w \in up /\ job[m] = "waiting" /\ \A n \in Modes : job[n] # w

Deliver(w, m) ==
    /\ Takes(w, m) /\ At(w, m, "idle")
    /\ Claim(w, m)
    /\ Put(w, m, [probe[w][m] EXCEPT !.at = First(m), !.forced = TRUE])
    /\ job' = [job EXCEPT ![m] = w]
    /\ UNCHANGED <<files, up, cached, history, counters>>

DeliverInVain(w, m) ==
    /\ Takes(w, m) /\ (~At(w, m, "idle") \/ row.marked)
    /\ job' = [job EXCEPT ![m] = "kept"]
    /\ UNCHANGED <<row, files, up, cached, probe, asked, history, counters>>

-----------------------------------------------------------------------------
(* Resolving and running the CLI                                           *)

Detect(w, m) ==
    /\ At(w, m, "detect")
    /\ cached' = [cached EXCEPT ![w] = Executable(w)]
    /\ Put(w, m, [probe[w][m] EXCEPT
                     !.installed = (Executable(w) # 0),
                     !.at = IF m = "refresh" /\ Executable(w) # 0 THEN "open" ELSE "write"])
    /\ UNCHANGED <<row, files, up, queue, history, counters>>

\* Nothing to run: execute answers with an error.
Unresolved(w, m) ==
    /\ At(w, m, "open") /\ Executable(w) = 0
    /\ Goes(w, m, Answered(m))
    /\ UNCHANGED <<row, files, up, cached, queue, history, counters>>

Spawn(w, m) ==
    /\ At(w, m, "open") /\ Executable(w) # 0
    /\ files[Executable(w)] \in {"works", "broken"}
    /\ cached' = [cached EXCEPT ![w] = Executable(w)]
    /\ Goes(w, m, "running")
    /\ UNCHANGED <<row, files, up, queue, history, counters>>

\* Variant: a failed launch leaves the resolved path in place.
LaunchFailsKeepingPath(w, m) ==
    /\ At(w, m, "open") /\ Executable(w) # 0
    /\ files[Executable(w)] \in {"missing", "denied"}
    /\ cached' = [cached EXCEPT ![w] = Executable(w)]
    /\ Goes(w, m, Answered(m))
    /\ UNCHANGED <<row, files, up, queue, history, counters>>

\* The launch fails, at once or by an event: the path is forgotten.
LaunchFails(w, m) ==
    /\ At(w, m, "open") /\ Executable(w) # 0
    /\ files[Executable(w)] \in {"missing", "denied"}
    /\ cached' = [cached EXCEPT ![w] = 0]
    /\ Goes(w, m, Answered(m))
    /\ UNCHANGED <<row, files, up, queue, history, counters>>

\* The timer of execute kills the CLI, which may never have ended by itself.
Timer(w, m) ==
    /\ At(w, m, "running")
    /\ Goes(w, m, "killed")
    /\ UNCHANGED <<row, files, up, cached, queue, history, counters>>

Close(w, m) ==
    /\ probe[w][m].at \in {"running", "killed"}
    /\ Goes(w, m, Answered(m))
    /\ UNCHANGED <<row, files, up, cached, queue, history, counters>>

-----------------------------------------------------------------------------
(* Recording the answer and giving the mark back                           *)

\* The row of a model has no column for the installation.
Installed(w, m) == IF m = "model" THEN row.installed ELSE probe[w][m].installed

Recorded(w, m) == Put(w, m, [probe[w][m] EXCEPT !.at = "release", !.installed = FALSE])

Write(w, m) ==
    /\ At(w, m, "write")
    /\ row' = [row EXCEPT !.installed = Installed(w, m)]
    /\ Recorded(w, m)
    /\ UNCHANGED <<files, up, cached, queue, history, counters>>

\* Variant: a failed statement leaves probe() without the finally.
RecordFailsOutright(w, m) ==
    /\ At(w, m, "write") /\ faults < MaxFaults
    /\ faults' = faults + 1
    /\ Return(w, m)
    /\ UNCHANGED <<row, files, up, cached, asked, history, requests, changes>>

\* A statement fails: the answer is dropped, and finally still gives the mark back.
RecordFails(w, m) ==
    /\ At(w, m, "write") /\ faults < MaxFaults
    /\ Recorded(w, m)
    /\ faults' = faults + 1
    /\ UNCHANGED <<row, files, up, cached, queue, history, requests, changes>>

Release(w, m) ==
    /\ At(w, m, "release")
    /\ row' = [row EXCEPT !.marked = FALSE]
    /\ Return(w, m)
    /\ disturbed' = (disturbed /\ Held')
    /\ UNCHANGED <<files, up, cached, asked, lost, counters>>

ReleaseFails(w, m) ==
    /\ At(w, m, "release") /\ faults < MaxFaults
    /\ faults' = faults + 1 /\ lost' = TRUE
    /\ Return(w, m)
    /\ disturbed' = (disturbed /\ Held')
    /\ UNCHANGED <<row, files, up, cached, asked, requests, changes>>

-----------------------------------------------------------------------------
(* Workers, tasks, requests and the machine                                *)

\* startup clears the marks, those of the probes of another worker included.
Startup(w) ==
    /\ w \notin up
    /\ up' = up \union {w}
    /\ row' = [row EXCEPT !.marked = FALSE]
    /\ lost' = FALSE
    /\ disturbed' = (disturbed \/ Held)
    /\ UNCHANGED <<files, cached, probe, queue, counters>>

\* The memory of the process is gone; its job stalls and is delivered again.
Crash(w) ==
    /\ w \in up /\ faults < MaxFaults
    /\ faults' = faults + 1
    /\ up' = up \ {w}
    /\ cached' = [cached EXCEPT ![w] = 0]
    /\ probe' = [probe EXCEPT ![w] = [m \in Modes |-> Idle]]
    /\ job' = [m \in Modes |-> IF job[m] = w THEN "waiting" ELSE job[m]]
    /\ lost' = (lost \/ \E m \in Modes : Holds(w, m))
    /\ disturbed' = (disturbed /\ Held')
    /\ UNCHANGED <<row, files, asked, requests, changes>>

\* A route asks for a probe.  BullMQ ignores a job whose id it still knows.
Request(m) ==
    /\ requests < MaxRequests
    /\ requests' = requests + 1
    /\ job' = IF job[m] = "none" THEN [job EXCEPT ![m] = "waiting"] ELSE job
    /\ asked' = asked \union {m}
    /\ UNCHANGED <<row, files, up, cached, probe, history, faults, changes>>

\* Twenty later jobs have ended.
Forget(m) ==
    /\ job[m] = "kept"
    /\ job' = [job EXCEPT ![m] = "none"]
    /\ UNCHANGED <<row, files, up, cached, probe, asked, history, counters>>

\* The CLI is installed, removed, broken or locked.
Change ==
    /\ changes < MaxChanges
    /\ changes' = changes + 1
    /\ \E i \in 1..Candidates, c \in Conditions :
         /\ files[i] # c
         /\ files' = [files EXCEPT ![i] = c]
    /\ UNCHANGED <<row, up, cached, probe, queue, history, requests, faults>>

-----------------------------------------------------------------------------

\* The steps of a probe that come by themselves; a CLI ends for certain only when killed.
ProbeStep(w, m) ==
    \/ Detect(w, m) \/ Unresolved(w, m) \/ Spawn(w, m) \/ LaunchFails(w, m)
    \/ Timer(w, m) \/ (At(w, m, "killed") /\ Close(w, m))
    \/ Write(w, m) \/ Release(w, m)

Next ==
    \/ \E w \in Workers, m \in Modes :
         \/ Tick(w, m) \/ Deliver(w, m) \/ DeliverInVain(w, m)
         \/ Detect(w, m) \/ Unresolved(w, m) \/ Spawn(w, m) \/ LaunchFails(w, m)
         \/ Timer(w, m) \/ Close(w, m) \/ Write(w, m) \/ RecordFails(w, m)
         \/ Release(w, m) \/ ReleaseFails(w, m)
    \/ \E w \in Workers : Startup(w) \/ Crash(w)
    \/ \E m \in Modes : Request(m) \/ Forget(m)
    \/ Change

Spec == Init /\ [][Next]_vars

\* The event loop of a worker goes on, its interval timers fire, and a kill works.
Fairness == \A w \in Workers, m \in Modes : WF_vars(ProbeStep(w, m)) /\ WF_vars(Tick(w, m))

FairSpec == Spec /\ Fairness

-----------------------------------------------------------------------------
(* Properties                                                              *)

\* The type of every variable.
TypeOK ==
    /\ row \in [marked : BOOLEAN, installed : BOOLEAN]
    /\ files \in [1..Candidates -> Conditions]
    /\ up \subseteq Workers
    /\ cached \in [Workers -> 0..Candidates]
    /\ probe \in [Workers -> [Modes -> [at : Stages, forced : BOOLEAN,
           installed : BOOLEAN]]]
    /\ job \in [Modes -> Workers \union {"none", "waiting", "kept"}]
    /\ asked \subseteq Modes
    /\ lost \in BOOLEAN /\ disturbed \in BOOLEAN
    /\ requests \in 0..MaxRequests /\ faults \in 0..MaxFaults /\ changes \in 0..MaxChanges

\* Two probes work on the row at a time, in one process or in two, only after a worker
\* that started has cleared the mark under a probe, and until the row is free again
\* (model-health.ts:30-40).
ProbesExclude ==
    \A v, w \in Workers, m, n \in Modes :
        Holds(v, m) /\ Holds(w, n) => disturbed \/ (v = w /\ m = n)

\* A mark that keeps every probe out has a probe that will clear it, whatever failed on
\* the way, unless its process crashed or the clearing statement itself failed
\* (model-health.ts:35-41).
MarkIsHeld ==
    row.marked => lost \/ Held

Gone == \A i \in 1..Candidates : files[i] \in {"missing", "denied"}

\* While nothing crashes or fails, a CLI that is gone is in the end recorded as not
\* installed, also by a worker that had resolved its path and by a probe whose CLI hung.
GoneIsNoticed == [](faults = 0) => (<>[]Gone => <>[]~row.installed)

\* "Enqueues a fresh model-validation probe for the worker to run": a request that was
\* answered with queued has a job that will run, or its probe has begun.
AskedIsQueued == \A m \in asked : job[m] \in Workers \union {"waiting"}

=============================================================================
