------------------------------ MODULE TaskFlow ------------------------------
(***************************************************************************)
(* The sessions of one task: implementation, review, verification.         *)
(*                                                                         *)
(* A request checks the task, records the state of the workspace, creates  *)
(* a session and adds a job.  A worker claims the session, runs the        *)
(* provider and stores evidence or findings; most of its writes to the     *)
(* session have no condition.  When a job fails, the listener of its       *)
(* failure reads the session and writes FAILED.  A sweep fails sessions    *)
(* whose lease has expired, the user cancels sessions and decides          *)
(* findings.                                                               *)
(*                                                                         *)
(* The task's own row (status, counted rounds, evidence) is left out.  A   *)
(* session saves at most one finding.  The workspace is a version, which   *)
(* every edit raises, with the digest that hashGit makes of it.            *)
(***************************************************************************)
EXTENDS Naturals, FiniteSets

CONSTANTS
    Requests,   \* requests for a session; a session has the name of its request
    Purpose,    \* IMPLEMENTATION, REVIEW or VERIFICATION, for each request
    Deciders,   \* requests that decide a finding
    Workers,
    NoSession, NoWorker,
    MaxEdits,   \* edits of the workspace
    MaxFaults   \* crashes of workers, stalled jobs, failed statements

ASSUME FlowAssumption ==
    /\ Purpose \in [Requests -> {"IMPLEMENTATION", "REVIEW", "VERIFICATION"}]
    /\ MaxEdits \in Nat /\ MaxFaults \in Nat
    /\ NoSession \notin Requests /\ NoWorker \notin Workers
    /\ IsFiniteSet(Deciders)

VARIABLES
    \* the database
    state, lease,              \* AgentSession.state, workerId and leaseExpiresAt
    finding, remediations,     \* ReviewFinding, remediation tasks made of it
    \* the web
    request, baseline,         \* where a request is; baselineDiffHash
    decider,                   \* where a decision is, and its finding
    \* the queue and the workers
    job, turn,
    listener,                  \* the failed listener of a session's job
    \* the world
    workspace, faults

sessions == <<state, lease>>
findings == <<finding, remediations, decider>>
web == <<request, baseline>>
queue == <<job, turn, listener>>
vars == <<sessions, findings, web, queue, workspace, faults>>

Terminal == {"SUCCEEDED", "FAILED", "CANCELLED"}
InProgress == {"STARTING", "RUNNING"}
Free == [at |-> "free", session |-> NoSession]
NoLease == [worker |-> NoWorker, live |-> FALSE]
Empty == [version |-> 0, digest |-> 0]
NoFinding == [status |-> "none", stale |-> FALSE, seen |-> Empty]

SetState(r, s) == state' = [state EXCEPT ![r] = s]
\* Variant: the expiry stays.
ReleaseWorker(r) == lease' = [lease EXCEPT ![r].worker = NoWorker]
\* ...releasedLeaseFields
Release(r) == lease' = [lease EXCEPT ![r] = NoLease]
Goto(w, at) == turn' = [turn EXCEPT ![w].at = at]

-----------------------------------------------------------------------------
(***************************************************************************)
(* POST /api/sessions.  A request may stop after any of its steps (the web *)
(* process dies, a call fails): nothing makes it go on.                    *)
(***************************************************************************)

Step(r, from, to) == request[r] = from /\ request' = [request EXCEPT ![r] = to]

\* The decisions on findings are checked, and the workspace is inspected.
Check(r) ==
    /\ Step(r, "idle", "checked")
    /\ Purpose[r] = "VERIFICATION" => \A f \in Requests : finding[f].status # "PENDING"
    /\ baseline' = [baseline EXCEPT ![r] = workspace]
    /\ UNCHANGED <<sessions, findings, queue, workspace, faults>>

Create(r) ==
    /\ Step(r, "checked", "created")
    /\ SetState(r, "QUEUED")
    /\ UNCHANGED <<lease, findings, baseline, queue, workspace, faults>>

AddJob(r) ==
    /\ Step(r, "created", "queued")
    /\ job' = [job EXCEPT ![r] = "waiting"]
    /\ UNCHANGED <<sessions, findings, baseline, turn, listener, workspace, faults>>

\* A job that waits to be delivered, for the first time or again.
Waiting(r) == job[r] \in {"waiting", "again"}

\* POST /api/sessions/[id]/cancel: a conditional update, then the job is
\* removed unless a worker has it.
Cancel(r) ==
    /\ state[r] \in {"QUEUED"} \cup InProgress
    /\ SetState(r, "CANCELLED")
    /\ job' = IF Waiting(r) THEN [job EXCEPT ![r] = "finished"] ELSE job
    /\ UNCHANGED <<lease, findings, web, turn, listener, workspace, faults>>

-----------------------------------------------------------------------------
(***************************************************************************)
(* POST /api/findings/[id].                                                *)
(***************************************************************************)

\* Variant: nobody asks whether the finding is stale.
ReadFindingAny(d, f) ==
    /\ decider[d].at = "idle"
    /\ finding[f].status = "PENDING"
    /\ decider' = [decider EXCEPT ![d] = [at |-> "read", finding |-> f]]
    /\ UNCHANGED <<sessions, finding, remediations, web, queue, workspace, faults>>

\* A finding that is neither stale nor decided is read.
ReadFinding(d, f) ==
    /\ decider[d].at = "idle"
    /\ finding[f].status = "PENDING" /\ ~finding[f].stale
    /\ decider' = [decider EXCEPT ![d] = [at |-> "read", finding |-> f]]
    /\ UNCHANGED <<sessions, finding, remediations, web, queue, workspace, faults>>

Reject(d) ==
    /\ decider[d].at = "read"
    /\ finding' = [finding EXCEPT ![decider[d].finding].status = "REJECTED"]
    /\ decider' = [decider EXCEPT ![d].at = "done"]
    /\ UNCHANGED <<sessions, remediations, web, queue, workspace, faults>>

\* Accepting makes a remediation task, and then marks the finding.
MakeRemediation(d) ==
    /\ decider[d].at = "read"
    /\ remediations' = [remediations EXCEPT ![decider[d].finding] = @ + 1]
    /\ decider' = [decider EXCEPT ![d].at = "made"]
    /\ UNCHANGED <<sessions, finding, web, queue, workspace, faults>>

Accept(d) ==
    /\ decider[d].at = "made"
    /\ finding' = [finding EXCEPT ![decider[d].finding].status = "ACCEPTED"]
    /\ decider' = [decider EXCEPT ![d].at = "done"]
    /\ UNCHANGED <<sessions, remediations, web, queue, workspace, faults>>

-----------------------------------------------------------------------------
(***************************************************************************)
(* The worker.                                                             *)
(***************************************************************************)

At(w, at) == turn[w].at = at
Mine(w) == turn[w].session

\* Variant: a session is claimed in any state.
ClaimAny(w, r) ==
    /\ At(w, "free") /\ Waiting(r)
    /\ job' = [job EXCEPT ![r] = "active"]
    /\ turn' = [turn EXCEPT ![w] = [at |-> "probing", session |-> r]]
    /\ SetState(r, "STARTING")
    /\ lease' = [lease EXCEPT ![r] = [worker |-> w, live |-> TRUE]]
    /\ UNCHANGED <<findings, web, listener, workspace, faults>>

\* A job is taken and its session claimed if it is QUEUED.
Claim(w, r) ==
    /\ At(w, "free") /\ Waiting(r)
    /\ \/ /\ state[r] = "QUEUED"
          /\ job' = [job EXCEPT ![r] = "active"]
          /\ turn' = [turn EXCEPT ![w] = [at |-> "probing", session |-> r]]
          /\ SetState(r, "STARTING")
          /\ lease' = [lease EXCEPT ![r] = [worker |-> w, live |-> TRUE]]
       \/ /\ state[r] # "QUEUED"
          /\ job' = [job EXCEPT ![r] = "finished"]
          /\ UNCHANGED <<turn, sessions>>
    /\ UNCHANGED <<findings, web, listener, workspace, faults>>

Heard(r) == listener' = [listener EXCEPT ![r] = "heard"]

\* The claim throws: the job, which has no second attempt, fails.
ClaimThrows(r) ==
    /\ Waiting(r)
    /\ \E w \in Workers : At(w, "free")
    /\ faults < MaxFaults
    /\ faults' = faults + 1
    /\ job' = [job EXCEPT ![r] = "finished"]
    /\ Heard(r)
    /\ UNCHANGED <<sessions, findings, web, turn, workspace>>

\* The job ends, well or not, if the queue still counts it as the worker's.
EndJob(w) == job' = [job EXCEPT ![Mine(w)] = IF @ = "active" THEN "finished" ELSE @]
EndTurn(w) == turn' = [turn EXCEPT ![w] = Free] /\ EndJob(w) /\ UNCHANGED listener

\* The job fails; that is heard if the queue still counts it as the worker's.
JobFails(w) ==
    /\ turn' = [turn EXCEPT ![w] = Free]
    /\ EndJob(w)
    /\ IF job[Mine(w)] = "active" THEN Heard(Mine(w)) ELSE UNCHANGED listener

\* The probe succeeded: RUNNING, whatever the session is.
Run(w) ==
    /\ At(w, "probing")
    /\ SetState(Mine(w), "RUNNING")
    /\ Goto(w, "running")
    /\ UNCHANGED <<lease, findings, web, job, listener, workspace, faults>>

\* The provider is not available, or what follows the write of RUNNING throws
\* before the provider is started.
ProbeFails(w) ==
    /\ At(w, "probing")
    /\ JobFails(w)
    /\ SetState(Mine(w), "RUNNING") \/ UNCHANGED state
    /\ UNCHANGED <<lease, findings, web, workspace, faults>>

\* worker.on("failed"): the state is read, and FAILED is written if it was not a
\* terminal one.
ListenerReads(r) ==
    /\ listener[r] = "heard"
    /\ listener' = [listener EXCEPT ![r] = IF state[r] \in Terminal THEN "none" ELSE "read"]
    /\ UNCHANGED <<sessions, findings, web, job, turn, workspace, faults>>

ListenerWrites(r) ==
    /\ listener[r] = "read"
    /\ listener' = [listener EXCEPT ![r] = "none"]
    /\ SetState(r, "FAILED") /\ Release(r)
    /\ UNCHANGED <<findings, web, job, turn, workspace, faults>>

\* The workspace is edited, by the provider of an implementation or the user.
\* Its digest, of the commit, the short status and the first 65,536 bytes of the
\* diff of tracked files, is a new one, the same (an untracked or ignored file
\* or what is behind the limit was edited) or one it had before.
Edit ==
    /\ workspace.version < MaxEdits
    /\ \E d \in 0 .. workspace.version + 1 :
          workspace' = [version |-> workspace.version + 1, digest |-> d]
    /\ UNCHANGED <<sessions, findings, web, queue, faults>>

\* The provider is done; a session that is CANCELLED by then ends here.
ProviderDone(w) ==
    /\ At(w, "running")
    /\ IF state[Mine(w)] = "CANCELLED"
       THEN EndTurn(w)
       ELSE Goto(w, "storing") /\ UNCHANGED <<job, listener>>
    /\ UNCHANGED <<sessions, findings, web, workspace, faults>>

\* saveReviewFindings of a review or a verification, stale if the workspace has
\* not the digest it had at the request; captureEvidence of an implementation.
Store(w) ==
    /\ At(w, "storing")
    /\ \/ /\ Purpose[Mine(w)] # "IMPLEMENTATION"
          /\ finding' = [finding EXCEPT ![Mine(w)] =
                 [status |-> "PENDING", seen |-> workspace,
                  stale |-> workspace.digest # baseline[Mine(w)].digest]]
       \/ UNCHANGED finding
    /\ Goto(w, "succeeding")
    /\ UNCHANGED <<sessions, remediations, decider, web, job, listener, workspace, faults>>

\* SUCCEEDED, whatever the session is.
Succeed(w) ==
    /\ At(w, "succeeding")
    /\ SetState(Mine(w), "SUCCEEDED") /\ Release(Mine(w))
    /\ Goto(w, "remembering")
    /\ UNCHANGED <<findings, web, job, listener, workspace, faults>>

\* appendMemoryUpdate.
Remember(w) ==
    /\ At(w, "remembering")
    /\ EndTurn(w)
    /\ UNCHANGED <<sessions, findings, web, workspace, faults>>

\* Anything between RUNNING and the end of the memory update throws, and perhaps
\* what the catch block awaits throws again.
Throw(w) ==
    /\ turn[w].at \in {"running", "storing", "succeeding", "remembering"}
    /\ \/ state[Mine(w)] = "CANCELLED" /\ EndTurn(w)
       \/ state[Mine(w)] # "CANCELLED" /\ Goto(w, "failing") /\ UNCHANGED <<job, listener>>
       \/ JobFails(w)
    /\ UNCHANGED <<sessions, findings, web, workspace, faults>>

\* FAILED, whatever the session is by now; the task is BLOCKED.  The listener
\* finds nothing to do.
Fail(w) ==
    /\ At(w, "failing")
    /\ SetState(Mine(w), "FAILED") /\ Release(Mine(w))
    /\ EndTurn(w)
    /\ UNCHANGED <<findings, web, workspace, faults>>

-----------------------------------------------------------------------------
(***************************************************************************)
(* Faults and their repair.                                                *)
(***************************************************************************)

\* A worker crashes and restarts; its job is found stalled and delivered again.
Crash(w) ==
    /\ ~At(w, "free")
    /\ faults < MaxFaults
    /\ faults' = faults + 1
    /\ turn' = [turn EXCEPT ![w] = Free]
    /\ job' = [job EXCEPT ![Mine(w)] = IF @ = "active" THEN "again" ELSE @]
    /\ UNCHANGED <<sessions, findings, web, listener, workspace>>

\* A worker does not renew its lock on a job, but goes on: delivered again.
Stall(r) ==
    /\ job[r] = "active"
    /\ faults < MaxFaults
    /\ faults' = faults + 1
    /\ job' = [job EXCEPT ![r] = "again"]
    /\ UNCHANGED <<sessions, findings, web, turn, listener, workspace>>

\* The second delivery stalls as well, before it has claimed anything: the queue
\* fails the job, whoever is still at its session.
StallsOut(r) ==
    /\ job[r] = "again"
    /\ faults < MaxFaults
    /\ faults' = faults + 1
    /\ job' = [job EXCEPT ![r] = "finished"]
    /\ Heard(r)
    /\ UNCHANGED <<sessions, findings, web, turn, workspace>>

\* A statement of the listener fails, or its process dies.
ListenerThrows(r) ==
    /\ listener[r] # "none"
    /\ faults < MaxFaults
    /\ faults' = faults + 1
    /\ listener' = [listener EXCEPT ![r] = "none"]
    /\ UNCHANGED <<sessions, findings, web, job, turn, workspace>>

\* A lease expires when heartbeats do not get through, or nobody sends them.
Expire(r) ==
    /\ lease[r].live
    /\ lease' = [lease EXCEPT ![r].live = FALSE]
    /\ UNCHANGED <<state, findings, web, queue, workspace, faults>>

Abandoned(r) == lease[r].live /\ Mine(lease[r].worker) # r

\* Variant: a session without a lease is nobody's business.
SweepLeased(r) ==
    /\ state[r] \in InProgress /\ ~lease[r].live /\ lease[r].worker # NoWorker
    /\ SetState(r, "FAILED") /\ Release(r)
    /\ UNCHANGED <<findings, web, queue, workspace, faults>>

\* reapExpiredAgentSessions: the lease expired or there is none.
Sweep(r) ==
    /\ state[r] \in InProgress /\ ~lease[r].live
    /\ SetState(r, "FAILED") /\ Release(r)
    /\ UNCHANGED <<findings, web, queue, workspace, faults>>

-----------------------------------------------------------------------------
Init ==
    /\ state = [r \in Requests |-> "none"] /\ lease = [r \in Requests |-> NoLease]
    /\ finding = [r \in Requests |-> NoFinding] /\ remediations = [r \in Requests |-> 0]
    /\ request = [r \in Requests |-> "idle"] /\ baseline = [r \in Requests |-> Empty]
    /\ decider = [d \in Deciders |-> [at |-> "idle", finding |-> NoSession]]
    /\ job = [r \in Requests |-> "none"] /\ turn = [w \in Workers |-> Free]
    /\ listener = [r \in Requests |-> "none"]
    /\ workspace = Empty /\ faults = 0

Submit(r) == Check(r) \/ Create(r) \/ AddJob(r)
Decide(d) ==
    (\E f \in Requests : ReadFinding(d, f)) \/ Reject(d) \/ MakeRemediation(d) \/ Accept(d)

Work(w) ==
    \/ Run(w) \/ ProbeFails(w) \/ ProviderDone(w)
    \/ Store(w) \/ Succeed(w) \/ Remember(w)
    \/ Throw(w) \/ Fail(w)
Listen(r) == ListenerReads(r) \/ ListenerWrites(r)
Fault(r) == ClaimThrows(r) \/ Stall(r) \/ StallsOut(r) \/ ListenerThrows(r)

Next ==
    \/ \E r \in Requests :
          Submit(r) \/ Cancel(r) \/ Listen(r) \/ Fault(r) \/ Expire(r) \/ Sweep(r)
    \/ \E d \in Deciders : Decide(d)
    \/ \E w \in Workers : Work(w) \/ Crash(w) \/ \E r \in Requests : Claim(w, r)
    \/ Edit

Spec == Init /\ [][Next]_vars

\* The provider is at work for a session.
Provided(r) == \E w \in Workers : Mine(w) = r /\ At(w, "running")

\* Workers and listeners go on, a lease that nobody renews expires, jobs are
\* delivered and the sweep runs again and again.  A provider need not end, there
\* is no timer, unless its session is cancelled: then it is stopped.
Fairness ==
    /\ \A w \in Workers :
          WF_vars((At(w, "running") => state[Mine(w)] = "CANCELLED") /\ Work(w))
    /\ \A r \in Requests :
          /\ WF_vars(\E w \in Workers : Claim(w, r)) /\ WF_vars(Listen(r))
          /\ WF_vars(Abandoned(r) /\ Expire(r)) /\ WF_vars(Sweep(r))

FairSpec == Spec /\ Fairness

-----------------------------------------------------------------------------
(***************************************************************************)
(* Types.                                                                  *)
(***************************************************************************)

Workspace == [version : 0 .. MaxEdits, digest : 0 .. MaxEdits]

\* Values have their types; a worker is at every active job, and a session that
\* ended by itself has no lease.
TypeOK ==
    /\ state \in [Requests -> {"none", "QUEUED"} \cup InProgress \cup Terminal]
    /\ lease \in [Requests -> [worker : Workers \cup {NoWorker}, live : BOOLEAN]]
    /\ finding \in [Requests -> [status : {"none", "PENDING", "ACCEPTED", "REJECTED"},
                                 stale : BOOLEAN, seen : Workspace]]
    /\ remediations \in [Requests -> 0 .. Cardinality(Deciders)]
    /\ request \in [Requests -> {"idle", "checked", "created", "queued"}]
    /\ baseline \in [Requests -> Workspace]
    /\ decider \in [Deciders -> [at : {"idle", "read", "made", "done"},
                                 finding : Requests \cup {NoSession}]]
    /\ job \in [Requests -> {"none", "waiting", "again", "active", "finished"}]
    /\ turn \in [Workers -> [at : {"free", "probing", "running", "storing",
                                   "succeeding", "remembering", "failing"},
                             session : Requests \cup {NoSession}]]
    /\ listener \in [Requests -> {"none", "heard", "read"}]
    /\ workspace \in Workspace /\ faults \in 0 .. MaxFaults
    /\ \A r \in Requests : job[r] = "active" => \E w \in Workers : Mine(w) = r
    /\ \A r \in Requests : state[r] \in {"SUCCEEDED", "FAILED"} => lease[r] = NoLease

-----------------------------------------------------------------------------
(***************************************************************************)
(* Properties.                                                             *)
(***************************************************************************)

\* A job that is delivered again, after a crash or while its worker is slow, runs
\* no session a second time: two workers are never at one session.
OneWorkerPerSession ==
    \A v, w \in Workers : Mine(v) = Mine(w) /\ v # w => Mine(w) = NoSession

\* A finding that is accepted was stored when the workspace had the digest it had
\* when the review was requested: an edit that hashGit sees, while the request,
\* the queue or the review takes its time, makes it stale.
AcceptedIsFresh ==
    \A r \in Requests :
        finding[r].status = "ACCEPTED" => finding[r].seen.digest = baseline[r].digest

\* A session that a worker has claimed ends, or its provider runs for ever and
\* nobody cancels it: also a session that a sweep failed and its slow worker
\* revived before it crashed.
ClaimedEnds ==
    \A r \in Requests : state[r] \in InProgress ~> (state[r] \in Terminal \/ []Provided(r))

(***************************************************************************)
(* Statements that the code does not keep.                                 *)
(***************************************************************************)

\* ARCHITECTURE.md:39: "Workspace hashes mark reviews stale when Git changes during
\* review": an accepted finding was stored when the workspace was the one of the
\* request.
AcceptedIsExact ==
    \A r \in Requests : finding[r].status = "ACCEPTED" => finding[r].seen = baseline[r]

\* ARCHITECTURE.md:43: the worker "finishes in a terminal state": a session
\* that has ended stays as it ended.
EndedStaysEnded ==
    [][\A r \in Requests : state[r] \in Terminal => state'[r] = state[r]]_vars
=============================================================================
