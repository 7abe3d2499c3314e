---------------------------- MODULE SessionLease ----------------------------
(***************************************************************************)
(* Ownership and outcome of conversation executions.                       *)
(*                                                                         *)
(* An execution is an AgentSession row.  Worker processes claim QUEUED     *)
(* rows with a compare-and-swap, renew a lease while they run a provider   *)
(* CLI as a child process, and end the row in a terminal state.  Browsers  *)
(* cancel rows, sweeps of every worker reclaim rows whose lease expired,   *)
(* and workers crash, which leaves their child processes running.          *)
(*                                                                         *)
(* One action is one database statement (or one transaction) together with *)
(* the synchronous code around it; awaits are where other actors run.      *)
(***************************************************************************)
EXTENDS Naturals

CONSTANTS
    Workers,    \* worker processes (apps/worker)
    Sessions,   \* AgentSession rows of conversations
    NoWorker,   \* workerId = null
    NoSession,  \* a worker without a job
    MaxFaults   \* bound on crashes, failed kills and failed transactions

ASSUME NullsAssumption == NoWorker \notin Workers /\ NoSession \notin Sessions
ASSUME FaultsAssumption == MaxFaults \in Nat

VARIABLES
    \* rows of the database
    state,      \* AgentSession.state
    owner,      \* AgentSession.workerId
    lease,      \* AgentSession.leaseExpiresAt: null, in the future, in the past
    pid,        \* turn whose process is in providerRootPid/...StartIdentity, 0 if null
    message,    \* status of the assistant ConversationMessage of the session
    thread,     \* ProviderSession.status, one ProviderSession per session here
    \* the operating system
    alive,      \* turns of the session whose provider process is running
    \* memory of a worker: the job it runs
    pc,         \* where processConversationMessage stands
    cur,        \* the session of the job
    attempt,    \* 1: resumed or fresh turn, 2: fresh turn after a stale resume
    run,        \* where runSession (the child process) of the turn stands
    result,     \* how runSession settled
    cause,      \* timeoutCode / cancellationRequested of the turn
    term,       \* where terminateRecordedProviderProcess of the turn stands
    termPid,    \* the process it read from the row
    \* memory of a worker: 'failed' listeners of the queue
    failures,   \* jobs that threw and whose listener has not read the row yet
    overwrites, \* rows the listener read as unfinished and is about to fail
    \* memory of a worker: its recovery sweep
    cand,       \* candidates read and still eligible at the sweep's clock
    snap,       \* process recorded in the row when the candidates were read
    sweep,      \* where reapExpiredAgentSessions stands
    target,     \* the candidate it reclaimed
    \* bound
    faults

rows == <<state, owner, lease, pid, message, thread>>
job == <<pc, cur, attempt, run, result, cause, term, termPid>>
listeners == <<failures, overwrites>>
sweeper == <<cand, snap, sweep, target>>
vars == <<rows, alive, job, listeners, sweeper, faults>>

InProgress == {"STARTING", "RUNNING"}
Stopped == {"FAILED", "TIMED_OUT", "CANCELLED"}
Terminal == Stopped \cup {"SUCCEEDED"}
States == {"QUEUED"} \cup InProgress \cup Terminal

Turns == 1 .. 2

-----------------------------------------------------------------------------
(***************************************************************************)
(* Initial state: rows as queueConversationMessage commits them.           *)
(***************************************************************************)

Init ==
    /\ state = [s \in Sessions |-> "QUEUED"]
    /\ owner = [s \in Sessions |-> NoWorker]
    /\ lease = [s \in Sessions |-> "none"]
    /\ pid = [s \in Sessions |-> 0]
    /\ message = [s \in Sessions |-> "none"]
    /\ thread = [s \in Sessions |-> "RUNNING"]
    /\ alive = [s \in Sessions |-> {}]
    /\ pc = [w \in Workers |-> "idle"]
    /\ cur = [w \in Workers |-> NoSession]
    /\ attempt = [w \in Workers |-> 0]
    /\ run = [w \in Workers |-> "none"]
    /\ result = [w \in Workers |-> "none"]
    /\ cause = [w \in Workers |-> "none"]
    /\ term = [w \in Workers |-> "off"]
    /\ termPid = [w \in Workers |-> 0]
    /\ failures = [w \in Workers |-> {}]
    /\ overwrites = [w \in Workers |-> {}]
    /\ cand = [w \in Workers |-> {}]
    /\ snap = [w \in Workers |-> [s \in Sessions |-> 0]]
    /\ sweep = [w \in Workers |-> "idle"]
    /\ target = [w \in Workers |-> NoSession]
    /\ faults = 0

-----------------------------------------------------------------------------
(***************************************************************************)
(* Guards and updates the statements share.                                *)
(***************************************************************************)

\* where: { id, workerId, state: { in: ["STARTING", "RUNNING"] } }
Owns(w, s) == owner[s] = w /\ state[s] \in InProgress

\* { state: st, ...releasedLeaseFields }
End(s, st) ==
    /\ state' = [state EXCEPT ![s] = st]
    /\ owner' = [owner EXCEPT ![s] = NoWorker]
    /\ lease' = [lease EXCEPT ![s] = "none"]

UnchangedOutcome == UNCHANGED <<state, owner, lease>>

\* The job of w is over: its locals are gone.
Finished(w) ==
    /\ pc' = [pc EXCEPT ![w] = "idle"]
    /\ cur' = [cur EXCEPT ![w] = NoSession]
    /\ attempt' = [attempt EXCEPT ![w] = 0]
    /\ run' = [run EXCEPT ![w] = "none"]
    /\ result' = [result EXCEPT ![w] = "none"]
    /\ cause' = [cause EXCEPT ![w] = "none"]
    /\ term' = [term EXCEPT ![w] = "off"]
    /\ termPid' = [termPid EXCEPT ![w] = 0]

\* The job of w threw: the queue emits 'failed' in the same process.
Threw(w) ==
    /\ Finished(w)
    /\ failures' = [failures EXCEPT ![w] = @ \cup {cur[w]}]
    /\ UNCHANGED overwrites

\* Variant: counts turns instead of numbering them.
StartTurnCounting(w, k) ==
    /\ pc' = [pc EXCEPT ![w] = "turn"]
    /\ attempt' = [attempt EXCEPT ![w] = @ + k]
    /\ run' = [run EXCEPT ![w] = "starting"]
    /\ result' = [result EXCEPT ![w] = "none"]
    /\ UNCHANGED <<cur, cause, term, termPid>>

\* executeProviderTurn starts turn k with fresh timers and a fresh runSession.
StartTurn(w, k) ==
    /\ pc' = [pc EXCEPT ![w] = "turn"]
    /\ attempt' = [attempt EXCEPT ![w] = k]
    /\ run' = [run EXCEPT ![w] = "starting"]
    /\ result' = [result EXCEPT ![w] = "none"]
    /\ UNCHANGED <<cur, cause, term, termPid>>

Fault == faults < MaxFaults /\ faults' = faults + 1

\* taskkill /t /f on the processes of turns K: it works unless a fault hits it.
KillWorks(s, K) ==
    /\ alive' = [alive EXCEPT ![s] = @ \ K]
    /\ UNCHANGED faults
KillFails(s, K) ==
    /\ alive[s] \cap K # {}
    /\ Fault
    /\ UNCHANGED alive
Kill(s, K) == KillWorks(s, K) \/ KillFails(s, K)

-----------------------------------------------------------------------------
(***************************************************************************)
(* The browser.                                                            *)
(***************************************************************************)

\* Variant: the route releases the row as every other terminal write does.
CancelReleasing(s) ==
    /\ state[s] \in {"QUEUED"} \cup InProgress
    /\ End(s, "CANCELLED")
    /\ UNCHANGED <<pid, message, thread>>
    /\ UNCHANGED <<alive, job, listeners, sweeper, faults>>

\* The cancel route: the row becomes CANCELLED and keeps its workerId and
\* lease, by which the owning worker recognises the request.
Cancel(s) ==
    /\ state[s] \in {"QUEUED"} \cup InProgress
    /\ state' = [state EXCEPT ![s] = "CANCELLED"]
    /\ UNCHANGED <<owner, lease, pid, message, thread>>
    /\ UNCHANGED <<alive, job, listeners, sweeper, faults>>

-----------------------------------------------------------------------------
(***************************************************************************)
(* The job of a worker, before the provider runs.                          *)
(***************************************************************************)

\* Variant: claims whatever row the delivery names.
ClaimUnchecked(w, s) ==
    /\ pc[w] = "idle"
    /\ state[s] \in {"QUEUED"} \cup InProgress
    /\ state' = [state EXCEPT ![s] = "STARTING"]
    /\ owner' = [owner EXCEPT ![s] = w]
    /\ lease' = [lease EXCEPT ![s] = "live"]
    /\ pc' = [pc EXCEPT ![w] = "loading"]
    /\ cur' = [cur EXCEPT ![w] = s]
    /\ UNCHANGED <<pid, message, thread, alive, attempt, run, result, cause>>
    /\ UNCHANGED <<term, termPid, listeners, sweeper, faults>>

\* A delivered job whose row is still QUEUED.  A delivery of any other row
\* returns at once and changes nothing, so duplicates need no action.
Claim(w, s) ==
    /\ pc[w] = "idle"
    /\ state[s] = "QUEUED"
    /\ state' = [state EXCEPT ![s] = "STARTING"]
    /\ owner' = [owner EXCEPT ![s] = w]
    /\ lease' = [lease EXCEPT ![s] = "live"]
    /\ pc' = [pc EXCEPT ![w] = "loading"]
    /\ cur' = [cur EXCEPT ![w] = s]
    /\ UNCHANGED <<pid, message, thread, alive, attempt, run, result, cause>>
    /\ UNCHANGED <<term, termPid, listeners, sweeper, faults>>

\* Renewing makes leaseExpiresAt later than the clock of every sweep under
\* way, so none of their compare-and-swaps can match the row any more.
Heartbeat(w) ==
    /\ cur[w] # NoSession
    /\ Owns(w, cur[w])
    /\ lease[cur[w]] = "expired"
    /\ lease' = [lease EXCEPT ![cur[w]] = "live"]
    /\ cand' = [v \in Workers |-> cand[v] \ {cur[w]}]
    /\ UNCHANGED <<state, owner, pid, message, thread, alive, job, listeners>>
    /\ UNCHANGED <<snap, sweep, target, faults>>

\* Loading a row of the job throws outside the try block.
LoadThrows(w) ==
    /\ pc[w] = "loading"
    /\ Threw(w)
    /\ UNCHANGED <<rows, alive, sweeper, faults>>

\* validateExecutionRelationships returned an error.
Reject(w) ==
    LET s == cur[w] IN
    /\ pc[w] = "loading"
    /\ \/ owner[s] = w /\ state[s] = "STARTING" /\ End(s, "FAILED")
       \/ ~(owner[s] = w /\ state[s] = "STARTING") /\ UnchangedOutcome
    /\ Threw(w)
    /\ UNCHANGED <<pid, message, thread, alive, sweeper, faults>>

Validated(w) ==
    /\ pc[w] = "loading"
    /\ pc' = [pc EXCEPT ![w] = "preparing"]
    /\ UNCHANGED <<rows, alive, cur, attempt, run, result, cause, term>>
    /\ UNCHANGED <<termPid, listeners, sweeper, faults>>

\* The probe, the capsule or createSession throws inside the try block.
PrepareThrows(w) ==
    /\ pc[w] = "preparing"
    /\ pc' = [pc EXCEPT ![w] = "failing"]
    /\ UNCHANGED <<rows, alive, cur, attempt, run, result, cause, term>>
    /\ UNCHANGED <<termPid, listeners, sweeper, faults>>

BeginTurn(w) ==
    /\ pc[w] = "preparing"
    /\ StartTurn(w, 1)
    /\ UNCHANGED <<rows, alive, listeners, sweeper, faults>>

-----------------------------------------------------------------------------
(***************************************************************************)
(* runSession: the child process of the turn.                              *)
(***************************************************************************)

Settle(w, r) ==
    /\ run' = [run EXCEPT ![w] = "settled"]
    /\ result' = [result EXCEPT ![w] = r]
    /\ UNCHANGED <<pc, cur, attempt, cause, term, termPid>>

\* The executable is not found or cannot be launched.
SpawnThrows(w) ==
    /\ run[w] = "starting"
    /\ Settle(w, "error")
    /\ UNCHANGED <<rows, alive, listeners, sweeper, faults>>

Spawn(w) ==
    /\ run[w] = "starting"
    /\ alive' = [alive EXCEPT ![cur[w]] = @ \cup {attempt[w]}]
    /\ run' = [run EXCEPT ![w] = "spawned"]
    /\ UNCHANGED <<rows, pc, cur, attempt, result, cause, term, termPid>>
    /\ UNCHANGED <<listeners, sweeper, faults>>

\* captureProcessStart needs the process to be there still, and a look-up that
\* works.
Capture(w) ==
    /\ run[w] = "spawned"
    /\ \/ /\ run' = [run EXCEPT ![w] = IF attempt[w] \in alive[cur[w]]
                                       THEN "captured" ELSE "unowned"]
          /\ UNCHANGED faults
       \/ Fault /\ run' = [run EXCEPT ![w] = "unowned"]
    /\ UNCHANGED <<rows, alive, pc, cur, attempt, result, cause, term>>
    /\ UNCHANGED <<termPid, listeners, sweeper>>

\* Variant: records the process without looking at the row.
PersistUnchecked(w) ==
    LET s == cur[w] IN
    /\ run[w] = "captured"
    /\ state' = [state EXCEPT ![s] = "RUNNING"]
    /\ pid' = [pid EXCEPT ![s] = attempt[w]]
    /\ run' = [run EXCEPT ![w] = "streaming"]
    /\ UNCHANGED <<owner, lease, message, thread, alive, listeners, sweeper>>
    /\ UNCHANGED <<pc, cur, attempt, result, cause, term, termPid, faults>>

\* onProcessStarted, then beginOutputProcessing, which sends the prompt.  A
\* process that exited meanwhile may have emitted 'close' with no listener.
Persist(w) ==
    LET s == cur[w] IN
    /\ run[w] = "captured"
    /\ Owns(w, s)
    /\ state' = [state EXCEPT ![s] = "RUNNING"]
    /\ pid' = [pid EXCEPT ![s] = attempt[w]]
    /\ \E r \in {"streaming", "deaf"} :
          /\ r = "deaf" => attempt[w] \notin alive[s]
          /\ run' = [run EXCEPT ![w] = r]
    /\ UNCHANGED <<owner, lease, message, thread, alive, listeners, sweeper>>
    /\ UNCHANGED <<pc, cur, attempt, result, cause, term, termPid, faults>>

\* onProcessStarted found the row ended or owned by nobody, or the database
\* failed.
PersistRejected(w) ==
    /\ run[w] = "captured"
    /\ Fault \/ (~Owns(w, cur[w]) /\ UNCHANGED faults)
    /\ run' = [run EXCEPT ![w] = "unowned"]
    /\ UNCHANGED <<rows, alive, pc, cur, attempt, result, cause, term>>
    /\ UNCHANGED <<termPid, listeners, sweeper>>

\* Variant: gives the row up and leaves the process.
DisownWithoutKill(w) ==
    LET s == cur[w] IN
    /\ run[w] = "unowned"
    /\ \/ Owns(w, s) /\ End(s, "FAILED")
       \/ ~Owns(w, s) /\ UnchangedOutcome
    /\ Settle(w, "error")
    /\ UNCHANGED <<pid, message, thread, alive, listeners, sweeper, faults>>

\* onProcessStartFailure: terminate, then end the row if it is still owned.
\* A termination that is not confirmed throws before the row is written, one
\* whose look-up fails takes the process for dead.
Disown(w) ==
    LET s == cur[w] IN
    /\ run[w] = "unowned"
    /\ \/ /\ Kill(s, {attempt[w]})
          /\ \/ Owns(w, s) /\ End(s, "FAILED")
             \/ ~Owns(w, s) /\ UnchangedOutcome
       \/ KillFails(s, {attempt[w]}) /\ UnchangedOutcome
    /\ Settle(w, "error")
    /\ UNCHANGED <<pid, message, thread, listeners, sweeper>>

\* The process exits: on its own, or killed earlier and only now gone.
Exit(s) ==
    \E k \in alive[s] :
        /\ alive' = [alive EXCEPT ![s] = @ \ {k}]
        /\ UNCHANGED <<rows, job, listeners, sweeper, faults>>

\* Variant: a stale resume is reported from the output, before the exit.
CloseEarly(w) ==
    /\ run[w] = "streaming"
    /\ \E r \in {"ok", "error", "stale"} :
          /\ r = "stale" => attempt[w] = 1
          /\ r # "stale" => attempt[w] \notin alive[cur[w]]
          /\ Settle(w, r)
    /\ UNCHANGED <<rows, alive, listeners, sweeper, faults>>

\* 'close' of the child: success, failure, or a resume of a thread the
\* provider no longer has.
Close(w) ==
    /\ run[w] = "streaming"
    /\ attempt[w] \notin alive[cur[w]]
    /\ \E r \in {"ok", "error", "stale"} :
          /\ r = "stale" => attempt[w] = 1
          /\ Settle(w, r)
    /\ UNCHANGED <<rows, alive, listeners, sweeper, faults>>

-----------------------------------------------------------------------------
(***************************************************************************)
(* Timers of the turn, and terminateRecordedProviderProcess, which runs    *)
(* beside runSession.                                                      *)
(***************************************************************************)

\* terminate(): starts the recorded termination unless one runs already, and
\* kills the child this turn has spawned so far.
Terminate(w, c) ==
    /\ cause' = [cause EXCEPT ![w] = c]
    /\ term' = [term EXCEPT ![w] = IF @ = "off" THEN "requested" ELSE @]
    /\ IF run[w] \in {"starting", "settled"}
       THEN UNCHANGED <<alive, faults>>
       ELSE Kill(cur[w], {attempt[w]})
    /\ UNCHANGED <<rows, pc, cur, attempt, run, result, termPid>>
    /\ UNCHANGED <<listeners, sweeper>>

\* The inactivity or the absolute timer fires.
Timeout(w) ==
    /\ pc[w] = "turn"
    /\ cause[w] = "none"
    /\ Terminate(w, "TIMED_OUT")

\* The 250 ms poll reads a cancelled row that is still this worker's, also
\* when a timer has fired before.
ObserveCancel(w) ==
    /\ pc[w] = "turn"
    /\ cause[w] \in {"none", "TIMED_OUT"}
    /\ state[cur[w]] = "CANCELLED"
    /\ owner[cur[w]] = w
    /\ Terminate(w, IF cause[w] = "none" THEN "CANCELLED" ELSE "BOTH")

TermRead(w) ==
    /\ term[w] = "requested"
    /\ term' = [term EXCEPT ![w] = "read"]
    /\ termPid' = [termPid EXCEPT ![w] = pid[cur[w]]]
    /\ UNCHANGED <<rows, alive, pc, cur, attempt, run, result, cause>>
    /\ UNCHANGED <<listeners, sweeper, faults>>

\* A timeout ends only a row in progress; a cancellation does not look at the
\* state of the row, only at its owner.
TermMark(w) ==
    LET s == cur[w]
        st == IF cause[w] = "CANCELLED" THEN "CANCELLED" ELSE "TIMED_OUT"
        Match == owner[s] = w /\ (st = "TIMED_OUT" => state[s] \in InProgress)
    IN
    /\ term[w] = "read"
    /\ \/ Match /\ End(s, st)
       \/ ~Match /\ UnchangedOutcome
    /\ term' = [term EXCEPT ![w] = "marked"]
    /\ UNCHANGED <<pid, message, thread, alive, pc, cur, attempt, run>>
    /\ UNCHANGED <<result, cause, termPid, listeners, sweeper, faults>>

\* The process that was read is killed; none recorded, none killed.
TermKill(w) ==
    /\ term[w] = "marked"
    /\ Kill(cur[w], {termPid[w]})
    /\ term' = [term EXCEPT ![w] = "done"]
    /\ UNCHANGED <<rows, pc, cur, attempt, run, result, cause, termPid>>
    /\ UNCHANGED <<listeners, sweeper>>

-----------------------------------------------------------------------------
(***************************************************************************)
(* How the turn and the job end.                                           *)
(***************************************************************************)

TurnOver(w) ==
    pc[w] = "turn" /\ run[w] = "settled" /\ term[w] \in {"off", "done"}

TurnSucceeds(w) ==
    /\ TurnOver(w)
    /\ cause[w] = "none" /\ result[w] = "ok"
    /\ pc' = [pc EXCEPT ![w] = "finishing"]
    /\ UNCHANGED <<rows, alive, cur, attempt, run, result, cause, term>>
    /\ UNCHANGED <<termPid, listeners, sweeper, faults>>

\* A stale resume fails too when createSession rejects the fresh session.
TurnFails(w) ==
    /\ TurnOver(w)
    /\ cause[w] # "none" \/ result[w] # "ok"
    /\ pc' = [pc EXCEPT ![w] = "failing"]
    /\ UNCHANGED <<rows, alive, cur, attempt, run, result, cause, term>>
    /\ UNCHANGED <<termPid, listeners, sweeper, faults>>

\* StaleProviderSessionError of a resumed turn: a fresh session, a new turn.
TurnRestarts(w) ==
    /\ TurnOver(w)
    /\ cause[w] = "none" /\ result[w] = "stale"
    /\ StartTurn(w, 2)
    /\ UNCHANGED <<rows, alive, listeners, sweeper, faults>>

\* Variant: writes the answer also when no row was finalized.
FinishUnchecked(w) ==
    LET s == cur[w] IN
    /\ pc[w] = "finishing"
    /\ \/ owner[s] = w /\ state[s] = "RUNNING" /\ End(s, "SUCCEEDED")
       \/ ~(owner[s] = w /\ state[s] = "RUNNING") /\ UnchangedOutcome
    /\ message' = [message EXCEPT ![s] = "COMPLETED"]
    /\ thread' = [thread EXCEPT ![s] = "RUNNING"]
    /\ Finished(w)
    /\ UNCHANGED <<pid, alive, listeners, sweeper, faults>>

\* The completion transaction, which applies only to a row still RUNNING here.
Finish(w) ==
    LET s == cur[w] IN
    /\ pc[w] = "finishing"
    /\ \/ /\ owner[s] = w /\ state[s] = "RUNNING"
          /\ End(s, "SUCCEEDED")
          /\ message' = [message EXCEPT ![s] = "COMPLETED"]
          /\ thread' = [thread EXCEPT ![s] = "RUNNING"]
       \/ /\ ~(owner[s] = w /\ state[s] = "RUNNING")
          /\ UnchangedOutcome
          /\ UNCHANGED <<message, thread>>
    /\ Finished(w)
    /\ UNCHANGED <<pid, alive, listeners, sweeper, faults>>

\* The completion transaction rolls back and the catch block takes over.
FinishAborts(w) ==
    /\ pc[w] = "finishing"
    /\ Fault
    /\ pc' = [pc EXCEPT ![w] = "failing"]
    /\ UNCHANGED <<rows, alive, cur, attempt, run, result, cause, term>>
    /\ UNCHANGED <<termPid, listeners, sweeper>>

Verdict(w) ==
    CASE cause[w] = "none" -> "FAILED"
      [] cause[w] = "TIMED_OUT" -> "TIMED_OUT"
      [] OTHER -> "CANCELLED"

\* The catch block: its transaction, then the error is thrown again.
Fail(w) ==
    LET s == cur[w] IN
    /\ pc[w] = "failing"
    /\ \/ /\ Owns(w, s)
          /\ End(s, Verdict(w))
          /\ message' = [message EXCEPT ![s] = "FAILED"]
          /\ thread' = [thread EXCEPT ![s] = "FAILED"]
       \/ /\ ~Owns(w, s)
          /\ UnchangedOutcome
          /\ UNCHANGED <<message, thread>>
    /\ Threw(w)
    /\ UNCHANGED <<pid, alive, sweeper, faults>>

FailAborts(w) ==
    /\ pc[w] = "failing"
    /\ Fault
    /\ Threw(w)
    /\ UNCHANGED <<rows, alive, sweeper>>

-----------------------------------------------------------------------------
(***************************************************************************)
(* The 'failed' listener of the queue: it reads the row and, if the row is *)
(* not terminal, fails it without looking again.                           *)
(***************************************************************************)

\* Variant: fails every row whose job threw.
ListenerReadsAny(w, s) ==
    /\ s \in failures[w]
    /\ failures' = [failures EXCEPT ![w] = @ \ {s}]
    /\ overwrites' = [overwrites EXCEPT ![w] = @ \cup {s}]
    /\ UNCHANGED <<rows, alive, job, sweeper, faults>>

ListenerReads(w, s) ==
    /\ s \in failures[w]
    /\ failures' = [failures EXCEPT ![w] = @ \ {s}]
    /\ overwrites' = [overwrites EXCEPT
                         ![w] = IF state[s] \in Terminal THEN @ ELSE @ \cup {s}]
    /\ UNCHANGED <<rows, alive, job, sweeper, faults>>

ListenerWrites(w, s) ==
    /\ s \in overwrites[w]
    /\ overwrites' = [overwrites EXCEPT ![w] = @ \ {s}]
    /\ End(s, "FAILED")
    /\ UNCHANGED <<pid, message, thread, alive, job, failures, sweeper, faults>>

-----------------------------------------------------------------------------
(***************************************************************************)
(* reapExpiredAgentSessions: at start-up and every 30 s in every worker.   *)
(***************************************************************************)

\* Variants: the sweep ignores the lease, or sees running rows only.
ExpiredAnyLease(s) == state[s] \in InProgress
ExpiredRunning(s) == state[s] = "RUNNING" /\ lease[s] # "live"

Expired(s) == state[s] \in InProgress /\ lease[s] # "live"

\* The clock of the sweep is read, then the candidates with their processes.
BeginSweep(w) ==
    LET found == {s \in Sessions : Expired(s)} IN
    /\ sweep[w] = "idle"
    /\ found # {}
    /\ cand' = [cand EXCEPT ![w] = found]
    /\ snap' = [snap EXCEPT
                   ![w] = [s \in Sessions |-> IF s \in found THEN pid[s] ELSE 0]]
    /\ sweep' = [sweep EXCEPT ![w] = "next"]
    /\ UNCHANGED <<rows, alive, job, listeners, target, faults>>

EndSweep(w) ==
    /\ sweep[w] = "next"
    /\ cand[w] = {}
    /\ sweep' = [sweep EXCEPT ![w] = "idle"]
    /\ snap' = [snap EXCEPT ![w] = [s \in Sessions |-> 0]]
    /\ UNCHANGED <<rows, alive, job, listeners, cand, target, faults>>

\* The compare-and-swap of one candidate.
Reclaim(w, s) ==
    /\ sweep[w] = "next"
    /\ s \in cand[w]
    /\ cand' = [cand EXCEPT ![w] = @ \ {s}]
    /\ \/ /\ Expired(s)
          /\ End(s, "FAILED")
          /\ target' = [target EXCEPT ![w] = s]
          /\ sweep' = [sweep EXCEPT ![w] = "reclaimed"]
       \/ /\ ~Expired(s)
          /\ UnchangedOutcome
          /\ UNCHANGED <<target, sweep>>
    /\ UNCHANGED <<pid, message, thread, alive, job, listeners, snap, faults>>

\* The process of the snapshot is terminated.  When that is not confirmed the
\* error ends the whole sweep; when a look-up fails the process passes for dead.
ReapKill(w) ==
    LET s == target[w] IN
    /\ sweep[w] = "reclaimed"
    /\ \/ /\ Kill(s, {snap[w][s]})
          /\ sweep' = [sweep EXCEPT ![w] = "killed"]
          /\ UNCHANGED <<cand, snap, target>>
       \/ /\ KillFails(s, {snap[w][s]})
          /\ sweep' = [sweep EXCEPT ![w] = "idle"]
          /\ cand' = [cand EXCEPT ![w] = {}]
          /\ snap' = [snap EXCEPT ![w] = [x \in Sessions |-> 0]]
          /\ target' = [target EXCEPT ![w] = NoSession]
    /\ UNCHANGED <<rows, job, listeners>>

ReapThread(w) ==
    /\ sweep[w] = "killed"
    /\ thread' = [thread EXCEPT ![target[w]] = "FAILED"]
    /\ sweep' = [sweep EXCEPT ![w] = "marked"]
    /\ UNCHANGED <<state, owner, lease, pid, message, alive, job, listeners>>
    /\ UNCHANGED <<cand, snap, target, faults>>

\* The notice is unique per AgentSession: a second one is refused and ignored.
ReapNotice(w) ==
    /\ sweep[w] = "marked"
    /\ message' = [message EXCEPT ![target[w]] = IF @ = "none" THEN "FAILED" ELSE @]
    /\ sweep' = [sweep EXCEPT ![w] = "next"]
    /\ target' = [target EXCEPT ![w] = NoSession]
    /\ UNCHANGED <<state, owner, lease, pid, thread, alive, job, listeners>>
    /\ UNCHANGED <<cand, snap, faults>>

-----------------------------------------------------------------------------
(***************************************************************************)
(* Time and crashes.                                                       *)
(***************************************************************************)

\* The lease runs out: its owner is gone, or too slow to renew it in time.
LeaseExpires(s) ==
    /\ lease[s] = "live"
    /\ lease' = [lease EXCEPT ![s] = "expired"]
    /\ UNCHANGED <<state, owner, pid, message, thread>>
    /\ UNCHANGED <<alive, job, listeners, sweeper, faults>>

\* The process of the worker dies and is started again under a new workerId,
\* which no row carries.  Provider processes survive it.
Crash(w) ==
    /\ Fault
    /\ Finished(w)
    /\ failures' = [failures EXCEPT ![w] = {}]
    /\ overwrites' = [overwrites EXCEPT ![w] = {}]
    /\ cand' = [cand EXCEPT ![w] = {}]
    /\ snap' = [snap EXCEPT ![w] = [s \in Sessions |-> 0]]
    /\ sweep' = [sweep EXCEPT ![w] = "idle"]
    /\ target' = [target EXCEPT ![w] = NoSession]
    /\ UNCHANGED <<rows, alive>>

-----------------------------------------------------------------------------
RunStep(w) ==
    \/ SpawnThrows(w) \/ Spawn(w) \/ Capture(w) \/ Persist(w)
    \/ PersistRejected(w) \/ Disown(w) \/ Close(w)

TermStep(w) == TermRead(w) \/ TermMark(w) \/ TermKill(w)

JobStep(w) ==
    \/ LoadThrows(w) \/ Reject(w) \/ Validated(w)
    \/ PrepareThrows(w) \/ BeginTurn(w)
    \/ TurnSucceeds(w) \/ TurnFails(w) \/ TurnRestarts(w)
    \/ Finish(w) \/ FinishAborts(w) \/ Fail(w) \/ FailAborts(w)

SweepStep(w) ==
    \/ BeginSweep(w) \/ EndSweep(w) \/ \E s \in Sessions : Reclaim(w, s)
    \/ ReapKill(w) \/ ReapThread(w) \/ ReapNotice(w)

WorkerStep(w) ==
    \/ \E s \in Sessions : Claim(w, s)
    \/ JobStep(w)
    \/ RunStep(w)
    \/ TermStep(w)
    \/ Timeout(w)
    \/ ObserveCancel(w)
    \/ Heartbeat(w)
    \/ \E s \in Sessions : ListenerReads(w, s) \/ ListenerWrites(w, s)
    \/ SweepStep(w)
    \/ Crash(w)

Next ==
    \/ \E s \in Sessions : Cancel(s) \/ Exit(s) \/ LeaseExpires(s)
    \/ \E w \in Workers : WorkerStep(w)

Spec == Init /\ [][Next]_vars

(***************************************************************************)
(* Fairness: the event loop of a worker runs every continuation it has, its *)
(* timers fire, sweeps recur, and the lease of a row that no worker renews  *)
(* runs out.  Nobody has to cancel, crash, or deliver a job, and a provider *)
(* process need not exit unless it is killed.                               *)
(***************************************************************************)
Unattended(s) == \A w \in Workers : ~(cur[w] = s /\ Owns(w, s))

Fairness ==
    /\ \A w \in Workers :
          /\ WF_vars(JobStep(w))
          /\ WF_vars(RunStep(w))
          /\ WF_vars(TermStep(w))
          /\ WF_vars(Timeout(w))
          /\ WF_vars(ObserveCancel(w))
          /\ WF_vars(SweepStep(w))
    /\ \A w \in Workers, s \in Sessions :
          WF_vars(ListenerReads(w, s)) /\ WF_vars(ListenerWrites(w, s))
    /\ \A s \in Sessions : WF_vars(Unattended(s) /\ LeaseExpires(s))

FairSpec == Spec /\ Fairness

-----------------------------------------------------------------------------
(***************************************************************************)
(* Properties.                                                             *)
(***************************************************************************)

\* Every variable stays in the range its column or local has.
TypeOK ==
    /\ state \in [Sessions -> States]
    /\ owner \in [Sessions -> Workers \cup {NoWorker}]
    /\ lease \in [Sessions -> {"none", "live", "expired"}]
    /\ pid \in [Sessions -> 0 .. 2]
    /\ message \in [Sessions -> {"none", "COMPLETED", "FAILED"}]
    /\ thread \in [Sessions -> {"RUNNING", "FAILED"}]
    /\ alive \in [Sessions -> SUBSET Turns]
    /\ pc \in [Workers -> {"idle", "loading", "preparing", "turn",
                           "finishing", "failing"}]
    /\ cur \in [Workers -> Sessions \cup {NoSession}]
    /\ attempt \in [Workers -> 0 .. 2]
    /\ run \in [Workers -> {"none", "starting", "spawned", "captured",
                            "streaming", "deaf", "unowned", "settled"}]
    /\ result \in [Workers -> {"none", "ok", "error", "stale"}]
    /\ cause \in [Workers -> {"none", "TIMED_OUT", "CANCELLED", "BOTH"}]
    /\ term \in [Workers -> {"off", "requested", "read", "marked", "done"}]
    /\ termPid \in [Workers -> 0 .. 2]
    /\ failures \in [Workers -> SUBSET Sessions]
    /\ overwrites \in [Workers -> SUBSET Sessions]
    /\ cand \in [Workers -> SUBSET Sessions]
    /\ snap \in [Workers -> [Sessions -> 0 .. 2]]
    /\ sweep \in [Workers -> {"idle", "next", "reclaimed", "killed", "marked"}]
    /\ target \in [Workers -> Sessions \cup {NoSession}]
    /\ faults \in 0 .. MaxFaults

\* However often a job is delivered, and whoever sweeps or cancels meanwhile,
\* a session is never run by two workers.
OneRunner ==
    \A v, w \in Workers : cur[v] = cur[w] /\ cur[v] # NoSession => v = w

\* No two provider processes of one session are alive at a time: not after a
\* crash of the worker, and not when a stale resume starts a second turn.
OneProcess == \A s \in Sessions : \A i, j \in alive[s] : i = j

\* The answer is in the conversation exactly when the session succeeded, and a
\* failure notice only when it was stopped: no cancelled, timed-out or
\* reclaimed session shows a late answer, and no success shows a notice.
AnswerIffSucceeded ==
    \A s \in Sessions :
        /\ message[s] = "COMPLETED" <=> state[s] = "SUCCEEDED"
        /\ message[s] = "FAILED" => state[s] \in Stopped

\* Without a crash or a kill that fails, a provider process never outlives the
\* turn that started it.
ProcessAttended ==
    faults = 0 =>
        \A s \in Sessions : \A k \in alive[s] :
            \E w \in Workers :
                /\ cur[w] = s /\ attempt[w] = k
                /\ run[w] \in {"spawned", "captured", "streaming", "unowned"}

\* What a worker, a sweep or a listener decided stays decided: success, failure
\* and timeout are never rewritten by a late actor.
FinalOutcome ==
    [][\A s \in Sessions :
          state[s] \in Terminal \ {"CANCELLED"} => state'[s] = state[s]]_vars

\* A session whose owner renewed its lease in time is failed by nobody else
\* than that owner: its job, or the listener of its queue.
LiveLeaseProtected ==
    [][\A s \in Sessions, w \in Workers :
          Owns(w, s) /\ lease[s] = "live" /\ state'[s] = "FAILED" =>
              \/ cur[w] = s /\ <<pc[w], run[w]>> # <<pc'[w], run'[w]>>
              \/ s \in overwrites[w] \ overwrites'[w]]_vars

\* A claimed session ends in a terminal state, crashes included.
FinishesInTerminalState ==
    \A s \in Sessions : state[s] \in InProgress ~> state[s] \in Terminal

\* Without a fault the process of a cancelled session is gone in the end,
\* wherever in its start-up the cancellation falls.
CancelStopsProvider ==
    \A s \in Sessions :
        state[s] = "CANCELLED" /\ alive[s] # {} ~> alive[s] = {} \/ faults > 0

\* The process that the row of a cancelled session names is gone in the end,
\* crashes included.
CancelStopsRecordedProvider ==
    \A s \in Sessions :
        state[s] = "CANCELLED" /\ pid[s] \in alive[s] ~> alive[s] = {}

\* The process of a timed-out session is gone in the end.
TimeoutStopsProvider ==
    \A s \in Sessions :
        state[s] = "TIMED_OUT" /\ alive[s] # {} ~> alive[s] = {}

\* The job of a timed-out turn whose process is gone ends, and its worker is
\* free for the next one.
TimeoutEndsJob ==
    \A w \in Workers, s \in Sessions :
        cur[w] = s /\ cause[w] = "TIMED_OUT" /\ alive[s] = {}
            ~> cur[w] # s \/ alive[s] # {}

\* Cancelling an execution whose provider was started ends its provider
\* session too.
CancelEndsThread ==
    \A s \in Sessions :
        state[s] = "CANCELLED" /\ pid[s] # 0 ~> thread[s] # "RUNNING"

-----------------------------------------------------------------------------
(***************************************************************************)
(* The inductive invariant behind the safety properties.                   *)
(***************************************************************************)

\* The locals of a job belong together.
JobShape ==
    \A w \in Workers :
        /\ pc[w] = "idle" <=> cur[w] = NoSession
        /\ pc[w] = "turn" => run[w] # "none" /\ attempt[w] \in Turns
        /\ run[w] \notin {"none", "settled"} => pc[w] = "turn"
        /\ pc[w] \in {"idle", "loading", "preparing"} => run[w] = "none"
        /\ term[w] # "off" => pc[w] # "idle"
        /\ sweep[w] \in {"reclaimed", "killed", "marked"} => target[w] # NoSession

\* A row that a job, a listener or a sweep holds has been claimed once and is
\* never queued again; a listener holds only rows whose job is over, and a
\* sweep only rows it has failed.
Held ==
    /\ \A w \in Workers : cur[w] # NoSession => state[cur[w]] # "QUEUED"
    /\ \A w \in Workers : \A s \in failures[w] \cup overwrites[w] :
          state[s] # "QUEUED" /\ \A v \in Workers : cur[v] # s
    /\ \A w \in Workers : \A s \in overwrites[w] :
          state[s] \notin {"SUCCEEDED", "TIMED_OUT"}
    /\ \A w \in Workers :
          sweep[w] \in {"reclaimed", "killed", "marked"} =>
              state[target[w]] = "FAILED"

\* While a row is in progress, its owner is the worker whose job, or whose
\* listener, still has it.
Ownership ==
    \A w \in Workers :
        /\ cur[w] # NoSession /\ state[cur[w]] \in InProgress => owner[cur[w]] = w
        /\ \A s \in failures[w] \cup overwrites[w] :
              state[s] \in InProgress => owner[s] = w

\* The turn ends as cancelled only while its row is.
CancelSeen ==
    \A w \in Workers :
        cause[w] \in {"CANCELLED", "BOTH"} =>
            cur[w] # NoSession /\ state[cur[w]] = "CANCELLED"

\* A process is the one of the turn that runs, and gone before the next turn.
Attended ==
    /\ \A s \in Sessions : state[s] = "QUEUED" => alive[s] = {}
    /\ \A w \in Workers :
          cur[w] # NoSession =>
              /\ alive[cur[w]] \subseteq {attempt[w]}
              /\ \/ pc[w] \in {"loading", "preparing"}
                 \/ run[w] = "starting"
                 \/ run[w] = "settled" /\ result[w] \in {"ok", "stale"}
                 => alive[cur[w]] = {}

\* Inductive, in this order: each part assumes the ones before it.
Typed == TypeOK /\ JobShape
Claimed == Held /\ Ownership /\ CancelSeen /\ OneRunner
Processes == Attended /\ OneProcess
Inv == Typed /\ Claimed /\ AnswerIffSucceeded /\ Processes /\ ProcessAttended

-----------------------------------------------------------------------------
(***************************************************************************)
(* The rows implement the abstract execution.                              *)
(***************************************************************************)
PhaseOf(st) ==
    CASE st = "QUEUED" -> "waiting"
      [] st \in InProgress -> "started"
      [] st = "SUCCEEDED" -> "answered"
      [] OTHER -> "stopped"

ShownOf(m) ==
    CASE m = "none" -> "nothing"
      [] m = "COMPLETED" -> "answer"
      [] OTHER -> "notice"

Abstract == INSTANCE Execution WITH
    phase <- [s \in Sessions |-> PhaseOf(state[s])],
    shown <- [s \in Sessions |-> ShownOf(message[s])]

\* Claims, sweeps, cancellations, crashes and duplicate deliveries together
\* behave as one execution that is started once and ends once.
ImplementsExecution == Abstract!Spec
=============================================================================
