------------------------------- MODULE Outbox -------------------------------
(***************************************************************************)
(* The transactional outbox between the database and the job queue.        *)
(*                                                                         *)
(* A queued execution and its outbox event are committed together.  Sweeps *)
(* of the worker processes claim due events with a compare-and-swap, add   *)
(* the job to the queue and record what happened.  The sweep of a process  *)
(* is started every second without waiting for the one before it, so a     *)
(* Dispatcher is one sweep slot, of any process: the compare-and-swap and  *)
(* the unconditional writes after it treat them alike.                     *)
(*                                                                         *)
(* Time is counted in ticks of the base delay of a retry and kept relative *)
(* to the present: wait is nextAttemptAt, lag the start of a sweep.        *)
(***************************************************************************)
EXTENDS Integers

CONSTANTS
    Dispatchers,  \* concurrent sweeps
    Events,       \* outbox events; jobId is the AgentSession, one event each
    NoEvent,
    MaxAttempts,  \* policy.maxAttempts
    MaxDelay,     \* policy.maxDelayMs, in ticks
    RecoverAge,   \* olderThanMs of recoverStuckOutboxEvents, in ticks
    MaxLag,       \* bound: ticks a sweep can take
    MaxFaults     \* bound: crashes and failed database writes

ASSUME OutboxAssumption ==
    /\ NoEvent \notin Events
    /\ MaxAttempts \in Nat \ {0} /\ MaxDelay \in Nat \ {0}
    /\ RecoverAge \in Nat \ {0} /\ MaxLag \in Nat /\ MaxFaults \in Nat

VARIABLES
    \* the database
    session,    \* AgentSession.state: QUEUED, claimed, CANCELLED, FAILED by the
                \* failed listener
    status,     \* OutboxEvent.status, "none" without a row
    attempts,   \* OutboxEvent.attempts
    wait,       \* OutboxEvent.nextAttemptAt, in ticks from now
    age,        \* ticks since OutboxEvent.updatedAt of a DISPATCHING row
    \* the queue
    job,        \* the job of the event: none, waiting, failed and not heard of,
                \* ending as its listener has read, kept when done
    published,  \* how often queue.add took effect, up to 2
    \* history
    unheard,    \* events whose job failed and whose listener failed too
    \* the cancel route
    withdrawing, \* events of sessions cancelled and not yet looked for
    \* a sweep
    pc,         \* where dispatchPendingOutboxEvents stands
    todo,       \* events of its list not looked at yet
    seen,       \* attempts of each event when the list was read
    at,         \* the event it has claimed
    lag,        \* ticks since its clock was read
    \* bound
    faults

database == <<session, status, attempts, wait, age>>
queue == <<job, published, unheard>>
sweeps == <<pc, todo, seen, at, lag>>
vars == <<database, queue, withdrawing, sweeps, faults>>

Statuses == {"none", "PENDING", "DISPATCHING", "PUBLISHED", "FAILED", "DEAD_LETTER"}
Waiting == {"PENDING", "FAILED"}
Alive == {"waiting", "failed", "ending"}
Holding == {"claimed", "added", "failing"}

\* Nothing distinguishes more attempts than one beyond the maximum.
AttemptCap == MaxAttempts + 1

Init ==
    /\ session = [e \in Events |-> "none"]
    /\ status = [e \in Events |-> "none"]
    /\ attempts = [e \in Events |-> 0]
    /\ wait = [e \in Events |-> 0]
    /\ age = [e \in Events |-> 0]
    /\ job = [e \in Events |-> "none"]
    /\ published = [e \in Events |-> 0]
    /\ unheard = {}
    /\ withdrawing = {}
    /\ pc = [d \in Dispatchers |-> "down"]
    /\ todo = [d \in Dispatchers |-> {}]
    /\ seen = [d \in Dispatchers |-> [e \in Events |-> 0]]
    /\ at = [d \in Dispatchers |-> NoEvent]
    /\ lag = [d \in Dispatchers |-> 0]
    /\ faults = 0

-----------------------------------------------------------------------------
(***************************************************************************)
(* The web application.                                                    *)
(***************************************************************************)

\* queueConversationMessage commits the session and its event together.
Enqueue(e) ==
    /\ session[e] = "none"
    /\ session' = [session EXCEPT ![e] = "QUEUED"]
    /\ status' = [status EXCEPT ![e] = "PENDING"]
    /\ UNCHANGED <<attempts, wait, age, queue, withdrawing, sweeps, faults>>

\* The cancel route, first statement.
CancelSession(e) ==
    /\ session[e] \in {"QUEUED", "CLAIMED"}
    /\ session' = [session EXCEPT ![e] = "CANCELLED"]
    /\ withdrawing' = withdrawing \cup {e}
    /\ UNCHANGED <<status, attempts, wait, age, queue, sweeps, faults>>

\* The cancel route, second statement: an event that is being dispatched, or
\* was, stays.
Withdraw(e) ==
    /\ e \in withdrawing
    /\ withdrawing' = withdrawing \ {e}
    /\ status' = [status EXCEPT ![e] = IF @ \in Waiting THEN "none" ELSE @]
    /\ UNCHANGED <<session, attempts, wait, age, queue, sweeps, faults>>

-----------------------------------------------------------------------------
(***************************************************************************)
(* A sweep.                                                                *)
(***************************************************************************)

\* Variants: the claim looks at the clock only, or takes fresh events only.
DueAnyStatus(e, l) == wait[e] + l <= 0
DuePending(e, l) == status[e] = "PENDING" /\ wait[e] + l <= 0

\* nextAttemptAt <= now, for the clock the sweep read when it began.
Due(e, l) == status[e] \in Waiting /\ wait[e] + l <= 0

\* 2 ** n
TwoTo[n \in Nat] == IF n = 0 THEN 1 ELSE 2 * TwoTo[n - 1]

\* Variant: the delay is not bounded.
DelayUnbounded(n) == TwoTo[IF n > 1 THEN n - 1 ELSE 0]

\* calculateOutboxRetryDelay without its jitter, which is below a tick.
Delay(n) ==
    LET exponential == TwoTo[IF n > 1 THEN n - 1 ELSE 0]
    IN  IF exponential < MaxDelay THEN exponential ELSE MaxDelay

\* attempts: { increment: 1 }
Counted(e) ==
    attempts' = [attempts EXCEPT ![e] = IF @ < AttemptCap THEN @ + 1 ELSE @]

\* Another sweep can have listed the same events.
BeginSweep(d) ==
    LET due == {e \in Events : Due(e, 0)} IN
    /\ pc[d] = "idle"
    /\ due # {}
    /\ pc' = [pc EXCEPT ![d] = "next"]
    /\ todo' = [todo EXCEPT ![d] = due]
    /\ seen' = [seen EXCEPT ![d] = [e \in Events |->
                                       IF e \in due THEN attempts[e] ELSE 0]]
    /\ lag' = [lag EXCEPT ![d] = 0]
    /\ UNCHANGED <<database, queue, withdrawing, at, faults>>

EndSweep(d) ==
    /\ pc[d] = "next"
    /\ todo[d] = {}
    /\ pc' = [pc EXCEPT ![d] = "idle"]
    /\ seen' = [seen EXCEPT ![d] = [e \in Events |-> 0]]
    /\ lag' = [lag EXCEPT ![d] = 0]
    /\ UNCHANGED <<database, queue, withdrawing, todo, at, faults>>

\* Variant: what was due when it was listed is claimed.
ClaimEventListed(d, e) ==
    /\ pc[d] = "next"
    /\ e \in todo[d]
    /\ todo' = [todo EXCEPT ![d] = @ \ {e}]
    /\ status' = [status EXCEPT ![e] = "DISPATCHING"]
    /\ age' = [age EXCEPT ![e] = 0]
    /\ pc' = [pc EXCEPT ![d] = "claimed"]
    /\ at' = [at EXCEPT ![d] = e]
    /\ UNCHANGED <<session, attempts, wait, queue, withdrawing, seen, lag, faults>>

\* claimOutboxEvent: the row is still waiting and due, or it is skipped.
ClaimEvent(d, e) ==
    /\ pc[d] = "next"
    /\ e \in todo[d]
    /\ todo' = [todo EXCEPT ![d] = @ \ {e}]
    /\ \/ /\ Due(e, lag[d])
          /\ status' = [status EXCEPT ![e] = "DISPATCHING"]
          /\ age' = [age EXCEPT ![e] = 0]
          /\ pc' = [pc EXCEPT ![d] = "claimed"]
          /\ at' = [at EXCEPT ![d] = e]
       \/ /\ ~Due(e, lag[d])
          /\ UNCHANGED <<status, age, pc, at>>
    /\ UNCHANGED <<session, attempts, wait, queue, withdrawing, seen, lag, faults>>

\* queue.add under the jobId: a job that is there already is not added again.
Add(e) ==
    /\ job' = [job EXCEPT ![e] = IF @ = "none" THEN "waiting" ELSE @]
    /\ published' = [published EXCEPT ![e] = IF @ < 2 THEN @ + 1 ELSE @]
    /\ UNCHANGED unheard

Publish(d) ==
    /\ pc[d] = "claimed"
    /\ Add(at[d])
    /\ pc' = [pc EXCEPT ![d] = "added"]
    /\ UNCHANGED <<database, withdrawing, todo, seen, at, lag, faults>>

\* Variant: an error of the queue is swallowed.
PublishFailsSilently(d) ==
    /\ pc[d] = "claimed"
    /\ pc' = [pc EXCEPT ![d] = "added"]
    /\ UNCHANGED <<database, queue, withdrawing, todo, seen, at, lag, faults>>

\* The queue cannot be reached, or refuses the job.
PublishFails(d) ==
    /\ pc[d] = "claimed"
    /\ pc' = [pc EXCEPT ![d] = "failing"]
    /\ UNCHANGED <<database, queue, withdrawing, todo, seen, at, lag, faults>>

Fault == faults < MaxFaults /\ faults' = faults + 1

\* The job is added, the reply is lost.
PublishLost(d) ==
    /\ pc[d] = "claimed"
    /\ Fault
    /\ Add(at[d])
    /\ pc' = [pc EXCEPT ![d] = "failing"]
    /\ UNCHANGED <<database, withdrawing, todo, seen, at, lag>>

Proceed(d) == pc' = [pc EXCEPT ![d] = "next"] /\ at' = [at EXCEPT ![d] = NoEvent]

\* The row is updated by its id, whatever its status is by now.
RecordPublished(d) ==
    LET e == at[d] IN
    /\ pc[d] = "added"
    /\ status[e] # "none"
    /\ status' = [status EXCEPT ![e] = "PUBLISHED"]
    /\ wait' = [wait EXCEPT ![e] = -lag[d]]
    /\ age' = [age EXCEPT ![e] = 0]
    /\ Counted(e)
    /\ Proceed(d)
    /\ UNCHANGED <<session, queue, withdrawing, todo, seen, lag, faults>>

\* The update throws inside the try block: the row is gone, or the database.
RecordThrows(d) ==
    /\ pc[d] = "added"
    /\ \/ status[at[d]] = "none" /\ UNCHANGED faults
       \/ Fault
    /\ pc' = [pc EXCEPT ![d] = "failing"]
    /\ UNCHANGED <<database, queue, withdrawing, todo, seen, at, lag>>

\* The catch block counts from the attempts of the list, not of the row.
RecordFailure(d) ==
    LET e == at[d]
        count == seen[d][e] + 1
    IN
    /\ pc[d] = "failing"
    /\ status[e] # "none"
    /\ status' = [status EXCEPT ![e] = IF count >= MaxAttempts
                                       THEN "DEAD_LETTER" ELSE "FAILED"]
    /\ wait' = [wait EXCEPT ![e] = Delay(count) - lag[d]]
    /\ age' = [age EXCEPT ![e] = 0]
    /\ Counted(e)
    /\ Proceed(d)
    /\ UNCHANGED <<session, queue, withdrawing, todo, seen, lag, faults>>

\* An error in the catch block ends the sweep; a row keeps its status.
Abort(d) ==
    /\ pc' = [pc EXCEPT ![d] = "idle"]
    /\ todo' = [todo EXCEPT ![d] = {}]
    /\ seen' = [seen EXCEPT ![d] = [e \in Events |-> 0]]
    /\ at' = [at EXCEPT ![d] = NoEvent]
    /\ lag' = [lag EXCEPT ![d] = 0]

FailureThrows(d) ==
    /\ pc[d] = "failing"
    /\ \/ status[at[d]] = "none" /\ UNCHANGED faults
       \/ Fault
    /\ Abort(d)
    /\ UNCHANGED <<database, queue, withdrawing>>

-----------------------------------------------------------------------------
(***************************************************************************)
(* Processes, the queue and time.                                          *)
(***************************************************************************)

\* Variant: every DISPATCHING row is taken for stuck.
StartRecoveringAll(d) ==
    /\ pc[d] = "down"
    /\ pc' = [pc EXCEPT ![d] = "idle"]
    /\ status' = [e \in Events |->
                     IF status[e] = "DISPATCHING" THEN "PENDING" ELSE status[e]]
    /\ UNCHANGED <<session, attempts, wait, age, queue, withdrawing>>
    /\ UNCHANGED <<todo, seen, at, lag, faults>>

\* recoverStuckOutboxEvents, once, when a worker process starts.
Start(d) ==
    LET stuck == {e \in Events : status[e] = "DISPATCHING" /\ age[e] >= RecoverAge} IN
    /\ pc[d] = "down"
    /\ pc' = [pc EXCEPT ![d] = "idle"]
    /\ status' = [e \in Events |-> IF e \in stuck THEN "PENDING" ELSE status[e]]
    /\ age' = [e \in Events |-> IF e \in stuck THEN 0 ELSE age[e]]
    /\ UNCHANGED <<session, attempts, wait, queue, withdrawing>>
    /\ UNCHANGED <<todo, seen, at, lag, faults>>

Crash(d) ==
    /\ pc[d] # "down"
    /\ Fault
    /\ pc' = [pc EXCEPT ![d] = "down"]
    /\ todo' = [todo EXCEPT ![d] = {}]
    /\ seen' = [seen EXCEPT ![d] = [e \in Events |-> 0]]
    /\ at' = [at EXCEPT ![d] = NoEvent]
    /\ lag' = [lag EXCEPT ![d] = 0]
    /\ UNCHANGED <<database, queue, withdrawing>>

-----------------------------------------------------------------------------
(***************************************************************************)
(* The worker of the queue and its failed listener.                        *)
(***************************************************************************)

Live == {"QUEUED", "CLAIMED"}

\* claimAgentSession decides whether the execution runs.
Claim(e) ==
    session' = [session EXCEPT ![e] = IF @ = "QUEUED" THEN "CLAIMED" ELSE @]

\* A worker takes the job and the claim returns; what follows a claim is
\* SessionLease.
Deliver(e) ==
    /\ job[e] = "waiting"
    /\ job' = [job EXCEPT ![e] = "kept"]
    /\ Claim(e)
    /\ UNCHANGED <<status, attempts, wait, age, published, unheard, withdrawing>>
    /\ UNCHANGED <<sweeps, faults>>

\* The claim throws, with its effect or without, or the job stalls twice: it
\* has no further attempt.
ClaimThrows(e) ==
    /\ job[e] = "waiting"
    /\ Fault
    /\ job' = [job EXCEPT ![e] = "failed"]
    /\ Claim(e) \/ UNCHANGED session
    /\ UNCHANGED <<status, attempts, wait, age, published, unheard, withdrawing>>
    /\ UNCHANGED sweeps

\* The failed listener reads the state and leaves a terminal one alone.
ListenerReads(e) ==
    /\ job[e] = "failed"
    /\ job' = [job EXCEPT ![e] = IF session[e] \in Live THEN "ending" ELSE "kept"]
    /\ UNCHANGED <<database, published, unheard, withdrawing, sweeps, faults>>

\* It writes FAILED whatever the state is by now.
ListenerWrites(e) ==
    /\ job[e] = "ending"
    /\ job' = [job EXCEPT ![e] = "kept"]
    /\ session' = [session EXCEPT ![e] = "FAILED"]
    /\ UNCHANGED <<status, attempts, wait, age, published, unheard, withdrawing>>
    /\ UNCHANGED <<sweeps, faults>>

\* One of its statements throws, or its process ends before it; nobody calls
\* it again.
ListenerThrows(e) ==
    /\ job[e] \in {"failed", "ending"}
    /\ Fault
    /\ job' = [job EXCEPT ![e] = "kept"]
    /\ unheard' = unheard \cup {e}
    /\ UNCHANGED <<database, published, withdrawing, sweeps>>

\* removeOnComplete and removeOnFail keep the last hundred jobs.
Forget(e) ==
    /\ job[e] = "kept"
    /\ job' = [job EXCEPT ![e] = "none"]
    /\ UNCHANGED <<database, published, unheard, withdrawing, sweeps, faults>>

Busy(d) == pc[d] \notin {"down", "idle"}

Tick ==
    /\ \A d \in Dispatchers : Busy(d) => lag[d] < MaxLag
    /\ lag' = [d \in Dispatchers |-> IF Busy(d) THEN lag[d] + 1 ELSE lag[d]]
    /\ wait' = [e \in Events |-> IF wait[e] > -MaxLag THEN wait[e] - 1 ELSE wait[e]]
    /\ age' = [e \in Events |->
                  IF status[e] = "DISPATCHING" /\ age[e] < RecoverAge
                  THEN age[e] + 1 ELSE age[e]]
    /\ UNCHANGED <<session, status, attempts, queue, withdrawing>>
    /\ UNCHANGED <<pc, todo, seen, at, faults>>

-----------------------------------------------------------------------------
SweepStep(d) ==
    \/ BeginSweep(d) \/ EndSweep(d) \/ \E e \in Events : ClaimEvent(d, e)
    \/ Publish(d) \/ PublishFails(d) \/ PublishLost(d)
    \/ RecordPublished(d) \/ RecordThrows(d) \/ RecordFailure(d) \/ FailureThrows(d)

WorkerStep(e) == Deliver(e) \/ ListenerReads(e) \/ ListenerWrites(e)

EventStep(e) ==
    \/ Enqueue(e) \/ CancelSession(e) \/ Withdraw(e) \/ Forget(e)
    \/ WorkerStep(e) \/ ClaimThrows(e) \/ ListenerThrows(e)

Next ==
    \/ \E e \in Events : EventStep(e)
    \/ \E d \in Dispatchers : SweepStep(d) \/ Start(d) \/ Crash(d)
    \/ Tick

Spec == Init /\ [][Next]_vars

(***************************************************************************)
(* Fairness: sweeps recur and run on, worker processes are started, the    *)
(* queue delivers, the failed listener runs on, time passes.               *)
(***************************************************************************)
Fairness ==
    /\ \A d \in Dispatchers : WF_vars(SweepStep(d)) /\ WF_vars(Start(d))
    /\ \A e \in Events : WF_vars(WorkerStep(e))
    /\ WF_vars(Tick)

FairSpec == Spec /\ Fairness

-----------------------------------------------------------------------------
(***************************************************************************)
(* Properties.                                                             *)
(***************************************************************************)

\* Every variable but wait stays in the range its column or local has.
Typed ==
    /\ session \in [Events -> {"none", "QUEUED", "CLAIMED", "CANCELLED", "FAILED"}]
    /\ status \in [Events -> Statuses]
    /\ attempts \in [Events -> 0 .. AttemptCap]
    /\ age \in [Events -> 0 .. RecoverAge]
    /\ job \in [Events -> {"none", "waiting", "failed", "ending", "kept"}]
    /\ published \in [Events -> 0 .. 2]
    /\ unheard \subseteq Events
    /\ withdrawing \subseteq Events
    /\ pc \in [Dispatchers -> {"down", "idle", "next"} \cup Holding]
    /\ todo \in [Dispatchers -> SUBSET Events]
    /\ seen \in [Dispatchers -> [Events -> 0 .. AttemptCap]]
    /\ at \in [Dispatchers -> Events \cup {NoEvent}]
    /\ lag \in [Dispatchers -> 0 .. MaxLag]
    /\ faults \in 0 .. MaxFaults

\* So does wait: no retry is scheduled further away than the longest delay.
TypeOK == Typed /\ wait \in [Events -> -MaxLag .. MaxDelay]

\* A queued session is never lost: as long as no worker has claimed it and
\* nobody cancelled it, its event is still in the outbox, if only as a dead
\* letter, or its job in the queue or with the failed listener, whatever
\* crashes and whatever late sweeps overwrite.  The one exception: the claim of
\* its job failed, and then the listener that ends it.
QueuedHasPath ==
    \A e \in Events : session[e] = "QUEUED" =>
        \/ status[e] \in Statuses \ {"none", "PUBLISHED"}
        \/ job[e] \in Alive
        \/ e \in unheard

\* No two sweeps dispatch one event at a time, if a sweep takes less than the
\* age at which a starting process takes its rows for stuck.
OneHolder ==
    \A c, d \in Dispatchers :
        pc[c] \in Holding /\ pc[d] \in Holding /\ at[c] = at[d] => c = d

\* Without a crash or a failed write an event is published once, however many
\* sweeps list it.
PublishedOnce == faults = 0 => \A e \in Events : published[e] <= 1

\* An event that was published or given up is not dispatched again.
SettledStays ==
    [][\A e \in Events : status[e] \in {"PUBLISHED", "DEAD_LETTER"} =>
          status'[e] = status[e]]_vars

\* An event that failed for the last time is not tried again.
DeadLetterAtMaximum ==
    \A e \in Events : status[e] = "FAILED" => attempts[e] < MaxAttempts

\* A queued session is picked up, cancelled, failed, or given up as a dead
\* letter, unless a crash left its event DISPATCHING for good or the listener
\* of its failed job failed as well.
QueuedIsSettled ==
    \A e \in Events :
        session[e] = "QUEUED" ~>
            \/ session[e] # "QUEUED" \/ status[e] = "DEAD_LETTER" \/ e \in unheard
            \/ [](status[e] = "DISPATCHING")

\* A row does not stay DISPATCHING when the sweep that claimed it is gone.
StuckIsRecovered ==
    \A e \in Events : status[e] = "DISPATCHING" ~> status[e] # "DISPATCHING"

\* A queued session does not stay queued.
QueuedEnds == \A e \in Events : session[e] = "QUEUED" ~> session[e] # "QUEUED"

-----------------------------------------------------------------------------
(***************************************************************************)
(* The inductive invariant behind the safety properties.                   *)
(***************************************************************************)

\* A sweep holds an event exactly between its claim and its record.
Shape == \A d \in Dispatchers : pc[d] \in Holding <=> at[d] # NoEvent

\* Events belong to sessions; only ended ones are withdrawn.
Committed ==
    /\ \A e \in Events :
          session[e] = "none" =>
              /\ status[e] = "none" /\ job[e] = "none"
              /\ \A d \in Dispatchers : at[d] # e
    /\ \A e \in withdrawing : session[e] \in {"CANCELLED", "FAILED"}

\* A job is done when its session was claimed or has ended, or its listener
\* failed.
Delivered ==
    /\ \A e \in Events :
          job[e] = "kept" => session[e] # "QUEUED" \/ e \in unheard
    /\ \A d \in Dispatchers :
          pc[d] = "added" =>
              \/ session[at[d]] # "QUEUED"
              \/ job[at[d]] \in Alive
              \/ at[d] \in unheard

\* The row a sweep holds is DISPATCHING, and younger than the sweep.
Young ==
    \A d \in Dispatchers :
        pc[d] \in Holding => status[at[d]] = "DISPATCHING" /\ age[at[d]] <= lag[d]

\* An event that was added to the queue is about to be recorded, or was.
AddedOnce ==
    faults = 0 =>
        \A e \in Events :
            /\ published[e] <= 1
            /\ published[e] = 1 =>
                  \/ status[e] = "PUBLISHED"
                  \/ \E d \in Dispatchers : pc[d] = "added" /\ at[d] = e

\* Inductive for every constant.
Paths == Typed /\ Shape /\ Committed /\ Delivered /\ QueuedHasPath

\* Inductive when a sweep takes less than the age of recovery.
Claims == Young /\ OneHolder /\ AddedOnce
=============================================================================
