# ProjectRelay: specifications, model checking and proofs

ProjectRelay is a local application that relays a developer's work between two
coding CLIs (Codex and Claude).  A Next.js web application (`apps/web`) writes
what the user asks for into PostgreSQL; worker processes (`apps/worker`) take
it from there, run a CLI as a child process, and write what came of it back.
PostgreSQL is the durable truth, Redis with BullMQ only delivers job numbers.

This directory holds TLA+ modules translated from that code, TLC
configurations that check them on small instances, and proofs, checked by
TLAPS, that the most important properties hold for every instance.

Contents: [1 Inventory](#1-inventory), [2 Plan](#2-plan),
[3 Modules and code](#3-modules-and-code), [4 Runs](#4-runs),
[5 Fairness](#5-fairness), [6 Proofs](#6-proofs),
[7 What the checks found](#7-what-the-checks-found),
[8 Not modelled](#8-not-modelled), [9 Running it](#9-running-it).

## 1 Inventory

| component | state it keeps | operations | talks to |
|---|---|---|---|
| Conversation service (`packages/database/src/conversation-service.ts`, messages and retry routes) | `Conversation`, `ConversationMessage`, `ProviderSession`, `RoutingDecision`, `HandoffCapsule`, `AgentSession`, `OutboxEvent` rows | queue a message (one transaction under a row lock), retry an execution (one transaction, no lock) | outbox, workers through the rows |
| Transactional outbox (`packages/database/src/outbox-service.ts`) | status, attempts and schedule of an event per execution | sweep: list due events, claim by compare-and-swap, publish, record; recover stuck rows | BullMQ, cancel route |
| Worker: conversation executions (`conversation-worker.ts`) | the row of the execution; in memory the turn, its timers, its termination | claim, heartbeat, validate, prepare, provider turn, stale-resume fallback, completion, failure | process runner, rows |
| Worker: leases (`worker-lease.ts`) | `workerId`, `leaseExpiresAt` | claim, renew, recovery sweep | rows, processes |
| Worker: owned processes (`owned-process.ts`) | none; reads the operating system | capture the start identity, terminate a tree, wait for its exit | operating system |
| Provider process runner (`packages/providers/src/process-runner.ts`) | per session: child, event buffer, waiters, abort controller; per process: the resolved path of the CLI | create, start, resume, stream, cancel; probe | the ownership lifecycle of the worker |
| Stream parsing (`stream-parser.ts`) | line buffer, accumulated answer | consume a chunk, end | runner |
| Worker main program (`apps/worker/src/index.ts`) | timers, queue workers | start-up recovery, sweeps, `failed` listeners, task flow, shutdown | all of the above |
| Cancel route (`.../executions/[executionId]/cancel/route.ts`) | none | end the row, withdraw the waiting event | worker's poll |
| Task sessions and review workflow (sessions, findings, verify, checkpoint routes, `processSession`) | `AgentSession`, `Task`, `ReviewFinding`, `Evidence` | create and queue, run, capture evidence, review rounds, remediation, verification | queue, provider |
| Health monitors (`provider-health.ts`, `model-health.ts`) | `ProviderHealth`, `ModelHealth`, a set of active probes | probe, authenticate, start-up reset | providers, queue |
| Launcher (`scripts/start-local.mjs`) | a runtime file, processes | start, stop, status | operating system |
| Chat page (`apps/web/components/conversation-chat.tsx`) | React state, polls in flight | send, retry, cancel, poll, reload | the routes |
| Shared rules (`packages/shared/src/index.ts`) | none | capability and model resolution, locked decisions, loopback guards | everyone |
| Command execution (`packages/execution/src/index.ts`) | none | run an allow-listed command; `inspectGit`, the state of a workspace | sessions route, task flow |
| Project memory, context engine, cleanup, authentication, other pages | files, rows | text and I/O, see section 8 | |

What makes it hard:

* **Several workers, one row.**  Every worker may receive a job, sweep leases
  and dispatch the outbox.  Rows are guarded by compare-and-swap updates, but
  not every update has a condition.
* **A process outside the database.**  The provider CLI outlives the worker.
  Its pid and start identity are recorded after the spawn, in a second step,
  and used by other workers to stop it.  The launcher does the same with the
  web server and the worker, in a file.
* **Cancellation is cooperative.**  The browser ends the row; the owner sees
  it at its next poll, by the `workerId` that the cancelled row keeps.
* **Timers run beside the turn.**  A timeout or the poll starts a termination
  that reads, marks and kills in three awaits, while the runner is still
  spawning, capturing or recording the process.
* **A producer and a consumer of events** meet in a buffer with waiters, and
  the output that feeds it is cut into chunks at any byte.
* **Sweeps overlap.**  The outbox timer starts a sweep each second without
  waiting for the last, and each sweep works with the clock and the list it
  read when it began.
* **One lock order and another.**  A submission locks the conversation first
  and the completion of an execution locks it last; so does a retry that hands
  over, other retries do not lock it.
* **What helps can fail.**  The listener of a failed job, the look-up of a
  process, a kill, the catch block of a task: each is a repair that may itself
  fail, and the code seldom asks.
* **Late answers** of all of these, polls of the browser included, must not
  change what was decided.

Correctness, component by component:

* executions: one runner; one process; an answer exactly for a success;
  outcomes that stay; a live lease that protects; an end for every claimed
  execution; processes that end with their execution;
* outbox: a queued session is lost only if its claim and the listener of that
  failure fail both; one sweep per event; no duplicate
  without a failure; settled events stay settled; progress;
* conversation service: threads that stay with their provider session, keys
  that find the execution they made, a stale RUNNING session only after a
  revival, an answer to every request;
* provider turn: an answer that is whole, a verdict that is heeded, an end of
  the turn when its process has ended;
* task flow: one worker per session, no finding accepted that was made under
  another digest of the workspace, an end;
* health: one probe at a time, a mark that somebody will clear, a verdict
  that follows the machine in the end;
* launcher: no stranger killed, nothing left behind but what a failed look-up
  or kill missed;
* chat page: a status that belongs to the execution shown, an end that is seen.

The hazards that follow from this are listed one by one, each at its line, in
`PROJECT.json`, with the properties that cover them.

## 2 Plan

Done, in order of weight for the user:

1. **`SessionLease`**: one execution from claim to end, with every actor that
   may touch it.  Abstract specification **`Execution`**; proofs in
   **`SessionLeaseProofs`** (safety and refinement).
2. **`Outbox`**: from the committed event to the job in the queue; proofs in
   **`OutboxProofs`**.
3. **`Conversation`**: submissions and retries against provider sessions,
   handoff versions and idempotency keys, with the workers that change the
   same rows; proofs in **`ConversationProofs`**.
4. **`ProviderTurn`**: the runner with its line reader, parsers, event buffer
   and consumer, and the second attempt after a stale resume; proofs in
   **`ProviderTurnProofs`**.
5. **`TaskFlow`**: the sessions of a task, findings and remediation; proofs in
   **`TaskFlowProofs`**.
6. **`Launcher`**: start, stop and shutdown around the runtime file; proofs in
   **`LauncherProofs`**.
7. **`ChatClient`**: the page of a conversation against its routes; proofs in
   **`ChatClientProofs`**.
8. **`Health`**: the monitors of providers and models; proofs in
   **`HealthProofs`**.

Left, in order:

1. **`Relay`**: the composition of outbox, queue and claim, so that an
   execution runs at most once even when its event was published twice.
2. The row of the task: its status, the counted rounds, the verify route and
   checkpoints.
3. The verdicts and the quota of the health monitors, which a refresh reads
   before a probe and writes back after it.
4. **`ProjectMemory`**: lost updates of a file.  Then the pure rules of
   `packages/shared` against reference definitions.

Runs stay at two or three processes and one or two rows: the code compares
identities only, and every property speaks of pairs at most.

## 3 Modules and code

One action is one database statement, or one transaction, with the synchronous
code around it; other actors run at every `await`.  `PROJECT.json` maps each
definition to its lines.  Operators marked *Variant* restate one definition
with a plausible mistake in it and serve only to show that a property notices.

### SessionLease

| variable | code |
|---|---|
| `state`, `owner`, `lease`, `pid` | columns of `AgentSession`; `lease` is "none", "live" or "expired" instead of a time; `pid` is the number of the turn whose process is recorded |
| `message`, `thread` | status of the assistant message; status of the `ProviderSession` |
| `alive` | the turns whose provider process exists |
| `pc`, `cur`, `attempt` | where `processClaimedConversationMessage` stands, for which row, in which turn |
| `run`, `result` | where `runSession` stands: starting, spawned, captured, streaming, unowned, settled; "deaf" is a process whose `close` was emitted before anyone listened |
| `cause`, `term`, `termPid` | `timeoutCode` and `cancellationRequested`; where `terminateRecordedProviderProcess` stands and what it read |
| `failures`, `overwrites` | the `failed` listener between its read and its write |
| `cand`, `snap`, `sweep`, `target` | `reapExpiredAgentSessions` between its statements |
| `faults` | bound on crashes, kills that fail and transactions that abort |

Decisions worth knowing:

* A delivery of a row that is not QUEUED returns at once, so duplicate
  deliveries need no action: `Claim` is enabled for any worker at any time.
* The clock of a sweep is not a variable.  A renewal makes the lease later
  than the clock of every sweep under way, which is what `Heartbeat` does to
  `cand`.
* A restarted worker has a new `workerId`.  `Crash` gives the slot to the new
  process; no row carries its identity, because the crash leaves `cur` empty
  and rows keep the old owner only in the sense that no job attends them.
* `taskkill` works unless a fault hits it; a termination that is not confirmed
  throws, which `Disown` and `ReapKill` follow to where it is caught.  A look-up
  of a process fails by a fault too: at the capture it makes the process one
  that nobody owns, in a termination the process passes for dead and the row is
  written over it.  `PersistRejected` is a row that is not the worker's any
  more, or a database that fails.
* A claim that throws is in `Outbox`, which has the failed job and its listener
  from there; here a listener begins with a job that threw after its claim.
* A database error inside `terminateRecordedProviderProcess`, or in the
  listener, is an unhandled rejection that ends the process: `Crash`.
* Merged: the kill of the sweep with its two bookkeeping updates, which only
  write columns no property reads.  Left out: a poll that is still in flight
  when its turn ends, a spawn that reports no pid, and an `error` event of the
  child before it has a listener.

### Execution

What a conversation promises: an execution waits, starts at most once, and
ends once; the answer appears in the step of the success, a notice only after
a stop.  `SessionLease` implements it with `phase` computed from `state` and
`shown` from `message`.

### Outbox

| variable | code |
|---|---|
| `session` | `AgentSession.state`, as far as the outbox is concerned; FAILED by the listener of a failed job |
| `status`, `attempts`, `wait`, `age` | columns of `OutboxEvent`; `wait` is `nextAttemptAt` and `age` is `updatedAt` of a DISPATCHING row, both relative to the present, in ticks of the base delay |
| `job`, `published` | the job under the event's `jobId` in BullMQ, with its failed listener before its read (failed) and before its write (ending); how often `add` took effect |
| `unheard` | history: events whose job failed and whose listener failed too |
| `withdrawing` | cancel requests between their two statements |
| `pc`, `todo`, `seen`, `at`, `lag` | a sweep: its place, what it has still to look at, the attempts it read, the event it holds, the age of its clock |

A `Dispatcher` is one sweep slot of any process, since the timer starts a
sweep each second whether or not the last has ended.  The list and each claim
use the clock the sweep read at its start, hence `Due(e, lag[d])`.  The records
after a publish address the row by its id alone and are written that way.
BullMQ is external: `add` under a `jobId` does nothing while the job is kept,
a finished job is eventually forgotten (`Forget`).  Its reply may be lost
(`PublishLost`): the job is there and the sweep records a failure.

A job has one attempt.  Its claim may throw, with its effect or without
(`ClaimThrows`); then the failed listener reads the session (`ListenerReads`)
and writes FAILED without a condition (`ListenerWrites`), unless one of its own
statements throws or its process ends (`ListenerThrows`).  What a worker does
after a claim that returned is `SessionLease`.

The jitter of the delay is below a tick, the limit of 20 events a sweep is
larger than any instance, and error texts are left out.

### Conversation

| variable | code |
|---|---|
| `sessions` | `ProviderSession` rows in the order of `startedAt`: provider, model, status, whether `endedAt` is set, the external thread it resumes |
| `execs` | `AgentSession` rows with their request, provider session, state, the version of their handoff capsule and the turn of their worker |
| `handoffSequence`, `speaker` | the sequence of the conversation; the provider of its latest assistant message |
| `holder` | the submission that holds the row lock |
| `pc`, `order`, `seen` | a request: its place, what it resolved to, what it read before it writes |

Transactions are READ COMMITTED.  `Route` is the part of the route before the
transaction, `Lock` the locking statement with the duplicate look-up behind it,
`Write` the rest of the transaction, which the partial unique index on RUNNING
provider sessions may refuse.  `RetryReads` and `RetryWrites` are the two
halves of a retry; one that hands over has its capsule numbered after that
(`RetryNumbers`), for which it waits for the conversation with its writes
uncommitted (`Holds`).  `CompletionWrites` and `CompletionCommits` are apart
for the same reason.  Meanwhile nobody else writes these rows (`Busy`,
`SessionBusy`), a submission that holds the conversation may need them
(`Needs`), and PostgreSQL aborts one side of the deadlock (`Deadlock`): the
submission or the retry is answered with the error, the completion fails its
execution.  Nothing in the repository tries a transaction again.

A retry of the same provider keeps a model that was named; where the original
had none (`CliDefault`), the defaults are asked again, whatever they are now.

Simplified: FAILED, TIMED_OUT and CANCELLED are one state, STOPPED; a user
message is identified by its key; the writes of a retry before it numbers its
capsule are one step, as are the sweep's updates of the session and of the
notice; the validation of models and capabilities is left out.

The module keeps what the code does where it surprises: a submission after a
change of model without an assistant message ends with `noMessage` (a
TypeError at conversation-service.ts:186); two retries side by side make two
executions, and the key of a retry is only recorded, so that a submission with
that key finds the retry (`findFirst`, line 104); two executions on one
provider session resume the same thread.

### ProviderTurn

| variable | code |
|---|---|
| `turn`, `resumed` | 1 is the resumed or only turn, 2 the fresh one after a stale resume |
| `alive`, `printed`, `unread` | the process, the lines it prints, the bytes it has still to print |
| `buffer` | `IncrementalLineReader.buffer` |
| `verdict` | `StructuredStreamAccumulator.terminal` |
| `run` | how far `runSession` is, then how it settled |
| `events`, `complete`, `cursor`, `waiting` | the record's events, its completion, the consumer's place in them, its waiter |
| `text`, `timer`, `cause`, `over` | locals of `executeProviderTurn`, one set per turn, since those of the first outlive it |
| `job`, `row`, `answer` | the job; the state of the row; the texts in the content of the stored answer |

A line is the name of a record with a kind, a size and perhaps a two-byte
character; its bytes are numbered, so a text is the record exactly when it has
all its bytes in order.  `Chunk` reads any number of bytes.  `Push` is the
reader's push: `Loop` takes one complete line after another out of the buffer
and `Cut` discards what is left above the limit.  `Events` and `Apply` follow
both protocols record by record, by the tables `Passed` and `Verdict`.
A text remembers where it begins in `assistantText` (`at`).  `Record` stores
the texts that begin within `AnswerLimit`, the 65,536 characters of
`MAX_ASSISTANT_MESSAGE_BYTES` (`Sliced`), the last of them perhaps cut.

Simplified: a text has as many characters as its line has bytes, and what
`redactSecrets` changes before the cut is left out; of the accumulator only the
verdict is kept, not the external thread, the model and the usage; whether a
failed process says that its session is gone is left open; the cancellation
poll sets the row itself and a kill always works, and no process starts after
its turn was ended from outside; `SessionLease` has these.  The module keeps
that the last verdict wins, that an oversized Claude result is discarded and
the turn still succeeds with "(no output)", that the promise of a consumer
leaks when the start throws, and that what is cut from an oversized line
depends on the chunks.

### TaskFlow

| variable | code |
|---|---|
| `state`, `lease` | `AgentSession` of a task: state, worker and lease |
| `finding`, `remediations` | `ReviewFinding` of a session, the remediation tasks made of it |
| `request`, `baseline`, `decider` | the sessions route between its statements; `baselineDiffHash`; the findings route between its statements |
| `job`, `turn` | the BullMQ job, "again" when it waits for a second delivery; where `processClaimedSession` stands in each worker |
| `listener` | the failed listener of the session's job: none, heard, or between its read and its write |
| `workspace`, `faults` | the workspace as a version with its digest; bound on crashes, stalls and failed statements |

The writes of RUNNING, SUCCEEDED and FAILED have no condition in the code and
none here.  The version of the workspace rises with every edit; the digest is
what `hashGit` makes of `inspectGit`: the commit, the short status and the first
65,536 bytes of the diff of tracked files.  An edit may give a new digest, the
same one (an untracked or ignored file that the status names already or not at
all, or anything behind the limit) or an earlier one, and `Store` compares
digests only.

`Stall` delivers a job again while its worker goes on; when the second delivery
stalls as well, `StallsOut` fails the job, and the listener writes FAILED over a
session that may be live.  A job that fails otherwise is heard of only while
the queue counts it as the worker's (`JobFails`): by a claim that throws, a
probe, or a catch block whose own awaits throw before FAILED is written
(`Throw`).  Left out: the row of the task with its status, rounds and evidence,
more than one finding per session, what the commands of `captureEvidence`
print, that the five commands of `inspectGit` are not one snapshot, and
collisions of the hash.

The module keeps that a session stays QUEUED when its job is not added, that
a cancelled session leaves its task IN_PROGRESS (nothing writes it), and that
a double acceptance, or a crash in one, leaves a remediation no finding names.

### Launcher

| variable | code |
|---|---|
| `alive`, `reused` | processes; those whose pid a stranger has taken |
| `port` | who listens on the web port |
| `file`, `recorded` | the runtime file; launchers that have written it |
| `pc`, `saved` | where each command or handler is; the record it read and resolved |
| `heard` | the exit of the worker as the launcher heard of it |
| `lost`, `faults` | history: processes that a failed look-up missed or a kill left running, launchers without a start time of their own; bound on such failures |

A process is named by its launcher and role, and the name stands for pid and
start time.  `Forking` and `Restarting` are the wrappers whose child outlives
them: the web server's, and the one or two of the worker's watcher
(`Children`).  A stranger that takes the pid of a dead process may start a
child in this repository (`Guests`); it is newer than the record and its parent
has the recorded pid, so that `selectDescendant` adopts it like a child of our
own and a command kills it.  `Strays` are children of an earlier process with
the pid of a worker, older than the record, which must be spared.

Every command begins with `Reconcile`.  It resolves the records of the web
server and of the worker (`Resolve`); any of its look-ups may fail, the one of
the launcher, of a recorded process, or the search for descendants, and then
reads like a dead process (`ReconcileFile`, `Unsearched`).  The same holds in
`terminateRecorded`, where also a kill may leave its process running (`Miss`),
and when a launcher reads the start times of what it spawned (`Identify`).
Whatever happened, the file is removed in the end, as in the code.  Off Windows
(`Windows = FALSE`) start times are not compared: a pid is all there is, and a
reused one is killed.

Simplified: the check of an identity and the kill after it are one step, the
exit of a worker before its handler is registered is missed as in the code; one
stranger's child per recorded pid, and none under the pid of an adopted child;
off Windows a signal to a process that has just died and a look-up without
permission do not occur.  The dependencies' containers, the ports' owners, logs
and the browser are left out.  The module keeps that a crash between the spawns
and the write of the file leaves both processes unrecorded, and that the `rm`
of a slow stop may delete the file of a newer session.  In the passing runs
commands are given one after another (`Sequential`): nothing in the code
enforces that, it is an assumption on the user.

### ChatClient

| variable | code |
|---|---|
| `server` | the state of each execution |
| `pending`, `submitting` | React state: the execution shown with its status; a send in flight |
| `view` | what is rendered; `Commit` takes it to the state and replaces the effect that polls |
| `polls`, `calls` | requests in flight and their answers |
| `faults` | bound on lost requests and answers |

A click gets a fresh idempotency key, a reload drops what was not yet served,
and a cancellation ignores an answer that is not ok, as in the code.  The
choice of provider and model, the timeline and errors of the composer are left
out.

### Health

| variable | code |
|---|---|
| `row` | `ProviderHealth` or `ModelHealth`: its mark `probeInProgress`, and whether the CLI is installed |
| `files` | the condition of each file that may be the CLI |
| `up`, `cached` | workers that run; the path each has resolved |
| `probe` | per process and mode: its stage, whether a job called it, what it found |
| `job`, `asked` | the job under the fixed jobId of a mode; history: requests that wait for a probe |
| `lost`, `disturbed` | history: a mark was left behind; a mark was cleared under a probe |

Both monitors take the same steps.  `Modes` is what shares one row: refresh
and auth for a provider, model for a model.  The key, the upsert and the
compare-and-swap are one step, since nothing read before the last is used
after it; a check that is recent enough is a timer that does nothing; a
resolution sees a snapshot of the files, and a kill always works.  A file that
is broken counts as installed as long as its path is cached, as in the code.

Left out: verdicts on account and model, quota and the history of checks.  Not
visible therefore: a refresh writes back a verdict that a task has replaced
meanwhile (provider-health.ts:8), and a candidate that is denied after one that
is missing is reported as not found.

## 4 Runs

`MCConversation`, `MCProviderTurn` and `MCTaskFlow` extend their modules with
the functions and sequences a configuration cannot write; the others are
checked directly.  `CHECK_DEADLOCK FALSE` in the passing runs, since a system
whose requests and faults are used up may stop; in `health` it also may stop
because a mark is left behind and every worker is up.

| run | instance | shows |
|---|---|---|
| `lease` | `SessionLease.cfg`: 2 workers, 1 execution, 1 fault, fair | types, `OneRunner`, `OneProcess`, `AnswerIffSucceeded`, `ProcessAttended`, `FinalOutcome`, `LiveLeaseProtected`; the module implements `Execution`; a claimed execution ends; without a fault a cancelled one's process is stopped |
| `outbox` | `Outbox.cfg`: 3 sweeps, 1 event, 3 attempts, 2 faults, fair | types, `QueuedHasPath`, `OneHolder`, `PublishedOnce`, `SettledStays`; a queued session is picked up, cancelled, failed, or its event is a dead letter or left DISPATCHING by a crash, or the listener of its failed job failed too |
| `conversation` | `Conversation.cfg`: 3 submissions, 2 of one key, 1 retry, 2 providers, fair | types, `ThreadsStayApart`, `KeyLookupHolds`, `StrandedWasRevived`; every request is answered in spite of deadlocks with completions and with a retry |
| `turn` | `ProviderTurn.cfg`: both protocols, oversized lines, an answer above the limit of answers, every cut into chunks, one restart, fair | types, `AnswerWhole`, `VerdictHeeded`; the consumer of a process that ended is woken to the end |
| `taskflow` | `TaskFlow.cfg`: a review, 2 workers, 2 decisions, 2 edits, 3 faults, fair | types, `OneWorkerPerSession`, `AcceptedIsFresh`; a claimed session ends, or its provider runs for ever |
| `launcher` | `Launcher.cfg`: 2 sessions, a stray, a restarting watcher, 1 reused pid, 1 failed look-up or kill, fair | types, `NeverKillsStranger`, `NoOrphan`; a session whose worker failed is taken down |
| `chat` | `ChatClient.cfg`: 3 executions, 2 polls in flight, 2 lost messages, fair | types, `ShownBelongs`; an ended execution is noticed |
| `health` | `Health.cfg`: a provider's row, 2 workers, 2 files, 1 request, 1 fault, 1 change of a file, fair | types, `ProbesExclude`, `MarkIsHeld`; a CLI that is gone is recorded as gone |
| `lease_hung`, `conv_conflict`, `health_refresh`, `task_revived` | `SessionLease_hung.cfg`, `Conversation_conflict.cfg`, `Health_refresh.cfg`, `TaskFlow_revived.cfg` | violations, section 7 |

Bounds.  Two workers let one own a row while the other sweeps it or probes
beside it; a third adds only a second observer, and two race already.  One
fault suffices for every single failure at every step; a second one, during
recovery from the first, is in `outbox` and in the task flow, where a listener
fails after its job did, and for the rest in the proofs, which have no bound.
One execution and one event are in the instances; that jobs, candidates and
events listed together do not disturb each other is what the proofs add, whose
sets have any size.  `MaxLag` is the longest a sweep takes: below `RecoverAge`
it means that sweeps take less than the 60 s after which a starting process
takes a row for stuck.  `MaxAttempts` 3 and `MaxDelay` 2 include the first
retry, the last one, and a delay that is cut.  Three submissions and a retry
are the least with which a key is repeated while another request changes the
provider session in between.  The lines of `turn` are below, at and above the
limit, and together longer than an answer may be.  One review is all that the
properties of the task flow are about, other sessions of the task only take
workers away from it, and what a request for a verification asks of them is not
exercised; an edit may choose an earlier digest, the same or a new one, and
three faults let a job stall twice and its listener fail.  Two launchers give
every start a predecessor that crashed or was shut down.  A stop command is
`stopLocal` in a process of its own; the instance runs the same steps in the
signal handler, whose process ends, and in the handler of the worker's exit,
whose process goes on.  With one session, a stop command and a web server that
runs in a child of its command (`Launchers` {"l1"}, `Stops` {"s1"}, `Forking`
{"l1"}, `Strays` and `Restarting` {}) the same properties hold in 1.8 million
states; the proofs have them for any commands.  Three executions let an answer
about the first arrive while the second is shown and the third is made.

## 5 Fairness

`SessionLease`: the event loop runs every continuation it has (`JobStep`,
`RunStep`, `TermStep`), the absolute timer of a turn fires and the poll
recurs, sweeps recur every 30 s in every worker and the listeners run.  The
lease of a row that no job attends runs out, because nothing renews it.  Not
assumed: that anyone cancels, that jobs are delivered, that a worker crashes
or does not, or that a provider exits before it is killed.

`Outbox`: a sweep runs on (`setInterval`, one second), a worker process that
is down is started again, BullMQ delivers waiting jobs, the failed listener goes
on with its next statement, time passes.  A publish
need not succeed: only the bound on attempts ends its retries.

`Conversation`: a request goes on with its next statement and PostgreSQL
breaks deadlocks.  Workers need do nothing.

`ProviderTurn`: the event loop delivers `close` of a process that has ended and
runs consumers and the job.  No process has to end and no timer has to fire.

`TaskFlow`: workers and listeners go on, jobs are delivered, unrenewed leases
expire, sweeps recur.  A provider need not end: the task flow has no timer, and
the heartbeat keeps its lease live.  Only when the session is cancelled does it
end, because the poll kills it.

`Launcher`: a command that runs goes on and a launcher gets the events of its
worker.  Nobody has to start or stop anything, and a process need not obey.  Look-ups
and kills may fail as often as the bound allows.

`ChatClient`: React renders, the polling interval fires and is answered (each
loss uses up a fault), and the workers end what they are given.  The user need
do nothing.

`Health`: probes go on, the two interval timers fire, and a CLI that was killed
ends; one that was not need never end.  Jobs and start-ups are not assumed.
`GoneIsNoticed` is stated for executions without a fault, because a mark that
a crash left behind is cleared only by a worker that starts.

## 6 Proofs

For every set of workers and executions and any number of faults
(`NullsAssumption`, `FaultsAssumption`):

* **`InvCorrect`**: `Spec => []Inv`.  None of the safety properties is
  inductive alone.  That the answer belongs to the success needs to know that
  a job's row is still owned by it while in progress (`Ownership`), which needs
  that no job holds a QUEUED row and no listener a row whose job is running
  (`Held`), and that a turn is over as cancelled only while its row is
  (`CancelSeen`).  One process needs that the process alive belongs to the
  current turn, and that it is gone when the runner reports success or a stale
  resume (`Attended`).  `Inv` is proved in layers: `Typed` (types and
  `JobShape`), `Claimed` (`Held`, `Ownership`, `CancelSeen`, `OneRunner`),
  `AnswerIffSucceeded`, `Processes`, `ProcessAttended`, each from the ones
  before, with one step per action.
* `TypeCorrect`, `OneRunnerCorrect`, `AnswerCorrect`, `OneProcessCorrect`,
  `ProcessAttendedCorrect` follow; **`FinalOutcomeCorrect`** and
  **`LiveLeaseProtectedCorrect`** are action properties proved from `Inv`.
* **`Refinement`**: `Spec => ImplementsExecution`, every step an abstract step
  or a stutter, from `Inv`.

For every set of sweeps and events and all bounds (`OutboxAssumption`):

* **`PathsCorrect`** and **`QueuedHasPathCorrect`**: a queued session keeps
  its event, or its job until its claim returns or its failed listener has
  ended it, with the one exception that the listener failed as well (`unheard`).
  Inductive with: a sweep holds an event exactly between claim and record
  (`Shape`), rows exist only for committed sessions and only ended ones are
  withdrawn (`Committed`), and a job that is done has left its session claimed,
  ended or unheard (`Delivered`).
* **`TypeCorrect`**: the range of `wait` needs that the delay of a retry is
  between a tick and the longest, hence that `TwoTo`, defined by recursion, is
  what its definition says.  The library's induction takes a predicate, which
  the provers cannot instantiate; `Induction` here is about a set of numbers.
* **`ClaimsCorrect`**, **`OneHolderCorrect`**, **`PublishedOnceCorrect`**,
  **`SettledStaysCorrect`**, all under `MaxLag < RecoverAge`: a row that a
  sweep holds is DISPATCHING and no older than the sweep (`Young`), so no
  starting process takes it for stuck.  The assumption is necessary, see the
  second table of section 7.

For every set of workers and any number of requests, faults and changes, over
a provider's row and over a model's (`HealthAssumption`):

* **`ProbesExcludeCorrect`** and **`MarkIsHeldCorrect`**, from an inductive
  invariant (`InvCorrect` of `HealthProofs`).  Exclusion alone is not
  inductive: the claim looks at the mark and not at the probes, so that
  whoever works on the row must be known to have its mark, unless a starting
  worker cleared it under a probe (`HolderHasMark`).
* **`TypeCorrect`**: a resolved path is one of the candidates.  That the first
  candidate that works exists follows from the well-foundedness of the natural
  numbers, whose theorem takes a set and no predicate.

For every set of sessions, workers and decisions, any edits and faults
(`FlowAssumption`: `NoSession` and `NoWorker` are no session and no worker, and
finitely many decisions are made):

* **`OneWorkerCorrect`**.  RUNNING, SUCCEEDED and FAILED are written without a
  condition, so nothing in the row keeps a second worker out; what does is that
  a session is QUEUED only before a worker is at it (`ClaimedOnce`).
* **`AcceptedCorrect`**: a session has no finding before its one worker stores
  one, which is stale if the workspace has another digest than at the request
  (`StoredOnce`), and whoever decides has read a fresh one (`DecidedFresh`).
  About the workspace itself this says as much as `hashGit` does, see the second
  table of section 7.  `TypeCorrect` also
  needs that an active job has its worker (`Attended`), that a session which
  ended by itself has no lease (`Released`), and that each remediation was made
  by a decision of its own (`Counted`).

For any number of executions, polls and lost answers (`ChatAssumption`):

* **`ShownCorrect`**, under `~Overlapping`: a send or retry is answered before
  the next is clicked.  That is about the user: sending does not disable Retry.
  Then one creation is in flight (`OneCreation`), nothing is shown meanwhile
  (`CreatedUnseen`), and what is rendered never lags behind by an execution that
  was replaced (`OneShown`).  The assumption is necessary, see the second
  table of section 7.

For every set of commands, sessions, strays and reused pids, on Windows and off
it (`LauncherAssumption`, `NoFileAssumption`: an absent file is no record):

* **`NeverKillsStrangerCorrect`**, an action property, from `Inv` of
  `LauncherProofs`.  The file and what tasks have read of it name processes of a
  session that was recorded, or what was adopted in their place: a child of a
  process that is dead or was missed, the child of a stranger with its pid, no
  process older than the record (`FileRecorded`, `SavedRecorded`, by
  `Recorded`).  Its launcher spawns nothing any more (`PastStart`), so that a
  process with a recorded name that is dead stays dead and the start time of
  whoever has its pid tells (`ReusedPast`, `GuestsHosted`).  A step keeps what
  it must not kill by `NextSpares`, and strays are never killed (`StraysLive`).
* **`NoOrphanCorrect`**, under `Sequential`: by `Seq`, nothing else runs until a
  start command has recorded its session (`Alone`), nothing is recorded when it
  prepares one (`NothingRecorded`), all who terminate terminate the recorded
  session (`OneSession`), in the order worker, web server, file (`Terminated`),
  so that a recorded session is dead, or lost to a failed look-up or kill, or
  the one in the file (`Covered`).  It says nothing of children that a wrapper
  left and nobody adopted.
  Without `Sequential` TLC finds `NoOrphan` violated: the `rm` of a slow stop
  may delete the file of a newer session.

For every set of submissions, retries, providers and models
(`ConversationAssumption`: a request is a submission or a retry and not both,
`NoRequest` is none, `NoProvider` and `AnyProvider` are no providers):

* **`ThreadsCorrect`**: a provider session keeps its provider and model, so
  that what a request has read of it is still true when it writes
  (`SeenLatest`), although a retry holds no lock.
* **`KeyLookupCorrect`**: a submission writes while it holds the conversation
  (`SubmissionHolds`), and a retry is for a message that has executions already
  (`RetryKnown`).
* **`StrandedCorrect`**: a session that is not RUNNING was ended, and so was one
  that another follows (`EndedWhenNotRunning`, `Superseded`).
* A retry that hands over creates its session when it is numbered, some steps
  after the index has let it.  That it still may is `Reserved`, proved next to
  `Inv`: whoever has written and waits is alone with the RUNNING session of his
  provider.

For any outputs, lines, sizes and limits, however the output is cut into chunks
and whenever a timer fires, a cancellation is seen or a session is gone
(`TurnAssumption`: the limits are positive, a line has a known kind and a byte
at least, of which a two-byte character is a part, and an output prints no line
twice, since a line stands for one record):

* **`AnswerWholeCorrect`** and **`VerdictHeededCorrect`**, from `Inv` of
  `ProviderTurnProofs`.  While output is read, the lines consumed, the bytes
  buffered and the bytes unread make up the whole (`Reads`, by `Left` and
  `Place`: the beginning of a line is consumed before its end only if the line
  is above the limit).  What has been passed on, and the verdict, are what
  `Heard` says of the consumed lines: every text within the limit, once and in
  order, and a failure if it was the last verdict.  A run that is ok has
  consumed its whole output (`Completed`), the consumer has kept the texts it
  has read (`Keeps`), and an answer is given when it has read all (`Settled`).
  The texts lie one behind the other (`Placed`), so that those which begin within
  the limit of answers are the first ones (`SlicedFacts`) and what is missing
  from the stored answer belongs behind them.
* The output (`UpTo`) and the loop of the reader (`Loop`) are recursive
  functions.  That they are what their definitions say is `Iterates`, about any
  chain of functions on a set; that the loop comes to an end is `LoopEnds`,
  since each line takes a byte with it at least.
* **`TypeCorrect`**: no complete line is left in the buffer, which needs
  `LoopEnds`.

Every safety property and action property that a passing run checks is thereby
a theorem, for all constants that satisfy the assumptions named above: those of
the modules, and `MaxLag < RecoverAge`, `~Overlapping` and `Sequential` where
they are said to be needed.  Only model-checked is liveness under fairness,
which TLAPS cannot do.

## 7 What the checks found

Each of these is a run that expects a violation, with the statement it
contradicts.

| run | the code | the statement |
|---|---|---|
| `lease_hung` | a process gone before `close` has a listener leaves the job, and the worker's only slot, waiting | conversation-worker.test.ts:424 |
| `conv_conflict` | a completion sets a provider session RUNNING that is no longer the latest; the next submission creates a second one and the index refuses it, for good | conversation-service.ts:95-99 |
| `health_refresh` | a refresh is added under a jobId that the queue still knows from the last one, and is dropped while the answer says queued | models/[modelId]/refresh/route.ts:6-8 |
| `task_revived` | RUNNING is written without a condition, so a session cancelled after its claim runs and succeeds | cancellation.test.ts:2, ARCHITECTURE.md:43 |

More statements are written down as properties and are violated, without a run
of their own.  To see one, name it in a configuration with these constants:

| property | module, constants | the code | the statement |
|---|---|---|---|
| `CancelStopsRecordedProvider` | `SessionLease`, `FairSpec`, 1 worker, `MaxFaults` 1 | a cancelled row is never swept, so a crash after the cancellation leaves the recorded process running | cancel route, 8-9 |
| `TimeoutStopsProvider` | `SessionLease`, `FairSpec`, 1 worker, `MaxFaults` 0 | a timer that fires before the spawn stops nothing, and the spawn does not look at the signal | owned-process.test.ts:100 |
| `CancelEndsThread` | the same | cancelling ends the row first, so the catch block writes neither message nor provider session | conversation-orchestration-plan.md:17 |
| `PublishedOnce` | `Outbox`, 2 sweeps, `MaxAttempts` 2, `MaxDelay` 2, `MaxFaults` 0, `MaxLag` = `RecoverAge` = 2 | recovery takes the row of a slow sweep | outbox-service.ts:84-85 |
| `DeadLetterAtMaximum` | `Outbox`, 2 sweeps, `MaxAttempts` 2, `MaxFaults` 1 | the attempt that decides on the dead letter is the one listed, not the row's | outbox-service.test.ts:229 |
| `StuckIsRecovered` | the same, `FairSpec` | recovery runs once, at start-up, and skips young rows | outbox-service.test.ts:158 |
| `QueuedEnds` | the same, `FairSpec` | a dead letter leaves its session QUEUED; so does, with `MaxFaults` 2, a claim that throws and a failed listener that throws after it | ARCHITECTURE.md:43 |
| `ChunkingInvisible` | `ProviderTurn.cfg` | each chunk is decoded by itself, a two-byte character on a boundary is damaged | packages/providers index.test.ts:81 |
| `TimedOutByOwnTimer` | `ProviderTurn.cfg` | the consumer of the first turn, still storing an event when the turn ends, arms its inactivity timer again, which times the execution out during the second turn | conversation-worker.ts:512 |
| `AcceptedIsExact` | `TaskFlow.cfg` | the digest does not see every edit, so a finding made of another workspace is accepted | ARCHITECTURE.md:39 |
| `StopsOwnOnly` | `Launcher.cfg` with `Sequential` FALSE, `MaxReuse` 0, `MaxFaults` 0; or `Launcher.cfg` | a launcher that shuts down reads the runtime file again and stops whatever session it names; the child of a stranger with a recorded pid is adopted and killed | start-local.mjs:394, 58-60 |
| `ShownBelongs` | `ChatClient.cfg` with `Overlapping` TRUE | Retry is not disabled while a message is being sent, and the answer that comes first is replaced without its polls being stopped | conversation-chat.tsx:152-153 |
| `ShownUntilEnded` | `ChatClient.cfg` | the answer to a cancellation clears whatever is shown by then | conversation-chat.tsx:227 |

Two smaller ones are in the model only.  A cancelled row keeps `workerId` when
its job has passed the poll, although worker-lease.ts:40 wants the lease
released "alongside every terminal state transition".  And the failed listener
of the queue reads a row and then writes it without a condition (index.ts:73),
so that a cancellation between the two becomes FAILED; `FinalOutcome` and
`Execution` therefore allow that one change.

## 8 Not modelled

Planned: see section 2.  Left out for good: schema validation, request gates
and authentication (stateless filters), the verification cleanup (one
transaction that checks again what it deletes), the runner of allow-listed
commands, command lines of the CLIs, prompt and capsule texts, redaction, pages
other than the chat, test infrastructure.  The outbox does not look inside the
worker: that a job delivered twice runs once is `OneRunner` of `SessionLease`.

## 9 Running it

    tlc -config SessionLease.cfg SessionLease.tla
    tlc -config Conversation.cfg MCConversation.tla
    tlapm SessionLeaseProofs.tla

A configuration belongs to the module of its name, or to the `MC` module of
that name where there is one.  The runs take from a second to three minutes, the
proofs some ten minutes together.
