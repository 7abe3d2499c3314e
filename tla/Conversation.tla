---------------------------- MODULE Conversation ----------------------------
(***************************************************************************)
(* One conversation: submissions, retries, provider sessions and handoffs. *)
(*                                                                         *)
(* A submission reads what the conversation looks like, locks the row of   *)
(* the conversation and queues an execution under a provider session of    *)
(* the selected provider and model.  A retry does the same without that    *)
(* lock, unless it hands over.  Workers meanwhile complete, fail and       *)
(* reclaim executions, which changes the same provider sessions; a         *)
(* completion, and a retry that hands over, lock the conversation last     *)
(* where a submission locks it first.                                      *)
(*                                                                         *)
(* Transactions are READ COMMITTED: each statement sees what is committed. *)
(* A row is named by its place in its table, which is the order of         *)
(* startedAt for provider sessions.                                        *)
(***************************************************************************)
EXTENDS Naturals, Sequences

CONSTANTS
    Submissions,   \* requests to the messages route
    Retries,       \* requests to the retry route
    Key,           \* the idempotency key of a submission
    ProviderOrder, \* CONVERSATION_PROVIDER_ORDER
    Models,        \* models of each provider, the CLI's default included
    CliDefault,    \* no model: the CLI's default
    AnyProvider, NoProvider, NoRequest

Requests == Submissions \cup Retries
Providers == {ProviderOrder[i] : i \in DOMAIN ProviderOrder}
Keys == {Key[r] : r \in Submissions}
AllModels == UNION {Models[p] : p \in Providers}

ASSUME ConversationAssumption ==
    /\ ProviderOrder \in Seq(Providers)
    /\ DOMAIN Models = Providers
    /\ NoRequest \notin Requests
    /\ Submissions \cap Retries = {}
    /\ NoProvider \notin Providers
    /\ AnyProvider \notin Providers
    /\ CliDefault \in AllModels

VARIABLES
    sessions,        \* ProviderSession rows
    execs,           \* AgentSession rows, each with its handoff capsule's version
                     \* and the turn its worker is in
    handoffSequence, \* Conversation.handoffSequence
    speaker,         \* provider of the latest assistant message
    holder,          \* submission that holds the row lock of the conversation
    pc,              \* where a request stands; a retry that has written and
                     \* waits for the conversation is numbering
    order,           \* provider and model it resolved to, its user message
    seen             \* what it read before it writes

db == <<sessions, execs, handoffSequence, speaker>>
requests == <<pc, order, seen>>
vars == <<db, holder, requests>>

Active == {"QUEUED", "RUNNING"}
States == Active \cup {"SUCCEEDED", "STOPPED"}  \* STOPPED: FAILED, TIMED_OUT, CANCELLED
Ended == {"accepted", "duplicate", "unavailable", "conflict", "noMessage",
          "deadlock"}

NoOrder == [provider |-> NoProvider, model |-> "none", message |-> "none"]
NothingSeen == [speaker |-> NoProvider, latest |-> 0, running |-> FALSE]

-----------------------------------------------------------------------------
Init ==
    /\ sessions = <<>>
    /\ execs = <<>>
    /\ handoffSequence = 0
    /\ speaker = NoProvider
    /\ holder = NoRequest
    /\ pc = [r \in Requests |-> "idle"]
    /\ order = [r \in Requests |-> NoOrder]
    /\ seen = [r \in Requests |-> NothingSeen]

-----------------------------------------------------------------------------
(***************************************************************************)
(* Queries.                                                                *)
(***************************************************************************)

\* findFirst({ providerId: p }, orderBy startedAt desc): 0 for null.
Latest(p) ==
    LET S == {s \in DOMAIN sessions : sessions[s].provider = p}
    IN IF S = {} THEN 0 ELSE CHOOSE s \in S : \A t \in S : t <= s

\* Executions of the USER message with key k; the message exists with them.
ExecutionsOf(k) == {e \in DOMAIN execs : execs[e].message = k}

RunningOf(rows, p) ==
    {s \in DOMAIN rows : rows[s].provider = p /\ rows[s].status = "RUNNING"}

\* selectProvider, healthy being the capable and healthy providers.
SelectProvider(requested, current, healthy) ==
    CASE requested \in healthy -> requested
      [] requested = AnyProvider /\ current \in healthy -> current
      [] requested = AnyProvider /\ current \notin healthy /\ healthy # {} ->
            ProviderOrder[CHOOSE i \in DOMAIN ProviderOrder :
                /\ ProviderOrder[i] \in healthy
                /\ \A j \in 1 .. (i - 1) : ProviderOrder[j] \notin healthy]
      [] OTHER -> NoProvider

-----------------------------------------------------------------------------
(***************************************************************************)
(* Writes that submissions and retries share.                              *)
(***************************************************************************)

\* The request is answered and its locals are gone.
Answered(r, how) ==
    /\ pc' = [pc EXCEPT ![r] = how]
    /\ order' = [order EXCEPT ![r] = NoOrder]
    /\ seen' = [seen EXCEPT ![r] = NothingSeen]

\* Variant: any RUNNING session of the provider will do.
ReusesAnyModel(r) == seen[r].running

\* The provider session read is RUNNING under the resolved model.
Reuses(r) ==
    /\ seen[r].running
    /\ sessions[seen[r].latest].model = order[r].model

\* Variant: closes the row without endedAt.
EndRowUndated(rows, s, st) == [rows EXCEPT ![s].status = st]

EndRow(rows, s, st) ==
    [rows EXCEPT ![s].status = st, ![s].ended = TRUE]

\* A retry that did not reuse a session has written, and waits for the
\* conversation with its writes uncommitted.
Holds(r) == pc[r] = "numbering" /\ ~Reuses(r)

\* A completion or a retry of provider p has written and waits for the
\* conversation: it locks the rows and the index entry that other writers of p
\* need.
Busy(p) ==
    \/ \E e \in DOMAIN execs : execs[e].turn = "committing" /\ execs[e].provider = p
    \/ \E r \in Retries : Holds(r) /\ order[r].provider = p

\* The same for one row.
SessionBusy(s) ==
    \/ \E e \in DOMAIN execs : execs[e].turn = "committing" /\ execs[e].session = s
    \/ \E r \in Retries : Holds(r) /\ seen[r].running /\ seen[r].latest = s

\* The sessions after a RUNNING one that does not fit was retired.
Retired(r) ==
    IF seen[r].running /\ ~Reuses(r)
    THEN EndRow(sessions, seen[r].latest, "COMPLETED")
    ELSE sessions

\* The partial unique index refuses a second RUNNING row of the provider.
Refused(r) == ~Reuses(r) /\ RunningOf(Retired(r), order[r].provider) # {}

Place(r) ==
    sessions' =
        IF Reuses(r) THEN sessions
        ELSE Append(Retired(r), [provider |-> order[r].provider,
                                 model |-> order[r].model,
                                 status |-> "RUNNING", ended |-> FALSE,
                                 thread |-> 0])

\* Variant: the execution keeps the session that was read.
QueueOnLatest(r, handoff) ==
    /\ handoffSequence' = handoffSequence + IF handoff THEN 1 ELSE 0
    /\ execs' = Append(execs,
           [message |-> order[r].message, provider |-> order[r].provider,
            model |-> order[r].model, session |-> seen[r].latest,
            capsule |-> IF handoff THEN handoffSequence + 1 ELSE 0,
            state |-> "QUEUED", turn |-> "none", resumed |-> 0,
            reported |-> 0, reap |-> FALSE])
    /\ Answered(r, "accepted")

\* The execution, with a capsule that createHandoffCapsuleWithClient numbers
\* under the row lock of the conversation.
Queue(r, handoff) ==
    /\ handoffSequence' = handoffSequence + IF handoff THEN 1 ELSE 0
    /\ execs' = Append(execs,
           [message |-> order[r].message, provider |-> order[r].provider,
            model |-> order[r].model,
            session |-> IF Reuses(r) THEN seen[r].latest ELSE Len(sessions) + 1,
            capsule |-> IF handoff THEN handoffSequence + 1 ELSE 0,
            state |-> "QUEUED", turn |-> "none", resumed |-> 0,
            reported |-> 0, reap |-> FALSE])
    /\ Answered(r, "accepted")

ModelChanged(r) ==
    /\ seen[r].latest # 0
    /\ sessions[seen[r].latest].model # order[r].model

-----------------------------------------------------------------------------
(***************************************************************************)
(* A submission.                                                           *)
(***************************************************************************)

\* The route reads the latest assistant message and the health rows and
\* selects the provider, before the transaction.
Route(r, requested, healthy, m) ==
    LET p == SelectProvider(requested, speaker, healthy)
    IN /\ pc[r] = "idle"
       /\ \/ p = NoProvider /\ Answered(r, "unavailable")
          \/ /\ p # NoProvider
             /\ m \in Models[p]
             /\ pc' = [pc EXCEPT ![r] = "locking"]
             /\ order' = [order EXCEPT ![r] = [provider |-> p, model |-> m, message |-> Key[r]]]
             /\ seen' = [seen EXCEPT ![r].speaker = speaker]
       /\ UNCHANGED <<db, holder>>

\* The row lock, then the lookup of the key: a known key is answered.
Duplicate(r) ==
    /\ pc[r] = "locking"
    /\ holder = NoRequest
    /\ ExecutionsOf(Key[r]) # {}
    /\ Answered(r, "duplicate")
    /\ UNCHANGED <<db, holder>>

\* Variant: looks up the key and the session without the row lock.
LockNothing(r) ==
    /\ pc[r] = "locking"
    /\ ExecutionsOf(Key[r]) = {}
    /\ LET l == Latest(order[r].provider)
       IN seen' = [seen EXCEPT ![r].latest = l, ![r].running =
                       l # 0 /\ sessions[l].status = "RUNNING"]
    /\ pc' = [pc EXCEPT ![r] = "writing"]
    /\ UNCHANGED <<db, holder, order>>

\* The same for a new key, then the latest session of the provider.
Lock(r) ==
    /\ pc[r] = "locking"
    /\ holder = NoRequest
    /\ ExecutionsOf(Key[r]) = {}
    /\ holder' = r
    /\ LET l == Latest(order[r].provider)
       IN seen' = [seen EXCEPT ![r].latest = l, ![r].running =
                       l # 0 /\ sessions[l].status = "RUNNING"]
    /\ pc' = [pc EXCEPT ![r] = "writing"]
    /\ UNCHANGED <<db, order>>

\* Variant: a transaction that fails is tried again.
AbortRetried(r, why) ==
    /\ pc' = [pc EXCEPT ![r] = "locking"]
    /\ holder' = NoRequest
    /\ UNCHANGED <<db, order, seen>>

\* The transaction fails: its writes are undone and its lock is released.
Abort(r, why) ==
    /\ Answered(r, why)
    /\ holder' = NoRequest
    /\ UNCHANGED db

ProviderChanged(r) == seen[r].speaker \notin {NoProvider, order[r].provider}

\* A model switch reads the id of an assistant message that may be missing.
NoMessageRange(r) ==
    ~ProviderChanged(r) /\ ModelChanged(r) /\ seen[r].speaker = NoProvider

Write(r) ==
    /\ pc[r] = "writing"
    /\ Reuses(r) \/ ~Busy(order[r].provider)
    /\ \/ Refused(r) /\ Abort(r, "conflict")
       \/ ~Refused(r) /\ NoMessageRange(r) /\ Abort(r, "noMessage")
       \/ /\ ~Refused(r) /\ ~NoMessageRange(r)
          /\ Place(r)
          /\ Queue(r, ProviderChanged(r) \/ ModelChanged(r))
          /\ holder' = NoRequest
          /\ UNCHANGED speaker

-----------------------------------------------------------------------------
(***************************************************************************)
(* A retry: a transaction that takes the row lock only for a handoff.      *)
(***************************************************************************)

\* The original, an active execution of the same message and provider, and
\* the latest session; a model that was named is kept when the provider is.
RetryReads(r, e, p, m) ==
    LET same == {a \in ExecutionsOf(execs[e].message) :
                    execs[a].provider = p /\ execs[a].state \in Active}
        l == Latest(p)
    IN /\ pc[r] = "idle"
       /\ execs[e].state = "STOPPED"
       /\ p = execs[e].provider /\ execs[e].model # CliDefault => m = execs[e].model
       /\ \/ same # {} /\ Answered(r, "duplicate")
          \/ /\ same = {}
             /\ order' = [order EXCEPT ![r] = [provider |-> p, model |-> m, message |-> execs[e].message]]
             /\ seen' = [seen EXCEPT ![r].latest = l, ![r].running =
                             l # 0 /\ sessions[l].status = "RUNNING"]
             /\ pc' = [pc EXCEPT ![r] = "writing"]
       /\ UNCHANGED <<db, holder>>

\* It retires the session that does not fit and creates its own, and commits,
\* or has a capsule numbered first.
RetryWrites(r) ==
    LET p == order[r].provider
        handoff == speaker # NoProvider /\ (speaker # p \/ ModelChanged(r))
    IN /\ pc[r] = "writing"
       /\ Reuses(r) \/ ~Busy(p)
       /\ \/ Refused(r) /\ Answered(r, "conflict") /\ UNCHANGED db
          \/ /\ ~Refused(r) /\ handoff
             /\ pc' = [pc EXCEPT ![r] = "numbering"]
             /\ UNCHANGED <<db, order, seen>>
          \/ /\ ~Refused(r) /\ ~handoff
             /\ Place(r)
             /\ Queue(r, FALSE)
             /\ UNCHANGED speaker
       /\ UNCHANGED holder

\* handoffSequence, for which the conversation must not be locked; commit.
RetryNumbers(r) ==
    /\ pc[r] = "numbering"
    /\ holder = NoRequest
    /\ Place(r)
    /\ Queue(r, TRUE)
    /\ UNCHANGED <<speaker, holder>>

-----------------------------------------------------------------------------
(***************************************************************************)
(* Workers, as far as the conversation sees them (SessionLease has the     *)
(* rest).  A completion writes the execution and its provider session,     *)
(* then the conversation, and holds the row locks until it commits.        *)
(***************************************************************************)

UnchangedByWorkers == UNCHANGED <<handoffSequence, holder, requests>>

\* What the turn still does after that writes nothing.
Over(e, st, reap) ==
    execs' = [execs EXCEPT ![e].state = st, ![e].turn = "over", ![e].reap = reap,
                           ![e].resumed = 0, ![e].reported = 0]

EndExec(e, st) == Over(e, st, FALSE)

\* Claimed, validated and prepared: the thread to resume is read here.
StartTurn(e) ==
    /\ execs[e].state = "QUEUED"
    /\ execs' = [execs EXCEPT ![e].state = "RUNNING", ![e].turn = "running",
                              ![e].resumed = sessions[execs[e].session].thread]
    /\ UNCHANGED <<sessions, speaker>>
    /\ UnchangedByWorkers

\* The provider answered in the thread it resumed, in a new one, or without
\* reporting a thread, and the completion makes its first writes: the
\* execution, its message and the session, which becomes RUNNING whatever it
\* was, if the index allows it.  A thread is named by the execution that began
\* it.
CompletionWrites(e, t) ==
    LET x == execs[e]
        clash == RunningOf(sessions, x.provider) \ {x.session} # {}
    IN /\ x.turn = "running"
       /\ ~Busy(x.provider)
       /\ t \in {x.resumed, e, 0}
       /\ \/ clash /\ execs' = [execs EXCEPT ![e].turn = "failing"]
          \/ ~clash /\ execs' = [execs EXCEPT ![e].turn = "committing", ![e].reported = t]
       /\ UNCHANGED <<sessions, speaker>>
       /\ UnchangedByWorkers

\* activeProviderId, for which the conversation must not be locked; commit.
CompletionCommits(e) ==
    LET x == execs[e]
    IN /\ x.turn = "committing"
       /\ holder = NoRequest
       /\ EndExec(e, "SUCCEEDED")
       /\ sessions' = [sessions EXCEPT ![x.session].status = "RUNNING",
                                       ![x.session].thread = x.reported]
       /\ speaker' = x.provider
       /\ UnchangedByWorkers

\* The provider failed, or the completion did: the catch block records it.
FailureCommits(e) ==
    LET x == execs[e]
    IN /\ x.turn \in {"running", "failing"}
       /\ ~SessionBusy(x.session)
       /\ EndExec(e, "STOPPED")
       /\ sessions' = EndRow(sessions, x.session, "FAILED")
       /\ speaker' = x.provider
       /\ UnchangedByWorkers

\* The cancel route.
Cancel(e) ==
    /\ execs[e].state \in Active
    /\ execs[e].turn # "committing"
    /\ EndExec(e, "STOPPED")
    /\ UNCHANGED <<sessions, speaker>>
    /\ UnchangedByWorkers

\* The recovery sweep reclaims an execution whose lease expired, and writes
\* its session and its notice after that.
Reap(e) ==
    /\ execs[e].state = "RUNNING"
    /\ execs[e].turn # "committing"
    /\ Over(e, "STOPPED", TRUE)
    /\ UNCHANGED <<sessions, speaker>>
    /\ UnchangedByWorkers

ReapRest(e) ==
    LET s == execs[e].session
    IN /\ execs[e].reap
       /\ ~SessionBusy(s)
       /\ execs' = [execs EXCEPT ![e].reap = FALSE]
       /\ sessions' = IF sessions[s].status = "FAILED" THEN sessions
                      ELSE EndRow(sessions, s, "FAILED")
       /\ speaker' = execs[e].provider
       /\ UnchangedByWorkers

-----------------------------------------------------------------------------
(***************************************************************************)
(* The database finds a submission and a completion, or a submission and a *)
(* retry, waiting for each other and aborts one of them.                   *)
(***************************************************************************)

\* The submission has the conversation and needs rows of provider p.
Needs(r, p) ==
    holder = r /\ pc[r] = "writing" /\ ~Reuses(r) /\ order[r].provider = p

DeadlockAborts(r, e) ==
    /\ Needs(r, execs[e].provider)
    /\ execs[e].turn = "committing"
    /\ \/ Abort(r, "deadlock")
       \/ /\ execs' = [execs EXCEPT ![e].turn = "failing", ![e].reported = 0]
          /\ UNCHANGED <<sessions, speaker>>
          /\ UnchangedByWorkers

DeadlockOfRetry(r, q) ==
    /\ Holds(q)
    /\ Needs(r, order[q].provider)
    /\ \/ Abort(r, "deadlock")
       \/ Answered(q, "deadlock") /\ UNCHANGED <<db, holder>>

-----------------------------------------------------------------------------
SubmissionStep(r) == Duplicate(r) \/ Lock(r) \/ Write(r)

Deadlock(r) ==
    \/ \E e \in DOMAIN execs : DeadlockAborts(r, e)
    \/ \E q \in Retries : DeadlockOfRetry(r, q)

Work(e) ==
    \/ StartTurn(e) \/ \E t \in 0 .. Len(execs) : CompletionWrites(e, t)
    \/ CompletionCommits(e) \/ FailureCommits(e)
    \/ Cancel(e) \/ Reap(e) \/ ReapRest(e)

Submit(r) ==
    \E requested \in Providers \cup {AnyProvider}, healthy \in SUBSET Providers, m \in AllModels :
        Route(r, requested, healthy, m)

Submission(r) ==
    \/ Submit(r)
    \/ SubmissionStep(r)
    \/ Deadlock(r)

Retry(r) ==
    \/ \E e \in DOMAIN execs, p \in Providers : \E m \in Models[p] : RetryReads(r, e, p, m)
    \/ RetryWrites(r)
    \/ RetryNumbers(r)

Next ==
    \/ \E r \in Submissions : Submission(r)
    \/ \E r \in Retries : Retry(r)
    \/ \E e \in DOMAIN execs : Work(e)

Spec == Init /\ [][Next]_vars

\* The database and its clients: grants row locks, runs the statements of a
\* transaction that was begun, and resolves deadlocks.
Transaction ==
    \/ \E r \in Submissions : SubmissionStep(r) \/ Deadlock(r)
    \/ \E r \in Retries : RetryWrites(r) \/ RetryNumbers(r)
    \/ \E e \in DOMAIN execs : CompletionCommits(e)

\* Some transaction that can go on does.  Nobody has to submit, to retry, to
\* cancel or to answer, and no transaction is preferred.
Fairness == WF_vars(Transaction)

FairSpec == Spec /\ Fairness

-----------------------------------------------------------------------------
(***************************************************************************)
(* Types.                                                                  *)
(***************************************************************************)

SessionType ==
    [provider : Providers, model : AllModels, ended : BOOLEAN, thread : Nat,
     status : {"RUNNING", "COMPLETED", "FAILED"}]

ExecType ==
    [message : Keys, provider : Providers, model : AllModels, session : Nat,
     capsule : Nat, state : States, resumed : Nat,
     turn : {"none", "running", "failing", "committing", "over"},
     reported : Nat, reap : BOOLEAN]

OrderType ==
    [provider : Providers \cup {NoProvider}, model : AllModels \cup {"none"},
     message : Keys \cup {"none"}]

SeenType == [speaker : Providers \cup {NoProvider}, latest : Nat, running : BOOLEAN]

\* Rows and requests have their types, references name rows that exist.
TypeOK ==
    /\ sessions \in Seq(SessionType)
    /\ execs \in Seq(ExecType)
    /\ \A e \in DOMAIN execs : execs[e].session \in DOMAIN sessions
    /\ handoffSequence \in Nat
    /\ speaker \in Providers \cup {NoProvider}
    /\ holder \in Submissions \cup {NoRequest}
    /\ pc \in [Requests -> {"idle", "locking", "writing", "numbering"} \cup Ended]
    /\ order \in [Requests -> OrderType]
    /\ seen \in [Requests -> SeenType]
    /\ \A r \in Requests : seen[r].latest \in 0 .. Len(sessions)

-----------------------------------------------------------------------------
(***************************************************************************)
(* Properties.                                                             *)
(***************************************************************************)

\* An execution runs under a provider session of its provider and its model,
\* and the thread a session keeps, or an execution resumes, was begun by an
\* execution of that very session: threads never cross providers, models or
\* sessions, whoever retires, fails, revives or shares the session meanwhile.
ThreadsStayApart ==
    /\ \A e \in DOMAIN execs :
          LET x == execs[e]
          IN /\ sessions[x.session].provider = x.provider
             /\ sessions[x.session].model = x.model
             /\ \A t \in {x.resumed, x.reported} \ {0} :
                   t \in DOMAIN execs /\ execs[t].session = x.session
    /\ \A s \in DOMAIN sessions : sessions[s].thread # 0 =>
          /\ sessions[s].thread \in DOMAIN execs
          /\ execs[sessions[s].thread].session = s

\* A submission that passed the lookup of its key never finds the key taken:
\* two requests with one key, however they overlap, queue one execution.
KeyLookupHolds ==
    \A r \in Submissions : pc[r] = "writing" => ExecutionsOf(Key[r]) = {}

\* A RUNNING session that is not the latest of its provider was retired or
\* failed before and revived by the completion of an older execution: no
\* submission or retry leaves one behind.
StrandedWasRevived ==
    \A s, t \in DOMAIN sessions :
        /\ sessions[s].status = "RUNNING"
        /\ s < t
        /\ sessions[s].provider = sessions[t].provider
        => sessions[s].ended

\* Every submission and every retry that was begun is answered, although a
\* completion, and a retry that hands over, lock rows in the opposite order:
\* again and again nobody waits.
RequestsEnd == []<>(\A r \in Requests : pc[r] \in {"idle"} \cup Ended)

(***************************************************************************)
(* Statements that the code does not keep.                                 *)
(***************************************************************************)

\* conversation-service.ts:95-99: the row lock "makes the ProviderSession
\* find-or-create below ... race-free without relying on
\* constraint-violation retries": no submission fails on the index.
FindOrCreateSucceeds == \A r \in Submissions : pc[r] # "conflict"
=============================================================================
