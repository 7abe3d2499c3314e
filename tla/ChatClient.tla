----------------------------- MODULE ChatClient -----------------------------
(***************************************************************************)
(* The page of a conversation: it sends messages, retries, cancels and     *)
(* polls the execution it shows (components/conversation-chat.tsx), against *)
(* the routes that answer it.                                              *)
(*                                                                         *)
(* React keeps two things apart: the state the handlers set, and the       *)
(* render they have led to, whose closures and buttons the user meets and  *)
(* whose effect owns the polls.  Commit takes the second to the first.     *)
(*                                                                         *)
(* An execution is its place in the order of creation.  What the user      *)
(* types and chooses, the timeline and the composer's errors are left out. *)
(***************************************************************************)
EXTENDS Naturals, Sequences, FiniteSets

CONSTANTS
    Slots,          \* polls in flight at a time
    MaxExecutions,
    MaxFaults,      \* requests or answers lost
    Overlapping     \* the user sends or retries while a send or retry is in flight

ASSUME ChatAssumption ==
    MaxExecutions \in Nat /\ MaxFaults \in Nat /\ Overlapping \in BOOLEAN

VARIABLES
    server,      \* state of each execution
    pending,     \* the state `pending`, with the execution its status is of
    submitting,  \* the state `submitting`
    view,        \* what is rendered: id of the pending execution, submitting
    polls,       \* each slot's poll
    calls,       \* the send, retry and cancellation in flight
    faults

client == <<pending, submitting>>
vars == <<server, client, view, polls, calls, faults>>

Nobody == 0
Executions == 1..MaxExecutions
Kinds == {"submit", "retry", "cancel"}
Creating == {"submit", "retry"}
Reports == {"QUEUED", "RUNNING", "ENDED"}   \* ENDED: a state in TERMINAL_STATES
\* A request that is not made, one under way, and the answers to it.
Idle == [at |-> "idle", id |-> Nobody]
Asked(e) == [at |-> "asked", id |-> e]
NotPending == [id |-> Nobody, status |-> "QUEUED", of |-> Nobody]
Just(e) == [id |-> e, status |-> "QUEUED", of |-> e]

Active == {e \in DOMAIN server : server[e] # "ENDED"}
NewestActive == IF Active = {} THEN Nobody
                ELSE CHOOSE e \in Active : \A f \in Active : f <= e
Shown(p) == IF p = Nobody THEN NotPending ELSE Just(p)

-----------------------------------------------------------------------------
Init ==
    /\ server = <<>>
    /\ pending = NotPending
    /\ submitting = FALSE
    /\ view = [id |-> Nobody, submitting |-> FALSE]
    /\ polls = [s \in Slots |-> Idle]
    /\ calls = [k \in Kinds |-> Idle]
    /\ faults = 0

UnchangedClient == UNCHANGED <<client, view>>
Put(k, c) == calls' = [calls EXCEPT ![k] = c]
Rendered == view = [id |-> pending.id, submitting |-> submitting]
\* The send or retry before has been answered, and the page shows it.
Alone == Overlapping \/ (Rendered /\ \A k \in Creating : calls[k].at = "idle")

-----------------------------------------------------------------------------
(* The user.  A click is rendered before the next one. *)

Submit ==
    /\ view = [id |-> Nobody, submitting |-> FALSE]     \* busy disables Send
    /\ calls["submit"].at = "idle" /\ Alone
    /\ submitting' = TRUE
    /\ view' = [view EXCEPT !.submitting = TRUE]
    /\ Put("submit", Asked(Nobody))
    /\ UNCHANGED <<server, pending, polls, faults>>

\* Sending does not disable Retry.
Retry(e) ==
    /\ view.id = Nobody
    /\ e \in DOMAIN server /\ server[e] = "ENDED"
    /\ calls["retry"].at = "idle" /\ Alone
    /\ Put("retry", Asked(e))
    /\ UNCHANGED <<server, polls, faults>> /\ UnchangedClient

CancelExecution ==
    /\ view.id # Nobody
    /\ calls["cancel"].at = "idle"
    /\ Put("cancel", Asked(view.id))
    /\ UNCHANGED <<server, polls, faults>> /\ UnchangedClient

\* The page is loaded anew: its state is lost, and starts from the execution
\* the server names.  Requests on their way are dropped.
Reload ==
    /\ pending' = Shown(NewestActive)
    /\ submitting' = FALSE
    /\ view' = [id |-> NewestActive, submitting |-> FALSE]
    /\ polls' = [s \in Slots |-> Idle]
    /\ calls' = [k \in Kinds |-> Idle]
    /\ UNCHANGED <<server, faults>>

-----------------------------------------------------------------------------
(* The routes. *)

\* A message or a retry makes an execution, or is refused.
ServeCreation(k) ==
    /\ k \in Creating /\ calls[k].at = "asked"
    /\ \/ /\ Len(server) < MaxExecutions
          /\ server' = Append(server, "QUEUED")
          /\ Put(k, [at |-> "created", id |-> Len(server) + 1])
       \/ /\ UNCHANGED server
          /\ Put(k, [at |-> "refused", id |-> Nobody])
    /\ UNCHANGED <<polls, faults>> /\ UnchangedClient

ServeCancel ==
    LET e == calls["cancel"].id IN
    /\ calls["cancel"].at = "asked"
    /\ server' = [server EXCEPT ![e] = "ENDED"]
    /\ Put("cancel", [at |-> "answered", id |-> e])
    /\ UNCHANGED <<polls, faults>> /\ UnchangedClient

ServePoll(s) ==
    /\ polls[s].at = "asked"
    /\ polls' = [polls EXCEPT ![s].at = server[polls[s].id]]
    /\ UNCHANGED <<server, calls, faults>> /\ UnchangedClient

\* The workers.
Run(e) ==
    /\ server[e] = "QUEUED"
    /\ server' = [server EXCEPT ![e] = "RUNNING"]
    /\ UNCHANGED <<polls, calls, faults>> /\ UnchangedClient

Finish(e) ==
    /\ server[e] # "ENDED"
    /\ server' = [server EXCEPT ![e] = "ENDED"]
    /\ UNCHANGED <<polls, calls, faults>> /\ UnchangedClient

-----------------------------------------------------------------------------
(* The answers. *)

\* The handler that created the execution shows it, whatever is shown.
Created(k) ==
    /\ k \in Creating /\ calls[k].at = "created"
    /\ pending' = Just(calls[k].id)
    /\ submitting' = (submitting /\ k # "submit")
    /\ Put(k, Idle)
    /\ UNCHANGED <<server, view, polls, faults>>

Rejected(k) ==
    /\ k \in Creating /\ calls[k].at = "refused"
    /\ submitting' = (submitting /\ k # "submit")
    /\ Put(k, Idle)
    /\ UNCHANGED <<server, pending, view, polls, faults>>

\* The answer is not looked at.
Cancelled ==
    /\ calls["cancel"].at = "answered"
    /\ pending' = NotPending
    /\ Put("cancel", Idle)
    /\ UNCHANGED <<server, submitting, view, polls, faults>>

\* A request or its answer is lost, at once or after it was served.
CallLost(k) ==
    /\ calls[k].at # "idle"
    /\ faults < MaxFaults /\ faults' = faults + 1
    /\ submitting' = (submitting /\ k # "submit")
    /\ Put(k, Idle)
    /\ UNCHANGED <<server, pending, view, polls>>

-----------------------------------------------------------------------------
(* Rendering and polling. *)

\* The state is rendered; an effect of another execution is cleaned up.
Commit ==
    /\ ~Rendered
    /\ view' = [id |-> pending.id, submitting |-> submitting]
    /\ UNCHANGED <<server, client, polls, calls, faults>>

\* Variant: the effect polls while the execution is queued.
PolledQueued == view.id # Nobody /\ pending.status = "QUEUED"
\* The effect that is not cleaned up is that of the rendered execution: it
\* polls at once and at each interval, and only its polls are not cancelled.
Polled == view.id # Nobody
Poll(s) ==
    /\ Polled
    /\ polls[s].at = "idle"
    /\ polls' = [polls EXCEPT ![s] = Asked(view.id)]
    /\ UNCHANGED <<server, calls, faults>> /\ UnchangedClient

\* Variant: the flag is not looked at.
Always(p) == TRUE
Current(p) == p.id = view.id

\* The state written for a report.  A terminal one clears it.
Written(p) == [id |-> pending.id, status |-> p.at, of |-> p.id]
Ended(p) == IF p.at = "ENDED" THEN NotPending ELSE Written(p)

Report(s) ==
    LET p == polls[s] IN
    /\ p.at \in Reports
    /\ polls' = [polls EXCEPT ![s] = Idle]
    /\ pending' = IF Current(p) /\ pending.id # Nobody THEN Ended(p) ELSE pending
    /\ UNCHANGED <<server, submitting, view, calls, faults>>

PollLost(s) ==
    /\ polls[s].at # "idle"
    /\ faults < MaxFaults /\ faults' = faults + 1
    /\ polls' = [polls EXCEPT ![s] = Idle]
    /\ UNCHANGED <<server, calls>> /\ UnchangedClient

-----------------------------------------------------------------------------
Polling(s) == Poll(s) \/ ServePoll(s) \/ Report(s)
Call(k) == ServeCreation(k) \/ Created(k) \/ Rejected(k) \/ CallLost(k)

Next ==
    \/ Submit \/ CancelExecution \/ Reload \/ ServeCancel \/ Cancelled \/ Commit
    \/ \E e \in DOMAIN server : Retry(e) \/ Run(e) \/ Finish(e)
    \/ \E k \in Kinds : Call(k)
    \/ \E s \in Slots : Polling(s) \/ PollLost(s)

Spec == Init /\ [][Next]_vars

\* React renders, the interval fires, the routes answer, and the workers end
\* what they are given.  The user need do nothing.
FairSpec ==
    /\ Spec
    /\ WF_vars(Commit)
    /\ \A e \in Executions : WF_vars(e \in DOMAIN server /\ Finish(e))
    /\ \A s \in Slots : WF_vars(Polling(s))

-----------------------------------------------------------------------------
TypeOK ==
    /\ server \in Seq(Reports) /\ Len(server) <= MaxExecutions
    /\ pending \in [id : DOMAIN server \cup {Nobody}, status : Reports \ {"ENDED"},
                    of : DOMAIN server \cup {Nobody}]
    /\ submitting \in BOOLEAN
    /\ view \in [id : DOMAIN server \cup {Nobody}, submitting : BOOLEAN]
    /\ polls \in [Slots -> [at : {"idle", "asked"} \cup Reports,
                            id : DOMAIN server \cup {Nobody}]]
    /\ calls \in [Kinds -> [at : {"idle", "asked", "created", "refused", "answered"},
                            id : DOMAIN server \cup {Nobody}]]
    /\ faults \in 0..MaxFaults

\* The status, events and error on the page are those of the execution the
\* page says it shows (conversation-chat.tsx:152-153): a poll of an execution
\* shown earlier, answered late, is not written over the next one's.
ShownBelongs == pending.of = pending.id

\* A page that shows an execution in progress stops showing it once it has
\* ended, without the user, although answers are lost and polls overlap
\* (conversation-chat.tsx:154-164).
PendingEnds == \A e \in Executions : pending.id = e ~> pending.id # e

-----------------------------------------------------------------------------
(* A statement the code does not keep. *)

\* An execution that is shown is shown until it has ended.  The answer to a
\* cancellation clears whatever is shown (conversation-chat.tsx:227): when
\* the execution it was for has ended meanwhile, and the user has sent the
\* next message, that one runs on unseen.
ShownUntilEnded ==
    [][\A e \in DOMAIN server :
         pending.id = e /\ pending'.id = Nobody => server[e] = "ENDED"]_client
=============================================================================
