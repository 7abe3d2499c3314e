--------------------------- MODULE TaskFlowProofs ---------------------------
(***************************************************************************)
(* Proofs that a session of a task is run by one worker at a time, and     *)
(* that no stale finding is accepted, for any number of requests, workers, *)
(* decisions, edits and faults.                                            *)
(*                                                                         *)
(* Both rest on one fact: a session is QUEUED once in its life, so that it *)
(* is claimed once, whatever writes to it later without a condition.       *)
(***************************************************************************)
EXTENDS TaskFlow, FiniteSetTheorems, TLAPS

USE FlowAssumption

Stages == {"free", "probing", "running", "storing", "succeeding", "remembering", "failing"}
States == {"none", "QUEUED"} \cup InProgress \cup Terminal

\* The type of every variable, but for the number of remediations.
Typed ==
    /\ state \in [Requests -> States]
    /\ lease \in [Requests -> [worker : Workers \cup {NoWorker}, live : BOOLEAN]]
    /\ finding \in [Requests -> [status : {"none", "PENDING", "ACCEPTED", "REJECTED"},
                                 stale : BOOLEAN, seen : Workspace]]
    /\ remediations \in [Requests -> Nat]
    /\ request \in [Requests -> {"idle", "checked", "created", "queued"}]
    /\ baseline \in [Requests -> Workspace]
    /\ decider \in [Deciders -> [at : {"idle", "read", "made", "done"},
                                 finding : Requests \cup {NoSession}]]
    /\ \A d \in Deciders : decider[d].at # "idle" => decider[d].finding \in Requests
    /\ job \in [Requests -> {"none", "waiting", "again", "active", "finished"}]
    /\ turn \in [Workers -> [at : Stages, session : Requests \cup {NoSession}]]
    /\ \A w \in Workers : Mine(w) = NoSession <=> At(w, "free")
    /\ listener \in [Requests -> {"none", "heard", "read"}]
    /\ workspace \in Workspace /\ faults \in 0 .. MaxFaults

\* A session exists once its request has created it, before its job, and is QUEUED only
\* before a worker is at it.
ClaimedOnce ==
    /\ \A r \in Requests : job[r] # "none" \/ listener[r] # "none" => request[r] = "queued"
    /\ \A r \in Requests : state[r] = "none" <=> request[r] \in {"idle", "checked"}
    /\ \A w \in Workers : Mine(w) # NoSession => state[Mine(w)] \notin {"none", "QUEUED"}

\* An active job has its worker.
Attended == \A r \in Requests : job[r] = "active" => \E w \in Workers : Mine(w) = r

\* A session that ended by itself has no lease.
Released == \A r \in Requests : state[r] \in {"SUCCEEDED", "FAILED"} => lease[r] = NoLease

\* A session has no finding before its worker stores one, and a finding is stale when the
\* workspace had another digest then than at its request.
StoredOnce ==
    /\ \A r \in Requests : state[r] \in {"none", "QUEUED"} => finding[r].status = "none"
    /\ \A w \in Workers : turn[w].at \in {"probing", "running", "storing"} =>
           finding[Mine(w)].status = "none"
    /\ \A r \in Requests : finding[r].status # "none" =>
           (finding[r].stale <=> finding[r].seen.digest # baseline[r].digest)

\* Only a finding that is not stale is decided.
DecidedFresh ==
    /\ \A d \in Deciders : decider[d].at \in {"read", "made"} =>
           finding[decider[d].finding].status # "none" /\ ~finding[decider[d].finding].stale
    /\ \A r \in Requests : finding[r].status = "ACCEPTED" => ~finding[r].stale

\* Each remediation task of a finding was made by a decision of its own.
DecisionsOn(f) ==
    {d \in Deciders : decider[d].at \in {"made", "done"} /\ decider[d].finding = f}
Counted == \A f \in Requests : remediations[f] <= Cardinality(DecisionsOn(f))

Inv ==
    /\ Typed /\ Attended /\ Released
    /\ ClaimedOnce /\ OneWorkerPerSession
    /\ StoredOnce /\ DecidedFresh /\ Counted

-----------------------------------------------------------------------------
(***************************************************************************)
(* Updates of one field of a record.                                       *)
(***************************************************************************)

\* A finding that is marked stays a finding.
LEMMA MarkTyped ==
  ASSUME Typed, NEW f \in Requests, NEW s \in {"ACCEPTED", "REJECTED"},
         finding' = [finding EXCEPT ![f] = [finding[f] EXCEPT !.status = s]]
  PROVE  /\ finding' \in [Requests -> [status : {"none", "PENDING", "ACCEPTED", "REJECTED"},
                                       stale : BOOLEAN, seen : Workspace]]
         /\ finding'[f] = [status |-> s, stale |-> finding[f].stale, seen |-> finding[f].seen]
         /\ \A r \in Requests \ {f} : finding'[r] = finding[r]
<1>1. finding[f] \in [status : {"none", "PENDING", "ACCEPTED", "REJECTED"},
                      stale : BOOLEAN, seen : Workspace]
  BY DEF Typed
<1>2. [finding[f] EXCEPT !.status = s]
        = [status |-> s, stale |-> finding[f].stale, seen |-> finding[f].seen]
  BY <1>1
<1> QED
  BY <1>1, <1>2 DEF Typed

\* A decision that goes on keeps its finding.
LEMMA DecisionTyped ==
  ASSUME Typed, NEW d \in Deciders, NEW a \in {"made", "done"}, decider[d].at # "idle",
         decider' = [decider EXCEPT ![d].at = a]
  PROVE  /\ decider' \in [Deciders -> [at : {"idle", "read", "made", "done"},
                                       finding : Requests \cup {NoSession}]]
         /\ decider'[d] = [at |-> a, finding |-> decider[d].finding]
         /\ \A e \in Deciders \ {d} : decider'[e] = decider[e]
         /\ \A e \in Deciders : decider'[e].at # "idle" => decider'[e].finding \in Requests
<1>1. decider[d] \in [at : {"idle", "read", "made", "done"}, finding : Requests \cup {NoSession}]
  BY DEF Typed
<1>2. [decider[d] EXCEPT !.at = a] = [at |-> a, finding |-> decider[d].finding]
  BY <1>1
<1>3. decider' = [decider EXCEPT ![d] = [at |-> a, finding |-> decider[d].finding]]
  BY <1>2
<1>4. decider' \in [Deciders -> [at : {"idle", "read", "made", "done"},
                                finding : Requests \cup {NoSession}]]
  BY <1>1, <1>3 DEF Typed
<1>5. decider'[d] = [at |-> a, finding |-> decider[d].finding]
  BY <1>3 DEF Typed
<1>6. \A e \in Deciders \ {d} : decider'[e] = decider[e]
  BY <1>3 DEF Typed
<1>7. \A e \in Deciders : decider'[e].at # "idle" => decider'[e].finding \in Requests
  BY <1>5, <1>6 DEF Typed
<1> QED
  BY <1>4, <1>5, <1>6, <1>7

\* A worker that goes on keeps its session.
LEMMA GoneTo ==
  ASSUME Typed, NEW w \in Workers, NEW a \in Stages, turn' = [turn EXCEPT ![w].at = a]
  PROVE  turn' = [turn EXCEPT ![w] = [at |-> a, session |-> Mine(w)]]
<1>1. turn[w] \in [at : Stages, session : Requests \cup {NoSession}]
  BY DEF Typed
<1>2. [turn[w] EXCEPT !.at = a] = [at |-> a, session |-> turn[w].session]
  BY <1>1
<1> QED
  BY <1>2 DEF Mine

\* The end of a job is that of its worker's session, and it is no longer active.
LEMMA EndJobOnly ==
  ASSUME Typed, NEW w \in Workers, ~At(w, "free"), EndJob(w)
  PROVE  /\ Mine(w) \in Requests
         /\ job' \in [Requests -> {"none", "waiting", "again", "active", "finished"}]
         /\ job'[Mine(w)] # "active"
         /\ job'[Mine(w)] # "none" => job[Mine(w)] # "none"
         /\ \A r \in Requests \ {Mine(w)} : job'[r] = job[r]
<1>1. Mine(w) \in Requests
  BY DEF Typed, Mine, At
<1>2. CASE job[Mine(w)] = "active"
  <2>1. job' = [job EXCEPT ![Mine(w)] = "finished"]
    BY <1>2 DEF EndJob
  <2> QED
    BY <1>1, <1>2, <2>1 DEF Typed
<1>3. CASE job[Mine(w)] # "active"
  <2>1. job' = [job EXCEPT ![Mine(w)] = job[Mine(w)]]
    BY <1>3 DEF EndJob
  <2> QED
    BY <1>1, <1>3, <2>1 DEF Typed
<1> QED
  BY <1>2, <1>3

\* A job that fails ends like any other, and is heard if it was active.
LEMMA JobFailsOnly ==
  ASSUME Typed, NEW w \in Workers, ~At(w, "free"), JobFails(w)
  PROVE  /\ turn' = [turn EXCEPT ![w] = Free] /\ EndJob(w)
         /\ listener' \in [Requests -> {"none", "heard", "read"}]
         /\ \A r \in Requests : listener'[r] # listener[r] => r = Mine(w) /\ job[r] = "active"
<1>1. turn' = [turn EXCEPT ![w] = Free] /\ EndJob(w)
  BY DEF JobFails
<1>2. listener \in [Requests -> {"none", "heard", "read"}] /\ Mine(w) \in Requests
  BY EndJobOnly, <1>1 DEF Typed
<1>3. CASE job[Mine(w)] = "active"
  <2>1. listener' = [listener EXCEPT ![Mine(w)] = "heard"]
    BY <1>3 DEF JobFails, Heard
  <2> QED
    BY <1>1, <1>2, <1>3, <2>1
<1>4. CASE job[Mine(w)] # "active"
  <2>1. UNCHANGED listener
    BY <1>4 DEF JobFails
  <2> QED
    BY <1>1, <1>2, <2>1
<1> QED
  BY <1>3, <1>4

\* When a job ends, the others keep their workers.
LEMMA AttendedEnd ==
  ASSUME Typed, Attended, NEW w \in Workers, ~At(w, "free"), EndJob(w),
         \A v \in Workers \ {w} : turn'[v] = turn[v]
  PROVE  Attended'
<1> SUFFICES ASSUME NEW r \in Requests, job'[r] = "active"
             PROVE  \E v \in Workers : turn'[v].session = r
  BY DEF Attended, Mine
<1>1. r # Mine(w) /\ job[r] = "active"
  BY EndJobOnly
<1>2. PICK v \in Workers : Mine(v) = r
  BY <1>1 DEF Attended
<1>3. v # w
  BY <1>1, <1>2
<1> QED
  BY <1>2, <1>3 DEF Mine

-----------------------------------------------------------------------------
(***************************************************************************)
(* Each part of the invariant is kept.                                     *)
(***************************************************************************)

\* Every step keeps the types.
LEMMA NextTyped ==
  ASSUME Typed, [Next]_vars
  PROVE  Typed'
<1> USE DEF Typed, SetState, Release, Goto, At, Mine, Free, NoLease, vars, sessions, findings, web, queue, States, Stages, Terminal, InProgress
<1>1. ASSUME NEW r \in Requests, Check(r)
      PROVE  Typed'
  BY <1>1 DEF Check, Step
<1>2. ASSUME NEW r \in Requests, Create(r)
      PROVE  Typed'
  BY <1>2 DEF Create, Step
<1>3. ASSUME NEW r \in Requests, AddJob(r)
      PROVE  Typed'
  BY <1>3 DEF AddJob, Step
<1>4. ASSUME NEW r \in Requests, Cancel(r)
      PROVE  Typed'
  BY <1>4 DEF Cancel, Waiting
<1>5. ASSUME NEW r \in Requests, Stall(r)
      PROVE  Typed'
  BY <1>5 DEF Stall
<1>6. ASSUME NEW r \in Requests, Expire(r)
      PROVE  Typed'
  <2>1. lease[r] \in [worker : Workers \cup {NoWorker}, live : BOOLEAN]
    OBVIOUS
  <2>2. [lease[r] EXCEPT !.live = FALSE] \in [worker : Workers \cup {NoWorker}, live : BOOLEAN]
    BY <2>1
  <2>3. lease' = [lease EXCEPT ![r] = [lease[r] EXCEPT !.live = FALSE]]
    BY <1>6 DEF Expire
  <2>4. lease' \in [Requests -> [worker : Workers \cup {NoWorker}, live : BOOLEAN]]
    BY <2>2, <2>3
  <2> QED
    BY <1>6, <2>4 DEF Expire
<1>7. ASSUME NEW r \in Requests, Sweep(r)
      PROVE  Typed'
  BY <1>7 DEF Sweep
<1>8. ASSUME NEW d \in Deciders, NEW f \in Requests, ReadFinding(d, f)
      PROVE  Typed'
  BY <1>8 DEF ReadFinding
<1>9. ASSUME NEW d \in Deciders, Reject(d)
      PROVE  Typed'
  <2>1. decider[d].finding \in Requests
    BY <1>9 DEF Reject
  <2>2. finding' = [finding EXCEPT ![decider[d].finding] =
                        [finding[decider[d].finding] EXCEPT !.status = "REJECTED"]]
    BY <1>9 DEF Reject
  <2> QED
    BY <1>9, <2>1, <2>2, MarkTyped, DecisionTyped DEF Reject
<1>10. ASSUME NEW d \in Deciders, MakeRemediation(d)
      PROVE  Typed'
  <2>1. decider[d].finding \in Requests
    BY <1>10 DEF MakeRemediation
  <2>2. remediations' \in [Requests -> Nat]
    BY <1>10, <2>1 DEF MakeRemediation
  <2> QED
    BY <1>10, <2>2, DecisionTyped DEF MakeRemediation
<1>11. ASSUME NEW d \in Deciders, Accept(d)
      PROVE  Typed'
  <2>1. decider[d].finding \in Requests
    BY <1>11 DEF Accept
  <2>2. finding' = [finding EXCEPT ![decider[d].finding] =
                        [finding[decider[d].finding] EXCEPT !.status = "ACCEPTED"]]
    BY <1>11 DEF Accept
  <2> QED
    BY <1>11, <2>1, <2>2, MarkTyped, DecisionTyped DEF Accept
<1>12. ASSUME NEW w \in Workers, Run(w)
      PROVE  Typed'
  <2>1. turn' = [turn EXCEPT ![w] = [at |-> "running", session |-> Mine(w)]]
    BY <1>12, GoneTo DEF Run
  <2>2. state' = [state EXCEPT ![Mine(w)] = "RUNNING"]
    BY <1>12 DEF Run
  <2>3. UNCHANGED <<lease, finding, remediations, request, baseline, decider, job, listener,
                    workspace, faults>>
    BY <1>12 DEF Run
  <2>4. Mine(w) \in Requests
    BY <1>12 DEF Run
  <2> QED
    BY <2>1, <2>2, <2>3, <2>4
<1>13. ASSUME NEW w \in Workers, ProbeFails(w)
      PROVE  Typed'
  <2>1. JobFails(w) /\ At(w, "probing") /\ ~At(w, "free")
    BY <1>13 DEF ProbeFails
  <2>2. turn' = [turn EXCEPT ![w] = Free] /\ EndJob(w)
    BY <2>1 DEF JobFails
  <2>3. state' = state \/ state' = [state EXCEPT ![Mine(w)] = "RUNNING"]
    BY <1>13 DEF ProbeFails
  <2>4. UNCHANGED <<lease, finding, remediations, request, baseline, decider, workspace, faults>>
    BY <1>13 DEF ProbeFails
  <2>5. Mine(w) \in Requests
    BY <2>1
  <2> QED
    BY <2>1, <2>2, <2>3, <2>4, <2>5, EndJobOnly, JobFailsOnly
<1>14. ASSUME NEW r \in Requests, ListenerReads(r) \/ ListenerWrites(r)
      PROVE  Typed'
  <2>1. ListenerReads(r) => Typed'
    <3> SUFFICES ASSUME ListenerReads(r) PROVE Typed'
      OBVIOUS
    <3>1. listener' \in [Requests -> {"none", "heard", "read"}]
      BY DEF ListenerReads
    <3> QED
      BY <3>1 DEF ListenerReads
  <2>2. ListenerWrites(r) => Typed'
    BY DEF ListenerWrites
  <2> QED
    BY <1>14, <2>1, <2>2
<1>15. ASSUME NEW w \in Workers, ProviderDone(w)
      PROVE  Typed'
  <2>1. CASE state[Mine(w)] = "CANCELLED"
    <3>1. turn' = [turn EXCEPT ![w] = Free] /\ UNCHANGED <<state, lease, finding, listener>>
      BY <1>15, <2>1 DEF ProviderDone, EndTurn
    <3>2. EndJob(w) /\ ~At(w, "free")
      BY <1>15, <2>1 DEF ProviderDone, EndTurn
    <3>3. UNCHANGED <<remediations, request, baseline, decider, workspace, faults>>
      BY <1>15, <2>1 DEF ProviderDone
    <3> QED
      BY <3>1, <3>2, <3>3, EndJobOnly
  <2>2. CASE ~(state[Mine(w)] = "CANCELLED")
    <3>1. turn' = [turn EXCEPT ![w] = [at |-> "storing", session |-> Mine(w)]]
      BY <1>15, <2>2, GoneTo DEF ProviderDone
    <3>2. UNCHANGED <<state, lease, finding>>
      BY <1>15, <2>2 DEF ProviderDone
    <3>3. UNCHANGED <<remediations, request, baseline, decider, workspace, faults>>
      BY <1>15, <2>2 DEF ProviderDone
    <3>4. UNCHANGED <<job, listener>>
      BY <1>15, <2>2 DEF ProviderDone
    <3>5. At(w, "running")
      BY <1>15 DEF ProviderDone
    <3> QED
      BY <3>1, <3>2, <3>3, <3>4, <3>5
  <2> QED
    BY <2>1, <2>2
<1>16. ASSUME NEW w \in Workers, Store(w)
      PROVE  Typed'
  <2>1. Mine(w) \in Requests
    BY <1>16 DEF Store
  <2>2. finding' \in [Requests -> [status : {"none", "PENDING", "ACCEPTED", "REJECTED"},
                                   stale : BOOLEAN, seen : Workspace]]
    <3>1. CASE UNCHANGED finding
      BY <3>1
    <3>2. CASE finding' = [finding EXCEPT ![Mine(w)] =
                               [status |-> "PENDING", seen |-> workspace,
                                stale |-> workspace.digest # baseline[Mine(w)].digest]]
      <4>1. [status |-> "PENDING", seen |-> workspace,
             stale |-> workspace.digest # baseline[Mine(w)].digest]
                \in [status : {"none", "PENDING", "ACCEPTED", "REJECTED"},
                     stale : BOOLEAN, seen : Workspace]
        OBVIOUS
      <4> QED
        BY <2>1, <3>2, <4>1
    <3> QED
      BY <1>16, <3>1, <3>2 DEF Store
  <2>3. turn' = [turn EXCEPT ![w] = [at |-> "succeeding", session |-> Mine(w)]]
    BY <1>16, GoneTo DEF Store
  <2>4. UNCHANGED <<state, lease, remediations, decider, request, baseline, job, listener, workspace, faults>>
    BY <1>16 DEF Store
  <2> QED
    BY <2>1, <2>2, <2>3, <2>4
<1>17. ASSUME NEW w \in Workers, Succeed(w)
      PROVE  Typed'
  <2>1. turn' = [turn EXCEPT ![w] = [at |-> "remembering", session |-> Mine(w)]]
    BY <1>17, GoneTo DEF Succeed
  <2>2. /\ state' = [state EXCEPT ![Mine(w)] = "SUCCEEDED"]
        /\ lease' = [lease EXCEPT ![Mine(w)] = NoLease]
    BY <1>17 DEF Succeed
  <2>3. UNCHANGED <<finding, remediations, request, baseline, decider, job, listener,
                    workspace, faults>>
    BY <1>17 DEF Succeed
  <2>4. Mine(w) \in Requests
    BY <1>17 DEF Succeed
  <2> QED
    BY <2>1, <2>2, <2>3, <2>4
<1>18. ASSUME NEW w \in Workers, Remember(w)
      PROVE  Typed'
  BY <1>18, EndJobOnly DEF Remember, EndTurn
<1>19. ASSUME NEW w \in Workers, Throw(w)
      PROVE  Typed'
  <2>1. CASE EndTurn(w)
    <3>1. turn' = [turn EXCEPT ![w] = Free] /\ UNCHANGED <<state, lease, finding, listener>>
      BY <1>19, <2>1 DEF Throw, EndTurn
    <3>2. EndJob(w) /\ ~At(w, "free")
      BY <1>19, <2>1 DEF Throw, EndTurn
    <3>3. UNCHANGED <<remediations, request, baseline, decider, workspace, faults>>
      BY <1>19, <2>1 DEF Throw
    <3> QED
      BY <3>1, <3>2, <3>3, EndJobOnly
  <2>2. CASE Goto(w, "failing") /\ UNCHANGED <<job, listener>>
    <3>1. turn' = [turn EXCEPT ![w] = [at |-> "failing", session |-> Mine(w)]]
      BY <1>19, <2>2, GoneTo DEF Throw
    <3>2. UNCHANGED <<state, lease, finding>>
      BY <1>19, <2>2 DEF Throw
    <3>3. UNCHANGED <<remediations, request, baseline, decider, workspace, faults>>
      BY <1>19, <2>2 DEF Throw
    <3>4. UNCHANGED <<job, listener>>
      BY <1>19, <2>2 DEF Throw
    <3>5. ~At(w, "free")
      BY <1>19 DEF Throw
    <3> QED
      BY <3>1, <3>2, <3>3, <3>4, <3>5
  <2>3. CASE JobFails(w)
    <3>1. ~At(w, "free")
      BY <1>19 DEF Throw
    <3>2. turn' = [turn EXCEPT ![w] = Free] /\ EndJob(w)
      BY <2>3 DEF JobFails
    <3>3. UNCHANGED <<state, lease, finding, remediations, request, baseline, decider, workspace, faults>>
      BY <1>19 DEF Throw
    <3> QED
      BY <2>3, <3>1, <3>2, <3>3, EndJobOnly, JobFailsOnly
  <2> QED
    BY <1>19, <2>1, <2>2, <2>3 DEF Throw
<1>20. ASSUME NEW w \in Workers, Fail(w)
      PROVE  Typed'
  BY <1>20, EndJobOnly DEF Fail, EndTurn
<1>21. ASSUME NEW w \in Workers, Crash(w)
      PROVE  Typed'
  BY <1>21 DEF Crash
<1>22. ASSUME NEW w \in Workers, NEW r \in Requests, Claim(w, r)
      PROVE  Typed'
  <2>1. CASE state[r] = "QUEUED"
    <3>1. state' = [state EXCEPT ![r] = "STARTING"] /\ job' = [job EXCEPT ![r] = "active"]
      BY <1>22, <2>1 DEF Claim
    <3>2. turn' = [turn EXCEPT ![w] = [at |-> "probing", session |-> r]]
      BY <1>22, <2>1 DEF Claim
    <3>3. lease' = [lease EXCEPT ![r] = [worker |-> w, live |-> TRUE]]
      BY <1>22, <2>1 DEF Claim
    <3>4. UNCHANGED <<finding, remediations, decider, request, baseline, workspace, faults>>
      BY <1>22 DEF Claim
    <3>5. At(w, "free") /\ Waiting(r) /\ UNCHANGED listener
      BY <1>22 DEF Claim
    <3> QED
      BY <2>1, <3>1, <3>2, <3>3, <3>4, <3>5 DEF Waiting
  <2>2. CASE state[r] # "QUEUED"
    BY <1>22, <2>2 DEF Claim, Waiting
  <2> QED
    BY <2>1, <2>2
<1>23. ASSUME Edit
      PROVE  Typed'
  <2>1. PICK d \in 0 .. workspace.version + 1 :
            workspace' = [version |-> workspace.version + 1, digest |-> d]
    BY <1>23 DEF Edit
  <2>2. workspace.version < MaxEdits /\ workspace.version \in 0 .. MaxEdits
    BY <1>23 DEF Edit, Workspace
  <2>3. workspace' \in Workspace
    BY <2>1, <2>2 DEF Workspace
  <2> QED
    BY <1>23, <2>3 DEF Edit
<1>24. ASSUME UNCHANGED vars
      PROVE  Typed'
  BY <1>24
<1>25. ASSUME NEW r \in Requests, ClaimThrows(r)
      PROVE  Typed'
  BY <1>25 DEF ClaimThrows, Heard, Waiting
<1>26. ASSUME NEW r \in Requests, StallsOut(r)
      PROVE  Typed'
  BY <1>26 DEF StallsOut, Heard
<1>27. ASSUME NEW r \in Requests, ListenerThrows(r)
      PROVE  Typed'
  BY <1>27 DEF ListenerThrows
<1> QED
  BY <1>1, <1>2, <1>3, <1>4, <1>5, <1>6, <1>7, <1>8, <1>9, <1>10, <1>11, <1>12,
     <1>13, <1>14, <1>15, <1>16, <1>17, <1>18, <1>19, <1>20, <1>21, <1>22, <1>23,
     <1>24, <1>25, <1>26, <1>27 DEF Next, Submit, Decide, Work, Listen, Fault

\* No step brings a session back to QUEUED, and a claim finds it with no worker.
LEMMA NextClaimedOnce ==
  ASSUME Typed, ClaimedOnce, OneWorkerPerSession, [Next]_vars
  PROVE  ClaimedOnce' /\ OneWorkerPerSession'
<1> USE DEF Typed, ClaimedOnce, OneWorkerPerSession, SetState, Release, Goto, At, Mine, Free, NoLease, vars, sessions, findings, web, queue, States, Stages, Terminal, InProgress
<1>1. ASSUME NEW r \in Requests, Check(r)
      PROVE  ClaimedOnce' /\ OneWorkerPerSession'
  BY <1>1 DEF Check, Step
<1>2. ASSUME NEW r \in Requests, Create(r)
      PROVE  ClaimedOnce' /\ OneWorkerPerSession'
  BY <1>2 DEF Create, Step
<1>3. ASSUME NEW r \in Requests, AddJob(r)
      PROVE  ClaimedOnce' /\ OneWorkerPerSession'
  BY <1>3 DEF AddJob, Step
<1>4. ASSUME NEW r \in Requests, Cancel(r)
      PROVE  ClaimedOnce' /\ OneWorkerPerSession'
  BY <1>4 DEF Cancel, Waiting
<1>5. ASSUME NEW r \in Requests, Stall(r)
      PROVE  ClaimedOnce' /\ OneWorkerPerSession'
  BY <1>5 DEF Stall
<1>6. ASSUME NEW r \in Requests, Expire(r)
      PROVE  ClaimedOnce' /\ OneWorkerPerSession'
  BY <1>6 DEF Expire
<1>7. ASSUME NEW r \in Requests, Sweep(r)
      PROVE  ClaimedOnce' /\ OneWorkerPerSession'
  BY <1>7 DEF Sweep
<1>8. ASSUME NEW d \in Deciders, NEW f \in Requests, ReadFinding(d, f)
      PROVE  ClaimedOnce' /\ OneWorkerPerSession'
  BY <1>8 DEF ReadFinding
<1>9. ASSUME NEW d \in Deciders, Reject(d)
      PROVE  ClaimedOnce' /\ OneWorkerPerSession'
  BY <1>9 DEF Reject
<1>10. ASSUME NEW d \in Deciders, MakeRemediation(d)
      PROVE  ClaimedOnce' /\ OneWorkerPerSession'
  BY <1>10 DEF MakeRemediation
<1>11. ASSUME NEW d \in Deciders, Accept(d)
      PROVE  ClaimedOnce' /\ OneWorkerPerSession'
  BY <1>11 DEF Accept
<1>12. ASSUME NEW w \in Workers, Run(w)
      PROVE  ClaimedOnce' /\ OneWorkerPerSession'
  BY <1>12 DEF Run
<1>13. ASSUME NEW w \in Workers, ProbeFails(w)
      PROVE  ClaimedOnce' /\ OneWorkerPerSession'
  <2>1. JobFails(w) /\ At(w, "probing") /\ ~At(w, "free")
    BY <1>13 DEF ProbeFails
  <2>2. turn' = [turn EXCEPT ![w] = Free] /\ EndJob(w)
    BY <2>1 DEF JobFails
  <2>3. state' = state \/ state' = [state EXCEPT ![Mine(w)] = "RUNNING"]
    BY <1>13 DEF ProbeFails
  <2>4. UNCHANGED <<lease, finding, remediations, request, baseline, decider, workspace, faults>>
    BY <1>13 DEF ProbeFails
  <2>5. Mine(w) \in Requests
    BY <2>1
  <2> QED
    BY <2>1, <2>2, <2>3, <2>4, <2>5, EndJobOnly, JobFailsOnly
<1>14. ASSUME NEW r \in Requests, ListenerReads(r) \/ ListenerWrites(r)
      PROVE  ClaimedOnce' /\ OneWorkerPerSession'
  BY <1>14 DEF ListenerReads, ListenerWrites
<1>15. ASSUME NEW w \in Workers, ProviderDone(w)
      PROVE  ClaimedOnce' /\ OneWorkerPerSession'
  <2>1. CASE state[Mine(w)] = "CANCELLED"
    <3>1. turn' = [turn EXCEPT ![w] = Free] /\ UNCHANGED <<state, lease, finding, listener>>
      BY <1>15, <2>1 DEF ProviderDone, EndTurn
    <3>2. EndJob(w) /\ ~At(w, "free")
      BY <1>15, <2>1 DEF ProviderDone, EndTurn
    <3>3. UNCHANGED <<remediations, request, baseline, decider, workspace, faults>>
      BY <1>15, <2>1 DEF ProviderDone
    <3> QED
      BY <3>1, <3>2, <3>3, EndJobOnly
  <2>2. CASE ~(state[Mine(w)] = "CANCELLED")
    <3>1. turn' = [turn EXCEPT ![w] = [at |-> "storing", session |-> Mine(w)]]
      BY <1>15, <2>2, GoneTo DEF ProviderDone
    <3>2. UNCHANGED <<state, lease, finding>>
      BY <1>15, <2>2 DEF ProviderDone
    <3>3. UNCHANGED <<remediations, request, baseline, decider, workspace, faults>>
      BY <1>15, <2>2 DEF ProviderDone
    <3>4. UNCHANGED <<job, listener>>
      BY <1>15, <2>2 DEF ProviderDone
    <3>5. At(w, "running")
      BY <1>15 DEF ProviderDone
    <3> QED
      BY <3>1, <3>2, <3>3, <3>4, <3>5
  <2> QED
    BY <2>1, <2>2
<1>16. ASSUME NEW w \in Workers, Store(w)
      PROVE  ClaimedOnce' /\ OneWorkerPerSession'
  BY <1>16 DEF Store
<1>17. ASSUME NEW w \in Workers, Succeed(w)
      PROVE  ClaimedOnce' /\ OneWorkerPerSession'
  BY <1>17 DEF Succeed
<1>18. ASSUME NEW w \in Workers, Remember(w)
      PROVE  ClaimedOnce' /\ OneWorkerPerSession'
  BY <1>18, EndJobOnly DEF Remember, EndTurn
<1>19. ASSUME NEW w \in Workers, Throw(w)
      PROVE  ClaimedOnce' /\ OneWorkerPerSession'
  <2>1. CASE EndTurn(w)
    <3>1. turn' = [turn EXCEPT ![w] = Free] /\ UNCHANGED <<state, lease, finding, listener>>
      BY <1>19, <2>1 DEF Throw, EndTurn
    <3>2. EndJob(w) /\ ~At(w, "free")
      BY <1>19, <2>1 DEF Throw, EndTurn
    <3>3. UNCHANGED <<remediations, request, baseline, decider, workspace, faults>>
      BY <1>19, <2>1 DEF Throw
    <3> QED
      BY <3>1, <3>2, <3>3, EndJobOnly
  <2>2. CASE Goto(w, "failing") /\ UNCHANGED <<job, listener>>
    <3>1. turn' = [turn EXCEPT ![w] = [at |-> "failing", session |-> Mine(w)]]
      BY <1>19, <2>2, GoneTo DEF Throw
    <3>2. UNCHANGED <<state, lease, finding>>
      BY <1>19, <2>2 DEF Throw
    <3>3. UNCHANGED <<remediations, request, baseline, decider, workspace, faults>>
      BY <1>19, <2>2 DEF Throw
    <3>4. UNCHANGED <<job, listener>>
      BY <1>19, <2>2 DEF Throw
    <3>5. ~At(w, "free")
      BY <1>19 DEF Throw
    <3> QED
      BY <3>1, <3>2, <3>3, <3>4, <3>5
  <2>3. CASE JobFails(w)
    <3>1. ~At(w, "free")
      BY <1>19 DEF Throw
    <3>2. turn' = [turn EXCEPT ![w] = Free] /\ EndJob(w)
      BY <2>3 DEF JobFails
    <3>3. UNCHANGED <<state, lease, finding, remediations, request, baseline, decider, workspace, faults>>
      BY <1>19 DEF Throw
    <3>4. \A r \in Requests : job'[r] # "none" \/ listener'[r] # "none" =>
                                  job[r] # "none" \/ listener[r] # "none"
      BY <2>3, <3>1, EndJobOnly, JobFailsOnly
    <3>5. \A v \in Workers : turn'[v] = turn[v] \/ turn'[v] = Free
      BY <3>2
    <3>6. \A r \in Requests : job'[r] # "none" \/ listener'[r] # "none" => request'[r] = "queued"
      BY <3>3, <3>4
    <3>7. \A v \in Workers : turn'[v].session # NoSession => turn'[v] = turn[v]
      BY <3>5
    <3>8. OneWorkerPerSession'
      BY <3>7
    <3> QED
      BY <3>3, <3>6, <3>7, <3>8
  <2> QED
    BY <1>19, <2>1, <2>2, <2>3 DEF Throw
<1>20. ASSUME NEW w \in Workers, Fail(w)
      PROVE  ClaimedOnce' /\ OneWorkerPerSession'
  BY <1>20, EndJobOnly DEF Fail, EndTurn
<1>21. ASSUME NEW w \in Workers, Crash(w)
      PROVE  ClaimedOnce' /\ OneWorkerPerSession'
  BY <1>21 DEF Crash
<1>22. ASSUME NEW w \in Workers, NEW r \in Requests, Claim(w, r)
      PROVE  ClaimedOnce' /\ OneWorkerPerSession'
  <2>1. CASE state[r] = "QUEUED"
    <3>1. state' = [state EXCEPT ![r] = "STARTING"] /\ job' = [job EXCEPT ![r] = "active"]
      BY <1>22, <2>1 DEF Claim
    <3>2. turn' = [turn EXCEPT ![w] = [at |-> "probing", session |-> r]]
      BY <1>22, <2>1 DEF Claim
    <3>3. lease' = [lease EXCEPT ![r] = [worker |-> w, live |-> TRUE]]
      BY <1>22, <2>1 DEF Claim
    <3>4. UNCHANGED <<finding, remediations, decider, request, baseline, workspace, faults>>
      BY <1>22 DEF Claim
    <3>5. At(w, "free") /\ Waiting(r) /\ UNCHANGED listener
      BY <1>22 DEF Claim
    <3> QED
      BY <2>1, <3>1, <3>2, <3>3, <3>4, <3>5 DEF Waiting
  <2>2. CASE state[r] # "QUEUED"
    BY <1>22, <2>2 DEF Claim, Waiting
  <2> QED
    BY <2>1, <2>2
<1>23. ASSUME Edit
      PROVE  ClaimedOnce' /\ OneWorkerPerSession'
  BY <1>23 DEF Edit
<1>24. ASSUME UNCHANGED vars
      PROVE  ClaimedOnce' /\ OneWorkerPerSession'
  BY <1>24
<1>25. ASSUME NEW r \in Requests, ClaimThrows(r)
      PROVE  ClaimedOnce' /\ OneWorkerPerSession'
  BY <1>25 DEF ClaimThrows, Heard, Waiting
<1>26. ASSUME NEW r \in Requests, StallsOut(r)
      PROVE  ClaimedOnce' /\ OneWorkerPerSession'
  BY <1>26 DEF StallsOut, Heard
<1>27. ASSUME NEW r \in Requests, ListenerThrows(r)
      PROVE  ClaimedOnce' /\ OneWorkerPerSession'
  BY <1>27 DEF ListenerThrows
<1> QED
  BY <1>1, <1>2, <1>3, <1>4, <1>5, <1>6, <1>7, <1>8, <1>9, <1>10, <1>11, <1>12,
     <1>13, <1>14, <1>15, <1>16, <1>17, <1>18, <1>19, <1>20, <1>21, <1>22, <1>23,
     <1>24, <1>25, <1>26, <1>27 DEF Next, Submit, Decide, Work, Listen, Fault

\* A job that is active has a worker until it ends or is delivered again.
LEMMA NextAttended ==
  ASSUME Typed, Attended, [Next]_vars
  PROVE  Attended'
<1> USE DEF Typed, Attended, SetState, Release, Goto, At, Mine, Free, NoLease, vars, sessions, findings, web, queue, States, Stages, Terminal, InProgress
<1>1. ASSUME NEW r \in Requests, Check(r)
      PROVE  Attended'
  BY <1>1 DEF Check, Step
<1>2. ASSUME NEW r \in Requests, Create(r)
      PROVE  Attended'
  BY <1>2 DEF Create, Step
<1>3. ASSUME NEW r \in Requests, AddJob(r)
      PROVE  Attended'
  BY <1>3 DEF AddJob, Step
<1>4. ASSUME NEW r \in Requests, Cancel(r)
      PROVE  Attended'
  BY <1>4 DEF Cancel, Waiting
<1>5. ASSUME NEW r \in Requests, Stall(r)
      PROVE  Attended'
  BY <1>5 DEF Stall
<1>6. ASSUME NEW r \in Requests, Expire(r)
      PROVE  Attended'
  BY <1>6 DEF Expire
<1>7. ASSUME NEW r \in Requests, Sweep(r)
      PROVE  Attended'
  BY <1>7 DEF Sweep
<1>8. ASSUME NEW d \in Deciders, NEW f \in Requests, ReadFinding(d, f)
      PROVE  Attended'
  BY <1>8 DEF ReadFinding
<1>9. ASSUME NEW d \in Deciders, Reject(d)
      PROVE  Attended'
  BY <1>9 DEF Reject
<1>10. ASSUME NEW d \in Deciders, MakeRemediation(d)
      PROVE  Attended'
  BY <1>10 DEF MakeRemediation
<1>11. ASSUME NEW d \in Deciders, Accept(d)
      PROVE  Attended'
  BY <1>11 DEF Accept
<1>12. ASSUME NEW w \in Workers, Run(w)
      PROVE  Attended'
  BY <1>12 DEF Run
<1>13. ASSUME NEW w \in Workers, ProbeFails(w)
      PROVE  Attended'
  <2>1. JobFails(w) /\ At(w, "probing") /\ ~At(w, "free")
    BY <1>13 DEF ProbeFails
  <2>2. turn' = [turn EXCEPT ![w] = Free] /\ EndJob(w)
    BY <2>1 DEF JobFails
  <2>3. state' = state \/ state' = [state EXCEPT ![Mine(w)] = "RUNNING"]
    BY <1>13 DEF ProbeFails
  <2>4. UNCHANGED <<lease, finding, remediations, request, baseline, decider, workspace, faults>>
    BY <1>13 DEF ProbeFails
  <2>5. Mine(w) \in Requests
    BY <2>1
  <2> QED
    BY <2>1, <2>2, <2>3, <2>4, <2>5, AttendedEnd, JobFailsOnly
<1>14. ASSUME NEW r \in Requests, ListenerReads(r) \/ ListenerWrites(r)
      PROVE  Attended'
  BY <1>14 DEF ListenerReads, ListenerWrites
<1>15. ASSUME NEW w \in Workers, ProviderDone(w)
      PROVE  Attended'
  <2>1. CASE state[Mine(w)] = "CANCELLED"
    <3>1. turn' = [turn EXCEPT ![w] = Free] /\ UNCHANGED <<state, lease, finding, listener>>
      BY <1>15, <2>1 DEF ProviderDone, EndTurn
    <3>2. EndJob(w) /\ ~At(w, "free")
      BY <1>15, <2>1 DEF ProviderDone, EndTurn
    <3>3. UNCHANGED <<remediations, request, baseline, decider, workspace, faults>>
      BY <1>15, <2>1 DEF ProviderDone
    <3> QED
      BY <3>1, <3>2, <3>3, AttendedEnd
  <2>2. CASE ~(state[Mine(w)] = "CANCELLED")
    <3>1. turn' = [turn EXCEPT ![w] = [at |-> "storing", session |-> Mine(w)]]
      BY <1>15, <2>2, GoneTo DEF ProviderDone
    <3>2. UNCHANGED <<state, lease, finding>>
      BY <1>15, <2>2 DEF ProviderDone
    <3>3. UNCHANGED <<remediations, request, baseline, decider, workspace, faults>>
      BY <1>15, <2>2 DEF ProviderDone
    <3>4. UNCHANGED <<job, listener>>
      BY <1>15, <2>2 DEF ProviderDone
    <3>5. At(w, "running")
      BY <1>15 DEF ProviderDone
    <3> QED
      BY <3>1, <3>2, <3>3, <3>4, <3>5
  <2> QED
    BY <2>1, <2>2
<1>16. ASSUME NEW w \in Workers, Store(w)
      PROVE  Attended'
  BY <1>16 DEF Store
<1>17. ASSUME NEW w \in Workers, Succeed(w)
      PROVE  Attended'
  BY <1>17 DEF Succeed
<1>18. ASSUME NEW w \in Workers, Remember(w)
      PROVE  Attended'
  <2>1. EndJob(w) /\ ~At(w, "free") /\ \A v \in Workers \ {w} : turn'[v] = turn[v]
    BY <1>18 DEF Remember, EndTurn
  <2> QED
    BY <2>1, AttendedEnd
<1>19. ASSUME NEW w \in Workers, Throw(w)
      PROVE  Attended'
  <2>1. CASE EndTurn(w)
    <3>1. turn' = [turn EXCEPT ![w] = Free] /\ UNCHANGED <<state, lease, finding, listener>>
      BY <1>19, <2>1 DEF Throw, EndTurn
    <3>2. EndJob(w) /\ ~At(w, "free")
      BY <1>19, <2>1 DEF Throw, EndTurn
    <3>3. UNCHANGED <<remediations, request, baseline, decider, workspace, faults>>
      BY <1>19, <2>1 DEF Throw
    <3> QED
      BY <3>1, <3>2, <3>3, AttendedEnd
  <2>2. CASE Goto(w, "failing") /\ UNCHANGED <<job, listener>>
    <3>1. turn' = [turn EXCEPT ![w] = [at |-> "failing", session |-> Mine(w)]]
      BY <1>19, <2>2, GoneTo DEF Throw
    <3>2. UNCHANGED <<state, lease, finding>>
      BY <1>19, <2>2 DEF Throw
    <3>3. UNCHANGED <<remediations, request, baseline, decider, workspace, faults>>
      BY <1>19, <2>2 DEF Throw
    <3>4. UNCHANGED <<job, listener>>
      BY <1>19, <2>2 DEF Throw
    <3>5. ~At(w, "free")
      BY <1>19 DEF Throw
    <3> QED
      BY <3>1, <3>2, <3>3, <3>4, <3>5
  <2>3. CASE JobFails(w)
    <3>1. ~At(w, "free")
      BY <1>19 DEF Throw
    <3>2. turn' = [turn EXCEPT ![w] = Free] /\ EndJob(w)
      BY <2>3 DEF JobFails
    <3>3. UNCHANGED <<state, lease, finding, remediations, request, baseline, decider, workspace, faults>>
      BY <1>19 DEF Throw
    <3> QED
      BY <2>3, <3>1, <3>2, <3>3, AttendedEnd, JobFailsOnly
  <2> QED
    BY <1>19, <2>1, <2>2, <2>3 DEF Throw
<1>20. ASSUME NEW w \in Workers, Fail(w)
      PROVE  Attended'
  <2>1. EndJob(w) /\ ~At(w, "free") /\ \A v \in Workers \ {w} : turn'[v] = turn[v]
    BY <1>20 DEF Fail, EndTurn
  <2> QED
    BY <2>1, AttendedEnd
<1>21. ASSUME NEW w \in Workers, Crash(w)
      PROVE  Attended'
  BY <1>21 DEF Crash
<1>22. ASSUME NEW w \in Workers, NEW r \in Requests, Claim(w, r)
      PROVE  Attended'
  <2>1. CASE state[r] = "QUEUED"
    <3>1. state' = [state EXCEPT ![r] = "STARTING"] /\ job' = [job EXCEPT ![r] = "active"]
      BY <1>22, <2>1 DEF Claim
    <3>2. turn' = [turn EXCEPT ![w] = [at |-> "probing", session |-> r]]
      BY <1>22, <2>1 DEF Claim
    <3>3. lease' = [lease EXCEPT ![r] = [worker |-> w, live |-> TRUE]]
      BY <1>22, <2>1 DEF Claim
    <3>4. UNCHANGED <<finding, remediations, decider, request, baseline, workspace, faults>>
      BY <1>22 DEF Claim
    <3>5. At(w, "free") /\ Waiting(r) /\ UNCHANGED listener
      BY <1>22 DEF Claim
    <3> QED
      BY <2>1, <3>1, <3>2, <3>3, <3>4, <3>5 DEF Waiting
  <2>2. CASE state[r] # "QUEUED"
    BY SMTT(30), <1>22, <2>2 DEF Claim
  <2> QED
    BY <2>1, <2>2
<1>23. ASSUME Edit
      PROVE  Attended'
  BY <1>23 DEF Edit
<1>24. ASSUME UNCHANGED vars
      PROVE  Attended'
  BY <1>24
<1>25. ASSUME NEW r \in Requests, ClaimThrows(r)
      PROVE  Attended'
  BY <1>25 DEF ClaimThrows, Heard, Waiting
<1>26. ASSUME NEW r \in Requests, StallsOut(r)
      PROVE  Attended'
  BY <1>26 DEF StallsOut, Heard
<1>27. ASSUME NEW r \in Requests, ListenerThrows(r)
      PROVE  Attended'
  BY <1>27 DEF ListenerThrows
<1> QED
  BY <1>1, <1>2, <1>3, <1>4, <1>5, <1>6, <1>7, <1>8, <1>9, <1>10, <1>11, <1>12,
     <1>13, <1>14, <1>15, <1>16, <1>17, <1>18, <1>19, <1>20, <1>21, <1>22, <1>23,
     <1>24, <1>25, <1>26, <1>27 DEF Next, Submit, Decide, Work, Listen, Fault

\* Who ends a session releases its lease, and nobody gets one for it afterwards.
LEMMA NextReleased ==
  ASSUME Typed, Released, [Next]_vars
  PROVE  Released'
<1> USE DEF Typed, Released, SetState, Release, Goto, At, Mine, Free, NoLease, vars, sessions, findings, web, queue, States, Stages, Terminal, InProgress
<1>1. ASSUME NEW r \in Requests, Check(r)
      PROVE  Released'
  BY <1>1 DEF Check, Step
<1>2. ASSUME NEW r \in Requests, Create(r)
      PROVE  Released'
  BY <1>2 DEF Create, Step
<1>3. ASSUME NEW r \in Requests, AddJob(r)
      PROVE  Released'
  BY <1>3 DEF AddJob, Step
<1>4. ASSUME NEW r \in Requests, Cancel(r)
      PROVE  Released'
  BY <1>4 DEF Cancel, Waiting
<1>5. ASSUME NEW r \in Requests, Stall(r)
      PROVE  Released'
  BY <1>5 DEF Stall
<1>6. ASSUME NEW r \in Requests, Expire(r)
      PROVE  Released'
  <2>1. \A q \in Requests \ {r} : lease'[q] = lease[q]
    BY <1>6 DEF Expire
  <2>2. lease[r] # NoLease
    BY <1>6 DEF Expire
  <2> QED
    BY <1>6, <2>1, <2>2 DEF Expire
<1>7. ASSUME NEW r \in Requests, Sweep(r)
      PROVE  Released'
  BY <1>7 DEF Sweep
<1>8. ASSUME NEW d \in Deciders, NEW f \in Requests, ReadFinding(d, f)
      PROVE  Released'
  BY <1>8 DEF ReadFinding
<1>9. ASSUME NEW d \in Deciders, Reject(d)
      PROVE  Released'
  BY <1>9 DEF Reject
<1>10. ASSUME NEW d \in Deciders, MakeRemediation(d)
      PROVE  Released'
  BY <1>10 DEF MakeRemediation
<1>11. ASSUME NEW d \in Deciders, Accept(d)
      PROVE  Released'
  BY <1>11 DEF Accept
<1>12. ASSUME NEW w \in Workers, Run(w)
      PROVE  Released'
  BY <1>12 DEF Run
<1>13. ASSUME NEW w \in Workers, ProbeFails(w)
      PROVE  Released'
  <2>1. JobFails(w) /\ At(w, "probing") /\ ~At(w, "free")
    BY <1>13 DEF ProbeFails
  <2>2. turn' = [turn EXCEPT ![w] = Free] /\ EndJob(w)
    BY <2>1 DEF JobFails
  <2>3. state' = state \/ state' = [state EXCEPT ![Mine(w)] = "RUNNING"]
    BY <1>13 DEF ProbeFails
  <2>4. UNCHANGED <<lease, finding, remediations, request, baseline, decider, workspace, faults>>
    BY <1>13 DEF ProbeFails
  <2>5. Mine(w) \in Requests
    BY <2>1
  <2> QED
    BY <2>1, <2>2, <2>3, <2>4, <2>5, EndJobOnly, JobFailsOnly
<1>14. ASSUME NEW r \in Requests, ListenerReads(r) \/ ListenerWrites(r)
      PROVE  Released'
  <2>1. UNCHANGED <<state, lease>>
          \/ (/\ state' = [state EXCEPT ![r] = "FAILED"]
             /\ lease' = [lease EXCEPT ![r] = NoLease])
    BY <1>14 DEF ListenerReads, ListenerWrites
  <2> QED
    BY <2>1
<1>15. ASSUME NEW w \in Workers, ProviderDone(w)
      PROVE  Released'
  BY <1>15 DEF ProviderDone
<1>16. ASSUME NEW w \in Workers, Store(w)
      PROVE  Released'
  BY <1>16 DEF Store
<1>17. ASSUME NEW w \in Workers, Succeed(w)
      PROVE  Released'
  BY <1>17 DEF Succeed
<1>18. ASSUME NEW w \in Workers, Remember(w)
      PROVE  Released'
  BY <1>18, EndJobOnly DEF Remember, EndTurn
<1>19. ASSUME NEW w \in Workers, Throw(w)
      PROVE  Released'
  <2>1. UNCHANGED <<state, lease, finding, remediations, request, baseline, decider, workspace, faults>>
    BY <1>19 DEF Throw
  <2> QED
    BY <2>1
<1>20. ASSUME NEW w \in Workers, Fail(w)
      PROVE  Released'
  <2>1. /\ state' = [state EXCEPT ![Mine(w)] = "FAILED"]
        /\ lease' = [lease EXCEPT ![Mine(w)] = NoLease]
    BY <1>20 DEF Fail
  <2>2. Mine(w) \in Requests
    BY <1>20 DEF Fail
  <2> QED
    BY <2>1, <2>2
<1>21. ASSUME NEW w \in Workers, Crash(w)
      PROVE  Released'
  BY <1>21 DEF Crash
<1>22. ASSUME NEW w \in Workers, NEW r \in Requests, Claim(w, r)
      PROVE  Released'
  BY ZenonT(60), <1>22 DEF Claim
<1>23. ASSUME Edit
      PROVE  Released'
  BY <1>23 DEF Edit
<1>24. ASSUME UNCHANGED vars
      PROVE  Released'
  BY <1>24
<1>25. ASSUME NEW r \in Requests, ClaimThrows(r)
      PROVE  Released'
  BY <1>25 DEF ClaimThrows, Heard, Waiting
<1>26. ASSUME NEW r \in Requests, StallsOut(r)
      PROVE  Released'
  BY <1>26 DEF StallsOut, Heard
<1>27. ASSUME NEW r \in Requests, ListenerThrows(r)
      PROVE  Released'
  BY <1>27 DEF ListenerThrows
<1> QED
  BY <1>1, <1>2, <1>3, <1>4, <1>5, <1>6, <1>7, <1>8, <1>9, <1>10, <1>11, <1>12,
     <1>13, <1>14, <1>15, <1>16, <1>17, <1>18, <1>19, <1>20, <1>21, <1>22, <1>23,
     <1>24, <1>25, <1>26, <1>27 DEF Next, Submit, Decide, Work, Listen, Fault

\* A session gets its finding once, from the worker that claimed it.
LEMMA NextStoredOnce ==
  ASSUME Typed, ClaimedOnce, OneWorkerPerSession, StoredOnce, DecidedFresh, [Next]_vars
  PROVE  StoredOnce'
<1> USE DEF Typed, ClaimedOnce, OneWorkerPerSession, StoredOnce, NoFinding, SetState, Release, Goto, At, Mine, Free, NoLease, vars, sessions, findings, web, queue, States, Stages, Terminal, InProgress
<1>1. ASSUME NEW r \in Requests, Check(r)
      PROVE  StoredOnce'
  BY <1>1 DEF Check, Step
<1>2. ASSUME NEW r \in Requests, Create(r)
      PROVE  StoredOnce'
  BY <1>2 DEF Create, Step
<1>3. ASSUME NEW r \in Requests, AddJob(r)
      PROVE  StoredOnce'
  BY <1>3 DEF AddJob, Step
<1>4. ASSUME NEW r \in Requests, Cancel(r)
      PROVE  StoredOnce'
  BY <1>4 DEF Cancel, Waiting
<1>5. ASSUME NEW r \in Requests, Stall(r)
      PROVE  StoredOnce'
  BY <1>5 DEF Stall
<1>6. ASSUME NEW r \in Requests, Expire(r)
      PROVE  StoredOnce'
  BY <1>6 DEF Expire
<1>7. ASSUME NEW r \in Requests, Sweep(r)
      PROVE  StoredOnce'
  BY <1>7 DEF Sweep
<1>8. ASSUME NEW d \in Deciders, NEW f \in Requests, ReadFinding(d, f)
      PROVE  StoredOnce'
  BY <1>8 DEF ReadFinding
<1>9. ASSUME NEW d \in Deciders, Reject(d)
      PROVE  StoredOnce'
  <2>1. decider[d].finding \in Requests /\ decider[d].at # "idle"
    BY <1>9 DEF Reject
  <2>2. finding' = [finding EXCEPT ![decider[d].finding] =
                        [finding[decider[d].finding] EXCEPT !.status = "REJECTED"]]
    BY <1>9 DEF Reject
  <2> QED
    BY <1>9, <2>1, <2>2, MarkTyped DEF DecidedFresh, Reject
<1>10. ASSUME NEW d \in Deciders, MakeRemediation(d)
      PROVE  StoredOnce'
  BY <1>10 DEF MakeRemediation
<1>11. ASSUME NEW d \in Deciders, Accept(d)
      PROVE  StoredOnce'
  <2>1. decider[d].finding \in Requests /\ decider[d].at # "idle"
    BY <1>11 DEF Accept
  <2>2. finding' = [finding EXCEPT ![decider[d].finding] =
                        [finding[decider[d].finding] EXCEPT !.status = "ACCEPTED"]]
    BY <1>11 DEF Accept
  <2> QED
    BY <1>11, <2>1, <2>2, MarkTyped DEF DecidedFresh, Accept
<1>12. ASSUME NEW w \in Workers, Run(w)
      PROVE  StoredOnce'
  BY <1>12 DEF Run
<1>13. ASSUME NEW w \in Workers, ProbeFails(w)
      PROVE  StoredOnce'
  <2>1. JobFails(w) /\ At(w, "probing") /\ ~At(w, "free")
    BY <1>13 DEF ProbeFails
  <2>2. turn' = [turn EXCEPT ![w] = Free] /\ EndJob(w)
    BY <2>1 DEF JobFails
  <2>3. state' = state \/ state' = [state EXCEPT ![Mine(w)] = "RUNNING"]
    BY <1>13 DEF ProbeFails
  <2>4. UNCHANGED <<lease, finding, remediations, request, baseline, decider, workspace, faults>>
    BY <1>13 DEF ProbeFails
  <2>5. Mine(w) \in Requests
    BY <2>1
  <2> QED
    BY <2>1, <2>2, <2>3, <2>4, <2>5, EndJobOnly, JobFailsOnly
<1>14. ASSUME NEW r \in Requests, ListenerReads(r) \/ ListenerWrites(r)
      PROVE  StoredOnce'
  BY <1>14 DEF ListenerReads, ListenerWrites
<1>15. ASSUME NEW w \in Workers, ProviderDone(w)
      PROVE  StoredOnce'
  <2>1. CASE state[Mine(w)] = "CANCELLED"
    <3>1. turn' = [turn EXCEPT ![w] = Free] /\ UNCHANGED <<state, lease, finding, listener>>
      BY <1>15, <2>1 DEF ProviderDone, EndTurn
    <3>2. EndJob(w) /\ ~At(w, "free")
      BY <1>15, <2>1 DEF ProviderDone, EndTurn
    <3>3. UNCHANGED <<remediations, request, baseline, decider, workspace, faults>>
      BY <1>15, <2>1 DEF ProviderDone
    <3> QED
      BY <3>1, <3>2, <3>3, EndJobOnly
  <2>2. CASE ~(state[Mine(w)] = "CANCELLED")
    <3>1. turn' = [turn EXCEPT ![w] = [at |-> "storing", session |-> Mine(w)]]
      BY <1>15, <2>2, GoneTo DEF ProviderDone
    <3>2. UNCHANGED <<state, lease, finding>>
      BY <1>15, <2>2 DEF ProviderDone
    <3>3. UNCHANGED <<remediations, request, baseline, decider, workspace, faults>>
      BY <1>15, <2>2 DEF ProviderDone
    <3>4. UNCHANGED <<job, listener>>
      BY <1>15, <2>2 DEF ProviderDone
    <3>5. At(w, "running")
      BY <1>15 DEF ProviderDone
    <3> QED
      BY <3>1, <3>2, <3>3, <3>4, <3>5
  <2> QED
    BY <2>1, <2>2
<1>16. ASSUME NEW w \in Workers, Store(w)
      PROVE  StoredOnce'
  <2>1. Mine(w) \in Requests
    BY <1>16 DEF Store
  <2>2. CASE UNCHANGED finding
    BY <1>16, <2>1, <2>2 DEF Store
  <2>3. CASE finding' = [finding EXCEPT ![Mine(w)] =
                             [status |-> "PENDING", seen |-> workspace,
                              stale |-> workspace.digest # baseline[Mine(w)].digest]]
    <3>1. finding'[Mine(w)] = [status |-> "PENDING", seen |-> workspace,
                               stale |-> workspace.digest # baseline[Mine(w)].digest]
      BY <2>1, <2>3
    <3>2. \A r \in Requests : r # Mine(w) => finding'[r] = finding[r]
      BY <2>1, <2>3
    <3>3. turn' = [turn EXCEPT ![w] = [at |-> "succeeding", session |-> Mine(w)]]
      BY <1>16, GoneTo DEF Store
    <3>4. UNCHANGED <<state, baseline, decider>> /\ At(w, "storing")
      BY <1>16 DEF Store
    <3>5. \A r \in Requests :
              state'[r] \in {"none", "QUEUED"} => finding'[r].status = "none"
      <4>1. state[Mine(w)] \notin {"none", "QUEUED"}
        BY <2>1
      <4> QED
        BY SMTT(30), <4>1, <3>2, <3>4
    <3>6. \A v \in Workers : turn'[v].at \in {"probing", "running", "storing"} =>
              finding'[turn'[v].session].status = "none"
      <4> SUFFICES ASSUME NEW v \in Workers,
                          turn'[v].at \in {"probing", "running", "storing"}
                   PROVE  finding'[turn'[v].session].status = "none"
        OBVIOUS
      <4>1. v # w /\ turn'[v] = turn[v]
        BY <3>3
      <4>2. Mine(v) \in Requests
        BY <4>1
      <4>3. Mine(v) # Mine(w)
        BY <4>1, <4>2
      <4>4. finding[Mine(v)].status = "none"
        BY <4>1
      <4> QED
        BY <4>1, <4>2, <4>3, <4>4, <3>2
    <3>7. \A r \in Requests : finding'[r].status # "none" =>
              (finding'[r].stale <=> finding'[r].seen.digest # baseline'[r].digest)
      <4> SUFFICES ASSUME NEW r \in Requests, finding'[r].status # "none"
                   PROVE  finding'[r].stale <=> finding'[r].seen.digest # baseline[r].digest
        BY <3>4
      <4>1. CASE r = Mine(w)
        <5>1. finding'[r].stale = (workspace.digest # baseline[r].digest) /\ finding'[r].seen = workspace
          BY <3>1, <4>1
        <5> QED
          BY <5>1
      <4>2. CASE r # Mine(w)
        BY <3>2, <4>2
      <4> QED
        BY <4>1, <4>2
    <3> QED
      BY <3>5, <3>6, <3>7
  <2> QED
    BY <1>16, <2>2, <2>3 DEF Store
<1>17. ASSUME NEW w \in Workers, Succeed(w)
      PROVE  StoredOnce'
  BY <1>17 DEF Succeed
<1>18. ASSUME NEW w \in Workers, Remember(w)
      PROVE  StoredOnce'
  BY <1>18, EndJobOnly DEF Remember, EndTurn
<1>19. ASSUME NEW w \in Workers, Throw(w)
      PROVE  StoredOnce'
  <2>1. CASE EndTurn(w)
    <3>1. turn' = [turn EXCEPT ![w] = Free] /\ UNCHANGED <<state, lease, finding, listener>>
      BY <1>19, <2>1 DEF Throw, EndTurn
    <3>2. EndJob(w) /\ ~At(w, "free")
      BY <1>19, <2>1 DEF Throw, EndTurn
    <3>3. UNCHANGED <<remediations, request, baseline, decider, workspace, faults>>
      BY <1>19, <2>1 DEF Throw
    <3> QED
      BY <3>1, <3>2, <3>3, EndJobOnly
  <2>2. CASE Goto(w, "failing") /\ UNCHANGED <<job, listener>>
    <3>1. turn' = [turn EXCEPT ![w] = [at |-> "failing", session |-> Mine(w)]]
      BY <1>19, <2>2, GoneTo DEF Throw
    <3>2. UNCHANGED <<state, lease, finding>>
      BY <1>19, <2>2 DEF Throw
    <3>3. UNCHANGED <<remediations, request, baseline, decider, workspace, faults>>
      BY <1>19, <2>2 DEF Throw
    <3>4. UNCHANGED <<job, listener>>
      BY <1>19, <2>2 DEF Throw
    <3>5. ~At(w, "free")
      BY <1>19 DEF Throw
    <3> QED
      BY <3>1, <3>2, <3>3, <3>4, <3>5
  <2>3. CASE JobFails(w)
    <3>1. ~At(w, "free")
      BY <1>19 DEF Throw
    <3>2. turn' = [turn EXCEPT ![w] = Free] /\ EndJob(w)
      BY <2>3 DEF JobFails
    <3>3. UNCHANGED <<state, lease, finding, remediations, request, baseline, decider, workspace, faults>>
      BY <1>19 DEF Throw
    <3> QED
      BY <2>3, <3>1, <3>2, <3>3, EndJobOnly, JobFailsOnly
  <2> QED
    BY <1>19, <2>1, <2>2, <2>3 DEF Throw
<1>20. ASSUME NEW w \in Workers, Fail(w)
      PROVE  StoredOnce'
  BY <1>20, EndJobOnly DEF Fail, EndTurn
<1>21. ASSUME NEW w \in Workers, Crash(w)
      PROVE  StoredOnce'
  BY <1>21 DEF Crash
<1>22. ASSUME NEW w \in Workers, NEW r \in Requests, Claim(w, r)
      PROVE  StoredOnce'
  <2>1. CASE state[r] = "QUEUED"
    <3>1. state' = [state EXCEPT ![r] = "STARTING"] /\ job' = [job EXCEPT ![r] = "active"]
      BY <1>22, <2>1 DEF Claim
    <3>2. turn' = [turn EXCEPT ![w] = [at |-> "probing", session |-> r]]
      BY <1>22, <2>1 DEF Claim
    <3>3. lease' = [lease EXCEPT ![r] = [worker |-> w, live |-> TRUE]]
      BY <1>22, <2>1 DEF Claim
    <3>4. UNCHANGED <<finding, remediations, decider, request, baseline, workspace, faults>>
      BY <1>22 DEF Claim
    <3>5. At(w, "free") /\ Waiting(r) /\ UNCHANGED listener
      BY <1>22 DEF Claim
    <3> QED
      BY <2>1, <3>1, <3>2, <3>3, <3>4, <3>5 DEF Waiting
  <2>2. CASE state[r] # "QUEUED"
    BY <1>22, <2>2 DEF Claim, Waiting
  <2> QED
    BY <2>1, <2>2
<1>23. ASSUME Edit
      PROVE  StoredOnce'
  BY <1>23 DEF Edit
<1>24. ASSUME UNCHANGED vars
      PROVE  StoredOnce'
  BY <1>24
<1>25. ASSUME NEW r \in Requests, ClaimThrows(r)
      PROVE  StoredOnce'
  BY <1>25 DEF ClaimThrows, Heard, Waiting
<1>26. ASSUME NEW r \in Requests, StallsOut(r)
      PROVE  StoredOnce'
  BY <1>26 DEF StallsOut, Heard
<1>27. ASSUME NEW r \in Requests, ListenerThrows(r)
      PROVE  StoredOnce'
  BY <1>27 DEF ListenerThrows
<1> QED
  BY <1>1, <1>2, <1>3, <1>4, <1>5, <1>6, <1>7, <1>8, <1>9, <1>10, <1>11, <1>12,
     <1>13, <1>14, <1>15, <1>16, <1>17, <1>18, <1>19, <1>20, <1>21, <1>22, <1>23,
     <1>24, <1>25, <1>26, <1>27 DEF Next, Submit, Decide, Work, Listen, Fault

\* A finding that was read to be decided is not replaced.
LEMMA NextDecidedFresh ==
  ASSUME Typed, StoredOnce, DecidedFresh, [Next]_vars
  PROVE  DecidedFresh'
<1> USE DEF Typed, StoredOnce, DecidedFresh, SetState, Release, Goto, At, Mine, Free, NoLease, vars, sessions, findings, web, queue, States, Stages, Terminal, InProgress
<1>1. ASSUME NEW r \in Requests, Check(r)
      PROVE  DecidedFresh'
  BY <1>1 DEF Check, Step
<1>2. ASSUME NEW r \in Requests, Create(r)
      PROVE  DecidedFresh'
  BY <1>2 DEF Create, Step
<1>3. ASSUME NEW r \in Requests, AddJob(r)
      PROVE  DecidedFresh'
  BY <1>3 DEF AddJob, Step
<1>4. ASSUME NEW r \in Requests, Cancel(r)
      PROVE  DecidedFresh'
  BY <1>4 DEF Cancel, Waiting
<1>5. ASSUME NEW r \in Requests, Stall(r)
      PROVE  DecidedFresh'
  BY <1>5 DEF Stall
<1>6. ASSUME NEW r \in Requests, Expire(r)
      PROVE  DecidedFresh'
  BY <1>6 DEF Expire
<1>7. ASSUME NEW r \in Requests, Sweep(r)
      PROVE  DecidedFresh'
  BY <1>7 DEF Sweep
<1>8. ASSUME NEW d \in Deciders, NEW f \in Requests, ReadFinding(d, f)
      PROVE  DecidedFresh'
  BY <1>8 DEF ReadFinding
<1>9. ASSUME NEW d \in Deciders, Reject(d)
      PROVE  DecidedFresh'
  BY <1>9 DEF Reject
<1>10. ASSUME NEW d \in Deciders, MakeRemediation(d)
      PROVE  DecidedFresh'
  BY <1>10 DEF MakeRemediation
<1>11. ASSUME NEW d \in Deciders, Accept(d)
      PROVE  DecidedFresh'
  BY <1>11 DEF Accept
<1>12. ASSUME NEW w \in Workers, Run(w)
      PROVE  DecidedFresh'
  BY <1>12 DEF Run
<1>13. ASSUME NEW w \in Workers, ProbeFails(w)
      PROVE  DecidedFresh'
  <2>1. JobFails(w) /\ At(w, "probing") /\ ~At(w, "free")
    BY <1>13 DEF ProbeFails
  <2>2. turn' = [turn EXCEPT ![w] = Free] /\ EndJob(w)
    BY <2>1 DEF JobFails
  <2>3. state' = state \/ state' = [state EXCEPT ![Mine(w)] = "RUNNING"]
    BY <1>13 DEF ProbeFails
  <2>4. UNCHANGED <<lease, finding, remediations, request, baseline, decider, workspace, faults>>
    BY <1>13 DEF ProbeFails
  <2>5. Mine(w) \in Requests
    BY <2>1
  <2> QED
    BY <2>1, <2>2, <2>3, <2>4, <2>5, EndJobOnly, JobFailsOnly
<1>14. ASSUME NEW r \in Requests, ListenerReads(r) \/ ListenerWrites(r)
      PROVE  DecidedFresh'
  BY <1>14 DEF ListenerReads, ListenerWrites
<1>15. ASSUME NEW w \in Workers, ProviderDone(w)
      PROVE  DecidedFresh'
  BY <1>15 DEF ProviderDone
<1>16. ASSUME NEW w \in Workers, Store(w)
      PROVE  DecidedFresh'
  <2>1. Mine(w) \in Requests
    BY <1>16 DEF Store
  <2>2. CASE UNCHANGED finding
    BY <1>16, <2>1, <2>2 DEF Store
  <2>3. CASE finding' = [finding EXCEPT ![Mine(w)] =
                             [status |-> "PENDING", seen |-> workspace,
                              stale |-> workspace.digest # baseline[Mine(w)].digest]]
    <3>1. finding'[Mine(w)] = [status |-> "PENDING", seen |-> workspace,
                               stale |-> workspace.digest # baseline[Mine(w)].digest]
      BY <2>1, <2>3
    <3>2. \A r \in Requests : r # Mine(w) => finding'[r] = finding[r]
      BY <2>1, <2>3
    <3>3. turn' = [turn EXCEPT ![w] = [at |-> "succeeding", session |-> Mine(w)]]
      BY <1>16, GoneTo DEF Store
    <3>4. UNCHANGED <<state, baseline, decider>> /\ At(w, "storing")
      BY <1>16 DEF Store
    <3>5. finding[Mine(w)].status = "none"
      BY <3>4
    <3>6. \A d \in Deciders : decider'[d].at \in {"read", "made"} =>
              finding'[decider'[d].finding].status # "none"
                  /\ ~finding'[decider'[d].finding].stale
      <4> SUFFICES ASSUME NEW d \in Deciders, decider[d].at \in {"read", "made"}
                   PROVE  finding'[decider[d].finding] = finding[decider[d].finding]
        BY <3>4
      <4>1. decider[d].finding \in Requests
        OBVIOUS
      <4>2. decider[d].finding # Mine(w)
        BY <3>5
      <4> QED
        BY <3>2, <4>1, <4>2
    <3>7. \A r \in Requests : finding'[r].status = "ACCEPTED" => ~finding'[r].stale
      <4> SUFFICES ASSUME NEW r \in Requests, finding'[r].status = "ACCEPTED"
                   PROVE  ~finding'[r].stale
        OBVIOUS
      <4>1. r # Mine(w)
        BY <3>1
      <4> QED
        BY <3>2, <4>1
    <3> QED
      BY <3>6, <3>7
  <2> QED
    BY <1>16, <2>2, <2>3 DEF Store
<1>17. ASSUME NEW w \in Workers, Succeed(w)
      PROVE  DecidedFresh'
  BY <1>17 DEF Succeed
<1>18. ASSUME NEW w \in Workers, Remember(w)
      PROVE  DecidedFresh'
  BY <1>18, EndJobOnly DEF Remember, EndTurn
<1>19. ASSUME NEW w \in Workers, Throw(w)
      PROVE  DecidedFresh'
  <2>1. UNCHANGED <<state, lease, finding, remediations, request, baseline, decider, workspace, faults>>
    BY <1>19 DEF Throw
  <2> QED
    BY <2>1
<1>20. ASSUME NEW w \in Workers, Fail(w)
      PROVE  DecidedFresh'
  BY <1>20, EndJobOnly DEF Fail, EndTurn
<1>21. ASSUME NEW w \in Workers, Crash(w)
      PROVE  DecidedFresh'
  BY <1>21 DEF Crash
<1>22. ASSUME NEW w \in Workers, NEW r \in Requests, Claim(w, r)
      PROVE  DecidedFresh'
  BY <1>22 DEF Claim
<1>23. ASSUME Edit
      PROVE  DecidedFresh'
  BY <1>23 DEF Edit
<1>24. ASSUME UNCHANGED vars
      PROVE  DecidedFresh'
  BY <1>24
<1>25. ASSUME NEW r \in Requests, ClaimThrows(r)
      PROVE  DecidedFresh'
  BY <1>25 DEF ClaimThrows, Heard, Waiting
<1>26. ASSUME NEW r \in Requests, StallsOut(r)
      PROVE  DecidedFresh'
  BY <1>26 DEF StallsOut, Heard
<1>27. ASSUME NEW r \in Requests, ListenerThrows(r)
      PROVE  DecidedFresh'
  BY <1>27 DEF ListenerThrows
<1> QED
  BY <1>1, <1>2, <1>3, <1>4, <1>5, <1>6, <1>7, <1>8, <1>9, <1>10, <1>11, <1>12,
     <1>13, <1>14, <1>15, <1>16, <1>17, <1>18, <1>19, <1>20, <1>21, <1>22, <1>23,
     <1>24, <1>25, <1>26, <1>27 DEF Next, Submit, Decide, Work, Listen, Fault

-----------------------------------------------------------------------------
(***************************************************************************)
(* Remediation tasks.                                                      *)
(***************************************************************************)

\* The decisions on a finding are no more than there are decisions.
LEMMA DecisionsFinite ==
  ASSUME NEW f
  PROVE  /\ IsFiniteSet(DecisionsOn(f)) /\ Cardinality(DecisionsOn(f)) \in Nat
         /\ Cardinality(DecisionsOn(f)) <= Cardinality(Deciders)
<1>1. DecisionsOn(f) \subseteq Deciders
  BY DEF DecisionsOn
<1> QED
  BY <1>1, FS_Subset, FS_CardinalityType

\* A decision that is made counts from then on.
LEMMA DecisionsGrow ==
  ASSUME NEW f, NEW d \in Deciders,
         DecisionsOn(f)' = DecisionsOn(f) \cup {d}, d \notin DecisionsOn(f)
  PROVE  Cardinality(DecisionsOn(f)') = Cardinality(DecisionsOn(f)) + 1
BY DecisionsFinite, FS_AddElement

\* A remediation task is made by a decision that made none before.
LEMMA NextCounted ==
  ASSUME Typed, Counted, [Next]_vars
  PROVE  Counted'
<1> USE DEF Typed, Counted, vars, findings
<1>1. ASSUME NEW d \in Deciders, Reject(d)
      PROVE  Counted'
  <2>0. PICK g \in Requests : g = decider[d].finding
    BY <1>1 DEF Reject
  <2>1. /\ UNCHANGED remediations /\ decider[d].at = "read"
        /\ decider'[d] = [at |-> "done", finding |-> g]
        /\ \A e \in Deciders \ {d} : decider'[e] = decider[e]
    BY <1>1, DecisionTyped, <2>0 DEF Reject
  <2>2. DecisionsOn(g)' = DecisionsOn(g) \cup {d} /\ d \notin DecisionsOn(g)
    BY <2>0, <2>1 DEF DecisionsOn
  <2>3. ASSUME NEW f \in Requests \ {g}
        PROVE  DecisionsOn(f)' = DecisionsOn(f)
    <3>1. \A e \in Deciders : e \in DecisionsOn(f)' <=> e \in DecisionsOn(f)
      BY SMTT(30), <2>0, <2>1 DEF DecisionsOn
    <3> QED
      BY <3>1 DEF DecisionsOn
  <2>4. Cardinality(DecisionsOn(g)') = Cardinality(DecisionsOn(g)) + 1
    BY <2>2, DecisionsGrow
  <2>5. \A f \in Requests : remediations[f] \in Nat /\ Cardinality(DecisionsOn(f)) \in Nat
    BY DecisionsFinite
  <2> QED
    BY SMTT(30), <2>1, <2>3, <2>4, <2>5
<1>2. ASSUME NEW d \in Deciders, MakeRemediation(d)
      PROVE  Counted'
  <2>0. PICK g \in Requests : g = decider[d].finding
    BY <1>2 DEF MakeRemediation
  <2>1. /\ decider[d].at = "read"
        /\ remediations' = [remediations EXCEPT ![g] = remediations[g] + 1]
        /\ decider'[d] = [at |-> "made", finding |-> g]
        /\ \A e \in Deciders \ {d} : decider'[e] = decider[e]
    BY <1>2, DecisionTyped, <2>0 DEF MakeRemediation
  <2>2. DecisionsOn(g)' = DecisionsOn(g) \cup {d} /\ d \notin DecisionsOn(g)
    BY <2>0, <2>1 DEF DecisionsOn
  <2>3. ASSUME NEW f \in Requests \ {g}
        PROVE  DecisionsOn(f)' = DecisionsOn(f)
    <3>1. \A e \in Deciders : e \in DecisionsOn(f)' <=> e \in DecisionsOn(f)
      BY <2>0, <2>1 DEF DecisionsOn
    <3> QED
      BY <3>1 DEF DecisionsOn
  <2>4. Cardinality(DecisionsOn(g)') = Cardinality(DecisionsOn(g)) + 1
    BY <2>2, DecisionsGrow
  <2>5. \A f \in Requests : remediations[f] \in Nat /\ Cardinality(DecisionsOn(f)) \in Nat
    BY DecisionsFinite
  <2> QED
    BY <2>1, <2>3, <2>4, <2>5
<1>3. ASSUME NEW d \in Deciders, Accept(d)
      PROVE  Counted'
  <2>1. /\ UNCHANGED remediations /\ decider[d].at = "made"
        /\ decider'[d] = [at |-> "done", finding |-> decider[d].finding]
        /\ \A e \in Deciders \ {d} : decider'[e] = decider[e]
    BY <1>3, DecisionTyped DEF Accept
  <2>2. ASSUME NEW f \in Requests
        PROVE  DecisionsOn(f)' = DecisionsOn(f)
    <3>1. d \in DecisionsOn(f)' <=> d \in DecisionsOn(f)
      BY <2>1 DEF DecisionsOn
    <3>2. \A e \in Deciders \ {d} : e \in DecisionsOn(f)' <=> e \in DecisionsOn(f)
      BY <2>1 DEF DecisionsOn
    <3> QED
      BY <3>1, <3>2 DEF DecisionsOn
  <2> QED
    BY <2>1, <2>2
<1>4. ASSUME NEW d \in Deciders, NEW r \in Requests, ReadFinding(d, r)
      PROVE  Counted'
  <2>1. /\ UNCHANGED remediations /\ decider[d].at = "idle"
        /\ decider'[d] = [at |-> "read", finding |-> r]
        /\ \A e \in Deciders \ {d} : decider'[e] = decider[e]
    BY <1>4 DEF ReadFinding
  <2>2. ASSUME NEW f \in Requests
        PROVE  DecisionsOn(f)' = DecisionsOn(f)
    <3>1. \A e \in Deciders : e \in DecisionsOn(f)' <=> e \in DecisionsOn(f)
      BY SMTT(30), <2>1 DEF DecisionsOn
    <3> QED
      BY <3>1 DEF DecisionsOn
  <2> QED
    BY <2>1, <2>2
<1>5. ASSUME UNCHANGED <<remediations, decider>>
      PROVE  Counted'
  BY <1>5 DEF DecisionsOn
<1>6. ASSUME NEW r \in Requests, Submit(r) \/ Cancel(r) \/ Listen(r) \/ Fault(r) \/ Expire(r) \/ Sweep(r)
      PROVE  UNCHANGED <<remediations, decider>>
  BY <1>6 DEF Submit, Check, Create, AddJob, Cancel, Listen, ListenerReads, ListenerWrites, Fault,
              ClaimThrows, Stall, StallsOut, ListenerThrows, Expire, Sweep
<1>7. ASSUME NEW w \in Workers, Work(w) \/ Crash(w) \/ \E r \in Requests : Claim(w, r)
      PROVE  UNCHANGED <<remediations, decider>>
  BY <1>7 DEF Work, Run, ProbeFails, ProviderDone, Store, Succeed, Remember,
              Throw, Fail, Crash, Claim
<1>8. Edit => UNCHANGED <<remediations, decider>>
  BY DEF Edit
<1> QED
  BY <1>1, <1>2, <1>3, <1>4, <1>5, <1>6, <1>7, <1>8 DEF Next, Decide

-----------------------------------------------------------------------------
(***************************************************************************)
(* The invariant, and what follows from it.                                *)
(***************************************************************************)

\* No session has been requested in the beginning.
LEMMA InitInv == Init => Inv
<1> SUFFICES ASSUME Init PROVE Inv
  OBVIOUS
<1> USE DEF Init, Free, NoLease, NoFinding, Empty, Workspace, At, Mine
<1>1. Typed
  BY DEF Typed, States, Stages
<1>2. Attended /\ Released /\ ClaimedOnce /\ OneWorkerPerSession
  BY DEF Attended, Released, ClaimedOnce, OneWorkerPerSession
<1>3. StoredOnce /\ DecidedFresh
  BY DEF StoredOnce, DecidedFresh
<1>4. Counted
  BY DecisionsFinite DEF Counted
<1> QED
  BY <1>1, <1>2, <1>3, <1>4 DEF Inv

\* Every step keeps the invariant.
LEMMA NextInv == Inv /\ [Next]_vars => Inv'
BY NextTyped, NextAttended, NextReleased, NextClaimedOnce, NextStoredOnce, NextDecidedFresh,
   NextCounted DEF Inv

\* Each behaviour of the task keeps the invariant: a session is QUEUED once, so that
\* it has one worker, which stores one finding.
THEOREM InvCorrect == Spec => []Inv
BY InitInv, NextInv, PTL DEF Spec

\* The types hold; a job that is active has a worker, a session that ended by itself has
\* no lease, and a finding has no more remediation tasks than decisions.
THEOREM TypeCorrect == Spec => []TypeOK
<1>1. Inv => TypeOK
  <2> SUFFICES ASSUME Inv PROVE TypeOK
    OBVIOUS
  <2>1. remediations \in [Requests -> 0 .. Cardinality(Deciders)]
    BY DecisionsFinite, FS_CardinalityType DEF Inv, Typed, Counted
  <2> QED
    BY <2>1 DEF Inv, Typed, Attended, Released, TypeOK, States, Stages
<1> QED
  BY <1>1, InvCorrect, PTL

\* A job that is delivered again runs its session no second time, however often workers
\* crash and stall: the claim of a session needs it QUEUED.
THEOREM OneWorkerCorrect == Spec => []OneWorkerPerSession
BY InvCorrect, PTL DEF Inv

\* An accepted finding was stored when the workspace had the digest it had at the request
\* of its review, whenever the workspace is edited and whoever else decides the finding.
THEOREM AcceptedCorrect == Spec => []AcceptedIsFresh
<1>1. Inv => AcceptedIsFresh
  BY DEF Inv, Typed, StoredOnce, DecidedFresh, AcceptedIsFresh
<1> QED
  BY <1>1, InvCorrect, PTL
=============================================================================
