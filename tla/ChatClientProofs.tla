-------------------------- MODULE ChatClientProofs --------------------------
(***************************************************************************)
(* Proofs that the page shows the status of the execution it says it       *)
(* shows, for any number of executions, of polls in flight and of lost     *)
(* answers, as long as the user waits for a send or retry to be answered.  *)
(***************************************************************************)
EXTENDS ChatClient, WellFoundedInduction, SequenceTheorems, TLAPS

USE ChatAssumption

\* What was created, is to be cancelled or is polled is an execution.
Answers ==
    /\ \A k \in Creating : calls[k].at = "created" => calls[k].id \in DOMAIN server
    /\ calls["cancel"].at \in {"idle", "asked", "answered"}
    /\ calls["cancel"].at # "idle" => calls["cancel"].id \in DOMAIN server
    /\ \A s \in Slots : polls[s].at # "idle" => polls[s].id \in DOMAIN server

\* One send or retry is in flight.
OneCreation ==
    \A j, k \in Creating : calls[j].at # "idle" /\ calls[k].at # "idle" => j = k

\* While it is, no execution is shown.
CreatedUnseen ==
    \A k \in Creating : calls[k].at # "idle" => view.id = Nobody /\ pending.id = Nobody

\* What is rendered lags behind the state by an execution that appears or disappears,
\* and never by a replaced one.
OneShown == pending.id = Nobody \/ view.id = Nobody \/ pending.id = view.id

Inv == TypeOK /\ Answers
Shows == OneCreation /\ CreatedUnseen /\ OneShown /\ ShownBelongs

-----------------------------------------------------------------------------
(***************************************************************************)
(* Executions.                                                             *)
(***************************************************************************)

\* A set of numbers that is not empty has a least element.
LEMMA LeastExists ==
  ASSUME NEW T, T \subseteq Nat, T # {}
  PROVE  \E x \in T : \A y \in T : x <= y
<1>1. PICK x \in T : \A y \in T : ~ (<<y, x>> \in OpToRel(<, Nat))
  BY WFMin, NatLessThanWellFounded
<1>2. ASSUME NEW y \in T, y < x
      PROVE  FALSE
  <2>1. <<y, x>> \in OpToRel(<, Nat)
    BY <1>2 DEF OpToRel
  <2> QED
    BY <1>1, <2>1
<1> QED
  BY <1>2

\* The newest execution that has not ended is an execution.
LEMMA NewestExists ==
  ASSUME server \in Seq(Reports)
  PROVE  NewestActive \in DOMAIN server \cup {Nobody}
<1>1. Len(server) \in Nat /\ DOMAIN server = 1 .. Len(server)
  BY LenProperties
<1>2. CASE Active = {}
  BY <1>2 DEF NewestActive
<1>3. CASE Active # {}
  <2> DEFINE T == {Len(server) - e : e \in Active}
  <2>1. Active \subseteq 1 .. Len(server)
    BY <1>1 DEF Active
  <2>2. T \subseteq Nat /\ T # {}
    <3>1. \A e \in Active : Len(server) - e \in Nat
      BY <1>1, <2>1
    <3> QED
      BY <1>3, <3>1
  <2>3. PICK x \in T : \A y \in T : x <= y
    BY <2>2, LeastExists
  <2>4. PICK e \in Active : x = Len(server) - e
    BY <2>3
  <2>5. ASSUME NEW f \in Active
        PROVE  f <= e
    <3>1. Len(server) - e <= Len(server) - f
      BY <2>3, <2>4
    <3>2. e \in Nat /\ f \in Nat
      BY <1>1, <2>1
    <3> QED
      BY <1>1, <3>1, <3>2
  <2> QED
    BY <1>3, <2>4, <2>5 DEF NewestActive, Active
<1> QED
  BY <1>2, <1>3

\* The executions are those of before and perhaps one more.
LEMMA ServerGrows ==
  ASSUME server \in Seq(Reports), Len(server) <= MaxExecutions,
         Len(server) < MaxExecutions, server' = Append(server, "QUEUED")
  PROVE  /\ server' \in Seq(Reports) /\ Len(server') <= MaxExecutions
         /\ DOMAIN server' = DOMAIN server \cup {Len(server) + 1}
<1>1. Len(server) \in Nat /\ DOMAIN server = 1 .. Len(server)
  BY LenProperties
<1>2. server' \in Seq(Reports) /\ Len(server') = Len(server) + 1
  BY AppendProperties DEF Reports
<1>3. DOMAIN server' = 1 .. Len(server')
  BY <1>2, LenProperties
<1> QED
  BY <1>1, <1>2, <1>3

\* An execution that goes on keeps the others.
LEMMA ServerKeeps ==
  ASSUME server \in Seq(Reports), Len(server) <= MaxExecutions,
         NEW e \in DOMAIN server, NEW s \in Reports, server' = [server EXCEPT ![e] = s]
  PROVE  /\ server' \in Seq(Reports) /\ Len(server') <= MaxExecutions
         /\ DOMAIN server' = DOMAIN server
<1>1. Len(server) \in Nat /\ DOMAIN server = 1 .. Len(server)
  BY LenProperties
<1>2. server' \in Seq(Reports) /\ Len(server') = Len(server)
  BY <1>1, ExceptSeq
<1> QED
  BY <1>1, <1>2

-----------------------------------------------------------------------------
(***************************************************************************)
(* Each part of the invariants is kept.                                    *)
(***************************************************************************)

\* Every step keeps the types.
LEMMA NextTyped ==
  ASSUME Inv, [Next]_vars
  PROVE  TypeOK'
<1> USE DEF Inv, TypeOK, Answers, Put, Idle, Asked, Nobody, Kinds, Creating, UnchangedClient, client, vars
<1>1. ASSUME Submit
      PROVE  TypeOK'
  BY <1>1 DEF Submit
<1>2. ASSUME CancelExecution
      PROVE  TypeOK'
  BY <1>2 DEF CancelExecution
<1>3. ASSUME Reload
      PROVE  TypeOK'
  <2>1. NewestActive \in DOMAIN server \cup {Nobody}
    BY NewestExists
  <2>2. pending' \in [id : DOMAIN server \cup {Nobody}, status : Reports \ {"ENDED"},
                     of : DOMAIN server \cup {Nobody}]
    BY <1>3, <2>1 DEF Reload, Shown, Just, NotPending, Reports
  <2>3. view' \in [id : DOMAIN server \cup {Nobody}, submitting : BOOLEAN]
    BY <1>3, <2>1 DEF Reload
  <2> QED
    BY <1>3, <2>2, <2>3 DEF Reload
<1>4. ASSUME ServeCancel
      PROVE  TypeOK'
  <2> DEFINE e == calls["cancel"].id
  <2>1. e \in DOMAIN server
    BY <1>4 DEF ServeCancel
  <2>2. server' \in Seq(Reports) /\ Len(server') <= MaxExecutions /\ DOMAIN server' = DOMAIN server
    BY <1>4, <2>1, ServerKeeps DEF ServeCancel, Reports
  <2> QED
    BY <1>4, <2>1, <2>2 DEF ServeCancel
<1>5. ASSUME Cancelled
      PROVE  TypeOK'
  BY <1>5 DEF Cancelled, NotPending, Reports
<1>6. ASSUME Commit
      PROVE  TypeOK'
  BY <1>6 DEF Commit
<1>7. ASSUME NEW e \in DOMAIN server, Retry(e)
      PROVE  TypeOK'
  BY <1>7 DEF Retry
<1>8. ASSUME NEW e \in DOMAIN server, Run(e)
      PROVE  TypeOK'
  <2>1. server' \in Seq(Reports) /\ Len(server') <= MaxExecutions /\ DOMAIN server' = DOMAIN server
    BY <1>8, ServerKeeps DEF Run, Reports
  <2> QED
    BY <1>8, <2>1 DEF Run
<1>9. ASSUME NEW e \in DOMAIN server, Finish(e)
      PROVE  TypeOK'
  <2>1. server' \in Seq(Reports) /\ Len(server') <= MaxExecutions /\ DOMAIN server' = DOMAIN server
    BY <1>9, ServerKeeps DEF Finish, Reports
  <2> QED
    BY <1>9, <2>1 DEF Finish
<1>10. ASSUME NEW k \in Kinds, ServeCreation(k)
      PROVE  TypeOK'
  <2>1. CASE Len(server) < MaxExecutions /\ server' = Append(server, "QUEUED")
             /\ Put(k, [at |-> "created", id |-> Len(server) + 1])
    <3>1. /\ server' \in Seq(Reports) /\ Len(server') <= MaxExecutions
          /\ DOMAIN server' = DOMAIN server \cup {Len(server) + 1}
      BY <2>1, ServerGrows
    <3>2. UNCHANGED <<pending, submitting, view, polls, faults>>
      BY <1>10 DEF ServeCreation
    <3>3. calls' \in [Kinds -> [at : {"idle", "asked", "created", "refused", "answered"},
                               id : DOMAIN server' \cup {Nobody}]]
      BY <2>1, <3>1
    <3>4. /\ pending \in [id : DOMAIN server' \cup {Nobody}, status : Reports \ {"ENDED"},
                          of : DOMAIN server' \cup {Nobody}]
          /\ view \in [id : DOMAIN server' \cup {Nobody}, submitting : BOOLEAN]
          /\ polls \in [Slots -> [at : {"idle", "asked"} \cup Reports,
                                  id : DOMAIN server' \cup {Nobody}]]
      BY <3>1
    <3> QED
      BY <3>1, <3>2, <3>3, <3>4
  <2>2. CASE UNCHANGED server /\ Put(k, [at |-> "refused", id |-> Nobody])
    BY <1>10, <2>2 DEF ServeCreation
  <2> QED
    BY <1>10, <2>1, <2>2 DEF ServeCreation
<1>11. ASSUME NEW k \in Kinds, Created(k)
      PROVE  TypeOK'
  <2>1. calls[k].id \in DOMAIN server
    BY <1>11 DEF Created
  <2>2. pending' \in [id : DOMAIN server \cup {Nobody}, status : Reports \ {"ENDED"},
                     of : DOMAIN server \cup {Nobody}]
    BY <1>11, <2>1 DEF Created, Just, Reports
  <2> QED
    BY <1>11, <2>2 DEF Created
<1>12. ASSUME NEW k \in Kinds, Rejected(k)
      PROVE  TypeOK'
  BY <1>12 DEF Rejected
<1>13. ASSUME NEW k \in Kinds, CallLost(k)
      PROVE  TypeOK'
  BY <1>13 DEF CallLost
<1>14. ASSUME NEW s \in Slots, Poll(s)
      PROVE  TypeOK'
  BY <1>14 DEF Poll
<1>15. ASSUME NEW s \in Slots, ServePoll(s)
      PROVE  TypeOK'
  BY <1>15 DEF ServePoll
<1>16. ASSUME NEW s \in Slots, Report(s)
      PROVE  TypeOK'
  <2> DEFINE p == polls[s]
  <2>1. p.at \in Reports /\ p.id \in DOMAIN server
    BY <1>16 DEF Report, Reports
  <2>2. Written(p) = [id |-> pending.id, status |-> p.at, of |-> p.id]
    BY DEF Written
  <2>3. pending' \in {pending, NotPending} \/
        (p.at # "ENDED" /\ pending' = [id |-> pending.id, status |-> p.at, of |-> p.id])
    BY <1>16, <2>2 DEF Report, Ended
  <2>4. pending' \in [id : DOMAIN server \cup {Nobody}, status : Reports \ {"ENDED"},
                     of : DOMAIN server \cup {Nobody}]
    BY <2>1, <2>3 DEF NotPending, Reports
  <2> QED
    BY <1>16, <2>4 DEF Report
<1>17. ASSUME NEW s \in Slots, PollLost(s)
      PROVE  TypeOK'
  BY <1>17 DEF PollLost
<1>18. ASSUME UNCHANGED vars
      PROVE  TypeOK'
  BY <1>18
<1> QED
  BY <1>1, <1>2, <1>3, <1>4, <1>5, <1>6, <1>7, <1>8, <1>9, <1>10, <1>11, <1>12,
     <1>13, <1>14, <1>15, <1>16, <1>17, <1>18 DEF Next, Call, Polling

\* What is asked and answered is about executions, which are never removed.
LEMMA NextAnswers ==
  ASSUME Inv, [Next]_vars
  PROVE  Answers'
<1> USE DEF Inv, TypeOK, Answers, Put, Idle, Asked, Nobody, Kinds, Creating, UnchangedClient, client, vars
<1>1. ASSUME Submit
      PROVE  Answers'
  BY <1>1 DEF Submit
<1>2. ASSUME CancelExecution
      PROVE  Answers'
  BY <1>2 DEF CancelExecution
<1>3. ASSUME Reload
      PROVE  Answers'
  BY <1>3 DEF Reload
<1>4. ASSUME ServeCancel
      PROVE  Answers'
  BY <1>4 DEF ServeCancel
<1>5. ASSUME Cancelled
      PROVE  Answers'
  BY <1>5 DEF Cancelled
<1>6. ASSUME Commit
      PROVE  Answers'
  BY <1>6 DEF Commit
<1>7. ASSUME NEW e \in DOMAIN server, Retry(e)
      PROVE  Answers'
  BY <1>7 DEF Retry
<1>8. ASSUME NEW e \in DOMAIN server, Run(e)
      PROVE  Answers'
  BY <1>8 DEF Run
<1>9. ASSUME NEW e \in DOMAIN server, Finish(e)
      PROVE  Answers'
  BY <1>9 DEF Finish
<1>10. ASSUME NEW k \in Kinds, ServeCreation(k)
      PROVE  Answers'
  BY SMTT(30), <1>10 DEF ServeCreation
<1>11. ASSUME NEW k \in Kinds, Created(k)
      PROVE  Answers'
  BY <1>11 DEF Created
<1>12. ASSUME NEW k \in Kinds, Rejected(k)
      PROVE  Answers'
  BY <1>12 DEF Rejected
<1>13. ASSUME NEW k \in Kinds, CallLost(k)
      PROVE  Answers'
  BY <1>13 DEF CallLost
<1>14. ASSUME NEW s \in Slots, Poll(s)
      PROVE  Answers'
  <2>1. view.id \in DOMAIN server
    BY <1>14 DEF Poll, Polled
  <2>2. \A t \in Slots : polls'[t] = IF t = s THEN [at |-> "asked", id |-> view.id] ELSE polls[t]
    BY <1>14 DEF Poll
  <2> QED
    BY <1>14, <2>1, <2>2 DEF Poll
<1>15. ASSUME NEW s \in Slots, ServePoll(s)
      PROVE  Answers'
  BY <1>15 DEF ServePoll
<1>16. ASSUME NEW s \in Slots, Report(s)
      PROVE  Answers'
  BY <1>16 DEF Report
<1>17. ASSUME NEW s \in Slots, PollLost(s)
      PROVE  Answers'
  BY <1>17 DEF PollLost
<1>18. ASSUME UNCHANGED vars
      PROVE  Answers'
  BY <1>18
<1> QED
  BY <1>1, <1>2, <1>3, <1>4, <1>5, <1>6, <1>7, <1>8, <1>9, <1>10, <1>11, <1>12,
     <1>13, <1>14, <1>15, <1>16, <1>17, <1>18 DEF Next, Call, Polling

\* If sends and retries do not overlap, a poll that is not cancelled is one of the execution shown.
LEMMA NextShows ==
  ASSUME ~Overlapping, Inv, Shows, [Next]_vars
  PROVE  Shows'
<1> USE DEF Inv, TypeOK, Answers, Shows, OneCreation, CreatedUnseen, OneShown, ShownBelongs, Alone, Rendered, Put, Idle, Asked, Nobody, Kinds, Creating, UnchangedClient, client, vars
<1>1. ASSUME Submit
      PROVE  Shows'
  BY <1>1 DEF Submit
<1>2. ASSUME CancelExecution
      PROVE  Shows'
  BY <1>2 DEF CancelExecution
<1>3. ASSUME Reload
      PROVE  Shows'
  <2>1. pending'.id = NewestActive /\ pending'.of = NewestActive
    BY <1>3 DEF Reload, Shown, Just, NotPending
  <2>2. \A k \in Creating : calls'[k].at = "idle"
    BY <1>3 DEF Reload
  <2> QED
    BY <1>3, <2>1, <2>2 DEF Reload
<1>4. ASSUME ServeCancel
      PROVE  Shows'
  BY <1>4 DEF ServeCancel
<1>5. ASSUME Cancelled
      PROVE  Shows'
  BY <1>5 DEF Cancelled, NotPending
<1>6. ASSUME Commit
      PROVE  Shows'
  BY <1>6 DEF Commit
<1>7. ASSUME NEW e \in DOMAIN server, Retry(e)
      PROVE  Shows'
  BY <1>7 DEF Retry
<1>8. ASSUME NEW e \in DOMAIN server, Run(e)
      PROVE  Shows'
  BY <1>8 DEF Run
<1>9. ASSUME NEW e \in DOMAIN server, Finish(e)
      PROVE  Shows'
  BY <1>9 DEF Finish
<1>10. ASSUME NEW k \in Kinds, ServeCreation(k)
      PROVE  Shows'
  BY SMTT(30), <1>10 DEF ServeCreation
<1>11. ASSUME NEW k \in Kinds, Created(k)
      PROVE  Shows'
  <2>1. \A j \in Creating : calls'[j].at = "idle"
    BY <1>11 DEF Created
  <2>2. view'.id = Nobody /\ pending' = Just(calls[k].id)
    BY <1>11 DEF Created
  <2> QED
    BY <2>1, <2>2 DEF Just
<1>12. ASSUME NEW k \in Kinds, Rejected(k)
      PROVE  Shows'
  BY <1>12 DEF Rejected
<1>13. ASSUME NEW k \in Kinds, CallLost(k)
      PROVE  Shows'
  BY <1>13 DEF CallLost
<1>14. ASSUME NEW s \in Slots, Poll(s)
      PROVE  Shows'
  BY <1>14 DEF Poll
<1>15. ASSUME NEW s \in Slots, ServePoll(s)
      PROVE  Shows'
  BY <1>15 DEF ServePoll
<1>16. ASSUME NEW s \in Slots, Report(s)
      PROVE  Shows'
  <2> DEFINE p == polls[s]
  <2>1. p.id \in DOMAIN server
    BY <1>16 DEF Report, Reports
  <2>2. p.id # Nobody
    BY <2>1, LenProperties
  <2>3. Written(p) = [id |-> pending.id, status |-> p.at, of |-> p.id]
    BY DEF Written
  <2>4. \/ pending' \in {pending, NotPending}
        \/ /\ p.id = view.id /\ pending.id # Nobody
           /\ pending' = [id |-> pending.id, status |-> p.at, of |-> p.id]
    BY <1>16, <2>3 DEF Report, Ended, Current
  <2>5. UNCHANGED <<view, calls>>
    BY <1>16 DEF Report
  <2> QED
    BY <2>2, <2>4, <2>5 DEF NotPending
<1>17. ASSUME NEW s \in Slots, PollLost(s)
      PROVE  Shows'
  BY <1>17 DEF PollLost
<1>18. ASSUME UNCHANGED vars
      PROVE  Shows'
  BY <1>18
<1> QED
  BY <1>1, <1>2, <1>3, <1>4, <1>5, <1>6, <1>7, <1>8, <1>9, <1>10, <1>11, <1>12,
     <1>13, <1>14, <1>15, <1>16, <1>17, <1>18 DEF Next, Call, Polling

-----------------------------------------------------------------------------
(***************************************************************************)
(* The theorems.                                                           *)
(***************************************************************************)

\* The page starts empty.
LEMMA InitInv == Init => Inv /\ Shows
<1> SUFFICES ASSUME Init PROVE Inv /\ Shows
  OBVIOUS
<1> USE DEF Init, Idle, NotPending, Nobody, Kinds, Creating, Reports
<1>1. server \in Seq(Reports) /\ Len(server) = 0
  BY EmptySeq
<1>2. TypeOK
  <2>1. pending \in [id : DOMAIN server \cup {Nobody}, status : Reports \ {"ENDED"},
                    of : DOMAIN server \cup {Nobody}]
    OBVIOUS
  <2>2. view \in [id : DOMAIN server \cup {Nobody}, submitting : BOOLEAN]
    OBVIOUS
  <2>3. polls \in [Slots -> [at : {"idle", "asked"} \cup Reports,
                            id : DOMAIN server \cup {Nobody}]]
    OBVIOUS
  <2>4. calls \in [Kinds -> [at : {"idle", "asked", "created", "refused", "answered"},
                            id : DOMAIN server \cup {Nobody}]]
    <3>1. Idle \in [at : {"idle", "asked", "created", "refused", "answered"},
                   id : DOMAIN server \cup {Nobody}]
      OBVIOUS
    <3>2. calls = [k \in Kinds |-> Idle]
      OBVIOUS
    <3> HIDE DEF Idle, Init, Kinds
    <3> QED
      BY <3>1, <3>2
  <2>5. submitting \in BOOLEAN
    OBVIOUS
  <2>6. faults \in 0 .. MaxFaults
    BY ChatAssumption
  <2> HIDE DEF Init
  <2> QED
    BY <1>1, <2>1, <2>2, <2>3, <2>4, <2>5, <2>6 DEF TypeOK
<1>3. Answers
  BY DEF Answers
<1>4. Shows
  BY DEF Shows, OneCreation, CreatedUnseen, OneShown, ShownBelongs
<1> QED
  BY <1>2, <1>3, <1>4 DEF Inv

\* The types hold and every answer is about an execution, however the user clicks.
THEOREM InvCorrect == Spec => []Inv
<1>1. Init => Inv
  BY InitInv
<1>2. Inv /\ [Next]_vars => Inv'
  BY NextTyped, NextAnswers DEF Inv
<1> QED
  BY <1>1, <1>2, PTL DEF Spec

\* The state of the page has its types, also when it is loaded anew and starts from the
\* newest execution that has not ended.
THEOREM TypeCorrect == Spec => []TypeOK
BY InvCorrect, PTL DEF Inv

\* A user who waits for each send and retry never sees the status of one execution
\* under another, however many polls overlap, are late or are lost.
THEOREM ShownCorrect ==
  ASSUME ~Overlapping
  PROVE  Spec => []ShownBelongs
<1>1. Init => Inv /\ Shows
  BY InitInv
<1>2. Inv /\ Shows /\ [Next]_vars => Inv' /\ Shows'
  BY NextTyped, NextAnswers, NextShows DEF Inv
<1>3. Shows => ShownBelongs
  BY DEF Shows
<1> QED
  BY <1>1, <1>2, <1>3, PTL DEF Spec
=============================================================================
