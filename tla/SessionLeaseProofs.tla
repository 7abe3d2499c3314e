------------------------- MODULE SessionLeaseProofs -------------------------
(***************************************************************************)
(* Theorems of SessionLease for every set of workers and sessions and every *)
(* number of faults.  The invariant Inv is proved in layers: Typed, then    *)
(* Claimed, then AnswerIffSucceeded, Processes and ProcessAttended, each    *)
(* from the ones before it.  Every layer is one lemma about Next with one   *)
(* step per action.  From Inv it follows that the rows of SessionLease      *)
(* implement the abstract Execution.                                        *)
(***************************************************************************)
EXTENDS SessionLease, TLAPS

USE NullsAssumption, FaultsAssumption

-----------------------------------------------------------------------------
(***************************************************************************)
(* Types.                                                                  *)
(***************************************************************************)
OutcomeOK ==
    /\ state \in [Sessions -> States]
    /\ owner \in [Sessions -> Workers \cup {NoWorker}]
    /\ lease \in [Sessions -> {"none", "live", "expired"}]

ProcessesOK ==
    /\ alive \in [Sessions -> SUBSET Turns]
    /\ faults \in 0 .. MaxFaults

SweepOK ==
    /\ cand \in [Workers -> SUBSET Sessions]
    /\ snap \in [Workers -> [Sessions -> 0 .. 2]]
    /\ sweep \in [Workers -> {"idle", "next", "reclaimed", "killed", "marked"}]
    /\ target \in [Workers -> Sessions \cup {NoSession}]
    /\ \A w \in Workers :
          sweep[w] \in {"reclaimed", "killed", "marked"} => target[w] # NoSession

\* Ending a row keeps the types of its state, owner and lease.
LEMMA EndType ==
  ASSUME TypeOK, NEW s \in Sessions, NEW st \in States, End(s, st)
  PROVE  OutcomeOK'
BY DEF OutcomeOK, TypeOK, End, States

\* So does leaving them alone.
LEMMA UnchangedType ==
  ASSUME TypeOK, UnchangedOutcome
  PROVE  OutcomeOK'
BY DEF OutcomeOK, TypeOK, UnchangedOutcome

\* A kill, effective or not, keeps the types of the processes and of faults.
LEMMA KillType ==
  ASSUME TypeOK, NEW s \in Sessions, NEW K, Kill(s, K)
  PROVE  ProcessesOK'
<1>1. CASE KillWorks(s, K)
  BY <1>1 DEF ProcessesOK, TypeOK, KillWorks
<1>2. CASE KillFails(s, K)
  BY <1>2 DEF ProcessesOK, TypeOK, KillFails, Fault
<1>3. QED
  BY <1>1, <1>2 DEF Kill

\* Every step of the system keeps the types and the shape of the jobs.
LEMMA NextTyped ==
  ASSUME Typed, [Next]_vars
  PROVE  Typed'
<2> USE DEF Typed, TypeOK, JobShape, States, InProgress, Terminal, Stopped,
              Turns, rows, job, listeners, sweeper
  <2>1. ASSUME NEW s \in Sessions, Cancel(s)
       PROVE  Typed'
    BY <2>1 DEF Cancel
  <2>2. ASSUME NEW s \in Sessions, Exit(s)
       PROVE  Typed'
    BY <2>2 DEF Exit
  <2>3. ASSUME NEW s \in Sessions, LeaseExpires(s)
       PROVE  Typed'
    BY <2>3 DEF LeaseExpires
  <2>4. ASSUME NEW w \in Workers, NEW s \in Sessions, Claim(w, s)
       PROVE  Typed'
    BY <2>4 DEF Claim
  <2>5. ASSUME NEW w \in Workers, NEW s \in Sessions, ListenerReads(w, s)
       PROVE  Typed'
    BY <2>5 DEF ListenerReads
  <2>6. ASSUME NEW w \in Workers, NEW s \in Sessions, ListenerWrites(w, s)
       PROVE  Typed'
    BY <2>6 DEF ListenerWrites, End
  <2>7. ASSUME NEW w \in Workers, NEW s \in Sessions, Reclaim(w, s)
       PROVE  Typed'
    <3>1. OutcomeOK'
      BY <2>7, EndType, UnchangedType DEF Reclaim
    <3>2. SweepOK'
      <4>1. CASE /\ target' = [target EXCEPT ![w] = s]
                 /\ sweep' = [sweep EXCEPT ![w] = "reclaimed"]
        BY <2>7, <4>1 DEF Reclaim, SweepOK
      <4>2. CASE UNCHANGED <<target, sweep>>
        BY <2>7, <4>2 DEF Reclaim, SweepOK
      <4> QED
        BY <2>7, <4>1, <4>2 DEF Reclaim
    <3> QED
      BY <2>7, <3>1, <3>2 DEF Reclaim, OutcomeOK, SweepOK
  <2>8. ASSUME NEW w \in Workers, LoadThrows(w)
       PROVE  Typed'
    BY <2>8 DEF LoadThrows, Threw, Finished
  <2>9. ASSUME NEW w \in Workers, Reject(w)
       PROVE  Typed'
    <3>1. cur[w] \in Sessions
      BY <2>9 DEF Reject
    <3>2. OutcomeOK'
      BY <2>9, <3>1, EndType, UnchangedType DEF Reject
    <3> QED
      BY <2>9, <3>1, <3>2 DEF Reject, Threw, Finished, OutcomeOK
  <2>10. ASSUME NEW w \in Workers, Validated(w)
       PROVE  Typed'
    BY <2>10 DEF Validated
  <2>11. ASSUME NEW w \in Workers, PrepareThrows(w)
       PROVE  Typed'
    BY <2>11 DEF PrepareThrows
  <2>12. ASSUME NEW w \in Workers, BeginTurn(w)
       PROVE  Typed'
    BY <2>12 DEF BeginTurn, StartTurn
  <2>13. ASSUME NEW w \in Workers, TurnSucceeds(w)
       PROVE  Typed'
    BY <2>13 DEF TurnSucceeds, TurnOver
  <2>14. ASSUME NEW w \in Workers, TurnFails(w)
       PROVE  Typed'
    BY <2>14 DEF TurnFails, TurnOver
  <2>15. ASSUME NEW w \in Workers, TurnRestarts(w)
       PROVE  Typed'
    BY <2>15 DEF TurnRestarts, StartTurn, TurnOver
  <2>16. ASSUME NEW w \in Workers, Finish(w)
       PROVE  Typed'
    <3>1. cur[w] \in Sessions
      BY <2>16 DEF Finish
    <3>2. OutcomeOK'
      BY <2>16, <3>1, EndType, UnchangedType DEF Finish
    <3>3. /\ message' \in [Sessions -> {"none", "COMPLETED", "FAILED"}]
          /\ thread' \in [Sessions -> {"RUNNING", "FAILED"}]
      <4>1. CASE /\ message' = [message EXCEPT ![cur[w]] = "COMPLETED"]
                 /\ thread' = [thread EXCEPT ![cur[w]] = "RUNNING"]
        BY <4>1
      <4>2. CASE UNCHANGED <<message, thread>>
        BY <4>2
      <4> QED
        BY <2>16, <4>1, <4>2 DEF Finish
    <3> QED
      BY <2>16, <3>1, <3>2, <3>3 DEF Finish, Finished, OutcomeOK
  <2>17. ASSUME NEW w \in Workers, FinishAborts(w)
       PROVE  Typed'
    BY <2>17 DEF FinishAborts, Fault
  <2>18. ASSUME NEW w \in Workers, Fail(w)
       PROVE  Typed'
    <3>1. cur[w] \in Sessions
      BY <2>18 DEF Fail
    <3>2. OutcomeOK'
      BY <2>18, <3>1, EndType, UnchangedType DEF Fail, Verdict
    <3>3. /\ message' \in [Sessions -> {"none", "COMPLETED", "FAILED"}]
          /\ thread' \in [Sessions -> {"RUNNING", "FAILED"}]
      BY ZenonT(60), <2>18, <3>1 DEF Fail
    <3> QED
      BY <2>18, <3>1, <3>2, <3>3 DEF Fail, Threw, Finished, OutcomeOK
  <2>19. ASSUME NEW w \in Workers, FailAborts(w)
       PROVE  Typed'
    BY <2>19 DEF FailAborts, Fault, Threw, Finished
  <2>20. ASSUME NEW w \in Workers, SpawnThrows(w)
       PROVE  Typed'
    BY <2>20 DEF SpawnThrows, Settle
  <2>21. ASSUME NEW w \in Workers, Spawn(w)
       PROVE  Typed'
    BY <2>21 DEF Spawn
  <2>22. ASSUME NEW w \in Workers, Capture(w)
       PROVE  Typed'
    <3>1. PICK a \in {"captured", "unowned"} : run' = [run EXCEPT ![w] = a]
      BY <2>22 DEF Capture
    <3>2. faults' \in 0 .. MaxFaults
      BY <2>22 DEF Capture, Fault
    <3>3. run[w] \in {"spawned", "captured"}
      BY <2>22 DEF Capture
    <3>4. UNCHANGED <<rows, alive, pc, cur, attempt, result, cause, term, termPid,
                      listeners, sweeper>>
      BY <2>22 DEF Capture
    <3> QED
      BY <3>1, <3>2, <3>3, <3>4
  <2>23. ASSUME NEW w \in Workers, Persist(w)
       PROVE  Typed'
    BY <2>23 DEF Persist
  <2>24. ASSUME NEW w \in Workers, PersistRejected(w)
       PROVE  Typed'
    <3>1. PICK a \in {"captured", "unowned"} : run' = [run EXCEPT ![w] = a]
      BY <2>24 DEF PersistRejected
    <3>2. faults' \in 0 .. MaxFaults
      BY <2>24 DEF PersistRejected, Fault
    <3>3. run[w] \in {"spawned", "captured"}
      BY <2>24 DEF PersistRejected
    <3>4. UNCHANGED <<rows, alive, pc, cur, attempt, result, cause, term, termPid,
                      listeners, sweeper>>
      BY <2>24 DEF PersistRejected
    <3> QED
      BY <3>1, <3>2, <3>3, <3>4
  <2>25. ASSUME NEW w \in Workers, Disown(w)
       PROVE  Typed'
    <3>1. cur[w] \in Sessions
      BY <2>25 DEF Disown
    <3>2. OutcomeOK'
      BY <2>25, <3>1, EndType, UnchangedType DEF Disown
    <3>3. ProcessesOK'
      BY <2>25, <3>1, KillType DEF Disown, Kill
    <3> QED
      BY <2>25, <3>1, <3>2, <3>3 DEF Disown, Settle, OutcomeOK, ProcessesOK
  <2>26. ASSUME NEW w \in Workers, Close(w)
       PROVE  Typed'
    BY <2>26 DEF Close, Settle
  <2>27. ASSUME NEW w \in Workers, TermRead(w)
       PROVE  Typed'
    BY <2>27 DEF TermRead
  <2>28. ASSUME NEW w \in Workers, TermMark(w)
       PROVE  Typed'
    <3>1. cur[w] \in Sessions
      BY <2>28 DEF TermMark
    <3>2. OutcomeOK'
      BY <2>28, <3>1, EndType, UnchangedType DEF TermMark
    <3> QED
      BY <2>28, <3>1, <3>2 DEF TermMark, OutcomeOK
  <2>29. ASSUME NEW w \in Workers, TermKill(w)
       PROVE  Typed'
    <3>1. cur[w] \in Sessions
      BY <2>29 DEF TermKill
    <3>2. ProcessesOK'
      BY <2>29, <3>1, KillType DEF TermKill
    <3> QED
      BY <2>29, <3>1, <3>2 DEF TermKill, ProcessesOK
  <2>30. ASSUME NEW w \in Workers, Timeout(w)
       PROVE  Typed'
    <3>1. cur[w] \in Sessions
      BY <2>30 DEF Timeout
    <3>2. ProcessesOK'
      BY <2>30, <3>1, KillType DEF Timeout, Terminate, ProcessesOK
    <3> QED
      BY <2>30, <3>1, <3>2 DEF Timeout, Terminate, ProcessesOK
  <2>31. ASSUME NEW w \in Workers, ObserveCancel(w)
       PROVE  Typed'
    <3>1. cur[w] \in Sessions
      BY <2>31 DEF ObserveCancel
    <3>2. ProcessesOK'
      BY <2>31, <3>1, KillType DEF ObserveCancel, Terminate, ProcessesOK
    <3> QED
      BY <2>31, <3>1, <3>2 DEF ObserveCancel, Terminate, ProcessesOK
  <2>32. ASSUME NEW w \in Workers, Heartbeat(w)
       PROVE  Typed'
    BY <2>32 DEF Heartbeat
  <2>33. ASSUME NEW w \in Workers, BeginSweep(w)
       PROVE  Typed'
    BY <2>33 DEF BeginSweep
  <2>34. ASSUME NEW w \in Workers, EndSweep(w)
       PROVE  Typed'
    BY <2>34 DEF EndSweep
  <2>35. ASSUME NEW w \in Workers, ReapKill(w)
       PROVE  Typed'
    <3>1. target[w] \in Sessions
      BY <2>35 DEF ReapKill
    <3>2. ProcessesOK'
      BY <2>35, <3>1, KillType DEF ReapKill, Kill
    <3>3. SweepOK'
      <4>1. CASE /\ sweep' = [sweep EXCEPT ![w] = "killed"]
                 /\ UNCHANGED <<cand, snap, target>>
        BY <4>1, <3>1 DEF SweepOK
      <4>2. CASE /\ sweep' = [sweep EXCEPT ![w] = "idle"]
                 /\ cand' = [cand EXCEPT ![w] = {}]
                 /\ snap' = [snap EXCEPT ![w] = [x \in Sessions |-> 0]]
                 /\ target' = [target EXCEPT ![w] = NoSession]
        BY <4>2 DEF SweepOK
      <4> QED
        BY <2>35, <4>1, <4>2 DEF ReapKill
    <3> QED
      BY <2>35, <3>1, <3>2, <3>3 DEF ReapKill, ProcessesOK, SweepOK
  <2>36. ASSUME NEW w \in Workers, ReapThread(w)
       PROVE  Typed'
    BY <2>36 DEF ReapThread
  <2>37. ASSUME NEW w \in Workers, ReapNotice(w)
       PROVE  Typed'
    BY <2>37 DEF ReapNotice
  <2>38. ASSUME NEW w \in Workers, Crash(w)
       PROVE  Typed'
    BY <2>38 DEF Crash, Fault, Finished
  <2>39. CASE UNCHANGED vars
    BY <2>39 DEF vars
  <2> QED
    BY <2>1, <2>2, <2>3, <2>4, <2>5, <2>6, <2>7, <2>8, <2>9, <2>10, <2>11,
       <2>12, <2>13, <2>14, <2>15, <2>16, <2>17, <2>18, <2>19, <2>20,
       <2>21, <2>22, <2>23, <2>24, <2>25, <2>26, <2>27, <2>28, <2>29,
       <2>30, <2>31, <2>32, <2>33, <2>34, <2>35, <2>36, <2>37, <2>38,
       <2>39
    DEF Next, WorkerStep, JobStep, RunStep, TermStep, SweepStep

-----------------------------------------------------------------------------
(***************************************************************************)
(* Claims: who holds a row, and what that says about its state.            *)
(***************************************************************************)

\* A row leaves QUEUED once, by one claim, so no two jobs hold it; a row held
\* by a listener or a sweep is held by no job.
LEMMA NextClaimed ==
  ASSUME Typed, Typed', Claimed, [Next]_vars
  PROVE  Claimed'
<2> USE DEF Claimed, Held, Ownership, OneRunner, CancelSeen,
              Typed, TypeOK, JobShape, States, InProgress, Terminal, Stopped,
              Turns, rows, job, listeners, sweeper
  <2>1. ASSUME NEW s \in Sessions, Cancel(s)
       PROVE  Claimed'
    BY <2>1 DEF Cancel
  <2>2. ASSUME NEW s \in Sessions, Exit(s)
       PROVE  Claimed'
    BY <2>2 DEF Exit
  <2>3. ASSUME NEW s \in Sessions, LeaseExpires(s)
       PROVE  Claimed'
    BY <2>3 DEF LeaseExpires
  <2>4. ASSUME NEW w \in Workers, NEW s \in Sessions, Claim(w, s)
       PROVE  Claimed'
    BY <2>4 DEF Claim
  <2>5. ASSUME NEW w \in Workers, NEW s \in Sessions, ListenerReads(w, s)
       PROVE  Claimed'
    BY <2>5 DEF ListenerReads
  <2>6. ASSUME NEW w \in Workers, NEW s \in Sessions, ListenerWrites(w, s)
       PROVE  Claimed'
    BY <2>6 DEF ListenerWrites, End
  <2>7. ASSUME NEW w \in Workers, NEW s \in Sessions, Reclaim(w, s)
       PROVE  Claimed'
    <3>1. CASE ~Expired(s)
      BY <2>7, <3>1 DEF Reclaim, UnchangedOutcome
    <3>2. CASE Expired(s)
      <4>1. End(s, "FAILED")
        BY <2>7, <3>2 DEF Reclaim
      <4>2. /\ target' = [target EXCEPT ![w] = s]
            /\ sweep' = [sweep EXCEPT ![w] = "reclaimed"]
        BY <2>7, <3>2 DEF Reclaim
      <4>3. state[s] \in InProgress
        BY <3>2 DEF Expired
      <4>4. UNCHANGED <<job, listeners>>
        BY <2>7 DEF Reclaim
      <4>5. Held'
        BY <4>1, <4>2, <4>3, <4>4 DEF End
      <4>6. Ownership' /\ CancelSeen' /\ OneRunner'
        BY <4>1, <4>3, <4>4 DEF End
      <4> QED
        BY <4>5, <4>6
    <3> QED
      BY <3>1, <3>2
  <2>8. ASSUME NEW w \in Workers, LoadThrows(w)
       PROVE  Claimed'
    BY <2>8 DEF LoadThrows, Threw, Finished
  <2>9. ASSUME NEW w \in Workers, Reject(w)
       PROVE  Claimed'
    BY <2>9 DEF Reject, End, UnchangedOutcome, Threw, Finished
  <2>10. ASSUME NEW w \in Workers, Validated(w)
       PROVE  Claimed'
    BY <2>10 DEF Validated
  <2>11. ASSUME NEW w \in Workers, PrepareThrows(w)
       PROVE  Claimed'
    BY <2>11 DEF PrepareThrows
  <2>12. ASSUME NEW w \in Workers, BeginTurn(w)
       PROVE  Claimed'
    BY <2>12 DEF BeginTurn, StartTurn
  <2>13. ASSUME NEW w \in Workers, TurnSucceeds(w)
       PROVE  Claimed'
    BY <2>13 DEF TurnSucceeds, TurnOver
  <2>14. ASSUME NEW w \in Workers, TurnFails(w)
       PROVE  Claimed'
    BY <2>14 DEF TurnFails, TurnOver
  <2>15. ASSUME NEW w \in Workers, TurnRestarts(w)
       PROVE  Claimed'
    BY <2>15 DEF TurnRestarts, StartTurn, TurnOver
  <2>16. ASSUME NEW w \in Workers, Finish(w)
       PROVE  Claimed'
    BY <2>16 DEF Finish, End, UnchangedOutcome, Finished
  <2>17. ASSUME NEW w \in Workers, FinishAborts(w)
       PROVE  Claimed'
    BY <2>17 DEF FinishAborts
  <2>18. ASSUME NEW w \in Workers, Fail(w)
       PROVE  Claimed'
    BY <2>18 DEF Fail, End, UnchangedOutcome, Threw, Finished, Owns, Verdict
  <2>19. ASSUME NEW w \in Workers, FailAborts(w)
       PROVE  Claimed'
    BY <2>19 DEF FailAborts, Threw, Finished
  <2>20. ASSUME NEW w \in Workers, SpawnThrows(w)
       PROVE  Claimed'
    BY <2>20 DEF SpawnThrows, Settle
  <2>21. ASSUME NEW w \in Workers, Spawn(w)
       PROVE  Claimed'
    BY <2>21 DEF Spawn
  <2>22. ASSUME NEW w \in Workers, Capture(w)
       PROVE  Claimed'
    BY <2>22 DEF Capture
  <2>23. ASSUME NEW w \in Workers, Persist(w)
       PROVE  Claimed'
    BY <2>23 DEF Persist, Owns
  <2>24. ASSUME NEW w \in Workers, PersistRejected(w)
       PROVE  Claimed'
    BY <2>24 DEF PersistRejected, Owns
  <2>25. ASSUME NEW w \in Workers, Disown(w)
       PROVE  Claimed'
    BY <2>25 DEF Disown, End, UnchangedOutcome, Owns, Settle
  <2>26. ASSUME NEW w \in Workers, Close(w)
       PROVE  Claimed'
    BY <2>26 DEF Close, Settle
  <2>27. ASSUME NEW w \in Workers, TermRead(w)
       PROVE  Claimed'
    BY <2>27 DEF TermRead
  <2>28. ASSUME NEW w \in Workers, TermMark(w)
       PROVE  Claimed'
    BY <2>28 DEF TermMark, End, UnchangedOutcome
  <2>29. ASSUME NEW w \in Workers, TermKill(w)
       PROVE  Claimed'
    BY <2>29 DEF TermKill
  <2>30. ASSUME NEW w \in Workers, Timeout(w)
       PROVE  Claimed'
    BY <2>30 DEF Timeout, Terminate
  <2>31. ASSUME NEW w \in Workers, ObserveCancel(w)
       PROVE  Claimed'
    BY <2>31 DEF ObserveCancel, Terminate
  <2>32. ASSUME NEW w \in Workers, Heartbeat(w)
       PROVE  Claimed'
    BY <2>32 DEF Heartbeat, Owns
  <2>33. ASSUME NEW w \in Workers, BeginSweep(w)
       PROVE  Claimed'
    BY <2>33 DEF BeginSweep, Expired
  <2>34. ASSUME NEW w \in Workers, EndSweep(w)
       PROVE  Claimed'
    BY <2>34 DEF EndSweep
  <2>35. ASSUME NEW w \in Workers, ReapKill(w)
       PROVE  Claimed'
    <3>1. \A v \in Workers :
            sweep'[v] \in {"reclaimed", "killed", "marked"} =>
                /\ sweep[v] \in {"reclaimed", "killed", "marked"}
                /\ target'[v] = target[v]
      BY <2>35 DEF ReapKill
    <3> QED
      BY <2>35, <3>1 DEF ReapKill
  <2>36. ASSUME NEW w \in Workers, ReapThread(w)
       PROVE  Claimed'
    BY <2>36 DEF ReapThread
  <2>37. ASSUME NEW w \in Workers, ReapNotice(w)
       PROVE  Claimed'
    BY <2>37 DEF ReapNotice
  <2>38. ASSUME NEW w \in Workers, Crash(w)
       PROVE  Claimed'
    BY <2>38 DEF Crash, Finished
  <2>39. CASE UNCHANGED vars
    BY <2>39 DEF vars
  <2> QED
    BY <2>1, <2>2, <2>3, <2>4, <2>5, <2>6, <2>7, <2>8, <2>9, <2>10, <2>11,
       <2>12, <2>13, <2>14, <2>15, <2>16, <2>17, <2>18, <2>19, <2>20,
       <2>21, <2>22, <2>23, <2>24, <2>25, <2>26, <2>27, <2>28, <2>29,
       <2>30, <2>31, <2>32, <2>33, <2>34, <2>35, <2>36, <2>37, <2>38,
       <2>39
    DEF Next, WorkerStep, JobStep, RunStep, TermStep, SweepStep

-----------------------------------------------------------------------------
(***************************************************************************)
(* Outcomes: the answer and the notice in the conversation.                *)
(***************************************************************************)

\* The answer is written in the transaction that ends the row, and whoever
\* writes a state or a notice later holds a row that was stopped.
LEMMA NextAnswer ==
  ASSUME Typed, Typed', Claimed, AnswerIffSucceeded, [Next]_vars
  PROVE  AnswerIffSucceeded'
<2> USE DEF AnswerIffSucceeded, Claimed, Held, Ownership, OneRunner,
              CancelSeen, Typed, TypeOK, JobShape, States, InProgress, Terminal, Stopped,
              Turns, rows, job, listeners, sweeper
  <2>1. ASSUME NEW s \in Sessions, Cancel(s)
       PROVE  AnswerIffSucceeded'
    BY <2>1 DEF Cancel
  <2>2. ASSUME NEW s \in Sessions, Exit(s)
       PROVE  AnswerIffSucceeded'
    BY <2>2 DEF Exit
  <2>3. ASSUME NEW s \in Sessions, LeaseExpires(s)
       PROVE  AnswerIffSucceeded'
    BY <2>3 DEF LeaseExpires
  <2>4. ASSUME NEW w \in Workers, NEW s \in Sessions, Claim(w, s)
       PROVE  AnswerIffSucceeded'
    BY <2>4 DEF Claim
  <2>5. ASSUME NEW w \in Workers, NEW s \in Sessions, ListenerReads(w, s)
       PROVE  AnswerIffSucceeded'
    BY <2>5 DEF ListenerReads
  <2>6. ASSUME NEW w \in Workers, NEW s \in Sessions, ListenerWrites(w, s)
       PROVE  AnswerIffSucceeded'
    BY <2>6 DEF ListenerWrites, End
  <2>7. ASSUME NEW w \in Workers, NEW s \in Sessions, Reclaim(w, s)
       PROVE  AnswerIffSucceeded'
    BY <2>7 DEF Reclaim, End, UnchangedOutcome, Expired
  <2>8. ASSUME NEW w \in Workers, LoadThrows(w)
       PROVE  AnswerIffSucceeded'
    BY <2>8 DEF LoadThrows, Threw, Finished
  <2>9. ASSUME NEW w \in Workers, Reject(w)
       PROVE  AnswerIffSucceeded'
    BY <2>9 DEF Reject, End, UnchangedOutcome, Threw, Finished
  <2>10. ASSUME NEW w \in Workers, Validated(w)
       PROVE  AnswerIffSucceeded'
    BY <2>10 DEF Validated
  <2>11. ASSUME NEW w \in Workers, PrepareThrows(w)
       PROVE  AnswerIffSucceeded'
    BY <2>11 DEF PrepareThrows
  <2>12. ASSUME NEW w \in Workers, BeginTurn(w)
       PROVE  AnswerIffSucceeded'
    BY <2>12 DEF BeginTurn, StartTurn
  <2>13. ASSUME NEW w \in Workers, TurnSucceeds(w)
       PROVE  AnswerIffSucceeded'
    BY <2>13 DEF TurnSucceeds, TurnOver
  <2>14. ASSUME NEW w \in Workers, TurnFails(w)
       PROVE  AnswerIffSucceeded'
    BY <2>14 DEF TurnFails, TurnOver
  <2>15. ASSUME NEW w \in Workers, TurnRestarts(w)
       PROVE  AnswerIffSucceeded'
    BY <2>15 DEF TurnRestarts, StartTurn, TurnOver
  <2>16. ASSUME NEW w \in Workers, Finish(w)
       PROVE  AnswerIffSucceeded'
    BY <2>16 DEF Finish, End, UnchangedOutcome, Finished
  <2>17. ASSUME NEW w \in Workers, FinishAborts(w)
       PROVE  AnswerIffSucceeded'
    BY <2>17 DEF FinishAborts
  <2>18. ASSUME NEW w \in Workers, Fail(w)
       PROVE  AnswerIffSucceeded'
    BY <2>18 DEF Fail, End, UnchangedOutcome, Threw, Finished, Owns, Verdict
  <2>19. ASSUME NEW w \in Workers, FailAborts(w)
       PROVE  AnswerIffSucceeded'
    BY <2>19 DEF FailAborts, Threw, Finished
  <2>20. ASSUME NEW w \in Workers, SpawnThrows(w)
       PROVE  AnswerIffSucceeded'
    BY <2>20 DEF SpawnThrows, Settle
  <2>21. ASSUME NEW w \in Workers, Spawn(w)
       PROVE  AnswerIffSucceeded'
    BY <2>21 DEF Spawn
  <2>22. ASSUME NEW w \in Workers, Capture(w)
       PROVE  AnswerIffSucceeded'
    BY <2>22 DEF Capture
  <2>23. ASSUME NEW w \in Workers, Persist(w)
       PROVE  AnswerIffSucceeded'
    BY <2>23 DEF Persist, Owns
  <2>24. ASSUME NEW w \in Workers, PersistRejected(w)
       PROVE  AnswerIffSucceeded'
    BY <2>24 DEF PersistRejected, Owns
  <2>25. ASSUME NEW w \in Workers, Disown(w)
       PROVE  AnswerIffSucceeded'
    BY <2>25 DEF Disown, End, UnchangedOutcome, Owns, Settle
  <2>26. ASSUME NEW w \in Workers, Close(w)
       PROVE  AnswerIffSucceeded'
    BY <2>26 DEF Close, Settle
  <2>27. ASSUME NEW w \in Workers, TermRead(w)
       PROVE  AnswerIffSucceeded'
    BY <2>27 DEF TermRead
  <2>28. ASSUME NEW w \in Workers, TermMark(w)
       PROVE  AnswerIffSucceeded'
    BY <2>28 DEF TermMark, End, UnchangedOutcome
  <2>29. ASSUME NEW w \in Workers, TermKill(w)
       PROVE  AnswerIffSucceeded'
    BY <2>29 DEF TermKill
  <2>30. ASSUME NEW w \in Workers, Timeout(w)
       PROVE  AnswerIffSucceeded'
    BY <2>30 DEF Timeout, Terminate
  <2>31. ASSUME NEW w \in Workers, ObserveCancel(w)
       PROVE  AnswerIffSucceeded'
    BY <2>31 DEF ObserveCancel, Terminate
  <2>32. ASSUME NEW w \in Workers, Heartbeat(w)
       PROVE  AnswerIffSucceeded'
    BY <2>32 DEF Heartbeat, Owns
  <2>33. ASSUME NEW w \in Workers, BeginSweep(w)
       PROVE  AnswerIffSucceeded'
    BY <2>33 DEF BeginSweep, Expired
  <2>34. ASSUME NEW w \in Workers, EndSweep(w)
       PROVE  AnswerIffSucceeded'
    BY <2>34 DEF EndSweep
  <2>35. ASSUME NEW w \in Workers, ReapKill(w)
       PROVE  AnswerIffSucceeded'
    BY <2>35 DEF ReapKill
  <2>36. ASSUME NEW w \in Workers, ReapThread(w)
       PROVE  AnswerIffSucceeded'
    BY <2>36 DEF ReapThread
  <2>37. ASSUME NEW w \in Workers, ReapNotice(w)
       PROVE  AnswerIffSucceeded'
    BY <2>37 DEF ReapNotice
  <2>38. ASSUME NEW w \in Workers, Crash(w)
       PROVE  AnswerIffSucceeded'
    BY <2>38 DEF Crash, Finished
  <2>39. CASE UNCHANGED vars
    BY <2>39 DEF vars
  <2> QED
    BY <2>1, <2>2, <2>3, <2>4, <2>5, <2>6, <2>7, <2>8, <2>9, <2>10, <2>11,
       <2>12, <2>13, <2>14, <2>15, <2>16, <2>17, <2>18, <2>19, <2>20,
       <2>21, <2>22, <2>23, <2>24, <2>25, <2>26, <2>27, <2>28, <2>29,
       <2>30, <2>31, <2>32, <2>33, <2>34, <2>35, <2>36, <2>37, <2>38,
       <2>39
    DEF Next, WorkerStep, JobStep, RunStep, TermStep, SweepStep

-----------------------------------------------------------------------------
(***************************************************************************)
(* Provider processes.                                                     *)
(***************************************************************************)

\* No kill starts a process.
LEMMA KillShrinks ==
  ASSUME Typed, NEW s \in Sessions, NEW K, Kill(s, K)
  PROVE  \A x \in Sessions : alive'[x] \subseteq alive[x]
BY DEF Typed, TypeOK, Kill, KillWorks, KillFails

\* Before a turn starts the process of the one before it is gone, and a
\* session whose worker crashed is never started again.
LEMMA NextProcesses ==
  ASSUME Typed, Typed', Claimed, Processes, [Next]_vars
  PROVE  Processes'
<2> USE DEF Processes, Attended, OneProcess, Claimed, Held, OneRunner,
              Typed, TypeOK, JobShape, States, InProgress, Terminal, Stopped,
              Turns, rows, job, listeners, sweeper
  <2>1. ASSUME NEW s \in Sessions, Cancel(s)
       PROVE  Processes'
    BY <2>1 DEF Cancel
  <2>2. ASSUME NEW s \in Sessions, Exit(s)
       PROVE  Processes'
    BY <2>2 DEF Exit
  <2>3. ASSUME NEW s \in Sessions, LeaseExpires(s)
       PROVE  Processes'
    BY <2>3 DEF LeaseExpires
  <2>4. ASSUME NEW w \in Workers, NEW s \in Sessions, Claim(w, s)
       PROVE  Processes'
    BY <2>4 DEF Claim
  <2>5. ASSUME NEW w \in Workers, NEW s \in Sessions, ListenerReads(w, s)
       PROVE  Processes'
    BY <2>5 DEF ListenerReads
  <2>6. ASSUME NEW w \in Workers, NEW s \in Sessions, ListenerWrites(w, s)
       PROVE  Processes'
    BY <2>6 DEF ListenerWrites, End
  <2>7. ASSUME NEW w \in Workers, NEW s \in Sessions, Reclaim(w, s)
       PROVE  Processes'
    <3>1. End(s, "FAILED") \/ UnchangedOutcome
      BY <2>7 DEF Reclaim
    <3>2. \A x \in Sessions : state'[x] = "QUEUED" => state[x] = "QUEUED"
      BY <3>1 DEF End, UnchangedOutcome
    <3> QED
      BY <2>7, <3>2 DEF Reclaim
  <2>8. ASSUME NEW w \in Workers, LoadThrows(w)
       PROVE  Processes'
    BY <2>8 DEF LoadThrows, Threw, Finished
  <2>9. ASSUME NEW w \in Workers, Reject(w)
       PROVE  Processes'
    BY <2>9 DEF Reject, End, UnchangedOutcome, Threw, Finished
  <2>10. ASSUME NEW w \in Workers, Validated(w)
       PROVE  Processes'
    BY <2>10 DEF Validated
  <2>11. ASSUME NEW w \in Workers, PrepareThrows(w)
       PROVE  Processes'
    BY <2>11 DEF PrepareThrows
  <2>12. ASSUME NEW w \in Workers, BeginTurn(w)
       PROVE  Processes'
    BY <2>12 DEF BeginTurn, StartTurn
  <2>13. ASSUME NEW w \in Workers, TurnSucceeds(w)
       PROVE  Processes'
    BY <2>13 DEF TurnSucceeds, TurnOver
  <2>14. ASSUME NEW w \in Workers, TurnFails(w)
       PROVE  Processes'
    BY <2>14 DEF TurnFails, TurnOver
  <2>15. ASSUME NEW w \in Workers, TurnRestarts(w)
       PROVE  Processes'
    BY <2>15 DEF TurnRestarts, StartTurn, TurnOver
  <2>16. ASSUME NEW w \in Workers, Finish(w)
       PROVE  Processes'
    BY <2>16 DEF Finish, End, UnchangedOutcome, Finished
  <2>17. ASSUME NEW w \in Workers, FinishAborts(w)
       PROVE  Processes'
    BY <2>17 DEF FinishAborts
  <2>18. ASSUME NEW w \in Workers, Fail(w)
       PROVE  Processes'
    BY <2>18 DEF Fail, End, UnchangedOutcome, Threw, Finished, Owns, Verdict
  <2>19. ASSUME NEW w \in Workers, FailAborts(w)
       PROVE  Processes'
    BY <2>19 DEF FailAborts, Threw, Finished
  <2>20. ASSUME NEW w \in Workers, SpawnThrows(w)
       PROVE  Processes'
    BY <2>20 DEF SpawnThrows, Settle
  <2>21. ASSUME NEW w \in Workers, Spawn(w)
       PROVE  Processes'
    BY <2>21 DEF Spawn
  <2>22. ASSUME NEW w \in Workers, Capture(w)
       PROVE  Processes'
    <3>1. PICK a \in {"captured", "unowned"} : run' = [run EXCEPT ![w] = a]
      BY <2>22 DEF Capture
    <3>2. run[w] = "spawned" /\ UNCHANGED <<state, alive, pc, cur, attempt, result>>
      BY <2>22 DEF Capture
    <3> QED
      BY <3>1, <3>2
  <2>23. ASSUME NEW w \in Workers, Persist(w)
       PROVE  Processes'
    BY <2>23 DEF Persist, Owns
  <2>24. ASSUME NEW w \in Workers, PersistRejected(w)
       PROVE  Processes'
    BY <2>24 DEF PersistRejected, Owns
  <2>25. ASSUME NEW w \in Workers, Disown(w)
       PROVE  Processes'
    <3>1. cur[w] \in Sessions
      BY <2>25 DEF Disown
    <3>2. \A x \in Sessions : alive'[x] \subseteq alive[x]
      BY <2>25, <3>1, KillShrinks DEF Disown, Kill
    <3>3. End(cur[w], "FAILED") \/ UnchangedOutcome
      BY <2>25 DEF Disown
    <3>4. \A x \in Sessions : state'[x] = "QUEUED" => state[x] = "QUEUED"
      BY <3>1, <3>3 DEF End, UnchangedOutcome
    <3> QED
      BY <2>25, <3>2, <3>4 DEF Disown, Settle
  <2>26. ASSUME NEW w \in Workers, Close(w)
       PROVE  Processes'
    BY <2>26 DEF Close, Settle
  <2>27. ASSUME NEW w \in Workers, TermRead(w)
       PROVE  Processes'
    BY <2>27 DEF TermRead
  <2>28. ASSUME NEW w \in Workers, TermMark(w)
       PROVE  Processes'
    <3>1. cur[w] \in Sessions
      BY <2>28 DEF TermMark
    <3>2. PICK st \in Terminal : End(cur[w], st) \/ UnchangedOutcome
      BY <2>28 DEF TermMark
    <3>3. \A x \in Sessions : state'[x] = "QUEUED" => state[x] = "QUEUED"
      BY <3>1, <3>2 DEF End, UnchangedOutcome
    <3> QED
      BY <2>28, <3>3 DEF TermMark
  <2>29. ASSUME NEW w \in Workers, TermKill(w)
       PROVE  Processes'
    <3>1. \A x \in Sessions : alive'[x] \subseteq alive[x]
      BY <2>29, KillShrinks DEF TermKill
    <3> QED
      BY <2>29, <3>1 DEF TermKill
  <2>30. ASSUME NEW w \in Workers, Timeout(w)
       PROVE  Processes'
    <3>1. \A x \in Sessions : alive'[x] \subseteq alive[x]
      BY <2>30, KillShrinks DEF Timeout, Terminate
    <3> QED
      BY <2>30, <3>1 DEF Timeout, Terminate
  <2>31. ASSUME NEW w \in Workers, ObserveCancel(w)
       PROVE  Processes'
    <3>1. \A x \in Sessions : alive'[x] \subseteq alive[x]
      BY <2>31, KillShrinks DEF ObserveCancel, Terminate
    <3> QED
      BY <2>31, <3>1 DEF ObserveCancel, Terminate
  <2>32. ASSUME NEW w \in Workers, Heartbeat(w)
       PROVE  Processes'
    BY <2>32 DEF Heartbeat, Owns
  <2>33. ASSUME NEW w \in Workers, BeginSweep(w)
       PROVE  Processes'
    BY <2>33 DEF BeginSweep, Expired
  <2>34. ASSUME NEW w \in Workers, EndSweep(w)
       PROVE  Processes'
    BY <2>34 DEF EndSweep
  <2>35. ASSUME NEW w \in Workers, ReapKill(w)
       PROVE  Processes'
    <3>1. \A x \in Sessions : alive'[x] \subseteq alive[x]
      BY <2>35, KillShrinks DEF ReapKill, Kill
    <3> QED
      BY <2>35, <3>1 DEF ReapKill
  <2>36. ASSUME NEW w \in Workers, ReapThread(w)
       PROVE  Processes'
    BY <2>36 DEF ReapThread
  <2>37. ASSUME NEW w \in Workers, ReapNotice(w)
       PROVE  Processes'
    BY <2>37 DEF ReapNotice
  <2>38. ASSUME NEW w \in Workers, Crash(w)
       PROVE  Processes'
    BY <2>38 DEF Crash, Finished
  <2>39. CASE UNCHANGED vars
    BY <2>39 DEF vars
  <2> QED
    BY <2>1, <2>2, <2>3, <2>4, <2>5, <2>6, <2>7, <2>8, <2>9, <2>10, <2>11,
       <2>12, <2>13, <2>14, <2>15, <2>16, <2>17, <2>18, <2>19, <2>20,
       <2>21, <2>22, <2>23, <2>24, <2>25, <2>26, <2>27, <2>28, <2>29,
       <2>30, <2>31, <2>32, <2>33, <2>34, <2>35, <2>36, <2>37, <2>38,
       <2>39
    DEF Next, WorkerStep, JobStep, RunStep, TermStep, SweepStep

\* A kill that fails is counted as a fault.
LEMMA KillCounts ==
  ASSUME Typed, NEW s \in Sessions, NEW K, Kill(s, K)
  PROVE  faults' = 0 => faults = 0
BY DEF Typed, TypeOK, Kill, KillWorks, KillFails, Fault

\* Without faults a job leaves its turn only after the process is gone.
LEMMA NextProcessAttended ==
  ASSUME Typed, Typed', Claimed, Processes, ProcessAttended, [Next]_vars
  PROVE  ProcessAttended'
<2> USE DEF ProcessAttended, Processes, Attended, OneProcess, Claimed, Held,
              OneRunner, Typed, TypeOK, JobShape, States, InProgress, Terminal, Stopped,
              Turns, rows, job, listeners, sweeper
  <2>1. ASSUME NEW s \in Sessions, Cancel(s)
       PROVE  ProcessAttended'
    BY <2>1 DEF Cancel
  <2>2. ASSUME NEW s \in Sessions, Exit(s)
       PROVE  ProcessAttended'
    <3>1. /\ UNCHANGED <<job, faults>>
          /\ \A x \in Sessions : alive'[x] \subseteq alive[x]
      BY <2>2 DEF Exit
    <3> QED
      BY <3>1
  <2>3. ASSUME NEW s \in Sessions, LeaseExpires(s)
       PROVE  ProcessAttended'
    BY <2>3 DEF LeaseExpires
  <2>4. ASSUME NEW w \in Workers, NEW s \in Sessions, Claim(w, s)
       PROVE  ProcessAttended'
    BY <2>4 DEF Claim
  <2>5. ASSUME NEW w \in Workers, NEW s \in Sessions, ListenerReads(w, s)
       PROVE  ProcessAttended'
    BY <2>5 DEF ListenerReads
  <2>6. ASSUME NEW w \in Workers, NEW s \in Sessions, ListenerWrites(w, s)
       PROVE  ProcessAttended'
    BY <2>6 DEF ListenerWrites
  <2>7. ASSUME NEW w \in Workers, NEW s \in Sessions, Reclaim(w, s)
       PROVE  ProcessAttended'
    BY <2>7 DEF Reclaim
  <2>8. ASSUME NEW w \in Workers, LoadThrows(w)
       PROVE  ProcessAttended'
    BY <2>8 DEF LoadThrows, Threw, Finished
  <2>9. ASSUME NEW w \in Workers, Reject(w)
       PROVE  ProcessAttended'
    BY <2>9 DEF Reject, Threw, Finished
  <2>10. ASSUME NEW w \in Workers, Validated(w)
       PROVE  ProcessAttended'
    BY <2>10 DEF Validated
  <2>11. ASSUME NEW w \in Workers, PrepareThrows(w)
       PROVE  ProcessAttended'
    BY <2>11 DEF PrepareThrows
  <2>12. ASSUME NEW w \in Workers, BeginTurn(w)
       PROVE  ProcessAttended'
    BY <2>12 DEF BeginTurn, StartTurn
  <2>13. ASSUME NEW w \in Workers, TurnSucceeds(w)
       PROVE  ProcessAttended'
    BY <2>13 DEF TurnSucceeds, TurnOver
  <2>14. ASSUME NEW w \in Workers, TurnFails(w)
       PROVE  ProcessAttended'
    BY <2>14 DEF TurnFails, TurnOver
  <2>15. ASSUME NEW w \in Workers, TurnRestarts(w)
       PROVE  ProcessAttended'
    BY <2>15 DEF TurnRestarts, StartTurn, TurnOver
  <2>16. ASSUME NEW w \in Workers, Finish(w)
       PROVE  ProcessAttended'
    <3>1. run[w] \in {"none", "settled"}
      BY <2>16 DEF Finish
    <3>2. /\ UNCHANGED <<alive, faults>>
          /\ \A u \in Workers \ {w} : /\ cur'[u] = cur[u]
                                      /\ attempt'[u] = attempt[u]
                                      /\ run'[u] = run[u]
      BY <2>16 DEF Finish, Finished
    <3>3. SUFFICES ASSUME faults = 0, NEW x \in Sessions, NEW k \in alive[x]
                   PROVE  \E u \in Workers :
                             /\ cur'[u] = x /\ attempt'[u] = k
                             /\ run'[u] \in {"spawned", "captured",
                                            "streaming", "unowned"}
      BY <3>2
    <3>4. PICK u \in Workers :
            /\ cur[u] = x /\ attempt[u] = k
            /\ run[u] \in {"spawned", "captured", "streaming", "unowned"}
      BY <3>3
    <3> QED
      BY <3>1, <3>2, <3>4

  <2>17. ASSUME NEW w \in Workers, FinishAborts(w)
       PROVE  ProcessAttended'
    BY <2>17 DEF FinishAborts, Fault
  <2>18. ASSUME NEW w \in Workers, Fail(w)
       PROVE  ProcessAttended'
    <3>1. run[w] \in {"none", "settled"}
      BY <2>18 DEF Fail
    <3>2. /\ UNCHANGED <<alive, faults>>
          /\ \A u \in Workers \ {w} : /\ cur'[u] = cur[u]
                                      /\ attempt'[u] = attempt[u]
                                      /\ run'[u] = run[u]
      BY <2>18 DEF Fail, Threw, Finished
    <3>3. SUFFICES ASSUME faults = 0, NEW x \in Sessions, NEW k \in alive[x]
                   PROVE  \E u \in Workers :
                             /\ cur'[u] = x /\ attempt'[u] = k
                             /\ run'[u] \in {"spawned", "captured",
                                            "streaming", "unowned"}
      BY <3>2
    <3>4. PICK u \in Workers :
            /\ cur[u] = x /\ attempt[u] = k
            /\ run[u] \in {"spawned", "captured", "streaming", "unowned"}
      BY <3>3
    <3> QED
      BY <3>1, <3>2, <3>4

  <2>19. ASSUME NEW w \in Workers, FailAborts(w)
       PROVE  ProcessAttended'
    BY <2>19 DEF FailAborts, Fault, Threw, Finished
  <2>20. ASSUME NEW w \in Workers, SpawnThrows(w)
       PROVE  ProcessAttended'
    BY <2>20 DEF SpawnThrows, Settle
  <2>21. ASSUME NEW w \in Workers, Spawn(w)
       PROVE  ProcessAttended'
    BY <2>21 DEF Spawn
  <2>22. ASSUME NEW w \in Workers, Capture(w)
       PROVE  ProcessAttended'
    <3>1. faults' = 0 => faults = 0
      BY <2>22 DEF Capture, Fault
    <3>2. PICK a \in {"captured", "unowned"} : run' = [run EXCEPT ![w] = a]
      BY <2>22 DEF Capture
    <3>3. run[w] \in {"spawned", "captured"} /\ UNCHANGED <<alive, cur, attempt>>
      BY <2>22 DEF Capture
    <3> QED
      BY <3>1, <3>2, <3>3
  <2>23. ASSUME NEW w \in Workers, Persist(w)
       PROVE  ProcessAttended'
    BY <2>23 DEF Persist
  <2>24. ASSUME NEW w \in Workers, PersistRejected(w)
       PROVE  ProcessAttended'
    <3>1. faults' = 0 => faults = 0
      BY <2>24 DEF PersistRejected, Fault
    <3>2. PICK a \in {"captured", "unowned"} : run' = [run EXCEPT ![w] = a]
      BY <2>24 DEF PersistRejected
    <3>3. run[w] \in {"spawned", "captured"} /\ UNCHANGED <<alive, cur, attempt>>
      BY <2>24 DEF PersistRejected
    <3> QED
      BY <3>1, <3>2, <3>3
  <2>25. ASSUME NEW w \in Workers, Disown(w)
       PROVE  ProcessAttended'
    <3>1. CASE KillWorks(cur[w], {attempt[w]})
      BY <2>25, <3>1 DEF Disown, KillWorks, Settle, End, UnchangedOutcome
    <3>2. CASE KillFails(cur[w], {attempt[w]})
      BY <2>25, <3>2 DEF KillFails, Fault
    <3> QED
      BY <2>25, <3>1, <3>2 DEF Disown, Kill
  <2>26. ASSUME NEW w \in Workers, Close(w)
       PROVE  ProcessAttended'
    BY <2>26 DEF Close, Settle
  <2>27. ASSUME NEW w \in Workers, TermRead(w)
       PROVE  ProcessAttended'
    BY <2>27 DEF TermRead
  <2>28. ASSUME NEW w \in Workers, TermMark(w)
       PROVE  ProcessAttended'
    BY <2>28 DEF TermMark
  <2>29. ASSUME NEW w \in Workers, TermKill(w)
       PROVE  ProcessAttended'
    <3>1. \A x \in Sessions : alive'[x] \subseteq alive[x]
      BY <2>29, KillShrinks DEF TermKill
    <3>2. faults' = 0 => faults = 0
      BY <2>29, KillCounts DEF TermKill
    <3> QED
      BY <2>29, <3>1, <3>2 DEF TermKill
  <2>30. ASSUME NEW w \in Workers, Timeout(w)
       PROVE  ProcessAttended'
    <3>1. \A x \in Sessions : alive'[x] \subseteq alive[x]
      BY <2>30, KillShrinks DEF Timeout, Terminate
    <3>2. faults' = 0 => faults = 0
      BY <2>30, KillCounts DEF Timeout, Terminate
    <3> QED
      BY <2>30, <3>1, <3>2 DEF Timeout, Terminate
  <2>31. ASSUME NEW w \in Workers, ObserveCancel(w)
       PROVE  ProcessAttended'
    <3>1. \A x \in Sessions : alive'[x] \subseteq alive[x]
      BY <2>31, KillShrinks DEF ObserveCancel, Terminate
    <3>2. faults' = 0 => faults = 0
      BY <2>31, KillCounts DEF ObserveCancel, Terminate
    <3> QED
      BY <2>31, <3>1, <3>2 DEF ObserveCancel, Terminate
  <2>32. ASSUME NEW w \in Workers, Heartbeat(w)
       PROVE  ProcessAttended'
    BY <2>32 DEF Heartbeat
  <2>33. ASSUME NEW w \in Workers, BeginSweep(w)
       PROVE  ProcessAttended'
    BY <2>33 DEF BeginSweep
  <2>34. ASSUME NEW w \in Workers, EndSweep(w)
       PROVE  ProcessAttended'
    BY <2>34 DEF EndSweep
  <2>35. ASSUME NEW w \in Workers, ReapKill(w)
       PROVE  ProcessAttended'
    <3>1. \A x \in Sessions : alive'[x] \subseteq alive[x]
      BY <2>35, KillShrinks DEF ReapKill, Kill
    <3>2. faults' = 0 => faults = 0
      BY <2>35, KillCounts DEF ReapKill, Kill
    <3> QED
      BY <2>35, <3>1, <3>2 DEF ReapKill
  <2>36. ASSUME NEW w \in Workers, ReapThread(w)
       PROVE  ProcessAttended'
    BY <2>36 DEF ReapThread
  <2>37. ASSUME NEW w \in Workers, ReapNotice(w)
       PROVE  ProcessAttended'
    BY <2>37 DEF ReapNotice
  <2>38. ASSUME NEW w \in Workers, Crash(w)
       PROVE  ProcessAttended'
    BY <2>38 DEF Crash, Fault, Finished
  <2>39. CASE UNCHANGED vars
    BY <2>39 DEF vars
  <2> QED
    BY <2>1, <2>2, <2>3, <2>4, <2>5, <2>6, <2>7, <2>8, <2>9, <2>10, <2>11,
       <2>12, <2>13, <2>14, <2>15, <2>16, <2>17, <2>18, <2>19, <2>20,
       <2>21, <2>22, <2>23, <2>24, <2>25, <2>26, <2>27, <2>28, <2>29,
       <2>30, <2>31, <2>32, <2>33, <2>34, <2>35, <2>36, <2>37, <2>38,
       <2>39
    DEF Next, WorkerStep, JobStep, RunStep, TermStep, SweepStep

-----------------------------------------------------------------------------
(***************************************************************************)
(* The theorems.                                                           *)
(***************************************************************************)

\* Inv, the conjunction of every layer, holds in every reachable state.
THEOREM InvCorrect == Spec => []Inv
<1>1. Init => Inv
  <2> USE DEF Init
  <2>1. Init => Typed
    BY DEF Typed, TypeOK, JobShape, States, Turns
  <2>2. Init => Claimed
    BY DEF Claimed, Held, Ownership, CancelSeen, OneRunner
  <2>3. Init => AnswerIffSucceeded /\ Processes /\ ProcessAttended
    BY DEF AnswerIffSucceeded, Processes, Attended, OneProcess, ProcessAttended
  <2> QED
    BY <2>1, <2>2, <2>3 DEF Inv
<1>2. Inv /\ [Next]_vars => Inv'
  <2> SUFFICES ASSUME Inv, [Next]_vars PROVE Inv'
    OBVIOUS
  <2>1. Typed'
    BY NextTyped DEF Inv
  <2>2. Claimed'
    BY <2>1, NextClaimed DEF Inv
  <2>3. AnswerIffSucceeded'
    BY <2>1, NextAnswer DEF Inv
  <2>4. Processes'
    BY <2>1, NextProcesses DEF Inv
  <2>5. ProcessAttended'
    BY <2>1, NextProcessAttended DEF Inv
  <2> QED
    BY <2>1, <2>2, <2>3, <2>4, <2>5 DEF Inv
<1>3. QED
  BY <1>1, <1>2, PTL DEF Spec

\* Every variable keeps its type.
THEOREM TypeCorrect == Spec => []TypeOK
<1>1. Inv => TypeOK
  BY DEF Inv, Typed
<1>2. QED
  BY <1>1, InvCorrect, PTL

\* No session is run by two workers, however many workers sweep, claim and
\* crash.
THEOREM OneRunnerCorrect == Spec => []OneRunner
<1>1. Inv => OneRunner
  BY DEF Inv, Claimed
<1>2. QED
  BY <1>1, InvCorrect, PTL

\* An answer is shown exactly for the sessions that succeeded, a notice only
\* for stopped ones.
THEOREM AnswerCorrect == Spec => []AnswerIffSucceeded
<1>1. Inv => AnswerIffSucceeded
  BY DEF Inv
<1>2. QED
  BY <1>1, InvCorrect, PTL

\* A session never has two provider processes, crashes included.
THEOREM OneProcessCorrect == Spec => []OneProcess
<1>1. Inv => OneProcess
  BY DEF Inv, Processes
<1>2. QED
  BY <1>1, InvCorrect, PTL

\* Without faults, a provider process is attended by the turn that started it.
THEOREM ProcessAttendedCorrect == Spec => []ProcessAttended
<1>1. Inv => ProcessAttended
  BY DEF Inv
<1>2. QED
  BY <1>1, InvCorrect, PTL

\* Success, failure and timeout are never rewritten.
THEOREM FinalOutcomeCorrect == Spec => FinalOutcome
<1>1. Inv /\ [Next]_vars =>
        \A s \in Sessions :
            state[s] \in Terminal \ {"CANCELLED"} => state'[s] = state[s]
  <2> SUFFICES ASSUME Inv, [Next]_vars, NEW x \in Sessions,
                      state[x] \in Terminal \ {"CANCELLED"}
               PROVE  state'[x] = state[x]
    OBVIOUS
  <2> USE DEF Inv, Claimed, Held, CancelSeen, Typed, TypeOK, JobShape, States, InProgress, Terminal, Stopped,
              Turns, rows, job, listeners, sweeper
  <2>1. ASSUME NEW s \in Sessions, Cancel(s)
       PROVE  state'[x] = state[x]
    BY <2>1 DEF Cancel
  <2>2. ASSUME NEW s \in Sessions, Exit(s)
       PROVE  state'[x] = state[x]
    BY <2>2 DEF Exit
  <2>3. ASSUME NEW s \in Sessions, LeaseExpires(s)
       PROVE  state'[x] = state[x]
    BY <2>3 DEF LeaseExpires
  <2>4. ASSUME NEW w \in Workers, NEW s \in Sessions, Claim(w, s)
       PROVE  state'[x] = state[x]
    BY <2>4 DEF Claim
  <2>5. ASSUME NEW w \in Workers, NEW s \in Sessions, ListenerReads(w, s)
       PROVE  state'[x] = state[x]
    BY <2>5 DEF ListenerReads
  <2>6. ASSUME NEW w \in Workers, NEW s \in Sessions, ListenerWrites(w, s)
       PROVE  state'[x] = state[x]
    BY <2>6 DEF ListenerWrites, End
  <2>7. ASSUME NEW w \in Workers, NEW s \in Sessions, Reclaim(w, s)
       PROVE  state'[x] = state[x]
    BY <2>7 DEF Reclaim, End, UnchangedOutcome, Expired
  <2>8. ASSUME NEW w \in Workers, LoadThrows(w)
       PROVE  state'[x] = state[x]
    BY <2>8 DEF LoadThrows, Threw, Finished
  <2>9. ASSUME NEW w \in Workers, Reject(w)
       PROVE  state'[x] = state[x]
    BY <2>9 DEF Reject, End, UnchangedOutcome, Threw, Finished
  <2>10. ASSUME NEW w \in Workers, Validated(w)
       PROVE  state'[x] = state[x]
    BY <2>10 DEF Validated
  <2>11. ASSUME NEW w \in Workers, PrepareThrows(w)
       PROVE  state'[x] = state[x]
    BY <2>11 DEF PrepareThrows
  <2>12. ASSUME NEW w \in Workers, BeginTurn(w)
       PROVE  state'[x] = state[x]
    BY <2>12 DEF BeginTurn, StartTurn
  <2>13. ASSUME NEW w \in Workers, TurnSucceeds(w)
       PROVE  state'[x] = state[x]
    BY <2>13 DEF TurnSucceeds, TurnOver
  <2>14. ASSUME NEW w \in Workers, TurnFails(w)
       PROVE  state'[x] = state[x]
    BY <2>14 DEF TurnFails, TurnOver
  <2>15. ASSUME NEW w \in Workers, TurnRestarts(w)
       PROVE  state'[x] = state[x]
    BY <2>15 DEF TurnRestarts, StartTurn, TurnOver
  <2>16. ASSUME NEW w \in Workers, Finish(w)
       PROVE  state'[x] = state[x]
    BY <2>16 DEF Finish, End, UnchangedOutcome, Finished
  <2>17. ASSUME NEW w \in Workers, FinishAborts(w)
       PROVE  state'[x] = state[x]
    BY <2>17 DEF FinishAborts
  <2>18. ASSUME NEW w \in Workers, Fail(w)
       PROVE  state'[x] = state[x]
    BY <2>18 DEF Fail, End, UnchangedOutcome, Threw, Finished, Owns, Verdict
  <2>19. ASSUME NEW w \in Workers, FailAborts(w)
       PROVE  state'[x] = state[x]
    BY <2>19 DEF FailAborts, Threw, Finished
  <2>20. ASSUME NEW w \in Workers, SpawnThrows(w)
       PROVE  state'[x] = state[x]
    BY <2>20 DEF SpawnThrows, Settle
  <2>21. ASSUME NEW w \in Workers, Spawn(w)
       PROVE  state'[x] = state[x]
    BY <2>21 DEF Spawn
  <2>22. ASSUME NEW w \in Workers, Capture(w)
       PROVE  state'[x] = state[x]
    BY <2>22 DEF Capture
  <2>23. ASSUME NEW w \in Workers, Persist(w)
       PROVE  state'[x] = state[x]
    BY <2>23 DEF Persist, Owns
  <2>24. ASSUME NEW w \in Workers, PersistRejected(w)
       PROVE  state'[x] = state[x]
    BY <2>24 DEF PersistRejected, Owns
  <2>25. ASSUME NEW w \in Workers, Disown(w)
       PROVE  state'[x] = state[x]
    BY <2>25 DEF Disown, End, UnchangedOutcome, Owns, Settle
  <2>26. ASSUME NEW w \in Workers, Close(w)
       PROVE  state'[x] = state[x]
    BY <2>26 DEF Close, Settle
  <2>27. ASSUME NEW w \in Workers, TermRead(w)
       PROVE  state'[x] = state[x]
    BY <2>27 DEF TermRead
  <2>28. ASSUME NEW w \in Workers, TermMark(w)
       PROVE  state'[x] = state[x]
    BY <2>28 DEF TermMark, End, UnchangedOutcome
  <2>29. ASSUME NEW w \in Workers, TermKill(w)
       PROVE  state'[x] = state[x]
    BY <2>29 DEF TermKill
  <2>30. ASSUME NEW w \in Workers, Timeout(w)
       PROVE  state'[x] = state[x]
    BY <2>30 DEF Timeout, Terminate
  <2>31. ASSUME NEW w \in Workers, ObserveCancel(w)
       PROVE  state'[x] = state[x]
    BY <2>31 DEF ObserveCancel, Terminate
  <2>32. ASSUME NEW w \in Workers, Heartbeat(w)
       PROVE  state'[x] = state[x]
    BY <2>32 DEF Heartbeat, Owns
  <2>33. ASSUME NEW w \in Workers, BeginSweep(w)
       PROVE  state'[x] = state[x]
    BY <2>33 DEF BeginSweep, Expired
  <2>34. ASSUME NEW w \in Workers, EndSweep(w)
       PROVE  state'[x] = state[x]
    BY <2>34 DEF EndSweep
  <2>35. ASSUME NEW w \in Workers, ReapKill(w)
       PROVE  state'[x] = state[x]
    BY <2>35 DEF ReapKill
  <2>36. ASSUME NEW w \in Workers, ReapThread(w)
       PROVE  state'[x] = state[x]
    BY <2>36 DEF ReapThread
  <2>37. ASSUME NEW w \in Workers, ReapNotice(w)
       PROVE  state'[x] = state[x]
    BY <2>37 DEF ReapNotice
  <2>38. ASSUME NEW w \in Workers, Crash(w)
       PROVE  state'[x] = state[x]
    BY <2>38 DEF Crash, Finished
  <2>39. CASE UNCHANGED vars
    BY <2>39 DEF vars
  <2> QED
    BY <2>1, <2>2, <2>3, <2>4, <2>5, <2>6, <2>7, <2>8, <2>9, <2>10, <2>11,
       <2>12, <2>13, <2>14, <2>15, <2>16, <2>17, <2>18, <2>19, <2>20,
       <2>21, <2>22, <2>23, <2>24, <2>25, <2>26, <2>27, <2>28, <2>29,
       <2>30, <2>31, <2>32, <2>33, <2>34, <2>35, <2>36, <2>37, <2>38,
       <2>39
    DEF Next, WorkerStep, JobStep, RunStep, TermStep, SweepStep
<1>2. QED
  BY <1>1, InvCorrect, PTL DEF Spec, FinalOutcome

\* A session whose lease is live is failed only by its owner's job or by the
\* listener of its owner's queue.
THEOREM LiveLeaseProtectedCorrect == Spec => LiveLeaseProtected
<1>1. Inv /\ [Next]_vars =>
        \A s \in Sessions, w \in Workers :
            Owns(w, s) /\ lease[s] = "live" /\ state'[s] = "FAILED" =>
                \/ cur[w] = s /\ <<pc[w], run[w]>> # <<pc'[w], run'[w]>>
                \/ s \in overwrites[w] \ overwrites'[w]
  <2> SUFFICES ASSUME Inv, [Next]_vars, NEW x \in Sessions, NEW v \in Workers,
                      Owns(v, x), lease[x] = "live", state'[x] = "FAILED"
               PROVE  \/ cur[v] = x /\ (pc[v] # pc'[v] \/ run[v] # run'[v])
                      \/ x \in overwrites[v] \ overwrites'[v]
    OBVIOUS
  <2> DEFINE Excused == \/ cur[v] = x /\ (pc[v] # pc'[v] \/ run[v] # run'[v])
                        \/ x \in overwrites[v] \ overwrites'[v]
  <2> USE DEF Inv, Claimed, Held, Ownership, CancelSeen, Owns,
              Typed, TypeOK, JobShape, States, InProgress, Terminal, Stopped,
              Turns, rows, job, listeners, sweeper
  <2>1. ASSUME NEW s \in Sessions, Cancel(s)
       PROVE  Excused
    BY <2>1 DEF Cancel
  <2>2. ASSUME NEW s \in Sessions, Exit(s)
       PROVE  Excused
    BY <2>2 DEF Exit
  <2>3. ASSUME NEW s \in Sessions, LeaseExpires(s)
       PROVE  Excused
    BY <2>3 DEF LeaseExpires
  <2>4. ASSUME NEW w \in Workers, NEW s \in Sessions, Claim(w, s)
       PROVE  Excused
    BY <2>4 DEF Claim
  <2>5. ASSUME NEW w \in Workers, NEW s \in Sessions, ListenerReads(w, s)
       PROVE  Excused
    BY <2>5 DEF ListenerReads
  <2>6. ASSUME NEW w \in Workers, NEW s \in Sessions, ListenerWrites(w, s)
       PROVE  Excused
    BY <2>6 DEF ListenerWrites, End
  <2>7. ASSUME NEW w \in Workers, NEW s \in Sessions, Reclaim(w, s)
       PROVE  Excused
    <3>1. x = s /\ Expired(s)
      BY <2>7 DEF Reclaim, End, UnchangedOutcome
    <3> QED
      BY <3>1 DEF Expired
  <2>8. ASSUME NEW w \in Workers, LoadThrows(w)
       PROVE  Excused
    BY <2>8 DEF LoadThrows, Threw, Finished
  <2>9. ASSUME NEW w \in Workers, Reject(w)
       PROVE  Excused
    BY <2>9 DEF Reject, End, UnchangedOutcome, Threw, Finished
  <2>10. ASSUME NEW w \in Workers, Validated(w)
       PROVE  Excused
    BY <2>10 DEF Validated
  <2>11. ASSUME NEW w \in Workers, PrepareThrows(w)
       PROVE  Excused
    BY <2>11 DEF PrepareThrows
  <2>12. ASSUME NEW w \in Workers, BeginTurn(w)
       PROVE  Excused
    BY <2>12 DEF BeginTurn, StartTurn
  <2>13. ASSUME NEW w \in Workers, TurnSucceeds(w)
       PROVE  Excused
    BY <2>13 DEF TurnSucceeds, TurnOver
  <2>14. ASSUME NEW w \in Workers, TurnFails(w)
       PROVE  Excused
    BY <2>14 DEF TurnFails, TurnOver
  <2>15. ASSUME NEW w \in Workers, TurnRestarts(w)
       PROVE  Excused
    BY <2>15 DEF TurnRestarts, StartTurn, TurnOver
  <2>16. ASSUME NEW w \in Workers, Finish(w)
       PROVE  Excused
    <3>1. cur[w] \in Sessions
      BY <2>16 DEF Finish
    <3>2. End(cur[w], "SUCCEEDED") \/ UnchangedOutcome
      BY <2>16 DEF Finish
    <3>3. CASE UnchangedOutcome
      BY <3>3 DEF UnchangedOutcome
    <3>4. CASE End(cur[w], "SUCCEEDED")
      BY <3>1, <3>4 DEF End
    <3> QED
      BY <3>2, <3>3, <3>4
  <2>17. ASSUME NEW w \in Workers, FinishAborts(w)
       PROVE  Excused
    BY <2>17 DEF FinishAborts
  <2>18. ASSUME NEW w \in Workers, Fail(w)
       PROVE  Excused
    <3>1. x = cur[w] /\ Owns(w, x)
      <4>1. CASE ~Owns(w, cur[w])
        BY <2>18, <4>1 DEF Fail, UnchangedOutcome
      <4>2. CASE Owns(w, cur[w]) /\ x # cur[w]
        <5>1. End(cur[w], Verdict(w))
          BY <2>18, <4>2 DEF Fail
        <5> QED
          BY <4>2, <5>1 DEF End
      <4> QED
        BY <4>1, <4>2
    <3>2. v = w /\ pc[v] # pc'[v]
      BY <2>18, <3>1 DEF Fail, Threw, Finished
    <3> QED
      BY <3>1, <3>2
  <2>19. ASSUME NEW w \in Workers, FailAborts(w)
       PROVE  Excused
    BY <2>19 DEF FailAborts, Threw, Finished
  <2>20. ASSUME NEW w \in Workers, SpawnThrows(w)
       PROVE  Excused
    BY <2>20 DEF SpawnThrows, Settle
  <2>21. ASSUME NEW w \in Workers, Spawn(w)
       PROVE  Excused
    BY <2>21 DEF Spawn
  <2>22. ASSUME NEW w \in Workers, Capture(w)
       PROVE  Excused
    BY <2>22 DEF Capture
  <2>23. ASSUME NEW w \in Workers, Persist(w)
       PROVE  Excused
    BY <2>23 DEF Persist, Owns
  <2>24. ASSUME NEW w \in Workers, PersistRejected(w)
       PROVE  Excused
    BY <2>24 DEF PersistRejected, Owns
  <2>25. ASSUME NEW w \in Workers, Disown(w)
       PROVE  Excused
    BY SMTT(30), <2>25 DEF Disown, End, UnchangedOutcome, Owns, Settle
  <2>26. ASSUME NEW w \in Workers, Close(w)
       PROVE  Excused
    BY <2>26 DEF Close, Settle
  <2>27. ASSUME NEW w \in Workers, TermRead(w)
       PROVE  Excused
    BY <2>27 DEF TermRead
  <2>28. ASSUME NEW w \in Workers, TermMark(w)
       PROVE  Excused
    <3>1. cur[w] \in Sessions
      BY <2>28 DEF TermMark
    <3>2. PICK st \in {"CANCELLED", "TIMED_OUT"} :
            End(cur[w], st) \/ UnchangedOutcome
      BY <2>28 DEF TermMark
    <3>3. CASE UnchangedOutcome
      BY <3>3 DEF UnchangedOutcome
    <3>4. CASE End(cur[w], st)
      BY <3>1, <3>4 DEF End
    <3> QED
      BY <3>2, <3>3, <3>4
  <2>29. ASSUME NEW w \in Workers, TermKill(w)
       PROVE  Excused
    BY <2>29 DEF TermKill
  <2>30. ASSUME NEW w \in Workers, Timeout(w)
       PROVE  Excused
    BY <2>30 DEF Timeout, Terminate
  <2>31. ASSUME NEW w \in Workers, ObserveCancel(w)
       PROVE  Excused
    BY <2>31 DEF ObserveCancel, Terminate
  <2>32. ASSUME NEW w \in Workers, Heartbeat(w)
       PROVE  Excused
    BY <2>32 DEF Heartbeat, Owns
  <2>33. ASSUME NEW w \in Workers, BeginSweep(w)
       PROVE  Excused
    BY <2>33 DEF BeginSweep, Expired
  <2>34. ASSUME NEW w \in Workers, EndSweep(w)
       PROVE  Excused
    BY <2>34 DEF EndSweep
  <2>35. ASSUME NEW w \in Workers, ReapKill(w)
       PROVE  Excused
    BY <2>35 DEF ReapKill
  <2>36. ASSUME NEW w \in Workers, ReapThread(w)
       PROVE  Excused
    BY <2>36 DEF ReapThread
  <2>37. ASSUME NEW w \in Workers, ReapNotice(w)
       PROVE  Excused
    BY <2>37 DEF ReapNotice
  <2>38. ASSUME NEW w \in Workers, Crash(w)
       PROVE  Excused
    BY <2>38 DEF Crash, Finished
  <2>39. CASE UNCHANGED vars
    BY <2>39 DEF vars
  <2> QED
    BY <2>1, <2>2, <2>3, <2>4, <2>5, <2>6, <2>7, <2>8, <2>9, <2>10, <2>11,
       <2>12, <2>13, <2>14, <2>15, <2>16, <2>17, <2>18, <2>19, <2>20,
       <2>21, <2>22, <2>23, <2>24, <2>25, <2>26, <2>27, <2>28, <2>29,
       <2>30, <2>31, <2>32, <2>33, <2>34, <2>35, <2>36, <2>37, <2>38,
       <2>39
    DEF Next, WorkerStep, JobStep, RunStep, TermStep, SweepStep
<1>2. QED
  BY <1>1, InvCorrect, PTL DEF Spec, LiveLeaseProtected

-----------------------------------------------------------------------------
(***************************************************************************)
(* Refinement: Init maps to the abstract Init and every step, from a state *)
(* of Inv, to a step of Execution or a stutter.                            *)
(***************************************************************************)
phase == [s \in Sessions |-> PhaseOf(state[s])]
shown == [s \in Sessions |-> ShownOf(message[s])]

\* Nothing of the abstraction moves.
Still == UNCHANGED <<phase, shown>>

\* A step of one session, read in the abstraction.
LEMMA PhaseMoves ==
  ASSUME TypeOK, NEW s \in Sessions, NEW st \in States,
         state' = [state EXCEPT ![s] = st]
  PROVE  phase' = [phase EXCEPT ![s] = PhaseOf(st)]
BY DEF TypeOK, phase

\* The same for what the conversation shows.
LEMMA ShownMoves ==
  ASSUME TypeOK, NEW s \in Sessions, NEW m \in {"none", "COMPLETED", "FAILED"},
         message' = [message EXCEPT ![s] = m]
  PROVE  shown' = [shown EXCEPT ![s] = ShownOf(m)]
BY DEF TypeOK, shown

\* Ending a row that has not ended is the abstract Stop.
LEMMA StopsSession ==
  ASSUME TypeOK, NEW s \in Sessions, state[s] \in {"QUEUED"} \cup InProgress,
         NEW st \in Stopped, state' = [state EXCEPT ![s] = st],
         UNCHANGED message
  PROVE  Abstract!Next
<1>1. phase' = [phase EXCEPT ![s] = "stopped"]
  BY PhaseMoves DEF PhaseOf, Stopped, InProgress, States, Terminal
<1>2. phase[s] \in {"waiting", "started"}
  BY DEF phase, PhaseOf, InProgress
<1>3. UNCHANGED shown
  BY DEF shown
<1>4. Abstract!Stop(s)
  BY <1>1, <1>2, <1>3 DEF Abstract!Stop, Abstract!Move, phase, shown
<1>5. QED
  BY <1>4 DEF Abstract!Next

\* Rewriting a stopped row as stopped, and a started row as started, is a
\* stutter.
LEMMA KeepsPhase ==
  ASSUME TypeOK, NEW s \in Sessions, NEW st \in States,
         PhaseOf(st) = PhaseOf(state[s]), state' = [state EXCEPT ![s] = st],
         UNCHANGED message
  PROVE  Still
<1>1. phase' = [phase EXCEPT ![s] = PhaseOf(state[s])]
  BY PhaseMoves
<1>2. UNCHANGED phase
  BY <1>1 DEF phase
<1>3. UNCHANGED shown
  BY DEF shown
<1>4. QED
  BY <1>2, <1>3 DEF Still

\* A session in progress shows nothing yet.
LEMMA NothingShown ==
  ASSUME Inv, NEW s \in Sessions, state[s] \in InProgress
  PROVE  message[s] = "none"
BY DEF Inv, Typed, TypeOK, AnswerIffSucceeded, InProgress, Stopped

\* A step that changes neither state nor message is a stutter.
LEMMA UnchangedStill ==
  ASSUME UNCHANGED <<state, message>>
  PROVE  Still
BY DEF Still, phase, shown

\* Every step from a state of Inv is an abstract step or a stutter.
LEMMA StepSimulation ==
  ASSUME Inv, [Next]_vars
  PROVE  Abstract!Next \/ Still
<2> USE DEF Inv, Typed, TypeOK, JobShape, Claimed, Held, CancelSeen,
            AnswerIffSucceeded, States, InProgress, Terminal, Stopped, rows
  <2>1. ASSUME NEW s \in Sessions, Cancel(s)
       PROVE  Abstract!Next \/ Still
    <3>1. /\ state[s] \in {"QUEUED"} \cup InProgress
          /\ state' = [state EXCEPT ![s] = "CANCELLED"]
          /\ UNCHANGED message
      BY <2>1 DEF Cancel
    <3> QED
      BY <3>1, StopsSession
  <2>2. ASSUME NEW s \in Sessions, Exit(s)
       PROVE  Abstract!Next \/ Still
    BY <2>2, UnchangedStill DEF Exit
  <2>3. ASSUME NEW s \in Sessions, LeaseExpires(s)
       PROVE  Abstract!Next \/ Still
    BY <2>3, UnchangedStill DEF LeaseExpires
  <2>4. ASSUME NEW w \in Workers, NEW s \in Sessions, Claim(w, s)
       PROVE  Abstract!Next \/ Still
    <3>1. /\ state[s] = "QUEUED"
          /\ state' = [state EXCEPT ![s] = "STARTING"]
          /\ UNCHANGED message
      BY <2>4 DEF Claim
    <3>2. phase' = [phase EXCEPT ![s] = "started"]
      <4>1. PhaseOf("STARTING") = "started"
        BY DEF PhaseOf
      <4> QED
        BY <3>1, <4>1 DEF phase
    <3>3. phase[s] = "waiting" /\ UNCHANGED shown
      BY <3>1 DEF phase, shown, PhaseOf
    <3>4. Abstract!Start(s)
      BY <3>2, <3>3 DEF Abstract!Start, Abstract!Move, phase, shown
    <3> QED
      BY <3>4 DEF Abstract!Next
  <2>5. ASSUME NEW w \in Workers, NEW s \in Sessions, ListenerReads(w, s)
       PROVE  Abstract!Next \/ Still
    BY <2>5, UnchangedStill DEF ListenerReads
  <2>6. ASSUME NEW w \in Workers, NEW s \in Sessions, ListenerWrites(w, s)
       PROVE  Abstract!Next \/ Still
    <3>1. /\ state[s] \in {"FAILED", "CANCELLED"} \cup InProgress
          /\ state' = [state EXCEPT ![s] = "FAILED"]
          /\ UNCHANGED message
      BY <2>6 DEF ListenerWrites, End
    <3>2. CASE state[s] \in InProgress
      BY <3>1, <3>2, StopsSession
    <3>3. CASE state[s] \in {"FAILED", "CANCELLED"}
      <4>1. PhaseOf(state[s]) = PhaseOf("FAILED")
        BY <3>3 DEF PhaseOf
      <4> QED
        BY <3>1, <4>1, KeepsPhase
    <3> QED
      BY <3>1, <3>2, <3>3
  <2>7. ASSUME NEW w \in Workers, NEW s \in Sessions, Reclaim(w, s)
       PROVE  Abstract!Next \/ Still
    <3>1. CASE UnchangedOutcome
      BY <2>7, <3>1, UnchangedStill DEF Reclaim, UnchangedOutcome
    <3>2. CASE End(s, "FAILED") /\ state[s] \in InProgress
      <4>1. s \in Sessions /\ UNCHANGED message
        BY <2>7 DEF Reclaim
      <4>2. state' = [state EXCEPT ![s] = "FAILED"]
        BY <3>2 DEF End
      <4> QED
        BY <3>2, <4>1, <4>2, StopsSession
    <3> QED
      BY <2>7, <3>1, <3>2 DEF Reclaim, Expired
  <2>8. ASSUME NEW w \in Workers, LoadThrows(w)
       PROVE  Abstract!Next \/ Still
    BY <2>8, UnchangedStill DEF LoadThrows, Threw
  <2>9. ASSUME NEW w \in Workers, Reject(w)
       PROVE  Abstract!Next \/ Still
    <3>1. CASE UnchangedOutcome
      BY <2>9, <3>1, UnchangedStill DEF Reject, UnchangedOutcome
    <3>2. CASE End(cur[w], "FAILED") /\ state[cur[w]] \in InProgress
      <4>1. cur[w] \in Sessions /\ UNCHANGED message
        BY <2>9 DEF Reject
      <4>2. state' = [state EXCEPT ![cur[w]] = "FAILED"]
        BY <3>2 DEF End
      <4> QED
        BY <3>2, <4>1, <4>2, StopsSession
    <3> QED
      BY <2>9, <3>1, <3>2 DEF Reject
  <2>10. ASSUME NEW w \in Workers, Validated(w)
       PROVE  Abstract!Next \/ Still
    BY <2>10, UnchangedStill DEF Validated
  <2>11. ASSUME NEW w \in Workers, PrepareThrows(w)
       PROVE  Abstract!Next \/ Still
    BY <2>11, UnchangedStill DEF PrepareThrows
  <2>12. ASSUME NEW w \in Workers, BeginTurn(w)
       PROVE  Abstract!Next \/ Still
    BY <2>12, UnchangedStill DEF BeginTurn
  <2>13. ASSUME NEW w \in Workers, TurnSucceeds(w)
       PROVE  Abstract!Next \/ Still
    BY <2>13, UnchangedStill DEF TurnSucceeds
  <2>14. ASSUME NEW w \in Workers, TurnFails(w)
       PROVE  Abstract!Next \/ Still
    BY <2>14, UnchangedStill DEF TurnFails
  <2>15. ASSUME NEW w \in Workers, TurnRestarts(w)
       PROVE  Abstract!Next \/ Still
    BY <2>15, UnchangedStill DEF TurnRestarts
  <2>16. ASSUME NEW w \in Workers, Finish(w)
       PROVE  Abstract!Next \/ Still
    <3>1. CASE UNCHANGED <<state, message>>
      BY <3>1, UnchangedStill
    <3>2. CASE ~UNCHANGED <<state, message>>
      <4> DEFINE x == cur[w]
      <4>1. /\ x \in Sessions /\ state[x] = "RUNNING"
            /\ state' = [state EXCEPT ![x] = "SUCCEEDED"]
            /\ message' = [message EXCEPT ![x] = "COMPLETED"]
        BY <2>16, <3>2 DEF Finish, End, UnchangedOutcome
      <4>2. message[x] = "none"
        BY <4>1, NothingShown
      <4>3. phase' = [phase EXCEPT ![x] = "answered"]
        <5>1. PhaseOf("SUCCEEDED") = "answered"
          BY DEF PhaseOf
        <5> QED
          BY <4>1, <5>1 DEF phase
      <4>4. shown' = [shown EXCEPT ![x] = "answer"]
        BY <4>1, ShownMoves DEF ShownOf
      <4>5. phase[x] = "started" /\ shown[x] = "nothing"
        BY <4>1, <4>2 DEF phase, shown, PhaseOf, ShownOf
      <4>6. Abstract!Answer(x)
        BY <4>3, <4>4, <4>5
        DEF Abstract!Answer, Abstract!Move, Abstract!Show, phase, shown
      <4> QED
        BY <4>1, <4>6 DEF Abstract!Next
    <3> QED
      BY <3>1, <3>2
  <2>17. ASSUME NEW w \in Workers, FinishAborts(w)
       PROVE  Abstract!Next \/ Still
    BY <2>17, UnchangedStill DEF FinishAborts
  <2>18. ASSUME NEW w \in Workers, Fail(w)
       PROVE  Abstract!Next \/ Still
    <3>1. CASE UNCHANGED <<state, message>>
      BY <3>1, UnchangedStill
    <3>2. CASE ~UNCHANGED <<state, message>>
      <4> DEFINE x == cur[w]
      <4>1. PICK st \in Stopped :
              /\ x \in Sessions /\ state[x] \in InProgress
              /\ state' = [state EXCEPT ![x] = st]
              /\ message' = [message EXCEPT ![x] = "FAILED"]
        <5>1. Owns(w, x) /\ End(x, Verdict(w)) /\ x \in Sessions
          BY <2>18, <3>2 DEF Fail, UnchangedOutcome
        <5>2. message' = [message EXCEPT ![x] = "FAILED"]
          BY <2>18, <3>2 DEF Fail, UnchangedOutcome
        <5>3. Verdict(w) \in Stopped
          BY DEF Verdict
        <5> QED
          BY <5>1, <5>2, <5>3 DEF End, Owns
      <4>2. message[x] = "none"
        BY <4>1, NothingShown
      <4>3. phase' = [phase EXCEPT ![x] = "stopped"]
        BY <4>1, PhaseMoves DEF PhaseOf
      <4>4. shown' = [shown EXCEPT ![x] = "notice"]
        BY <4>1, ShownMoves DEF ShownOf
      <4>5. phase[x] = "started" /\ shown[x] = "nothing"
        BY <4>1, <4>2 DEF phase, shown, PhaseOf, ShownOf
      <4>6. Abstract!Stop(x)
        BY <4>3, <4>4, <4>5
        DEF Abstract!Stop, Abstract!Move, Abstract!Show, phase, shown
      <4> QED
        BY <4>1, <4>6 DEF Abstract!Next
    <3> QED
      BY <3>1, <3>2
  <2>19. ASSUME NEW w \in Workers, FailAborts(w)
       PROVE  Abstract!Next \/ Still
    BY <2>19, UnchangedStill DEF FailAborts, Threw
  <2>20. ASSUME NEW w \in Workers, SpawnThrows(w)
       PROVE  Abstract!Next \/ Still
    BY <2>20, UnchangedStill DEF SpawnThrows
  <2>21. ASSUME NEW w \in Workers, Spawn(w)
       PROVE  Abstract!Next \/ Still
    BY <2>21, UnchangedStill DEF Spawn
  <2>22. ASSUME NEW w \in Workers, Capture(w)
       PROVE  Abstract!Next \/ Still
    BY <2>22, UnchangedStill DEF Capture
  <2>23. ASSUME NEW w \in Workers, Persist(w)
       PROVE  Abstract!Next \/ Still
    <3>1. /\ cur[w] \in Sessions /\ state[cur[w]] \in InProgress
          /\ state' = [state EXCEPT ![cur[w]] = "RUNNING"]
          /\ UNCHANGED message
      BY <2>23 DEF Persist, Owns
    <3>2. PhaseOf("RUNNING") = PhaseOf(state[cur[w]])
      BY <3>1 DEF PhaseOf
    <3> QED
      BY <3>1, <3>2, KeepsPhase
  <2>24. ASSUME NEW w \in Workers, PersistRejected(w)
       PROVE  Abstract!Next \/ Still
    BY <2>24, UnchangedStill DEF PersistRejected
  <2>25. ASSUME NEW w \in Workers, Disown(w)
       PROVE  Abstract!Next \/ Still
    <3>1. CASE UnchangedOutcome
      BY <2>25, <3>1, UnchangedStill DEF Disown, UnchangedOutcome
    <3>2. CASE End(cur[w], "FAILED") /\ state[cur[w]] \in InProgress
      <4>1. cur[w] \in Sessions /\ UNCHANGED message
        BY <2>25 DEF Disown
      <4>2. state' = [state EXCEPT ![cur[w]] = "FAILED"]
        BY <3>2 DEF End
      <4> QED
        BY <3>2, <4>1, <4>2, StopsSession
    <3> QED
      BY <2>25, <3>1, <3>2 DEF Disown, Owns
  <2>26. ASSUME NEW w \in Workers, Close(w)
       PROVE  Abstract!Next \/ Still
    BY <2>26, UnchangedStill DEF Close
  <2>27. ASSUME NEW w \in Workers, TermRead(w)
       PROVE  Abstract!Next \/ Still
    BY <2>27, UnchangedStill DEF TermRead
  <2>28. ASSUME NEW w \in Workers, TermMark(w)
       PROVE  Abstract!Next \/ Still
    <3>1. CASE UnchangedOutcome
      BY <2>28, <3>1, UnchangedStill DEF TermMark, UnchangedOutcome
    <3>2. CASE ~UnchangedOutcome
      <4>1. PICK st \in {"CANCELLED", "TIMED_OUT"} :
              /\ End(cur[w], st)
              /\ st = "CANCELLED" => state[cur[w]] = "CANCELLED"
              /\ st = "TIMED_OUT" => state[cur[w]] \in InProgress
        BY <2>28, <3>2 DEF TermMark
      <4>2. cur[w] \in Sessions /\ UNCHANGED message
        BY <2>28 DEF TermMark
      <4>3. state' = [state EXCEPT ![cur[w]] = st]
        BY <4>1 DEF End
      <4>4. CASE st = "CANCELLED"
        BY <4>1, <4>2, <4>3, <4>4, KeepsPhase
      <4>5. CASE st = "TIMED_OUT"
        BY <4>1, <4>2, <4>3, <4>5, StopsSession
      <4> QED
        BY <4>4, <4>5
    <3> QED
      BY <3>1, <3>2
  <2>29. ASSUME NEW w \in Workers, TermKill(w)
       PROVE  Abstract!Next \/ Still
    BY <2>29, UnchangedStill DEF TermKill
  <2>30. ASSUME NEW w \in Workers, Timeout(w)
       PROVE  Abstract!Next \/ Still
    BY <2>30, UnchangedStill DEF Timeout, Terminate, Terminate
  <2>31. ASSUME NEW w \in Workers, ObserveCancel(w)
       PROVE  Abstract!Next \/ Still
    BY <2>31, UnchangedStill DEF ObserveCancel, Terminate, Terminate
  <2>32. ASSUME NEW w \in Workers, Heartbeat(w)
       PROVE  Abstract!Next \/ Still
    BY <2>32, UnchangedStill DEF Heartbeat
  <2>33. ASSUME NEW w \in Workers, BeginSweep(w)
       PROVE  Abstract!Next \/ Still
    BY <2>33, UnchangedStill DEF BeginSweep
  <2>34. ASSUME NEW w \in Workers, EndSweep(w)
       PROVE  Abstract!Next \/ Still
    BY <2>34, UnchangedStill DEF EndSweep
  <2>35. ASSUME NEW w \in Workers, ReapKill(w)
       PROVE  Abstract!Next \/ Still
    BY <2>35, UnchangedStill DEF ReapKill
  <2>36. ASSUME NEW w \in Workers, ReapThread(w)
       PROVE  Abstract!Next \/ Still
    BY <2>36, UnchangedStill DEF ReapThread
  <2>37. ASSUME NEW w \in Workers, ReapNotice(w)
       PROVE  Abstract!Next \/ Still
    <3> DEFINE x == target[w]
    <3>1. x \in Sessions /\ state[x] = "FAILED" /\ UNCHANGED state
      BY <2>37 DEF ReapNotice
    <3>2. CASE message[x] # "none"
      BY <2>37, <3>1, <3>2, UnchangedStill DEF ReapNotice
    <3>3. CASE message[x] = "none"
      <4>1. message' = [message EXCEPT ![x] = "FAILED"]
        BY <2>37, <3>3 DEF ReapNotice
      <4>2. shown' = [shown EXCEPT ![x] = "notice"]
        BY <3>1, <4>1, ShownMoves DEF ShownOf
      <4>3. phase[x] = "stopped" /\ shown[x] = "nothing" /\ UNCHANGED phase
        BY <3>1, <3>3 DEF phase, shown, PhaseOf, ShownOf
      <4>4. Abstract!Notify(x)
        BY <4>2, <4>3 DEF Abstract!Notify, Abstract!Show, phase, shown
      <4> QED
        BY <3>1, <4>4 DEF Abstract!Next
    <3> QED
      BY <3>2, <3>3
  <2>38. ASSUME NEW w \in Workers, Crash(w)
       PROVE  Abstract!Next \/ Still
    BY <2>38, UnchangedStill DEF Crash, Finished
  <2>39. CASE UNCHANGED vars
    BY <2>39, UnchangedStill DEF vars
  <2> QED
    BY <2>1, <2>2, <2>3, <2>4, <2>5, <2>6, <2>7, <2>8, <2>9, <2>10, <2>11,
       <2>12, <2>13, <2>14, <2>15, <2>16, <2>17, <2>18, <2>19, <2>20,
       <2>21, <2>22, <2>23, <2>24, <2>25, <2>26, <2>27, <2>28, <2>29,
       <2>30, <2>31, <2>32, <2>33, <2>34, <2>35, <2>36, <2>37, <2>38,
       <2>39
    DEF Next, WorkerStep, JobStep, RunStep, TermStep, SweepStep

\* The rows implement the abstract execution: started at most once, ended once.
THEOREM Refinement == Spec => ImplementsExecution
<1>1. Init => Abstract!Init
  BY DEF Init, Abstract!Init, PhaseOf, ShownOf, InProgress
<1>2. Inv /\ [Next]_vars => [Abstract!Next]_(Abstract!vars)
  BY StepSimulation DEF Still, phase, shown, Abstract!vars
<1>3. QED
  BY <1>1, <1>2, InvCorrect, PTL DEF Spec, ImplementsExecution, Abstract!Spec
=============================================================================
