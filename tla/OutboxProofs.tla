---------------------------- MODULE OutboxProofs ----------------------------
(***************************************************************************)
(* Theorems of Outbox for every set of sweeps and events and all bounds.   *)
(* Paths is inductive as it stands.  Claims is inductive when a sweep      *)
(* takes less than the age at which a starting process takes a row for     *)
(* stuck: with MaxLag = RecoverAge TLC finds PublishedOnce violated.  The  *)
(* range of wait rests on the powers of two that delay a retry, a function *)
(* defined by recursion; no other part of the invariant depends on it.     *)
(***************************************************************************)
EXTENDS Outbox, WellFoundedInduction, TLAPS

USE OutboxAssumption

-----------------------------------------------------------------------------
(***************************************************************************)
(* Paths: where an event can be found.                                     *)
(***************************************************************************)

\* Updating a column keeps its type.
LEMMA UpdateType ==
  ASSUME NEW S, NEW f \in [Events -> S], NEW e, NEW x \in S
  PROVE  [f EXCEPT ![e] = x] \in [Events -> S]
OBVIOUS

\* Every step keeps the types.
LEMMA NextTyped ==
  ASSUME Typed, Shape, [Next]_vars
  PROVE  Typed'
<1> USE DEF Typed, Statuses, Waiting, Holding, Alive, AttemptCap, vars, database,
            queue, sweeps
<1>1. ASSUME NEW e \in Events, Enqueue(e)
      PROVE  Typed'
  BY <1>1 DEF Enqueue
<1>2. ASSUME NEW e \in Events, CancelSession(e)
      PROVE  Typed'
  BY <1>2 DEF CancelSession
<1>3. ASSUME NEW e \in Events, Withdraw(e)
      PROVE  Typed'
  BY <1>3 DEF Withdraw
<1>4. ASSUME NEW e \in Events, Deliver(e)
      PROVE  Typed'
  BY <1>4 DEF Deliver, Claim
<1>5. ASSUME NEW e \in Events, ClaimThrows(e)
      PROVE  Typed'
  BY <1>5 DEF ClaimThrows, Claim, Fault, Live
<1>6. ASSUME NEW e \in Events, ListenerReads(e)
      PROVE  Typed'
  BY <1>6 DEF ListenerReads, Live
<1>7. ASSUME NEW e \in Events, ListenerWrites(e)
      PROVE  Typed'
  BY <1>7 DEF ListenerWrites
<1>8. ASSUME NEW e \in Events, ListenerThrows(e)
      PROVE  Typed'
  BY <1>8 DEF ListenerThrows, Fault
<1>9. ASSUME NEW e \in Events, Forget(e)
      PROVE  Typed'
  BY <1>9 DEF Forget
<1>10. ASSUME NEW d \in Dispatchers, BeginSweep(d)
      PROVE  Typed'
  BY <1>10 DEF BeginSweep, Due
<1>11. ASSUME NEW d \in Dispatchers, EndSweep(d)
      PROVE  Typed'
  BY <1>11 DEF EndSweep
<1>12. ASSUME NEW d \in Dispatchers, Publish(d)
      PROVE  Typed'
  <2>1. at[d] \in Events
    BY <1>12 DEF Publish, Shape
  <2>2. published' \in [Events -> 0 .. 2]
    BY <1>12, <2>1 DEF Publish, Add
  <2>3. job' \in [Events -> {"none", "waiting", "failed", "ending", "kept"}]
    BY <1>12 DEF Publish, Add
  <2>4. QED
    BY <1>12, <2>2, <2>3 DEF Publish, Add
<1>13. ASSUME NEW d \in Dispatchers, PublishFails(d)
      PROVE  Typed'
  BY <1>13 DEF PublishFails
<1>14. ASSUME NEW d \in Dispatchers, PublishLost(d)
      PROVE  Typed'
  <2>1. at[d] \in Events
    BY <1>14 DEF PublishLost, Shape
  <2>2. published' \in [Events -> 0 .. 2]
    BY <1>14, <2>1 DEF PublishLost, Add
  <2>3. job' \in [Events -> {"none", "waiting", "failed", "ending", "kept"}]
    BY <1>14 DEF PublishLost, Add
  <2>4. pc' \in [Dispatchers -> {"down", "idle", "next"} \cup Holding]
    BY <1>14 DEF PublishLost
  <2>5. faults' \in 0 .. MaxFaults /\ unheard' = unheard
    BY <1>14 DEF PublishLost, Fault, Add
  <2>6. QED
    BY <1>14, <2>2, <2>3, <2>4, <2>5 DEF PublishLost
<1>15. ASSUME NEW d \in Dispatchers, RecordPublished(d)
      PROVE  Typed'
  <2>1. at[d] \in Events
    BY <1>15 DEF RecordPublished, Shape
  <2>2. attempts' \in [Events -> 0 .. AttemptCap]
    BY <1>15, <2>1 DEF RecordPublished, Counted
  <2>3. status' \in [Events -> Statuses]
    BY <1>15 DEF RecordPublished
  <2>4. age' \in [Events -> 0 .. RecoverAge]
    <3>1. age' = [age EXCEPT ![at[d]] = 0] /\ 0 \in 0 .. RecoverAge
      BY <1>15 DEF RecordPublished
    <3>2. QED
      BY <3>1, UpdateType DEF Typed
  <2>5. pc' \in [Dispatchers -> {"down", "idle", "next"} \cup Holding]
    BY <1>15 DEF RecordPublished, Proceed
  <2>6. at' \in [Dispatchers -> Events \cup {NoEvent}]
    BY <1>15 DEF RecordPublished, Proceed
  <2>7. QED
    BY <1>15, <2>2, <2>3, <2>4, <2>5, <2>6 DEF RecordPublished
<1>16. ASSUME NEW d \in Dispatchers, RecordThrows(d)
      PROVE  Typed'
  BY <1>16 DEF RecordThrows, Fault
<1>17. ASSUME NEW d \in Dispatchers, RecordFailure(d)
      PROVE  Typed'
  <2>1. at[d] \in Events
    BY <1>17 DEF RecordFailure, Shape
  <2>2. attempts' \in [Events -> 0 .. AttemptCap]
    BY <1>17, <2>1 DEF RecordFailure, Counted
  <2>3. status' \in [Events -> Statuses]
    BY <1>17 DEF RecordFailure
  <2>4. age' \in [Events -> 0 .. RecoverAge]
    <3>1. age' = [age EXCEPT ![at[d]] = 0] /\ 0 \in 0 .. RecoverAge
      BY <1>17 DEF RecordFailure
    <3>2. QED
      BY <3>1, UpdateType DEF Typed
  <2>5. pc' \in [Dispatchers -> {"down", "idle", "next"} \cup Holding]
    BY <1>17 DEF RecordFailure, Proceed
  <2>6. at' \in [Dispatchers -> Events \cup {NoEvent}]
    BY <1>17 DEF RecordFailure, Proceed
  <2>7. QED
    BY <1>17, <2>2, <2>3, <2>4, <2>5, <2>6 DEF RecordFailure
<1>18. ASSUME NEW d \in Dispatchers, FailureThrows(d)
      PROVE  Typed'
  BY <1>18 DEF FailureThrows, Fault, Abort
<1>19. ASSUME NEW d \in Dispatchers, NEW e \in Events, ClaimEvent(d, e)
      PROVE  Typed'
  <2>1. CASE Due(e, lag[d])
    <3>1. status[e] \in Waiting
      BY <2>1 DEF Due
    <3>2. status' \in [Events -> Statuses]
      BY <1>19, <2>1 DEF ClaimEvent
    <3>3. pc' \in [Dispatchers -> {"down", "idle", "next"} \cup Holding]
      BY SMTT(30), <1>19, <2>1 DEF ClaimEvent
    <3>4. age' \in [Events -> 0 .. RecoverAge]
      BY <1>19, <2>1 DEF ClaimEvent
    <3>5. at' \in [Dispatchers -> Events \cup {NoEvent}]
      BY <1>19, <2>1 DEF ClaimEvent
    <3>6. QED
      BY <1>19, <3>2, <3>3, <3>4, <3>5 DEF ClaimEvent
  <2>2. CASE ~Due(e, lag[d])
    BY <1>19, <2>2 DEF ClaimEvent
  <2>3. QED
    BY <2>1, <2>2
<1>20. ASSUME NEW d \in Dispatchers, Start(d)
      PROVE  Typed'
  BY <1>20 DEF Start
<1>21. ASSUME NEW d \in Dispatchers, Crash(d)
      PROVE  Typed'
  BY <1>21 DEF Crash, Fault
<1>22. ASSUME Tick
      PROVE  Typed'
  BY <1>22 DEF Tick, Busy
<1>23. ASSUME UNCHANGED vars
      PROVE  Typed'
  BY <1>23
<1>24. QED
  BY <1>1, <1>2, <1>3, <1>4, <1>5, <1>6, <1>7, <1>8, <1>9, <1>10, <1>11,
     <1>12, <1>13, <1>14, <1>15, <1>16, <1>17, <1>18, <1>19, <1>20, <1>21,
     <1>22, <1>23
     DEF Next, EventStep, WorkerStep, SweepStep

\* Every step keeps the correspondence of control and claimed event.
LEMMA NextShape ==
  ASSUME Typed, Shape, [Next]_vars
  PROVE  Shape'
<1> USE DEF Typed, Shape, Holding, vars, database, queue, sweeps
<1>1. ASSUME NEW e \in Events, Enqueue(e)
      PROVE  Shape'
  BY <1>1 DEF Enqueue
<1>2. ASSUME NEW e \in Events, CancelSession(e)
      PROVE  Shape'
  BY <1>2 DEF CancelSession
<1>3. ASSUME NEW e \in Events, Withdraw(e)
      PROVE  Shape'
  BY <1>3 DEF Withdraw
<1>4. ASSUME NEW e \in Events, Deliver(e)
      PROVE  Shape'
  BY <1>4 DEF Deliver, Claim
<1>5. ASSUME NEW e \in Events, ClaimThrows(e)
      PROVE  Shape'
  BY <1>5 DEF ClaimThrows, Claim, Fault, Live
<1>6. ASSUME NEW e \in Events, ListenerReads(e)
      PROVE  Shape'
  BY <1>6 DEF ListenerReads, Live
<1>7. ASSUME NEW e \in Events, ListenerWrites(e)
      PROVE  Shape'
  BY <1>7 DEF ListenerWrites
<1>8. ASSUME NEW e \in Events, ListenerThrows(e)
      PROVE  Shape'
  BY <1>8 DEF ListenerThrows, Fault
<1>9. ASSUME NEW e \in Events, Forget(e)
      PROVE  Shape'
  BY <1>9 DEF Forget
<1>10. ASSUME NEW d \in Dispatchers, BeginSweep(d)
      PROVE  Shape'
  BY <1>10 DEF BeginSweep, Due
<1>11. ASSUME NEW d \in Dispatchers, EndSweep(d)
      PROVE  Shape'
  BY <1>11 DEF EndSweep
<1>12. ASSUME NEW d \in Dispatchers, Publish(d)
      PROVE  Shape'
  BY <1>12 DEF Publish, Add
<1>13. ASSUME NEW d \in Dispatchers, PublishFails(d)
      PROVE  Shape'
  BY <1>13 DEF PublishFails
<1>14. ASSUME NEW d \in Dispatchers, PublishLost(d)
      PROVE  Shape'
  BY <1>14 DEF PublishLost, Add, Fault
<1>15. ASSUME NEW d \in Dispatchers, RecordPublished(d)
      PROVE  Shape'
  BY <1>15 DEF RecordPublished, Counted, Proceed
<1>16. ASSUME NEW d \in Dispatchers, RecordThrows(d)
      PROVE  Shape'
  BY <1>16 DEF RecordThrows, Fault
<1>17. ASSUME NEW d \in Dispatchers, RecordFailure(d)
      PROVE  Shape'
  BY <1>17 DEF RecordFailure, Counted, Proceed
<1>18. ASSUME NEW d \in Dispatchers, FailureThrows(d)
      PROVE  Shape'
  BY <1>18 DEF FailureThrows, Fault, Abort
<1>19. ASSUME NEW d \in Dispatchers, NEW e \in Events, ClaimEvent(d, e)
      PROVE  Shape'
  BY <1>19 DEF ClaimEvent, Due
<1>20. ASSUME NEW d \in Dispatchers, Start(d)
      PROVE  Shape'
  BY <1>20 DEF Start
<1>21. ASSUME NEW d \in Dispatchers, Crash(d)
      PROVE  Shape'
  BY <1>21 DEF Crash, Fault
<1>22. ASSUME Tick
      PROVE  Shape'
  BY <1>22 DEF Tick, Busy
<1>23. ASSUME UNCHANGED vars
      PROVE  Shape'
  BY <1>23
<1>24. QED
  BY <1>1, <1>2, <1>3, <1>4, <1>5, <1>6, <1>7, <1>8, <1>9, <1>10, <1>11,
     <1>12, <1>13, <1>14, <1>15, <1>16, <1>17, <1>18, <1>19, <1>20, <1>21,
     <1>22, <1>23
     DEF Next, EventStep, WorkerStep, SweepStep

\* Every step keeps events with their sessions.
LEMMA NextCommitted ==
  ASSUME Typed, Shape, Committed, [Next]_vars
  PROVE  Committed'
<1> USE DEF Typed, Shape, Committed, Holding, Waiting, vars, database, queue,
            sweeps
<1>1. ASSUME NEW e \in Events, Enqueue(e)
      PROVE  Committed'
  BY <1>1 DEF Enqueue
<1>2. ASSUME NEW e \in Events, CancelSession(e)
      PROVE  Committed'
  BY <1>2 DEF CancelSession
<1>3. ASSUME NEW e \in Events, Withdraw(e)
      PROVE  Committed'
  BY <1>3 DEF Withdraw
<1>4. ASSUME NEW e \in Events, Deliver(e)
      PROVE  Committed'
  BY <1>4 DEF Deliver, Claim
<1>5. ASSUME NEW e \in Events, ClaimThrows(e)
      PROVE  Committed'
  BY <1>5 DEF ClaimThrows, Claim, Fault, Live
<1>6. ASSUME NEW e \in Events, ListenerReads(e)
      PROVE  Committed'
  BY <1>6 DEF ListenerReads, Live
<1>7. ASSUME NEW e \in Events, ListenerWrites(e)
      PROVE  Committed'
  BY <1>7 DEF ListenerWrites
<1>8. ASSUME NEW e \in Events, ListenerThrows(e)
      PROVE  Committed'
  BY <1>8 DEF ListenerThrows, Fault
<1>9. ASSUME NEW e \in Events, Forget(e)
      PROVE  Committed'
  BY <1>9 DEF Forget
<1>10. ASSUME NEW d \in Dispatchers, BeginSweep(d)
      PROVE  Committed'
  BY <1>10 DEF BeginSweep, Due
<1>11. ASSUME NEW d \in Dispatchers, EndSweep(d)
      PROVE  Committed'
  BY <1>11 DEF EndSweep
<1>12. ASSUME NEW d \in Dispatchers, Publish(d)
      PROVE  Committed'
  BY <1>12 DEF Publish, Add
<1>13. ASSUME NEW d \in Dispatchers, PublishFails(d)
      PROVE  Committed'
  BY <1>13 DEF PublishFails
<1>14. ASSUME NEW d \in Dispatchers, PublishLost(d)
      PROVE  Committed'
  BY <1>14 DEF PublishLost, Add, Fault
<1>15. ASSUME NEW d \in Dispatchers, RecordPublished(d)
      PROVE  Committed'
  BY <1>15 DEF RecordPublished, Counted, Proceed
<1>16. ASSUME NEW d \in Dispatchers, RecordThrows(d)
      PROVE  Committed'
  BY <1>16 DEF RecordThrows, Fault
<1>17. ASSUME NEW d \in Dispatchers, RecordFailure(d)
      PROVE  Committed'
  BY <1>17 DEF RecordFailure, Counted, Proceed
<1>18. ASSUME NEW d \in Dispatchers, FailureThrows(d)
      PROVE  Committed'
  BY <1>18 DEF FailureThrows, Fault, Abort
<1>19. ASSUME NEW d \in Dispatchers, NEW e \in Events, ClaimEvent(d, e)
      PROVE  Committed'
  BY <1>19 DEF ClaimEvent, Due
<1>20. ASSUME NEW d \in Dispatchers, Start(d)
      PROVE  Committed'
  BY <1>20 DEF Start
<1>21. ASSUME NEW d \in Dispatchers, Crash(d)
      PROVE  Committed'
  BY <1>21 DEF Crash, Fault
<1>22. ASSUME Tick
      PROVE  Committed'
  BY <1>22 DEF Tick, Busy
<1>23. ASSUME UNCHANGED vars
      PROVE  Committed'
  BY <1>23
<1>24. QED
  BY <1>1, <1>2, <1>3, <1>4, <1>5, <1>6, <1>7, <1>8, <1>9, <1>10, <1>11,
     <1>12, <1>13, <1>14, <1>15, <1>16, <1>17, <1>18, <1>19, <1>20, <1>21,
     <1>22, <1>23
     DEF Next, EventStep, WorkerStep, SweepStep

\* Every step keeps jobs in the queue until they are delivered.
LEMMA NextDelivered ==
  ASSUME Typed, Shape, Committed, Delivered, [Next]_vars
  PROVE  Delivered'
<1> USE DEF Typed, Shape, Committed, Delivered, Holding, Alive, vars, database,
            queue, sweeps
<1>1. ASSUME NEW e \in Events, Enqueue(e)
      PROVE  Delivered'
  BY <1>1 DEF Enqueue
<1>2. ASSUME NEW e \in Events, CancelSession(e)
      PROVE  Delivered'
  BY <1>2 DEF CancelSession
<1>3. ASSUME NEW e \in Events, Withdraw(e)
      PROVE  Delivered'
  BY <1>3 DEF Withdraw
<1>4. ASSUME NEW e \in Events, Deliver(e)
      PROVE  Delivered'
  BY <1>4 DEF Deliver, Claim
<1>5. ASSUME NEW e \in Events, ClaimThrows(e)
      PROVE  Delivered'
  BY <1>5 DEF ClaimThrows, Claim, Fault, Live
<1>6. ASSUME NEW e \in Events, ListenerReads(e)
      PROVE  Delivered'
  BY <1>6 DEF ListenerReads, Live
<1>7. ASSUME NEW e \in Events, ListenerWrites(e)
      PROVE  Delivered'
  BY <1>7 DEF ListenerWrites
<1>8. ASSUME NEW e \in Events, ListenerThrows(e)
      PROVE  Delivered'
  BY <1>8 DEF ListenerThrows, Fault
<1>9. ASSUME NEW e \in Events, Forget(e)
      PROVE  Delivered'
  BY <1>9 DEF Forget
<1>10. ASSUME NEW d \in Dispatchers, BeginSweep(d)
      PROVE  Delivered'
  BY <1>10 DEF BeginSweep, Due
<1>11. ASSUME NEW d \in Dispatchers, EndSweep(d)
      PROVE  Delivered'
  BY <1>11 DEF EndSweep
<1>12. ASSUME NEW d \in Dispatchers, Publish(d)
      PROVE  Delivered'
  <2>1. at[d] \in Events
    BY <1>12 DEF Publish
  <2>2. job'[at[d]] \in Alive \/ job'[at[d]] = "kept"
    BY <1>12, <2>1 DEF Publish, Add
  <2>3. job'[at[d]] = "kept" => job[at[d]] = "kept"
    BY <1>12, <2>1 DEF Publish, Add
  <2>4. \A e \in Events :
            job[e] \in Alive \cup {"kept"} => job'[e] = job[e]
    BY <1>12 DEF Publish, Add
  <2>5. \A e \in Events : job'[e] = "kept" => job[e] = "kept"
    BY <1>12 DEF Publish, Add
  <2>6. /\ session' = session /\ unheard' = unheard /\ at' = at
        /\ pc' = [pc EXCEPT ![d] = "added"]
    BY <1>12 DEF Publish, Add
  <2>7. ASSUME NEW c \in Dispatchers, pc'[c] = "added"
        PROVE  \/ session'[at'[c]] # "QUEUED"
               \/ job'[at'[c]] \in Alive
               \/ at'[c] \in unheard'
    <3>1. CASE c = d
      BY <2>1, <2>2, <2>3, <2>6, <3>1
    <3>2. CASE c # d
      BY <2>4, <2>6, <2>7, <3>2
    <3>3. QED
      BY <3>1, <3>2
  <2>8. QED
    BY <2>5, <2>6, <2>7
<1>13. ASSUME NEW d \in Dispatchers, PublishFails(d)
      PROVE  Delivered'
  BY <1>13 DEF PublishFails
<1>14. ASSUME NEW d \in Dispatchers, PublishLost(d)
      PROVE  Delivered'
  <2>1. at[d] \in Events
    BY <1>14 DEF PublishLost
  <2>2. \A e \in Events :
            job[e] \in Alive \cup {"kept"} => job'[e] = job[e]
    BY <1>14 DEF PublishLost, Add
  <2>3. \A e \in Events : job'[e] = "kept" => job[e] = "kept"
    BY <1>14 DEF PublishLost, Add
  <2>4. /\ session' = session /\ unheard' = unheard /\ at' = at
        /\ pc' = [pc EXCEPT ![d] = "failing"]
    BY <1>14 DEF PublishLost, Add
  <2>5. ASSUME NEW c \in Dispatchers, pc'[c] = "added"
        PROVE  \/ session'[at'[c]] # "QUEUED"
               \/ job'[at'[c]] \in Alive
               \/ at'[c] \in unheard'
    <3>1. c # d /\ pc[c] = "added"
      BY <2>4, <2>5
    <3>2. QED
      BY <2>2, <2>4, <3>1
  <2>6. QED
    BY <2>3, <2>4, <2>5
<1>15. ASSUME NEW d \in Dispatchers, RecordPublished(d)
      PROVE  Delivered'
  BY <1>15 DEF RecordPublished, Counted, Proceed
<1>16. ASSUME NEW d \in Dispatchers, RecordThrows(d)
      PROVE  Delivered'
  BY <1>16 DEF RecordThrows, Fault
<1>17. ASSUME NEW d \in Dispatchers, RecordFailure(d)
      PROVE  Delivered'
  BY <1>17 DEF RecordFailure, Counted, Proceed
<1>18. ASSUME NEW d \in Dispatchers, FailureThrows(d)
      PROVE  Delivered'
  BY <1>18 DEF FailureThrows, Fault, Abort
<1>19. ASSUME NEW d \in Dispatchers, NEW e \in Events, ClaimEvent(d, e)
      PROVE  Delivered'
  <2>1. CASE Due(e, lag[d])
    <3>1. status[e] \in Waiting
      BY <2>1 DEF Due
    <3>2. QED
      BY <1>19, <2>1, <3>1 DEF ClaimEvent
  <2>2. CASE ~Due(e, lag[d])
    BY <1>19, <2>2 DEF ClaimEvent
  <2>3. QED
    BY <2>1, <2>2
<1>20. ASSUME NEW d \in Dispatchers, Start(d)
      PROVE  Delivered'
  BY <1>20 DEF Start
<1>21. ASSUME NEW d \in Dispatchers, Crash(d)
      PROVE  Delivered'
  BY <1>21 DEF Crash, Fault
<1>22. ASSUME Tick
      PROVE  Delivered'
  BY <1>22 DEF Tick, Busy
<1>23. ASSUME UNCHANGED vars
      PROVE  Delivered'
  BY <1>23
<1>24. QED
  BY <1>1, <1>2, <1>3, <1>4, <1>5, <1>6, <1>7, <1>8, <1>9, <1>10, <1>11,
     <1>12, <1>13, <1>14, <1>15, <1>16, <1>17, <1>18, <1>19, <1>20, <1>21,
     <1>22, <1>23
     DEF Next, EventStep, WorkerStep, SweepStep

\* No step takes a queued session off every path.
LEMMA NextPath ==
  ASSUME Typed, Shape, Committed, Delivered, QueuedHasPath, [Next]_vars
  PROVE  QueuedHasPath'
<1> USE DEF Typed, Shape, Committed, Delivered, QueuedHasPath, Statuses,
            Waiting, Holding, Alive, vars, database, queue, sweeps
<1>1. ASSUME NEW e \in Events, Enqueue(e)
      PROVE  QueuedHasPath'
  BY <1>1 DEF Enqueue
<1>2. ASSUME NEW e \in Events, CancelSession(e)
      PROVE  QueuedHasPath'
  BY <1>2 DEF CancelSession
<1>3. ASSUME NEW e \in Events, Withdraw(e)
      PROVE  QueuedHasPath'
  BY <1>3 DEF Withdraw
<1>4. ASSUME NEW e \in Events, Deliver(e)
      PROVE  QueuedHasPath'
  BY <1>4 DEF Deliver, Claim
<1>5. ASSUME NEW e \in Events, ClaimThrows(e)
      PROVE  QueuedHasPath'
  BY <1>5 DEF ClaimThrows, Claim, Fault, Live
<1>6. ASSUME NEW e \in Events, ListenerReads(e)
      PROVE  QueuedHasPath'
  BY <1>6 DEF ListenerReads, Live
<1>7. ASSUME NEW e \in Events, ListenerWrites(e)
      PROVE  QueuedHasPath'
  BY <1>7 DEF ListenerWrites
<1>8. ASSUME NEW e \in Events, ListenerThrows(e)
      PROVE  QueuedHasPath'
  BY <1>8 DEF ListenerThrows, Fault
<1>9. ASSUME NEW e \in Events, Forget(e)
      PROVE  QueuedHasPath'
  BY <1>9 DEF Forget
<1>10. ASSUME NEW d \in Dispatchers, BeginSweep(d)
      PROVE  QueuedHasPath'
  BY <1>10 DEF BeginSweep, Due
<1>11. ASSUME NEW d \in Dispatchers, EndSweep(d)
      PROVE  QueuedHasPath'
  BY <1>11 DEF EndSweep
<1>12. ASSUME NEW d \in Dispatchers, Publish(d)
      PROVE  QueuedHasPath'
  BY <1>12 DEF Publish, Add
<1>13. ASSUME NEW d \in Dispatchers, PublishFails(d)
      PROVE  QueuedHasPath'
  BY <1>13 DEF PublishFails
<1>14. ASSUME NEW d \in Dispatchers, PublishLost(d)
      PROVE  QueuedHasPath'
  BY <1>14 DEF PublishLost, Add, Fault
<1>15. ASSUME NEW d \in Dispatchers, RecordPublished(d)
      PROVE  QueuedHasPath'
  BY <1>15 DEF RecordPublished, Counted, Proceed
<1>16. ASSUME NEW d \in Dispatchers, RecordThrows(d)
      PROVE  QueuedHasPath'
  BY <1>16 DEF RecordThrows, Fault
<1>17. ASSUME NEW d \in Dispatchers, RecordFailure(d)
      PROVE  QueuedHasPath'
  BY <1>17 DEF RecordFailure, Counted, Proceed
<1>18. ASSUME NEW d \in Dispatchers, FailureThrows(d)
      PROVE  QueuedHasPath'
  BY <1>18 DEF FailureThrows, Fault, Abort
<1>19. ASSUME NEW d \in Dispatchers, NEW e \in Events, ClaimEvent(d, e)
      PROVE  QueuedHasPath'
  BY <1>19 DEF ClaimEvent, Due
<1>20. ASSUME NEW d \in Dispatchers, Start(d)
      PROVE  QueuedHasPath'
  BY <1>20 DEF Start
<1>21. ASSUME NEW d \in Dispatchers, Crash(d)
      PROVE  QueuedHasPath'
  BY <1>21 DEF Crash, Fault
<1>22. ASSUME Tick
      PROVE  QueuedHasPath'
  BY <1>22 DEF Tick, Busy
<1>23. ASSUME UNCHANGED vars
      PROVE  QueuedHasPath'
  BY <1>23
<1>24. QED
  BY <1>1, <1>2, <1>3, <1>4, <1>5, <1>6, <1>7, <1>8, <1>9, <1>10, <1>11,
     <1>12, <1>13, <1>14, <1>15, <1>16, <1>17, <1>18, <1>19, <1>20, <1>21,
     <1>22, <1>23
     DEF Next, EventStep, WorkerStep, SweepStep

\* Paths holds in every reachable state.
THEOREM PathsCorrect == Spec => []Paths
<1>1. Init => Paths
  BY DEF Init, Paths, Typed, Shape, Committed, Delivered, QueuedHasPath,
         Statuses, Holding, AttemptCap
<1>2. Paths /\ [Next]_vars => Paths'
  BY NextTyped, NextShape, NextCommitted, NextDelivered, NextPath DEF Paths
<1>3. QED
  BY <1>1, <1>2, PTL DEF Spec

\* A queued session always has its event or its job: the web application
\* never strands one, whatever crashes and whatever late sweeps write.
THEOREM QueuedHasPathCorrect == Spec => []QueuedHasPath
<1>1. Paths => QueuedHasPath
  BY DEF Paths
<1>2. QED
  BY <1>1, PathsCorrect, PTL

-----------------------------------------------------------------------------
(***************************************************************************)
(* Claims: what the compare-and-swap protects.                             *)
(***************************************************************************)

\* Under the assumption on the duration of a sweep, a row that a sweep holds
\* is too young to be taken for stuck, and is not claimed again.
LEMMA NextClaims ==
  ASSUME MaxLag < RecoverAge, Typed, Typed', Shape, Shape', Committed,
         Young, OneHolder, [Next]_vars
  PROVE  Young' /\ OneHolder'
<1> USE DEF Typed, Shape, Committed, Young, OneHolder, Holding, Waiting, vars,
            database, queue, sweeps
<1>1. ASSUME NEW e \in Events, Enqueue(e)
      PROVE  Young' /\ OneHolder'
  BY <1>1 DEF Enqueue
<1>2. ASSUME NEW e \in Events, CancelSession(e)
      PROVE  Young' /\ OneHolder'
  BY <1>2 DEF CancelSession
<1>3. ASSUME NEW e \in Events, Withdraw(e)
      PROVE  Young' /\ OneHolder'
  BY <1>3 DEF Withdraw
<1>4. ASSUME NEW e \in Events, Deliver(e)
      PROVE  Young' /\ OneHolder'
  BY <1>4 DEF Deliver, Claim
<1>5. ASSUME NEW e \in Events, ClaimThrows(e)
      PROVE  Young' /\ OneHolder'
  BY <1>5 DEF ClaimThrows, Claim, Fault, Live
<1>6. ASSUME NEW e \in Events, ListenerReads(e)
      PROVE  Young' /\ OneHolder'
  BY <1>6 DEF ListenerReads, Live
<1>7. ASSUME NEW e \in Events, ListenerWrites(e)
      PROVE  Young' /\ OneHolder'
  BY <1>7 DEF ListenerWrites
<1>8. ASSUME NEW e \in Events, ListenerThrows(e)
      PROVE  Young' /\ OneHolder'
  BY <1>8 DEF ListenerThrows, Fault
<1>9. ASSUME NEW e \in Events, Forget(e)
      PROVE  Young' /\ OneHolder'
  BY <1>9 DEF Forget
<1>10. ASSUME NEW d \in Dispatchers, BeginSweep(d)
      PROVE  Young' /\ OneHolder'
  BY <1>10 DEF BeginSweep, Due
<1>11. ASSUME NEW d \in Dispatchers, EndSweep(d)
      PROVE  Young' /\ OneHolder'
  BY <1>11 DEF EndSweep
<1>12. ASSUME NEW d \in Dispatchers, Publish(d)
      PROVE  Young' /\ OneHolder'
  BY <1>12 DEF Publish, Add
<1>13. ASSUME NEW d \in Dispatchers, PublishFails(d)
      PROVE  Young' /\ OneHolder'
  BY <1>13 DEF PublishFails
<1>14. ASSUME NEW d \in Dispatchers, PublishLost(d)
      PROVE  Young' /\ OneHolder'
  BY <1>14 DEF PublishLost, Add, Fault
<1>15. ASSUME NEW d \in Dispatchers, RecordPublished(d)
      PROVE  Young' /\ OneHolder'
  BY <1>15 DEF RecordPublished, Counted, Proceed
<1>16. ASSUME NEW d \in Dispatchers, RecordThrows(d)
      PROVE  Young' /\ OneHolder'
  BY <1>16 DEF RecordThrows, Fault
<1>17. ASSUME NEW d \in Dispatchers, RecordFailure(d)
      PROVE  Young' /\ OneHolder'
  BY <1>17 DEF RecordFailure, Counted, Proceed
<1>18. ASSUME NEW d \in Dispatchers, FailureThrows(d)
      PROVE  Young' /\ OneHolder'
  BY <1>18 DEF FailureThrows, Fault, Abort
<1>19. ASSUME NEW d \in Dispatchers, NEW e \in Events, ClaimEvent(d, e)
      PROVE  Young' /\ OneHolder'
  <2>1. CASE Due(e, lag[d])
    <3>1. status[e] \in Waiting
      BY <2>1 DEF Due
    <3>2. at[d] = NoEvent /\ \A c \in Dispatchers : pc[c] \in Holding => at[c] # e
      BY <1>19, <3>1 DEF ClaimEvent
    <3>3. /\ status' = [status EXCEPT ![e] = "DISPATCHING"]
          /\ age' = [age EXCEPT ![e] = 0]
          /\ pc' = [pc EXCEPT ![d] = "claimed"]
          /\ at' = [at EXCEPT ![d] = e]
          /\ lag' = lag
      BY <1>19, <2>1 DEF ClaimEvent
    <3>4. Young'
      BY <3>2, <3>3
    <3>5. OneHolder'
      BY <3>2, <3>3
    <3>6. QED
      BY <3>4, <3>5
  <2>2. CASE ~Due(e, lag[d])
    BY <1>19, <2>2 DEF ClaimEvent
  <2>3. QED
    BY <2>1, <2>2
<1>20. ASSUME NEW d \in Dispatchers, Start(d)
      PROVE  Young' /\ OneHolder'
  BY <1>20 DEF Start
<1>21. ASSUME NEW d \in Dispatchers, Crash(d)
      PROVE  Young' /\ OneHolder'
  BY <1>21 DEF Crash, Fault
<1>22. ASSUME Tick
      PROVE  Young' /\ OneHolder'
  BY <1>22 DEF Tick, Busy
<1>23. ASSUME UNCHANGED vars
      PROVE  Young' /\ OneHolder'
  BY <1>23
<1>24. QED
  BY <1>1, <1>2, <1>3, <1>4, <1>5, <1>6, <1>7, <1>8, <1>9, <1>10, <1>11,
     <1>12, <1>13, <1>14, <1>15, <1>16, <1>17, <1>18, <1>19, <1>20, <1>21,
     <1>22, <1>23
     DEF Next, EventStep, WorkerStep, SweepStep

\* Without a fault, an event that no sweep is about to record and that is not
\* recorded either was never added.
LEMMA NeverAdded ==
  ASSUME AddedOnce, faults = 0, NEW e \in Events, status[e] # "PUBLISHED",
         \A c \in Dispatchers : ~(pc[c] = "added" /\ at[c] = e)
  PROVE  published[e] # 1
BY DEF AddedOnce

\* Neither is an event added twice unless something failed.
LEMMA NextAddedOnce ==
  ASSUME MaxLag < RecoverAge, Typed, Typed', Shape, Committed, Young,
         OneHolder, AddedOnce, [Next]_vars
  PROVE  AddedOnce'
<1> USE DEF Typed, Shape, Committed, Young, OneHolder, AddedOnce, Holding,
            Waiting, vars, database, queue, sweeps
<1>1. ASSUME NEW e \in Events, Enqueue(e)
      PROVE  AddedOnce'
  BY <1>1 DEF Enqueue
<1>2. ASSUME NEW e \in Events, CancelSession(e)
      PROVE  AddedOnce'
  BY <1>2 DEF CancelSession
<1>3. ASSUME NEW e \in Events, Withdraw(e)
      PROVE  AddedOnce'
  BY <1>3 DEF Withdraw
<1>4. ASSUME NEW e \in Events, Deliver(e)
      PROVE  AddedOnce'
  BY <1>4 DEF Deliver, Claim
<1>5. ASSUME NEW e \in Events, ClaimThrows(e)
      PROVE  AddedOnce'
  BY <1>5 DEF ClaimThrows, Claim, Fault, Live
<1>6. ASSUME NEW e \in Events, ListenerReads(e)
      PROVE  AddedOnce'
  BY <1>6 DEF ListenerReads, Live
<1>7. ASSUME NEW e \in Events, ListenerWrites(e)
      PROVE  AddedOnce'
  BY <1>7 DEF ListenerWrites
<1>8. ASSUME NEW e \in Events, ListenerThrows(e)
      PROVE  AddedOnce'
  BY <1>8 DEF ListenerThrows, Fault
<1>9. ASSUME NEW e \in Events, Forget(e)
      PROVE  AddedOnce'
  BY <1>9 DEF Forget
<1>10. ASSUME NEW d \in Dispatchers, BeginSweep(d)
      PROVE  AddedOnce'
  BY <1>10 DEF BeginSweep, Due
<1>11. ASSUME NEW d \in Dispatchers, EndSweep(d)
      PROVE  AddedOnce'
  BY <1>11 DEF EndSweep
<1>12. ASSUME NEW d \in Dispatchers, Publish(d)
      PROVE  AddedOnce'
  BY <1>12 DEF Publish, Add
<1>13. ASSUME NEW d \in Dispatchers, PublishFails(d)
      PROVE  AddedOnce'
  BY <1>13 DEF PublishFails
<1>14. ASSUME NEW d \in Dispatchers, PublishLost(d)
      PROVE  AddedOnce'
  BY <1>14 DEF PublishLost, Add, Fault
<1>15. ASSUME NEW d \in Dispatchers, RecordPublished(d)
      PROVE  AddedOnce'
  BY <1>15 DEF RecordPublished, Counted, Proceed
<1>16. ASSUME NEW d \in Dispatchers, RecordThrows(d)
      PROVE  AddedOnce'
  BY <1>16 DEF RecordThrows, Fault
<1>17. ASSUME NEW d \in Dispatchers, RecordFailure(d)
      PROVE  AddedOnce'
  BY <1>17 DEF RecordFailure, Counted, Proceed
<1>18. ASSUME NEW d \in Dispatchers, FailureThrows(d)
      PROVE  AddedOnce'
  BY <1>18 DEF FailureThrows, Fault, Abort
<1>19. ASSUME NEW d \in Dispatchers, NEW e \in Events, ClaimEvent(d, e)
      PROVE  AddedOnce'
  <2>1. CASE Due(e, lag[d])
    <3>1. status[e] \in Waiting
      BY <2>1 DEF Due
    <3>2. \A c \in Dispatchers : ~(pc[c] = "added" /\ at[c] = e)
      BY <3>1
    <3>3. faults = 0 => published[e] # 1
      <4>1. status[e] # "PUBLISHED"
        BY <3>1
      <4>2. QED
        BY <3>2, <4>1, NeverAdded
    <3>4. \A c \in Dispatchers : pc[c] = "added" => pc'[c] = "added" /\ at'[c] = at[c]
      BY <1>19, <2>1 DEF ClaimEvent
    <3>5. \A f \in Events : f # e => status'[f] = status[f]
      BY <1>19, <2>1 DEF ClaimEvent
    <3>6. published' = published /\ faults' = faults
      BY <1>19, <2>1 DEF ClaimEvent
    <3>7. ASSUME NEW f \in Events, faults = 0, published[f] = 1
          PROVE  \/ status'[f] = "PUBLISHED"
                 \/ \E c \in Dispatchers : pc'[c] = "added" /\ at'[c] = f
      <4>1. f # e
        BY <3>3, <3>7
      <4>2. QED
        BY <3>4, <3>5, <3>7, <4>1
    <3>8. QED
      BY <3>6, <3>7
  <2>2. CASE ~Due(e, lag[d])
    BY <1>19, <2>2 DEF ClaimEvent
  <2>3. QED
    BY <2>1, <2>2
<1>20. ASSUME NEW d \in Dispatchers, Start(d)
      PROVE  AddedOnce'
  BY <1>20 DEF Start
<1>21. ASSUME NEW d \in Dispatchers, Crash(d)
      PROVE  AddedOnce'
  BY <1>21 DEF Crash, Fault
<1>22. ASSUME Tick
      PROVE  AddedOnce'
  BY <1>22 DEF Tick, Busy
<1>23. ASSUME UNCHANGED vars
      PROVE  AddedOnce'
  BY <1>23
<1>24. QED
  BY <1>1, <1>2, <1>3, <1>4, <1>5, <1>6, <1>7, <1>8, <1>9, <1>10, <1>11,
     <1>12, <1>13, <1>14, <1>15, <1>16, <1>17, <1>18, <1>19, <1>20, <1>21,
     <1>22, <1>23
     DEF Next, EventStep, WorkerStep, SweepStep

\* Claims holds in every reachable state if sweeps are fast.
THEOREM ClaimsCorrect ==
  ASSUME MaxLag < RecoverAge
  PROVE  Spec => []Claims
<1>1. Init => Claims
  BY DEF Init, Claims, Young, OneHolder, AddedOnce, Holding
<1>2. Paths /\ Paths' /\ Claims /\ [Next]_vars => Claims'
  BY NextClaims, NextAddedOnce DEF Paths, Claims
<1>3. QED
  BY <1>1, <1>2, PathsCorrect, PTL DEF Spec

\* No two sweeps dispatch one event at a time, if sweeps are fast.
THEOREM OneHolderCorrect ==
  ASSUME MaxLag < RecoverAge
  PROVE  Spec => []OneHolder
<1>1. Claims => OneHolder
  BY DEF Claims
<1>2. QED
  BY <1>1, ClaimsCorrect, PTL

\* An event is published once if sweeps are fast and nothing fails.
THEOREM PublishedOnceCorrect ==
  ASSUME MaxLag < RecoverAge
  PROVE  Spec => []PublishedOnce
<1>1. Claims => PublishedOnce
  BY DEF Claims, AddedOnce, PublishedOnce
<1>2. QED
  BY <1>1, ClaimsCorrect, PTL

\* A published or dead event keeps its status.
LEMMA NextSettled ==
  ASSUME MaxLag < RecoverAge, Typed, Shape, Committed, Young, [Next]_vars,
         NEW x \in Events, status[x] \in {"PUBLISHED", "DEAD_LETTER"}
  PROVE  status'[x] = status[x]
<1> USE DEF Typed, Shape, Committed, Young, Holding, Waiting, vars, database,
            queue, sweeps
<1>1. ASSUME NEW e \in Events, Enqueue(e)
      PROVE  status'[x] = status[x]
  BY <1>1 DEF Enqueue
<1>2. ASSUME NEW e \in Events, CancelSession(e)
      PROVE  status'[x] = status[x]
  BY <1>2 DEF CancelSession
<1>3. ASSUME NEW e \in Events, Withdraw(e)
      PROVE  status'[x] = status[x]
  BY <1>3 DEF Withdraw
<1>4. ASSUME NEW e \in Events, Deliver(e)
      PROVE  status'[x] = status[x]
  BY <1>4 DEF Deliver, Claim
<1>5. ASSUME NEW e \in Events, ClaimThrows(e)
      PROVE  status'[x] = status[x]
  BY <1>5 DEF ClaimThrows, Claim, Fault, Live
<1>6. ASSUME NEW e \in Events, ListenerReads(e)
      PROVE  status'[x] = status[x]
  BY <1>6 DEF ListenerReads, Live
<1>7. ASSUME NEW e \in Events, ListenerWrites(e)
      PROVE  status'[x] = status[x]
  BY <1>7 DEF ListenerWrites
<1>8. ASSUME NEW e \in Events, ListenerThrows(e)
      PROVE  status'[x] = status[x]
  BY <1>8 DEF ListenerThrows, Fault
<1>9. ASSUME NEW e \in Events, Forget(e)
      PROVE  status'[x] = status[x]
  BY <1>9 DEF Forget
<1>10. ASSUME NEW d \in Dispatchers, BeginSweep(d)
      PROVE  status'[x] = status[x]
  BY <1>10 DEF BeginSweep, Due
<1>11. ASSUME NEW d \in Dispatchers, EndSweep(d)
      PROVE  status'[x] = status[x]
  BY <1>11 DEF EndSweep
<1>12. ASSUME NEW d \in Dispatchers, Publish(d)
      PROVE  status'[x] = status[x]
  BY <1>12 DEF Publish, Add
<1>13. ASSUME NEW d \in Dispatchers, PublishFails(d)
      PROVE  status'[x] = status[x]
  BY <1>13 DEF PublishFails
<1>14. ASSUME NEW d \in Dispatchers, PublishLost(d)
      PROVE  status'[x] = status[x]
  BY <1>14 DEF PublishLost, Add, Fault
<1>15. ASSUME NEW d \in Dispatchers, RecordPublished(d)
      PROVE  status'[x] = status[x]
  BY <1>15 DEF RecordPublished, Counted, Proceed
<1>16. ASSUME NEW d \in Dispatchers, RecordThrows(d)
      PROVE  status'[x] = status[x]
  BY <1>16 DEF RecordThrows, Fault
<1>17. ASSUME NEW d \in Dispatchers, RecordFailure(d)
      PROVE  status'[x] = status[x]
  BY <1>17 DEF RecordFailure, Counted, Proceed
<1>18. ASSUME NEW d \in Dispatchers, FailureThrows(d)
      PROVE  status'[x] = status[x]
  BY <1>18 DEF FailureThrows, Fault, Abort
<1>19. ASSUME NEW d \in Dispatchers, NEW e \in Events, ClaimEvent(d, e)
      PROVE  status'[x] = status[x]
  BY <1>19 DEF ClaimEvent, Due
<1>20. ASSUME NEW d \in Dispatchers, Start(d)
      PROVE  status'[x] = status[x]
  BY <1>20 DEF Start
<1>21. ASSUME NEW d \in Dispatchers, Crash(d)
      PROVE  status'[x] = status[x]
  BY <1>21 DEF Crash, Fault
<1>22. ASSUME Tick
      PROVE  status'[x] = status[x]
  BY <1>22 DEF Tick, Busy
<1>23. ASSUME UNCHANGED vars
      PROVE  status'[x] = status[x]
  BY <1>23
<1>24. QED
  BY <1>1, <1>2, <1>3, <1>4, <1>5, <1>6, <1>7, <1>8, <1>9, <1>10, <1>11,
     <1>12, <1>13, <1>14, <1>15, <1>16, <1>17, <1>18, <1>19, <1>20, <1>21,
     <1>22, <1>23
     DEF Next, EventStep, WorkerStep, SweepStep

\* No late write brings a published event or a dead letter back, if sweeps
\* are fast.
THEOREM SettledStaysCorrect ==
  ASSUME MaxLag < RecoverAge
  PROVE  Spec => SettledStays
<1>1. Paths /\ Claims /\ [Next]_vars =>
        [\A e \in Events : status[e] \in {"PUBLISHED", "DEAD_LETTER"} =>
            status'[e] = status[e]]_vars
  BY NextSettled DEF Paths, Claims
<1>2. QED
  BY <1>1, PathsCorrect, ClaimsCorrect, PTL DEF Spec, SettledStays

-----------------------------------------------------------------------------
(***************************************************************************)
(* TypeOK: how far away a retry can be.                                    *)
(***************************************************************************)

\* A set of numbers that is not empty has a least element.
LEMMA LeastExists ==
  ASSUME NEW T, T \subseteq Nat, T # {}
  PROVE  \E x \in T : \A y \in T : x <= y
<1>1. PICK x \in T : \A y \in T : ~ (<<y, x>> \in OpToRel(<, Nat))
  BY WFMin, NatLessThanWellFounded
<1>2. ASSUME NEW y \in T, y < x
      PROVE  FALSE
  <2>1. <<y, x>> \in OpToRel(<, Nat)
    BY <1>2 DEF OpToRel
  <2>2. QED
    BY <1>1, <2>1
<1>3. QED
  BY <1>2

\* Induction over a set of numbers.
LEMMA Induction ==
  ASSUME NEW T, T \subseteq Nat, 0 \in T, \A n \in T : n + 1 \in T
  PROVE  T = Nat
<1>1. SUFFICES ASSUME Nat \ T # {}
               PROVE  FALSE
  OBVIOUS
<1>2. Nat \ T \subseteq Nat
  OBVIOUS
<1>3. PICK x \in Nat \ T : \A y \in Nat \ T : x <= y
  BY <1>1, <1>2, LeastExists
<1>4. x - 1 \in Nat /\ (x - 1) + 1 = x /\ ~ (x <= x - 1)
  BY <1>3
<1>5. x - 1 \in T
  BY <1>3, <1>4
<1>6. QED
  BY <1>3, <1>4, <1>5

\* The powers of two up to the n-th, as the definition of TwoTo has them.
IsTable(g, n) ==
  g = [i \in 0 .. n |-> IF i = 0 THEN 1 ELSE 2 * g[i - 1]]

\* There is a table of every length.
LEMMA TableExists ==
  \A n \in Nat : \E g \in [0 .. n -> Nat] : IsTable(g, n)
<1> DEFINE T == {n \in Nat : \E g \in [0 .. n -> Nat] : IsTable(g, n)}
<1>1. 0 \in T
  <2> DEFINE g == [i \in 0 .. 0 |-> 1]
  <2>1. g \in [0 .. 0 -> Nat] /\ IsTable(g, 0)
    BY DEF IsTable
  <2>2. QED
    BY <2>1
<1>2. ASSUME NEW n \in T
      PROVE  n + 1 \in T
  <2>1. PICK g \in [0 .. n -> Nat] : IsTable(g, n)
    OBVIOUS
  <2> DEFINE h == [i \in 0 .. n + 1 |-> IF i = n + 1 THEN 2 * g[n] ELSE g[i]]
  <2>2. n \in Nat /\ n + 1 \in Nat
    OBVIOUS
  <2>3. h \in [0 .. n + 1 -> Nat]
    BY <2>2
  <2>4. \A i \in 0 .. n : g[i] = IF i = 0 THEN 1 ELSE 2 * g[i - 1]
    BY <2>1 DEF IsTable
  <2>5. \A i \in 0 .. n + 1 : h[i] = IF i = 0 THEN 1 ELSE 2 * h[i - 1]
    <3>1. TAKE i \in 0 .. n + 1
    <3>2. CASE i = n + 1
      BY <2>2, <3>2
    <3>3. CASE i = 0
      BY <2>2, <2>4, <3>3
    <3>4. CASE i # 0 /\ i # n + 1
      <4>1. i \in 0 .. n /\ i - 1 \in 0 .. n /\ i - 1 \in 0 .. n + 1
        BY <2>2, <3>4
      <4>2. h[i] = g[i] /\ h[i - 1] = g[i - 1]
        BY <2>2, <4>1
      <4>3. QED
        BY <2>4, <3>4, <4>1, <4>2
    <3>5. QED
      BY <3>2, <3>3, <3>4
  <2>6. IsTable(h, n + 1)
    BY <2>5 DEF IsTable
  <2>7. QED
    BY <2>2, <2>3, <2>6
<1>3. T = Nat
  <2> HIDE DEF T
  <2>1. T \subseteq Nat
    BY DEF T
  <2>2. QED
    BY <1>1, <1>2, <2>1, Induction
<1>4. QED
  BY <1>3

\* Two tables agree where both are defined.
LEMMA TablesAgree ==
  ASSUME NEW m \in Nat, NEW n \in Nat, NEW g, NEW h, IsTable(g, m), IsTable(h, n)
  PROVE  \A i \in Nat : i <= m /\ i <= n => g[i] = h[i]
<1> DEFINE T == {i \in Nat : i <= m /\ i <= n => g[i] = h[i]}
<1>1. \A i \in 0 .. m : g[i] = IF i = 0 THEN 1 ELSE 2 * g[i - 1]
  BY DEF IsTable
<1>2. \A i \in 0 .. n : h[i] = IF i = 0 THEN 1 ELSE 2 * h[i - 1]
  BY DEF IsTable
<1>3. 0 \in T
  BY <1>1, <1>2
<1>4. ASSUME NEW i \in T
      PROVE  i + 1 \in T
  <2>1. i \in Nat /\ i + 1 \in Nat /\ i + 1 # 0 /\ (i + 1) - 1 = i
    OBVIOUS
  <2>2. SUFFICES ASSUME i + 1 <= m, i + 1 <= n
                 PROVE  g[i + 1] = h[i + 1]
    BY <2>1
  <2>3. i + 1 \in 0 .. m /\ i + 1 \in 0 .. n /\ i <= m /\ i <= n
    BY <2>1, <2>2
  <2>4. g[i + 1] = 2 * g[i] /\ h[i + 1] = 2 * h[i]
    BY <1>1, <1>2, <2>1, <2>3
  <2>5. g[i] = h[i]
    BY <2>3
  <2>6. QED
    BY <2>4, <2>5
<1>5. T = Nat
  <2> HIDE DEF T
  <2>1. T \subseteq Nat
    BY DEF T
  <2>2. QED
    BY <1>3, <1>4, <2>1, Induction
<1>6. QED
  BY <1>5

\* The definition of TwoTo by recursion has a solution, so that TwoTo is one.
LEMMA TwoToDefined ==
  TwoTo = [n \in Nat |-> IF n = 0 THEN 1 ELSE 2 * TwoTo[n - 1]]
<1> DEFINE Table(n) == CHOOSE g \in [0 .. n -> Nat] : IsTable(g, n)
           f == [n \in Nat |-> Table(n)[n]]
<1>1. \A n \in Nat : Table(n) \in [0 .. n -> Nat] /\ IsTable(Table(n), n)
  BY TableExists
<1>2. ASSUME NEW n \in Nat
      PROVE  f[n] = IF n = 0 THEN 1 ELSE 2 * f[n - 1]
  <2>1. Table(n)[n] = IF n = 0 THEN 1 ELSE 2 * Table(n)[n - 1]
    <3> HIDE DEF Table
    <3>1. IsTable(Table(n), n) /\ n \in 0 .. n
      BY <1>1
    <3>2. QED
      BY <3>1 DEF IsTable
  <2>2. CASE n = 0
    BY <2>1, <2>2
  <2>3. CASE n # 0
    <3>1. n - 1 \in Nat /\ n - 1 <= n
      BY <2>3
    <3>2. Table(n)[n - 1] = Table(n - 1)[n - 1]
      <4> HIDE DEF Table
      <4>1. IsTable(Table(n), n) /\ IsTable(Table(n - 1), n - 1)
        BY <1>1, <3>1
      <4>2. QED
        BY <3>1, <4>1, TablesAgree
    <3>3. f[n - 1] = Table(n - 1)[n - 1] /\ f[n] = Table(n)[n]
      BY <3>1
    <3>4. QED
      BY <2>1, <2>3, <3>2, <3>3
  <2>4. QED
    BY <2>2, <2>3
<1>3. f = [n \in Nat |-> IF n = 0 THEN 1 ELSE 2 * f[n - 1]]
  <2>1. f = [n \in Nat |-> f[n]]
    OBVIOUS
  <2> HIDE DEF f
  <2>2. QED
    BY <1>2, <2>1
<1>4. QED
  <2> HIDE DEF f
  <2>1. \E g : g = [n \in Nat |-> IF n = 0 THEN 1 ELSE 2 * g[n - 1]]
    BY <1>3
  <2>2. QED
    BY <2>1 DEF TwoTo

\* A power of two is a positive number.
LEMMA TwoToType == \A n \in Nat : TwoTo[n] \in Nat \ {0}
<1> DEFINE T == {n \in Nat : TwoTo[n] \in Nat \ {0}}
<1>1. \A n \in Nat : TwoTo[n] = IF n = 0 THEN 1 ELSE 2 * TwoTo[n - 1]
  <2> HIDE DEF TwoTo
  <2>1. QED
    BY TwoToDefined
<1> HIDE DEF TwoTo
<1>2. 0 \in T
  BY <1>1
<1>3. ASSUME NEW n \in T
      PROVE  n + 1 \in T
  <2>1. n \in Nat /\ n + 1 \in Nat /\ n + 1 # 0 /\ (n + 1) - 1 = n
    OBVIOUS
  <2>2. TwoTo[n + 1] = 2 * TwoTo[n] /\ TwoTo[n] \in Nat \ {0}
    BY <1>1, <2>1
  <2>3. QED
    BY <2>1, <2>2
<1>4. T = Nat
  <2> HIDE DEF T
  <2>1. T \subseteq Nat
    BY DEF T
  <2>2. QED
    BY <1>2, <1>3, <2>1, Induction
<1>5. QED
  BY <1>4

\* A retry is delayed by a tick at least and by the longest delay at most.
LEMMA DelayBounded ==
  ASSUME NEW n \in Nat
  PROVE  Delay(n) \in 1 .. MaxDelay
<1> DEFINE k == IF n > 1 THEN n - 1 ELSE 0
<1>1. k \in Nat
  OBVIOUS
<1>2. TwoTo[k] \in Nat \ {0}
  BY <1>1, TwoToType
<1>3. Delay(n) = IF TwoTo[k] < MaxDelay THEN TwoTo[k] ELSE MaxDelay
  BY DEF Delay
<1> HIDE DEF k
<1>4. QED
  BY <1>2, <1>3

\* The range of wait alone.
WaitTyped == wait \in [Events -> -MaxLag .. MaxDelay]

\* Every step keeps the range of wait.
LEMMA NextWait ==
  ASSUME Typed, Shape, WaitTyped, [Next]_vars
  PROVE  WaitTyped'
<1> USE DEF WaitTyped
<1>1. ASSUME NEW d \in Dispatchers, RecordPublished(d)
      PROVE  WaitTyped'
  <2>1. lag[d] \in 0 .. MaxLag
    BY DEF Typed
  <2>2. -lag[d] \in -MaxLag .. MaxDelay
    BY <2>1
  <2>3. QED
    BY <1>1, <2>2 DEF RecordPublished
<1>2. ASSUME NEW d \in Dispatchers, RecordFailure(d)
      PROVE  WaitTyped'
  <2> DEFINE count == seen[d][at[d]] + 1
  <2>1. at[d] \in Events
    BY <1>2 DEF RecordFailure, Shape, Typed, Holding
  <2>2. count \in Nat /\ lag[d] \in 0 .. MaxLag
    BY <2>1 DEF Typed, AttemptCap
  <2>3. Delay(count) \in 1 .. MaxDelay
    BY <2>2, DelayBounded
  <2>4. Delay(count) - lag[d] \in -MaxLag .. MaxDelay
    BY <2>2, <2>3
  <2>5. wait' = [wait EXCEPT ![at[d]] = Delay(count) - lag[d]]
    BY <1>2 DEF RecordFailure
  <2> HIDE DEF count
  <2>6. QED
    BY <2>4, <2>5
<1>3. ASSUME Tick
      PROVE  WaitTyped'
  BY <1>3 DEF Tick
<1>4. ASSUME UNCHANGED wait
      PROVE  WaitTyped'
  BY <1>4
<1>5. ASSUME NEW e \in Events, EventStep(e)
      PROVE  UNCHANGED wait
  BY <1>5 DEF EventStep, WorkerStep, Enqueue, CancelSession, Withdraw, Forget,
              Deliver, ListenerReads, ListenerWrites, ClaimThrows,
              ListenerThrows, database
<1>6. ASSUME NEW d \in Dispatchers,
             BeginSweep(d) \/ EndSweep(d) \/ Publish(d) \/ PublishFails(d)
                \/ PublishLost(d) \/ RecordThrows(d) \/ FailureThrows(d) \/ Start(d) \/ Crash(d)
      PROVE  UNCHANGED wait
  BY <1>6 DEF BeginSweep, EndSweep, Publish, PublishFails, PublishLost,
              RecordThrows, FailureThrows, Start, Crash, database
<1>7. ASSUME NEW d \in Dispatchers, NEW e \in Events, ClaimEvent(d, e)
      PROVE  UNCHANGED wait
  BY <1>7 DEF ClaimEvent
<1>8. ASSUME UNCHANGED vars
      PROVE  UNCHANGED wait
  BY <1>8 DEF vars, database
<1>9. QED
  BY <1>1, <1>2, <1>3, <1>4, <1>5, <1>6, <1>7, <1>8 DEF Next, SweepStep

\* Every variable has its type; no retry is scheduled further away than the
\* longest delay, however often an event has failed.
THEOREM TypeCorrect == Spec => []TypeOK
<1>1. Init => WaitTyped
  BY DEF Init, WaitTyped
<1>2. Paths /\ WaitTyped /\ [Next]_vars => WaitTyped'
  BY NextWait DEF Paths
<1>3. Paths /\ WaitTyped => TypeOK
  BY DEF Paths, WaitTyped, TypeOK
<1>4. QED
  BY <1>1, <1>2, <1>3, PathsCorrect, PTL DEF Spec

=============================================================================
