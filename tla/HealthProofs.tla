---------------------------- MODULE HealthProofs ----------------------------
(***************************************************************************)
(* Proofs that probes of one row exclude each other and that a mark is     *)
(* held by a probe that will clear it, for any number of workers, requests *)
(* and faults, and that the types hold for any number of candidates.       *)
(***************************************************************************)
EXTENDS Health, WellFoundedInduction, TLAPS

Probe == [at : Stages, forced : BOOLEAN, installed : BOOLEAN]

\* The part of the types that the proofs need.
Shape ==
    /\ probe \in [Workers -> [Modes -> Probe]]
    /\ row \in [marked : BOOLEAN, installed : BOOLEAN]
    /\ lost \in BOOLEAN /\ disturbed \in BOOLEAN

\* Who works on the row has its mark, unless it was cleared under a probe.
HolderHasMark == Held => row.marked \/ disturbed

\* A step that neither enters a probe nor ends one, and keeps the mark and the history.
Keeps ==
    /\ \A w \in Workers, m \in Modes : Holds(w, m)' <=> Holds(w, m)
    /\ row'.marked = row.marked
    /\ UNCHANGED history

Inv == Shape /\ HolderHasMark /\ ProbesExclude /\ MarkIsHeld

-----------------------------------------------------------------------------

\* The first stage of a probe, and the one after its CLI has ended, are stages of a holder.
LEMMA StagesOfHolder ==
    ASSUME NEW m \in Modes
    PROVE  First(m) \in Holding /\ Answered(m) \in Holding
BY DEF First, Answered, Holding, Stages

\* Every stage of a holder is a stage.
LEMMA HoldingStages == Holding \subseteq Stages /\ "idle" \in Stages /\ "idle" \notin Holding
BY DEF Holding, Stages

LEMMA InitInv == Init => Inv
<1> SUFFICES ASSUME Init PROVE Inv
  OBVIOUS
<1>1. Shape
  BY DEF Init, Shape, Probe, Idle, Stages
<1>2. \A w \in Workers, m \in Modes : ~Holds(w, m)
  BY DEF Init, Idle, Holds, Holding
<1> QED
  BY <1>1, <1>2 DEF Inv, Init, Held, HolderHasMark, ProbesExclude, MarkIsHeld

\* What a keeping step does to the invariant.
LEMMA KeepsInv ==
    ASSUME Inv, Shape', Keeps
    PROVE  Inv'
<1>1. Held' <=> Held
  BY DEF Keeps, Held
<1> QED
  BY <1>1 DEF Inv, Keeps, HolderHasMark, ProbesExclude, MarkIsHeld, history

\* What a probe is set to, it is, and the other probes stay as they are.
LEMMA PutOne ==
    ASSUME Shape, NEW w \in Workers, NEW m \in Modes, NEW p \in Probe, Put(w, m, p)
    PROVE  /\ probe' \in [Workers -> [Modes -> Probe]]
           /\ Holds(w, m)' <=> p.at \in Holding
           /\ \A v \in Workers, n \in Modes :
                ~(v = w /\ n = m) => (Holds(v, n)' <=> Holds(v, n))
<1>1. probe' \in [Workers -> [Modes -> Probe]]
  BY DEF Shape, Put
<1>2. probe'[w][m] = p
  BY DEF Shape, Put
<1>3. ASSUME NEW v \in Workers, NEW n \in Modes, ~(v = w /\ n = m)
      PROVE  probe'[v][n] = probe[v][n]
  <2>1. CASE v = w
    BY <1>3, <2>1 DEF Shape, Put
  <2>2. CASE v # w
    BY <2>2 DEF Shape, Put
  <2> QED
    BY <2>1, <2>2
<1> QED
  BY <1>1, <1>2, <1>3 DEF Holds

\* Moving one probe between two stages of a holder keeps its shape and who holds.
LEMMA PutKeeps ==
    ASSUME Shape, NEW w \in Workers, NEW m \in Modes, NEW p \in Probe,
           Holds(w, m), p.at \in Holding, Put(w, m, p)
    PROVE  /\ probe' \in [Workers -> [Modes -> Probe]]
           /\ \A v \in Workers, n \in Modes : Holds(v, n)' <=> Holds(v, n)
BY PutOne

\* The same when only the stage changes.
LEMMA GoesKeeps ==
    ASSUME Shape, NEW w \in Workers, NEW m \in Modes, NEW stage \in Holding,
           Holds(w, m), Goes(w, m, stage)
    PROVE  /\ probe' \in [Workers -> [Modes -> Probe]]
           /\ \A v \in Workers, n \in Modes : Holds(v, n)' <=> Holds(v, n)
<1> DEFINE p == [probe[w][m] EXCEPT !.at = stage]
<1>1. p \in Probe /\ p.at = stage
  BY HoldingStages DEF Shape, Probe
<1> QED
  BY <1>1, PutKeeps DEF Goes

\* A probe that sets the mark is alone, or a mark was cleared under another.
LEMMA ClaimInv ==
    ASSUME Inv, NEW w \in Workers, NEW m \in Modes, NEW p \in Probe, p.at = First(m),
           Claim(w, m), Put(w, m, p), UNCHANGED history
    PROVE  Inv'
<1> USE DEF Inv
<1>1. p.at \in Holding
  BY StagesOfHolder
<1>2. Shape'
  BY PutOne DEF Shape, Claim, history
<1>3. /\ Holds(w, m)'
      /\ \A v \in Workers, n \in Modes :
           ~(v = w /\ n = m) => (Holds(v, n)' <=> Holds(v, n))
  BY <1>1, PutOne
<1>4. row'.marked
  BY DEF Shape, Claim
<1>5. Held => disturbed
  BY DEF Claim, HolderHasMark
<1>6. HolderHasMark' /\ MarkIsHeld'
  BY <1>3, <1>4 DEF HolderHasMark, MarkIsHeld, Held
<1>7. ProbesExclude'
  <2> SUFFICES ASSUME NEW u \in Workers, NEW v \in Workers, NEW k \in Modes, NEW n \in Modes,
                      Holds(u, k)', Holds(v, n)', ~disturbed'
               PROVE  u = v /\ k = n
    BY DEF ProbesExclude
  <2>1. ~Held
    BY <1>5 DEF history
  <2> QED
    BY <2>1, <1>3 DEF Held
<1> QED
  BY <1>2, <1>6, <1>7

\* A probe that returns leaves the row to nobody, or to probes whose mark was cleared.
LEMMA ReturnInv ==
    ASSUME Inv, NEW w \in Workers, NEW m \in Modes,
           At(w, m, "release"), Return(w, m),
           row' \in [marked : BOOLEAN, installed : BOOLEAN],
           lost' \in BOOLEAN,
           disturbed' = (disturbed /\ Held'),
           ~row'.marked \/ lost'
    PROVE  Inv'
<1> USE DEF Inv
<1>1. Holds(w, m)
  BY DEF At, Holds, Holding, Stages
<1>2. Idle \in Probe /\ Idle.at \notin Holding
  BY DEF Idle, Probe, Holding, Stages
<1>3. /\ probe' \in [Workers -> [Modes -> Probe]]
      /\ ~Holds(w, m)'
      /\ \A v \in Workers, n \in Modes :
           ~(v = w /\ n = m) => (Holds(v, n)' <=> Holds(v, n))
  BY <1>2, PutOne DEF Return
<1>4. Held' => disturbed
  BY <1>1, <1>3 DEF Held, ProbesExclude
<1>5. Held' => disturbed'
  BY <1>4
<1>6. HolderHasMark' /\ MarkIsHeld'
  BY <1>5 DEF HolderHasMark, MarkIsHeld
<1>7. ProbesExclude'
  BY <1>5 DEF ProbesExclude, Held
<1>8. Shape'
  BY <1>3, <1>5 DEF Shape
<1> QED
  BY <1>6, <1>7, <1>8

-----------------------------------------------------------------------------
(* The steps                                                               *)

\* A timer or a job begins a probe, or a job does not.
LEMMA BeginInv ==
    ASSUME Inv, NEW w \in Workers, NEW m \in Modes,
           Tick(w, m) \/ Deliver(w, m)
    PROVE  Inv'
<1>1. First(m) \in Stages
  BY StagesOfHolder, HoldingStages
<1>2. probe[w][m] \in Probe
  BY DEF Inv, Shape
<1>3. CASE Tick(w, m)
  <2> DEFINE p == [probe[w][m] EXCEPT !.at = First(m)]
  <2>1. p \in Probe /\ p.at = First(m)
    BY <1>1, <1>2 DEF Probe
  <2>2. Claim(w, m) /\ Put(w, m, p) /\ UNCHANGED history
    BY <1>3 DEF Tick, Goes
  <2> HIDE DEF p
  <2> QED
    BY <2>1, <2>2, ClaimInv
<1>4. CASE Deliver(w, m)
  <2> DEFINE p == [probe[w][m] EXCEPT !.at = First(m), !.forced = TRUE]
  <2>1. p \in Probe /\ p.at = First(m)
    BY <1>1, <1>2 DEF Probe
  <2>2. Claim(w, m) /\ Put(w, m, p) /\ UNCHANGED history
    BY <1>4 DEF Deliver
  <2> HIDE DEF p
  <2> QED
    BY <2>1, <2>2, ClaimInv
<1> QED
  BY <1>3, <1>4

\* A probe goes on to another stage of a holder without touching the mark.
LEMMA StageInv ==
    ASSUME Inv, NEW w \in Workers, NEW m \in Modes, NEW p \in Probe,
           Holds(w, m), p.at \in Holding, Put(w, m, p),
           row' \in [marked : BOOLEAN, installed : BOOLEAN], row'.marked = row.marked,
           UNCHANGED history
    PROVE  Inv'
<1>1. Shape'
  BY PutKeeps DEF Inv, Shape, history
<1>2. Keeps
  BY PutKeeps DEF Inv, Keeps
<1> QED
  BY <1>1, <1>2, KeepsInv

\* Looking for the CLI, running it and waiting for its end.
LEMMA RunInv ==
    ASSUME Inv, NEW w \in Workers, NEW m \in Modes,
           \/ Detect(w, m) \/ Unresolved(w, m) \/ Spawn(w, m)
           \/ LaunchFails(w, m) \/ Timer(w, m) \/ Close(w, m)
    PROVE  Inv'
<1> DEFINE Moves(stage) == Goes(w, m, stage) /\ UNCHANGED <<row, history>>
<1>1. Holds(w, m)
  BY DEF Detect, Unresolved, Spawn, LaunchFails, Timer, Close, At, Holds, Holding, Stages
<1>2. probe[w][m] \in Probe /\ row \in [marked : BOOLEAN, installed : BOOLEAN]
  BY DEF Inv, Shape
<1>3. ASSUME NEW stage \in Holding, Moves(stage)
      PROVE  Inv'
  <2> DEFINE p == [probe[w][m] EXCEPT !.at = stage]
  <2>1. p \in Probe /\ p.at = stage
    BY <1>2, HoldingStages DEF Probe
  <2>2. Put(w, m, p)
    BY <1>3 DEF Goes
  <2> HIDE DEF p
  <2> QED
    BY <1>1, <1>2, <1>3, <2>1, <2>2, StageInv
<1>4. CASE Detect(w, m)
  <2> DEFINE here == Executable(w) # 0
             next == IF m = "refresh" /\ here THEN "open" ELSE "write"
             p == [probe[w][m] EXCEPT !.installed = here, !.at = next]
  <2>1. next \in Holding /\ here \in BOOLEAN
    BY DEF Holding, Stages
  <2>2. Put(w, m, p) /\ UNCHANGED <<row, history>>
    BY <1>4 DEF Detect
  <2> HIDE DEF here, next
  <2>3. p \in Probe /\ p.at = next
    BY <1>2, <2>1, HoldingStages DEF Probe
  <2> HIDE DEF p
  <2> QED
    BY <1>1, <1>2, <2>1, <2>2, <2>3, StageInv
<1>5. CASE Unresolved(w, m)
  BY <1>3, <1>5, StagesOfHolder DEF Unresolved
<1>6. CASE Spawn(w, m)
  <2>1. Moves("running") /\ "running" \in Holding
    BY <1>6 DEF Spawn, Holding, Stages
  <2> QED
    BY <1>3, <2>1
<1>7. CASE LaunchFails(w, m)
  BY <1>3, <1>7, StagesOfHolder DEF LaunchFails
<1>8. CASE Timer(w, m)
  <2>1. Moves("killed") /\ "killed" \in Holding
    BY <1>8 DEF Timer, Holding, Stages
  <2> QED
    BY <1>3, <2>1
<1>9. CASE Close(w, m)
  BY <1>3, <1>9, StagesOfHolder DEF Close
<1> QED
  BY <1>4, <1>5, <1>6, <1>7, <1>8, <1>9

\* The answer is recorded, or its statement fails; the mark stays until the next step.
LEMMA RecordInv ==
    ASSUME Inv, NEW w \in Workers, NEW m \in Modes,
           Write(w, m) \/ RecordFails(w, m)
    PROVE  Inv'
<1> DEFINE p == [probe[w][m] EXCEPT !.at = "release", !.installed = FALSE]
<1>1. /\ probe[w][m] \in Probe
      /\ row \in [marked : BOOLEAN, installed : BOOLEAN]
  BY DEF Inv, Shape
<1>2. Installed(w, m) \in BOOLEAN
  BY <1>1 DEF Installed, Probe
<1>3. /\ row' \in [marked : BOOLEAN, installed : BOOLEAN]
      /\ row'.marked = row.marked
  BY <1>1, <1>2 DEF Write, RecordFails
<1>4. Holds(w, m) /\ Put(w, m, p) /\ UNCHANGED history
  BY DEF Write, RecordFails, At, Holds, Holding, Stages, Recorded
<1>5. p \in Probe /\ p.at \in Holding
  BY <1>1 DEF Probe, Holding, Stages
<1> HIDE DEF p
<1> QED
  BY <1>3, <1>4, <1>5, StageInv

\* A probe clears its mark and is over, or fails to.
LEMMA EndInv ==
    ASSUME Inv, NEW w \in Workers, NEW m \in Modes,
           Release(w, m) \/ ReleaseFails(w, m)
    PROVE  Inv'
<1>1. /\ row \in [marked : BOOLEAN, installed : BOOLEAN] /\ lost \in BOOLEAN
  BY DEF Inv, Shape
<1>2. /\ row' \in [marked : BOOLEAN, installed : BOOLEAN] /\ lost' \in BOOLEAN
      /\ ~row'.marked \/ lost'
  BY <1>1 DEF Release, ReleaseFails
<1>3. /\ At(w, m, "release") /\ Return(w, m)
      /\ disturbed' = (disturbed /\ Held')
  BY DEF Release, ReleaseFails
<1> QED
  BY <1>2, <1>3, ReturnInv

\* A worker that starts clears the marks of those who hold them.
LEMMA StartupInv ==
    ASSUME Inv, NEW w \in Workers, Startup(w)
    PROVE  Inv'
<1>1. /\ probe' = probe /\ Held' = Held
      /\ ~row'.marked /\ disturbed' = (disturbed \/ Held)
  BY DEF Inv, Shape, Startup, Held, Holds
<1>2. Shape'
  BY <1>1 DEF Inv, Shape, Startup
<1>3. HolderHasMark' /\ MarkIsHeld'
  BY <1>1 DEF HolderHasMark, MarkIsHeld
<1>4. ProbesExclude'
  BY <1>1 DEF ProbesExclude, Held
<1> QED
  BY <1>2, <1>3, <1>4 DEF Inv

\* A worker dies and its probes with it; a mark of theirs is left behind.
LEMMA CrashInv ==
    ASSUME Inv, NEW w \in Workers, Crash(w)
    PROVE  Inv'
<1> USE DEF Inv
<1>1. Idle \in Probe /\ Idle.at \notin Holding
  BY DEF Idle, Probe, Holding, Stages
<1>2. probe' \in [Workers -> [Modes -> Probe]]
  BY <1>1 DEF Shape, Crash
<1>3. ASSUME NEW v \in Workers, NEW n \in Modes
      PROVE  Holds(v, n)' <=> v # w /\ Holds(v, n)
  <2>1. CASE v = w
    <3>1. probe'[v][n] = Idle
      BY <2>1 DEF Shape, Crash
    <3> QED
      BY <1>1, <2>1, <3>1 DEF Holds
  <2>2. CASE v # w
    <3>1. probe'[v][n] = probe[v][n]
      BY <2>2 DEF Shape, Crash
    <3> QED
      BY <2>2, <3>1 DEF Holds
  <2> QED
    BY <2>1, <2>2
<1>4. /\ row' = row /\ disturbed' = (disturbed /\ Held')
      /\ lost' = (lost \/ \E m \in Modes : Holds(w, m))
  BY DEF Crash
<1>5. Held' => Held
  BY <1>3 DEF Held
<1>6. Shape'
  BY <1>2, <1>4 DEF Shape
<1>7. HolderHasMark'
  BY <1>4, <1>5 DEF HolderHasMark
<1>8. MarkIsHeld'
  <2>1. Held => Held' \/ \E m \in Modes : Holds(w, m)
    BY <1>3 DEF Held
  <2> QED
    BY <1>4, <2>1 DEF MarkIsHeld
<1>9. ProbesExclude'
  BY <1>3, <1>4 DEF ProbesExclude, Held
<1> QED
  BY <1>6, <1>7, <1>8, <1>9

\* Every step keeps the invariant.
LEMMA NextInv ==
    ASSUME Inv, [Next]_vars
    PROVE  Inv'
<1>1. ASSUME UNCHANGED <<row, probe, history>>
      PROVE  Inv'
  <2>1. Shape' /\ Keeps
    BY <1>1 DEF Inv, Shape, Keeps, Holds, history
  <2> QED
    BY <2>1, KeepsInv
<1>2. ASSUME NEW w \in Workers, NEW m \in Modes,
             \/ Tick(w, m) \/ Deliver(w, m) \/ DeliverInVain(w, m)
             \/ Detect(w, m) \/ Unresolved(w, m) \/ Spawn(w, m) \/ LaunchFails(w, m)
             \/ Timer(w, m) \/ Close(w, m) \/ Write(w, m) \/ RecordFails(w, m)
             \/ Release(w, m) \/ ReleaseFails(w, m)
      PROVE  Inv'
  <2>1. CASE DeliverInVain(w, m)
    BY <1>1, <2>1 DEF DeliverInVain
  <2> QED
    BY <1>2, <2>1, BeginInv, RunInv, RecordInv, EndInv
<1>3. ASSUME NEW w \in Workers, Startup(w) \/ Crash(w)
      PROVE  Inv'
  BY <1>3, StartupInv, CrashInv
<1>4. ASSUME NEW m \in Modes, Request(m) \/ Forget(m)
      PROVE  Inv'
  BY <1>1, <1>4 DEF Request, Forget
<1>5. CASE Change
  BY <1>1, <1>5 DEF Change
<1>6. CASE UNCHANGED vars
  BY <1>1, <1>6 DEF vars, history
<1> QED
  BY <1>2, <1>3, <1>4, <1>5, <1>6 DEF Next

-----------------------------------------------------------------------------

\* The inductive invariant holds in every reachable state.
THEOREM InvCorrect == Spec => []Inv
<1>1. Init => Inv
  BY InitInv
<1>2. Inv /\ [Next]_vars => Inv'
  BY NextInv
<1> QED
  BY <1>1, <1>2, PTL DEF Spec

\* Probes of one row exclude each other until a starting worker clears a mark under
\* one, whatever the number of workers, timers, jobs, crashes and failures.
THEOREM ProbesExcludeCorrect == Spec => []ProbesExclude
<1>1. Inv => ProbesExclude
  BY DEF Inv
<1> QED
  BY <1>1, InvCorrect, PTL

\* A mark that is set has a probe that will clear it, or was left behind by a crash or
\* by a clearing statement that failed, and no worker has started since.
THEOREM MarkIsHeldCorrect == Spec => []MarkIsHeld
<1>1. Inv => MarkIsHeld
  BY DEF Inv
<1> QED
  BY <1>1, InvCorrect, PTL

-----------------------------------------------------------------------------
(* Types                                                                   *)

\* The types of what the proofs above do not need.
Rest ==
    /\ files \in [1..Candidates -> Conditions]
    /\ up \subseteq Workers
    /\ cached \in [Workers -> 0..Candidates]
    /\ job \in [Modes -> Workers \union {"none", "waiting", "kept"}]
    /\ asked \subseteq Modes
    /\ requests \in 0..MaxRequests /\ faults \in 0..MaxFaults /\ changes \in 0..MaxChanges

\* A set of numbers that is not empty has a least element.
LEMMA LeastExists ==
    ASSUME NEW T, T \subseteq Nat, T # {}
    PROVE  \E x \in T : \A y \in T : x <= y
<1>1. PICK x \in T : \A y \in T : ~ (<<y, x>> \in OpToRel(<, Nat))
  BY WFMin, NatLessThanWellFounded
<1>2. ASSUME NEW y \in T, y < x
      PROVE  FALSE
  <2>1. <<y, x>> \in OpToRel(<, Nat)
    BY <1>2 DEF OpToRel
  <2> QED
    BY <1>1, <2>1
<1> QED
  BY <1>2

\* The search for the CLI finds a candidate that works, the first one, or none.
LEMMA ResolvedFirst ==
    \/ Resolved = 0 /\ \A i \in 1..Candidates : files[i] # "works"
    \/ /\ Resolved \in 1..Candidates /\ files[Resolved] = "works"
       /\ \A i \in 1..Candidates : files[i] = "works" => Resolved <= i
<1>1. CASE Resolvable = {}
  BY <1>1 DEF Resolved, Resolvable
<1>2. CASE Resolvable # {}
  <2>1. Resolvable \subseteq Nat
    BY DEF Resolvable
  <2>2. PICK i \in Resolvable : \A j \in Resolvable : i <= j
    BY <1>2, <2>1, LeastExists
  <2>3. Resolved \in Resolvable /\ \A j \in Resolvable : Resolved <= j
    BY <1>2, <2>2 DEF Resolved
  <2> QED
    BY <2>3 DEF Resolvable
<1> QED
  BY <1>1, <1>2

\* What a process runs is a candidate, or nothing.
LEMMA ExecutableTyped ==
    ASSUME Rest, NEW w \in Workers
    PROVE  Executable(w) \in 0..Candidates
BY ResolvedFirst, HealthAssumption DEF Rest, Executable

\* Every step keeps the rest of the types.
LEMMA NextRest ==
    ASSUME Rest, [Next]_vars
    PROVE  Rest'
<1> USE HealthAssumption DEF Rest, queue, counters
<1>1. ASSUME NEW w \in Workers, NEW m \in Modes, Tick(w, m)
      PROVE  Rest'
  BY <1>1 DEF Tick, Claim
<1>2. ASSUME NEW w \in Workers, NEW m \in Modes, Deliver(w, m) \/ DeliverInVain(w, m)
      PROVE  Rest'
  BY <1>2 DEF Deliver, DeliverInVain, Claim
<1>3. ASSUME NEW w \in Workers, NEW m \in Modes,
             Detect(w, m) \/ Spawn(w, m) \/ LaunchFails(w, m)
      PROVE  Rest'
  <2>1. PICK c \in 0..Candidates : cached' = [cached EXCEPT ![w] = c]
    BY <1>3, ExecutableTyped DEF Detect, Spawn, LaunchFails
  <2> QED
    BY <1>3, <2>1 DEF Detect, Spawn, LaunchFails
<1>4. ASSUME NEW w \in Workers, NEW m \in Modes,
             Unresolved(w, m) \/ Timer(w, m) \/ Close(w, m) \/ Write(w, m)
      PROVE  Rest'
  BY <1>4 DEF Unresolved, Timer, Close, Write
<1>5. ASSUME NEW w \in Workers, NEW m \in Modes, RecordFails(w, m)
      PROVE  Rest'
  BY <1>5 DEF RecordFails
<1>6. ASSUME NEW w \in Workers, NEW m \in Modes, Release(w, m) \/ ReleaseFails(w, m)
      PROVE  Rest'
  <2>1. job' \in [Modes -> Workers \union {"none", "waiting", "kept"}]
    BY <1>6 DEF Release, ReleaseFails, Return
  <2> QED
    BY <1>6, <2>1 DEF Release, ReleaseFails
<1>7. ASSUME NEW w \in Workers, Startup(w)
      PROVE  Rest'
  BY <1>7 DEF Startup
<1>8. ASSUME NEW w \in Workers, Crash(w)
      PROVE  Rest'
  BY <1>8 DEF Crash
<1>9. ASSUME NEW m \in Modes, Request(m)
      PROVE  Rest'
  <2>1. job' \in [Modes -> Workers \union {"none", "waiting", "kept"}]
    BY <1>9 DEF Request
  <2>2. requests' \in 0..MaxRequests
    BY <1>9 DEF Request
  <2> QED
    BY <1>9, <2>1, <2>2 DEF Request
<1>10. ASSUME NEW m \in Modes, Forget(m)
      PROVE  Rest'
  BY <1>10 DEF Forget
<1>11. CASE Change
  BY <1>11 DEF Change
<1>12. CASE UNCHANGED vars
  BY <1>12 DEF vars
<1> QED
  BY <1>1, <1>2, <1>3, <1>4, <1>5, <1>6, <1>7, <1>8, <1>9, <1>10, <1>11, <1>12 DEF Next

\* Every variable has its type; a path that a process has resolved is one of the
\* candidates, whatever becomes of the files meanwhile.
THEOREM TypeCorrect == Spec => []TypeOK
<1>1. Init => Rest
  BY HealthAssumption DEF Init, Rest
<1>2. Rest /\ [Next]_vars => Rest'
  BY NextRest
<1>3. Inv /\ Rest => TypeOK
  BY DEF Inv, Shape, Probe, Rest, TypeOK
<1> QED
  BY <1>1, <1>2, <1>3, InvCorrect, PTL DEF Spec

=============================================================================
