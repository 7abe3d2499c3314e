------------------------- MODULE ConversationProofs -------------------------
(***************************************************************************)
(* Proofs that the rows of a conversation fit each other, for any number   *)
(* of submissions, retries, executions, providers and models.              *)
(*                                                                         *)
(* A provider session keeps its provider and its model, so what a request  *)
(* read of it stays true; a session that another one follows has been      *)
(* ended; whoever writes a new key holds the conversation; and a retry     *)
(* that has written and waits for the conversation has its provider to     *)
(* itself, so that the index would still let it in when it commits.        *)
(***************************************************************************)
EXTENDS Conversation, SequenceTheorems, WellFoundedInduction, TLAPS

USE ConversationAssumption

\* A session that is not RUNNING was ended, and so was one that another follows.
EndedWhenNotRunning ==
    \A s \in DOMAIN sessions : sessions[s].status # "RUNNING" => sessions[s].ended

Superseded ==
    \A s, t \in DOMAIN sessions :
        s < t /\ sessions[s].provider = sessions[t].provider => sessions[s].ended

Writing == {"writing", "numbering"}

\* A request on its way has a provider, a model and a message.
Order == [provider : Providers, model : AllModels, message : Keys]
Resolved == \A r \in Requests : pc[r] \in {"locking"} \cup Writing => order[r] \in Order

\* A submission is for its own key, and writes while it holds the conversation.
SubmissionHolds ==
    \A r \in Submissions :
        /\ pc[r] \in {"locking", "writing"} => order[r].message = Key[r]
        /\ pc[r] = "writing" => holder = r
        /\ pc[r] # "numbering"

\* The session that a request read is one of its provider.
SeenLatest ==
    \A r \in Requests : pc[r] \in Writing =>
        /\ seen[r].running => seen[r].latest # 0
        /\ seen[r].latest # 0 => sessions[seen[r].latest].provider = order[r].provider

\* A retry is for a message that has executions.
RetryKnown ==
    \A r \in Retries : pc[r] \in Writing => ExecutionsOf(order[r].message) # {}

Inv ==
    /\ TypeOK /\ ThreadsStayApart /\ EndedWhenNotRunning /\ Superseded
    /\ Resolved /\ SubmissionHolds /\ SeenLatest /\ RetryKnown /\ KeyLookupHolds

\* A retry that holds the rows of its provider is alone with them, and no session but the
\* one it retires is RUNNING.
Reserved ==
    \A r \in Retries : Holds(r) =>
        /\ \A s \in DOMAIN sessions :
              sessions[s].status = "RUNNING" /\ sessions[s].provider = order[r].provider
              => seen[r].running /\ s = seen[r].latest
        /\ \A e \in DOMAIN execs :
              execs[e].turn = "committing" => execs[e].provider # order[r].provider
        /\ \A q \in Retries :
              Holds(q) /\ order[q].provider = order[r].provider => q = r

-----------------------------------------------------------------------------
(***************************************************************************)
(* Rows.                                                                   *)
(***************************************************************************)

\* One row of a table is replaced.
LEMMA RowReplaced ==
  ASSUME NEW T, NEW rows \in Seq(T), NEW i \in DOMAIN rows, NEW x \in T,
         NEW new, new = [rows EXCEPT ![i] = x]
  PROVE  /\ new \in Seq(T) /\ Len(new) = Len(rows) /\ DOMAIN new = DOMAIN rows
         /\ new[i] = x /\ \A j \in DOMAIN rows : j # i => new[j] = rows[j]
OBVIOUS

\* A row is added to a table.
LEMMA RowAdded ==
  ASSUME NEW T, NEW rows \in Seq(T), NEW x \in T,
         NEW new, new = Append(rows, x)
  PROVE  /\ new \in Seq(T) /\ Len(new) = Len(rows) + 1
         /\ DOMAIN rows = 1 .. Len(rows) /\ DOMAIN new = 1 .. (Len(rows) + 1)
         /\ new[Len(rows) + 1] = x /\ \A j \in DOMAIN rows : new[j] = rows[j]
BY AppendProperties

\* A set of numbers has a least one.
LEMMA LeastExists ==
  ASSUME NEW T, T \subseteq Nat, T # {}
  PROVE  \E x \in T : \A y \in T : x <= y
<1>1. PICK x \in T : \A y \in T : ~ (<<y, x>> \in OpToRel(<, Nat))
  BY WFMin, NatLessThanWellFounded
<1>2. ASSUME NEW y \in T, y < x
      PROVE  FALSE
  <2>1. <<y, x>> \in OpToRel(<, Nat)
    BY <1>2 DEF OpToRel
  <2> QED
    BY <1>1, <2>1
<1> QED
  BY <1>2

\* Row numbers, which are bounded, have a greatest one.
LEMMA LastExists ==
  ASSUME NEW n \in Nat, NEW S, S \subseteq 1 .. n, S # {}
  PROVE  \E x \in S : \A y \in S : y <= x
<1> DEFINE T == {n - s : s \in S}
<1>1. T \subseteq Nat /\ T # {}
  <2>1. \A s \in S : s \in 1 .. n /\ n - s \in Nat
    OBVIOUS
  <2> QED
    BY <2>1
<1>2. PICK x \in T : \A y \in T : x <= y
  BY <1>1, LeastExists
<1>3. PICK s \in S : x = n - s
  BY <1>2
<1>4. \A y \in S : n - y \in T
  OBVIOUS
<1> HIDE DEF T
<1>5. \A y \in S : n - s <= n - y
  BY <1>2, <1>3, <1>4
<1> QED
  BY <1>5

\* The latest session of a provider is one of its sessions, or there is none.
LEMMA LatestIs ==
  ASSUME TypeOK, NEW p
  PROVE  /\ Latest(p) \in Nat /\ Latest(p) \in 0 .. Len(sessions)
         /\ Latest(p) # 0 => Latest(p) \in DOMAIN sessions /\ sessions[Latest(p)].provider = p
<1> DEFINE S == {s \in DOMAIN sessions : sessions[s].provider = p}
<1>1. DOMAIN sessions = 1 .. Len(sessions) /\ Len(sessions) \in Nat
  BY DEF TypeOK
<1>2. CASE S = {}
  BY <1>1, <1>2 DEF Latest
<1>3. CASE S # {}
  <2>1. \E x \in S : \A y \in S : y <= x
    BY <1>1, <1>3, LastExists
  <2>2. Latest(p) = CHOOSE x \in S : \A y \in S : y <= x
    BY <1>3 DEF Latest
  <2>3. Latest(p) \in S
    BY <2>1, <2>2
  <2> QED
    BY <1>1, <2>3
<1> QED
  BY <1>2, <1>3

\* What a request selects is a provider, or nothing.
LEMMA SelectsProvider ==
  ASSUME NEW requested, NEW current, NEW healthy \in SUBSET Providers
  PROVE  SelectProvider(requested, current, healthy) \in Providers \cup {NoProvider}
<1> DEFINE First(i) == /\ ProviderOrder[i] \in healthy
                       /\ \A j \in 1 .. (i - 1) : ProviderOrder[j] \notin healthy
<1>1. CASE healthy # {}
  <2> DEFINE T == {i \in DOMAIN ProviderOrder : ProviderOrder[i] \in healthy}
  <2>1. T # {} /\ T \subseteq Nat
    BY <1>1 DEF Providers
  <2>2. PICK i \in T : \A j \in T : i <= j
    BY <2>1, LeastExists
  <2>3. \E k \in DOMAIN ProviderOrder : First(k)
    <3>1. ASSUME NEW j \in 1 .. (i - 1)
          PROVE  ProviderOrder[j] \notin healthy
      <4>1. j \in DOMAIN ProviderOrder /\ ~(i <= j)
        BY DEF Providers
      <4> QED
        BY <2>2, <4>1
    <3> QED
      BY <2>2, <3>1
  <2>4. (CHOOSE k \in DOMAIN ProviderOrder : First(k)) \in DOMAIN ProviderOrder
    BY <2>3
  <2>5. ProviderOrder[CHOOSE k \in DOMAIN ProviderOrder : First(k)] \in Providers
    BY <2>4 DEF Providers
  <2> QED
    BY <2>5 DEF SelectProvider
<1>2. CASE healthy = {}
  BY <1>2 DEF SelectProvider
<1> QED
  BY <1>1, <1>2

-----------------------------------------------------------------------------
(***************************************************************************)
(* Workers.                                                                *)
(***************************************************************************)

\* No execution is added; each keeps what it was queued with, and the threads it knows are
\* of its session.
ExecsKept ==
    /\ execs' \in Seq(ExecType) /\ Len(execs') = Len(execs) /\ DOMAIN execs' = DOMAIN execs
    /\ \A e \in DOMAIN execs :
          /\ execs'[e].message = execs[e].message /\ execs'[e].session = execs[e].session
          /\ execs'[e].provider = execs[e].provider /\ execs'[e].model = execs[e].model
          /\ \A t \in {execs'[e].resumed, execs'[e].reported} \ {0} :
                t \in DOMAIN execs /\ execs[t].session = execs[e].session

\* No session is added; each keeps its provider and model, and what ended has ended.
SessionsKept(new) ==
    /\ new \in Seq(SessionType) /\ Len(new) = Len(sessions)
    /\ DOMAIN new = DOMAIN sessions
    /\ \A s \in DOMAIN sessions :
          /\ new[s].provider = sessions[s].provider
          /\ new[s].model = sessions[s].model
          /\ sessions[s].ended => new[s].ended
          /\ new[s].status # "RUNNING" => new[s].ended
          /\ new[s].thread # 0 =>
                /\ new[s].thread \in DOMAIN execs
                /\ execs[new[s].thread].session = s

\* The numbers of rows are numbers.
LEMMA Rows ==
  ASSUME TypeOK
  PROVE  /\ DOMAIN sessions = 1 .. Len(sessions) /\ Len(sessions) \in Nat
         /\ DOMAIN execs = 1 .. Len(execs) /\ Len(execs) \in Nat
         /\ \A s \in DOMAIN sessions : sessions[s] \in SessionType
         /\ \A e \in DOMAIN execs : execs[e] \in ExecType /\ execs[e].session \in DOMAIN sessions
BY DEF TypeOK

\* A worker's step keeps the invariant.
LEMMA WorkInv ==
  ASSUME Inv, ExecsKept, SessionsKept(sessions'), speaker' \in Providers \cup {NoProvider},
         UNCHANGED <<handoffSequence, holder, requests>>
  PROVE  Inv'
<1>1. TypeOK'
  BY DEF Inv, TypeOK, ExecsKept, SessionsKept, requests
<1>2. ThreadsStayApart'
  <2>1. ASSUME NEW e \in DOMAIN execs
        PROVE  /\ sessions'[execs'[e].session].provider = execs'[e].provider
               /\ sessions'[execs'[e].session].model = execs'[e].model
               /\ \A t \in {execs'[e].resumed, execs'[e].reported} \ {0} :
                     t \in DOMAIN execs' /\ execs'[t].session = execs'[e].session
    <3>1. execs[e].session \in DOMAIN sessions
      BY Rows DEF Inv
    <3> QED
      BY <3>1 DEF Inv, ThreadsStayApart, ExecsKept, SessionsKept
  <2>2. ASSUME NEW s \in DOMAIN sessions, sessions'[s].thread # 0
        PROVE  /\ sessions'[s].thread \in DOMAIN execs'
               /\ execs'[sessions'[s].thread].session = s
    BY <2>2 DEF ExecsKept, SessionsKept
  <2> QED
    BY <2>1, <2>2 DEF ThreadsStayApart, ExecsKept, SessionsKept
<1>3. EndedWhenNotRunning' /\ Superseded'
  BY DEF Inv, EndedWhenNotRunning, Superseded, SessionsKept
<1>4. \A k : ExecutionsOf(k)' = ExecutionsOf(k)
  BY DEF ExecutionsOf, ExecsKept
<1>5. Resolved' /\ SubmissionHolds'
  BY DEF Inv, Resolved, SubmissionHolds, requests
<1>6. RetryKnown' /\ KeyLookupHolds'
  BY <1>4 DEF Inv, RetryKnown, KeyLookupHolds, requests
<1>7. SeenLatest'
  <2>1. \A r \in Requests : seen[r].latest # 0 => seen[r].latest \in DOMAIN sessions
    BY Rows DEF Inv, TypeOK
  <2> QED
    BY <2>1 DEF Inv, SeenLatest, SessionsKept, requests
<1> QED
  BY <1>1, <1>2, <1>3, <1>5, <1>6, <1>7 DEF Inv

\* Nothing changes.
LEMMA Unmoved ==
  ASSUME Inv
  PROVE  /\ execs' = execs => ExecsKept
         /\ SessionsKept(sessions)
BY DEF Inv, TypeOK, ThreadsStayApart, EndedWhenNotRunning, ExecsKept, SessionsKept

\* One execution changes in what it was not queued with.
LEMMA ExecChanged ==
  ASSUME Inv, NEW e \in DOMAIN execs, NEW x \in ExecType, execs' = [execs EXCEPT ![e] = x],
         x.message = execs[e].message, x.session = execs[e].session,
         x.provider = execs[e].provider, x.model = execs[e].model,
         \A t \in {x.resumed, x.reported} \ {0} :
             t \in DOMAIN execs /\ execs[t].session = execs[e].session
  PROVE  ExecsKept
<1>1. /\ execs' \in Seq(ExecType) /\ Len(execs') = Len(execs) /\ DOMAIN execs' = DOMAIN execs
      /\ execs'[e] = x /\ \A j \in DOMAIN execs : j # e => execs'[j] = execs[j]
  BY RowReplaced DEF Inv, TypeOK
<1>2. ASSUME NEW j \in DOMAIN execs
      PROVE  /\ execs'[j].message = execs[j].message /\ execs'[j].session = execs[j].session
             /\ execs'[j].provider = execs[j].provider /\ execs'[j].model = execs[j].model
             /\ \A t \in {execs'[j].resumed, execs'[j].reported} \ {0} :
                   t \in DOMAIN execs /\ execs[t].session = execs[j].session
  <2>1. CASE j = e
    BY <1>1, <2>1
  <2>2. CASE j # e
    BY <1>1, <2>2 DEF Inv, ThreadsStayApart
  <2> QED
    BY <2>1, <2>2
<1> QED
  BY <1>1, <1>2 DEF ExecsKept

\* One session changes: it ends, or gets a thread that was begun in it.
LEMMA SessionChanged ==
  ASSUME Inv, NEW s \in DOMAIN sessions, NEW x \in SessionType,
         NEW new, new = [sessions EXCEPT ![s] = x],
         x.provider = sessions[s].provider, x.model = sessions[s].model,
         sessions[s].ended => x.ended, x.status # "RUNNING" => x.ended,
         x.thread # 0 => x.thread \in DOMAIN execs /\ execs[x.thread].session = s
  PROVE  SessionsKept(new)
<1>1. /\ new \in Seq(SessionType) /\ Len(new) = Len(sessions)
      /\ DOMAIN new = DOMAIN sessions
      /\ new[s] = x /\ \A j \in DOMAIN sessions : j # s => new[j] = sessions[j]
  BY RowReplaced DEF Inv, TypeOK
<1>2. ASSUME NEW j \in DOMAIN sessions
      PROVE  /\ new[j].provider = sessions[j].provider
             /\ new[j].model = sessions[j].model
             /\ sessions[j].ended => new[j].ended
             /\ new[j].status # "RUNNING" => new[j].ended
             /\ new[j].thread # 0 =>
                   /\ new[j].thread \in DOMAIN execs
                   /\ execs[new[j].thread].session = j
  <2>1. CASE j = s
    BY <1>1, <2>1
  <2>2. CASE j # s
    BY <1>1, <2>2 DEF Inv, ThreadsStayApart, EndedWhenNotRunning
  <2> QED
    BY <2>1, <2>2
<1> QED
  BY <1>1, <1>2 DEF SessionsKept

\* A session ends.
LEMMA RowEnded ==
  ASSUME Inv, NEW s \in DOMAIN sessions, NEW st \in {"COMPLETED", "FAILED"}
  PROVE  /\ SessionsKept(EndRow(sessions, s, st))
         /\ \A j \in DOMAIN sessions : j # s => EndRow(sessions, s, st)[j] = sessions[j]
         /\ EndRow(sessions, s, st)[s].ended /\ EndRow(sessions, s, st)[s].status = st
<1> DEFINE x == [sessions[s] EXCEPT !.status = st, !.ended = TRUE]
<1>1. sessions[s] \in SessionType /\ sessions \in Seq(SessionType)
  BY Rows DEF Inv, TypeOK
<1>2. EndRow(sessions, s, st) = [sessions EXCEPT ![s] = x]
  BY <1>1 DEF EndRow, SessionType
<1>3. /\ x \in SessionType /\ x.ended /\ x.status = st /\ x.thread = sessions[s].thread
      /\ x.provider = sessions[s].provider /\ x.model = sessions[s].model
  BY <1>1 DEF SessionType
<1>4. x.thread # 0 => x.thread \in DOMAIN execs /\ execs[x.thread].session = s
  BY <1>3 DEF Inv, ThreadsStayApart
<1> HIDE DEF x
<1>5. SessionsKept(EndRow(sessions, s, st))
  BY <1>2, <1>3, <1>4, SessionChanged
<1>6. /\ EndRow(sessions, s, st)[s] = x
      /\ \A j \in DOMAIN sessions : j # s => EndRow(sessions, s, st)[j] = sessions[j]
  BY <1>1, <1>2, <1>3, RowReplaced
<1> QED
  BY <1>3, <1>5, <1>6

\* A turn is over.
LEMMA OverKept ==
  ASSUME Inv, NEW e \in DOMAIN execs, NEW st \in States, NEW reap \in BOOLEAN, Over(e, st, reap)
  PROVE  ExecsKept
<1> DEFINE x == [execs[e] EXCEPT !.state = st, !.turn = "over", !.reap = reap,
                                 !.resumed = 0, !.reported = 0]
<1>1. execs[e] \in ExecType /\ execs \in Seq(ExecType)
  BY Rows DEF Inv, TypeOK
<1>2. execs' = [execs EXCEPT ![e] = x]
  BY <1>1 DEF Over, ExecType
<1>3. /\ x \in ExecType /\ x.resumed = 0 /\ x.reported = 0
      /\ x.message = execs[e].message /\ x.session = execs[e].session
      /\ x.provider = execs[e].provider /\ x.model = execs[e].model
  BY <1>1 DEF ExecType
<1> HIDE DEF x
<1> QED
  BY <1>2, <1>3, ExecChanged

\* A turn starts with the thread of its session.
LEMMA StartTurnInv ==
  ASSUME Inv, NEW e \in DOMAIN execs, StartTurn(e)
  PROVE  Inv' /\ ExecsKept /\ SessionsKept(sessions')
<1> DEFINE s == execs[e].session
           x == [execs[e] EXCEPT !.state = "RUNNING", !.turn = "running",
                                 !.resumed = sessions[s].thread]
<1>1. execs[e] \in ExecType /\ execs \in Seq(ExecType) /\ s \in DOMAIN sessions
      /\ sessions[s] \in SessionType
  BY Rows DEF Inv, TypeOK
<1>2. execs' = [execs EXCEPT ![e] = x]
  BY <1>1 DEF StartTurn, ExecType
<1>3. sessions[s].thread \in Nat
  BY <1>1 DEF SessionType
<1>4. /\ x \in ExecType /\ x.resumed = sessions[s].thread /\ x.reported = execs[e].reported
      /\ x.message = execs[e].message /\ x.session = execs[e].session
      /\ x.provider = execs[e].provider /\ x.model = execs[e].model
  BY <1>1, <1>3 DEF ExecType, States, Active
<1>5. \A t \in {x.resumed, x.reported} \ {0} :
         t \in DOMAIN execs /\ execs[t].session = execs[e].session
  BY <1>1, <1>4 DEF Inv, ThreadsStayApart
<1> HIDE DEF x
<1>6. ExecsKept
  BY <1>2, <1>4, <1>5, ExecChanged
<1> QED
  BY <1>6, Unmoved, WorkInv DEF StartTurn, UnchangedByWorkers, Inv, TypeOK

\* The completion reports the thread resumed, one that it began, or none.
LEMMA CompletionWritesInv ==
  ASSUME Inv, NEW e \in DOMAIN execs, NEW t \in Nat, CompletionWrites(e, t)
  PROVE  Inv' /\ ExecsKept /\ SessionsKept(sessions')
<1>1. execs[e] \in ExecType /\ execs \in Seq(ExecType)
  BY Rows DEF Inv, TypeOK
<1>2. ExecsKept
  <2>1. CASE execs' = [execs EXCEPT ![e].turn = "failing"]
    <3> DEFINE x == [execs[e] EXCEPT !.turn = "failing"]
    <3>1. execs' = [execs EXCEPT ![e] = x]
      BY <2>1
    <3>2. /\ x \in ExecType /\ x.resumed = execs[e].resumed /\ x.reported = execs[e].reported
          /\ x.message = execs[e].message /\ x.session = execs[e].session
          /\ x.provider = execs[e].provider /\ x.model = execs[e].model
      BY <1>1 DEF ExecType
    <3> HIDE DEF x
    <3>3. \A u \in {x.resumed, x.reported} \ {0} :
             u \in DOMAIN execs /\ execs[u].session = execs[e].session
      BY <3>2 DEF Inv, ThreadsStayApart
    <3> QED
      BY <3>1, <3>2, <3>3, ExecChanged
  <2>2. CASE execs' = [execs EXCEPT ![e].turn = "committing", ![e].reported = t]
    <3> DEFINE x == [execs[e] EXCEPT !.turn = "committing", !.reported = t]
    <3>1. execs' = [execs EXCEPT ![e] = x]
      BY <1>1, <2>2 DEF ExecType
    <3>2. /\ x \in ExecType /\ x.resumed = execs[e].resumed /\ x.reported = t
          /\ x.message = execs[e].message /\ x.session = execs[e].session
          /\ x.provider = execs[e].provider /\ x.model = execs[e].model
      BY <1>1 DEF ExecType
    <3> HIDE DEF x
    <3>3. \A u \in {execs[e].resumed} \ {0} :
             u \in DOMAIN execs /\ execs[u].session = execs[e].session
      BY DEF Inv, ThreadsStayApart
    <3>4. t \in {execs[e].resumed, e, 0}
      BY DEF CompletionWrites
    <3>5. \A u \in {x.resumed, x.reported} \ {0} :
             u \in DOMAIN execs /\ execs[u].session = execs[e].session
      BY <3>2, <3>3, <3>4
    <3> QED
      BY <3>1, <3>2, <3>5, ExecChanged
  <2> QED
    BY <2>1, <2>2 DEF CompletionWrites
<1> QED
  BY <1>2, Unmoved, WorkInv DEF CompletionWrites, UnchangedByWorkers, Inv, TypeOK

\* The completion gives its session the thread that it reported, begun in that session.
LEMMA CompletionCommitsInv ==
  ASSUME Inv, NEW e \in DOMAIN execs, CompletionCommits(e)
  PROVE  Inv' /\ ExecsKept /\ SessionsKept(sessions')
<1> DEFINE s == execs[e].session
           x == [sessions[s] EXCEPT !.status = "RUNNING", !.thread = execs[e].reported]
<1>1. /\ execs[e] \in ExecType /\ s \in DOMAIN sessions
      /\ sessions[s] \in SessionType /\ sessions \in Seq(SessionType)
  BY Rows DEF Inv, TypeOK
<1>2. sessions' = [sessions EXCEPT ![s] = x]
  BY <1>1 DEF CompletionCommits, SessionType
<1>3. execs[e].reported \in Nat /\ execs[e].provider \in Providers
  BY <1>1 DEF ExecType
<1>4. /\ x \in SessionType /\ x.status = "RUNNING" /\ x.thread = execs[e].reported
      /\ x.provider = sessions[s].provider /\ x.model = sessions[s].model
      /\ x.ended = sessions[s].ended
  BY <1>1, <1>3 DEF SessionType
<1>5. x.thread # 0 => x.thread \in DOMAIN execs /\ execs[x.thread].session = s
  BY <1>4 DEF Inv, ThreadsStayApart
<1> HIDE DEF x
<1>6. SessionsKept(sessions')
  BY <1>1, <1>2, <1>4, <1>5, SessionChanged
<1>7. ExecsKept
  BY OverKept DEF CompletionCommits, EndExec, States
<1> QED
  BY <1>3, <1>6, <1>7, WorkInv DEF CompletionCommits, UnchangedByWorkers

\* A failure, the cancel route and the sweep end executions and sessions.
LEMMA EndingInv ==
  ASSUME Inv, NEW e \in DOMAIN execs,
         FailureCommits(e) \/ Cancel(e) \/ Reap(e)
  PROVE  Inv' /\ ExecsKept /\ SessionsKept(sessions')
<1>1. ExecsKept
  BY OverKept DEF FailureCommits, Cancel, Reap, EndExec, States
<1>2. SessionsKept(sessions')
  BY Rows, Unmoved, RowEnded DEF FailureCommits, Cancel, Reap, Inv
<1>3. speaker' \in Providers \cup {NoProvider}
  <2>1. execs[e].provider \in Providers
    BY Rows DEF Inv, ExecType
  <2>2. speaker \in Providers \cup {NoProvider}
    BY DEF Inv, TypeOK
  <2> QED
    BY <2>1, <2>2 DEF FailureCommits, Cancel, Reap
<1> QED
  BY <1>1, <1>2, <1>3, WorkInv DEF FailureCommits, Cancel, Reap, UnchangedByWorkers

\* The sweep ends the session of an execution that it reclaimed.
LEMMA ReapRestInv ==
  ASSUME Inv, NEW e \in DOMAIN execs, ReapRest(e)
  PROVE  Inv' /\ ExecsKept /\ SessionsKept(sessions')
<1> DEFINE x == [execs[e] EXCEPT !.reap = FALSE]
<1>1. execs[e] \in ExecType /\ execs \in Seq(ExecType) /\ execs[e].session \in DOMAIN sessions
  BY Rows DEF Inv, TypeOK
<1>2. execs' = [execs EXCEPT ![e] = x]
  BY DEF ReapRest
<1>3. /\ x \in ExecType /\ x.resumed = execs[e].resumed /\ x.reported = execs[e].reported
      /\ x.message = execs[e].message /\ x.session = execs[e].session
      /\ x.provider = execs[e].provider /\ x.model = execs[e].model
  BY <1>1 DEF ExecType
<1> HIDE DEF x
<1>4. \A u \in {x.resumed, x.reported} \ {0} :
         u \in DOMAIN execs /\ execs[u].session = execs[e].session
  BY <1>3 DEF Inv, ThreadsStayApart
<1>5. ExecsKept
  BY <1>2, <1>3, <1>4, ExecChanged
<1>6. SessionsKept(sessions')
  BY <1>1, Unmoved, RowEnded DEF ReapRest
<1>7. speaker' \in Providers \cup {NoProvider}
  BY <1>1 DEF ReapRest, ExecType
<1> QED
  BY <1>5, <1>6, <1>7, WorkInv DEF ReapRest, UnchangedByWorkers

-----------------------------------------------------------------------------
(***************************************************************************)
(* Requests.                                                               *)
(***************************************************************************)

\* A request that goes on, with what it resolved and read.
LEMMA RequestMoved ==
  ASSUME TypeOK, NEW r \in Requests,
         NEW a \in {"idle", "locking", "writing", "numbering"} \cup Ended,
         NEW o \in OrderType,
         NEW n \in SeenType,
         n.latest \in 0 .. Len(sessions), UNCHANGED db, holder' \in Submissions \cup {NoRequest},
         pc' = [pc EXCEPT ![r] = a], order' = [order EXCEPT ![r] = o],
         seen' = [seen EXCEPT ![r] = n]
  PROVE  /\ TypeOK'
         /\ pc'[r] = a /\ order'[r] = o /\ seen'[r] = n
         /\ \A q \in Requests : q # r =>
               pc'[q] = pc[q] /\ order'[q] = order[q] /\ seen'[q] = seen[q]
<1>1. /\ pc'[r] = a /\ order'[r] = o /\ seen'[r] = n
      /\ \A q \in Requests : q # r =>
            pc'[q] = pc[q] /\ order'[q] = order[q] /\ seen'[q] = seen[q]
  BY DEF TypeOK
<1>2. /\ pc' \in [Requests -> {"idle", "locking", "writing", "numbering"} \cup Ended]
      /\ order' \in [Requests -> OrderType]
      /\ seen' \in [Requests -> SeenType]
  BY DEF TypeOK
<1>3. \A q \in Requests : seen'[q].latest \in 0 .. Len(sessions')
  BY <1>1 DEF TypeOK, db
<1> QED
  BY <1>1, <1>2, <1>3 DEF TypeOK, db

\* What is true of the rows stays true while only requests move.
LEMMA RowsUnmoved ==
  ASSUME Inv, UNCHANGED db
  PROVE  /\ ThreadsStayApart' /\ EndedWhenNotRunning' /\ Superseded'
         /\ \A k : ExecutionsOf(k)' = ExecutionsOf(k)
BY DEF Inv, db, ThreadsStayApart, EndedWhenNotRunning, Superseded, ExecutionsOf

\* A request that is answered; its lock, if it has one, is released.
LEMMA AnsweredInv ==
  ASSUME Inv, NEW r \in Requests, NEW how \in Ended, Answered(r, how), UNCHANGED db,
         holder' = holder \/ (holder' = NoRequest /\ holder \in {r, NoRequest})
  PROVE  Inv'
<1>1. NoOrder \in OrderType
  BY DEF NoOrder, OrderType
<1>2. /\ NothingSeen \in SeenType
      /\ NothingSeen.latest \in 0 .. Len(sessions)
  BY Rows DEF NothingSeen, SeenType, Inv
<1>3. holder' \in Submissions \cup {NoRequest}
  BY DEF Inv, TypeOK
<1>4. /\ TypeOK' /\ pc'[r] = how
      /\ \A q \in Requests : q # r =>
            pc'[q] = pc[q] /\ order'[q] = order[q] /\ seen'[q] = seen[q]
  BY <1>1, <1>2, <1>3, RequestMoved DEF Answered, Inv
<1>5. how \notin {"locking"} \cup Writing
  BY DEF Ended, Writing
<1>6. Resolved' /\ SeenLatest'
  BY <1>4, <1>5 DEF Inv, Resolved, SeenLatest, db
<1>7. SubmissionHolds'
  <2> SUFFICES ASSUME NEW q \in Submissions
               PROVE  /\ pc'[q] \in {"locking", "writing"} => order'[q].message = Key[q]
                      /\ pc'[q] = "writing" => holder' = q
                      /\ pc'[q] # "numbering"
    BY DEF SubmissionHolds
  <2>1. q \in Requests /\ NoRequest # q
    BY DEF Requests
  <2> QED
    BY <1>4, <1>5, <2>1 DEF Inv, SubmissionHolds, Writing
<1>8. RetryKnown' /\ KeyLookupHolds'
  BY <1>4, <1>5, RowsUnmoved DEF Inv, RetryKnown, KeyLookupHolds, Requests, Writing
<1> QED
  BY <1>4, <1>6, <1>7, <1>8, RowsUnmoved DEF Inv

\* The route selects a provider and one of its models.
LEMMA RouteInv ==
  ASSUME Inv, NEW r \in Submissions, NEW requested, NEW healthy \in SUBSET Providers, NEW m,
         Route(r, requested, healthy, m)
  PROVE  Inv'
<1> DEFINE p == SelectProvider(requested, speaker, healthy)
           o == [provider |-> p, model |-> m, message |-> Key[r]]
           n == [seen[r] EXCEPT !.speaker = speaker]
<1>1. UNCHANGED <<db, holder>> /\ r \in Requests
  BY DEF Route, Requests
<1>2. CASE p = NoProvider /\ Answered(r, "unavailable")
  BY <1>1, <1>2, AnsweredInv DEF Ended
<1>3. CASE /\ p # NoProvider /\ m \in Models[p]
           /\ pc' = [pc EXCEPT ![r] = "locking"] /\ order' = [order EXCEPT ![r] = o]
           /\ seen' = [seen EXCEPT ![r].speaker = speaker]
  <2>1. p \in Providers
    BY <1>3, SelectsProvider
  <2>2. o \in Order
    BY <1>3, <2>1 DEF Order, AllModels, Keys
  <2>3. /\ n \in SeenType
        /\ n.latest \in 0 .. Len(sessions)
    BY <1>1 DEF Inv, TypeOK, SeenType
  <2>4. seen' = [seen EXCEPT ![r] = n]
    BY <1>3
  <2>5. o \in OrderType
        /\ o.message = Key[r]
    BY <2>2 DEF Order, OrderType
  <2>6. holder' \in Submissions \cup {NoRequest}
    BY <1>1 DEF Inv, TypeOK
  <2> HIDE DEF p, o, n
  <2>7. UNCHANGED db /\ TypeOK /\ r \in Requests
    BY <1>1 DEF Inv
  <2>8. "locking" \in {"idle", "locking", "writing", "numbering"} \cup Ended
    OBVIOUS
  <2>9. pc' = [pc EXCEPT ![r] = "locking"] /\ order' = [order EXCEPT ![r] = o]
    BY <1>3
  <2>10. /\ TypeOK' /\ pc'[r] = "locking" /\ order'[r] = o
        /\ \A q \in Requests : q # r =>
              pc'[q] = pc[q] /\ order'[q] = order[q] /\ seen'[q] = seen[q]
    <3>1. TypeOK'
      BY <2>3, <2>4, <2>5, <2>6, <2>7, <2>8, <2>9, RequestMoved
    <3>2. /\ pc'[r] = "locking" /\ order'[r] = o /\ seen'[r] = n
          /\ \A q \in Requests : q # r =>
                pc'[q] = pc[q] /\ order'[q] = order[q] /\ seen'[q] = seen[q]
      BY <2>4, <2>6, <2>7, <2>9 DEF TypeOK
    <3> QED
      BY <3>1, <3>2
  <2>11. Resolved' /\ SeenLatest'
    BY <1>1, <2>2, <2>10 DEF Inv, Resolved, SeenLatest, db, Writing
  <2>12. SubmissionHolds'
    BY <1>1, <2>5, <2>10 DEF Inv, SubmissionHolds, Requests
  <2>13. RetryKnown' /\ KeyLookupHolds'
    BY <1>1, <2>10, RowsUnmoved DEF Inv, RetryKnown, KeyLookupHolds, Requests, Writing
  <2> QED
    BY <1>1, <2>10, <2>11, <2>12, <2>13, RowsUnmoved DEF Inv
<1> QED
  BY <1>2, <1>3 DEF Route

\* The lock is free: no other submission writes.
LEMMA LockInv ==
  ASSUME Inv, NEW r \in Submissions, Lock(r)
  PROVE  Inv'
<1> DEFINE l == Latest(order[r].provider)
           running == l # 0 /\ sessions[l].status = "RUNNING"
           n == [seen[r] EXCEPT !.latest = l, !.running = running]
<1>1. /\ UNCHANGED <<db, order>> /\ r \in Requests /\ pc[r] = "locking"
      /\ holder = NoRequest /\ holder' = r /\ ExecutionsOf(Key[r]) = {}
      /\ pc' = [pc EXCEPT ![r] = "writing"]
      /\ seen' = [seen EXCEPT ![r].latest = l, ![r].running = running]
  BY DEF Lock, Requests
<1>2. /\ l \in Nat /\ l \in 0 .. Len(sessions) /\ running \in BOOLEAN
      /\ l # 0 => l \in DOMAIN sessions /\ sessions[l].provider = order[r].provider
  BY LatestIs DEF Inv
<1> HIDE DEF l, running
<1>3. /\ n \in SeenType
      /\ n.latest = l /\ n.running = running
      /\ seen \in [Requests -> SeenType]
  BY <1>1, <1>2 DEF Inv, TypeOK, SeenType
<1>4. seen' = [seen EXCEPT ![r] = n]
  BY <1>1, <1>3 DEF SeenType
<1>5. order[r] \in OrderType
      /\ order' = [order EXCEPT ![r] = order[r]]
  BY <1>1 DEF Inv, TypeOK
<1> HIDE DEF n
<1>6. UNCHANGED db /\ TypeOK /\ r \in Requests /\ holder' \in Submissions \cup {NoRequest}
  BY <1>1 DEF Inv
<1>7. "writing" \in {"idle", "locking", "writing", "numbering"} \cup Ended /\ n.latest \in 0 .. Len(sessions)
  BY <1>2, <1>3
<1>8. pc' = [pc EXCEPT ![r] = "writing"]
  BY <1>1
<1>9. /\ TypeOK' /\ pc'[r] = "writing" /\ order'[r] = order[r] /\ seen'[r] = n
      /\ \A q \in Requests : q # r =>
            pc'[q] = pc[q] /\ order'[q] = order[q] /\ seen'[q] = seen[q]
  BY <1>3, <1>4, <1>5, <1>6, <1>7, <1>8, RequestMoved
<1>10. Resolved'
  BY <1>1, <1>9 DEF Inv, Resolved, Writing
<1>11. SeenLatest'
  BY <1>1, <1>2, <1>3, <1>9 DEF Inv, SeenLatest, db, running
<1>12. \A q \in Submissions : q # r => pc'[q] # "writing"
  BY <1>1, <1>9 DEF Inv, SubmissionHolds, Requests
<1>13. SubmissionHolds'
  BY <1>1, <1>9, <1>12 DEF Inv, SubmissionHolds, Requests
<1>14. RetryKnown' /\ KeyLookupHolds'
  <2>1. r \notin Retries
    OBVIOUS
  <2>2. \A k : ExecutionsOf(k)' = ExecutionsOf(k)
    BY <1>1, RowsUnmoved
  <2> QED
    BY <1>1, <1>9, <1>12, <2>1, <2>2 DEF Inv, RetryKnown, KeyLookupHolds, Requests
<1> QED
  BY <1>1, <1>9, <1>10, <1>11, <1>13, <1>14, RowsUnmoved DEF Inv

\* A retry reads what it retries and the latest session.
LEMMA RetryReadsInv ==
  ASSUME Inv, NEW r \in Retries, NEW e \in DOMAIN execs, NEW p \in Providers,
         NEW m \in Models[p], RetryReads(r, e, p, m)
  PROVE  Inv'
<1> DEFINE l == Latest(p)
           running == l # 0 /\ sessions[l].status = "RUNNING"
           o == [provider |-> p, model |-> m, message |-> execs[e].message]
           n == [seen[r] EXCEPT !.latest = l, !.running = running]
<1>1. UNCHANGED <<db, holder>> /\ r \in Requests /\ r \notin Submissions
  BY DEF RetryReads, Requests
<1>2. CASE Answered(r, "duplicate")
  BY <1>1, <1>2, AnsweredInv DEF Ended
<1>3. CASE /\ pc' = [pc EXCEPT ![r] = "writing"] /\ order' = [order EXCEPT ![r] = o]
           /\ seen' = [seen EXCEPT ![r].latest = l, ![r].running = running]
  <2>1. /\ l \in Nat /\ l \in 0 .. Len(sessions) /\ running \in BOOLEAN
        /\ l # 0 => l \in DOMAIN sessions /\ sessions[l].provider = p
    BY LatestIs DEF Inv
  <2>2. execs[e].message \in Keys
    BY Rows DEF Inv, ExecType
  <2>3. o \in Order /\ o.message = execs[e].message /\ o.provider = p
    BY <2>2 DEF Order, AllModels
  <2>4. o \in OrderType
    BY <2>3 DEF Order, OrderType
  <2> HIDE DEF l, running, o
  <2>5. /\ n \in SeenType
        /\ n.latest = l /\ n.running = running
        /\ seen \in [Requests -> SeenType]
    BY <1>1, <2>1 DEF Inv, TypeOK, SeenType
  <2>6. seen' = [seen EXCEPT ![r] = n]
    BY <1>1, <1>3, <2>5 DEF SeenType
  <2>7. holder' \in Submissions \cup {NoRequest}
    BY <1>1 DEF Inv, TypeOK
  <2> HIDE DEF n
  <2>8. UNCHANGED db /\ TypeOK /\ r \in Requests
    BY <1>1 DEF Inv
  <2>9. "writing" \in {"idle", "locking", "writing", "numbering"} \cup Ended /\ n.latest \in 0 .. Len(sessions)
    BY <2>1, <2>5
  <2>10. pc' = [pc EXCEPT ![r] = "writing"] /\ order' = [order EXCEPT ![r] = o]
    BY <1>3
  <2>11. /\ TypeOK' /\ pc'[r] = "writing" /\ order'[r] = o /\ seen'[r] = n
        /\ \A q \in Requests : q # r =>
              pc'[q] = pc[q] /\ order'[q] = order[q] /\ seen'[q] = seen[q]
    <3>1. TypeOK'
      BY <2>4, <2>5, <2>6, <2>7, <2>8, <2>9, <2>10, RequestMoved
    <3>2. /\ pc'[r] = "writing" /\ order'[r] = o /\ seen'[r] = n
          /\ \A q \in Requests : q # r =>
                pc'[q] = pc[q] /\ order'[q] = order[q] /\ seen'[q] = seen[q]
      BY <2>4, <2>6, <2>8, <2>10 DEF TypeOK
    <3> QED
      BY <3>1, <3>2
  <2>12. Resolved'
    BY <2>3, <2>11 DEF Inv, Resolved, Writing
  <2>13. SeenLatest'
    BY ZenonT(60), <1>1, <2>1, <2>3, <2>5, <2>11 DEF Inv, SeenLatest, db, running
  <2>14. SubmissionHolds'
    BY <1>1, <2>11 DEF Inv, SubmissionHolds, Requests
  <2>15. RetryKnown' /\ KeyLookupHolds'
    <3>1. e \in ExecutionsOf(order'[r].message)
      BY <2>3, <2>11 DEF ExecutionsOf
    <3>2. \A k : ExecutionsOf(k)' = ExecutionsOf(k)
      BY <1>1, RowsUnmoved
    <3> QED
      BY <1>1, <2>11, <3>1, <3>2 DEF Inv, RetryKnown, KeyLookupHolds, Requests
  <2> QED
    BY <1>1, <2>11, <2>12, <2>13, <2>14, <2>15, RowsUnmoved DEF Inv
<1> QED
  BY <1>2, <1>3 DEF RetryReads

-----------------------------------------------------------------------------
(***************************************************************************)
(* An execution is queued.                                                 *)
(***************************************************************************)

\* The row number of the session that the request reuses or adds.
Placed(r) == IF Reuses(r) THEN seen[r].latest ELSE Len(sessions) + 1

\* What a request resolved and read.
LEMMA Writer ==
  ASSUME Inv, NEW r \in Requests, pc[r] \in Writing
  PROVE  /\ order[r] \in Order
         /\ seen[r].running \in BOOLEAN
         /\ seen[r].running => seen[r].latest # 0
         /\ seen[r].latest # 0 => /\ seen[r].latest \in DOMAIN sessions
                                  /\ sessions[seen[r].latest].provider = order[r].provider
<1>1. seen[r] \in SeenType /\ seen[r].latest \in 0 .. Len(sessions)
  BY DEF Inv, TypeOK
<1>2. seen[r].latest # 0 => seen[r].latest \in DOMAIN sessions
  BY <1>1, Rows DEF Inv, SeenType
<1> QED
  BY <1>1, <1>2 DEF Inv, Resolved, SeenLatest, SeenType

\* The sessions that were there stay; a new one follows only sessions of its provider that
\* have ended, which the index sees to.
LEMMA PlaceDoes ==
  ASSUME Inv, NEW r \in Requests, pc[r] \in Writing, ~Refused(r), Place(r)
  PROVE  /\ sessions' \in Seq(SessionType) /\ Len(sessions) <= Len(sessions')
         /\ DOMAIN sessions \subseteq DOMAIN sessions'
         /\ \A s \in DOMAIN sessions :
               /\ sessions'[s].provider = sessions[s].provider
               /\ sessions'[s].model = sessions[s].model
         /\ \A s \in DOMAIN sessions' : sessions'[s].thread # 0 =>
               /\ sessions'[s].thread \in DOMAIN execs
               /\ execs[sessions'[s].thread].session = s
         /\ EndedWhenNotRunning' /\ Superseded'
         /\ Placed(r) \in DOMAIN sessions'
         /\ sessions'[Placed(r)].provider = order[r].provider
         /\ sessions'[Placed(r)].model = order[r].model
         /\ \A s \in DOMAIN sessions' : sessions'[s].status = "RUNNING" =>
               \/ s \in DOMAIN sessions /\ sessions[s].status = "RUNNING"
               \/ ~Reuses(r) /\ sessions'[s].provider = order[r].provider
<1>1. CASE Reuses(r)
  <2>1. sessions' = sessions /\ Placed(r) = seen[r].latest
    BY <1>1 DEF Place, Placed
  <2>2. seen[r].latest # 0 /\ sessions[seen[r].latest].model = order[r].model
    BY <1>1, Writer DEF Reuses
  <2>3. EndedWhenNotRunning' /\ Superseded'
    BY <2>1 DEF Inv, EndedWhenNotRunning, Superseded
  <2>4. sessions \in Seq(SessionType) /\ Len(sessions) \in Nat
    BY Rows DEF Inv, TypeOK
  <2>5. \A s \in DOMAIN sessions : sessions[s].thread # 0 =>
           sessions[s].thread \in DOMAIN execs /\ execs[sessions[s].thread].session = s
    BY DEF Inv, ThreadsStayApart
  <2> QED
    BY <2>1, <2>2, <2>3, <2>4, <2>5, Writer
<1>2. CASE ~Reuses(r)
  <2> DEFINE old == Retired(r)
             row == [provider |-> order[r].provider, model |-> order[r].model,
                     status |-> "RUNNING", ended |-> FALSE, thread |-> 0]
  <2>1. SessionsKept(old)
    BY <1>2, Writer, RowEnded, Unmoved DEF Retired
  <2>2. /\ row \in SessionType
        /\ \A s \in DOMAIN sessions : old[s].status = "RUNNING" => sessions[s].status = "RUNNING"
    <3>1. row \in SessionType
      BY Writer DEF Order, SessionType
    <3>2. \A s \in DOMAIN sessions : old[s].status = "RUNNING" => sessions[s].status = "RUNNING"
      BY <1>2, Writer, RowEnded DEF Retired
    <3> QED
      BY <3>1, <3>2
  <2>3. \A s \in DOMAIN old : old[s].provider = order[r].provider => old[s].status # "RUNNING"
    BY <1>2 DEF Refused, RunningOf
  <2>4. row.thread = 0 /\ row.status = "RUNNING" /\ row.provider = order[r].provider
        /\ row.model = order[r].model
    OBVIOUS
  <2>5. sessions' = Append(old, row) /\ Placed(r) = Len(sessions) + 1
    BY <1>2 DEF Place, Placed
  <2> HIDE DEF old, row
  <2>6. /\ old \in Seq(SessionType) /\ Len(old) = Len(sessions) /\ DOMAIN old = DOMAIN sessions
        /\ \A s \in DOMAIN sessions :
              /\ old[s].provider = sessions[s].provider /\ old[s].model = sessions[s].model
              /\ sessions[s].ended => old[s].ended
              /\ old[s].status # "RUNNING" => old[s].ended
              /\ old[s].thread # 0 =>
                    old[s].thread \in DOMAIN execs /\ execs[old[s].thread].session = s
    BY <2>1 DEF SessionsKept
  <2>7. /\ sessions' \in Seq(SessionType) /\ Len(sessions') = Len(sessions) + 1
        /\ DOMAIN sessions = 1 .. Len(sessions) /\ DOMAIN sessions' = 1 .. (Len(sessions) + 1)
        /\ sessions'[Len(sessions) + 1] = row
        /\ \A s \in DOMAIN sessions : sessions'[s] = old[s]
    <3>1. /\ sessions' \in Seq(SessionType) /\ Len(sessions') = Len(old) + 1
          /\ DOMAIN old = 1 .. Len(old) /\ DOMAIN sessions' = 1 .. (Len(old) + 1)
          /\ sessions'[Len(old) + 1] = row /\ \A s \in DOMAIN old : sessions'[s] = old[s]
      BY <2>2, <2>5, <2>6, RowAdded
    <3> QED
      BY <2>6, <3>1
  <2>8. Len(sessions) \in Nat
    BY Rows DEF Inv
  <2>9. \A s \in DOMAIN sessions' : s \in DOMAIN sessions \/ s = Len(sessions) + 1
    BY <2>7, <2>8
  <2>10. Len(sessions) <= Len(sessions') /\ DOMAIN sessions \subseteq DOMAIN sessions'
         /\ Len(sessions) + 1 \in DOMAIN sessions'
    BY <2>7, <2>8
  <2>11. EndedWhenNotRunning'
    BY <2>4, <2>6, <2>7, <2>9 DEF EndedWhenNotRunning
  <2>12. Superseded'
    <3> SUFFICES ASSUME NEW s \in DOMAIN sessions', NEW t \in DOMAIN sessions', s < t,
                        sessions'[s].provider = sessions'[t].provider
                 PROVE  sessions'[s].ended
      BY DEF Superseded
    <3>1. s \in DOMAIN sessions
      BY <2>7, <2>8, <2>9
    <3>2. CASE t \in DOMAIN sessions
      BY <2>6, <2>7, <3>1, <3>2 DEF Inv, Superseded
    <3>3. CASE t = Len(sessions) + 1
      BY <2>3, <2>4, <2>6, <2>7, <3>1, <3>3
    <3> QED
      BY <2>9, <3>2, <3>3
  <2>13. \A s \in DOMAIN sessions' : sessions'[s].thread # 0 =>
            sessions'[s].thread \in DOMAIN execs /\ execs[sessions'[s].thread].session = s
    BY <2>4, <2>6, <2>7, <2>9
  <2>14. \A s \in DOMAIN sessions' : sessions'[s].status = "RUNNING" =>
            \/ s \in DOMAIN sessions /\ sessions[s].status = "RUNNING"
            \/ ~Reuses(r) /\ sessions'[s].provider = order[r].provider
    BY <1>2, <2>2, <2>4, <2>7, <2>9
  <2> QED
    BY <2>4, <2>5, <2>6, <2>7, <2>10, <2>11, <2>12, <2>13, <2>14
<1> QED
  BY <1>1, <1>2

\* What is queued.
LEMMA QueueDoes ==
  ASSUME Inv, NEW r \in Requests, pc[r] \in Writing, NEW handoff \in BOOLEAN, Queue(r, handoff),
         Placed(r) \in Nat
  PROVE  \E x \in ExecType :
            /\ execs' = Append(execs, x) /\ handoffSequence' \in Nat
            /\ x.message = order[r].message /\ x.provider = order[r].provider
            /\ x.model = order[r].model /\ x.session = Placed(r)
            /\ x.resumed = 0 /\ x.reported = 0 /\ x.turn = "none"
<1> DEFINE x == [message |-> order[r].message, provider |-> order[r].provider,
                 model |-> order[r].model, session |-> Placed(r),
                 capsule |-> IF handoff THEN handoffSequence + 1 ELSE 0,
                 state |-> "QUEUED", turn |-> "none", resumed |-> 0,
                 reported |-> 0, reap |-> FALSE]
<1>1. handoffSequence \in Nat
  BY DEF Inv, TypeOK
<1>2. (IF handoff THEN handoffSequence + 1 ELSE 0) \in Nat /\ handoffSequence' \in Nat
  BY <1>1 DEF Queue
<1>3. x \in ExecType
  BY <1>2, Writer DEF Order, ExecType, States, Active
<1>4. execs' = Append(execs, x)
  BY DEF Queue, Placed
<1> QED
  BY <1>2, <1>3, <1>4

\* The execution runs in the session that the request reuses or added; a submission had
\* the conversation, and a retry is for a message that has executions.
LEMMA QueueInv ==
  ASSUME Inv, NEW r \in Requests, pc[r] \in Writing, ~Refused(r), Place(r),
         NEW handoff \in BOOLEAN, Queue(r, handoff), speaker' = speaker,
         \/ r \in Submissions /\ holder' = NoRequest
         \/ r \in Retries /\ holder' = holder
  PROVE  Inv'
<1>1. /\ sessions' \in Seq(SessionType) /\ Len(sessions) <= Len(sessions')
      /\ DOMAIN sessions \subseteq DOMAIN sessions'
      /\ \A s \in DOMAIN sessions : /\ sessions'[s].provider = sessions[s].provider
                                    /\ sessions'[s].model = sessions[s].model
      /\ \A s \in DOMAIN sessions' : sessions'[s].thread # 0 =>
            sessions'[s].thread \in DOMAIN execs /\ execs[sessions'[s].thread].session = s
      /\ EndedWhenNotRunning' /\ Superseded'
      /\ Placed(r) \in DOMAIN sessions'
      /\ sessions'[Placed(r)].provider = order[r].provider
      /\ sessions'[Placed(r)].model = order[r].model
  BY PlaceDoes
<1>2. PICK x \in ExecType :
         /\ execs' = Append(execs, x) /\ handoffSequence' \in Nat
         /\ x.message = order[r].message /\ x.provider = order[r].provider
         /\ x.model = order[r].model /\ x.session = Placed(r)
         /\ x.resumed = 0 /\ x.reported = 0
  BY <1>1, QueueDoes
<1>3. /\ execs' \in Seq(ExecType) /\ Len(execs') = Len(execs) + 1
      /\ DOMAIN execs = 1 .. Len(execs) /\ DOMAIN execs' = 1 .. (Len(execs) + 1)
      /\ execs'[Len(execs) + 1] = x /\ \A e \in DOMAIN execs : execs'[e] = execs[e]
  BY <1>2, RowAdded DEF Inv, TypeOK
<1>4. /\ \A e \in DOMAIN execs' : e \in DOMAIN execs \/ e = Len(execs) + 1
      /\ DOMAIN execs \subseteq DOMAIN execs' /\ Len(execs) + 1 \in DOMAIN execs'
  BY <1>3, Rows DEF Inv
<1>5. /\ pc' \in [Requests -> {"idle", "locking", "writing", "numbering"} \cup Ended]
      /\ order' \in [Requests -> OrderType] /\ seen' \in [Requests -> SeenType]
      /\ pc'[r] = "accepted" /\ order'[r] = NoOrder /\ seen'[r] = NothingSeen
      /\ \A q \in Requests : q # r =>
            pc'[q] = pc[q] /\ order'[q] = order[q] /\ seen'[q] = seen[q]
  <2>1. "accepted" \in Ended /\ NoOrder \in OrderType /\ NothingSeen \in SeenType
    BY DEF Ended, NoOrder, NothingSeen, OrderType, SeenType
  <2> QED
    BY <2>1 DEF Queue, Answered, Inv, TypeOK
<1>6. TypeOK'
  <2>1. \A q \in Requests : seen'[q].latest \in 0 .. Len(sessions')
    <3>1. \A q \in Requests : seen[q].latest \in 0 .. Len(sessions)
      BY DEF Inv, TypeOK
    <3>2. 0 .. Len(sessions) \subseteq 0 .. Len(sessions') /\ 0 \in 0 .. Len(sessions')
      BY <1>1, Rows DEF Inv
    <3>3. NothingSeen.latest = 0
      BY DEF NothingSeen
    <3> QED
      BY <1>5, <3>1, <3>2, <3>3
  <2>2. \A e \in DOMAIN execs' : execs'[e].session \in DOMAIN sessions'
    BY <1>1, <1>2, <1>3, <1>4, Rows DEF Inv
  <2>3. holder' \in Submissions \cup {NoRequest} /\ speaker' \in Providers \cup {NoProvider}
    BY DEF Inv, TypeOK
  <2> QED
    BY <1>1, <1>2, <1>3, <1>5, <2>1, <2>2, <2>3 DEF TypeOK
<1>7. ThreadsStayApart'
  <2>1. ASSUME NEW e \in DOMAIN execs'
        PROVE  /\ sessions'[execs'[e].session].provider = execs'[e].provider
               /\ sessions'[execs'[e].session].model = execs'[e].model
               /\ \A t \in {execs'[e].resumed, execs'[e].reported} \ {0} :
                     t \in DOMAIN execs' /\ execs'[t].session = execs'[e].session
    <3>1. CASE e \in DOMAIN execs
      <4>1. execs[e].session \in DOMAIN sessions
        BY <3>1, Rows DEF Inv
      <4>2. \A t \in {execs[e].resumed, execs[e].reported} \ {0} :
               t \in DOMAIN execs /\ execs[t].session = execs[e].session
        BY <3>1 DEF Inv, ThreadsStayApart
      <4>3. sessions[execs[e].session].provider = execs[e].provider
            /\ sessions[execs[e].session].model = execs[e].model
        BY <3>1 DEF Inv, ThreadsStayApart
      <4> QED
        BY <1>1, <1>3, <1>4, <3>1, <4>1, <4>2, <4>3
    <3>2. CASE e = Len(execs) + 1
      BY <1>1, <1>2, <1>3, <3>2
    <3> QED
      BY <1>4, <3>1, <3>2
  <2>2. ASSUME NEW s \in DOMAIN sessions', sessions'[s].thread # 0
        PROVE  sessions'[s].thread \in DOMAIN execs' /\ execs'[sessions'[s].thread].session = s
    BY <1>1, <1>3, <1>4, <2>2
  <2> QED
    BY <2>1, <2>2 DEF ThreadsStayApart
<1>8. "accepted" \notin {"locking"} \cup Writing
  BY DEF Writing
<1>9. Resolved'
  BY <1>5, <1>8 DEF Inv, Resolved
<1>10. SubmissionHolds'
  <2>1. ASSUME NEW q \in Submissions, q # r, pc[q] = "writing"
        PROVE  holder' = q
    BY <2>1 DEF Inv, SubmissionHolds, Requests, Writing
  <2> QED
    BY <1>5, <1>8, <2>1 DEF Inv, SubmissionHolds, Requests, Writing
<1>11. SeenLatest'
  <2> SUFFICES ASSUME NEW q \in Requests, pc'[q] \in Writing
               PROVE  /\ seen'[q].running => seen'[q].latest # 0
                      /\ seen'[q].latest # 0 =>
                            sessions'[seen'[q].latest].provider = order'[q].provider
    BY DEF SeenLatest
  <2>1. q # r /\ pc[q] \in Writing /\ seen'[q] = seen[q] /\ order'[q] = order[q]
    BY <1>5, <1>8
  <2> QED
    BY <1>1, <2>1, Writer
<1>12. \A k : ExecutionsOf(k) \subseteq ExecutionsOf(k)'
  BY <1>3, <1>4 DEF ExecutionsOf
<1>13. RetryKnown'
  BY <1>5, <1>8, <1>12 DEF Inv, RetryKnown, Requests, Writing
<1>14. KeyLookupHolds'
  <2> SUFFICES ASSUME NEW q \in Submissions, pc'[q] = "writing"
               PROVE  ExecutionsOf(Key[q])' = {}
    BY DEF KeyLookupHolds
  <2>1. q # r /\ pc[q] = "writing" /\ ExecutionsOf(Key[q]) = {}
    BY <1>5 DEF Inv, KeyLookupHolds, Requests
  <2>2. r \in Retries
    BY <2>1 DEF Inv, SubmissionHolds, Requests, Writing
  <2>3. order[r].message # Key[q]
    BY <2>1, <2>2 DEF Inv, RetryKnown
  <2> QED
    BY <1>2, <1>3, <1>4, <2>1, <2>3 DEF ExecutionsOf
<1> QED
  BY <1>1, <1>6, <1>7, <1>9, <1>10, <1>11, <1>13, <1>14 DEF Inv

\* The index lets a retry in that holds the rows of its provider.
LEMMA ReservedFits ==
  ASSUME Inv, Reserved, NEW r \in Retries, pc[r] = "numbering"
  PROVE  ~Refused(r)
<1>1. CASE Reuses(r)
  BY <1>1 DEF Refused
<1>2. CASE ~Reuses(r)
  <2>1. /\ order[r] \in Order /\ seen[r].running \in BOOLEAN
        /\ seen[r].running => seen[r].latest \in DOMAIN sessions
    BY Writer DEF Requests, Writing
  <2>2. \A s \in DOMAIN sessions :
           sessions[s].status = "RUNNING" /\ sessions[s].provider = order[r].provider
           => seen[r].running /\ s = seen[r].latest
    BY <1>2 DEF Reserved, Holds
  <2>3. CASE seen[r].running
    <3> DEFINE l == seen[r].latest
               old == EndRow(sessions, l, "COMPLETED")
    <3>1. Retired(r) = old
      BY <1>2, <2>3 DEF Retired
    <3>2. /\ DOMAIN old = DOMAIN sessions /\ old[l].status = "COMPLETED"
          /\ \A s \in DOMAIN sessions : s # l => old[s] = sessions[s]
      BY <2>1, <2>3, RowEnded DEF SessionsKept
    <3> HIDE DEF old
    <3>3. RunningOf(old, order[r].provider) = {}
      BY <2>2, <3>2 DEF RunningOf
    <3> QED
      BY <3>1, <3>3 DEF Refused
  <2>4. CASE ~seen[r].running
    BY <2>2, <2>4 DEF Refused, Retired, RunningOf
  <2> QED
    BY <2>3, <2>4
<1> QED
  BY <1>1, <1>2

\* A submission writes, or is refused.
LEMMA WriteInv ==
  ASSUME Inv, NEW r \in Submissions, Write(r)
  PROVE  Inv'
<1>1. r \in Requests /\ pc[r] = "writing" /\ holder = r
  BY DEF Write, Inv, SubmissionHolds, Requests
<1>2. CASE Abort(r, "conflict") \/ Abort(r, "noMessage")
  BY <1>1, <1>2, AnsweredInv DEF Abort, Ended
<1>3. CASE /\ ~Refused(r) /\ Place(r) /\ Queue(r, ProviderChanged(r) \/ ModelChanged(r))
           /\ holder' = NoRequest /\ UNCHANGED speaker
  <2>1. pc[r] \in Writing /\ (ProviderChanged(r) \/ ModelChanged(r)) \in BOOLEAN
    BY <1>1 DEF Writing, ProviderChanged, ModelChanged
  <2> QED
    BY <1>1, <1>3, <2>1, QueueInv
<1> QED
  BY <1>2, <1>3 DEF Write

\* A retry writes and commits, or goes on to its capsule, or is refused.
LEMMA RetryWritesInv ==
  ASSUME Inv, NEW r \in Retries, RetryWrites(r)
  PROVE  Inv'
<1>1. r \in Requests /\ r \notin Submissions /\ pc[r] = "writing" /\ UNCHANGED holder
  BY DEF RetryWrites, Requests
<1>2. CASE Answered(r, "conflict") /\ UNCHANGED db
  BY <1>1, <1>2, AnsweredInv DEF Ended
<1>3. CASE ~Refused(r) /\ Place(r) /\ Queue(r, FALSE) /\ UNCHANGED speaker
  <2>1. pc[r] \in Writing
    BY <1>1 DEF Writing
  <2> QED
    BY <1>1, <1>3, <2>1, QueueInv
<1>4. CASE pc' = [pc EXCEPT ![r] = "numbering"] /\ UNCHANGED <<db, order, seen>>
  <2>1. /\ pc' \in [Requests -> {"idle", "locking", "writing", "numbering"} \cup Ended]
        /\ \A q \in Requests : pc'[q] = IF q = r THEN "numbering" ELSE pc[q]
    BY <1>1, <1>4 DEF Inv, TypeOK
  <2>2. TypeOK'
    BY <1>1, <1>4, <2>1 DEF Inv, TypeOK, db
  <2>3. Resolved' /\ SeenLatest'
    BY <1>1, <1>4, <2>1 DEF Inv, Resolved, SeenLatest, Writing, db
  <2>4. SubmissionHolds'
    BY <1>1, <1>4, <2>1 DEF Inv, SubmissionHolds, Requests
  <2>5. RetryKnown' /\ KeyLookupHolds'
    BY <1>1, <1>4, <2>1, RowsUnmoved
       DEF Inv, RetryKnown, KeyLookupHolds, Requests, Writing
  <2> QED
    BY <1>4, <2>2, <2>3, <2>4, <2>5, RowsUnmoved DEF Inv
<1> QED
  BY <1>2, <1>3, <1>4 DEF RetryWrites

\* A retry that waited for the conversation commits.
LEMMA RetryNumbersInv ==
  ASSUME Inv, Reserved, NEW r \in Retries, RetryNumbers(r)
  PROVE  Inv'
<1>1. r \in Requests /\ pc[r] \in Writing /\ UNCHANGED holder
  BY DEF RetryNumbers, Requests, Writing
<1>2. ~Refused(r)
  BY ReservedFits DEF RetryNumbers
<1> QED
  BY <1>1, <1>2, QueueInv DEF RetryNumbers

\* One side of a deadlock is undone.
LEMMA DeadlockAbortsInv ==
  ASSUME Inv, NEW r \in Submissions, NEW e \in DOMAIN execs, DeadlockAborts(r, e)
  PROVE  Inv'
<1>1. CASE Abort(r, "deadlock")
  BY <1>1, AnsweredInv DEF DeadlockAborts, Needs, Abort, Ended, Requests
<1>2. CASE /\ execs' = [execs EXCEPT ![e].turn = "failing", ![e].reported = 0]
           /\ UNCHANGED <<sessions, speaker>> /\ UnchangedByWorkers
  <2> DEFINE x == [execs[e] EXCEPT !.turn = "failing", !.reported = 0]
  <2>1. execs[e] \in ExecType /\ execs \in Seq(ExecType)
    BY Rows DEF Inv, TypeOK
  <2>2. execs' = [execs EXCEPT ![e] = x]
    BY <1>2, <2>1 DEF ExecType
  <2>3. /\ x \in ExecType /\ x.resumed = execs[e].resumed /\ x.reported = 0
        /\ x.message = execs[e].message /\ x.session = execs[e].session
        /\ x.provider = execs[e].provider /\ x.model = execs[e].model
    BY <2>1 DEF ExecType
  <2> HIDE DEF x
  <2>4. \A u \in {x.resumed, x.reported} \ {0} :
           u \in DOMAIN execs /\ execs[u].session = execs[e].session
    BY <2>3 DEF Inv, ThreadsStayApart
  <2>5. ExecsKept
    BY <2>2, <2>3, <2>4, ExecChanged
  <2> QED
    BY <1>2, <2>5, Unmoved, WorkInv DEF UnchangedByWorkers, Inv, TypeOK
<1> QED
  BY <1>1, <1>2 DEF DeadlockAborts

\* The same of a submission and a retry.
LEMMA DeadlockOfRetryInv ==
  ASSUME Inv, NEW r \in Submissions, NEW q \in Retries, DeadlockOfRetry(r, q)
  PROVE  Inv'
<1>1. r \in Requests /\ q \in Requests /\ holder = r /\ "deadlock" \in Ended
  BY DEF DeadlockOfRetry, Needs, Requests, Ended
<1>2. CASE Abort(r, "deadlock")
  BY <1>1, <1>2, AnsweredInv DEF Abort
<1>3. CASE Answered(q, "deadlock") /\ UNCHANGED <<db, holder>>
  BY <1>1, <1>3, AnsweredInv
<1> QED
  BY <1>2, <1>3 DEF DeadlockOfRetry

-----------------------------------------------------------------------------
(***************************************************************************)
(* A retry that waits for the conversation has its provider to itself.     *)
(***************************************************************************)

\* No retry begins to wait, sessions keep what they are of, and whoever makes one RUNNING
\* or begins a commit does it for a provider that no retry holds.
LEMMA ReservedKept ==
  ASSUME Inv, Reserved,
         \A r \in Retries : pc'[r] = "numbering" =>
             pc[r] = "numbering" /\ order'[r] = order[r] /\ seen'[r] = seen[r],
         DOMAIN sessions \subseteq DOMAIN sessions',
         \A s \in DOMAIN sessions : /\ sessions'[s].provider = sessions[s].provider
                                   /\ sessions'[s].model = sessions[s].model,
         \A s \in DOMAIN sessions' : sessions'[s].status = "RUNNING" =>
             \/ s \in DOMAIN sessions /\ sessions[s].status = "RUNNING"
             \/ \A r \in Retries : Holds(r) /\ pc'[r] = "numbering" =>
                    order[r].provider # sessions'[s].provider,
         \A e \in DOMAIN execs' : execs'[e].turn = "committing" =>
             \/ /\ e \in DOMAIN execs /\ execs[e].turn = "committing"
                /\ execs'[e].provider = execs[e].provider
             \/ \A r \in Retries : Holds(r) => order[r].provider # execs'[e].provider
  PROVE  Reserved'
<1>1. ASSUME NEW r \in Retries, Holds(r)'
      PROVE  /\ Holds(r) /\ pc'[r] = "numbering"
             /\ order'[r] = order[r] /\ seen'[r] = seen[r]
  <2>1. pc'[r] = "numbering" /\ order'[r] = order[r] /\ seen'[r] = seen[r]
    BY <1>1 DEF Holds
  <2>2. pc[r] \in Writing /\ r \in Requests
    BY <2>1 DEF Writing, Requests
  <2>3. seen[r].running => seen[r].latest \in DOMAIN sessions
    BY <2>2, Writer
  <2>4. Reuses(r) => Reuses(r)'
    BY <2>1, <2>3 DEF Reuses
  <2> QED
    BY <1>1, <2>1, <2>4 DEF Holds
<1>2. ASSUME NEW r \in Retries, Holds(r)'
      PROVE  /\ \A s \in DOMAIN sessions' :
                   sessions'[s].status = "RUNNING"
                   /\ sessions'[s].provider = order'[r].provider
                   => seen'[r].running /\ s = seen'[r].latest
             /\ \A e \in DOMAIN execs' :
                   execs'[e].turn = "committing" => execs'[e].provider # order'[r].provider
             /\ \A q \in Retries :
                   Holds(q)' /\ order'[q].provider = order'[r].provider => q = r
  <2>1. Holds(r) /\ pc'[r] = "numbering" /\ order'[r] = order[r] /\ seen'[r] = seen[r]
    BY <1>1, <1>2
  <2>2. \A s \in DOMAIN sessions' :
           sessions'[s].status = "RUNNING" /\ sessions'[s].provider = order'[r].provider
           => seen'[r].running /\ s = seen'[r].latest
    BY <2>1 DEF Reserved
  <2>3. \A e \in DOMAIN execs' :
           execs'[e].turn = "committing" => execs'[e].provider # order'[r].provider
    BY <2>1 DEF Reserved
  <2>4. \A q \in Retries :
           Holds(q)' /\ order'[q].provider = order'[r].provider => q = r
    BY <1>1, <2>1 DEF Reserved
  <2> QED
    BY <2>2, <2>3, <2>4
<1> QED
  BY <1>2 DEF Reserved

\* A step of a worker, or of one that is undone.
LEMMA WorkReserved ==
  ASSUME Inv, Reserved, UNCHANGED requests,
         ExecsKept, SessionsKept(sessions'),
         \A s \in DOMAIN sessions : sessions'[s].status = "RUNNING" =>
             \/ sessions[s].status = "RUNNING"
             \/ \A r \in Retries : Holds(r) => order[r].provider # sessions[s].provider,
         \A e \in DOMAIN execs : execs'[e].turn = "committing" =>
             \/ execs[e].turn = "committing"
             \/ \A r \in Retries : Holds(r) => order[r].provider # execs[e].provider
  PROVE  Reserved'
<1>1. \A r \in Retries : pc'[r] = pc[r] /\ order'[r] = order[r] /\ seen'[r] = seen[r]
  BY DEF requests
<1>2. DOMAIN sessions' = DOMAIN sessions /\ DOMAIN execs' = DOMAIN execs
  BY DEF ExecsKept, SessionsKept
<1>3. /\ \A s \in DOMAIN sessions : /\ sessions'[s].provider = sessions[s].provider
                                   /\ sessions'[s].model = sessions[s].model
      /\ \A e \in DOMAIN execs : execs'[e].provider = execs[e].provider
  BY DEF ExecsKept, SessionsKept
<1> QED
  BY <1>1, <1>2, <1>3, ReservedKept

\* A step of a request that writes no rows and does not begin to wait.
LEMMA RequestReserved ==
  ASSUME Inv, Reserved, UNCHANGED db,
         \A r \in Retries : pc'[r] = "numbering" =>
             pc[r] = "numbering" /\ order'[r] = order[r] /\ seen'[r] = seen[r]
  PROVE  Reserved'
BY ReservedKept DEF db

\* Only this request moves, and not to wait.
LEMMA MovedElsewhere ==
  ASSUME Inv, NEW r \in Requests, NEW a, a # "numbering", NEW o, NEW n,
         pc' = [pc EXCEPT ![r] = a], order' = [order EXCEPT ![r] = o],
         seen' = [seen EXCEPT ![r] = n]
  PROVE  \A q \in Retries : pc'[q] = "numbering" =>
             pc[q] = "numbering" /\ order'[q] = order[q] /\ seen'[q] = seen[q]
BY DEF Inv, TypeOK, Requests

\* What a step of a worker keeps.
LEMMA WorkKeepsReserved ==
  ASSUME Inv, Reserved, NEW e \in DOMAIN execs, Work(e)
  PROVE  Reserved'
<1>1. UNCHANGED requests
  BY DEF Work, StartTurn, CompletionWrites, CompletionCommits, FailureCommits, Cancel,
         Reap, ReapRest, UnchangedByWorkers
<1>2. ExecsKept /\ SessionsKept(sessions')
  <2>1. \A t \in 0 .. Len(execs) : t \in Nat
    BY Rows DEF Inv
  <2> QED
    BY <2>1, StartTurnInv, CompletionWritesInv, CompletionCommitsInv, EndingInv,
       ReapRestInv DEF Work
<1>3. /\ execs \in Seq(ExecType) /\ execs[e] \in ExecType
      /\ execs[e].session \in DOMAIN sessions /\ sessions \in Seq(SessionType)
      /\ sessions[execs[e].session].provider = execs[e].provider
  BY Rows DEF Inv, TypeOK, ThreadsStayApart
<1>4. \A s \in DOMAIN sessions : sessions'[s].status = "RUNNING" =>
         \/ sessions[s].status = "RUNNING"
         \/ \A r \in Retries : Holds(r) => order[r].provider # sessions[s].provider
  <2>1. CASE UNCHANGED sessions
    BY <2>1
  <2>2. CASE sessions' = EndRow(sessions, execs[e].session, "FAILED")
    BY <1>3, <2>2, RowEnded
  <2>3. CASE CompletionCommits(e)
    <3>1. ASSUME NEW r \in Retries, Holds(r)
          PROVE  order[r].provider # execs[e].provider
      BY <2>3, <3>1 DEF Reserved, CompletionCommits
    <3>2. \A s \in DOMAIN sessions : s # execs[e].session => sessions'[s] = sessions[s]
      BY <1>3, <2>3 DEF CompletionCommits
    <3> QED
      BY <1>3, <3>1, <3>2
  <2> QED
    BY <2>1, <2>2, <2>3 DEF Work, StartTurn, CompletionWrites, FailureCommits, Cancel,
                            Reap, ReapRest
<1>5. \A d \in DOMAIN execs : execs'[d].turn = "committing" =>
         \/ execs[d].turn = "committing"
         \/ \A r \in Retries : Holds(r) => order[r].provider # execs[d].provider
  <2>1. CASE \E t \in 0 .. Len(execs) : CompletionWrites(e, t)
    <3>1. \A r \in Retries : Holds(r) => order[r].provider # execs[e].provider
      BY <2>1 DEF CompletionWrites, Busy
    <3>2. \A d \in DOMAIN execs : d # e => execs'[d] = execs[d]
      BY <1>3, <2>1 DEF CompletionWrites
    <3> QED
      BY <3>1, <3>2
  <2>2. CASE StartTurn(e)
    BY <1>3, <2>2 DEF StartTurn
  <2>3. CASE \E st \in States, reap \in BOOLEAN : Over(e, st, reap)
    BY <1>3, <2>3 DEF Over
  <2>4. CASE ReapRest(e)
    BY <1>3, <2>4 DEF ReapRest
  <2> QED
    BY <2>1, <2>2, <2>3, <2>4 DEF Work, CompletionCommits, FailureCommits, Cancel, Reap,
                                  EndExec, States, Active
<1> QED
  BY <1>1, <1>2, <1>4, <1>5, WorkReserved

\* A request queues its execution: what it writes is of a provider that no retry holds,
\* unless it is that retry.
LEMMA QueueReserved ==
  ASSUME Inv, Reserved, NEW r \in Requests, pc[r] \in Writing, ~Refused(r), Place(r),
         NEW handoff \in BOOLEAN, Queue(r, handoff),
         ~Reuses(r) => \A q \in Retries :
             Holds(q) /\ q # r => order[q].provider # order[r].provider
  PROVE  Reserved'
<1>1. /\ DOMAIN sessions \subseteq DOMAIN sessions'
      /\ \A s \in DOMAIN sessions : /\ sessions'[s].provider = sessions[s].provider
                                    /\ sessions'[s].model = sessions[s].model
      /\ \A s \in DOMAIN sessions' : sessions'[s].status = "RUNNING" =>
            \/ s \in DOMAIN sessions /\ sessions[s].status = "RUNNING"
            \/ ~Reuses(r) /\ sessions'[s].provider = order[r].provider
      /\ Placed(r) \in DOMAIN sessions' /\ sessions' \in Seq(SessionType)
  BY PlaceDoes
<1>2. PICK x \in ExecType : execs' = Append(execs, x) /\ x.turn = "none"
  <2>1. Placed(r) \in Nat
    BY <1>1
  <2> QED
    BY <2>1, QueueDoes
<1>3. /\ DOMAIN execs = 1 .. Len(execs) /\ DOMAIN execs' = 1 .. (Len(execs) + 1)
      /\ execs'[Len(execs) + 1] = x /\ \A e \in DOMAIN execs : execs'[e] = execs[e]
  BY <1>2, RowAdded DEF Inv, TypeOK
<1>4. \A e \in DOMAIN execs' : execs'[e].turn = "committing" =>
         /\ e \in DOMAIN execs /\ execs[e].turn = "committing"
         /\ execs'[e].provider = execs[e].provider
  <2>1. \A e \in DOMAIN execs' : e \in DOMAIN execs \/ e = Len(execs) + 1
    BY <1>3, Rows DEF Inv
  <2> QED
    BY <1>2, <1>3, <2>1
<1>5. /\ pc'[r] = "accepted"
      /\ \A q \in Retries : pc'[q] = "numbering" =>
            pc[q] = "numbering" /\ order'[q] = order[q] /\ seen'[q] = seen[q]
  BY MovedElsewhere DEF Queue, Answered, Inv, TypeOK
<1>6. \A s \in DOMAIN sessions' : sessions'[s].status = "RUNNING" =>
         \/ s \in DOMAIN sessions /\ sessions[s].status = "RUNNING"
         \/ \A q \in Retries : Holds(q) /\ pc'[q] = "numbering" =>
                order[q].provider # sessions'[s].provider
  BY <1>1, <1>5
<1> QED
  BY <1>1, <1>4, <1>5, <1>6, ReservedKept

\* What a step of a submission keeps.
LEMMA SubmissionReserved ==
  ASSUME Inv, Reserved, NEW r \in Submissions, Submission(r)
  PROVE  Reserved'
<1>1. r \in Requests /\ r \notin Retries /\ seen \in [Requests -> SeenType]
  BY DEF Requests, Inv, TypeOK
<1>2. ASSUME NEW how \in Ended, Answered(r, how), UNCHANGED db
      PROVE  Reserved'
  BY <1>1, <1>2, MovedElsewhere, RequestReserved DEF Answered, Ended
<1>3. CASE Submit(r) \/ Duplicate(r) \/ Lock(r)
  <2>1. UNCHANGED db
    BY <1>3 DEF Submit, Route, Duplicate, Lock
  <2>2. \A q \in Retries : /\ pc'[q] = pc[q] /\ order'[q] = order[q]
                           /\ seen'[q] = seen[q]
    BY <1>1, <1>3 DEF Submit, Route, Duplicate, Lock, Answered, Inv, TypeOK, Requests
  <2> QED
    BY <2>1, <2>2, RequestReserved
<1>4. CASE Write(r)
  <2>1. CASE Abort(r, "conflict") \/ Abort(r, "noMessage")
    BY <1>2, <2>1 DEF Abort, Ended
  <2>2. CASE /\ ~Refused(r) /\ Place(r) /\ Queue(r, ProviderChanged(r) \/ ModelChanged(r))
    <3>1. pc[r] \in Writing /\ (ProviderChanged(r) \/ ModelChanged(r)) \in BOOLEAN
      BY <1>4 DEF Write, Writing, ProviderChanged, ModelChanged
    <3>2. ~Reuses(r) => \A q \in Retries :
             Holds(q) /\ q # r => order[q].provider # order[r].provider
      BY <1>4 DEF Write, Busy
    <3> QED
      BY <1>1, <2>2, <3>1, <3>2, QueueReserved
  <2> QED
    BY <1>4, <2>1, <2>2 DEF Write
<1>5. ASSUME NEW e \in DOMAIN execs, DeadlockAborts(r, e)
      PROVE  Reserved'
  <2>1. CASE Abort(r, "deadlock")
    BY <1>2, <2>1 DEF Abort, Ended
  <2>2. CASE /\ execs' = [execs EXCEPT ![e].turn = "failing", ![e].reported = 0]
             /\ UNCHANGED <<sessions, speaker>> /\ UnchangedByWorkers
    <3>1. /\ DOMAIN execs' = DOMAIN execs
          /\ \A d \in DOMAIN execs : execs'[d].provider = execs[d].provider
          /\ \A d \in DOMAIN execs :
                execs'[d].turn = "committing" => execs[d].turn = "committing"
      BY <2>2, Rows DEF Inv, ExecType
    <3>2. UNCHANGED <<requests, sessions>>
      BY <2>2 DEF UnchangedByWorkers
    <3> QED
      BY <3>1, <3>2, ReservedKept DEF requests
  <2> QED
    BY <1>5, <2>1, <2>2 DEF DeadlockAborts
<1>6. ASSUME NEW q \in Retries, DeadlockOfRetry(r, q)
      PROVE  Reserved'
  <2>1. CASE Abort(r, "deadlock")
    BY <1>2, <2>1 DEF Abort, Ended
  <2>2. CASE Answered(q, "deadlock") /\ UNCHANGED <<db, holder>>
    BY <2>2, MovedElsewhere, RequestReserved DEF Answered, Requests
  <2> QED
    BY <1>6, <2>1, <2>2 DEF DeadlockOfRetry
<1> QED
  BY <1>3, <1>4, <1>5, <1>6 DEF Submission, SubmissionStep, Deadlock

\* A retry begins to wait when its provider is not busy and the index lets it in.
LEMMA RetryReserved ==
  ASSUME Inv, Reserved, NEW r \in Retries, Retry(r)
  PROVE  Reserved'
<1>1. r \in Requests /\ seen \in [Requests -> SeenType]
  BY DEF Requests, Inv, TypeOK
<1>2. ASSUME NEW how \in Ended, Answered(r, how), UNCHANGED db
      PROVE  Reserved'
  BY <1>1, <1>2, MovedElsewhere, RequestReserved DEF Answered, Ended
<1>3. ASSUME NEW e \in DOMAIN execs, NEW p \in Providers, NEW m \in Models[p],
             RetryReads(r, e, p, m)
      PROVE  Reserved'
  <2>1. UNCHANGED db
    BY <1>3 DEF RetryReads
  <2>2. \A q \in Retries : pc'[q] = "numbering" =>
           pc[q] = "numbering" /\ order'[q] = order[q] /\ seen'[q] = seen[q]
    BY <1>1, <1>3 DEF RetryReads, Answered, Inv, TypeOK, Requests
  <2> QED
    BY <2>1, <2>2, RequestReserved
<1>4. CASE RetryWrites(r)
  <2>1. CASE Answered(r, "conflict") /\ UNCHANGED db
    BY <1>2, <2>1 DEF Ended
  <2>2. CASE ~Refused(r) /\ Place(r) /\ Queue(r, FALSE)
    <3>1. pc[r] \in Writing
      BY <1>4 DEF RetryWrites, Writing
    <3>2. ~Reuses(r) => \A q \in Retries :
             Holds(q) /\ q # r => order[q].provider # order[r].provider
      BY <1>4 DEF RetryWrites, Busy
    <3> QED
      BY <1>1, <2>2, <3>1, <3>2, QueueReserved
  <2>3. CASE /\ ~Refused(r) /\ pc' = [pc EXCEPT ![r] = "numbering"]
             /\ UNCHANGED <<db, order, seen>>
    <3>1. \A q \in Retries : Holds(q)' => Holds(q) \/ (q = r /\ ~Reuses(r))
      BY <2>3 DEF Holds, Reuses, db, Inv, TypeOK, Requests
    <3>2. ~Reuses(r) =>
             /\ \A q \in Retries : Holds(q) => order[q].provider # order[r].provider
             /\ \A e \in DOMAIN execs :
                   execs[e].turn = "committing" => execs[e].provider # order[r].provider
      BY <1>4 DEF RetryWrites, Busy
    <3>3. ASSUME ~Reuses(r), NEW s \in DOMAIN sessions, sessions[s].status = "RUNNING",
                 sessions[s].provider = order[r].provider
          PROVE  seen[r].running /\ s = seen[r].latest
      <4>1. RunningOf(Retired(r), order[r].provider) = {}
        BY <2>3, <3>3 DEF Refused
      <4>2. CASE seen[r].running
        <5> DEFINE l == seen[r].latest
                   old == EndRow(sessions, l, "COMPLETED")
        <5>1. pc[r] \in Writing
          BY <1>4 DEF RetryWrites, Writing
        <5>2. l \in DOMAIN sessions
          BY <1>1, <4>2, <5>1, Writer
        <5>3. /\ DOMAIN old = DOMAIN sessions
              /\ \A t \in DOMAIN sessions : t # l => old[t] = sessions[t]
          BY <5>2, RowEnded DEF SessionsKept
        <5>4. Retired(r) = old
          BY <3>3, <4>2 DEF Retired
        <5> HIDE DEF old
        <5> QED
          BY <3>3, <4>1, <4>2, <5>3, <5>4 DEF RunningOf
      <4>3. CASE ~seen[r].running
        BY <3>3, <4>1, <4>3 DEF Retired, RunningOf
      <4> QED
        BY <4>2, <4>3
    <3> QED
      BY <2>3, <3>1, <3>2, <3>3 DEF Reserved, db
  <2> QED
    BY <1>4, <2>1, <2>2, <2>3 DEF RetryWrites
<1>5. CASE RetryNumbers(r)
  <2>1. pc[r] = "numbering" /\ Place(r) /\ Queue(r, TRUE) /\ pc[r] \in Writing
    BY <1>5 DEF RetryNumbers, Writing
  <2>2. ~Reuses(r) => \A q \in Retries :
           Holds(q) /\ q # r => order[q].provider # order[r].provider
    BY <2>1 DEF Reserved, Holds
  <2> QED
    BY <1>1, <2>1, <2>2, ReservedFits, QueueReserved
<1> QED
  BY <1>3, <1>4, <1>5 DEF Retry

\* Every step keeps it.
LEMMA NextReserved ==
  ASSUME Inv, Reserved, [Next]_vars
  PROVE  Reserved'
<1>1. CASE UNCHANGED vars
  BY <1>1, RequestReserved DEF vars, requests
<1> QED
  BY <1>1, SubmissionReserved, RetryReserved, WorkKeepsReserved DEF Next

-----------------------------------------------------------------------------
(***************************************************************************)
(* The theorems.                                                           *)
(***************************************************************************)

\* In the beginning there are no rows.
LEMMA InitInv ==
  ASSUME Init
  PROVE  Inv
<1>1. TypeOK
  BY DEF Init, TypeOK, NoOrder, NothingSeen, OrderType, SeenType
<1>2. DOMAIN sessions = {} /\ DOMAIN execs = {}
  BY DEF Init
<1> QED
  BY <1>1, <1>2 DEF Init, Inv, ThreadsStayApart, EndedWhenNotRunning, Superseded, Resolved,
     SubmissionHolds, SeenLatest, RetryKnown, KeyLookupHolds, Requests, Writing

\* Every step keeps the invariant.
LEMMA NextInv ==
  ASSUME Inv, Reserved, [Next]_vars
  PROVE  Inv'
<1>1. ASSUME NEW r \in Submissions, Submission(r)
      PROVE  Inv'
  <2>1. Submit(r) => Inv'
    BY RouteInv DEF Submit
  <2>2. Duplicate(r) => Inv'
    BY AnsweredInv DEF Duplicate, Ended, Requests
  <2>3. SubmissionStep(r) => Inv'
    BY <2>2, LockInv, WriteInv DEF SubmissionStep
  <2> QED
    BY <1>1, <2>1, <2>3, DeadlockAbortsInv, DeadlockOfRetryInv DEF Submission, Deadlock
<1>2. ASSUME NEW r \in Retries, Retry(r)
      PROVE  Inv'
  <2>1. ASSUME NEW e \in DOMAIN execs, NEW p \in Providers, NEW m \in Models[p],
               RetryReads(r, e, p, m)
        PROVE  Inv'
    BY <2>1, RetryReadsInv
  <2> QED
    BY <1>2, <2>1, RetryWritesInv, RetryNumbersInv DEF Retry
<1>3. ASSUME NEW e \in DOMAIN execs, Work(e)
      PROVE  Inv'
  <2>1. \A t \in 0 .. Len(execs) : t \in Nat
    BY Rows DEF Inv
  <2> QED
    BY <1>3, <2>1, StartTurnInv, CompletionWritesInv, CompletionCommitsInv, EndingInv,
       ReapRestInv DEF Work
<1>4. CASE UNCHANGED vars
  BY <1>4, Unmoved, WorkInv DEF vars, db, Inv, TypeOK
<1> QED
  BY <1>1, <1>2, <1>3, <1>4 DEF Next

\* A session keeps its provider and model, one that another follows was ended, and who
\* writes a new key holds the conversation, however requests, workers, deadlocks and the
\* sweep interleave.
THEOREM InvCorrect == Spec => [](Inv /\ Reserved)
<1>1. Init => Inv /\ Reserved
  BY InitInv DEF Init, Reserved, Holds, Requests
<1>2. Inv /\ Reserved /\ [Next]_vars => Inv' /\ Reserved'
  BY NextInv, NextReserved
<1> QED
  BY <1>1, <1>2, PTL DEF Spec

\* Rows and requests have their types, and references name rows that exist.
THEOREM TypeCorrect == Spec => []TypeOK
<1>1. Inv => TypeOK
  BY DEF Inv
<1> QED
  BY <1>1, InvCorrect, PTL

\* An execution runs in a session of its provider and model, and resumes a thread that was
\* begun there.
THEOREM ThreadsCorrect == Spec => []ThreadsStayApart
<1>1. Inv => ThreadsStayApart
  BY DEF Inv
<1> QED
  BY <1>1, InvCorrect, PTL

\* What a submission found of its key when it got the conversation holds when it writes,
\* however submissions of that key and retries of its message overlap.
THEOREM KeyLookupCorrect == Spec => []KeyLookupHolds
<1>1. Inv => KeyLookupHolds
  BY DEF Inv
<1> QED
  BY <1>1, InvCorrect, PTL

\* A RUNNING session that another follows has been ended, and so was revived.
THEOREM StrandedCorrect == Spec => []StrandedWasRevived
<1>1. Inv => StrandedWasRevived
  BY DEF Inv, Superseded, StrandedWasRevived
<1> QED
  BY <1>1, InvCorrect, PTL
=============================================================================
