---------------------------- MODULE ProviderTurn ----------------------------
(***************************************************************************)
(* What a provider CLI prints, and what the worker makes of it.            *)
(*                                                                         *)
(* The runner reads the output of the process in chunks, cuts it into      *)
(* lines, parses each line and appends events to a buffer.  The worker     *)
(* drains that buffer concurrently, storing one event at a time and        *)
(* restarting its inactivity timer with each, until the process has closed *)
(* and the buffer is empty.  A timer or a cancellation ends the turn from  *)
(* outside.  A resumed turn whose session is gone is followed by a fresh   *)
(* one, with a runner, a buffer and timers of its own.                     *)
(*                                                                         *)
(* A line of output stands for a JSON record.  Its bytes are numbered, so  *)
(* that a text is the record exactly when it has all of them in order.     *)
(***************************************************************************)
EXTENDS Naturals, Sequences

CONSTANTS
    Outputs,  \* what the process of a turn may print: sequences of lines
    Kind,     \* kind of record of a line
    Size,     \* its bytes
    Wide,     \* first byte of a two-byte character in it, 0 if none
    Limit,    \* MAX_LINE_BYTES
    AnswerLimit \* MAX_ASSISTANT_MESSAGE_BYTES

Turns == 1 .. 2
Lines == DOMAIN Kind
Newline == [line |-> "\n", at |-> 0, good |-> TRUE]

\* The types of the events passed on for a record of each kind, in the order of
\* CodexStreamParser and ClaudeStreamParser, and the verdict of those that have one.
Passed ==
    [session_configured |-> <<>>,
     agent_message      |-> <<"stdout">>,
     token_count        |-> <<"usage">>,
     error              |-> <<>>,
     task_complete      |-> <<>>,
     init               |-> <<>>,
     progress           |-> <<"stderr">>,
     result             |-> <<"usage", "stdout">>,
     result_error       |-> <<"usage">>,
     other              |-> <<"stderr">>]
Verdict ==
    [error |-> "failed", result_error |-> "failed",
     task_complete |-> "succeeded", result |-> "succeeded"]

\* A line stands for one record: it is printed once.
ASSUME TurnAssumption ==
    /\ Limit \in Nat \ {0} /\ AnswerLimit \in Nat \ {0}
    /\ "\n" \notin Lines
    /\ \A l \in Lines : Kind[l] \in DOMAIN Passed
    /\ Size \in [Lines -> Nat \ {0}]
    /\ Wide \in [Lines -> Nat] /\ \A l \in Lines : Wide[l] < Size[l]
    /\ \A k \in Turns : \A out \in Outputs[k] :
          out \in Seq(Lines) /\ \A i, j \in DOMAIN out : out[i] = out[j] => i = j

VARIABLES
    turn,     \* 1: the resumed or only turn, 2: the fresh turn after it
    resumed,  \* turn 1 resumes an external session
    job,      \* running, answered, failed, recorded
    row,      \* AgentSession.state
    answer,   \* content of the ConversationMessage of a success
    \* the process of the current turn and the runner's locals
    alive,
    printed,  \* the lines it prints
    unread,   \* bytes it has still to print
    buffer,   \* IncrementalLineReader.buffer
    verdict,  \* StructuredStreamAccumulator.terminal
    run,      \* starting, streaming, errored, then how runSession settled
    \* SessionRecord and locals of executeProviderTurn, for each turn
    events, complete, cursor, waiting, \* the buffer and its consumer
    text,     \* assistantText
    timer,    \* the inactivity timer is armed
    cause,    \* timeoutCode, cancellationRequested
    over      \* executeProviderTurn has returned or thrown

process == <<alive, printed, unread, buffer, verdict, run>>
consumer == <<cursor, waiting, text>>
record == <<events, complete>>
worker == <<turn, resumed, job, row, answer, over>>
vars == <<process, consumer, record, worker, timer, cause>>

-----------------------------------------------------------------------------
(***************************************************************************)
(* Chunks, lines and records.                                              *)
(***************************************************************************)

\* The bytes of a line, and of an output; the last newline may be missing.
LineBytes(l) == [i \in 1 .. Size[l] |-> [line |-> l, at |-> i, good |-> TRUE]]
UpTo(out) ==
    LET upTo[n \in 0 .. Len(out)] ==
            IF n = 0 THEN <<>> ELSE upTo[n - 1] \o LineBytes(out[n]) \o <<Newline>>
    IN  upTo
Bytes(out, ended) ==
    LET all == UpTo(out)[Len(out)]
    IN  IF ended \/ all = <<>> THEN all ELSE SubSeq(all, 1, Len(all) - 1)

\* chunk.toString("utf8"): half a character becomes a replacement character.
Decode(chunk) ==
    [i \in DOMAIN chunk |->
        LET b == chunk[i]
            w == IF b = Newline THEN 0 ELSE Wide[b.line]
        IN [b EXCEPT !.good = ~ \/ w # 0 /\ b.at = w /\ i = Len(chunk)
                                \/ w # 0 /\ b.at = w + 1 /\ i = 1]]

\* safeJson: a text is a record if it is one whole line.
IsRecord(t) ==
    /\ t # <<>>
    /\ Len(t) = Size[t[1].line]
    /\ \A i \in DOMAIN t : t[i].line = t[1].line /\ t[i].at = i
KindOf(t) == Kind[t[1].line]

\* parseLine, and pushEvent: what is passed on for a text.
Event(type, t) == [type |-> type, line |-> t[1].line, good |-> \A i \in DOMAIN t : t[i].good]
Events(t) ==
    CASE t = <<>> -> <<>>
      [] t # <<>> /\ IsRecord(t) ->
            [i \in DOMAIN Passed[KindOf(t)] |-> Event(Passed[KindOf(t)][i], t)]
      [] OTHER -> <<Event("stderr", t)>>

\* Variant: the first verdict is kept.
ApplyFirst(v, t) ==
    IF v = "none" /\ IsRecord(t) /\ KindOf(t) \in DOMAIN Verdict THEN Verdict[KindOf(t)] ELSE v

\* StructuredStreamAccumulator.apply: the last verdict counts.
Apply(v, t) ==
    IF IsRecord(t) /\ KindOf(t) \in DOMAIN Verdict THEN Verdict[KindOf(t)] ELSE v

\* consumeLine.  A reader r is the buffer with the verdict and the events of the
\* record.
Consumed(r, t) == [r EXCEPT !.verdict = Apply(@, t), !.events = @ \o Events(t)]

\* The first newline of the buffer, buffer.indexOf("\n").
HasLine(s) == \E i \in DOMAIN s : s[i] = Newline
LineEnd(s) == CHOOSE i \in DOMAIN s : s[i] = Newline /\ \A j \in 1 .. i - 1 : s[j] # Newline

\* Variant: the newline itself stays in the buffer.
NextLineKept(r) ==
    LET s == r.buffer
    IN  Consumed([r EXCEPT !.buffer = SubSeq(s, LineEnd(s), Len(s))], SubSeq(s, 1, LineEnd(s) - 1))

\* IncrementalLineReader.push: each complete line leaves the buffer, which has
\* at most one for each of its bytes.
NextLine(r) ==
    LET s == r.buffer
    IN  Consumed([r EXCEPT !.buffer = SubSeq(s, LineEnd(s) + 1, Len(s))], SubSeq(s, 1, LineEnd(s) - 1))
Loop(r) ==
    LET loop[n \in 0 .. Len(r.buffer)] ==
            IF n = 0 THEN r
            ELSE IF HasLine(loop[n - 1].buffer) THEN NextLine(loop[n - 1]) ELSE loop[n - 1]
    IN  loop

\* What is left is cut when it is above the limit.
Cut(r) ==
    IF Len(r.buffer) > Limit
    THEN [r EXCEPT !.buffer = <<>>, !.events = Append(@, Event("stderr", r.buffer))]
    ELSE r
Push(r) == Cut(Loop(r)[Len(r.buffer)])
Reader(s) == [buffer |-> s, verdict |-> verdict, events |-> events[turn]]

-----------------------------------------------------------------------------
Init ==
    /\ turn = 1
    /\ resumed \in BOOLEAN
    /\ job = "running" /\ row = "RUNNING" /\ answer = <<>>
    /\ alive = FALSE /\ printed = <<>> /\ unread = <<>>
    /\ buffer = <<>> /\ verdict = "none"
    /\ run = "starting"
    /\ events = [k \in Turns |-> <<>>]
    /\ complete = [k \in Turns |-> FALSE]
    /\ cursor = [k \in Turns |-> 0]
    /\ waiting = [k \in Turns |-> k = 1]
    /\ text = [k \in Turns |-> <<>>]
    /\ timer = [k \in Turns |-> k = 1]
    /\ cause = [k \in Turns |-> "none"]
    /\ over = [k \in Turns |-> FALSE]

\* record.waiters.splice(0).forEach(wake => wake())
Wake(k) == waiting' = [waiting EXCEPT ![k] = FALSE]

-----------------------------------------------------------------------------
(***************************************************************************)
(* The runner.                                                             *)
(***************************************************************************)

\* The executable is missing, or spawn throws: no close will follow, and the
\* record is never complete.
StartThrows ==
    /\ run = "starting"
    /\ run' = "error"
    /\ UNCHANGED <<alive, printed, unread, buffer, verdict>>
    /\ UNCHANGED <<consumer, record, worker, timer, cause>>

\* The ownership of the process could not be recorded: it is killed.
OwnershipFails ==
    /\ run = "starting"
    /\ run' = "error"
    /\ complete' = [complete EXCEPT ![turn] = TRUE]
    /\ Wake(turn)
    /\ UNCHANGED <<alive, printed, unread, buffer, verdict>>
    /\ UNCHANGED <<events, cursor, text, worker, timer, cause>>

\* The process is recorded, its output is read and the prompt is sent.  A
\* runner whose turn was ended before does not notice (SessionLease has what
\* follows from that), so the turn is still open here.
Start(out, ended) ==
    /\ run = "starting" /\ ~over[turn]
    /\ cause[turn] = "none"
    /\ run' = "streaming"
    /\ alive' = TRUE
    /\ printed' = out
    /\ unread' = Bytes(out, ended)
    /\ UNCHANGED <<buffer, verdict, consumer, record, worker, timer, cause>>

\* stdout emits the next n bytes.
Chunk(n) ==
    LET r == Push(Reader(buffer \o Decode(SubSeq(unread, 1, n))))
    IN /\ run = "streaming"
       /\ n \in 1 .. Len(unread)
       /\ unread' = SubSeq(unread, n + 1, Len(unread))
       /\ buffer' = r.buffer
       /\ verdict' = r.verdict
       /\ events' = [events EXCEPT ![turn] = r.events]
       /\ IF r.events # events[turn] THEN Wake(turn) ELSE UNCHANGED waiting
       /\ UNCHANGED <<alive, printed, run, complete, cursor, text>>
       /\ UNCHANGED <<worker, timer, cause>>

\* The process ends by itself when it has printed everything, or crashes.
Exit ==
    /\ alive
    /\ alive' = FALSE
    /\ UNCHANGED <<printed, unread, buffer, verdict, run>>
    /\ UNCHANGED <<consumer, record, worker, timer, cause>>

\* 'error' of the child: the promise is rejected, 'close' follows.
ChildError ==
    /\ run = "streaming"
    /\ run' = "errored"
    /\ alive' = FALSE
    /\ UNCHANGED <<printed, unread, buffer, verdict>>
    /\ UNCHANGED <<consumer, record, worker, timer, cause>>

\* How the promise settles at 'close'.
Outcome(code, signal, v) ==
    CASE run = "errored" -> "error"
      [] run = "streaming" /\ code = 0 /\ v # "failed" -> "ok"
      [] OTHER -> IF signal /\ resumed /\ turn = 1 THEN "stale" ELSE "error"

\* Variant: what is left in the reader is forgotten.
CloseUnflushed(code, noise, signal) ==
    /\ ~alive /\ run \in {"streaming", "errored"}
    /\ code = 0 => unread = <<>>
    /\ buffer' = <<>>
    /\ complete' = [complete EXCEPT ![turn] = TRUE]
    /\ Wake(turn)
    /\ run' = Outcome(code, signal, verdict)
    /\ UNCHANGED <<alive, printed, unread, verdict, events, cursor, text, worker, timer, cause>>

\* Variant: the consumer is not woken.
CloseSilently(code, noise, signal) ==
    /\ ~alive /\ run \in {"streaming", "errored"}
    /\ code = 0 => unread = <<>>
    /\ buffer' = <<>>
    /\ complete' = [complete EXCEPT ![turn] = TRUE]
    /\ run' = Outcome(code, signal, verdict)
    /\ UNCHANGED <<alive, printed, unread, verdict, events, consumer, worker, timer, cause>>

\* 'close', after the streams have ended: the rest of the reader, a last event
\* if the process wrote to stderr, then complete.  Code 0 is that of a process
\* whose output was read to its end; a signal that the session is gone comes
\* with stderr or with the reason of a failure.
Close(code, noise, signal) ==
    LET r == Consumed(Reader(<<>>), buffer)
        last == IF noise THEN <<[type |-> "stderr", line |-> "stderr", good |-> TRUE]>>
                ELSE <<>>
    IN /\ ~alive /\ run \in {"streaming", "errored"}
       /\ code = 0 => unread = <<>>
       /\ signal => noise \/ r.verdict = "failed"
       /\ buffer' = <<>>
       /\ verdict' = r.verdict
       /\ events' = [events EXCEPT ![turn] = r.events \o last]
       /\ complete' = [complete EXCEPT ![turn] = TRUE]
       /\ Wake(turn)
       /\ run' = Outcome(code, signal, r.verdict)
       /\ UNCHANGED <<alive, printed, unread, cursor, text, worker, timer, cause>>

-----------------------------------------------------------------------------
(***************************************************************************)
(* The consumer: for await (const item of streamEvents(...)).              *)
(***************************************************************************)

Drained(k) == complete[k] /\ cursor[k] = Len(events[k])

\* The consumer of a turn exists once the turn has begun.
Begun(k) == k <= turn

\* The length of assistantText: each text begins where the one before it ends.
Length(said) ==
    IF said = <<>> THEN 0 ELSE said[Len(said)].at + Size[said[Len(said)].line]

\* The next event: its text is kept, the timer is armed anew and the event is
\* stored.
Consume(k) ==
    LET e == events[k][cursor[k] + 1]
    IN /\ Begun(k) /\ ~waiting[k]
       /\ cursor[k] < Len(events[k])
       /\ cursor' = [cursor EXCEPT ![k] = @ + 1]
       /\ text' = IF e.type = "stdout"
                  THEN [text EXCEPT ![k] =
                           Append(@, [line |-> e.line, good |-> e.good, at |-> Length(@)])]
                  ELSE text
       /\ timer' = [timer EXCEPT ![k] = TRUE]
       /\ UNCHANGED <<waiting, process, record, worker, cause>>

\* Nothing to read and not complete: wait to be woken.
Wait(k) ==
    /\ Begun(k) /\ ~waiting[k]
    /\ cursor[k] = Len(events[k]) /\ ~complete[k]
    /\ waiting' = [waiting EXCEPT ![k] = TRUE]
    /\ UNCHANGED <<cursor, text, process, record, worker, timer, cause>>

-----------------------------------------------------------------------------
(***************************************************************************)
(* executeProviderTurn and its fallback.                                   *)
(***************************************************************************)

\* terminate(): the row is ended, the recorded process, which is that of the
\* current turn, is killed, and the record of turn k is complete.
Terminate(k, why, st) ==
    /\ cause' = [cause EXCEPT ![k] = why]
    /\ row' = IF row = "RUNNING" THEN st ELSE row
    /\ alive' = FALSE
    /\ complete' = [complete EXCEPT ![k] = TRUE]
    /\ Wake(k)
    /\ UNCHANGED <<printed, unread, buffer, verdict, run, events, cursor>>
    /\ UNCHANGED <<text, turn, resumed, job, answer, over>>

\* The inactivity timer of turn k fires.  finally clears it, and nothing
\* clears what the consumer arms after that.
TimerFires(k) ==
    /\ timer[k]
    /\ cause[k] = "none"
    /\ timer' = [timer EXCEPT ![k] = FALSE]
    /\ Terminate(k, "timeout", "TIMED_OUT")

\* The absolute timer of the running turn fires.
AbsoluteTimerFires ==
    /\ ~over[turn]
    /\ cause[turn] = "none"
    /\ Terminate(turn, "timeout", "TIMED_OUT")
    /\ UNCHANGED timer

\* The poll of the running turn sees that the row was cancelled.
CancelSeen ==
    /\ ~over[turn]
    /\ cause[turn] = "none"
    /\ row = "RUNNING"
    /\ Terminate(turn, "cancel", "CANCELLED")
    /\ UNCHANGED timer

\* finally: the timers of the turn are cleared.
EndTurn(k, timers) ==
    /\ over' = [over EXCEPT ![k] = TRUE]
    /\ timer' = [timers EXCEPT ![k] = FALSE]

ConsumerDone(k) == Drained(k) /\ ~waiting[k]

\* The run resolved and the consumer has drained the buffer.
TurnAnswers ==
    /\ ~over[turn] /\ run = "ok" /\ ConsumerDone(turn)
    /\ cause[turn] = "none"
    /\ EndTurn(turn, timer)
    /\ job' = "answered"
    /\ UNCHANGED <<turn, resumed, row, answer, process, consumer, record, cause>>

\* The run was rejected, or the turn was ended from outside.
TurnFails ==
    /\ ~over[turn]
    /\ \/ run \in {"error", "errored"}
       \/ run = "stale" /\ cause[turn] # "none"
       \/ run = "ok" /\ cause[turn] # "none" /\ ConsumerDone(turn)
    /\ EndTurn(turn, timer)
    /\ job' = "failed"
    /\ UNCHANGED <<turn, resumed, row, answer, process, consumer, record, cause>>

\* A resumed session that is gone: a fresh session and a second turn.
TurnRestarts ==
    /\ ~over[turn] /\ run = "stale" /\ cause[turn] = "none"
    /\ turn' = 2
    /\ EndTurn(1, [timer EXCEPT ![2] = TRUE])
    /\ printed' = <<>> /\ unread' = <<>> /\ buffer' = <<>>
    /\ verdict' = "none"
    /\ run' = "starting"
    /\ UNCHANGED <<alive, resumed, job, row, answer, consumer, record, cause>>

\* .slice(0, MAX_ASSISTANT_MESSAGE_BYTES): the texts that begin within the limit,
\* the last of them perhaps cut.
Sliced(said) ==
    SubSeq(said, 1, CHOOSE n \in 0 .. Len(said) :
                        /\ \A i \in 1 .. n : said[i].at < AnswerLimit
                        /\ n < Len(said) => said[n + 1].at >= AnswerLimit)

\* The worker records the answer, as far as the limit allows, or the failure,
\* unless the row has ended.
Record ==
    /\ job \in {"answered", "failed"}
    /\ job' = "recorded"
    /\ row' = IF row # "RUNNING" THEN row
              ELSE IF job = "answered" THEN "SUCCEEDED" ELSE "FAILED"
    /\ answer' = IF row = "RUNNING" /\ job = "answered" THEN Sliced(text[turn]) ELSE answer
    /\ UNCHANGED <<turn, resumed, over, process, consumer, record, timer, cause>>

-----------------------------------------------------------------------------
Closes == \E code \in 0 .. 1, noise, signal \in BOOLEAN : Close(code, noise, signal)
Worker == TurnAnswers \/ TurnFails \/ TurnRestarts \/ Record
Consumer(k) == Consume(k) \/ Wait(k)

Next ==
    \/ StartThrows \/ OwnershipFails
    \/ \E out \in Outputs[turn], ended \in BOOLEAN : Start(out, ended)
    \/ \E n \in 1 .. Len(unread) : Chunk(n)
    \/ Exit \/ ChildError \/ Closes
    \/ \E k \in Turns : Consumer(k) \/ TimerFires(k)
    \/ AbsoluteTimerFires \/ CancelSeen \/ Worker

Spec == Init /\ [][Next]_vars

\* The event loop delivers 'close' of a process that has ended, runs the
\* consumers and the worker.  No process has to end and no timer has to fire.
Fairness ==
    /\ WF_vars(Closes)
    /\ WF_vars(Worker)
    /\ \A k \in Turns : WF_vars(Consumer(k))

FairSpec == Spec /\ Fairness

-----------------------------------------------------------------------------
(***************************************************************************)
(* Types.                                                                  *)
(***************************************************************************)

EventType ==
    [type : {"stdout", "stderr", "usage"}, line : Lines \cup {"stderr"}, good : BOOLEAN]

Text == [line : Lines, good : BOOLEAN, at : Nat]

\* Values have their types; a consumer is never ahead of its buffer, and a
\* newline is never left in the reader.
TypeOK ==
    /\ turn \in Turns /\ resumed \in BOOLEAN
    /\ job \in {"running", "answered", "failed", "recorded"}
    /\ row \in {"RUNNING", "SUCCEEDED", "FAILED", "TIMED_OUT", "CANCELLED"}
    /\ alive \in BOOLEAN
    /\ printed \in Outputs[turn] \cup {<<>>}
    /\ \A i \in DOMAIN buffer : buffer[i].line \in Lines
    /\ verdict \in {"none", "failed", "succeeded"}
    /\ run \in {"starting", "streaming", "errored", "ok", "error", "stale"}
    /\ events \in [Turns -> Seq(EventType)]
    /\ complete \in [Turns -> BOOLEAN]
    /\ \A k \in Turns : cursor[k] \in 0 .. Len(events[k])
    /\ waiting \in [Turns -> BOOLEAN]
    /\ text \in [Turns -> Seq(Text)] /\ answer \in Seq(Text)
    /\ timer \in [Turns -> BOOLEAN]
    /\ cause \in [Turns -> {"none", "timeout", "cancel"}]
    /\ over \in [Turns -> BOOLEAN]

-----------------------------------------------------------------------------
(***************************************************************************)
(* Properties.                                                             *)
(***************************************************************************)

Answered == job = "answered" \/ row = "SUCCEEDED"
Speaks(l) == Kind[l] \in {"agent_message", "result"}
Small(l) == Size[l] <= Limit

\* However the output is cut into chunks, and whether it ends in a newline or
\* not, the answer that is stored has the text of every line within the limit,
\* once, in order, and nothing else but whole lines that are longer.  What is
\* missing belongs behind an answer that reaches the limit of answers.
AnswerWhole ==
    LET Says(i, j) == answer[i].line = printed[j]
        full == \E i \in DOMAIN answer : answer[i].at + Size[answer[i].line] >= AnswerLimit
    IN  row = "SUCCEEDED" =>
          /\ \A i \in DOMAIN answer : \E j \in DOMAIN printed : Says(i, j) /\ Speaks(printed[j])
          /\ \A j \in DOMAIN printed :
                Speaks(printed[j]) /\ Small(printed[j]) =>
                    \/ \E i \in DOMAIN answer : Says(i, j)
                    \/ full /\ \A i \in DOMAIN answer, k \in DOMAIN printed : Says(i, k) => k < j
          /\ \A h, i \in DOMAIN answer, j, k \in DOMAIN printed :
                Says(h, j) /\ Says(i, k) /\ h < i => j < k

\* A process whose last verdict within the limit is a failure is not answered,
\* whatever its exit code says, unless a longer line came after it.
VerdictHeeded ==
    \A i \in DOMAIN printed :
        /\ Answered
        /\ Kind[printed[i]] \in {"error", "result_error"}
        /\ Small(printed[i])
        => \E j \in i + 1 .. Len(printed) :
               Kind[printed[j]] \in {"task_complete", "result"} \/ ~Small(printed[j])

\* A turn whose process has ended ends without the help of a timer: the
\* consumer, which may be storing an event or waiting for the next, is woken
\* for the last time and sees the end of the buffer.
TurnEnds == \A k \in Turns : (turn = k /\ run = "streaming" /\ ~alive) ~> over[k]

(***************************************************************************)
(* Statements that the code does not keep.                                 *)
(***************************************************************************)

\* index.test.ts:81: "reassembles the same result across arbitrary byte-level
\* chunk boundaries": no character of an answer is damaged.
ChunkingInvisible == Answered => \A i \in DOMAIN text[turn] : text[turn][i].good

\* conversation-worker.ts:512: "fall back safely to a brand new provider
\* session": an execution is timed out by a timer of the turn that is running,
\* or ran last.
TimedOutByOwnTimer == row = "TIMED_OUT" => cause[turn] = "timeout"
=============================================================================
