----------------------------- MODULE Execution -----------------------------
(***************************************************************************)
(* What a conversation promises about one execution, whoever runs it.      *)
(*                                                                         *)
(* A session waits, is started at most once, and ends once: answered, in   *)
(* the same step in which the answer enters the conversation, or stopped,  *)
(* after which a failure notice may enter the conversation and an answer   *)
(* may not.  A session can be stopped without ever having been started.    *)
(***************************************************************************)
CONSTANT Sessions

VARIABLES
    phase,  \* waiting, started, answered or stopped
    shown   \* what the conversation shows for the session

vars == <<phase, shown>>

Init ==
    /\ phase = [s \in Sessions |-> "waiting"]
    /\ shown = [s \in Sessions |-> "nothing"]

Move(s, from, to) ==
    /\ phase[s] \in from
    /\ phase' = [phase EXCEPT ![s] = to]

Show(s, what) ==
    /\ shown[s] = "nothing"
    /\ shown' = [shown EXCEPT ![s] = what]

Start(s) ==
    /\ Move(s, {"waiting"}, "started")
    /\ UNCHANGED shown

Answer(s) ==
    /\ Move(s, {"started"}, "answered")
    /\ Show(s, "answer")

Stop(s) ==
    /\ Move(s, {"waiting", "started"}, "stopped")
    /\ Show(s, "notice") \/ UNCHANGED shown

Notify(s) ==
    /\ phase[s] = "stopped"
    /\ Show(s, "notice")
    /\ UNCHANGED phase

Next == \E s \in Sessions : Start(s) \/ Answer(s) \/ Stop(s) \/ Notify(s)

Spec == Init /\ [][Next]_vars
=============================================================================
