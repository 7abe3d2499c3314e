--------------------------- MODULE MCProviderTurn ---------------------------
(***************************************************************************)
(* Lines of both protocols and what a process may print.                   *)
(***************************************************************************)
EXTENDS ProviderTurn

\* Codex: configured, two messages (the first with a two-byte character), a
\* message over the limit, usage and the two verdicts.  Claude: the first
\* record, a final answer and a failure.
Kinds ==
    [cfg |-> "session_configured", m1 |-> "agent_message", m2 |-> "agent_message",
     big |-> "agent_message", use |-> "token_count", err |-> "error",
     done |-> "task_complete", init |-> "init", res |-> "result", rerr |-> "result_error"]
Sizes ==
    [cfg |-> 1, m1 |-> 3, m2 |-> 4, big |-> 5, use |-> 1, err |-> 2, done |-> 1,
     init |-> 1, res |-> 3, rerr |-> 2]
WideAt == [l \in DOMAIN Kinds |-> IF l = "m1" THEN 2 ELSE 0]

Codex == {<<"cfg", "m1", "m2", "done">>, <<"m2", "big">>, <<"m1", "err", "use">>,
          <<"done", "err">>}
Claude == {<<"init", "res">>, <<"rerr">>}
Printed == [k \in 1 .. 2 |-> IF k = 1 THEN Codex \cup Claude ELSE {<<"m2">>, <<"rerr">>}]
=============================================================================
