--------------------------- MODULE MCConversation ---------------------------
(* Instances of Conversation for TLC. *)
EXTENDS Conversation

\* Two submissions with one key, and one with a key of its own.
KeysShared == [r \in Submissions |-> IF r \in {"s1", "s2"} THEN "k1" ELSE "k3"]

\* Every submission has its own key.
KeysOwn == [r \in Submissions |-> r]

TwoProviders == <<"codex", "claude">>
OneProvider == <<"codex">>
ModelsOfTwo == [p \in {"codex", "claude"} |-> IF p = "codex" THEN {"default", "b"} ELSE {"c"}]
ModelOfOne == [p \in {"codex"} |-> {"default"}]
=============================================================================
