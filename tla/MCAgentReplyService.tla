-------------------------- MODULE MCAgentReplyService --------------------------
(***************************************************************************)
(* Instances of AgentReplyService for TLC.                                 *)
(***************************************************************************)
EXTENDS AgentReplyService, TLC

CONSTANTS r1, r2, r3, k1, k2, c1

\* Two replies typed for the same conversation.
OneChat == (k1 :> c1) @@ (k2 :> c1)
OneKey  == k1 :> c1

NoFaults  == {}
AllFaults == (Serving \X {"failed", "lost", "crash"}) \cup {<<"claim", "expired">>}

MarkFails == {<<"mark", "failed">>}

Symmetric == Permutations(Request)
===============================================================================
