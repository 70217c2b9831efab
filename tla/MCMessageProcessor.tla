-------------------------- MODULE MCMessageProcessor ---------------------------
(***************************************************************************)
(* Instances of MessageProcessor for TLC.                                  *)
(***************************************************************************)
EXTENDS MessageProcessor, TLC

CONSTANTS m1, m2, c1, c2, t1, t2, t3

\* Two questions in one chat, and one message that is not a text.
OneChat == (m1 :> c1) @@ (m2 :> c1)

OneMessage == m1 :> c1

NoFaults  == {}
AllFaults == (Running \X {"failed", "lost", "crash", "softlimit", "hardlimit"})
               \cup {<<"claim", "expired">>}

\* Calls that raise, before or after they took effect, except the two that
\* keep the claim itself: its insert and its delete.
CallFaults == ((Guarded \ {"claim"}) \X {"failed", "lost"})
                \cup {<<"resolve", "failed">>, <<"claim", "failed">>}
Kills      == Running \X {"crash", "softlimit"}

Symmetric == Permutations(Task)
===============================================================================
