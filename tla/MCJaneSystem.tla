----------------------------- MODULE MCJaneSystem ------------------------------
(***************************************************************************)
(* Instances of JaneSystem for TLC.                                        *)
(***************************************************************************)
EXTENDS JaneSystem, TLC

CONSTANTS m1, m2, c1, t1, t2, r1, r2, k1

MessagesInOneChat == (m1 :> c1) @@ (m2 :> c1)
OneKey == k1 :> c1

NoFaults == {}
\* The write to the state that raises after it was applied.
LostResolve == {<<"resolveUpdate", "lost">>}

\* What a claim is for: a worker that dies after its send, and a send that raises
\* with nothing sent.
SendsThenDies == {<<"logReply", "crash">>, <<"logHolding", "crash">>, <<"sendHolding", "failed">>}
\* The same for a request, and the write to the state that raises after it was applied.
DeliversThenDies == {<<"mark", "crash">>, <<"send", "failed">>} \cup LostResolve

Symmetric == Permutations(Task) \cup Permutations(Request)
===============================================================================
