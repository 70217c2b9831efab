------------------------------- MODULE OnceLedger ------------------------------
(***************************************************************************)
(* What a claim collection with a unique index is for, in this service:    *)
(* app/tasks/message_processor.py (jane_wa_processed_messages) and         *)
(* app/services/agent_reply_service.py (jane_wa_agent_reply_claims).       *)
(*                                                                         *)
(* Whoever inserts the claim of an item may deliver something to a         *)
(* customer on its behalf, and nobody else may until the claim is gone.    *)
(* A delivery cannot be taken back, so a claim may only go away when the   *)
(* next delivery is accounted for: out stays within one of paid.           *)
(***************************************************************************)
EXTENDS Naturals

CONSTANTS Item,    \* what is claimed: a message id, an idempotency key
          Worker   \* who claims: a task, a request

VARIABLES taken,    \* items whose claim is in the database
          holders,  \* who is working under the claim of an item
          out,      \* deliveries made for it
          paid      \* faults that account for deliveries beyond the first

vars == <<taken, holders, out, paid>>

Init ==
  /\ taken = {}
  /\ holders = [i \in Item |-> {}]
  /\ out = [i \in Item |-> 0]
  /\ paid = [i \in Item |-> 0]

\* A fault may strike along with any step, and by itself.
MayPay(i) == paid' \in {paid, [paid EXCEPT ![i] = @ + 1]}

\* The insert of the claim succeeds.
Take(i, w) ==
  /\ i \notin taken
  /\ taken' = taken \cup {i}
  /\ holders' = [holders EXCEPT ![i] = {w}]
  /\ UNCHANGED out

\* The insert takes effect, but its caller never learns.
Orphan(i) ==
  /\ i \notin taken
  /\ taken' = taken \cup {i}
  /\ UNCHANGED <<holders, out>>

Deliver(i) ==
  /\ holders[i] # {}
  /\ out[i] <= paid[i]
  /\ out' = [out EXCEPT ![i] = @ + 1]
  /\ UNCHANGED <<taken, holders>>

\* The holder is done, or dead: its claim stays and shuts everybody out.
Leave(i) ==
  /\ holders[i] # {}
  /\ holders' = [holders EXCEPT ![i] = {}]
  /\ UNCHANGED <<taken, out>>

\* The claim goes away, deleted by its holder or by its TTL.
Free(i) ==
  /\ i \in taken
  /\ out[i] <= paid'[i]
  /\ taken' = taken \ {i}
  /\ holders' = [holders EXCEPT ![i] = {}]
  /\ UNCHANGED out

Next ==
  \E i \in Item :
    /\ MayPay(i)
    /\ \/ \E w \in Worker : Take(i, w)
       \/ Orphan(i) \/ Deliver(i) \/ Leave(i) \/ Free(i)
       \/ UNCHANGED <<taken, holders, out>>

Spec == Init /\ [][Next]_vars

-----------------------------------------------------------------------------
\* At most one holder, only while the claim is there, and at most one delivery
\* that no fault accounts for.
AtMostOnceUnlessPaid ==
  \A i \in Item :
    /\ out[i] <= 1 + paid[i]
    /\ i \notin taken => holders[i] = {} /\ out[i] <= paid[i]
    /\ \A v, w \in holders[i] : v = w

===============================================================================
