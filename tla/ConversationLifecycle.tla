------------------------- MODULE ConversationLifecycle -------------------------
(***************************************************************************)
(* What the conversation state machine promises (docstrings of             *)
(* app/services/conversation_service.py: the design document's diagram):   *)
(* a conversation is opened by a customer, escalated by Jane, and comes    *)
(* back from "escalated" only through an explicit act of an agent.  There  *)
(* is no edge from escalated to closed, and no path on which Jane resumes  *)
(* silently: every return uses up one request of one agent, so a click     *)
(* can never close more than one escalation.                               *)
(***************************************************************************)
CONSTANTS Chat, Agent

VARIABLES
  life,     \* the state of each conversation, "new" before it exists
  atWork    \* the agent requests being served, per conversation

Init ==
  /\ life = [c \in Chat |-> "new"]
  /\ atWork = [c \in Chat |-> {}]

Open(c) ==
  /\ life[c] = "new"
  /\ life' = [life EXCEPT ![c] = "jane_handling"]
  /\ UNCHANGED atWork

Escalate(c) ==
  /\ life[c] = "jane_handling"
  /\ life' = [life EXCEPT ![c] = "escalated"]
  /\ UNCHANGED atWork

Close(c) ==
  /\ life[c] = "jane_handling"
  /\ life' = [life EXCEPT ![c] = "closed"]
  /\ UNCHANGED atWork

Arrive(c, a) ==
  /\ \A d \in Chat : a \notin atWork[d]
  /\ atWork' = [atWork EXCEPT ![c] = @ \cup {a}]
  /\ UNCHANGED life

\* An agent's request ends, with or without having resolved the conversation.
Leave(c, a) ==
  /\ a \in atWork[c]
  /\ atWork' = [atWork EXCEPT ![c] = @ \ {a}]
  /\ \/ UNCHANGED life
     \/ /\ life[c] = "escalated"
        /\ life' = [life EXCEPT ![c] = "jane_handling"]

Next == \E c \in Chat :
  \/ Open(c) \/ Escalate(c) \/ Close(c)
  \/ \E a \in Agent : Arrive(c, a) \/ Leave(c, a)

Spec == Init /\ [][Next]_<<life, atWork>>

===============================================================================
