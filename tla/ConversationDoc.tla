---------------------------- MODULE ConversationDoc ----------------------------
(***************************************************************************)
(* One document of the jane_wa_conversations collection and the updates    *)
(* that app/services/conversation_service.py and the retention script      *)
(* apply to it.  Every operator is the effect of ONE MongoDB write, which  *)
(* the server applies to a document atomically; the modules that extend    *)
(* this one decide when each write happens.                                *)
(*                                                                         *)
(* A document keeps what the properties tell apart: the state, which       *)
(* escalation it is in (escalated_at, a clock reading that only grows, so  *)
(* a counter), whether phone_encrypted is present, and whether             *)
(* last_message_at is inside the retention window.                         *)
(***************************************************************************)
EXTENDS Naturals

CONSTANT NoDoc    \* find_one's None, and the chat that has no document yet

ConversationState == {"jane_handling", "escalated", "closed"}

Doc == [state : ConversationState,
        escalated_at : Nat,
        phone : BOOLEAN,
        recent : BOOLEAN]

ASSUME NoDocAssumption == NoDoc \notin Doc

\* insert_one of get_or_create_conversation.
NewDoc == [state |-> "jane_handling", escalated_at |-> 0,
           phone |-> TRUE, recent |-> TRUE]

\* escalate: an unconditional $set, whatever the state was.
Escalated(d) == [d EXCEPT !.state = "escalated", !.escalated_at = @ + 1]

\* The $set of resolve; its guard is read by an earlier find_one.
Resolved(d) == [d EXCEPT !.state = "jane_handling"]

\* Slip: a message of the customer takes the conversation back from the agent.
TouchedReopening(d) == [d EXCEPT !.recent = TRUE, !.state = "jane_handling"]

\* touch: last_message_at becomes now; nothing else is written, so a phone
\* number that was purged stays purged.
Touched(d) == [d EXCEPT !.recent = TRUE]

\* The retention window of 30 days has gone by since last_message_at.
Aged(d) == [d EXCEPT !.recent = FALSE]

\* purge_stale_phone_numbers: the filter and the $unset of its update_many.
Purgeable(d) == d.state # "escalated" /\ ~ d.recent /\ d.phone
Purged(d) == [d EXCEPT !.phone = FALSE]

===============================================================================
