------------------------------ MODULE JaneSystem -------------------------------
(***************************************************************************)
(* The whole service: the workers of MessageProcessor and the requests of  *)
(* AgentReplyService on one conversations collection, with the retention   *)
(* job (scripts/purge_stale_phone_numbers.py) that cron runs against it    *)
(* and the passing of the retention window.                                *)
(***************************************************************************)
EXTENDS ConversationDoc

CONSTANTS Message, TextMessage, Chat, ChatOf, HasInbox, Task, Slots, MaxRetries,
          Faults, MaxFaults, NoMessage,
          Request, Key, ChatOfKey, NoKey, AgentFaults, MaxStrikes, MaxEscalations

VARIABLES pending, pc, msg, retries, claimed, sawEscalated, claims, conv,
          customerRows, janeRows, replied, held, escalations, notified, overtaken,
          faults, rpc, rkey, rchat, phone, seen, aclaims, delivered, agentRows, strikes, doubts

Inbound == INSTANCE MessageProcessor
Agents  == INSTANCE AgentReplyService

ASSUME SystemAssumption == Inbound!InboundAssumption /\ Agents!AgentAssumption

inboundVars == <<pending, msg, pc, retries, claimed, sawEscalated, claims,
                 customerRows, janeRows, replied, held, escalations, notified, overtaken,
                 faults>>
agentVars   == <<rpc, rkey, rchat, phone, seen, aclaims, delivered, agentRows, strikes, doubts>>
vars        == <<inboundVars, agentVars, conv>>

Init == Inbound!Init /\ Agents!AgentInit

\* A task that has touched its conversation ends, retries and all, long before
\* the retention window does.
JustTouched(c) ==
  \E t \in Task :
    /\ msg[t] # NoMessage
    /\ ChatOf[msg[t]] = c
    /\ pc[t] \in (Inbound!Running \ {"resolve", "claim", "find", "create", "touch"})
                  \cup {"queued"}

Age(c) ==
  /\ conv[c] # NoDoc
  /\ conv[c].recent
  /\ ~ JustTouched(c)
  /\ conv' = [conv EXCEPT ![c] = Aged(@)]
  /\ UNCHANGED <<inboundVars, agentVars>>

\* Slip: the job deletes the stale conversations, where it should delete their numbers.
PurgeWhole(c) ==
  /\ conv[c] # NoDoc
  /\ Purgeable(conv[c])
  /\ conv' = [conv EXCEPT ![c] = NoDoc]
  /\ UNCHANGED <<inboundVars, agentVars>>

\* purge: the update_many, which MongoDB applies to one document at a time.
Purge(c) ==
  /\ conv[c] # NoDoc
  /\ Purgeable(conv[c])
  /\ conv' = [conv EXCEPT ![c] = Purged(@)]
  /\ UNCHANGED <<inboundVars, agentVars>>

Next ==
  \/ Inbound!InboundNext /\ UNCHANGED agentVars
  \/ Agents!AgentNext /\ UNCHANGED inboundVars
  \/ \E c \in Chat : Age(c) \/ Purge(c)

Spec == Init /\ [][Next]_vars

-----------------------------------------------------------------------------
StateOf == [c \in Chat |-> IF conv[c] = NoDoc THEN "new" ELSE conv[c].state]
ServedIn == [c \in Chat |-> {r \in Request : rchat[r] = c /\ rpc[r] \in Agents!Serving}]

\* The service implements the lifecycle that conversation_service.py draws:
\* whatever workers, agents and the retention job do to a document, however
\* they interleave, retry or die, it moves along the diagram's edges and every
\* return to Jane is the one act of one agent's request.
Life == INSTANCE ConversationLifecycle WITH
  Agent <- Request, life <- StateOf, atWork <- ServedIn

FollowsLifecycle == Life!Spec

\* A document, but for its number and its age.
SeenByTasks ==
  [c \in Chat |-> IF conv[c] = NoDoc THEN NoDoc
                  ELSE [conv[c] EXCEPT !.phone = TRUE, !.recent = TRUE]]

\* To the workers, the agents and the retention job together are the one who
\* resolves a chat now and then: no step of a task depends on a number or on an
\* age, so that what MessageProcessor promises, the service keeps.
Pipeline == INSTANCE MessageProcessor WITH conv <- SeenByTasks

PipelineIsKept == Pipeline!Spec

\* Escalated conversations are spared by the retention job because "purging its
\* phone number would make that reply impossible to ever send"
\* (purge_stale_phone_numbers.py): a conversation that waits for an agent has
\* the number the agent's reply needs.
WaitingChatHasPhone ==
  \A c \in Chat : conv[c] # NoDoc /\ conv[c].state = "escalated" => conv[c].phone

\* Nobody hears the same thing twice: no question gets two messages of Jane's and
\* no reply of an agent's is delivered twice ("already processed",
\* message_processor.py; "already_sent", agent_reply_service.py), redeliveries,
\* retries, crashes and second posts of a key included.  It takes the absence of
\* the faults that let go of a claim after the send, on either side.
SaidOnce == Inbound!AnsweredOnce /\ Agents!AtMostOnce

===============================================================================
