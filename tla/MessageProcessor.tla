---------------------------- MODULE MessageProcessor ---------------------------
(***************************************************************************)
(* The inbound pipeline: Meta POSTs a webhook, the router enqueues a       *)
(* Celery task and answers 200, a worker runs the task.                    *)
(*   app/routers/webhook_router.py, app/celery_app.py,                     *)
(*   app/tasks/message_processor.py                                        *)
(*                                                                         *)
(* The task is a coroutine that awaits one MongoDB, Meta or SMTP call      *)
(* after another.  Each await is one action, because another worker can    *)
(* run between two of them.  Each can end in three ways: "ok", "failed"    *)
(* (it raised and had no effect) and "lost" (it took effect and raised     *)
(* all the same: a timeout or a dropped connection after the write).       *)
(* Faults says which of those, and which kills, a run allows at which      *)
(* step; MaxFaults bounds how many strike one message.                     *)
(***************************************************************************)
EXTENDS ConversationDoc, FiniteSets

CONSTANTS
  Message,       \* inbound webhook events, by Meta's message id
  TextMessage,   \* those extract_inbound_message accepts
  Chat,          \* (phone_hash, brand_id) pairs
  ChatOf,        \* the chat a message belongs to
  HasInbox,      \* chats whose brand has an escalation_email and SMTP set up
  Task,          \* Celery tasks, one per accepted POST; bounds redeliveries
  Slots,         \* worker processes, 3 containers x --concurrency=2
  MaxRetries,    \* max_retries of self.retry
  Faults,        \* <<step, outcome>> pairs that may go wrong
  MaxFaults,     \* bound on the faults that strike one message
  NoMessage

ASSUME InboundAssumption ==
  /\ TextMessage \subseteq Message
  /\ ChatOf \in [Message -> Chat]
  /\ HasInbox \subseteq Chat
  /\ Slots \in Nat \ {0}
  /\ MaxRetries \in Nat
  /\ MaxFaults \in Nat
  /\ NoMessage \notin Message

VARIABLES
  \* Meta and the broker
  pending,       \* events Meta has not seen a 200 for
  pc,            \* where each task is
  msg,           \* the event in the task's payload
  retries,       \* self.request.retries
  \* locals of the coroutine
  claimed,       \* the local variable of that name
  sawEscalated,  \* conversation["state"] as get_or_create_conversation read it
  \* the shared database
  claims,        \* jane_wa_processed_messages, by message_id
  conv,          \* jane_wa_conversations
  customerRows,  \* jane_wa_messages rows, role "customer", per message
  janeRows,      \* jane_wa_messages rows, role "jane", per message
  \* what the outside world has seen
  replied,       \* fact replies that reached the customer, per message
  held,          \* holding replies that reached the customer, per message
  escalations,   \* messages that have put their chat in "escalated"
  notified,      \* messages an escalation e-mail has gone out for
  overtaken,     \* tasks whose chat another question escalated since they read its state
  faults         \* faults that have struck each message

brokerVars == <<pending, msg>>
localVars  == <<claimed, sawEscalated>>
rowVars    == <<customerRows, janeRows>>
sendVars   == <<replied, held>>
handoffVars == <<escalations, notified, overtaken>>
inboundVars == <<brokerVars, pc, retries, localVars, claims, rowVars, sendVars,
                 handoffVars, faults>>
vars == <<inboundVars, conv>>

-----------------------------------------------------------------------------
(***************************************************************************)
(* The steps of the coroutine, in order, and how a task ends.              *)
(***************************************************************************)
Guarded == {"claim", "find", "create", "touch", "logCustomer", "handle",
            "sendReply", "logReply", "sendHolding", "logHolding",
            "escalate", "notify"}             \* inside the try block
Informed == {"create", "touch", "logCustomer", "handle", "sendReply", "sendHolding"}
                                          \* go by the state that find read
Running == Guarded \cup {"resolve", "release"}
Handled == {"ignored", "dropped", "quiet", "replied", "handedOver"}
Ended   == Handled \cup {"duplicate", "failed", "killed"}
PC      == Running \cup Ended \cup {"idle", "queued"}

Outcome == {"ok", "failed", "lost"}
Happened(o) == o # "failed"

TypeOK ==
  /\ pending \subseteq Message
  /\ pc \in [Task -> PC]
  /\ msg \in [Task -> Message \cup {NoMessage}]
  /\ retries \in [Task -> 0..MaxRetries]
  /\ claimed \in [Task -> BOOLEAN]
  /\ sawEscalated \in [Task -> BOOLEAN]
  /\ claims \subseteq Message
  /\ conv \in [Chat -> Doc \cup {NoDoc}]
  /\ customerRows \in [Message -> Nat]
  /\ janeRows \in [Message -> Nat]
  /\ replied \in [Message -> Nat]
  /\ held \in [Message -> Nat]
  /\ escalations \subseteq Message
  /\ notified \subseteq Message
  /\ overtaken \subseteq Task
  /\ faults \in [Message -> 0..MaxFaults]

Init ==
  /\ pending = Message
  /\ pc = [t \in Task |-> "idle"]
  /\ msg = [t \in Task |-> NoMessage]
  /\ retries = [t \in Task |-> 0]
  /\ claimed = [t \in Task |-> FALSE]
  /\ sawEscalated = [t \in Task |-> FALSE]
  /\ claims = {}
  /\ conv = [c \in Chat |-> NoDoc]
  /\ customerRows = [m \in Message |-> 0]
  /\ janeRows = [m \in Message |-> 0]
  /\ replied = [m \in Message |-> 0]
  /\ held = [m \in Message |-> 0]
  /\ escalations = {}
  /\ notified = {}
  /\ overtaken = {}
  /\ faults = [m \in Message |-> 0]

-----------------------------------------------------------------------------
(***************************************************************************)
(* Control flow shared by the steps.                                       *)
(***************************************************************************)
Goto(t, p) == /\ pc' = [pc EXCEPT ![t] = p]
              /\ UNCHANGED <<retries, claimed, faults>>

Strike(t, kind) ==
  LET m == msg[t] IN
  /\ <<pc[t], kind>> \in Faults
  /\ faults[m] < MaxFaults
  /\ faults' = [faults EXCEPT ![m] = @ + 1]

\* Slip: one retry too many (<= for <).
RetryOneMore(t) ==
  /\ IF retries[t] <= MaxRetries
       THEN /\ pc' = [pc EXCEPT ![t] = "queued"]
            /\ retries' = [retries EXCEPT ![t] = @ + 1]
       ELSE /\ pc' = [pc EXCEPT ![t] = "failed"]
            /\ UNCHANGED retries
  /\ claimed' = [claimed EXCEPT ![t] = FALSE]

\* Slip: no retry at all, the exception just ends the task.
RetryNever(t) ==
  /\ pc' = [pc EXCEPT ![t] = "failed"]
  /\ claimed' = [claimed EXCEPT ![t] = FALSE]
  /\ UNCHANGED retries

\* self.retry: the task is published again with a countdown until its
\* retries are used up; the coroutine's locals are gone either way.
Retry(t) ==
  /\ IF retries[t] < MaxRetries
       THEN /\ pc' = [pc EXCEPT ![t] = "queued"]
            /\ retries' = [retries EXCEPT ![t] = @ + 1]
       ELSE /\ pc' = [pc EXCEPT ![t] = "failed"]
            /\ UNCHANGED retries
  /\ claimed' = [claimed EXCEPT ![t] = FALSE]

\* Slip: the except block does not release the claim.
RaiseKeepingClaim(t) == Retry(t)

\* An exception: the except block releases the claim first, if there is one.
Raise(t) ==
  IF claimed[t]
    THEN /\ pc' = [pc EXCEPT ![t] = "release"]
         /\ UNCHANGED <<retries, claimed>>
    ELSE Retry(t)

\* The await of step pc[t] ends with outcome o.
Finish(t, o, next) ==
  IF o = "ok" THEN Goto(t, next)
              ELSE Strike(t, o) /\ Raise(t)

Bump(f, m) == [f EXCEPT ![m] = @ + 1]

-----------------------------------------------------------------------------
(***************************************************************************)
(* The webhook and the broker.                                             *)
(***************************************************************************)
\* receive_webhook: the task is enqueued, then 200 is returned.  When the 200
\* does not reach Meta (or .delay() raised after publishing) Meta delivers the
\* same event again, later, as another task.
ReceiveWebhook(m, t) ==
  /\ m \in pending
  /\ pc[t] = "idle"
  /\ pc' = [pc EXCEPT ![t] = "queued"]
  /\ msg' = [msg EXCEPT ![t] = m]
  /\ pending' \in {pending, pending \ {m}}
  /\ UNCHANGED <<retries, localVars, claims, conv, rowVars, sendVars,
                 handoffVars, faults>>

\* A worker process takes a task.  A payload that holds no text message ends
\* here: extract_message_echo, its second chance, returns None for all input.
Begin(t) ==
  /\ pc[t] = "queued"
  /\ Cardinality({u \in Task : pc[u] \in Running}) < Slots
  /\ Goto(t, IF msg[t] \in TextMessage THEN "resolve" ELSE "ignored")
  /\ UNCHANGED <<brokerVars, sawEscalated, claims, conv, rowVars, sendVars,
                 handoffVars>>

-----------------------------------------------------------------------------
(***************************************************************************)
(* _process_message_async, one action per await.                           *)
(***************************************************************************)
\* _resolve_client_context: the number is known (a registry document or the
\* transition fallback) or the message is dropped.  Outside the try block.
ResolveContext(t) ==
  /\ pc[t] = "resolve"
  /\ \/ Goto(t, "claim")
     \/ Goto(t, "dropped")
     \/ Strike(t, "failed") /\ Raise(t)
  /\ UNCHANGED <<brokerVars, sawEscalated, claims, conv, rowVars, sendVars,
                 handoffVars>>

\* Slip: no unique index, so the insert never reports a duplicate.
ClaimWithoutIndex(t) ==
  /\ pc[t] = "claim"
  /\ claims' = claims \cup {msg[t]}
  /\ claimed' = [claimed EXCEPT ![t] = TRUE]
  /\ pc' = [pc EXCEPT ![t] = "find"]
  /\ UNCHANGED <<retries, faults>>
  /\ UNCHANGED <<brokerVars, sawEscalated, conv, rowVars, sendVars, handoffVars>>

\* insert_one on the unique message_id index.  An insert that raised anything
\* but DuplicateKeyError leaves claimed FALSE, whether or not it was applied.
Claim(t) ==
  LET m == msg[t] IN
  /\ pc[t] = "claim"
  /\ \/ /\ m \in claims
        /\ Goto(t, "duplicate")
        /\ UNCHANGED claims
     \/ /\ m \notin claims
        /\ claims' = claims \cup {m}
        /\ claimed' = [claimed EXCEPT ![t] = TRUE]
        /\ pc' = [pc EXCEPT ![t] = "find"]
        /\ UNCHANGED <<retries, faults>>
     \/ \E o \in {"failed", "lost"} :
        /\ Strike(t, o)
        /\ claims' = IF Happened(o) THEN claims \cup {m} ELSE claims
        /\ Raise(t)
  /\ UNCHANGED <<brokerVars, sawEscalated, conv, rowVars, sendVars, handoffVars>>

\* Slip: the state of a conversation that exists already is not looked at.
FindIgnoringState(t) ==
  /\ pc[t] = "find"
  /\ Goto(t, IF conv[ChatOf[msg[t]]] = NoDoc THEN "create" ELSE "touch")
  /\ overtaken' = overtaken \ {t}
  /\ UNCHANGED <<brokerVars, sawEscalated, claims, conv, rowVars, sendVars,
                 escalations, notified>>

\* get_or_create_conversation, the find_one: the snapshot the task decides on.
FindConversation(t) ==
  LET d == conv[ChatOf[msg[t]]] IN
  /\ pc[t] = "find"
  /\ \/ /\ overtaken' = overtaken \ {t}
        /\ IF d = NoDoc
             THEN Goto(t, "create") /\ UNCHANGED sawEscalated
             ELSE /\ Goto(t, "touch")
                  /\ sawEscalated' = [sawEscalated EXCEPT ![t] = d.state = "escalated"]
     \/ Strike(t, "failed") /\ Raise(t) /\ UNCHANGED <<sawEscalated, overtaken>>
  /\ UNCHANGED <<brokerVars, claims, conv, rowVars, sendVars, escalations, notified>>

\* get_or_create_conversation, the insert_one.  The unique (phone_hash,
\* brand_id) index makes the loser of a race raise; nothing here catches it.
CreateConversation(t) ==
  LET c == ChatOf[msg[t]] IN
  /\ pc[t] = "create"
  /\ \/ /\ conv[c] # NoDoc
        /\ Raise(t)
        /\ UNCHANGED <<conv, faults>>
     \/ /\ conv[c] = NoDoc
        /\ \E o \in Outcome :
             /\ Finish(t, o, "touch")
             /\ conv' = IF Happened(o) THEN [conv EXCEPT ![c] = NewDoc] ELSE conv
  /\ UNCHANGED <<brokerVars, sawEscalated, claims, rowVars, sendVars, handoffVars>>

Touch(t) ==
  LET c == ChatOf[msg[t]] IN
  /\ pc[t] = "touch"
  /\ \E o \in Outcome :
       /\ Finish(t, o, "logCustomer")
       /\ conv' = IF Happened(o) THEN [conv EXCEPT ![c] = Touched(@)] ELSE conv
  /\ UNCHANGED <<brokerVars, sawEscalated, claims, rowVars, sendVars, handoffVars>>

\* The customer's row, then the test of the snapshot: Jane stays quiet on a
\* conversation that was escalated when the task read it.
LogCustomer(t) ==
  LET m == msg[t] IN
  /\ pc[t] = "logCustomer"
  /\ \E o \in Outcome :
       /\ Finish(t, o, IF sawEscalated[t] THEN "quiet" ELSE "handle")
       /\ customerRows' = IF Happened(o) THEN Bump(customerRows, m) ELSE customerRows
  /\ sawEscalated' = [sawEscalated EXCEPT ![t] = FALSE]
  /\ UNCHANGED <<brokerVars, claims, conv, janeRows, sendVars, handoffVars>>

\* reply_engine.handle: the facts are read and match the question or not.
\* A failure of the model that phrases the reply is swallowed in there.
Handle(t) ==
  /\ pc[t] = "handle"
  /\ \/ Goto(t, "sendReply")
     \/ Goto(t, "sendHolding")
     \/ Strike(t, "failed") /\ Raise(t)
  /\ UNCHANGED <<brokerVars, sawEscalated, claims, conv, rowVars, sendVars,
                 handoffVars>>

SendReply(t) ==
  /\ pc[t] = "sendReply"
  /\ \E o \in Outcome :
       /\ Finish(t, o, "logReply")
       /\ replied' = IF Happened(o) THEN Bump(replied, msg[t]) ELSE replied
  /\ overtaken' = overtaken \ {t}
  /\ UNCHANGED <<brokerVars, sawEscalated, claims, conv, rowVars, held, escalations, notified>>

\* Slip: the holding reply gets no row of its own.
SendHoldingUnlogged(t) ==
  /\ pc[t] = "sendHolding"
  /\ \E o \in Outcome :
       /\ Finish(t, o, "escalate")
       /\ held' = IF Happened(o) THEN Bump(held, msg[t]) ELSE held
  /\ overtaken' = overtaken \ {t}
  /\ UNCHANGED <<brokerVars, sawEscalated, claims, conv, rowVars, replied, escalations, notified>>

SendHolding(t) ==
  /\ pc[t] = "sendHolding"
  /\ \E o \in Outcome :
       /\ Finish(t, o, "logHolding")
       /\ held' = IF Happened(o) THEN Bump(held, msg[t]) ELSE held
  /\ overtaken' = overtaken \ {t}
  /\ UNCHANGED <<brokerVars, sawEscalated, claims, conv, rowVars, replied, escalations, notified>>

\* Slip: the claim is released in a finally block, after success too.
LogJaneThenRelease(t) ==
  /\ pc[t] \in {"logReply", "logHolding"}
  /\ \E o \in Outcome :
       /\ Finish(t, o, IF pc[t] = "logReply" THEN "release" ELSE "escalate")
       /\ janeRows' = IF Happened(o) THEN Bump(janeRows, msg[t]) ELSE janeRows
  /\ UNCHANGED <<brokerVars, sawEscalated, claims, conv, customerRows, sendVars,
                 handoffVars>>

\* The row for what was just sent, on either branch.
LogJane(t) ==
  /\ pc[t] \in {"logReply", "logHolding"}
  /\ \E o \in Outcome :
       /\ Finish(t, o, IF pc[t] = "logReply" THEN "replied" ELSE "escalate")
       /\ janeRows' = IF Happened(o) THEN Bump(janeRows, msg[t]) ELSE janeRows
  /\ UNCHANGED <<brokerVars, sawEscalated, claims, conv, customerRows, sendVars,
                 handoffVars>>

\* The tasks of the other questions of the chat that have read its state.
Overtakes(m) ==
  {u \in Task : pc[u] \in Informed /\ msg[u] # m /\ ChatOf[msg[u]] = ChatOf[m]}

\* Slip: the escalation is reported only when the chat was not escalated yet,
\* after a second look at the document.
EscalateThenReturn(t) ==
  LET m == msg[t]
      c == ChatOf[m] IN
  /\ pc[t] = "escalate"
  /\ Goto(t, IF conv[c].state = "escalated" THEN "handedOver" ELSE "notify")
  /\ conv' = [conv EXCEPT ![c] = Escalated(@)]
  /\ escalations' = escalations \cup {m}
  /\ overtaken' = overtaken \cup Overtakes(m)
  /\ UNCHANGED <<brokerVars, sawEscalated, claims, rowVars, sendVars, notified>>

Escalate(t) ==
  LET m == msg[t]
      c == ChatOf[m] IN
  /\ pc[t] = "escalate"
  /\ \E o \in Outcome :
       /\ Finish(t, o, "notify")
       /\ conv' = IF Happened(o) THEN [conv EXCEPT ![c] = Escalated(@)] ELSE conv
       /\ escalations' = IF Happened(o) THEN escalations \cup {m} ELSE escalations
       /\ overtaken' = IF Happened(o) THEN overtaken \cup Overtakes(m) ELSE overtaken
  /\ UNCHANGED <<brokerVars, sawEscalated, claims, rowVars, sendVars, notified>>

\* notify_escalation: without an inbox it only prints.
Notify(t) ==
  LET m == msg[t] IN
  /\ pc[t] = "notify"
  /\ \/ /\ ChatOf[m] \notin HasInbox
        /\ Goto(t, "handedOver")
        /\ UNCHANGED notified
     \/ /\ ChatOf[m] \in HasInbox
        /\ \E o \in Outcome :
             /\ Finish(t, o, "handedOver")
             /\ notified' = IF Happened(o) THEN notified \cup {m} ELSE notified
  /\ UNCHANGED <<brokerVars, sawEscalated, claims, conv, rowVars, sendVars, escalations,
                 overtaken>>

\* The except block: delete_one of the claim, then the exception (the old one
\* or that of the delete) reaches self.retry.
Release(t) ==
  LET m == msg[t] IN
  /\ pc[t] = "release"
  /\ \E o \in Outcome :
       /\ IF o = "ok" THEN UNCHANGED faults ELSE Strike(t, o)
       /\ claims' = IF Happened(o) THEN claims \ {m} ELSE claims
  /\ Retry(t)
  /\ sawEscalated' = [sawEscalated EXCEPT ![t] = FALSE]
  /\ UNCHANGED <<brokerVars, conv, rowVars, sendVars, handoffVars>>

-----------------------------------------------------------------------------
(***************************************************************************)
(* Kills and clocks.                                                       *)
(***************************************************************************)
\* The worker process dies; task_acks_late and task_reject_on_worker_lost put
\* the unacknowledged task back on the queue.  No except block has run.
WorkerLost(t) ==
  /\ pc[t] \in Running
  /\ Strike(t, "crash")
  /\ pc' = [pc EXCEPT ![t] = "queued"]
  /\ claimed' = [claimed EXCEPT ![t] = FALSE]
  /\ sawEscalated' = [sawEscalated EXCEPT ![t] = FALSE]
  /\ UNCHANGED <<brokerVars, retries, claims, conv, rowVars, sendVars, handoffVars>>

\* task_soft_time_limit while the coroutine waits in an await: the exception
\* comes up in the event loop, asyncio.run cancels the coroutine, and its
\* CancelledError is no Exception, so the except block is not entered; the
\* task catches the time limit outside and retries.
SoftTimeLimit(t) ==
  /\ pc[t] \in Running
  /\ Strike(t, "softlimit")
  /\ Retry(t)
  /\ sawEscalated' = [sawEscalated EXCEPT ![t] = FALSE]
  /\ UNCHANGED <<brokerVars, claims, conv, rowVars, sendVars, handoffVars>>

\* task_time_limit: the process is killed and the task acknowledged.  It takes
\* a soft limit that was swallowed (by _phrase_fact's except, around a blocking
\* call) or a release that hangs.
HardTimeLimit(t) ==
  /\ pc[t] \in {"handle", "sendReply", "logReply", "release"}
  /\ Strike(t, "hardlimit")
  /\ pc' = [pc EXCEPT ![t] = "killed"]
  /\ claimed' = [claimed EXCEPT ![t] = FALSE]
  /\ sawEscalated' = [sawEscalated EXCEPT ![t] = FALSE]
  /\ UNCHANGED <<brokerVars, retries, claims, conv, rowVars, sendVars, handoffVars>>

\* t is inside its try block with the claim on its message.
Owns(t) == pc[t] \in Guarded \cup {"release"} /\ claimed[t]

\* The TTL index removes a claim 24 hours after it was made; no task runs that
\* long (300 seconds), so none that owns the claim is running.
ExpireClaim(m) ==
  /\ m \in claims
  /\ <<"claim", "expired">> \in Faults
  /\ faults[m] < MaxFaults
  /\ ~ \E t \in Task : Owns(t) /\ msg[t] = m
  /\ claims' = claims \ {m}
  /\ faults' = Bump(faults, m)
  /\ UNCHANGED <<brokerVars, pc, retries, localVars, conv, rowVars, sendVars,
                 handoffVars>>

\* The rest of the system, for this module alone: somebody resolves the chat
\* (AgentReplyService has the real thing).
AgentResolves(c) ==
  /\ conv[c] # NoDoc
  /\ conv[c].state = "escalated"
  /\ conv' = [conv EXCEPT ![c] = Resolved(@)]
  /\ UNCHANGED inboundVars

-----------------------------------------------------------------------------
Step(t) ==
  \/ ResolveContext(t) \/ Claim(t) \/ FindConversation(t) \/ CreateConversation(t)
  \/ Touch(t) \/ LogCustomer(t) \/ Handle(t) \/ SendReply(t) \/ SendHolding(t)
  \/ LogJane(t) \/ Escalate(t) \/ Notify(t) \/ Release(t)

Kill(t) == WorkerLost(t) \/ SoftTimeLimit(t) \/ HardTimeLimit(t)

InboundNext ==
  \/ \E m \in Message, t \in Task : ReceiveWebhook(m, t)
  \/ \E t \in Task : Begin(t) \/ Step(t) \/ Kill(t)
  \/ \E m \in Message : ExpireClaim(m)

Next == InboundNext \/ \E c \in Chat : AgentResolves(c)

Spec == Init /\ [][Next]_vars

\* Celery keeps handing queued tasks to free workers, and every await ends, by
\* its own timeout or by the task's time limit.  Meta, agents and faults owe
\* nothing.
FairSpec == Spec /\ \A t \in Task : WF_vars(Begin(t)) /\ WF_vars(Step(t))

-----------------------------------------------------------------------------
(***************************************************************************)
(* Properties.                                                             *)
(***************************************************************************)
Sends(m) == replied[m] + held[m]

\* The claim is a lock: of all the deliveries of one event, at most one is
\* between claiming and releasing, and the claim is in the database while it
\* is.  Retries, redeliveries after a crash, and kills included.
ClaimIsExclusive ==
  \A t \in Task : Owns(t) =>
    /\ msg[t] \in claims
    /\ \A u \in Task : Owns(u) /\ msg[u] = msg[t] => u = t

\* Every message the customer gets beyond the first, for one question, is paid
\* for by a fault of its own: Meta's redeliveries alone never make Jane answer
\* twice, and one fault never makes her answer three times.
SendsPaidByFaults == \A m \in Message : Sends(m) <= 1 + faults[m]

\* The faults that let go of the claim on a question Jane has answered: a call
\* that raises after her message went out, and the age of the claim.
Unclaiming ==
  ({"sendReply", "sendHolding"} \X {"lost"})
    \cup ({"logReply", "logHolding", "escalate", "notify"} \X {"failed", "lost"})
    \cup {<<"claim", "expired">>}

\* "At-least-once delivery guarantees" (celery_app.py), and "already processed"
\* for what is delivered again (message_processor.py): no question gets two
\* messages, however often it is delivered, retried or taken from a worker that
\* died.  That takes the absence of the Unclaiming faults; with them it is
\* SendsPaidByFaults that holds.
AnsweredOnce == \A m \in Message : Sends(m) <= 1

\* The transcript the agent reads (GET .../messages) against what the customer
\* saw: no jane row without a message that was sent, and a sent message has
\* its row unless its task is about to write it or a fault came between.  The
\* question is on record before anything is sent, and only faults repeat it.
TranscriptMatchesSends ==
  \A m \in Message :
    /\ Sends(m) > 0 => customerRows[m] > 0
    /\ customerRows[m] <= 1 + faults[m]
    /\ janeRows[m] <= Sends(m)
    /\ Sends(m) <= janeRows[m] + faults[m]
         + (IF \E t \in Task : msg[t] = m /\ pc[t] \in {"logReply", "logHolding"}
              THEN 1 ELSE 0)

\* "The claim is released on failure so the retry actually re-processes rather
\* than being permanently skipped as a false duplicate" (message_processor.py):
\* a delivery is dropped as a duplicate only while some delivery of that event
\* is still under way, was handled, or gave up with an error.
NoFalseDuplicate ==
  \A t \in Task : pc[t] = "duplicate" =>
    \E u \in Task : /\ msg[u] = msg[t]
                    /\ pc[u] \in Running \cup Handled \cup {"queued", "failed"}

\* "Jane stays quiet on an escalated conversation until it's explicitly
\* resolved" (message_processor.py): no message reaches a customer from Jane
\* while the stored conversation is escalated.
QuietWhileEscalated ==
  [][\A m \in Message :
       Sends(m)' > Sends(m) =>
         ~ (conv[ChatOf[m]] # NoDoc /\ conv[ChatOf[m]].state = "escalated")]_vars

\* How far that goes with any number of workers: Jane speaks on an escalated
\* conversation only when the question of another message has escalated it since
\* this task read its state.  What stood there before the read keeps her quiet,
\* whoever escalated or resolved it, and so does her own escalation when a fault
\* or a kill after it makes the task, or another delivery, start over.
QuietUnlessOvertaken ==
  [][\A m \in Message :
       /\ Sends(m)' > Sends(m)
       /\ conv[ChatOf[m]] # NoDoc /\ conv[ChatOf[m]].state = "escalated"
       => \E t \in overtaken : msg[t] = m /\ pc[t] \in {"sendReply", "sendHolding"}]_vars

\* Escalating is a holding reply plus a notification (README): when a question
\* has escalated its chat, no fault struck it and no worker is on it any more,
\* the customer has had one holding reply, and an e-mail about that question
\* has gone to the brand if the brand has an inbox.
EscalationIsNotified ==
  \A m \in escalations :
    faults[m] = 0 /\ (\A t \in Task : msg[t] = m => pc[t] \notin Running) =>
      /\ held[m] = 1
      /\ ChatOf[m] \in HasInbox => m \in notified

Accepted(m) == \E t \in Task : msg[t] = m /\ pc[t] = "queued"
Settled(m)  == \E t \in Task : msg[t] = m /\ pc[t] \in Handled

\* An accepted event is eventually answered, handed over, recorded for the
\* agent of an escalated chat, or dropped because it is not ours to answer.
EveryEventIsSettled == \A m \in Message : Accepted(m) ~> Settled(m)

-----------------------------------------------------------------------------
(***************************************************************************)
(* A message's claim, what Jane sends for it and the faults that pay for   *)
(* it keep the promise of OnceLedger.                                      *)
(***************************************************************************)
Ledger == INSTANCE OnceLedger WITH
  Item    <- Message,
  Worker  <- Task,
  taken   <- claims,
  holders <- [m \in Message |-> {t \in Task : Owns(t) /\ msg[t] = m}],
  out     <- [m \in Message |-> Sends(m)],
  paid    <- faults

\* Only the one delivery that holds the claim of a message sends anything for
\* it, and the claim goes away, by release or by age, only when every message
\* sent so far has a fault of its own to answer for it.  The one exception no
\* fault explains, the lost race to create a conversation, comes too early to
\* break that.
KeepsLedger == Ledger!Spec

===============================================================================
