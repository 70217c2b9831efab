------------------------ MODULE MessageProcessorProofs -------------------------
(***************************************************************************)
(* What holds of MessageProcessor for every number of messages, chats,     *)
(* tasks and workers, every retry limit and every set of faults.           *)
(***************************************************************************)
EXTENDS MessageProcessor, TLAPS

-----------------------------------------------------------------------------
(***************************************************************************)
(* The inductive invariant, in three layers.                               *)
(***************************************************************************)
\* The steps that come after get_or_create_conversation has returned.
Located == {"touch", "logCustomer", "handle", "sendReply", "logReply",
            "sendHolding", "logHolding", "escalate", "notify"}

\* TypeOK needs that a task has a message, and that the document a task is
\* going to update exists (documents are never deleted).
TypeInv ==
  /\ TypeOK
  /\ \A t \in Task : pc[t] # "idle" => msg[t] \in Message
  /\ \A t \in Task : pc[t] \in Located => conv[ChatOf[msg[t]]] # NoDoc

\* The steps at which the local variable claimed is TRUE.
Owning == (Guarded \ {"claim"}) \cup {"release"}

ClaimInv ==
  /\ \A t \in Task : pc[t] \in Owning => claimed[t]
  /\ \A t \in Task : claimed[t] => pc[t] \in Owning \cup Handled
  /\ ClaimIsExclusive

\* The steps that come before anything is sent.
Unsent == {"find", "create", "touch", "logCustomer", "handle", "sendReply", "sendHolding"}

\* A question that nobody holds, whose holder has not sent yet, or whose claim
\* is about to be released, has had as many faults as messages: whoever takes
\* it next may send once more.
SendInv ==
  /\ SendsPaidByFaults
  /\ \A m \in Message : m \notin claims => Sends(m) <= faults[m]
  /\ \A t \in Task : pc[t] \in Unsent \cup {"release"} => Sends(msg[t]) <= faults[msg[t]]

-----------------------------------------------------------------------------
(***************************************************************************)
(* What the control-flow helpers do, once for all the steps.               *)
(***************************************************************************)
\* The part of a step that Goto, Raise and Finish write: task t and the faults
\* of its message, nothing of anybody else's.
Moves(t) ==
  /\ pc' \in [Task -> PC]
  /\ retries' \in [Task -> 0..MaxRetries]
  /\ claimed' \in [Task -> BOOLEAN]
  /\ \A u \in Task : u # t => pc'[u] = pc[u] /\ claimed'[u] = claimed[u]

\* The exception of a step has been raised: a claim is going to be released.
Raised(t) ==
  IF claimed[t] THEN pc'[t] = "release" /\ claimed'[t]
                ELSE pc'[t] \in {"queued", "failed"} /\ ~ claimed'[t]

LEMMA RetryMoves ==
  ASSUME TypeOK, NEW t \in Task, Retry(t)
  PROVE  Moves(t) /\ pc'[t] \in {"queued", "failed"} /\ ~ claimed'[t]
BY InboundAssumption DEF TypeOK, Retry, Moves, PC, Ended

LEMMA RaiseMoves ==
  ASSUME TypeOK, NEW t \in Task, Raise(t)
  PROVE  Moves(t) /\ Raised(t)
<1>1. CASE claimed[t]
  BY <1>1 DEF TypeOK, Raise, Moves, Raised, PC, Running
<1>2. CASE ~ claimed[t]
  BY <1>2, RetryMoves DEF TypeOK, Raise, Raised
<1>. QED  BY <1>1, <1>2 DEF TypeOK

LEMMA GotoMoves ==
  ASSUME TypeOK, NEW t \in Task, NEW p \in PC, Goto(t, p)
  PROVE  Moves(t) /\ pc'[t] = p /\ claimed' = claimed /\ faults' = faults
BY DEF TypeOK, Goto, Moves

LEMMA StrikeCounts ==
  ASSUME TypeOK, NEW t \in Task, msg[t] \in Message, NEW kind, Strike(t, kind)
  PROVE  /\ faults' \in [Message -> 0..MaxFaults]
         /\ faults' = [faults EXCEPT ![msg[t]] = @ + 1]
BY InboundAssumption DEF TypeOK, Strike

\* One fault more for t's message.
OneFault(t) == /\ faults' \in [Message -> 0..MaxFaults]
               /\ faults' = [faults EXCEPT ![msg[t]] = @ + 1]

LEMMA FinishMoves ==
  ASSUME TypeOK, NEW t \in Task, msg[t] \in Message, NEW o, NEW p \in PC, Finish(t, o, p)
  PROVE  /\ Moves(t)
         /\ \/ o = "ok" /\ pc'[t] = p /\ claimed' = claimed /\ faults' = faults
            \/ o # "ok" /\ Raised(t) /\ OneFault(t)
<1>1. CASE o = "ok"
  BY <1>1, GotoMoves DEF Finish
<1>2. CASE o # "ok"
  BY <1>2, RaiseMoves, StrikeCounts DEF Finish, OneFault
<1>. QED  BY <1>1, <1>2

LEMMA BumpType ==
  ASSUME NEW f \in [Message -> Nat], NEW m \in Message
  PROVE  Bump(f, m) \in [Message -> Nat]
BY DEF Bump

-----------------------------------------------------------------------------
(***************************************************************************)
(* Type correctness.                                                       *)
(***************************************************************************)
LEMMA DocWrites ==
  /\ NewDoc \in Doc
  /\ \A d \in Doc : /\ Escalated(d) \in Doc
                    /\ Resolved(d) \in Doc
                    /\ Touched(d) \in Doc
<1>1. NewDoc \in Doc
  BY DEF NewDoc, Doc, ConversationState
<1>2. ASSUME NEW d \in Doc PROVE Escalated(d) \in Doc
  <2>1. d.escalated_at + 1 \in Nat
    BY DEF Doc
  <2>2. Escalated(d) = [d EXCEPT !.state = "escalated", !.escalated_at = d.escalated_at + 1]
    BY DEF Escalated
  <2>. QED  BY <2>1, <2>2 DEF Doc, ConversationState
<1>3. ASSUME NEW d \in Doc PROVE Resolved(d) \in Doc
  BY DEF Doc, ConversationState, Resolved
<1>4. ASSUME NEW d \in Doc PROVE Touched(d) \in Doc
  BY DEF Doc, ConversationState, Touched
<1>. QED  BY <1>1, <1>2, <1>3, <1>4

\* No write to the conversations removes a document.
Kept == \A c \in Chat : conv[c] # NoDoc => conv'[c] # NoDoc

\* A step of t preserves TypeInv when what it writes has its type, t stays
\* among those that may hold a document, and documents are kept.
LEMMA TypeStep ==
  ASSUME TypeInv, NEW t \in Task, msg[t] \in Message, Moves(t),
         msg' = msg, pending' = pending, Kept,
         pc'[t] \in Located => conv'[ChatOf[msg[t]]] # NoDoc,
         conv' \in [Chat -> Doc \cup {NoDoc}],
         faults' = faults \/ OneFault(t),
         sawEscalated' \in [Task -> BOOLEAN],
         claims' \subseteq Message,
         customerRows' \in [Message -> Nat], janeRows' \in [Message -> Nat],
         replied' \in [Message -> Nat], held' \in [Message -> Nat],
         escalations' \subseteq Message, notified' \subseteq Message,
         overtaken' \subseteq Task
  PROVE  TypeInv'
<1>1. TypeOK'
  BY DEF TypeInv, TypeOK, Moves, OneFault
<1>2. (\A u \in Task : pc[u] # "idle" => msg[u] \in Message)'
  BY DEF TypeInv, TypeOK, Moves
<1>3. (\A u \in Task : pc[u] \in Located => conv[ChatOf[msg[u]]] # NoDoc)'
  <2>. SUFFICES ASSUME NEW u \in Task, pc'[u] \in Located
                PROVE  conv'[ChatOf[msg[u]]] # NoDoc
    BY DEF TypeInv
  <2>1. CASE u = t
    BY <2>1
  <2>2. CASE u # t
    <3>1. pc[u] \in Located /\ conv[ChatOf[msg[u]]] # NoDoc
      BY <2>2 DEF TypeInv, Moves
    <3>2. ChatOf[msg[u]] \in Chat
      BY <3>1, InboundAssumption DEF TypeInv, Located
    <3>. QED  BY <3>1, <3>2 DEF Kept
  <2>. QED  BY <2>1, <2>2
<1>. QED  BY <1>1, <1>2, <1>3 DEF TypeInv

\* What every step of a running task starts from.
LEMMA RunningTask ==
  ASSUME TypeInv, NEW t \in Task, pc[t] # "idle"
  PROVE  msg[t] \in Message /\ ChatOf[msg[t]] \in Chat
BY InboundAssumption DEF TypeInv

LEMMA TypeInit == Init => TypeInv
BY InboundAssumption DEF Init, TypeInv, TypeOK, Located, PC

LEMMA TypeNext == TypeInv /\ [Next]_vars => TypeInv'
<1>. SUFFICES ASSUME TypeInv, [Next]_vars PROVE TypeInv'
  OBVIOUS
<1>. USE DEF Happened, Outcome
<1>1. ASSUME NEW m \in Message, NEW t \in Task, ReceiveWebhook(m, t) PROVE TypeInv'
  <2>1. TypeOK'
    BY <1>1 DEF TypeInv, TypeOK, ReceiveWebhook, localVars, rowVars, sendVars, handoffVars, PC
  <2>2. (\A u \in Task : pc[u] # "idle" => msg[u] \in Message)'
    BY <1>1 DEF TypeInv, TypeOK, ReceiveWebhook
  <2>3. (\A u \in Task : pc[u] \in Located => conv[ChatOf[msg[u]]] # NoDoc)'
    BY <1>1 DEF TypeInv, TypeOK, ReceiveWebhook, Located
  <2>. QED  BY <2>1, <2>2, <2>3 DEF TypeInv
<1>2. ASSUME NEW t \in Task, Begin(t) PROVE TypeInv'
  <2>1. PICK p \in {"resolve", "ignored"} : Goto(t, p)
    BY <1>2 DEF Begin
  <2>2. Moves(t) /\ pc'[t] = p /\ faults' = faults
    BY <2>1, GotoMoves DEF TypeInv, PC, Running, Ended, Handled
  <2>. QED
    BY <1>2, <2>2, RunningTask, TypeStep
    DEF Begin, TypeInv, TypeOK, Located, Kept, brokerVars, rowVars, sendVars, handoffVars
<1>3. ASSUME NEW t \in Task, ResolveContext(t) PROVE TypeInv'
  <2>1. Moves(t) /\ pc'[t] \notin Located /\ (faults' = faults \/ OneFault(t))
    <3>1. CASE Goto(t, "claim") \/ Goto(t, "dropped")
      BY <3>1, GotoMoves DEF TypeInv, PC, Running, Guarded, Ended, Handled, Located
    <3>2. CASE Strike(t, "failed") /\ Raise(t)
      BY <1>3, <3>2, RaiseMoves, StrikeCounts, RunningTask
      DEF ResolveContext, TypeInv, Raised, OneFault, Located
    <3>. QED  BY <1>3, <3>1, <3>2 DEF ResolveContext
  <2>. QED
    BY <1>3, <2>1, RunningTask, TypeStep
    DEF ResolveContext, TypeInv, TypeOK, Kept, brokerVars, rowVars, sendVars, handoffVars
<1>4. ASSUME NEW t \in Task, Claim(t) PROVE TypeInv'
  <2>1. msg[t] \in Message
    BY <1>4, RunningTask DEF Claim
  <2>2. /\ Moves(t) /\ pc'[t] \notin Located /\ (faults' = faults \/ OneFault(t))
        /\ claims' \subseteq Message
    <3>1. CASE Goto(t, "duplicate") /\ UNCHANGED claims
      BY <3>1, GotoMoves DEF TypeInv, TypeOK, PC, Ended, Located
    <3>2. CASE /\ claims' = claims \cup {msg[t]}
               /\ claimed' = [claimed EXCEPT ![t] = TRUE]
               /\ pc' = [pc EXCEPT ![t] = "find"]
               /\ UNCHANGED <<retries, faults>>
      BY <2>1, <3>2 DEF TypeInv, TypeOK, PC, Running, Guarded, Moves, Located
    <3>3. CASE \E o \in {"failed", "lost"} :
                 /\ Strike(t, o)
                 /\ claims' = IF Happened(o) THEN claims \cup {msg[t]} ELSE claims
                 /\ Raise(t)
      BY <2>1, <3>3, RaiseMoves, StrikeCounts DEF TypeInv, TypeOK, Raised, OneFault, Located
    <3>. QED  BY <1>4, <3>1, <3>2, <3>3 DEF Claim
  <2>. QED
    BY <1>4, <2>1, <2>2, TypeStep
    DEF Claim, TypeInv, TypeOK, Kept, brokerVars, rowVars, sendVars, handoffVars
<1>5. ASSUME NEW t \in Task, FindConversation(t) PROVE TypeInv'
  <2>1. msg[t] \in Message
    BY <1>5, RunningTask DEF FindConversation
  <2>2. /\ Moves(t) /\ (faults' = faults \/ OneFault(t))
        /\ pc'[t] \in Located => conv[ChatOf[msg[t]]] # NoDoc
        /\ sawEscalated' \in [Task -> BOOLEAN]
    <3>1. CASE conv[ChatOf[msg[t]]] = NoDoc /\ Goto(t, "create") /\ UNCHANGED sawEscalated
      BY <3>1, GotoMoves DEF TypeInv, TypeOK, PC, Running, Guarded, Located
    <3>2. CASE /\ conv[ChatOf[msg[t]]] # NoDoc /\ Goto(t, "touch")
               /\ sawEscalated' = [sawEscalated EXCEPT ![t] = conv[ChatOf[msg[t]]].state = "escalated"]
      BY <3>2, GotoMoves DEF TypeInv, TypeOK, PC, Running, Guarded
    <3>3. CASE Strike(t, "failed") /\ Raise(t) /\ UNCHANGED sawEscalated
      BY <2>1, <3>3, RaiseMoves, StrikeCounts DEF TypeInv, TypeOK, Raised, OneFault, Located
    <3>. QED  BY <1>5, <3>1, <3>2, <3>3 DEF FindConversation
  <2>. QED
    BY <1>5, <2>1, <2>2, TypeStep
    DEF FindConversation, TypeInv, TypeOK, Kept, brokerVars, rowVars, sendVars, handoffVars
<1>6. ASSUME NEW t \in Task, CreateConversation(t) PROVE TypeInv'
  <2>1. msg[t] \in Message /\ ChatOf[msg[t]] \in Chat
    BY <1>6, RunningTask DEF CreateConversation
  <2>2. /\ Moves(t) /\ (faults' = faults \/ OneFault(t))
        /\ Kept
        /\ pc'[t] \in Located => conv'[ChatOf[msg[t]]] # NoDoc
        /\ conv' \in [Chat -> Doc \cup {NoDoc}]
    <3>1. CASE conv[ChatOf[msg[t]]] # NoDoc /\ Raise(t) /\ UNCHANGED <<conv, faults>>
      BY <3>1, RaiseMoves DEF TypeInv, TypeOK, Raised, Located, Kept
    <3>2. CASE \E o \in Outcome :
                 /\ Finish(t, o, "touch")
                 /\ conv' = IF Happened(o) THEN [conv EXCEPT ![ChatOf[msg[t]]] = NewDoc] ELSE conv
      <4>1. PICK o \in Outcome :
              /\ Finish(t, o, "touch")
              /\ conv' = IF Happened(o) THEN [conv EXCEPT ![ChatOf[msg[t]]] = NewDoc] ELSE conv
        BY <3>2
      <4>2. /\ Moves(t)
            /\ \/ o = "ok" /\ pc'[t] = "touch" /\ faults' = faults
               \/ Raised(t) /\ OneFault(t)
        BY <2>1, <4>1, FinishMoves DEF TypeInv, PC, Running, Guarded
      <4>3. NewDoc \in Doc /\ NewDoc # NoDoc
        BY DocWrites, NoDocAssumption
      <4>. QED  BY <2>1, <4>1, <4>2, <4>3 DEF TypeInv, TypeOK, Raised, Located, Kept
    <3>. QED  BY <1>6, <3>1, <3>2 DEF CreateConversation
  <2>. QED
    BY <1>6, <2>1, <2>2, TypeStep
    DEF CreateConversation, TypeInv, TypeOK, brokerVars, rowVars, sendVars, handoffVars
<1>7. ASSUME NEW t \in Task, Touch(t) PROVE TypeInv'
  <2>1. msg[t] \in Message /\ ChatOf[msg[t]] \in Chat
    BY <1>7, RunningTask DEF Touch
  <2>2. PICK o \in Outcome : Finish(t, o, "logCustomer")
    BY <1>7 DEF Touch
  <2>3. Moves(t) /\ (faults' = faults \/ OneFault(t))
    BY <2>1, <2>2, FinishMoves DEF TypeInv, PC, Running, Guarded
  <2>4. conv[ChatOf[msg[t]]] \in Doc /\ conv[ChatOf[msg[t]]] # NoDoc
    BY <1>7, <2>1 DEF Touch, TypeInv, TypeOK, Located
  <2>5. Touched(conv[ChatOf[msg[t]]]) \in Doc /\ Touched(conv[ChatOf[msg[t]]]) # NoDoc
    BY <2>4, DocWrites, NoDocAssumption
  <2>6. conv' = conv \/ conv' = [conv EXCEPT ![ChatOf[msg[t]]] = Touched(conv[ChatOf[msg[t]]])]
    BY <1>7 DEF Touch
  <2>7. /\ conv' \in [Chat -> Doc \cup {NoDoc}]
        /\ conv'[ChatOf[msg[t]]] # NoDoc
        /\ Kept
    BY <1>7, <2>1, <2>4, <2>5, <2>6 DEF Touch, TypeInv, TypeOK, Kept
  <2>. QED
    BY <1>7, <2>1, <2>3, <2>7, TypeStep
    DEF Touch, TypeInv, TypeOK, brokerVars, rowVars, sendVars, handoffVars
<1>8. ASSUME NEW t \in Task, LogCustomer(t) PROVE TypeInv'
  <2>1. msg[t] \in Message
    BY <1>8, RunningTask DEF LogCustomer
  <2>2. PICK o \in Outcome, p \in {"quiet", "handle"} : Finish(t, o, p)
    BY <1>8 DEF LogCustomer
  <2>3. Moves(t) /\ (faults' = faults \/ OneFault(t))
    BY <2>1, <2>2, FinishMoves DEF TypeInv, PC, Running, Guarded, Ended, Handled
  <2>4. conv[ChatOf[msg[t]]] # NoDoc
    BY <1>8 DEF LogCustomer, TypeInv, Located
  <2>5. customerRows' \in [Message -> Nat] /\ sawEscalated' \in [Task -> BOOLEAN]
    BY <1>8, <2>1, BumpType DEF LogCustomer, TypeInv, TypeOK
  <2>. QED
    BY <1>8, <2>1, <2>3, <2>4, <2>5, TypeStep
    DEF LogCustomer, TypeInv, TypeOK, Kept, brokerVars, rowVars, sendVars, handoffVars
<1>9. ASSUME NEW t \in Task, Handle(t) PROVE TypeInv'
  <2>1. msg[t] \in Message
    BY <1>9, RunningTask DEF Handle
  <2>2. conv[ChatOf[msg[t]]] # NoDoc
    BY <1>9 DEF Handle, TypeInv, Located
  <2>3. Moves(t) /\ (faults' = faults \/ OneFault(t))
    <3>1. CASE Goto(t, "sendReply") \/ Goto(t, "sendHolding")
      BY <3>1, GotoMoves DEF TypeInv, PC, Running, Guarded
    <3>2. CASE Strike(t, "failed") /\ Raise(t)
      BY <2>1, <3>2, RaiseMoves, StrikeCounts DEF TypeInv, OneFault
    <3>. QED  BY <1>9, <3>1, <3>2 DEF Handle
  <2>. QED
    BY <1>9, <2>1, <2>2, <2>3, TypeStep
    DEF Handle, TypeInv, TypeOK, Kept, brokerVars, rowVars, sendVars, handoffVars
<1>10. ASSUME NEW t \in Task, SendReply(t) PROVE TypeInv'
  <2>1. msg[t] \in Message
    BY <1>10, RunningTask DEF SendReply
  <2>2. PICK o \in Outcome, p \in {"logReply"} : Finish(t, o, p)
    BY <1>10 DEF SendReply
  <2>3. Moves(t) /\ (faults' = faults \/ OneFault(t))
    BY <2>1, <2>2, FinishMoves DEF TypeInv, PC, Running, Guarded, Ended, Handled
  <2>4. conv[ChatOf[msg[t]]] # NoDoc
    BY <1>10 DEF SendReply, TypeInv, Located
  <2>5. replied' \in [Message -> Nat]
    BY <1>10, <2>1, BumpType DEF SendReply, TypeInv, TypeOK
  <2>. QED
    BY <1>10, <2>1, <2>3, <2>4, <2>5, TypeStep
    DEF SendReply, TypeInv, TypeOK, Kept, brokerVars, rowVars, sendVars, handoffVars
<1>11. ASSUME NEW t \in Task, SendHolding(t) PROVE TypeInv'
  <2>1. msg[t] \in Message
    BY <1>11, RunningTask DEF SendHolding
  <2>2. PICK o \in Outcome, p \in {"logHolding"} : Finish(t, o, p)
    BY <1>11 DEF SendHolding
  <2>3. Moves(t) /\ (faults' = faults \/ OneFault(t))
    BY <2>1, <2>2, FinishMoves DEF TypeInv, PC, Running, Guarded, Ended, Handled
  <2>4. conv[ChatOf[msg[t]]] # NoDoc
    BY <1>11 DEF SendHolding, TypeInv, Located
  <2>5. held' \in [Message -> Nat]
    BY <1>11, <2>1, BumpType DEF SendHolding, TypeInv, TypeOK
  <2>. QED
    BY <1>11, <2>1, <2>3, <2>4, <2>5, TypeStep
    DEF SendHolding, TypeInv, TypeOK, Kept, brokerVars, rowVars, sendVars, handoffVars
<1>12. ASSUME NEW t \in Task, LogJane(t) PROVE TypeInv'
  <2>1. msg[t] \in Message
    BY <1>12, RunningTask DEF LogJane
  <2>2. PICK o \in Outcome, p \in {"replied", "escalate"} : Finish(t, o, p)
    BY <1>12 DEF LogJane
  <2>3. Moves(t) /\ (faults' = faults \/ OneFault(t))
    BY <2>1, <2>2, FinishMoves DEF TypeInv, PC, Running, Guarded, Ended, Handled
  <2>4. conv[ChatOf[msg[t]]] # NoDoc
    BY <1>12 DEF LogJane, TypeInv, Located
  <2>5. janeRows' \in [Message -> Nat]
    BY <1>12, <2>1, BumpType DEF LogJane, TypeInv, TypeOK
  <2>. QED
    BY <1>12, <2>1, <2>3, <2>4, <2>5, TypeStep
    DEF LogJane, TypeInv, TypeOK, Kept, brokerVars, rowVars, sendVars, handoffVars
<1>13. ASSUME NEW t \in Task, Escalate(t) PROVE TypeInv'
  <2>1. msg[t] \in Message /\ ChatOf[msg[t]] \in Chat
    BY <1>13, RunningTask DEF Escalate
  <2>2. PICK o \in Outcome : Finish(t, o, "notify")
    BY <1>13 DEF Escalate
  <2>3. Moves(t) /\ (faults' = faults \/ OneFault(t))
    BY <2>1, <2>2, FinishMoves DEF TypeInv, PC, Running, Guarded
  <2>4. conv[ChatOf[msg[t]]] \in Doc /\ conv[ChatOf[msg[t]]] # NoDoc
    BY <1>13, <2>1 DEF Escalate, TypeInv, TypeOK, Located
  <2>5. Escalated(conv[ChatOf[msg[t]]]) \in Doc /\ Escalated(conv[ChatOf[msg[t]]]) # NoDoc
    BY <2>4, DocWrites, NoDocAssumption
  <2>6. conv' = conv \/ conv' = [conv EXCEPT ![ChatOf[msg[t]]] = Escalated(conv[ChatOf[msg[t]]])]
    BY <1>13 DEF Escalate
  <2>7. /\ conv' \in [Chat -> Doc \cup {NoDoc}]
        /\ conv'[ChatOf[msg[t]]] # NoDoc
        /\ Kept
        /\ escalations' \subseteq Message
    BY <1>13, <2>1, <2>4, <2>5, <2>6 DEF Escalate, TypeInv, TypeOK, Kept
  <2>8. overtaken' \subseteq Task
    BY <1>13 DEF Escalate, Overtakes, TypeInv, TypeOK
  <2>. QED
    BY <1>13, <2>1, <2>3, <2>7, <2>8, TypeStep
    DEF Escalate, TypeInv, TypeOK, brokerVars, rowVars, sendVars, handoffVars
<1>14. ASSUME NEW t \in Task, Notify(t) PROVE TypeInv'
  <2>1. msg[t] \in Message
    BY <1>14, RunningTask DEF Notify
  <2>2. conv[ChatOf[msg[t]]] # NoDoc
    BY <1>14 DEF Notify, TypeInv, Located
  <2>3. Moves(t) /\ (faults' = faults \/ OneFault(t)) /\ notified' \subseteq Message
    <3>1. CASE Goto(t, "handedOver") /\ UNCHANGED notified
      BY <3>1, GotoMoves DEF TypeInv, TypeOK, PC, Ended, Handled
    <3>2. CASE \E o \in Outcome :
                 /\ Finish(t, o, "handedOver")
                 /\ notified' = IF Happened(o) THEN notified \cup {msg[t]} ELSE notified
      BY <2>1, <3>2, FinishMoves DEF TypeInv, TypeOK, PC, Ended, Handled
    <3>. QED  BY <1>14, <3>1, <3>2 DEF Notify
  <2>. QED
    BY <1>14, <2>1, <2>2, <2>3, TypeStep
    DEF Notify, TypeInv, TypeOK, Kept, brokerVars, rowVars, sendVars, handoffVars
<1>15. ASSUME NEW t \in Task, Release(t) PROVE TypeInv'
  <2>1. msg[t] \in Message
    BY <1>15, RunningTask DEF Release
  <2>2. Moves(t) /\ pc'[t] \notin Located
    BY <1>15, RetryMoves DEF Release, TypeInv, Located
  <2>3. faults' = faults \/ OneFault(t)
    BY <1>15, <2>1, StrikeCounts DEF Release, TypeInv, OneFault
  <2>4. claims' \subseteq Message /\ sawEscalated' \in [Task -> BOOLEAN]
    BY <1>15 DEF Release, TypeInv, TypeOK
  <2>. QED
    BY <1>15, <2>1, <2>2, <2>3, <2>4, TypeStep
    DEF Release, TypeInv, TypeOK, Kept, brokerVars, rowVars, sendVars, handoffVars
<1>16. ASSUME NEW t \in Task, Kill(t) PROVE TypeInv'
  <2>1. pc[t] \in Running
    BY <1>16 DEF Kill, WorkerLost, SoftTimeLimit, HardTimeLimit, Running, Guarded
  <2>2. msg[t] \in Message
    BY <2>1, RunningTask DEF Running, Guarded
  <2>3. Moves(t) /\ pc'[t] \notin Located
    <3>1. CASE WorkerLost(t) \/ HardTimeLimit(t)
      BY <3>1 DEF WorkerLost, HardTimeLimit, TypeInv, TypeOK, Moves, PC, Ended, Located
    <3>2. CASE SoftTimeLimit(t)
      BY <3>2, RetryMoves DEF SoftTimeLimit, TypeInv, Located
    <3>. QED  BY <1>16, <3>1, <3>2 DEF Kill
  <2>4. OneFault(t)
    BY <1>16, <2>2, StrikeCounts DEF Kill, WorkerLost, SoftTimeLimit, HardTimeLimit, TypeInv, OneFault
  <2>5. sawEscalated' \in [Task -> BOOLEAN]
    BY <1>16 DEF Kill, WorkerLost, SoftTimeLimit, HardTimeLimit, TypeInv, TypeOK
  <2>. QED
    BY <1>16, <2>2, <2>3, <2>4, <2>5, TypeStep
    DEF Kill, WorkerLost, SoftTimeLimit, HardTimeLimit, TypeInv, TypeOK, Kept,
        brokerVars, rowVars, sendVars, handoffVars
<1>17. ASSUME NEW m \in Message, ExpireClaim(m) PROVE TypeInv'
  <2>1. faults' \in [Message -> 0..MaxFaults]
    BY <1>17, InboundAssumption DEF ExpireClaim, Bump, TypeInv, TypeOK
  <2>. QED
    BY <1>17, <2>1
    DEF ExpireClaim, TypeInv, TypeOK, brokerVars, localVars, rowVars, sendVars, handoffVars
<1>18. ASSUME NEW c \in Chat, AgentResolves(c) PROVE TypeInv'
  <2>1. conv[c] \in Doc
    BY <1>18 DEF AgentResolves, TypeInv, TypeOK
  <2>2. Resolved(conv[c]) \in Doc /\ Resolved(conv[c]) # NoDoc
    BY <2>1, DocWrites, NoDocAssumption
  <2>3. conv' \in [Chat -> Doc \cup {NoDoc}] /\ Kept
    BY <1>18, <2>2 DEF AgentResolves, TypeInv, TypeOK, Kept
  <2>4. TypeOK'
    BY <1>18, <2>3 DEF AgentResolves, inboundVars, TypeInv, TypeOK,
       brokerVars, localVars, rowVars, sendVars, handoffVars
  <2>5. (\A t \in Task : pc[t] # "idle" => msg[t] \in Message)'
    BY <1>18 DEF AgentResolves, inboundVars, TypeInv, brokerVars
  <2>6. (\A t \in Task : pc[t] \in Located => conv[ChatOf[msg[t]]] # NoDoc)'
    BY <1>18, <2>3, RunningTask DEF AgentResolves, inboundVars, TypeInv, brokerVars, Kept, Located
  <2>. QED  BY <2>4, <2>5, <2>6 DEF TypeInv
<1>19. CASE UNCHANGED vars
  BY <1>19 DEF vars, inboundVars, TypeInv, TypeOK, brokerVars, localVars, rowVars, sendVars, handoffVars
<1>. QED
  BY <1>1, <1>2, <1>3, <1>4, <1>5, <1>6, <1>7, <1>8, <1>9, <1>10, <1>11, <1>12, <1>13, <1>14,
     <1>15, <1>16, <1>17, <1>18, <1>19 DEF Next, InboundNext, Step

\* Every variable keeps its type, for every instance of the constants.
THEOREM TypeCorrect == Spec => []TypeOK
<1>1. TypeInv => TypeOK
  BY DEF TypeInv
<1>. QED  BY TypeInit, TypeNext, <1>1, PTL DEF Spec

-----------------------------------------------------------------------------
(***************************************************************************)
(* Three kinds of step, as far as claims and sends are concerned.          *)
(***************************************************************************)
\* The holder of a claim goes on inside the try block, or has raised.
Progress(t) ==
  /\ pc[t] \in Owning \ {"release"}
  /\ msg[t] \in Message
  /\ Moves(t)
  /\ msg' = msg
  /\ claims' = claims
  /\ \/ /\ faults' = faults /\ claimed' = claimed
        /\ pc'[t] \in (Owning \ {"release"}) \cup Handled
        /\ pc'[t] \in Unsent => pc[t] \in Unsent
     \/ /\ Raised(t)
        /\ OneFault(t) \/ (faults' = faults /\ pc[t] \in Unsent)

\* A task without a claim, or one that is killed and loses hold of it.
Aside(t) ==
  /\ msg[t] \in Message
  /\ Moves(t)
  /\ msg' = msg
  /\ claims' \in {claims, claims \cup {msg[t]}}
  /\ faults' = faults \/ OneFault(t)
  /\ ~ claimed'[t] /\ pc'[t] \notin Owning

Sending(t) == SendReply(t) \/ SendHolding(t)

\* The insert of the claim that succeeds.
Claims(t) ==
  /\ pc[t] = "claim"
  /\ msg[t] \notin claims
  /\ claims' = claims \cup {msg[t]}
  /\ claimed' = [claimed EXCEPT ![t] = TRUE]
  /\ pc' = [pc EXCEPT ![t] = "find"]
  /\ UNCHANGED <<msg, retries, faults, replied, held>>

LEMMA WorkProgress ==
  ASSUME TypeInv, NEW t \in Task,
         \/ FindConversation(t) \/ CreateConversation(t) \/ Touch(t) \/ LogCustomer(t)
         \/ Handle(t) \/ LogJane(t) \/ Escalate(t) \/ Notify(t)
  PROVE  Progress(t) /\ UNCHANGED <<replied, held>>
<1>. USE DEF Owning, Guarded, Unsent, Handled
<1>a. msg[t] \in Message
  BY RunningTask DEF FindConversation, CreateConversation, Touch, LogCustomer, Handle,
     LogJane, Escalate, Notify
<1>b. TypeOK
  BY DEF TypeInv
<1>1. CASE FindConversation(t)
  <2>1. CASE Goto(t, "create") \/ Goto(t, "touch")
    BY <1>1, <1>a, <1>b, <2>1, GotoMoves
    DEF FindConversation, Progress, PC, Running, brokerVars, sendVars
  <2>2. CASE Strike(t, "failed") /\ Raise(t)
    BY <1>1, <1>a, <1>b, <2>2, RaiseMoves, StrikeCounts
    DEF FindConversation, Progress, OneFault, brokerVars, sendVars
  <2>. QED  BY <1>1, <2>1, <2>2 DEF FindConversation
<1>2. CASE CreateConversation(t)
  <2>1. CASE Raise(t) /\ UNCHANGED faults
    BY <1>2, <1>a, <1>b, <2>1, RaiseMoves DEF CreateConversation, Progress, brokerVars, sendVars
  <2>2. CASE \E o \in Outcome : Finish(t, o, "touch")
    BY <1>2, <1>a, <1>b, <2>2, FinishMoves
    DEF CreateConversation, Progress, PC, Running, brokerVars, sendVars
  <2>. QED  BY <1>2, <2>1, <2>2 DEF CreateConversation
<1>3. CASE Touch(t)
  BY <1>3, <1>a, <1>b, FinishMoves DEF Touch, Progress, PC, Running, brokerVars, sendVars
<1>4. CASE LogCustomer(t)
  <2>1. PICK o \in Outcome, p \in {"quiet", "handle"} : Finish(t, o, p)
    BY <1>4 DEF LogCustomer
  <2>. QED
    BY <1>4, <1>a, <1>b, <2>1, FinishMoves
    DEF LogCustomer, Progress, PC, Running, Ended, brokerVars, sendVars
<1>5. CASE Handle(t)
  <2>1. CASE Goto(t, "sendReply") \/ Goto(t, "sendHolding")
    BY <1>5, <1>a, <1>b, <2>1, GotoMoves DEF Handle, Progress, PC, Running, brokerVars, sendVars
  <2>2. CASE Strike(t, "failed") /\ Raise(t)
    BY <1>5, <1>a, <1>b, <2>2, RaiseMoves, StrikeCounts
    DEF Handle, Progress, OneFault, brokerVars, sendVars
  <2>. QED  BY <1>5, <2>1, <2>2 DEF Handle
<1>6. CASE LogJane(t)
  <2>1. PICK o \in Outcome, p \in {"replied", "escalate"} : Finish(t, o, p)
    BY <1>6 DEF LogJane
  <2>. QED
    BY <1>6, <1>a, <1>b, <2>1, FinishMoves
    DEF LogJane, Progress, PC, Running, Ended, brokerVars, sendVars
<1>7. CASE Escalate(t)
  BY <1>7, <1>a, <1>b, FinishMoves DEF Escalate, Progress, PC, Running, brokerVars, sendVars
<1>8. CASE Notify(t)
  <2>1. CASE Goto(t, "handedOver")
    BY <1>8, <1>a, <1>b, <2>1, GotoMoves DEF Notify, Progress, PC, Ended, brokerVars, sendVars
  <2>2. CASE \E o \in Outcome : Finish(t, o, "handedOver")
    BY <1>8, <1>a, <1>b, <2>2, FinishMoves DEF Notify, Progress, PC, Ended, brokerVars, sendVars
  <2>. QED  BY <1>8, <2>1, <2>2 DEF Notify
<1>. QED  BY <1>1, <1>2, <1>3, <1>4, <1>5, <1>6, <1>7, <1>8

LEMMA SendingProgress ==
  ASSUME TypeInv, NEW t \in Task, Sending(t)
  PROVE  /\ Progress(t)
         /\ pc[t] \in Unsent /\ pc'[t] \notin Unsent
         /\ faults' = faults => pc'[t] # "release"
         /\ \/ replied' = Bump(replied, msg[t]) /\ held' = held
            \/ held' = Bump(held, msg[t]) /\ replied' = replied
            \/ UNCHANGED <<replied, held>>
<1>a. msg[t] \in Message
  BY RunningTask DEF Sending, SendReply, SendHolding
<1>1. PICK o \in Outcome, p \in {"logReply", "logHolding"} : Finish(t, o, p)
  BY DEF Sending, SendReply, SendHolding
<1>2. /\ Moves(t)
      /\ \/ o = "ok" /\ pc'[t] = p /\ claimed' = claimed /\ faults' = faults
         \/ o # "ok" /\ Raised(t) /\ OneFault(t)
  BY <1>a, <1>1, FinishMoves DEF TypeInv, PC, Running, Guarded
<1>3. OneFault(t) => faults' # faults
  BY <1>a, InboundAssumption DEF OneFault, TypeInv, TypeOK
<1>. QED
  BY <1>a, <1>2, <1>3
  DEF Sending, SendReply, SendHolding, Progress, Raised, Owning, Guarded, Unsent, brokerVars

LEMMA OthersAside ==
  ASSUME TypeInv, ClaimInv, NEW t \in Task,
         Begin(t) \/ ResolveContext(t) \/ Claim(t) \/ Kill(t)
  PROVE  (Aside(t) /\ UNCHANGED <<replied, held>>) \/ Claims(t)
<1>a. msg[t] \in Message
  BY RunningTask DEF Begin, ResolveContext, Claim, Kill, WorkerLost, SoftTimeLimit,
     HardTimeLimit, Running, Guarded
<1>b. TypeOK
  BY DEF TypeInv
<1>1. CASE Begin(t)
  <2>1. PICK p \in {"resolve", "ignored"} : Goto(t, p)
    BY <1>1 DEF Begin
  <2>2. ~ claimed[t]
    BY <1>1 DEF Begin, ClaimInv, Owning, Guarded, Handled
  <2>. QED
    BY <1>1, <1>a, <1>b, <2>1, <2>2, GotoMoves
    DEF Begin, Aside, PC, Running, Guarded, Ended, Handled, Owning, brokerVars, sendVars
<1>2. CASE ResolveContext(t)
  <2>1. ~ claimed[t]
    BY <1>2 DEF ResolveContext, ClaimInv, Owning, Guarded, Handled
  <2>2. CASE Goto(t, "claim") \/ Goto(t, "dropped")
    BY <1>2, <1>a, <1>b, <2>1, <2>2, GotoMoves
    DEF ResolveContext, Aside, PC, Running, Guarded, Ended, Handled, Owning, brokerVars, sendVars
  <2>3. CASE Strike(t, "failed") /\ Raise(t)
    BY <1>2, <1>a, <1>b, <2>1, <2>3, RaiseMoves, StrikeCounts
    DEF ResolveContext, Aside, Raised, OneFault, Guarded, Owning, brokerVars, sendVars
  <2>. QED  BY <1>2, <2>2, <2>3 DEF ResolveContext
<1>3. CASE Claim(t)
  <2>1. ~ claimed[t]
    BY <1>3 DEF Claim, ClaimInv, Owning, Guarded, Handled
  <2>2. CASE Goto(t, "duplicate") /\ UNCHANGED claims
    BY <1>3, <1>a, <1>b, <2>1, <2>2, GotoMoves
    DEF Claim, Aside, PC, Ended, Guarded, Owning, brokerVars, sendVars
  <2>3. CASE Claims(t)
    BY <2>3
  <2>4. CASE \E o \in {"failed", "lost"} :
               /\ Strike(t, o)
               /\ claims' = IF Happened(o) THEN claims \cup {msg[t]} ELSE claims
               /\ Raise(t)
    BY <1>3, <1>a, <1>b, <2>1, <2>4, RaiseMoves, StrikeCounts
    DEF Claim, Aside, Raised, OneFault, Guarded, Owning, brokerVars, sendVars
  <2>. QED  BY <1>3, <2>2, <2>3, <2>4 DEF Claim, Claims, brokerVars, sendVars
<1>4. CASE Kill(t)
  <2>1. OneFault(t)
    BY <1>4, <1>a, <1>b, StrikeCounts DEF Kill, WorkerLost, SoftTimeLimit, HardTimeLimit, OneFault
  <2>2. Moves(t) /\ pc'[t] \notin Owning /\ ~ claimed'[t]
    <3>1. CASE WorkerLost(t) \/ HardTimeLimit(t)
      BY <3>1, <1>b DEF WorkerLost, HardTimeLimit, TypeOK, Moves, PC, Ended, Owning, Guarded
    <3>2. CASE SoftTimeLimit(t)
      BY <3>2, <1>b, RetryMoves DEF SoftTimeLimit, Owning, Guarded
    <3>. QED  BY <1>4, <3>1, <3>2 DEF Kill
  <2>. QED
    BY <1>4, <1>a, <2>1, <2>2
    DEF Kill, WorkerLost, SoftTimeLimit, HardTimeLimit, Aside, brokerVars, sendVars
<1>. QED  BY <1>1, <1>2, <1>3, <1>4

-----------------------------------------------------------------------------
(***************************************************************************)
(* The claim is a lock.                                                    *)
(***************************************************************************)
LEMMA ClaimInit == Init => ClaimInv
BY DEF Init, ClaimInv, ClaimIsExclusive, Owns, Owning, Guarded

\* A task owns its claim exactly at the Owning steps.
LEMMA OwnsAt ==
  ASSUME ClaimInv, NEW t \in Task
  PROVE  Owns(t) <=> pc[t] \in Owning
BY DEF ClaimInv, Owns, Owning, Guarded, Handled

\* A step of t that enters no Owning step it was not in, and takes nobody's
\* claim away, preserves the lock.
LEMMA ClaimKept ==
  ASSUME TypeInv, ClaimInv, NEW t \in Task, Moves(t), msg' = msg, claims \subseteq claims',
         pc'[t] \in Owning => pc[t] \in Owning /\ claimed'[t],
         claimed'[t] => pc'[t] \in Owning \cup Handled
  PROVE  ClaimInv'
<1>1. (\A u \in Task : pc[u] \in Owning => claimed[u])'
  BY DEF ClaimInv, Moves
<1>2. (\A u \in Task : claimed[u] => pc[u] \in Owning \cup Handled)'
  BY DEF ClaimInv, Moves
<1>3. \A u \in Task : Owns(u)' => pc[u] \in Owning
  BY <1>1, <1>2 DEF Moves, Owns, Owning, Guarded, Handled
<1>4. ClaimIsExclusive'
  BY <1>3, OwnsAt DEF ClaimInv, ClaimIsExclusive
<1>. QED  BY <1>1, <1>2, <1>4 DEF ClaimInv

LEMMA ClaimNext == TypeInv /\ ClaimInv /\ [Next]_vars => ClaimInv'
<1>. SUFFICES ASSUME TypeInv, ClaimInv, [Next]_vars PROVE ClaimInv'
  OBVIOUS
<1>1. ASSUME NEW m \in Message, NEW t \in Task, ReceiveWebhook(m, t) PROVE ClaimInv'
  <2>1. ~ claimed[t]
    BY <1>1 DEF ReceiveWebhook, ClaimInv, Owning, Guarded, Handled
  <2>2. \A u \in Task : Owns(u)' => u # t /\ Owns(u) /\ msg'[u] = msg[u]
    BY <1>1, <2>1 DEF ReceiveWebhook, TypeInv, TypeOK, Owns, localVars
  <2>3. ClaimIsExclusive'
    BY <1>1, <2>2 DEF ReceiveWebhook, ClaimInv, ClaimIsExclusive
  <2>. QED
    BY <1>1, <2>1, <2>3
    DEF ReceiveWebhook, ClaimInv, TypeInv, TypeOK, Owning, Guarded, Handled, localVars
<1>2. ASSUME NEW t \in Task, Progress(t) PROVE ClaimInv'
  <2>1. claimed[t]
    BY <1>2 DEF Progress, ClaimInv
  <2>. QED
    BY <1>2, <2>1, ClaimKept DEF Progress, Raised, Owning
<1>3. ASSUME NEW t \in Task, Aside(t) PROVE ClaimInv'
  BY <1>3, ClaimKept DEF Aside
<1>4. ASSUME NEW t \in Task, Claims(t) PROVE ClaimInv'
  <2>1. \A u \in Task : u # t => (Owns(u)' <=> Owns(u))
    BY <1>4 DEF Claims, Owns, TypeInv, TypeOK
  <2>2. \A u \in Task : Owns(u) => msg[u] # msg[t]
    BY <1>4 DEF Claims, ClaimInv, ClaimIsExclusive
  <2>3. ClaimIsExclusive'
    BY <1>4, <2>1, <2>2 DEF Claims, ClaimInv, ClaimIsExclusive
  <2>. QED
    BY <1>4, <2>3 DEF Claims, ClaimInv, TypeInv, TypeOK, Owning, Guarded
<1>5. ASSUME NEW t \in Task, Release(t) PROVE ClaimInv'
  <2>1. Moves(t) /\ pc'[t] \in {"queued", "failed"} /\ ~ claimed'[t]
    BY <1>5, RetryMoves DEF Release, TypeInv
  <2>2. msg' = msg /\ claims \ {msg[t]} \subseteq claims'
    BY <1>5 DEF Release, brokerVars
  <2>3. \A u \in Task : Owns(u)' => u # t /\ Owns(u)
    BY <2>1 DEF Moves, Owns
  <2>4. Owns(t)
    BY <1>5, OwnsAt DEF Release, Owning
  <2>5. ClaimIsExclusive'
    BY <2>2, <2>3, <2>4 DEF ClaimInv, ClaimIsExclusive
  <2>. QED
    BY <2>1, <2>5 DEF Moves, ClaimInv, Owning, Guarded
<1>6. ASSUME NEW m \in Message, ExpireClaim(m) PROVE ClaimInv'
  BY <1>6 DEF ExpireClaim, ClaimInv, ClaimIsExclusive, Owns, brokerVars, localVars
<1>7. ASSUME NEW c \in Chat, AgentResolves(c) PROVE ClaimInv'
  BY <1>7 DEF AgentResolves, inboundVars, ClaimInv, ClaimIsExclusive, Owns, brokerVars, localVars
<1>8. CASE UNCHANGED vars
  BY <1>8 DEF vars, inboundVars, ClaimInv, ClaimIsExclusive, Owns, brokerVars, localVars
<1>. QED
  BY <1>1, <1>2, <1>3, <1>4, <1>5, <1>6, <1>7, <1>8, WorkProgress, SendingProgress, OthersAside
  DEF Next, InboundNext, Step, Sending

\* Of all the deliveries of one event, at most one is between claiming and
\* releasing, and its claim is in the database.
THEOREM LockHolds == Spec => []ClaimIsExclusive
<1>1. ClaimInv => ClaimIsExclusive
  BY DEF ClaimInv
<1>. QED  BY TypeInit, TypeNext, ClaimInit, ClaimNext, <1>1, PTL DEF Spec

-----------------------------------------------------------------------------
(***************************************************************************)
(* Every message beyond the first is paid for by a fault.                  *)
(***************************************************************************)
LEMMA SendsType == ASSUME TypeInv, NEW m \in Message PROVE Sends(m) \in Nat /\ faults[m] \in Nat
BY InboundAssumption DEF TypeInv, TypeOK, Sends

LEMMA SendInit == Init => SendInv
BY DEF Init, SendInv, SendsPaidByFaults, Sends, Unsent

\* A step that sends nothing, frees no claim, and brings t to a step before
\* the send only when t's message has its faults' worth.
LEMMA SendKept ==
  ASSUME TypeInv, SendInv, NEW t \in Task, msg[t] \in Message, Moves(t), msg' = msg,
         claims \subseteq claims', UNCHANGED <<replied, held>>,
         faults' = faults \/ OneFault(t),
         pc'[t] \in Unsent \cup {"release"} =>
           OneFault(t) \/ Sends(msg[t]) <= faults[msg[t]]
  PROVE  SendInv'
<1>1. \A m \in Message : /\ Sends(m)' = Sends(m)
                         /\ Sends(m) \in Nat /\ faults[m] \in Nat /\ faults'[m] \in Nat
                         /\ faults[m] <= faults'[m]
                         /\ m = msg[t] /\ OneFault(t) => faults'[m] = faults[m] + 1
  BY SendsType, InboundAssumption DEF Sends, OneFault, TypeInv, TypeOK
<1>2. SendsPaidByFaults'
  BY <1>1 DEF SendInv, SendsPaidByFaults
<1>3. (\A m \in Message : m \notin claims => Sends(m) <= faults[m])'
  BY <1>1 DEF SendInv
<1>4. (\A u \in Task : pc[u] \in Unsent \cup {"release"} => Sends(msg[u]) <= faults[msg[u]])'
  <2>. SUFFICES ASSUME NEW u \in Task, pc'[u] \in Unsent \cup {"release"}
                PROVE  (Sends(msg[u]) <= faults[msg[u]])'
    BY DEF SendInv
  <2>1. CASE u = t
    BY <1>1, <2>1 DEF SendInv, SendsPaidByFaults, Sends
  <2>2. CASE u # t
    <3>1. pc[u] \in Unsent \cup {"release"} /\ msg[u] \in Message
      BY <2>2 DEF Moves, TypeInv, Unsent
    <3>. QED  BY <1>1, <3>1 DEF SendInv, Sends
  <2>. QED  BY <2>1, <2>2
<1>. QED  BY <1>2, <1>3, <1>4 DEF SendInv

LEMMA SendNext == TypeInv /\ ClaimInv /\ SendInv /\ [Next]_vars => SendInv'
<1>. SUFFICES ASSUME TypeInv, ClaimInv, SendInv, [Next]_vars PROVE SendInv'
  OBVIOUS
<1>1. ASSUME NEW m \in Message, NEW t \in Task, ReceiveWebhook(m, t) PROVE SendInv'
  <2>1. \A u \in Task : pc'[u] \in Unsent \cup {"release"} => pc[u] = pc'[u] /\ msg'[u] = msg[u]
    BY <1>1 DEF ReceiveWebhook, TypeInv, TypeOK, Unsent
  <2>2. UNCHANGED <<claims, replied, held, faults>>
    BY <1>1 DEF ReceiveWebhook, sendVars
  <2>. QED  BY <2>1, <2>2 DEF SendInv, SendsPaidByFaults, Sends
<1>2. ASSUME NEW t \in Task, Progress(t), UNCHANGED <<replied, held>> PROVE SendInv'
  <2>1. pc[t] \in Unsent => Sends(msg[t]) <= faults[msg[t]]
    BY DEF SendInv
  <2>2. claimed[t]
    BY <1>2 DEF Progress, ClaimInv
  <2>3. pc'[t] \in Unsent \cup {"release"} => OneFault(t) \/ Sends(msg[t]) <= faults[msg[t]]
    BY <1>2, <2>1, <2>2 DEF Progress, Raised, Owning, Handled, Unsent
  <2>. QED  BY <1>2, <2>3, SendKept DEF Progress
<1>3. ASSUME NEW t \in Task, Sending(t) PROVE SendInv'
  <2>0. PICK m \in Message : m = msg[t]
    BY <1>3, SendingProgress DEF Progress
  <2>1. /\ Progress(t)
        /\ pc[t] \in Unsent /\ pc'[t] \notin Unsent
        /\ faults' = faults => pc'[t] # "release"
    BY <1>3, SendingProgress
  <2>2. /\ Sends(m)' \in Nat /\ Sends(m)' <= Sends(m) + 1
        /\ \A n \in Message \ {m} : Sends(n)' = Sends(n)
    <3>1. replied \in [Message -> Nat] /\ held \in [Message -> Nat]
      BY DEF TypeInv, TypeOK
    <3>2. CASE replied' = [replied EXCEPT ![m] = @ + 1] /\ held' = held
      BY <2>1, <3>1, <3>2 DEF Sends
    <3>3. CASE held' = [held EXCEPT ![m] = @ + 1] /\ replied' = replied
      BY <2>1, <3>1, <3>3 DEF Sends
    <3>4. CASE UNCHANGED <<replied, held>>
      BY <2>1, <3>1, <3>4 DEF Sends
    <3>. QED  BY <1>3, <2>0, <3>2, <3>3, <3>4, SendingProgress DEF Bump
  <2>3. /\ faults' = faults \/ OneFault(t)
        /\ OneFault(t) => faults'[m] = faults[m] + 1
        /\ \A n \in Message \ {m} : faults'[n] = faults[n]
    BY <2>0, <2>1 DEF Progress, OneFault, TypeInv, TypeOK
  <2>4. Sends(m) <= faults[m]
    BY <2>0, <2>1 DEF SendInv
  <2>5. \A n \in Message : Sends(n) \in Nat /\ faults[n] \in Nat
    BY SendsType
  <2>6. /\ Sends(m)' <= 1 + faults'[m]
        /\ pc'[t] = "release" => Sends(m)' <= faults'[m]
    BY <2>1, <2>2, <2>3, <2>4, <2>5
  <2>7. Owns(t) /\ m \in claims'
    BY <2>0, <2>1, OwnsAt DEF Progress, ClaimInv, ClaimIsExclusive
  <2>8. SendsPaidByFaults'
    <3>. SUFFICES ASSUME NEW n \in Message PROVE Sends(n)' <= 1 + faults'[n]
      BY DEF SendsPaidByFaults
    <3>1. CASE n = m
      BY <2>6, <3>1
    <3>2. CASE n # m
      BY <2>2, <2>3, <3>2 DEF SendInv, SendsPaidByFaults
    <3>. QED  BY <3>1, <3>2
  <2>9. (\A n \in Message : n \notin claims => Sends(n) <= faults[n])'
    BY <2>1, <2>2, <2>3, <2>7 DEF SendInv, Progress
  <2>10. (\A u \in Task : pc[u] \in Unsent \cup {"release"} => Sends(msg[u]) <= faults[msg[u]])'
    <3>. SUFFICES ASSUME NEW u \in Task, pc'[u] \in Unsent \cup {"release"}
                  PROVE  (Sends(msg[u]) <= faults[msg[u]])'
      BY DEF SendInv
    <3>1. CASE u = t
      BY <2>0, <2>1, <2>6, <3>1 DEF Progress, Sends
    <3>2. CASE u # t
      <4>1. pc[u] \in Unsent \cup {"release"} /\ msg'[u] = msg[u] /\ msg[u] \in Message
        BY <2>1, <3>2 DEF Progress, Moves, TypeInv, Unsent
      <4>2. Owns(u)
        BY <4>1, OwnsAt DEF Owning, Guarded, Unsent
      <4>3. msg[u] # m
        BY <2>0, <2>7, <3>2, <4>2 DEF ClaimInv, ClaimIsExclusive
      <4>. QED  BY <2>2, <2>3, <4>1, <4>3 DEF SendInv, Sends
    <3>. QED  BY <3>1, <3>2
  <2>. QED  BY <2>8, <2>9, <2>10 DEF SendInv
<1>4. ASSUME NEW t \in Task, Aside(t), UNCHANGED <<replied, held>> PROVE SendInv'
  BY <1>4, SendKept DEF Aside, Owning, Guarded, Unsent
<1>5. ASSUME NEW t \in Task, Claims(t) PROVE SendInv'
  <2>1. msg[t] \in Message
    BY <1>5, RunningTask DEF Claims
  <2>2. Moves(t)
    BY <1>5 DEF Claims, Moves, TypeInv, TypeOK, PC, Running, Guarded
  <2>3. Sends(msg[t]) <= faults[msg[t]]
    BY <1>5, <2>1 DEF Claims, SendInv
  <2>. QED  BY <1>5, <2>1, <2>2, <2>3, SendKept DEF Claims
<1>6. ASSUME NEW t \in Task, Release(t) PROVE SendInv'
  <2>1. msg[t] \in Message
    BY <1>6, RunningTask DEF Release
  <2>2. Moves(t) /\ pc'[t] \in {"queued", "failed"}
    BY <1>6, RetryMoves DEF Release, TypeInv
  <2>3. /\ \A m \in Message : Sends(m)' = Sends(m)
        /\ msg' = msg
        /\ claims \ {msg[t]} \subseteq claims'
    BY <1>6 DEF Release, Sends, sendVars, brokerVars
  <2>4. \A m \in Message : /\ faults'[m] \in Nat /\ faults[m] \in Nat /\ Sends(m) \in Nat
                           /\ faults[m] <= faults'[m]
    BY <1>6, <2>1, StrikeCounts, SendsType, InboundAssumption DEF Release, TypeInv, TypeOK
  <2>5. Sends(msg[t]) <= faults[msg[t]]
    BY <1>6 DEF Release, SendInv
  <2>6. SendsPaidByFaults'
    BY <2>3, <2>4 DEF SendInv, SendsPaidByFaults
  <2>7. (\A m \in Message : m \notin claims => Sends(m) <= faults[m])'
    BY <2>3, <2>4, <2>5 DEF SendInv
  <2>8. (\A u \in Task : pc[u] \in Unsent \cup {"release"} => Sends(msg[u]) <= faults[msg[u]])'
    <3>. SUFFICES ASSUME NEW u \in Task, pc'[u] \in Unsent \cup {"release"}
                  PROVE  (Sends(msg[u]) <= faults[msg[u]])'
      BY DEF SendInv
    <3>1. u # t /\ pc[u] \in Unsent \cup {"release"} /\ msg[u] \in Message /\ msg'[u] = msg[u]
      BY <2>2, <2>3 DEF Moves, TypeInv, Unsent
    <3>. QED  BY <2>3, <2>4, <3>1 DEF SendInv, Sends
  <2>. QED  BY <2>6, <2>7, <2>8 DEF SendInv
<1>7. ASSUME NEW m \in Message, ExpireClaim(m) PROVE SendInv'
  <2>1. UNCHANGED <<pc, msg, replied, held>> /\ claims \ {m} \subseteq claims'
    BY <1>7 DEF ExpireClaim, brokerVars, sendVars
  <2>2. \A n \in Message : /\ faults'[n] \in Nat /\ faults[n] \in Nat /\ Sends(n) \in Nat
                           /\ faults[n] <= faults'[n]
                           /\ n = m => faults'[n] = faults[n] + 1
    BY <1>7, SendsType DEF ExpireClaim, Bump, TypeInv, TypeOK
  <2>3. \A n \in Message : Sends(n)' = Sends(n)
    BY <2>1 DEF Sends
  <2>4. SendsPaidByFaults' /\ (\A n \in Message : n \notin claims => Sends(n) <= faults[n])'
    BY <2>1, <2>2, <2>3 DEF SendInv, SendsPaidByFaults
  <2>5. (\A u \in Task : pc[u] \in Unsent \cup {"release"} => Sends(msg[u]) <= faults[msg[u]])'
    <3>. SUFFICES ASSUME NEW u \in Task, pc[u] \in Unsent \cup {"release"}
                  PROVE  (Sends(msg[u]) <= faults[msg[u]])'
      BY <2>1 DEF SendInv
    <3>1. msg[u] \in Message /\ msg'[u] = msg[u]
      BY <2>1 DEF TypeInv, Unsent
    <3>. QED  BY <2>2, <2>3, <3>1 DEF SendInv, Sends
  <2>. QED  BY <2>4, <2>5 DEF SendInv
<1>8. ASSUME NEW c \in Chat, AgentResolves(c) PROVE SendInv'
  BY <1>8 DEF AgentResolves, inboundVars, SendInv, SendsPaidByFaults, Sends, brokerVars, sendVars
<1>9. CASE UNCHANGED vars
  BY <1>9 DEF vars, inboundVars, SendInv, SendsPaidByFaults, Sends, brokerVars, sendVars
<1>. QED
  BY <1>1, <1>2, <1>3, <1>4, <1>5, <1>6, <1>7, <1>8, <1>9, WorkProgress, OthersAside
  DEF Next, InboundNext, Step, Sending

\* Redeliveries alone never make Jane answer twice, and no fault makes her
\* answer twice over: at most one message per question and fault, plus one.
THEOREM SendsArePaid == Spec => []SendsPaidByFaults
<1>1. SendInv => SendsPaidByFaults
  BY DEF SendInv
<1>. QED
  BY TypeInit, TypeNext, ClaimInit, ClaimNext, SendInit, SendNext, <1>1, PTL DEF Spec

-----------------------------------------------------------------------------
(***************************************************************************)
(* The pipeline implements OnceLedger: each of its steps is a step of the  *)
(* ledger of the messages, or leaves the ledger alone.                     *)
(***************************************************************************)
\* What the refinement mapping says of holders and out.
Holders == [m \in Message |-> {t \in Task : Owns(t) /\ msg[t] = m}]
Out == [m \in Message |-> Sends(m)]

\* The faults of message m stay, or one is added.
Paid(m) == faults' = faults \/ faults' = [faults EXCEPT ![m] = @ + 1]

-----------------------------------------------------------------------------
(***************************************************************************)
(* What the kinds of step do to the holders and to the deliveries.         *)
(***************************************************************************)
LEMMA HoldersStay ==
  ASSUME \A u \in Task : Owns(u)' <=> Owns(u),
         \A u \in Task : Owns(u) => msg'[u] = msg[u]
  PROVE  Holders' = Holders
<1>. SUFFICES ASSUME NEW m \in Message
              PROVE  {u \in Task : Owns(u)' /\ msg'[u] = m} = {u \in Task : Owns(u) /\ msg[u] = m}
  BY DEF Holders
<1>. QED  OBVIOUS

\* Task t, the holder of its message, lets go of it.
LEMMA HolderLeaves ==
  ASSUME ClaimInv, NEW t \in Task, msg[t] \in Message, Owns(t), ~ Owns(t)',
         \A u \in Task : u # t => (Owns(u)' <=> Owns(u)), msg' = msg
  PROVE  /\ Holders[msg[t]] # {}
         /\ Holders' = [Holders EXCEPT ![msg[t]] = {}]
<1>1. t \in Holders[msg[t]]
  BY DEF Holders
<1>2. ASSUME NEW m \in Message
      PROVE  Holders'[m] = IF m = msg[t] THEN {} ELSE Holders[m]
  <2>1. CASE m = msg[t]
    <3>1. ASSUME NEW u \in Task, Owns(u)', msg'[u] = m PROVE FALSE
      BY <2>1, <3>1 DEF ClaimInv, ClaimIsExclusive
    <3>. QED  BY <2>1, <3>1 DEF Holders
  <2>2. CASE m # msg[t]
    BY <2>2 DEF Holders
  <2>. QED  BY <2>1, <2>2
<1>3. Holders' = [m \in Message |-> Holders'[m]]
  BY DEF Holders
<1>. QED  BY <1>1, <1>2, <1>3 DEF Holders

\* Task t takes the claim of a message that nobody holds.
LEMMA HolderTakes ==
  ASSUME ClaimInv, NEW t \in Task, msg[t] \in Message, msg[t] \notin claims, Owns(t)',
         \A u \in Task : u # t => (Owns(u)' <=> Owns(u)), msg' = msg
  PROVE  Holders' = [Holders EXCEPT ![msg[t]] = {t}]
<1>1. \A u \in Task : Owns(u) => msg[u] # msg[t]
  BY DEF ClaimInv, ClaimIsExclusive
<1>2. ASSUME NEW m \in Message
      PROVE  Holders'[m] = IF m = msg[t] THEN {t} ELSE Holders[m]
  <2>1. CASE m = msg[t]
    BY <1>1, <2>1 DEF Holders
  <2>2. CASE m # msg[t]
    BY <1>1, <2>2 DEF Holders
  <2>. QED  BY <2>1, <2>2
<1>3. Holders' = [m \in Message |-> Holders'[m]]
  BY DEF Holders
<1>. QED  BY <1>2, <1>3 DEF Holders

LEMMA OutStays == UNCHANGED <<replied, held>> => Out' = Out
BY DEF Out, Sends

-----------------------------------------------------------------------------
(***************************************************************************)
(* The steps of the ledger, in terms of this module.                       *)
(***************************************************************************)
LEMMA LedgerSteps ==
  ASSUME NEW m \in Message, Paid(m),
         \/ claims' = claims /\ Holders' = Holders /\ Out' = Out
         \/ /\ m \notin claims /\ claims' = claims \cup {m} /\ Out' = Out
            /\ \/ \E t \in Task : Holders' = [Holders EXCEPT ![m] = {t}]
               \/ Holders' = Holders
         \/ /\ claims' = claims /\ Holders' = Holders
            /\ Holders[m] # {} /\ Out[m] <= faults[m]
            /\ Out' = [Out EXCEPT ![m] = @ + 1]
         \/ /\ claims' = claims /\ Out' = Out
            /\ Holders[m] # {} /\ Holders' = [Holders EXCEPT ![m] = {}]
         \/ /\ m \in claims /\ claims' = claims \ {m} /\ Out' = Out
            /\ Out[m] <= faults'[m] /\ Holders' = [Holders EXCEPT ![m] = {}]
  PROVE  Ledger!Next
<1>1. Ledger!MayPay(m)
  BY DEF Paid, Ledger!MayPay
<1>. QED
  BY <1>1 DEF Ledger!Next, Ledger!Take, Ledger!Orphan, Ledger!Deliver, Ledger!Leave,
     Ledger!Free, Holders, Out

LEMMA LedgerInit == Init => Ledger!Init
BY DEF Init, Ledger!Init, Sends, Owns, Guarded

LEMMA LedgerNext ==
  TypeInv /\ ClaimInv /\ ClaimInv' /\ SendInv /\ [Next]_vars => [Ledger!Next]_Ledger!vars
<1>. SUFFICES ASSUME TypeInv, ClaimInv, ClaimInv', SendInv, [Next]_vars
              PROVE  [Ledger!Next]_Ledger!vars
  OBVIOUS
<1>a. \A t \in Task : /\ Owns(t) <=> pc[t] \in Owning
                      /\ Owns(t)' <=> pc'[t] \in Owning
  BY OwnsAt DEF ClaimInv, Owns, Owning, Guarded, Handled
<1>b. ASSUME UNCHANGED <<claims, Holders, Out, faults>> PROVE UNCHANGED Ledger!vars
  BY <1>b DEF Ledger!vars, Holders, Out
<1>1. ASSUME NEW m \in Message, NEW t \in Task, ReceiveWebhook(m, t)
      PROVE  UNCHANGED Ledger!vars
  <2>1. \A u \in Task : Owns(u)' <=> Owns(u)
    BY <1>1, <1>a DEF ReceiveWebhook, TypeInv, TypeOK, Owning, Guarded
  <2>2. \A u \in Task : Owns(u) => msg'[u] = msg[u]
    BY <1>1, <1>a DEF ReceiveWebhook, TypeInv, TypeOK, Owning, Guarded
  <2>. QED  BY <1>1, <1>b, <2>1, <2>2, HoldersStay, OutStays DEF ReceiveWebhook, sendVars
<1>2. ASSUME NEW t \in Task, Progress(t), UNCHANGED <<replied, held>>
      PROVE  Ledger!Next
  <2>1. Paid(msg[t]) /\ \A u \in Task : u # t => (Owns(u)' <=> Owns(u))
    BY <1>2, <1>a DEF Progress, Paid, OneFault, Moves
  <2>2. Owns(t)
    BY <1>2, <1>a DEF Progress
  <2>3. CASE Owns(t)'
    BY <1>2, <2>1, <2>2, <2>3, HoldersStay, OutStays, LedgerSteps DEF Progress
  <2>4. CASE ~ Owns(t)'
    BY <1>2, <2>1, <2>2, <2>4, HolderLeaves, OutStays, LedgerSteps DEF Progress
  <2>. QED  BY <2>3, <2>4
<1>3. ASSUME NEW t \in Task, Sending(t) PROVE Ledger!Next
  <2>1. Progress(t) /\ pc[t] \in Unsent
    BY <1>3, SendingProgress
  <2>2. Owns(t) /\ Owns(t)'
    <3>1. pc'[t] \in {"logReply", "logHolding", "release"}
      <4>1. PICK o \in Outcome, p \in {"logReply", "logHolding"} : Finish(t, o, p)
        BY <1>3 DEF Sending, SendReply, SendHolding
      <4>2. claimed[t]
        BY <2>1 DEF Progress, ClaimInv
      <4>. QED
        BY <2>1, <4>1, <4>2, FinishMoves DEF Progress, TypeInv, PC, Running, Guarded, Raised
    <3>. QED  BY <1>a, <2>1, <3>1 DEF Progress, Owning, Guarded
  <2>3. Paid(msg[t]) /\ \A u \in Task : Owns(u)' <=> Owns(u)
    BY <2>1, <2>2, <1>a DEF Progress, Paid, OneFault, Moves
  <2>4. Holders' = Holders /\ Holders[msg[t]] # {}
    <3>1. t \in Holders[msg[t]]
      BY <2>1, <2>2 DEF Progress, Holders
    <3>. QED  BY <2>1, <2>3, <3>1, HoldersStay DEF Progress
  <2>5. Out[msg[t]] <= faults[msg[t]]
    BY <2>1 DEF Out, SendInv, Progress
  <2>6. Out' = [Out EXCEPT ![msg[t]] = @ + 1] \/ Out' = Out
    <3>1. PICK m \in Message : m = msg[t]
      BY <2>1 DEF Progress
    <3>2. replied \in [Message -> Nat] /\ held \in [Message -> Nat]
      BY DEF TypeInv, TypeOK
    <3>3. CASE replied' = Bump(replied, m) /\ held' = held
      BY <3>1, <3>2, <3>3 DEF Out, Sends, Bump
    <3>4. CASE held' = Bump(held, m) /\ replied' = replied
      BY <3>1, <3>2, <3>4 DEF Out, Sends, Bump
    <3>5. CASE UNCHANGED <<replied, held>>
      BY <3>5, OutStays
    <3>. QED  BY <1>3, <3>1, <3>3, <3>4, <3>5, SendingProgress
  <2>. QED  BY <2>1, <2>3, <2>4, <2>5, <2>6, LedgerSteps DEF Progress
<1>4. ASSUME NEW t \in Task, Aside(t), UNCHANGED <<replied, held>> PROVE Ledger!Next
  <2>1. Paid(msg[t]) /\ ~ Owns(t)' /\ \A u \in Task : u # t => (Owns(u)' <=> Owns(u))
    BY <1>4, <1>a DEF Aside, Paid, OneFault, Moves
  <2>2. CASE Owns(t)
    <3>1. claims' = claims
      BY <1>4, <2>2 DEF Aside, ClaimInv, ClaimIsExclusive
    <3>. QED
      BY <1>4, <2>1, <2>2, <3>1, HolderLeaves, OutStays, LedgerSteps DEF Aside
  <2>3. CASE ~ Owns(t)
    <3>1. Holders' = Holders
      BY <1>4, <2>1, <2>3, HoldersStay DEF Aside
    <3>. QED  BY <1>4, <2>1, <3>1, OutStays, LedgerSteps DEF Aside
  <2>. QED  BY <2>2, <2>3
<1>5. ASSUME NEW t \in Task, Claims(t) PROVE Ledger!Next
  <2>1. msg[t] \in Message
    BY <1>5, RunningTask DEF Claims
  <2>2. Owns(t)' /\ \A u \in Task : u # t => (Owns(u)' <=> Owns(u))
    BY <1>5, <1>a DEF Claims, TypeInv, TypeOK, Owning, Guarded
  <2>. QED
    BY <1>5, <2>1, <2>2, HolderTakes, OutStays, LedgerSteps DEF Claims, Paid
<1>6. ASSUME NEW t \in Task, Release(t) PROVE Ledger!Next
  <2>1. msg[t] \in Message
    BY <1>6, RunningTask DEF Release
  <2>2. Moves(t) /\ pc'[t] \in {"queued", "failed"}
    BY <1>6, RetryMoves DEF Release, TypeInv
  <2>3. Owns(t) /\ ~ Owns(t)' /\ \A u \in Task : u # t => (Owns(u)' <=> Owns(u))
    BY <1>6, <1>a, <2>2 DEF Release, Moves, Owning, Guarded
  <2>4. msg' = msg /\ msg[t] \in claims /\ claims' \in {claims, claims \ {msg[t]}}
    BY <1>6, <2>3 DEF Release, brokerVars, ClaimInv, ClaimIsExclusive
  <2>5. Paid(msg[t]) /\ Out[msg[t]] <= faults'[msg[t]]
    <3>1. Sends(msg[t]) <= faults[msg[t]]
      BY <1>6 DEF Release, SendInv
    <3>2. Sends(msg[t]) \in Nat /\ faults[msg[t]] \in Nat
      BY <2>1, SendsType
    <3>3. faults' = faults \/ faults' = [faults EXCEPT ![msg[t]] = @ + 1]
      BY <1>6 DEF Release, Strike
    <3>4. faults[msg[t]] <= faults'[msg[t]]
      BY <2>1, <3>2, <3>3 DEF TypeInv, TypeOK
    <3>5. faults'[msg[t]] \in Nat
      BY <2>1, <3>2, <3>3 DEF TypeInv, TypeOK
    <3>. QED  BY <2>1, <3>1, <3>2, <3>3, <3>4, <3>5 DEF Paid, Out
  <2>6. Out' = Out
    BY <1>6, OutStays DEF Release, sendVars
  <2>7. /\ Holders[msg[t]] # {}
        /\ Holders' = [Holders EXCEPT ![msg[t]] = {}]
    BY <2>1, <2>3, <2>4, HolderLeaves
  <2>8. CASE claims' = claims
    BY <2>1, <2>5, <2>6, <2>7, <2>8, LedgerSteps
  <2>9. CASE claims' = claims \ {msg[t]}
    BY <2>1, <2>4, <2>5, <2>6, <2>7, <2>9, LedgerSteps
  <2>. QED  BY <2>4, <2>8, <2>9
<1>7. ASSUME NEW m \in Message, ExpireClaim(m) PROVE Ledger!Next
  <2>1. Holders' = Holders
    BY <1>7, HoldersStay DEF ExpireClaim, Owns, brokerVars, localVars
  <2>2. Holders[m] = {}
    BY <1>7 DEF ExpireClaim, Holders
  <2>3. Holders' = [Holders EXCEPT ![m] = {}]
    BY <2>1, <2>2 DEF Holders
  <2>4. Sends(m) \in Nat /\ faults[m] \in Nat /\ Sends(m) <= 1 + faults[m]
    BY SendsType DEF SendInv, SendsPaidByFaults
  <2>5. faults'[m] = faults[m] + 1
    BY <1>7 DEF ExpireClaim, Bump, TypeInv, TypeOK
  <2>6. Paid(m) /\ Out[m] <= faults'[m]
    BY <1>7, <2>4, <2>5 DEF ExpireClaim, Bump, Paid, Out
  <2>. QED  BY <1>7, <2>3, <2>6, OutStays, LedgerSteps DEF ExpireClaim, sendVars
<1>8. ASSUME NEW c \in Chat, AgentResolves(c) PROVE UNCHANGED Ledger!vars
  BY <1>8, <1>b, HoldersStay, OutStays
  DEF AgentResolves, inboundVars, brokerVars, sendVars, localVars, Owns
<1>9. CASE UNCHANGED vars
  BY <1>9, <1>b, HoldersStay, OutStays
  DEF vars, inboundVars, brokerVars, sendVars, localVars, Owns
<1>. QED
  BY <1>1, <1>2, <1>3, <1>4, <1>5, <1>6, <1>7, <1>8, <1>9, WorkProgress, OthersAside
  DEF Next, InboundNext, Step, Sending

\* The inbound pipeline implements the ledger: only the delivery that holds the
\* claim of a message sends for it, and a claim goes away only when every message
\* sent so far is accounted for by a fault.
THEOREM PipelineKeepsLedger == Spec => KeepsLedger
<1>1. TypeInv /\ ClaimInv /\ ClaimInv' /\ SendInv /\ [Next]_vars => [Ledger!Next]_Ledger!vars
  BY LedgerNext
<1>. QED
  BY TypeInit, TypeNext, ClaimInit, ClaimNext, SendInit, SendNext, LedgerInit, <1>1, PTL
  DEF Spec, KeepsLedger, Ledger!Spec

===============================================================================
