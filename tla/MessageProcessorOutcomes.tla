------------------------ MODULE MessageProcessorOutcomes -----------------------
(***************************************************************************)
(* What the customer, the agent and the brand can rely on after a message  *)
(* has gone through the pipeline: the transcript, the escalation e-mail,   *)
(* the meaning of "duplicate", and Jane's silence.  Like the theorems of   *)
(* MessageProcessorProofs, for every instance of the constants; two of     *)
(* them under an assumption on those constants, which the statement names. *)
(***************************************************************************)
EXTENDS MessageProcessorProofs

-----------------------------------------------------------------------------
(***************************************************************************)
(* The steps once more, by where they lead and what they leave behind.     *)
(***************************************************************************)
\* The holder of a claim before and after the customer's row is written.
Unlogged == {"find", "create", "touch", "logCustomer"}
Logged == {"handle", "sendReply", "logReply", "sendHolding", "logHolding",
           "escalate", "notify"}

\* The steps that write the row of what was just sent.
Recording == {"logReply", "logHolding"}

\* A fault has struck t, which falls out of the try block or off its worker.
Fell(t) == OneFault(t) /\ pc'[t] \in {"release", "queued", "failed", "killed"}

\* What the writes of one task leave alone whatever they are.
Works(t) == /\ msg[t] \in Message
            /\ Moves(t)
            /\ msg' = msg

\* A step of t that writes no row, sends nothing and hands nothing over.
Leaves(t) ==
  /\ Works(t)
  /\ claims \subseteq claims'
  /\ UNCHANGED <<rowVars, sendVars, escalations, notified>>
  /\ \/ Fell(t)
     \/ /\ faults' = faults
        /\ pc[t] \notin Owning
        /\ pc'[t] \in Handled \cup {"duplicate", "claim", "resolve"}
     \/ /\ faults' = faults
        /\ msg[t] \notin claims
        /\ pc[t] = "claim" /\ pc'[t] = "find"
     \/ /\ faults' = faults
        /\ pc[t] \in Unlogged /\ pc'[t] \in Unlogged \cup {"release"}
     \/ /\ faults' = faults
        /\ pc[t] = "handle" /\ pc'[t] \in {"sendReply", "sendHolding"}

\* A kill or a time limit is a fault that takes the task off its step.
LEMMA KillFalls ==
  ASSUME TypeInv, NEW t \in Task, Kill(t)
  PROVE  Works(t) /\ Fell(t)
<1>1. msg[t] \in Message
  BY RunningTask DEF Kill, WorkerLost, SoftTimeLimit, HardTimeLimit, Running, Guarded
<1>2. OneFault(t)
  BY <1>1, StrikeCounts
  DEF Kill, WorkerLost, SoftTimeLimit, HardTimeLimit, OneFault, TypeInv
<1>3. Moves(t) /\ pc'[t] \in {"queued", "failed", "killed"}
  <2>1. CASE WorkerLost(t) \/ HardTimeLimit(t)
    BY <2>1 DEF WorkerLost, HardTimeLimit, TypeInv, TypeOK, Moves, PC, Ended
  <2>2. CASE SoftTimeLimit(t)
    BY <2>2, RetryMoves DEF SoftTimeLimit, TypeInv
  <2>. QED  BY <2>1, <2>2 DEF Kill
<1>4. msg' = msg
  BY DEF Kill, WorkerLost, SoftTimeLimit, HardTimeLimit, brokerVars
<1>. QED  BY <1>1, <1>2, <1>3, <1>4 DEF Works, Fell

\* An exception that a fault raised.
LEMMA RaiseFalls ==
  ASSUME TypeInv, NEW t \in Task, msg[t] \in Message, NEW kind, Strike(t, kind), Raise(t)
  PROVE  Moves(t) /\ Fell(t)
BY RaiseMoves, StrikeCounts DEF TypeInv, Raised, Fell, OneFault

\* A step of the try block ends as it should, or its task falls.
LEMMA FinishFalls ==
  ASSUME TypeInv, NEW t \in Task, msg[t] \in Message, NEW o, NEW p \in PC, Finish(t, o, p)
  PROVE  /\ Moves(t)
         /\ \/ o = "ok" /\ pc'[t] = p /\ faults' = faults
            \/ o # "ok" /\ Fell(t)
BY FinishMoves DEF TypeInv, Raised, Fell

\* The steps that leave nothing behind.
LEMMA LeavingSteps ==
  ASSUME TypeInv, ClaimInv, NEW t \in Task,
         \/ Begin(t) \/ ResolveContext(t) \/ Claim(t) \/ FindConversation(t)
         \/ CreateConversation(t) \/ Touch(t) \/ Handle(t) \/ Kill(t)
  PROVE  Leaves(t)
<1>. USE DEF Unlogged, Handled, handoffVars
<1>a. msg[t] \in Message
  BY RunningTask DEF Begin, ResolveContext, Claim, FindConversation, CreateConversation,
     Touch, Handle, Kill, WorkerLost, SoftTimeLimit, HardTimeLimit, Running, Guarded
<1>b. TypeOK
  BY DEF TypeInv
<1>1. CASE Begin(t)
  <2>1. PICK p \in {"resolve", "ignored"} : Goto(t, p)
    BY <1>1 DEF Begin
  <2>2. p \in PC
    BY DEF PC, Running, Ended
  <2>3. Moves(t) /\ pc'[t] = p /\ faults' = faults
    BY <1>b, <2>1, <2>2, GotoMoves
  <2>. QED
    BY <1>1, <1>a, <2>3 DEF Begin, Leaves, Works, Owning, Guarded, brokerVars
<1>2. CASE ResolveContext(t)
  <2>1. CASE Goto(t, "claim") \/ Goto(t, "dropped")
    <3>1. PICK p \in {"claim", "dropped"} : Goto(t, p)
      BY <2>1
    <3>2. p \in PC
      BY DEF PC, Running, Guarded, Ended
    <3>3. Moves(t) /\ pc'[t] = p /\ faults' = faults
      BY <1>b, <3>1, <3>2, GotoMoves
    <3>. QED
      BY <1>2, <1>a, <3>3 DEF ResolveContext, Leaves, Works, Owning, Guarded, brokerVars
  <2>2. CASE Strike(t, "failed") /\ Raise(t)
    BY <1>2, <1>a, <2>2, RaiseFalls DEF ResolveContext, Leaves, Works, brokerVars
  <2>. QED  BY <1>2, <2>1, <2>2 DEF ResolveContext
<1>3. CASE Claim(t)
  <2>1. CASE Goto(t, "duplicate") /\ UNCHANGED claims
    <3>1. "duplicate" \in PC
      BY DEF PC, Ended
    <3>2. Moves(t) /\ pc'[t] = "duplicate" /\ faults' = faults
      BY <1>b, <2>1, <3>1, GotoMoves
    <3>. QED
      BY <1>3, <1>a, <2>1, <3>2 DEF Claim, Leaves, Works, Owning, Guarded, brokerVars
  <2>2. CASE /\ msg[t] \notin claims /\ claims' = claims \cup {msg[t]}
             /\ claimed' = [claimed EXCEPT ![t] = TRUE]
             /\ pc' = [pc EXCEPT ![t] = "find"]
             /\ UNCHANGED <<retries, faults>>
    <3>1. Moves(t) /\ pc'[t] = "find"
      BY <1>b, <2>2 DEF TypeOK, Moves, PC, Running, Guarded
    <3>. QED  BY <1>3, <1>a, <2>2, <3>1 DEF Claim, Leaves, Works, brokerVars
  <2>3. CASE \E o \in {"failed", "lost"} :
               /\ Strike(t, o)
               /\ claims' = IF Happened(o) THEN claims \cup {msg[t]} ELSE claims
               /\ Raise(t)
    BY <1>3, <1>a, <2>3, RaiseFalls DEF Claim, Leaves, Works, brokerVars
  <2>. QED  BY <1>3, <2>1, <2>2, <2>3 DEF Claim
<1>4. CASE FindConversation(t)
  <2>1. CASE Goto(t, "create") \/ Goto(t, "touch")
    <3>1. PICK p \in {"create", "touch"} : Goto(t, p)
      BY <2>1
    <3>2. p \in PC
      BY DEF PC, Running, Guarded
    <3>3. Moves(t) /\ pc'[t] = p /\ faults' = faults
      BY <1>b, <3>1, <3>2, GotoMoves
    <3>. QED  BY <1>4, <1>a, <3>3 DEF FindConversation, Leaves, Works, brokerVars
  <2>2. CASE Strike(t, "failed") /\ Raise(t)
    BY <1>4, <1>a, <2>2, RaiseFalls DEF FindConversation, Leaves, Works, brokerVars
  <2>. QED  BY <1>4, <2>1, <2>2 DEF FindConversation
<1>5. CASE CreateConversation(t)
  <2>1. CASE Raise(t) /\ UNCHANGED faults
    <3>1. claimed[t]
      BY <1>5 DEF CreateConversation, ClaimInv, Owning, Guarded
    <3>2. Moves(t) /\ pc'[t] = "release"
      BY <1>b, <2>1, <3>1, RaiseMoves DEF Raised
    <3>. QED  BY <1>5, <1>a, <2>1, <3>2 DEF CreateConversation, Leaves, Works, brokerVars
  <2>2. CASE \E o \in Outcome : Finish(t, o, "touch")
    <3>1. "touch" \in PC
      BY DEF PC, Running, Guarded
    <3>2. Moves(t) /\ ((pc'[t] = "touch" /\ faults' = faults) \/ Fell(t))
      BY <1>a, <2>2, <3>1, FinishFalls
    <3>. QED  BY <1>5, <1>a, <3>2 DEF CreateConversation, Leaves, Works, brokerVars
  <2>. QED  BY <1>5, <2>1, <2>2 DEF CreateConversation
<1>6. CASE Touch(t)
  <2>1. "logCustomer" \in PC
    BY DEF PC, Running, Guarded
  <2>2. Moves(t) /\ ((pc'[t] = "logCustomer" /\ faults' = faults) \/ Fell(t))
    BY <1>6, <1>a, <2>1, FinishFalls DEF Touch
  <2>. QED  BY <1>6, <1>a, <2>2 DEF Touch, Leaves, Works, brokerVars
<1>7. CASE Handle(t)
  <2>1. CASE Goto(t, "sendReply") \/ Goto(t, "sendHolding")
    <3>1. PICK p \in {"sendReply", "sendHolding"} : Goto(t, p)
      BY <2>1
    <3>2. p \in PC
      BY DEF PC, Running, Guarded
    <3>3. Moves(t) /\ pc'[t] = p /\ faults' = faults
      BY <1>b, <3>1, <3>2, GotoMoves
    <3>. QED  BY <1>7, <1>a, <3>3 DEF Handle, Leaves, Works, brokerVars
  <2>2. CASE Strike(t, "failed") /\ Raise(t)
    BY <1>7, <1>a, <2>2, RaiseFalls DEF Handle, Leaves, Works, brokerVars
  <2>. QED  BY <1>7, <2>1, <2>2 DEF Handle
<1>8. CASE Kill(t)
  BY <1>8, KillFalls
  DEF Kill, WorkerLost, SoftTimeLimit, HardTimeLimit, Leaves
<1>. QED  BY <1>1, <1>2, <1>3, <1>4, <1>5, <1>6, <1>7, <1>8

\* The five steps that leave something behind, and the release of the claim.
LEMMA LogCustomerWrites ==
  ASSUME TypeInv, NEW t \in Task, LogCustomer(t)
  PROVE  /\ Works(t)
         /\ UNCHANGED <<claims, janeRows, sendVars, escalations, notified>>
         /\ \/ /\ faults' = faults
               /\ pc'[t] \in {"quiet", "handle"}
               /\ customerRows' = Bump(customerRows, msg[t])
            \/ /\ Fell(t)
               /\ customerRows' \in {customerRows, Bump(customerRows, msg[t])}
<1>1. msg[t] \in Message
  BY RunningTask DEF LogCustomer
<1>2. PICK o \in Outcome :
        /\ Finish(t, o, IF sawEscalated[t] THEN "quiet" ELSE "handle")
        /\ customerRows' = IF Happened(o) THEN Bump(customerRows, msg[t]) ELSE customerRows
  BY DEF LogCustomer
<1>3. PICK p \in {"quiet", "handle"} : Finish(t, o, p)
  BY <1>2
<1>4. p \in PC
  BY DEF PC, Running, Guarded, Ended, Handled
<1>. QED
  BY <1>1, <1>2, <1>3, <1>4, FinishFalls DEF LogCustomer, Works, Happened, brokerVars, handoffVars

LEMMA SendReplyWrites ==
  ASSUME TypeInv, NEW t \in Task, SendReply(t)
  PROVE  /\ Works(t)
         /\ UNCHANGED <<claims, rowVars, held, escalations, notified>>
         /\ \/ /\ faults' = faults
               /\ pc'[t] = "logReply"
               /\ replied' = Bump(replied, msg[t])
            \/ /\ Fell(t)
               /\ replied' \in {replied, Bump(replied, msg[t])}
<1>1. msg[t] \in Message
  BY RunningTask DEF SendReply
<1>2. "logReply" \in PC
  BY DEF PC, Running, Guarded
<1>. QED
  BY <1>1, <1>2, FinishFalls DEF SendReply, Works, Happened, brokerVars, handoffVars

LEMMA SendHoldingWrites ==
  ASSUME TypeInv, NEW t \in Task, SendHolding(t)
  PROVE  /\ Works(t)
         /\ UNCHANGED <<claims, rowVars, replied, escalations, notified>>
         /\ \/ /\ faults' = faults
               /\ pc'[t] = "logHolding"
               /\ held' = Bump(held, msg[t])
            \/ /\ Fell(t)
               /\ held' \in {held, Bump(held, msg[t])}
<1>1. msg[t] \in Message
  BY RunningTask DEF SendHolding
<1>2. "logHolding" \in PC
  BY DEF PC, Running, Guarded
<1>. QED
  BY <1>1, <1>2, FinishFalls DEF SendHolding, Works, Happened, brokerVars, handoffVars

LEMMA LogJaneWrites ==
  ASSUME TypeInv, NEW t \in Task, LogJane(t)
  PROVE  /\ Works(t)
         /\ UNCHANGED <<claims, customerRows, sendVars, escalations, notified>>
         /\ \/ /\ faults' = faults
               /\ pc'[t] = IF pc[t] = "logReply" THEN "replied" ELSE "escalate"
               /\ janeRows' = Bump(janeRows, msg[t])
            \/ /\ Fell(t)
               /\ janeRows' \in {janeRows, Bump(janeRows, msg[t])}
<1>1. msg[t] \in Message
  BY RunningTask DEF LogJane
<1>2. (IF pc[t] = "logReply" THEN "replied" ELSE "escalate") \in PC
  BY DEF PC, Running, Guarded, Ended, Handled
<1>. QED
  BY <1>1, <1>2, FinishFalls DEF LogJane, Works, Happened, brokerVars, handoffVars

LEMMA EscalateWrites ==
  ASSUME TypeInv, NEW t \in Task, Escalate(t)
  PROVE  /\ Works(t)
         /\ UNCHANGED <<claims, rowVars, sendVars, notified>>
         /\ \/ /\ faults' = faults
               /\ pc'[t] = "notify"
               /\ escalations' = escalations \cup {msg[t]}
            \/ /\ Fell(t)
               /\ escalations' \in {escalations, escalations \cup {msg[t]}}
<1>1. msg[t] \in Message
  BY RunningTask DEF Escalate
<1>2. "notify" \in PC
  BY DEF PC, Running, Guarded
<1>. QED
  BY <1>1, <1>2, FinishFalls DEF Escalate, Works, Happened, brokerVars, handoffVars

LEMMA NotifyWrites ==
  ASSUME TypeInv, NEW t \in Task, Notify(t)
  PROVE  /\ Works(t)
         /\ UNCHANGED <<claims, rowVars, sendVars, escalations>>
         /\ \/ /\ faults' = faults
               /\ pc'[t] = "handedOver"
               /\ IF ChatOf[msg[t]] \in HasInbox THEN notified' = notified \cup {msg[t]}
                                                 ELSE notified' = notified
            \/ /\ Fell(t)
               /\ notified' \in {notified, notified \cup {msg[t]}}
<1>1. msg[t] \in Message
  BY RunningTask DEF Notify
<1>2. "handedOver" \in PC
  BY DEF PC, Ended, Handled
<1>3. CASE ChatOf[msg[t]] \notin HasInbox
  BY <1>1, <1>2, <1>3, GotoMoves DEF Notify, Works, brokerVars, handoffVars, TypeInv
<1>4. CASE ChatOf[msg[t]] \in HasInbox
  BY <1>1, <1>2, <1>4, FinishFalls DEF Notify, Works, Happened, brokerVars, handoffVars
<1>. QED  BY <1>3, <1>4

LEMMA ReleaseWrites ==
  ASSUME TypeInv, NEW t \in Task, Release(t)
  PROVE  /\ Works(t)
         /\ claims' \in {claims, claims \ {msg[t]}}
         /\ UNCHANGED <<rowVars, sendVars, escalations, notified>>
         /\ pc'[t] \in {"queued", "failed"}
         /\ faults' = faults \/ OneFault(t)
<1>1. msg[t] \in Message
  BY RunningTask DEF Release
<1>2. Moves(t) /\ pc'[t] \in {"queued", "failed"}
  BY RetryMoves DEF Release, TypeInv
<1>3. faults' = faults \/ OneFault(t)
  BY <1>1, StrikeCounts DEF Release, TypeInv, OneFault
<1>. QED  BY <1>1, <1>2, <1>3 DEF Release, Works, brokerVars, handoffVars

\* What a counter and the faults are after one of these steps.
LEMMA BumpCounts ==
  ASSUME NEW f \in [Message -> Nat], NEW m \in Message
  PROVE  \A n \in Message : Bump(f, m)[n] = IF n = m THEN f[n] + 1 ELSE f[n]
BY DEF Bump

LEMMA FaultCounts ==
  ASSUME TypeInv, NEW t \in Task, msg[t] \in Message, OneFault(t)
  PROVE  \A n \in Message :
           /\ faults'[n] = IF n = msg[t] THEN faults[n] + 1 ELSE faults[n]
           /\ faults'[n] \in Nat
BY InboundAssumption DEF OneFault, TypeInv, TypeOK

LEMMA CountTypes ==
  ASSUME TypeInv, NEW m \in Message
  PROVE  /\ Sends(m) \in Nat /\ replied[m] \in Nat /\ held[m] \in Nat
         /\ customerRows[m] \in Nat /\ janeRows[m] \in Nat /\ faults[m] \in Nat
BY InboundAssumption DEF TypeInv, TypeOK, Sends

\* A step of t touches nothing that is kept for another message than its own.
Spares(n) ==
  /\ customerRows'[n] = customerRows[n] /\ janeRows'[n] = janeRows[n]
  /\ replied'[n] = replied[n] /\ held'[n] = held[n]
  /\ faults'[n] = faults[n]
  /\ n \in claims' <=> n \in claims
  /\ n \in escalations' <=> n \in escalations
  /\ n \in notified' <=> n \in notified

\* Every step of a task is one of these, and is about the task's own message.
LEMMA TaskSteps ==
  ASSUME TypeInv, ClaimInv, NEW t \in Task, Begin(t) \/ Step(t) \/ Kill(t)
  PROVE  /\ \/ Leaves(t) \/ LogCustomer(t) \/ SendReply(t) \/ SendHolding(t)
            \/ LogJane(t) \/ Escalate(t) \/ Notify(t) \/ Release(t)
         /\ Works(t)
         /\ \A n \in Message : n # msg[t] => Spares(n)
<1>1. \/ Leaves(t) \/ LogCustomer(t) \/ SendReply(t) \/ SendHolding(t)
      \/ LogJane(t) \/ Escalate(t) \/ Notify(t) \/ Release(t)
  BY LeavingSteps DEF Step
<1>2. Works(t)
  BY <1>1, LogCustomerWrites, SendReplyWrites, SendHoldingWrites, LogJaneWrites,
     EscalateWrites, NotifyWrites, ReleaseWrites DEF Leaves
<1>3. faults' = faults \/ OneFault(t)
  BY <1>1, LogCustomerWrites, SendReplyWrites, SendHoldingWrites, LogJaneWrites,
     EscalateWrites, NotifyWrites, ReleaseWrites DEF Leaves, Fell
<1>4. \A n \in Message : n # msg[t] => faults'[n] = faults[n]
  BY <1>2, <1>3, FaultCounts DEF Works
<1>5. claims' \in {claims, claims \cup {msg[t]}, claims \ {msg[t]}}
  BY DEF Step, Kill, Begin, ResolveContext, Claim, FindConversation, CreateConversation, Touch,
     LogCustomer, Handle, SendReply, SendHolding, LogJane, Escalate, Notify, Release,
     WorkerLost, SoftTimeLimit, HardTimeLimit
<1>6. /\ customerRows' \in {customerRows, Bump(customerRows, msg[t])}
      /\ janeRows' \in {janeRows, Bump(janeRows, msg[t])}
      /\ replied' \in {replied, Bump(replied, msg[t])}
      /\ held' \in {held, Bump(held, msg[t])}
      /\ escalations' \in {escalations, escalations \cup {msg[t]}}
      /\ notified' \in {notified, notified \cup {msg[t]}}
  BY <1>1, LogCustomerWrites, SendReplyWrites, SendHoldingWrites, LogJaneWrites,
     EscalateWrites, NotifyWrites, ReleaseWrites
  DEF Leaves, rowVars, sendVars, handoffVars
<1>7. ASSUME NEW n \in Message, n # msg[t] PROVE Spares(n)
  <2>1. /\ customerRows'[n] = customerRows[n] /\ janeRows'[n] = janeRows[n]
        /\ replied'[n] = replied[n] /\ held'[n] = held[n]
    BY <1>2, <1>6, <1>7, BumpCounts DEF Works, TypeInv, TypeOK
  <2>. QED  BY <1>4, <1>5, <1>6, <1>7, <2>1 DEF Spares
<1>. QED  BY <1>1, <1>2, <1>7

-----------------------------------------------------------------------------
(***************************************************************************)
(* The inductive invariant, message by message.                            *)
(***************************************************************************)
\* The customer's row is written before anything is sent, and once per claim:
\* whoever writes it again has a fault to show for the claim that was lost.
QuestionOf(m) ==
  /\ Sends(m) > 0 => customerRows[m] > 0
  /\ customerRows[m] <= 1 + faults[m]
  /\ m \notin claims => customerRows[m] <= faults[m]
  /\ \A t \in Task : msg[t] = m =>
       /\ pc[t] \in Logged => customerRows[m] > 0
       /\ pc[t] \in Unlogged \cup {"release"} => customerRows[m] <= faults[m]

\* What was sent is on record, or its row is being written, or a fault came
\* between; and a row that is being written is for something that was sent.
RowOf(m) ==
  /\ janeRows[m] <= Sends(m)
  /\ \/ Sends(m) <= janeRows[m] + faults[m]
     \/ /\ Sends(m) <= janeRows[m] + faults[m] + 1
        /\ \E t \in Task : msg[t] = m /\ pc[t] \in Recording
  /\ \A t \in Task : msg[t] = m /\ pc[t] \in Recording => janeRows[m] < Sends(m)

\* A chat is escalated after a holding reply, and then its e-mail is sent, is
\* about to be sent, or a fault came between.
HandoffOf(m) ==
  /\ m \in escalations => held[m] > 0
  /\ m \in escalations /\ faults[m] = 0 /\ ChatOf[m] \in HasInbox =>
       m \in notified \/ \E t \in Task : msg[t] = m /\ pc[t] = "notify"
  /\ \A t \in Task : msg[t] = m /\ pc[t] \in {"logHolding", "escalate", "notify"} =>
       held[m] > 0

OutcomeInv == \A m \in Message : QuestionOf(m) /\ RowOf(m) /\ HandoffOf(m)

LEMMA OutcomeInit == Init => OutcomeInv
BY DEF Init, OutcomeInv, QuestionOf, RowOf, HandoffOf, Sends, Logged, Unlogged, Recording

\* A message that is spared by a step of somebody else's task keeps its part.
LEMMA OutcomeSpared ==
  ASSUME TypeInv, OutcomeInv, NEW t \in Task, Works(t), NEW n \in Message, n # msg[t], Spares(n)
  PROVE  (QuestionOf(n) /\ RowOf(n) /\ HandoffOf(n))'
<1>1. \A u \in Task : msg'[u] = n => msg[u] = n /\ pc'[u] = pc[u]
  BY DEF Works, Moves
<1>2. \A u \in Task : msg[u] = n => msg'[u] = n /\ pc'[u] = pc[u]
  BY DEF Works, Moves
<1>3. Sends(n)' = Sends(n)
  BY DEF Spares, Sends
<1>4. QuestionOf(n)'
  BY <1>1, <1>3 DEF OutcomeInv, QuestionOf, Spares
<1>5. RowOf(n)'
  BY <1>1, <1>2, <1>3 DEF OutcomeInv, RowOf, Spares
<1>6. HandoffOf(n)'
  BY <1>1, <1>2 DEF OutcomeInv, HandoffOf, Spares
<1>. QED  BY <1>4, <1>5, <1>6

\* No second task is at work inside the try block on the message of the holder.
LEMMA HoldsAlone ==
  ASSUME ClaimInv, NEW t \in Task, pc[t] \in Owning, NEW u \in Task, pc[u] \in Owning, msg[u] = msg[t]
  PROVE  u = t
BY OwnsAt DEF ClaimInv, ClaimIsExclusive

-----------------------------------------------------------------------------
(***************************************************************************)
(* The customer's row.                                                     *)
(***************************************************************************)
\* A step that neither sends nor writes the customer's row.
LEMMA QuestionKept ==
  ASSUME TypeInv, NEW t \in Task, Works(t), NEW k \in Message, k = msg[t], QuestionOf(k),
         UNCHANGED <<customerRows, replied, held>>,
         faults' = faults \/ OneFault(t),
         k \notin claims' => k \notin claims \/ customerRows[k] <= faults[k],
         pc'[t] \in Logged => customerRows[k] > 0,
         pc'[t] \in Unlogged \cup {"release"} => OneFault(t) \/ customerRows[k] <= faults[k]
  PROVE  QuestionOf(k)'
<1>1. /\ customerRows[k] \in Nat /\ faults[k] \in Nat /\ faults'[k] \in Nat
      /\ faults[k] <= faults'[k]
      /\ OneFault(t) => faults'[k] = faults[k] + 1
  BY CountTypes, FaultCounts DEF Works
<1>2. Sends(k)' = Sends(k)
  BY DEF Sends
<1>3. \A u \in Task : u # t => pc'[u] = pc[u] /\ msg'[u] = msg[u]
  BY DEF Works, Moves
<1>4. (\A u \in Task : msg[u] = k =>
         /\ pc[u] \in Logged => customerRows[k] > 0
         /\ pc[u] \in Unlogged \cup {"release"} => customerRows[k] <= faults[k])'
  <2>. SUFFICES ASSUME NEW u \in Task, msg'[u] = k
                PROVE  /\ pc'[u] \in Logged => customerRows[k] > 0
                       /\ pc'[u] \in Unlogged \cup {"release"} => customerRows[k] <= faults'[k]
    OBVIOUS
  <2>1. CASE u = t
    BY <1>1, <2>1 DEF QuestionOf
  <2>2. CASE u # t
    BY <1>1, <1>3, <2>2 DEF QuestionOf
  <2>. QED  BY <2>1, <2>2
<1>. QED  BY <1>1, <1>2, <1>4 DEF QuestionOf

\* Every step of a task keeps what QuestionOf says of its message.
LEMMA QuestionStep ==
  ASSUME TypeInv, ClaimInv, NEW t \in Task, NEW k \in Message, k = msg[t], QuestionOf(k),
         \/ Leaves(t) \/ LogCustomer(t) \/ SendReply(t) \/ SendHolding(t)
         \/ LogJane(t) \/ Escalate(t) \/ Notify(t) \/ Release(t)
  PROVE  QuestionOf(k)'
<1>. USE DEF Logged, Unlogged, rowVars, sendVars
<1>1. CASE Leaves(t)
  <2>1. pc[t] = "claim" /\ msg[t] \notin claims => customerRows[k] <= faults[k]
    BY DEF QuestionOf
  <2>. QED
    BY <1>1, <2>1, QuestionKept DEF Leaves, Fell, QuestionOf, Handled
<1>2. CASE LogCustomer(t)
  <2>1. /\ Works(t) /\ UNCHANGED <<claims, replied, held>>
        /\ \/ /\ faults' = faults /\ pc'[t] \in {"quiet", "handle"}
              /\ customerRows' = Bump(customerRows, k)
           \/ Fell(t) /\ customerRows' \in {customerRows, Bump(customerRows, k)}
    BY <1>2, LogCustomerWrites
  <2>2. /\ customerRows[k] \in Nat /\ faults[k] \in Nat
        /\ customerRows[k] <= faults[k]
    BY <1>2, CountTypes DEF LogCustomer, QuestionOf
  <2>3. /\ faults' = faults => customerRows'[k] = customerRows[k] + 1
        /\ customerRows'[k] \in {customerRows[k], customerRows[k] + 1}
        /\ Fell(t) => faults'[k] = faults[k] + 1
    BY <2>1, <2>2, BumpCounts, FaultCounts DEF Fell, TypeInv, TypeOK
  <2>4. pc[t] \in Owning
    BY <1>2 DEF LogCustomer, Owning, Guarded
  <2>5. \A u \in Task : u # t => pc'[u] = pc[u] /\ msg'[u] = msg[u]
    BY <2>1 DEF Works, Moves
  <2>6. \A u \in Task : u # t /\ msg'[u] = k => pc'[u] \notin Owning
    BY <2>4, <2>5, HoldsAlone
  <2>7. Sends(k)' = Sends(k)
    BY <2>1 DEF Sends
  <2>8. k \in claims
    BY <2>4, OwnsAt DEF ClaimInv, ClaimIsExclusive
  <2>9. pc'[t] \in {"quiet", "handle"} \/ (Fell(t) /\ pc'[t] \notin Logged)
    BY <2>1 DEF Fell
  <2>10. (\A u \in Task : msg[u] = k =>
           /\ pc[u] \in Logged => customerRows[k] > 0
           /\ pc[u] \in Unlogged \cup {"release"} => customerRows[k] <= faults[k])'
    <3>. SUFFICES ASSUME NEW u \in Task, msg'[u] = k
                  PROVE  /\ pc'[u] \in Logged => customerRows'[k] > 0
                         /\ pc'[u] \in Unlogged \cup {"release"} => customerRows'[k] <= faults'[k]
      OBVIOUS
    <3>1. CASE u = t
      BY <2>1, <2>2, <2>3, <3>1 DEF Fell
    <3>2. CASE u # t
      BY <2>6, <3>2 DEF Owning, Guarded
    <3>. QED  BY <3>1, <3>2
  <2>11. Sends(k) > 0 => customerRows[k] > 0
    BY DEF QuestionOf
  <2>12. customerRows'[k] <= 1 + faults'[k] /\ (customerRows[k] > 0 => customerRows'[k] > 0)
    BY <2>1, <2>2, <2>3
  <2>. QED
    BY <2>1, <2>7, <2>8, <2>10, <2>11, <2>12 DEF QuestionOf
<1>3. CASE SendReply(t) \/ SendHolding(t)
  <2>1. /\ Works(t) /\ UNCHANGED <<claims, customerRows>>
        /\ faults' = faults \/ OneFault(t)
        /\ pc'[t] \in {"logReply", "logHolding"} \/ (OneFault(t) /\ pc'[t] \notin Logged)
    BY <1>3, SendReplyWrites, SendHoldingWrites DEF Fell
  <2>2. customerRows[k] > 0
    BY <1>3 DEF SendReply, SendHolding, QuestionOf
  <2>3. /\ customerRows[k] \in Nat /\ faults[k] \in Nat /\ faults'[k] \in Nat
        /\ faults[k] <= faults'[k]
        /\ OneFault(t) => faults'[k] = faults[k] + 1
    BY <2>1, CountTypes, FaultCounts
  <2>4. \A u \in Task : u # t => pc'[u] = pc[u] /\ msg'[u] = msg[u]
    BY <2>1 DEF Works, Moves
  <2>. QED
    BY <2>1, <2>2, <2>3, <2>4 DEF QuestionOf
<1>4. CASE LogJane(t)
  <2>1. customerRows[k] > 0
    BY <1>4 DEF LogJane, QuestionOf
  <2>. QED
    BY <1>4, <2>1, LogJaneWrites, QuestionKept DEF Fell
<1>5. CASE Escalate(t)
  <2>1. customerRows[k] > 0
    BY <1>5 DEF Escalate, QuestionOf
  <2>. QED
    BY <1>5, <2>1, EscalateWrites, QuestionKept DEF Fell
<1>6. CASE Notify(t)
  BY <1>6, NotifyWrites, QuestionKept DEF Fell
<1>7. CASE Release(t)
  <2>1. customerRows[k] <= faults[k]
    BY <1>7 DEF Release, QuestionOf
  <2>. QED
    BY <1>7, <2>1, ReleaseWrites, QuestionKept
<1>. QED  BY <1>1, <1>2, <1>3, <1>4, <1>5, <1>6, <1>7

-----------------------------------------------------------------------------
(***************************************************************************)
(* The row of what Jane sent.                                              *)
(***************************************************************************)
\* A step that neither sends nor writes a row of Jane's: if it takes t away
\* from writing one, a fault accounts for the row that is missing.
LEMMA RowKept ==
  ASSUME TypeInv, NEW t \in Task, Works(t), NEW k \in Message, k = msg[t], RowOf(k),
         UNCHANGED <<janeRows, replied, held>>,
         faults' = faults \/ OneFault(t),
         pc[t] \notin Recording \/ OneFault(t),
         pc'[t] \notin Recording
  PROVE  RowOf(k)'
<1>1. /\ Sends(k) \in Nat /\ janeRows[k] \in Nat /\ faults[k] \in Nat /\ faults'[k] \in Nat
      /\ faults[k] <= faults'[k]
      /\ OneFault(t) => faults'[k] = faults[k] + 1
  BY CountTypes, FaultCounts DEF Works
<1>2. Sends(k)' = Sends(k)
  BY DEF Sends
<1>3. \A u \in Task : u # t => pc'[u] = pc[u] /\ msg'[u] = msg[u]
  BY DEF Works, Moves
<1>4. \/ Sends(k) <= janeRows[k] + faults'[k]
      \/ /\ Sends(k) <= janeRows[k] + faults'[k] + 1
         /\ \E u \in Task : msg'[u] = k /\ pc'[u] \in Recording
  <2>1. CASE Sends(k) <= janeRows[k] + faults[k] \/ OneFault(t)
    BY <1>1, <2>1 DEF RowOf
  <2>2. CASE faults' = faults /\ ~ (Sends(k) <= janeRows[k] + faults[k])
    <3>1. PICK u \in Task : msg[u] = k /\ pc[u] \in Recording
      BY <2>2 DEF RowOf
    <3>2. CASE u = t
      BY <1>1, <3>1, <3>2 DEF RowOf
    <3>3. CASE u # t
      BY <1>1, <1>3, <3>1, <3>3 DEF RowOf
    <3>. QED  BY <3>2, <3>3
  <2>. QED  BY <2>1, <2>2
<1>5. \A u \in Task : msg'[u] = k /\ pc'[u] \in Recording => janeRows[k] < Sends(k)
  BY <1>3 DEF RowOf
<1>6. janeRows[k] <= Sends(k)
  BY DEF RowOf
<1>. QED  BY <1>2, <1>4, <1>5, <1>6 DEF RowOf

\* Every step of a task keeps what RowOf says of its message.
LEMMA RowStep ==
  ASSUME TypeInv, ClaimInv, NEW t \in Task, NEW k \in Message, k = msg[t], RowOf(k),
         \/ Leaves(t) \/ LogCustomer(t) \/ SendReply(t) \/ SendHolding(t)
         \/ LogJane(t) \/ Escalate(t) \/ Notify(t) \/ Release(t)
  PROVE  RowOf(k)'
<1>. USE DEF Recording, rowVars, sendVars
<1>1. CASE Leaves(t)
  BY <1>1, RowKept DEF Leaves, Fell, Handled, Unlogged, Owning, Guarded
<1>2. CASE LogCustomer(t)
  BY <1>2, LogCustomerWrites, RowKept DEF LogCustomer, Fell
<1>3. CASE SendReply(t) \/ SendHolding(t)
  <2>1. /\ Works(t) /\ UNCHANGED <<claims, janeRows>>
        /\ faults' = faults \/ OneFault(t)
        /\ \/ faults' = faults /\ pc'[t] \in Recording
           \/ OneFault(t) /\ pc'[t] \notin Recording
    BY <1>3, SendReplyWrites, SendHoldingWrites DEF Fell
  <2>2. /\ Sends(k) \in Nat /\ janeRows[k] \in Nat /\ faults[k] \in Nat
        /\ replied[k] \in Nat /\ held[k] \in Nat
        /\ OneFault(t) => faults'[k] = faults[k] + 1
    BY <2>1, CountTypes, FaultCounts
  <2>3. /\ Sends(k)' \in {Sends(k), Sends(k) + 1}
        /\ pc'[t] \in Recording => Sends(k)' = Sends(k) + 1
    <3>1. CASE SendReply(t)
      <4>1. /\ held' = held /\ replied' \in {replied, Bump(replied, k)}
            /\ pc'[t] \in Recording => replied' = Bump(replied, k)
        BY <3>1, SendReplyWrites DEF Fell
      <4>2. Bump(replied, k)[k] = replied[k] + 1
        BY BumpCounts DEF TypeInv, TypeOK
      <4>. QED  BY <2>2, <4>1, <4>2 DEF Sends
    <3>2. CASE SendHolding(t)
      <4>1. /\ replied' = replied /\ held' \in {held, Bump(held, k)}
            /\ pc'[t] \in Recording => held' = Bump(held, k)
        BY <3>2, SendHoldingWrites DEF Fell
      <4>2. Bump(held, k)[k] = held[k] + 1
        BY BumpCounts DEF TypeInv, TypeOK
      <4>. QED  BY <2>2, <4>1, <4>2 DEF Sends
    <3>. QED  BY <1>3, <3>1, <3>2
  <2>4. pc[t] \in Owning /\ pc[t] \notin Recording
    BY <1>3 DEF SendReply, SendHolding, Owning, Guarded
  <2>5. \A u \in Task : msg[u] = k => pc[u] \notin Recording
    BY <2>4, HoldsAlone DEF Owning, Guarded
  <2>6. \A u \in Task : u # t => pc'[u] = pc[u] /\ msg'[u] = msg[u]
    BY <2>1 DEF Works, Moves
  <2>7. Sends(k) <= janeRows[k] + faults[k] /\ janeRows[k] <= Sends(k)
    BY <2>5 DEF RowOf
  <2>8. msg'[t] = k
    BY <2>1 DEF Works
  <2>9. \A u \in Task : msg'[u] = k /\ pc'[u] \in Recording => janeRows'[k] < Sends(k)'
    BY <2>1, <2>2, <2>3, <2>5, <2>6, <2>7
  <2>10. \/ Sends(k)' <= janeRows'[k] + faults'[k]
         \/ /\ Sends(k)' <= janeRows'[k] + faults'[k] + 1
            /\ \E u \in Task : msg'[u] = k /\ pc'[u] \in Recording
    BY <2>1, <2>2, <2>3, <2>7, <2>8
  <2>11. janeRows'[k] <= Sends(k)'
    BY <2>1, <2>2, <2>3, <2>7
  <2>. QED  BY <2>9, <2>10, <2>11 DEF RowOf
<1>4. CASE LogJane(t)
  <2>1. /\ Works(t) /\ UNCHANGED <<claims, replied, held>>
        /\ pc'[t] \notin Recording
        /\ \/ faults' = faults /\ janeRows' = Bump(janeRows, k)
           \/ OneFault(t) /\ janeRows' \in {janeRows, Bump(janeRows, k)}
    BY <1>4, LogJaneWrites DEF Fell
  <2>2. /\ Sends(k) \in Nat /\ janeRows[k] \in Nat /\ faults[k] \in Nat
        /\ OneFault(t) => faults'[k] = faults[k] + 1
        /\ Bump(janeRows, k)[k] = janeRows[k] + 1
    BY <2>1, CountTypes, FaultCounts, BumpCounts DEF TypeInv, TypeOK
  <2>3. pc[t] \in Owning /\ pc[t] \in Recording
    BY <1>4 DEF LogJane, Owning, Guarded
  <2>4. \A u \in Task : u # t => pc'[u] = pc[u] /\ msg'[u] = msg[u]
    BY <2>1 DEF Works, Moves
  <2>5. \A u \in Task : msg'[u] = k => pc'[u] \notin Recording
    BY <2>1, <2>3, <2>4, HoldsAlone DEF Owning, Guarded
  <2>6. janeRows[k] < Sends(k) /\ Sends(k) <= janeRows[k] + faults[k] + 1
    BY <2>2, <2>3 DEF RowOf
  <2>7. Sends(k)' = Sends(k)
    BY <2>1 DEF Sends
  <2>8. janeRows'[k] <= Sends(k)' /\ Sends(k)' <= janeRows'[k] + faults'[k]
    BY <2>1, <2>2, <2>6, <2>7
  <2>. QED  BY <2>5, <2>8 DEF RowOf
<1>5. CASE Escalate(t)
  BY <1>5, EscalateWrites, RowKept DEF Escalate, Fell
<1>6. CASE Notify(t)
  BY <1>6, NotifyWrites, RowKept DEF Notify, Fell
<1>7. CASE Release(t)
  BY <1>7, ReleaseWrites, RowKept DEF Release
<1>. QED  BY <1>1, <1>2, <1>3, <1>4, <1>5, <1>6, <1>7

-----------------------------------------------------------------------------
(***************************************************************************)
(* The hand-over to the brand.                                             *)
(***************************************************************************)
\* A step that escalates nothing, brings t to none of the steps that follow a
\* holding reply, and takes it from the e-mail only with a fault.
LEMMA HandoffKept ==
  ASSUME TypeInv, NEW t \in Task, Works(t), NEW k \in Message, k = msg[t], HandoffOf(k),
         UNCHANGED <<escalations, notified>>,
         held'[k] \in Nat, held[k] <= held'[k],
         faults' = faults \/ OneFault(t),
         pc[t] # "notify" \/ OneFault(t),
         pc'[t] \in {"logHolding", "escalate", "notify"} => held'[k] > 0
  PROVE  HandoffOf(k)'
<1>1. /\ held[k] \in Nat /\ faults[k] \in Nat
      /\ faults' = faults => faults'[k] = faults[k]
      /\ OneFault(t) => faults'[k] # 0
  BY CountTypes, FaultCounts DEF Works
<1>2. \A u \in Task : u # t => pc'[u] = pc[u] /\ msg'[u] = msg[u]
  BY DEF Works, Moves
<1>3. k \in escalations' => held'[k] > 0
  BY <1>1 DEF HandoffOf
<1>4. \A u \in Task : msg'[u] = k /\ pc'[u] \in {"logHolding", "escalate", "notify"} => held'[k] > 0
  BY <1>1, <1>2 DEF HandoffOf
<1>5. ASSUME k \in escalations', faults'[k] = 0, ChatOf[k] \in HasInbox
      PROVE  k \in notified' \/ \E u \in Task : msg'[u] = k /\ pc'[u] = "notify"
  <2>1. ~ OneFault(t) /\ faults[k] = 0
    BY <1>1, <1>5
  <2>2. k \in notified \/ \E u \in Task : msg[u] = k /\ pc[u] = "notify"
    BY <1>5, <2>1 DEF HandoffOf
  <2>. QED  BY <1>2, <2>1, <2>2
<1>. QED  BY <1>3, <1>4, <1>5 DEF HandoffOf

\* Every step of a task keeps what HandoffOf says of its message.
LEMMA HandoffStep ==
  ASSUME TypeInv, ClaimInv, NEW t \in Task, NEW k \in Message, k = msg[t], HandoffOf(k),
         \/ Leaves(t) \/ LogCustomer(t) \/ SendReply(t) \/ SendHolding(t)
         \/ LogJane(t) \/ Escalate(t) \/ Notify(t) \/ Release(t)
  PROVE  HandoffOf(k)'
<1>. USE DEF rowVars, sendVars, handoffVars
<1>a. held[k] \in Nat /\ faults[k] \in Nat
  BY CountTypes
<1>1. CASE Leaves(t)
  BY <1>1, <1>a, HandoffKept DEF Leaves, Fell, Handled, Unlogged, Owning, Guarded
<1>2. CASE LogCustomer(t)
  <2>1. /\ Works(t) /\ UNCHANGED <<escalations, notified, held>>
        /\ faults' = faults \/ OneFault(t)
        /\ pc[t] # "notify"
        /\ pc'[t] \notin {"logHolding", "escalate", "notify"}
    BY <1>2, LogCustomerWrites DEF LogCustomer, Fell
  <2>. QED  BY <1>a, <2>1, HandoffKept
<1>3. CASE SendReply(t)
  BY <1>3, <1>a, SendReplyWrites, HandoffKept DEF SendReply, Fell
<1>4. CASE SendHolding(t)
  <2>1. /\ Works(t) /\ UNCHANGED <<escalations, notified>>
        /\ faults' = faults \/ OneFault(t)
        /\ \/ pc'[t] = "logHolding" /\ held' = Bump(held, k)
           \/ /\ pc'[t] \notin {"logHolding", "escalate", "notify"}
              /\ held' \in {held, Bump(held, k)}
    BY <1>4, SendHoldingWrites DEF Fell
  <2>2. Bump(held, k)[k] = held[k] + 1
    BY BumpCounts DEF TypeInv, TypeOK
  <2>3. /\ held'[k] \in Nat /\ held[k] <= held'[k]
        /\ pc'[t] \in {"logHolding", "escalate", "notify"} => held'[k] > 0
    BY <1>a, <2>1, <2>2
  <2>4. pc[t] # "notify"
    BY <1>4 DEF SendHolding
  <2>. QED  BY <2>1, <2>3, <2>4, HandoffKept
<1>5. CASE LogJane(t)
  <2>1. /\ Works(t) /\ UNCHANGED <<escalations, notified, held>>
        /\ faults' = faults \/ OneFault(t)
        /\ pc[t] # "notify"
        /\ pc'[t] \in {"logHolding", "escalate", "notify"} => pc[t] = "logHolding"
    BY <1>5, LogJaneWrites DEF LogJane, Fell
  <2>2. pc[t] = "logHolding" => held[k] > 0
    BY DEF HandoffOf
  <2>. QED  BY <1>a, <2>1, <2>2, HandoffKept
<1>6. CASE Escalate(t)
  <2>1. /\ Works(t) /\ UNCHANGED <<notified, held>>
        /\ \/ faults' = faults /\ pc'[t] = "notify"
           \/ OneFault(t)
    BY <1>6, EscalateWrites DEF Fell
  <2>2. held[k] > 0
    BY <1>6 DEF Escalate, HandoffOf
  <2>3. OneFault(t) => faults'[k] # 0
    BY <1>a, FaultCounts
  <2>4. msg'[t] = k
    BY <2>1 DEF Works
  <2>. QED  BY <2>1, <2>2, <2>3, <2>4 DEF HandoffOf
<1>7. CASE Notify(t)
  <2>1. /\ Works(t) /\ UNCHANGED <<escalations, held>>
        /\ notified \subseteq notified'
        /\ pc'[t] \notin {"logHolding", "escalate", "notify"}
        /\ \/ /\ faults' = faults
              /\ ChatOf[k] \in HasInbox => k \in notified'
           \/ OneFault(t)
    BY <1>7, NotifyWrites DEF Fell
  <2>2. OneFault(t) => faults'[k] # 0
    BY <1>a, FaultCounts
  <2>3. \A u \in Task : u # t => pc'[u] = pc[u] /\ msg'[u] = msg[u]
    BY <2>1 DEF Works, Moves
  <2>4. \A u \in Task : msg'[u] = k /\ pc'[u] \in {"logHolding", "escalate", "notify"} => held'[k] > 0
    BY <2>1, <2>3 DEF HandoffOf
  <2>5. k \in escalations' => held'[k] > 0
    BY <2>1 DEF HandoffOf
  <2>. QED  BY <2>1, <2>2, <2>4, <2>5 DEF HandoffOf
<1>8. CASE Release(t)
  <2>1. /\ Works(t) /\ UNCHANGED <<escalations, notified, held>>
        /\ faults' = faults \/ OneFault(t)
        /\ pc[t] # "notify"
        /\ pc'[t] \notin {"logHolding", "escalate", "notify"}
    BY <1>8, ReleaseWrites DEF Release
  <2>. QED  BY <1>a, <2>1, HandoffKept
<1>. QED  BY <1>1, <1>2, <1>3, <1>4, <1>5, <1>6, <1>7, <1>8

-----------------------------------------------------------------------------
(***************************************************************************)
(* The transcript and the hand-over: the theorems.                         *)
(***************************************************************************)
LEMMA OutcomeNext == TypeInv /\ ClaimInv /\ OutcomeInv /\ [Next]_vars => OutcomeInv'
<1>. SUFFICES ASSUME TypeInv, ClaimInv, OutcomeInv, [Next]_vars PROVE OutcomeInv'
  OBVIOUS
<1>1. ASSUME NEW m \in Message, NEW t \in Task, ReceiveWebhook(m, t) PROVE OutcomeInv'
  <2>1. /\ UNCHANGED <<claims, customerRows, janeRows, replied, held, escalations, notified, faults>>
        /\ pc[t] = "idle" /\ pc'[t] = "queued"
        /\ \A u \in Task : u # t => pc'[u] = pc[u] /\ msg'[u] = msg[u]
    BY <1>1 DEF ReceiveWebhook, rowVars, sendVars, handoffVars, TypeInv, TypeOK
  <2>2. SUFFICES ASSUME NEW n \in Message PROVE (QuestionOf(n) /\ RowOf(n) /\ HandoffOf(n))'
    BY DEF OutcomeInv
  <2>3. Sends(n)' = Sends(n)
    BY <2>1 DEF Sends
  <2>4. QuestionOf(n)'
    BY <2>1, <2>3 DEF OutcomeInv, QuestionOf, Logged, Unlogged
  <2>5. RowOf(n)'
    BY <2>1, <2>3 DEF OutcomeInv, RowOf, Recording
  <2>6. HandoffOf(n)'
    BY <2>1 DEF OutcomeInv, HandoffOf
  <2>. QED  BY <2>4, <2>5, <2>6
<1>2. ASSUME NEW t \in Task, Begin(t) \/ Step(t) \/ Kill(t) PROVE OutcomeInv'
  <2>1. msg[t] \in Message
    BY <1>2, TaskSteps DEF Works
  <2>2. ASSUME NEW n \in Message PROVE (QuestionOf(n) /\ RowOf(n) /\ HandoffOf(n))'
    <3>1. CASE n = msg[t]
      BY <1>2, <3>1, TaskSteps, QuestionStep, RowStep, HandoffStep DEF OutcomeInv
    <3>2. CASE n # msg[t]
      BY <1>2, <3>2, TaskSteps, OutcomeSpared
    <3>. QED  BY <3>1, <3>2
  <2>. QED  BY <2>2 DEF OutcomeInv
<1>3. ASSUME NEW m \in Message, ExpireClaim(m) PROVE OutcomeInv'
  <2>1. /\ UNCHANGED <<pc, msg, customerRows, janeRows, replied, held, escalations, notified>>
        /\ \A n \in Message : n # m => (n \in claims' <=> n \in claims)
        /\ faults' = Bump(faults, m)
    BY <1>3 DEF ExpireClaim, brokerVars, rowVars, sendVars, handoffVars
  <2>2. SUFFICES ASSUME NEW n \in Message PROVE (QuestionOf(n) /\ RowOf(n) /\ HandoffOf(n))'
    BY DEF OutcomeInv
  <2>3. /\ Sends(n) \in Nat /\ customerRows[n] \in Nat /\ janeRows[n] \in Nat /\ faults[n] \in Nat
        /\ faults'[n] = IF n = m THEN faults[n] + 1 ELSE faults[n]
    BY <2>1, CountTypes DEF Bump, TypeInv, TypeOK
  <2>4. Sends(n)' = Sends(n)
    BY <2>1 DEF Sends
  <2>5. QuestionOf(n)'
    BY <2>1, <2>3, <2>4 DEF OutcomeInv, QuestionOf
  <2>6. RowOf(n)'
    BY <2>1, <2>3, <2>4 DEF OutcomeInv, RowOf
  <2>7. HandoffOf(n)'
    BY <2>1, <2>3 DEF OutcomeInv, HandoffOf
  <2>. QED  BY <2>5, <2>6, <2>7
<1>4. CASE UNCHANGED inboundVars
  BY <1>4 DEF inboundVars, brokerVars, rowVars, sendVars, handoffVars,
     OutcomeInv, QuestionOf, RowOf, HandoffOf, Sends
<1>. QED
  BY <1>1, <1>2, <1>3, <1>4 DEF Next, InboundNext, AgentResolves, vars

\* What the agent reads in the transcript agrees with what the customer saw, up
\* to the faults that struck the message and the row that is being written.
THEOREM TranscriptIsTrue == Spec => []TranscriptMatchesSends
<1>1. TypeInv /\ OutcomeInv => TranscriptMatchesSends
  <2>. SUFFICES ASSUME TypeInv, OutcomeInv, NEW m \in Message
                PROVE  /\ Sends(m) > 0 => customerRows[m] > 0
                       /\ customerRows[m] <= 1 + faults[m]
                       /\ janeRows[m] <= Sends(m)
                       /\ Sends(m) <= janeRows[m] + faults[m]
                            + (IF \E t \in Task : msg[t] = m /\ pc[t] \in {"logReply", "logHolding"}
                                 THEN 1 ELSE 0)
    BY DEF TranscriptMatchesSends
  <2>1. Sends(m) \in Nat /\ janeRows[m] \in Nat /\ faults[m] \in Nat
    BY CountTypes
  <2>. QED  BY <2>1 DEF OutcomeInv, QuestionOf, RowOf, Recording
<1>. QED
  BY TypeInit, TypeNext, ClaimInit, ClaimNext, OutcomeInit, OutcomeNext, <1>1, PTL DEF Spec

\* When a question that no fault struck has escalated its chat and no worker is
\* on it any more, the customer has had one holding reply and the brand, if it
\* has an inbox, an e-mail.
THEOREM HandoffIsComplete == Spec => []EscalationIsNotified
<1>1. TypeInv /\ SendInv /\ OutcomeInv => EscalationIsNotified
  <2>. SUFFICES ASSUME TypeInv, SendInv, OutcomeInv, NEW m \in escalations, faults[m] = 0,
                       \A t \in Task : msg[t] = m => pc[t] \notin Running
                PROVE  held[m] = 1 /\ (ChatOf[m] \in HasInbox => m \in notified)
    BY DEF EscalationIsNotified
  <2>1. m \in Message
    BY DEF TypeInv, TypeOK
  <2>2. held[m] > 0 /\ (ChatOf[m] \in HasInbox => m \in notified)
    BY <2>1 DEF OutcomeInv, HandoffOf, Running, Guarded
  <2>3. replied[m] \in Nat /\ held[m] \in Nat /\ replied[m] + held[m] <= 1
    BY <2>1, CountTypes DEF SendInv, SendsPaidByFaults, Sends
  <2>. QED  BY <2>2, <2>3
<1>. QED
  BY TypeInit, TypeNext, ClaimInit, ClaimNext, SendInit, SendNext, OutcomeInit, OutcomeNext,
     <1>1, PTL DEF Spec

-----------------------------------------------------------------------------
(***************************************************************************)
(* What "duplicate" means.  A claim is left behind only by an insert that  *)
(* was applied though it raised, by a delete that was not applied, and by  *)
(* a kill or a time limit that takes the worker away from a held claim.    *)
(***************************************************************************)
\* Every other fault is allowed.
ClaimsComeBack ==
  /\ <<"claim", "lost">> \notin Faults
  /\ <<"release", "failed">> \notin Faults
  /\ \A p \in Owning, kill \in {"crash", "softlimit", "hardlimit"} : <<p, kill>> \notin Faults

\* A delivery that has not come to nothing, as in NoFalseDuplicate.
Answerable == Running \cup Handled \cup {"queued", "failed"}

\* A claim stands for a delivery that holds it or was handled, and a delivery
\* was dropped as a duplicate of one that still counts.
DuplicateOf(m) ==
  /\ m \in claims => \E u \in Task : msg[u] = m /\ pc[u] \in Owning \cup Handled
  /\ (\E t \in Task : msg[t] = m /\ pc[t] = "duplicate") =>
       \E u \in Task : msg[u] = m /\ pc[u] \in Answerable

DuplicateInv == \A m \in Message : DuplicateOf(m)

\* Without those faults, a task keeps the claim it holds until it is handled
\* or has given the claim back.
LEMMA ClaimAccounted ==
  ASSUME TypeInv, ClaimInv, ClaimsComeBack, NEW t \in Task, Begin(t) \/ Step(t) \/ Kill(t)
  PROVE  /\ pc'[t] \in Answerable \cup {"duplicate"}
         /\ pc[t] \notin Handled
         /\ pc[t] \in Owning => pc'[t] \in Owning \cup Handled \/ msg[t] \notin claims'
         /\ msg[t] \in claims' /\ msg[t] \notin claims => pc'[t] = "find"
         /\ pc'[t] = "duplicate" => pc[t] = "claim" /\ msg[t] \in claims
<1>. USE DEF Answerable, Running, Guarded, Handled, Owning
<1>a. TypeOK
  BY DEF TypeInv
<1>b. pc[t] \in {"queued", "claim", "resolve"} => ~ claimed[t]
  BY DEF ClaimInv
<1>1. CASE Begin(t)
  <2>1. PICK p \in {"resolve", "ignored"} : Goto(t, p)
    BY <1>1 DEF Begin
  <2>2. pc'[t] = p
    BY <1>a, <2>1 DEF TypeOK, Goto
  <2>. QED  BY <1>1, <2>2 DEF Begin
<1>2. CASE ResolveContext(t)
  <2>1. pc'[t] \in {"claim", "dropped", "queued", "failed"} /\ claims' = claims
    BY <1>2, <1>a, <1>b, RaiseMoves DEF ResolveContext, Raised, Goto, TypeOK
  <2>. QED  BY <1>2, <2>1 DEF ResolveContext
<1>3. CASE Claim(t)
  <2>1. CASE msg[t] \in claims /\ Goto(t, "duplicate") /\ UNCHANGED claims
    BY <1>3, <1>a, <2>1 DEF Claim, Goto, TypeOK
  <2>2. CASE pc' = [pc EXCEPT ![t] = "find"]
    BY <1>3, <1>a, <2>2 DEF Claim, TypeOK
  <2>3. CASE \E o \in {"failed", "lost"} :
               /\ Strike(t, o)
               /\ claims' = IF Happened(o) THEN claims \cup {msg[t]} ELSE claims
               /\ Raise(t)
    <3>1. Raise(t) /\ claims' = claims
      BY <1>3, <2>3 DEF Claim, Strike, ClaimsComeBack, Happened
    <3>2. pc'[t] \in {"queued", "failed"}
      BY <1>3, <1>a, <1>b, <3>1, RaiseMoves DEF Claim, Raised
    <3>. QED  BY <1>3, <3>1, <3>2 DEF Claim
  <2>. QED  BY <1>3, <2>1, <2>2, <2>3 DEF Claim
<1>4. CASE Progress(t)
  <2>1. claimed[t]
    BY <1>4 DEF Progress, ClaimInv
  <2>. QED  BY <1>4, <2>1 DEF Progress, Raised
<1>5. CASE Release(t)
  <2>1. pc[t] = "release" /\ msg[t] \notin claims'
    BY <1>5 DEF Release, Strike, ClaimsComeBack, Happened, Outcome
  <2>2. pc'[t] \in {"queued", "failed"}
    BY <1>5, ReleaseWrites
  <2>. QED  BY <2>1, <2>2
<1>6. CASE Kill(t)
  <2>1. pc[t] \in {"resolve", "claim"} /\ ~ HardTimeLimit(t)
    BY <1>6 DEF Kill, WorkerLost, SoftTimeLimit, HardTimeLimit, Strike, ClaimsComeBack
  <2>2. pc'[t] \in {"queued", "failed"} /\ claims' = claims
    BY <1>6, <1>a, <2>1, RetryMoves DEF Kill, WorkerLost, SoftTimeLimit, TypeOK
  <2>. QED  BY <2>1, <2>2
<1>. QED
  BY <1>1, <1>2, <1>3, <1>4, <1>5, <1>6, WorkProgress, SendingProgress DEF Step, Sending

LEMMA DuplicateInit == Init => DuplicateInv
BY DEF Init, DuplicateInv, DuplicateOf

LEMMA DuplicateNext ==
  ASSUME ClaimsComeBack
  PROVE  TypeInv /\ ClaimInv /\ DuplicateInv /\ [Next]_vars => DuplicateInv'
<1>. SUFFICES ASSUME TypeInv, ClaimInv, DuplicateInv, [Next]_vars, NEW n \in Message
              PROVE  DuplicateOf(n)'
  BY DEF DuplicateInv
<1>a. DuplicateOf(n)
  BY DEF DuplicateInv
<1>1. ASSUME NEW m \in Message, NEW t \in Task, ReceiveWebhook(m, t) PROVE DuplicateOf(n)'
  <2>1. /\ claims' = claims
        /\ pc[t] = "idle" /\ pc'[t] = "queued"
        /\ \A u \in Task : u # t => pc'[u] = pc[u] /\ msg'[u] = msg[u]
    BY <1>1 DEF ReceiveWebhook, TypeInv, TypeOK
  <2>2. "idle" \notin Owning \cup Handled \cup Answerable
    BY DEF Owning, Guarded, Handled, Answerable, Running
  <2>. QED  BY <1>a, <2>1, <2>2 DEF DuplicateOf
<1>2. ASSUME NEW t \in Task, Begin(t) \/ Step(t) \/ Kill(t) PROVE DuplicateOf(n)'
  <2>1. /\ Works(t)
        /\ n # msg[t] => (n \in claims' <=> n \in claims)
    BY <1>2, TaskSteps DEF Spares
  <2>2. msg' = msg /\ \A u \in Task : u # t => pc'[u] = pc[u]
    BY <2>1 DEF Works, Moves
  <2>3. CASE n # msg[t]
    BY <1>a, <2>1, <2>2, <2>3 DEF DuplicateOf
  <2>4. CASE n = msg[t]
    <3>1. n \in claims' => \E u \in Task : msg'[u] = n /\ pc'[u] \in Owning \cup Handled
      <4>1. CASE n \in claims' /\ n \notin claims
        BY <1>2, <2>2, <2>4, <4>1, ClaimAccounted DEF Owning, Guarded
      <4>2. CASE n \in claims' /\ n \in claims
        <5>1. PICK u \in Task : msg[u] = n /\ pc[u] \in Owning \cup Handled
          BY <1>a, <4>2 DEF DuplicateOf
        <5>2. CASE u = t
          BY <1>2, <2>2, <2>4, <4>2, <5>1, <5>2, ClaimAccounted
        <5>3. CASE u # t
          BY <2>2, <5>1, <5>3
        <5>. QED  BY <5>2, <5>3
      <4>. QED  BY <4>1, <4>2
    <3>2. ASSUME NEW v \in Task, msg'[v] = n, pc'[v] = "duplicate"
          PROVE  \E u \in Task : msg'[u] = n /\ pc'[u] \in Answerable
      <4>1. CASE pc'[t] = "duplicate"
        <5>1. pc[t] = "claim" /\ n \in claims
          BY <1>2, <2>4, <4>1, ClaimAccounted
        <5>2. PICK u \in Task : msg[u] = n /\ pc[u] \in Owning \cup Handled
          BY <1>a, <5>1 DEF DuplicateOf
        <5>3. u # t /\ pc[u] \in Answerable
          BY <5>1, <5>2 DEF Owning, Guarded, Handled, Answerable, Running
        <5>. QED  BY <2>2, <5>2, <5>3
      <4>2. CASE pc'[t] # "duplicate"
        <5>1. pc'[t] \in Answerable
          BY <1>2, <4>2, ClaimAccounted
        <5>. QED  BY <2>2, <2>4, <5>1
      <4>. QED  BY <4>1, <4>2
    <3>. QED  BY <3>1, <3>2 DEF DuplicateOf
  <2>. QED  BY <2>3, <2>4
<1>3. ASSUME NEW m \in Message, ExpireClaim(m) PROVE DuplicateOf(n)'
  BY <1>3, <1>a DEF ExpireClaim, DuplicateOf, brokerVars
<1>4. CASE UNCHANGED inboundVars
  BY <1>4, <1>a DEF inboundVars, brokerVars, DuplicateOf
<1>. QED
  BY <1>1, <1>2, <1>3, <1>4 DEF Next, InboundNext, AgentResolves, vars

\* Unless a fault leaves a claim behind with nobody to hold it, a delivery is
\* dropped as a duplicate only while another delivery of the same event is
\* under way, was handled, or gave up with an error: whatever else fails, and
\* however often Meta delivers.
THEOREM DuplicatesAreTrue ==
  ASSUME ClaimsComeBack
  PROVE  Spec => []NoFalseDuplicate
<1>1. TypeInv /\ DuplicateInv => NoFalseDuplicate
  <2>. SUFFICES ASSUME TypeInv, DuplicateInv, NEW t \in Task, pc[t] = "duplicate"
                PROVE  \E u \in Task : /\ msg[u] = msg[t]
                                       /\ pc[u] \in Running \cup Handled \cup {"queued", "failed"}
    BY DEF NoFalseDuplicate
  <2>1. msg[t] \in Message
    BY RunningTask
  <2>2. DuplicateOf(msg[t])
    BY <2>1 DEF DuplicateInv
  <2>. QED  BY <2>2 DEF DuplicateOf, Answerable
<1>. QED
  BY TypeInit, TypeNext, ClaimInit, ClaimNext, DuplicateInit, DuplicateNext, <1>1, PTL DEF Spec

-----------------------------------------------------------------------------
(***************************************************************************)
(* One message at most.  A claim outlives the message sent under it unless *)
(* one of the Unclaiming faults strikes.                                   *)
(***************************************************************************)
ClaimsLast == Faults \cap Unclaiming = {}

\* Whoever may still send, or is about to give up the claim, finds that nothing
\* has been sent.
OnceInv ==
  /\ AnsweredOnce
  /\ \A m \in Message : m \notin claims => Sends(m) = 0
  /\ \A t \in Task : pc[t] \in Unsent \cup {"release"} => Sends(msg[t]) = 0

LEMMA OnceInit == Init => OnceInv
BY DEF Init, OnceInv, AnsweredOnce, Sends, Unsent

\* After the send, no step raises.
LEMMA LateStepsReturn ==
  ASSUME ClaimsLast, NEW t \in Task, LogJane(t) \/ Escalate(t) \/ Notify(t)
  PROVE  faults' = faults
<1>1. \A o \in {"failed", "lost"} : ~ Strike(t, o)
  BY DEF ClaimsLast, Unclaiming, Strike, LogJane, Escalate, Notify
<1>2. ASSUME NEW o \in Outcome, NEW p, Finish(t, o, p) PROVE faults' = faults
  BY <1>1, <1>2 DEF Finish, Goto, Outcome
<1>3. CASE LogJane(t)
  BY <1>2, <1>3 DEF LogJane
<1>4. CASE Escalate(t)
  BY <1>2, <1>4 DEF Escalate
<1>5. CASE Notify(t)
  BY <1>2, <1>5 DEF Notify, Goto
<1>. QED  BY <1>3, <1>4, <1>5

\* A send that raises has sent nothing.
LEMMA SendRaisesEmpty ==
  ASSUME ClaimsLast, NEW t \in Task, Sending(t)
  PROVE  faults' = faults \/ UNCHANGED <<replied, held>>
<1>1. ~ Strike(t, "lost")
  BY DEF ClaimsLast, Unclaiming, Strike, Sending, SendReply, SendHolding
<1>2. CASE SendReply(t)
  BY <1>1, <1>2 DEF SendReply, Finish, Goto, Outcome, Happened
<1>3. CASE SendHolding(t)
  BY <1>1, <1>3 DEF SendHolding, Finish, Goto, Outcome, Happened
<1>. QED  BY <1>2, <1>3 DEF Sending

\* A step that sends nothing, frees no claim, and brings t to a step before the
\* send only when nothing has been sent.
LEMMA OnceKept ==
  ASSUME TypeInv, OnceInv, NEW t \in Task, msg[t] \in Message, Moves(t), msg' = msg,
         claims \subseteq claims', UNCHANGED <<replied, held>>,
         pc'[t] \in Unsent \cup {"release"} => Sends(msg[t]) = 0
  PROVE  OnceInv'
<1>1. \A m \in Message : Sends(m)' = Sends(m)
  BY DEF Sends
<1>2. (\A u \in Task : pc[u] \in Unsent \cup {"release"} => Sends(msg[u]) = 0)'
  <2>. SUFFICES ASSUME NEW u \in Task, pc'[u] \in Unsent \cup {"release"}
                PROVE  (Sends(msg[u]) = 0)'
    BY DEF OnceInv
  <2>1. CASE u = t
    BY <2>1 DEF Sends
  <2>2. CASE u # t
    BY <2>2 DEF Moves, OnceInv, Sends
  <2>. QED  BY <2>1, <2>2
<1>. QED  BY <1>1, <1>2 DEF OnceInv, AnsweredOnce

\* The send itself: its holder is the only one, and finds nothing sent.
LEMMA OnceSending ==
  ASSUME ClaimsLast, TypeInv, ClaimInv, OnceInv, NEW t \in Task, Sending(t)
  PROVE  OnceInv'
<1>1. /\ Progress(t) /\ msg[t] \in Message
      /\ pc[t] \in Unsent /\ pc'[t] \notin Unsent
      /\ faults' = faults => pc'[t] # "release"
  BY SendingProgress DEF Progress
<1>2. Sends(msg[t]) = 0
  BY <1>1 DEF OnceInv
<1>3. CASE UNCHANGED <<replied, held>>
  BY <1>1, <1>2, <1>3, OnceKept DEF Progress
<1>4. CASE faults' = faults
  <2>1. PICK m \in Message : m = msg[t]
    BY <1>1
  <2>2. pc'[t] \notin Unsent \cup {"release"}
    BY <1>1, <1>4
  <2>3. Sends(m)' <= 1 /\ \A n \in Message \ {m} : Sends(n)' = Sends(n)
    <3>1. /\ replied \in [Message -> Nat] /\ held \in [Message -> Nat]
          /\ replied[m] + held[m] = 0
      BY <1>2, <2>1 DEF TypeInv, TypeOK, Sends
    <3>2. CASE replied' = [replied EXCEPT ![m] = @ + 1] /\ held' = held
      BY <3>1, <3>2 DEF Sends
    <3>3. CASE held' = [held EXCEPT ![m] = @ + 1] /\ replied' = replied
      BY <3>1, <3>3 DEF Sends
    <3>4. CASE UNCHANGED <<replied, held>>
      BY <3>1, <3>4 DEF Sends
    <3>. QED  BY <2>1, <3>2, <3>3, <3>4, SendingProgress DEF Bump
  <2>4. Owns(t) /\ m \in claims'
    BY <1>1, <2>1, OwnsAt DEF Progress, ClaimInv, ClaimIsExclusive
  <2>5. AnsweredOnce'
    BY <2>3 DEF OnceInv, AnsweredOnce
  <2>6. (\A n \in Message : n \notin claims => Sends(n) = 0)'
    BY <1>1, <2>3, <2>4 DEF OnceInv, Progress
  <2>7. (\A u \in Task : pc[u] \in Unsent \cup {"release"} => Sends(msg[u]) = 0)'
    <3>. SUFFICES ASSUME NEW u \in Task, pc'[u] \in Unsent \cup {"release"}
                  PROVE  (Sends(msg[u]) = 0)'
      BY DEF OnceInv
    <3>1. u # t
      BY <2>2
    <3>2. pc[u] \in Unsent \cup {"release"} /\ msg'[u] = msg[u] /\ msg[u] \in Message
      BY <1>1, <3>1 DEF Progress, Moves, TypeInv, Unsent
    <3>3. Owns(u)
      BY <3>2, OwnsAt DEF Owning, Guarded, Unsent
    <3>4. msg[u] # m
      BY <2>1, <2>4, <3>1, <3>3 DEF ClaimInv, ClaimIsExclusive
    <3>. QED  BY <2>3, <3>2, <3>4 DEF OnceInv, Sends
  <2>. QED  BY <2>5, <2>6, <2>7 DEF OnceInv
<1>. QED  BY <1>3, <1>4, SendRaisesEmpty

LEMMA OnceNext ==
  ASSUME ClaimsLast
  PROVE  TypeInv /\ ClaimInv /\ OnceInv /\ [Next]_vars => OnceInv'
<1>. SUFFICES ASSUME TypeInv, ClaimInv, OnceInv, [Next]_vars PROVE OnceInv'
  OBVIOUS
<1>1. ASSUME NEW m \in Message, NEW t \in Task, ReceiveWebhook(m, t) PROVE OnceInv'
  <2>1. \A u \in Task : pc'[u] \in Unsent \cup {"release"} => pc[u] = pc'[u] /\ msg'[u] = msg[u]
    BY <1>1 DEF ReceiveWebhook, TypeInv, TypeOK, Unsent
  <2>2. UNCHANGED <<claims, replied, held>>
    BY <1>1 DEF ReceiveWebhook, sendVars
  <2>. QED  BY <2>1, <2>2 DEF OnceInv, AnsweredOnce, Sends
<1>2. ASSUME NEW t \in Task, Progress(t), UNCHANGED <<replied, held>>,
             pc[t] \in Unsent \/ faults' = faults
      PROVE  OnceInv'
  <2>1. pc[t] \in Unsent => Sends(msg[t]) = 0
    BY DEF OnceInv
  <2>2. OneFault(t) => faults' # faults
    BY <1>2, InboundAssumption DEF Progress, OneFault, TypeInv, TypeOK
  <2>3. claimed[t]
    BY <1>2 DEF Progress, ClaimInv
  <2>4. pc'[t] \in Unsent \cup {"release"} => Sends(msg[t]) = 0
    BY <1>2, <2>1, <2>2, <2>3 DEF Progress, Raised, Owning, Handled, Unsent
  <2>. QED  BY <1>2, <2>4, OnceKept DEF Progress
<1>3. ASSUME NEW t \in Task, Aside(t), UNCHANGED <<replied, held>> PROVE OnceInv'
  BY <1>3, OnceKept DEF Aside, Owning, Guarded, Unsent
<1>4. ASSUME NEW t \in Task, Claims(t) PROVE OnceInv'
  <2>1. msg[t] \in Message
    BY <1>4, RunningTask DEF Claims
  <2>2. Moves(t)
    BY <1>4 DEF Claims, Moves, TypeInv, TypeOK, PC, Running, Guarded
  <2>3. Sends(msg[t]) = 0
    BY <1>4, <2>1 DEF Claims, OnceInv
  <2>. QED  BY <1>4, <2>1, <2>2, <2>3, OnceKept DEF Claims
<1>5. ASSUME NEW t \in Task, Release(t) PROVE OnceInv'
  <2>1. msg[t] \in Message /\ Sends(msg[t]) = 0
    BY <1>5, RunningTask DEF Release, OnceInv
  <2>2. Moves(t) /\ pc'[t] \in {"queued", "failed"}
    BY <1>5, RetryMoves DEF Release, TypeInv
  <2>3. /\ \A m \in Message : Sends(m)' = Sends(m)
        /\ msg' = msg
        /\ claims \ {msg[t]} \subseteq claims'
    BY <1>5 DEF Release, Sends, sendVars, brokerVars
  <2>4. AnsweredOnce' /\ (\A m \in Message : m \notin claims => Sends(m) = 0)'
    BY <2>1, <2>3 DEF OnceInv, AnsweredOnce
  <2>5. \A u \in Task : pc'[u] \in Unsent \cup {"release"} => pc[u] = pc'[u]
    BY <2>2 DEF Moves, Unsent
  <2>6. (\A u \in Task : pc[u] \in Unsent \cup {"release"} => Sends(msg[u]) = 0)'
    BY <1>5, <2>3, <2>5 DEF OnceInv, Release, Sends, sendVars
  <2>. QED  BY <2>4, <2>6 DEF OnceInv
<1>6. ASSUME NEW m \in Message, ExpireClaim(m) PROVE OnceInv'
  BY <1>6 DEF ExpireClaim, ClaimsLast, Unclaiming
<1>7. ASSUME NEW c \in Chat, AgentResolves(c) PROVE OnceInv'
  BY <1>7 DEF AgentResolves, inboundVars, OnceInv, AnsweredOnce, Sends, brokerVars, sendVars
<1>8. CASE UNCHANGED vars
  BY <1>8 DEF vars, inboundVars, OnceInv, AnsweredOnce, Sends, brokerVars, sendVars
<1>9. ASSUME NEW t \in Task,
             \/ FindConversation(t) \/ CreateConversation(t) \/ Touch(t) \/ LogCustomer(t)
             \/ Handle(t)
      PROVE  OnceInv'
  <2>1. pc[t] \in Unsent
    BY <1>9 DEF FindConversation, CreateConversation, Touch, LogCustomer, Handle, Unsent
  <2>. QED  BY <1>2, <1>9, <2>1, WorkProgress
<1>10. ASSUME NEW t \in Task, LogJane(t) \/ Escalate(t) \/ Notify(t) PROVE OnceInv'
  BY <1>2, <1>10, LateStepsReturn, WorkProgress
<1>. QED
  BY <1>1, <1>3, <1>4, <1>5, <1>6, <1>7, <1>8, <1>9, <1>10, OnceSending, OthersAside
  DEF Next, InboundNext, Step, Sending

\* Unless a call raises after Jane's message went out, or a claim comes of age, a
\* question is answered at most once: whatever raises before or in the send, and
\* however often Meta delivers, Celery retries, and workers are killed.
THEOREM AnsweredAtMostOnce ==
  ASSUME ClaimsLast
  PROVE  Spec => []AnsweredOnce
<1>1. OnceInv => AnsweredOnce
  BY DEF OnceInv
<1>. QED
  BY TypeInit, TypeNext, ClaimInit, ClaimNext, OnceInit, OnceNext, <1>1, PTL DEF Spec

-----------------------------------------------------------------------------
(***************************************************************************)
(* Jane's silence, with any number of workers.  The snapshot a task        *)
(* decides on can be out of date when it sends (TLC finds that run), but   *)
(* only by an escalation of another question.                              *)
(***************************************************************************)
AtEscalated(t) == conv[ChatOf[msg[t]]].state = "escalated"

\* The snapshot of a task still holds, or the task has been overtaken; and so does
\* what follows from it, once the snapshot has been tested and is gone.
SnapshotHolds ==
  \A t \in Task :
    /\ pc[t] \in {"touch", "logCustomer"} /\ AtEscalated(t) => sawEscalated[t] \/ t \in overtaken
    /\ pc[t] \in {"handle", "sendReply", "sendHolding"} /\ AtEscalated(t) => t \in overtaken

LEMMA SnapshotInit == Init => SnapshotHolds
BY DEF Init, SnapshotHolds

\* What a step does to the snapshot of its own task.
LEMMA SnapshotStep ==
  ASSUME TypeInv, NEW t \in Task, Works(t), SnapshotHolds, Begin(t) \/ Step(t) \/ Kill(t)
  PROVE  /\ pc'[t] \in {"touch", "logCustomer"} /\ AtEscalated(t)'
              => sawEscalated'[t] \/ t \in overtaken'
         /\ pc'[t] \in {"handle", "sendReply", "sendHolding"} /\ AtEscalated(t)' => t \in overtaken'
<1>. DEFINE c == ChatOf[msg[t]]
<1>a. TypeOK /\ msg[t] \in Message /\ msg' = msg /\ c \in Chat
  BY InboundAssumption DEF TypeInv, Works
<1>. USE DEF handoffVars
<1>1. CASE FindConversation(t)
  <2>1. conv' = conv
    BY <1>1 DEF FindConversation
  <2>2. CASE conv[c] = NoDoc /\ Goto(t, "create")
    BY <1>a, <2>2 DEF Goto, TypeOK
  <2>3. CASE /\ Goto(t, "touch")
             /\ sawEscalated' = [sawEscalated EXCEPT ![t] = conv[c].state = "escalated"]
    BY <1>a, <2>1, <2>3 DEF Goto, TypeOK, AtEscalated
  <2>4. CASE Strike(t, "failed") /\ Raise(t)
    BY <1>a, <2>4, RaiseFalls DEF Fell
  <2>. QED  BY <1>1, <2>2, <2>3, <2>4 DEF FindConversation
<1>2. CASE CreateConversation(t)
  <2>1. CASE Raise(t)
    BY <1>a, <2>1, RaiseMoves DEF Raised
  <2>2. CASE \E o \in Outcome :
               /\ Finish(t, o, "touch")
               /\ conv' = IF Happened(o) THEN [conv EXCEPT ![c] = NewDoc] ELSE conv
    <3>1. PICK o \in Outcome :
            /\ Finish(t, o, "touch")
            /\ conv' = IF Happened(o) THEN [conv EXCEPT ![c] = NewDoc] ELSE conv
      BY <2>2
    <3>2. "touch" \in PC
      BY DEF PC, Running, Guarded
    <3>3. (o = "ok" /\ pc'[t] = "touch") \/ Fell(t)
      BY <1>a, <3>1, <3>2, FinishFalls
    <3>4. o = "ok" => conv'[c].state = "jane_handling"
      BY <1>a, <3>1 DEF Happened, TypeOK, NewDoc
    <3>. QED  BY <1>a, <3>3, <3>4 DEF Fell, AtEscalated
  <2>. QED  BY <1>2, <2>1, <2>2 DEF CreateConversation
<1>3. CASE Touch(t)
  <2>1. "logCustomer" \in PC
    BY DEF PC, Running, Guarded
  <2>2. pc'[t] = "logCustomer" \/ Fell(t)
    BY <1>3, <1>a, <2>1, FinishFalls DEF Touch
  <2>3. conv[c] \in Doc
    BY <1>3, <1>a DEF Touch, TypeInv, TypeOK, Located
  <2>4. Touched(conv[c]).state = conv[c].state
    BY <2>3 DEF Touched, Doc
  <2>5. conv'[c].state = conv[c].state /\ UNCHANGED <<sawEscalated, overtaken>>
    BY <1>3, <1>a, <2>4 DEF Touch, TypeOK
  <2>6. AtEscalated(t) => sawEscalated[t] \/ t \in overtaken
    BY <1>3 DEF Touch, SnapshotHolds
  <2>. QED  BY <1>a, <2>2, <2>5, <2>6 DEF Fell, AtEscalated
<1>4. CASE LogCustomer(t)
  <2>1. PICK o \in Outcome : Finish(t, o, IF sawEscalated[t] THEN "quiet" ELSE "handle")
    BY <1>4 DEF LogCustomer
  <2>2. (IF sawEscalated[t] THEN "quiet" ELSE "handle") \in PC
    BY DEF PC, Running, Guarded, Ended, Handled
  <2>3. pc'[t] = (IF sawEscalated[t] THEN "quiet" ELSE "handle") \/ Fell(t)
    BY <1>a, <2>1, <2>2, FinishFalls
  <2>4. /\ UNCHANGED <<conv, overtaken>>
        /\ AtEscalated(t) => sawEscalated[t] \/ t \in overtaken
    BY <1>4 DEF LogCustomer, SnapshotHolds
  <2>. QED  BY <1>a, <2>3, <2>4 DEF Fell, AtEscalated
<1>5. CASE Handle(t)
  <2>1. UNCHANGED <<conv, overtaken>> /\ (AtEscalated(t) => t \in overtaken)
    BY <1>5 DEF Handle, SnapshotHolds
  <2>2. pc'[t] \in {"sendReply", "sendHolding"} \/ Fell(t)
    BY <1>5, <1>a, RaiseFalls DEF Handle, Goto, TypeOK
  <2>. QED  BY <1>a, <2>1, <2>2 DEF Fell, AtEscalated
<1>6. CASE SendReply(t) \/ SendHolding(t) \/ LogJane(t) \/ Escalate(t) \/ Notify(t) \/ Release(t)
  BY <1>6, SendReplyWrites, SendHoldingWrites, LogJaneWrites, EscalateWrites, NotifyWrites,
     ReleaseWrites DEF Fell
<1>7. CASE Kill(t)
  BY <1>7, KillFalls DEF Fell
<1>8. CASE Begin(t)
  BY <1>8, <1>a DEF Begin, Goto, TypeOK
<1>9. CASE ResolveContext(t)
  BY <1>9, <1>a, RaiseFalls DEF ResolveContext, Goto, TypeOK, Fell
<1>10. CASE Claim(t)
  <2>1. pc'[t] \in {"duplicate", "find"} \/ Fell(t)
    BY <1>10, <1>a, RaiseFalls DEF Claim, Goto, TypeOK
  <2>. QED  BY <2>1 DEF Fell
<1>. QED
  BY <1>1, <1>2, <1>3, <1>4, <1>5, <1>6, <1>7, <1>8, <1>9, <1>10 DEF Step

\* What a step of t does to what another task u of its chat has read: it brings the
\* document to "escalated" only by Escalate, which overtakes u.
LEMMA SnapshotOfOthers ==
  ASSUME TypeInv, ClaimInv, NEW t \in Task, Works(t), Begin(t) \/ Step(t) \/ Kill(t),
         NEW u \in Task, u # t, pc[u] \in Informed \ {"create"}
  PROVE  /\ u \in overtaken => u \in overtaken'
         /\ AtEscalated(u)' => AtEscalated(u) \/ u \in overtaken'
<1>. DEFINE c == ChatOf[msg[t]]
            d == ChatOf[msg[u]]
<1>a. TypeOK /\ msg[t] \in Message /\ msg' = msg /\ c \in Chat
  BY InboundAssumption DEF TypeInv, Works
<1>b. msg[u] \in Message /\ d \in Chat /\ conv[d] \in Doc /\ conv[d] # NoDoc
  BY <1>a, RunningTask DEF TypeInv, TypeOK, Located, Informed
<1>. USE DEF handoffVars
<1>1. CASE CreateConversation(t)
  <2>1. conv' = conv \/ (conv[c] = NoDoc /\ conv' = [conv EXCEPT ![c] = NewDoc])
    BY <1>1 DEF CreateConversation
  <2>2. conv'[d] = conv[d]
    BY <1>a, <1>b, <2>1 DEF TypeOK
  <2>. QED  BY <1>1, <1>a, <2>2 DEF CreateConversation, AtEscalated
<1>2. CASE Touch(t)
  <2>1. conv' = conv \/ conv' = [conv EXCEPT ![c] = Touched(conv[c])]
    BY <1>2 DEF Touch
  <2>2. Touched(conv[d]).state = conv[d].state
    BY <1>b DEF Touched, Doc
  <2>3. conv'[d].state = conv[d].state
    BY <1>a, <1>b, <2>1, <2>2 DEF TypeOK
  <2>. QED  BY <1>2, <1>a, <2>3 DEF Touch, AtEscalated
<1>3. CASE Escalate(t)
  <2>1. msg[u] # msg[t]
    <3>1. pc[t] \in Owning /\ pc[u] \in Owning
      BY <1>3 DEF Escalate, Owning, Guarded, Informed
    <3>. QED  BY <3>1, HoldsAlone
  <2>2. CASE conv' = conv /\ overtaken' = overtaken
    BY <1>a, <2>2 DEF AtEscalated
  <2>3. CASE /\ conv' = [conv EXCEPT ![c] = Escalated(conv[c])]
             /\ overtaken' = overtaken \cup Overtakes(msg[t])
    <3>1. CASE c = d
      BY <2>1, <2>3, <3>1 DEF Overtakes
    <3>2. CASE c # d
      <4>1. conv'[d] = conv[d]
        BY <1>a, <1>b, <2>3, <3>2 DEF TypeOK
      <4>. QED  BY <1>a, <2>3, <4>1 DEF AtEscalated
    <3>. QED  BY <3>1, <3>2
  <2>. QED  BY <1>3, <2>2, <2>3 DEF Escalate
<1>4. CASE ~ (CreateConversation(t) \/ Touch(t) \/ Escalate(t))
  <2>1. conv' = conv
    BY <1>4 DEF Step, Kill, Begin, ResolveContext, Claim, FindConversation, LogCustomer, Handle,
       SendReply, SendHolding, LogJane, Notify, Release, WorkerLost, SoftTimeLimit, HardTimeLimit
  <2>2. overtaken' \in {overtaken, overtaken \ {t}}
    BY <1>4 DEF Step, Kill, Begin, ResolveContext, Claim, FindConversation, LogCustomer, Handle,
       SendReply, SendHolding, LogJane, Notify, Release, WorkerLost, SoftTimeLimit, HardTimeLimit
  <2>. QED  BY <1>a, <2>1, <2>2 DEF AtEscalated
<1>. QED  BY <1>1, <1>2, <1>3, <1>4

LEMMA SnapshotNext == TypeInv /\ ClaimInv /\ SnapshotHolds /\ [Next]_vars => SnapshotHolds'
<1>. SUFFICES ASSUME TypeInv, ClaimInv, SnapshotHolds, [Next]_vars PROVE SnapshotHolds'
  OBVIOUS
<1>1. ASSUME NEW m \in Message, NEW t \in Task, ReceiveWebhook(m, t) PROVE SnapshotHolds'
  <2>1. /\ UNCHANGED <<conv, sawEscalated, overtaken>>
        /\ pc'[t] = "queued"
        /\ \A u \in Task : u # t => pc'[u] = pc[u] /\ msg'[u] = msg[u]
    BY <1>1 DEF ReceiveWebhook, TypeInv, TypeOK, localVars, handoffVars
  <2>. QED  BY <2>1 DEF SnapshotHolds, AtEscalated
<1>2. ASSUME NEW t \in Task, Begin(t) \/ Step(t) \/ Kill(t) PROVE SnapshotHolds'
  <2>1. Works(t)
    BY <1>2, TaskSteps
  <2>2. /\ \A u \in Task : u # t => pc'[u] = pc[u]
        /\ \A u \in Task : u # t => sawEscalated'[u] = sawEscalated[u]
    <3>1. sawEscalated' = sawEscalated \/ \E b : sawEscalated' = [sawEscalated EXCEPT ![t] = b]
      BY <1>2 DEF Step, Kill, Begin, ResolveContext, Claim, FindConversation, CreateConversation,
         Touch, LogCustomer, Handle, SendReply, SendHolding, LogJane, Escalate, Notify, Release,
         WorkerLost, SoftTimeLimit, HardTimeLimit
    <3>. QED  BY <2>1, <3>1 DEF Works, Moves, TypeInv, TypeOK
  <2>. SUFFICES ASSUME NEW u \in Task
                PROVE  /\ pc'[u] \in {"touch", "logCustomer"} /\ AtEscalated(u)'
                            => sawEscalated'[u] \/ u \in overtaken'
                       /\ pc'[u] \in {"handle", "sendReply", "sendHolding"} /\ AtEscalated(u)'
                            => u \in overtaken'
    BY DEF SnapshotHolds
  <2>3. CASE u = t
    BY <1>2, <2>1, <2>3, SnapshotStep
  <2>4. CASE u # t
    BY <1>2, <2>1, <2>2, <2>4, SnapshotOfOthers DEF SnapshotHolds, Informed
  <2>. QED  BY <2>3, <2>4
<1>3. ASSUME NEW m \in Message, ExpireClaim(m) PROVE SnapshotHolds'
  BY <1>3 DEF ExpireClaim, SnapshotHolds, AtEscalated, brokerVars, localVars, handoffVars
<1>4. ASSUME NEW c \in Chat, AgentResolves(c) PROVE SnapshotHolds'
  <2>1. UNCHANGED <<pc, msg, sawEscalated, overtaken>>
    BY <1>4 DEF AgentResolves, inboundVars, brokerVars, localVars, handoffVars
  <2>2. Resolved(conv[c]).state = "jane_handling"
    BY <1>4 DEF AgentResolves, Resolved, TypeInv, TypeOK, Doc
  <2>3. \A d \in Chat : conv'[d].state = "escalated" => conv[d].state = "escalated"
    BY <1>4, <2>2 DEF AgentResolves, TypeInv, TypeOK
  <2>4. \A t \in Task : pc[t] # "idle" => (AtEscalated(t)' => AtEscalated(t))
    BY <2>1, <2>3, RunningTask DEF AtEscalated
  <2>. QED  BY <2>1, <2>4 DEF SnapshotHolds
<1>5. CASE UNCHANGED vars
  BY <1>5 DEF vars, inboundVars, brokerVars, localVars, handoffVars, SnapshotHolds, AtEscalated
<1>. QED
  BY <1>1, <1>2, <1>3, <1>4, <1>5 DEF Next, InboundNext

\* What QuietUnlessOvertaken says of one step.
QuietStep ==
  \A m \in Message :
    /\ Sends(m)' > Sends(m)
    /\ conv[ChatOf[m]] # NoDoc /\ conv[ChatOf[m]].state = "escalated"
    => \E t \in overtaken : msg[t] = m /\ pc[t] \in {"sendReply", "sendHolding"}

\* Whoever sends does so on a snapshot that holds, or has been overtaken.
LEMMA StepIsQuiet == TypeInv /\ ClaimInv /\ SnapshotHolds /\ [Next]_vars => [QuietStep]_vars
<1>. SUFFICES ASSUME TypeInv, ClaimInv, SnapshotHolds, Next,
                     NEW m \in Message, Sends(m)' > Sends(m), conv[ChatOf[m]].state = "escalated"
              PROVE  \E t \in overtaken : msg[t] = m /\ pc[t] \in {"sendReply", "sendHolding"}
  BY DEF QuietStep
<1>1. ~ UNCHANGED <<replied, held>> /\ Sends(m) \in Nat
  BY CountTypes DEF Sends
<1>2. PICK t \in Task : Begin(t) \/ Step(t) \/ Kill(t)
  BY <1>1 DEF Next, InboundNext, ReceiveWebhook, ExpireClaim, AgentResolves, inboundVars, sendVars
<1>3. SendReply(t) \/ SendHolding(t)
  BY <1>1, <1>2, TaskSteps, LogCustomerWrites, LogJaneWrites, EscalateWrites, NotifyWrites,
     ReleaseWrites DEF Leaves, sendVars
<1>4. m = msg[t]
  <2>1. Spares(m) => Sends(m)' = Sends(m)
    BY DEF Spares, Sends
  <2>. QED  BY <1>1, <1>2, <2>1, TaskSteps
<1>5. pc[t] \in {"sendReply", "sendHolding"} /\ t \in overtaken
  BY <1>3, <1>4 DEF SendReply, SendHolding, SnapshotHolds, AtEscalated
<1>. QED
  BY <1>4, <1>5

\* Whatever the number of workers, the faults, the kills and the agents, Jane speaks
\* on an escalated conversation only when another question has escalated it since
\* the task read its state.
THEOREM OnlyTheOvertakenSpeak == Spec => QuietUnlessOvertaken
<1>. QED
  BY TypeInit, TypeNext, ClaimInit, ClaimNext, SnapshotInit, SnapshotNext, StepIsQuiet, PTL
  DEF Spec, QuietUnlessOvertaken, QuietStep

===============================================================================
