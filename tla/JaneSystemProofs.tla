---------------------------- MODULE JaneSystemProofs ----------------------------
(***************************************************************************)
(* The whole service keeps what its parts promise, for any number of       *)
(* workers, agents, messages and conversations and every set of faults:    *)
(* conversations follow the lifecycle, and the pipeline is the one of      *)
(* MessageProcessor, so that what is proved there holds of the service.    *)
(*                                                                         *)
(* The argument is compositional: a step of the service is a step of one   *)
(* part, whose invariants are kept by the lemmas of that part's own proofs *)
(* module, and at most a write to one document for the others.             *)
(***************************************************************************)
EXTENDS JaneSystem, TLAPS

Workers == INSTANCE MessageProcessorOutcomes WITH conv <- SeenByTasks
Service == INSTANCE AgentReplyServiceProofs

-----------------------------------------------------------------------------
(***************************************************************************)
(* What the lemmas of the two parts assume of the constants.               *)
(***************************************************************************)
\* The parts' documents are the service's documents.
LEMMA SameDocs ==
  /\ Inbound!Doc = Doc /\ Agents!Doc = Doc /\ Pipeline!Doc = Doc
  /\ Workers!Doc = Doc /\ Service!Doc = Doc
BY DEF Doc, ConversationState, Inbound!Doc, Inbound!ConversationState,
   Agents!Doc, Agents!ConversationState, Pipeline!Doc, Pipeline!ConversationState,
   Workers!Doc, Workers!ConversationState, Service!Doc, Service!ConversationState

\* Those of MessageProcessor.
LEMMA ForWorkers ==
  /\ NoDoc \notin Workers!Doc
  /\ /\ TextMessage \subseteq Message
     /\ ChatOf \in [Message -> Chat]
     /\ HasInbox \subseteq Chat
     /\ Slots \in Nat \ {0}
     /\ MaxRetries \in Nat
     /\ MaxFaults \in Nat
     /\ NoMessage \notin Message
BY SameDocs, NoDocAssumption, SystemAssumption DEF Inbound!InboundAssumption

\* Those of AgentReplyService.
LEMMA ForService ==
  /\ NoDoc \notin Service!Doc
  /\ /\ ChatOfKey \in [Key -> Chat]
     /\ NoKey \notin Key
     /\ MaxStrikes \in Nat
     /\ MaxEscalations \in Nat
BY SameDocs, NoDocAssumption, SystemAssumption DEF Agents!AgentAssumption

LEMMA WorkersTyped == Workers!TypeInv /\ [Workers!Next]_(Workers!vars) => Workers!TypeInv'
BY ForWorkers, Workers!TypeNext

LEMMA ServiceTyped == Service!TypeInv /\ [Service!Next]_(Service!vars) => Service!TypeInv'
BY ForService, Service!TypeNext

-----------------------------------------------------------------------------
(***************************************************************************)
(* The writes to the documents.                                            *)
(***************************************************************************)
Documents == conv \in [Chat -> Doc \cup {NoDoc}]

\* Each write of ConversationDoc, to a document, gives a document.
LEMMA DocWrites ==
  /\ NewDoc \in Doc
  /\ \A d \in Doc : /\ Escalated(d) \in Doc /\ Resolved(d) \in Doc /\ Touched(d) \in Doc
                    /\ Aged(d) \in Doc /\ Purged(d) \in Doc
<1>1. NewDoc \in Doc
  BY DEF NewDoc, Doc, ConversationState
<1>2. ASSUME NEW d \in Doc PROVE Escalated(d) \in Doc
  <2>1. d.escalated_at + 1 \in Nat
    BY DEF Doc
  <2>2. Escalated(d) = [d EXCEPT !.state = "escalated", !.escalated_at = d.escalated_at + 1]
    BY DEF Escalated
  <2>. QED  BY <2>1, <2>2 DEF Doc, ConversationState
<1>3. ASSUME NEW d \in Doc
      PROVE  Resolved(d) \in Doc /\ Touched(d) \in Doc /\ Aged(d) \in Doc /\ Purged(d) \in Doc
  BY DEF Doc, ConversationState, Resolved, Touched, Aged, Purged
<1>. QED  BY <1>1, <1>2, <1>3

\* What one write makes of document c.
Writes(c, d) == conv' = [conv EXCEPT ![c] = d]

\* A task writes to no document, creates one, or writes to one that is there.
TaskWrites(c) ==
  \/ conv[c] = NoDoc /\ Writes(c, NewDoc)
  \/ conv[c] # NoDoc /\ Writes(c, Touched(conv[c]))
  \/ conv[c] # NoDoc /\ Writes(c, Escalated(conv[c]))

AgentWrites(c) == conv[c] # NoDoc /\ Writes(c, Resolved(conv[c]))

JobWrites(c) == conv[c] # NoDoc /\ (Writes(c, Aged(conv[c])) \/ Writes(c, Purged(conv[c])))

\* The steps of the pipeline that write to the documents, and what they write.
LEMMA InboundWrites ==
  ASSUME Documents, Workers!TypeInv, Inbound!InboundNext
  PROVE  conv' = conv \/ \E c \in Chat : TaskWrites(c)
<1>1. ASSUME NEW t \in Task, pc[t] # "idle" PROVE ChatOf[msg[t]] \in Chat
  BY <1>1, ForWorkers DEF Workers!TypeInv
<1>2. ASSUME NEW t \in Task, pc[t] \in {"touch", "escalate"} PROVE conv[ChatOf[msg[t]]] # NoDoc
  BY <1>1, <1>2 DEF Workers!TypeInv, Workers!Located, SeenByTasks
<1>3. ASSUME NEW t \in Task, Inbound!CreateConversation(t)
      PROVE  conv' = conv \/ \E c \in Chat : TaskWrites(c)
  <2>1. ChatOf[msg[t]] \in Chat
    BY <1>1, <1>3 DEF Inbound!CreateConversation
  <2>. QED
    BY <1>3, <2>1 DEF Inbound!CreateConversation, TaskWrites, Writes, NewDoc, Inbound!NewDoc
<1>4. ASSUME NEW t \in Task, Inbound!Touch(t)
      PROVE  conv' = conv \/ \E c \in Chat : TaskWrites(c)
  <2>1. ChatOf[msg[t]] \in Chat /\ conv[ChatOf[msg[t]]] # NoDoc
    BY <1>1, <1>2, <1>4 DEF Inbound!Touch
  <2>. QED
    BY <1>4, <2>1 DEF Inbound!Touch, TaskWrites, Writes, Touched, Inbound!Touched
<1>5. ASSUME NEW t \in Task, Inbound!Escalate(t)
      PROVE  conv' = conv \/ \E c \in Chat : TaskWrites(c)
  <2>1. ChatOf[msg[t]] \in Chat /\ conv[ChatOf[msg[t]]] # NoDoc
    BY <1>1, <1>2, <1>5 DEF Inbound!Escalate
  <2>. QED
    BY <1>5, <2>1 DEF Inbound!Escalate, TaskWrites, Writes, Escalated, Inbound!Escalated
<1>6. ASSUME NEW t \in Task,
             \/ Inbound!ResolveContext(t) \/ Inbound!Claim(t) \/ Inbound!FindConversation(t)
             \/ Inbound!LogCustomer(t) \/ Inbound!Handle(t) \/ Inbound!SendReply(t)
             \/ Inbound!SendHolding(t) \/ Inbound!LogJane(t) \/ Inbound!Notify(t)
             \/ Inbound!Release(t)
      PROVE  conv' = conv
  BY <1>6 DEF Inbound!ResolveContext, Inbound!Claim, Inbound!FindConversation,
     Inbound!LogCustomer, Inbound!Handle, Inbound!SendReply, Inbound!SendHolding,
     Inbound!LogJane, Inbound!Notify, Inbound!Release
<1>7. ASSUME NEW t \in Task, Inbound!Begin(t) \/ Inbound!Kill(t) PROVE conv' = conv
  BY <1>7 DEF Inbound!Begin, Inbound!Kill, Inbound!WorkerLost, Inbound!SoftTimeLimit,
     Inbound!HardTimeLimit
<1>8. ASSUME NEW m \in Message, Inbound!ExpireClaim(m) \/ \E t \in Task : Inbound!ReceiveWebhook(m, t)
      PROVE  conv' = conv
  BY <1>8 DEF Inbound!ExpireClaim, Inbound!ReceiveWebhook
<1>. QED
  BY <1>3, <1>4, <1>5, <1>6, <1>7, <1>8 DEF Inbound!InboundNext, Inbound!Step

-----------------------------------------------------------------------------
(***************************************************************************)
(* What the workers see of the documents.                                  *)
(***************************************************************************)
\* The workers see whether a document is there, and all of it but its number
\* and its age.
Cover(d) == [d EXCEPT !.phone = TRUE, !.recent = TRUE]

LEMMA Seen ==
  ASSUME Documents, NEW c \in Chat
  PROVE  /\ conv[c] = NoDoc => SeenByTasks[c] = NoDoc
         /\ conv[c] # NoDoc => /\ conv[c] \in Doc
                               /\ SeenByTasks[c] = Cover(conv[c]) /\ Cover(conv[c]) \in Doc
                               /\ SeenByTasks[c] # NoDoc
                               /\ SeenByTasks[c].state = conv[c].state
<1>1. CASE conv[c] = NoDoc
  BY <1>1 DEF SeenByTasks
<1>2. CASE conv[c] # NoDoc
  <2>1. conv[c] \in Doc
    BY <1>2 DEF Documents
  <2>2. SeenByTasks[c] = Cover(conv[c])
    BY <1>2 DEF SeenByTasks, Cover
  <2>3. Cover(conv[c]) \in Doc /\ Cover(conv[c]).state = conv[c].state
    BY <2>1 DEF Cover, Doc, ConversationState
  <2>. QED  BY <1>2, <2>1, <2>2, <2>3, NoDocAssumption
<1>. QED  BY <1>1, <1>2

\* The writes of a task and of an agent mean the same under the cover; those of
\* the retention job do not show.
LEMMA Covers ==
  ASSUME NEW d \in Doc
  PROVE  /\ Cover(NewDoc) = NewDoc
         /\ Cover(Touched(d)) = Touched(Cover(d))
         /\ Cover(Escalated(d)) = Escalated(Cover(d))
         /\ Cover(Resolved(d)) = Resolved(Cover(d))
         /\ Cover(Aged(d)) = Cover(d) /\ Cover(Purged(d)) = Cover(d)
<1>1. Cover(NewDoc) = NewDoc
  <2>1. ASSUME NEW e \in Doc, e.phone = TRUE, e.recent = TRUE PROVE Cover(e) = e
    BY <2>1 DEF Cover, Doc
  <2>2. NewDoc \in Doc /\ NewDoc.phone = TRUE /\ NewDoc.recent = TRUE
    BY DocWrites DEF NewDoc
  <2>. QED  BY <2>1, <2>2
<1>2. Cover(Touched(d)) = Touched(Cover(d))
  BY DEF Cover, Doc, Touched
<1>5. Cover(Aged(d)) = Cover(d)
  BY DEF Cover, Doc, Aged
<1>6. Cover(Purged(d)) = Cover(d)
  BY DEF Cover, Doc, Purged
<1>3. Cover(Resolved(d)) = Resolved(Cover(d))
  BY DEF Cover, Doc, Resolved
<1>4. Cover(Escalated(d)) = Escalated(Cover(d))
  <2>1. /\ Escalated(d) = [d EXCEPT !.state = "escalated", !.escalated_at = d.escalated_at + 1]
        /\ Escalated(Cover(d)) =
             [Cover(d) EXCEPT !.state = "escalated", !.escalated_at = Cover(d).escalated_at + 1]
    BY DEF Escalated
  <2>2. Cover(d).escalated_at = d.escalated_at
    BY DEF Cover, Doc
  <2>. QED  BY <2>1, <2>2 DEF Cover, Doc
<1>. QED  BY <1>1, <1>2, <1>3, <1>4, <1>5, <1>6

\* A write to one document is a write to what is seen of it.
LEMMA SeenWrite ==
  ASSUME Documents, NEW c \in Chat, NEW d \in Doc, Writes(c, d)
  PROVE  Documents' /\ SeenByTasks' = [SeenByTasks EXCEPT ![c] = Cover(d)]
<1>1. conv'[c] = d /\ d # NoDoc /\ \A e \in Chat : e # c => conv'[e] = conv[e]
  BY NoDocAssumption DEF Documents, Writes
<1>2. Documents'
  BY DEF Documents, Writes
<1>3. \A e \in Chat : SeenByTasks'[e] = IF e = c THEN Cover(d) ELSE SeenByTasks[e]
  BY <1>1 DEF SeenByTasks, Cover
<1>4. SeenByTasks' = [e \in Chat |-> SeenByTasks'[e]]
  BY DEF SeenByTasks
<1>5. SeenByTasks = [e \in Chat |-> SeenByTasks[e]]
  BY DEF SeenByTasks
<1>. QED  BY <1>2, <1>3, <1>4, <1>5

LEMMA SeenSame == UNCHANGED conv => UNCHANGED SeenByTasks
BY DEF SeenByTasks

-----------------------------------------------------------------------------
(***************************************************************************)
(* The pipeline in the service is the pipeline of MessageProcessor.        *)
(***************************************************************************)
\* A step of the pipeline, on the documents as they are, is one on what the
\* workers see of them.
LEMMA TasksSee ==
  ASSUME Documents, Workers!TypeInv, Inbound!InboundNext
  PROVE  Workers!InboundNext
<1>. USE DEF
     Inbound!Goto, Workers!Goto, Inbound!Strike, Workers!Strike, Inbound!Raise,
     Workers!Raise, Inbound!Retry, Workers!Retry, Inbound!Finish, Workers!Finish,
     Inbound!Bump, Workers!Bump, Inbound!Happened, Workers!Happened, Inbound!Outcome,
     Workers!Outcome, Inbound!Running, Workers!Running, Inbound!Guarded,
     Workers!Guarded, Inbound!Owns, Workers!Owns, Inbound!brokerVars,
     Workers!brokerVars, Inbound!localVars, Workers!localVars, Inbound!rowVars,
     Workers!rowVars, Inbound!sendVars, Workers!sendVars, Inbound!handoffVars,
     Workers!handoffVars, Inbound!inboundVars, Workers!inboundVars, Inbound!vars,
     Workers!vars, Inbound!Overtakes, Workers!Overtakes, Inbound!Informed, Workers!Informed
<1>1. \A t \in Task : pc[t] # "idle" => ChatOf[msg[t]] \in Chat
  BY ForWorkers DEF Workers!TypeInv
<1>2. \A t \in Task : pc[t] \in {"touch", "escalate"} => conv[ChatOf[msg[t]]] # NoDoc
  BY <1>1, Seen DEF Workers!TypeInv, Workers!Located
<1>3. ASSUME NEW t \in Task,
             \/ Inbound!ResolveContext(t) \/ Inbound!Claim(t) \/ Inbound!LogCustomer(t)
             \/ Inbound!Handle(t) \/ Inbound!SendReply(t) \/ Inbound!SendHolding(t)
             \/ Inbound!LogJane(t) \/ Inbound!Notify(t) \/ Inbound!Release(t)
      PROVE  Workers!Step(t)
  <2>1. UNCHANGED SeenByTasks
    BY <1>3, SeenSame DEF
       Inbound!ResolveContext, Inbound!Claim, Inbound!LogCustomer, Inbound!Handle,
       Inbound!SendReply, Inbound!SendHolding, Inbound!LogJane, Inbound!Notify,
       Inbound!Release
  <2>. QED
    BY <1>3, <2>1 DEF Workers!Step,
       Inbound!ResolveContext, Workers!ResolveContext, Inbound!Claim, Workers!Claim,
       Inbound!LogCustomer, Workers!LogCustomer, Inbound!Handle, Workers!Handle,
       Inbound!SendReply, Workers!SendReply, Inbound!SendHolding, Workers!SendHolding,
       Inbound!LogJane, Workers!LogJane, Inbound!Notify, Workers!Notify,
       Inbound!Release, Workers!Release
<1>4. ASSUME NEW t \in Task, Inbound!FindConversation(t) PROVE Workers!FindConversation(t)
  <2>1. UNCHANGED SeenByTasks /\ ChatOf[msg[t]] \in Chat
    BY <1>1, <1>4, SeenSame DEF Inbound!FindConversation
  <2>. QED
    BY <1>4, <2>1, Seen DEF Inbound!FindConversation, Workers!FindConversation
<1>5. ASSUME NEW t \in Task, Inbound!CreateConversation(t) PROVE Workers!CreateConversation(t)
  <2>. DEFINE c == ChatOf[msg[t]]
  <2>1. c \in Chat
    BY <1>1, <1>5 DEF Inbound!CreateConversation
  <2>2. ASSUME conv' = [conv EXCEPT ![c] = NewDoc]
        PROVE  SeenByTasks' = [SeenByTasks EXCEPT ![c] = NewDoc]
    <3>. HIDE DEF c
    <3>1. NewDoc \in Doc /\ Cover(NewDoc) = NewDoc
      BY DocWrites, Covers
    <3>2. Writes(c, NewDoc)
      BY <2>2 DEF Writes
    <3>. QED  BY <2>1, <3>1, <3>2, SeenWrite
  <2>3. NewDoc = Inbound!NewDoc /\ NewDoc = Workers!NewDoc
    BY DEF NewDoc, Inbound!NewDoc, Workers!NewDoc
  <2>. QED
    BY <1>5, <2>1, <2>2, <2>3, Seen, SeenSame
    DEF Inbound!CreateConversation, Workers!CreateConversation
<1>6. ASSUME NEW t \in Task, Inbound!Touch(t) PROVE Workers!Touch(t)
  <2>. DEFINE c == ChatOf[msg[t]]
  <2>1. c \in Chat /\ conv[c] \in Doc /\ SeenByTasks[c] = Cover(conv[c])
    BY <1>1, <1>2, <1>6, Seen DEF Inbound!Touch
  <2>2. ASSUME conv' = [conv EXCEPT ![c] = Touched(conv[c])]
        PROVE  SeenByTasks' = [SeenByTasks EXCEPT ![c] = Touched(SeenByTasks[c])]
    <3>. HIDE DEF c
    <3>1. Touched(conv[c]) \in Doc /\ Cover(Touched(conv[c])) = Touched(Cover(conv[c]))
      BY <2>1, DocWrites, Covers
    <3>2. Writes(c, Touched(conv[c]))
      BY <2>2 DEF Writes
    <3>. QED  BY <2>1, <3>1, <3>2, SeenWrite
  <2>. QED
    BY <1>6, <2>2, SeenSame
    DEF Inbound!Touch, Workers!Touch, Touched, Inbound!Touched, Workers!Touched
<1>7. ASSUME NEW t \in Task, Inbound!Escalate(t) PROVE Workers!Escalate(t)
  <2>. DEFINE c == ChatOf[msg[t]]
  <2>1. c \in Chat /\ conv[c] \in Doc /\ SeenByTasks[c] = Cover(conv[c])
    BY <1>1, <1>2, <1>7, Seen DEF Inbound!Escalate
  <2>2. ASSUME conv' = [conv EXCEPT ![c] = Escalated(conv[c])]
        PROVE  SeenByTasks' = [SeenByTasks EXCEPT ![c] = Escalated(SeenByTasks[c])]
    <3>. HIDE DEF c
    <3>1. Escalated(conv[c]) \in Doc /\ Cover(Escalated(conv[c])) = Escalated(Cover(conv[c]))
      BY <2>1, DocWrites, Covers
    <3>2. Writes(c, Escalated(conv[c]))
      BY <2>2 DEF Writes
    <3>. QED  BY <2>1, <3>1, <3>2, SeenWrite
  <2>. QED
    BY <1>7, <2>2, SeenSame
    DEF Inbound!Escalate, Workers!Escalate, Escalated, Inbound!Escalated, Workers!Escalated
<1>8. ASSUME NEW t \in Task, Inbound!Begin(t) \/ Inbound!Kill(t)
      PROVE  Workers!Begin(t) \/ Workers!Kill(t)
  <2>1. UNCHANGED SeenByTasks
    BY <1>8, SeenSame DEF
       Inbound!Begin, Inbound!Kill, Inbound!WorkerLost, Inbound!SoftTimeLimit,
       Inbound!HardTimeLimit
  <2>2. ASSUME Inbound!Begin(t) PROVE Workers!Begin(t)
    <3>1. \A S : Inbound!Cardinality(S) = Workers!Cardinality(S)
      BY DEF Inbound!Cardinality, Workers!Cardinality
    <3>2. Inbound!Running = Workers!Running
      OBVIOUS
    <3>. HIDE DEF Inbound!Running, Workers!Running
    <3>. QED  BY <2>1, <2>2, <3>1, <3>2 DEF Inbound!Begin, Workers!Begin
  <2>3. Inbound!WorkerLost(t) => Workers!WorkerLost(t)
    BY <2>1 DEF Inbound!WorkerLost, Workers!WorkerLost
  <2>4. Inbound!SoftTimeLimit(t) => Workers!SoftTimeLimit(t)
    BY <2>1 DEF Inbound!SoftTimeLimit, Workers!SoftTimeLimit
  <2>5. Inbound!HardTimeLimit(t) => Workers!HardTimeLimit(t)
    BY <2>1 DEF Inbound!HardTimeLimit, Workers!HardTimeLimit
  <2>. QED
    BY <1>8, <2>2, <2>3, <2>4, <2>5 DEF Inbound!Kill, Workers!Kill
<1>9. ASSUME NEW m \in Message, NEW t \in Task, Inbound!ReceiveWebhook(m, t)
      PROVE  Workers!ReceiveWebhook(m, t)
  BY <1>9, SeenSame DEF Inbound!ReceiveWebhook, Workers!ReceiveWebhook
<1>10. ASSUME NEW m \in Message, Inbound!ExpireClaim(m) PROVE Workers!ExpireClaim(m)
  BY <1>10, SeenSame DEF Inbound!ExpireClaim, Workers!ExpireClaim
<1>. QED
  BY <1>3, <1>4, <1>5, <1>6, <1>7, <1>8, <1>9, <1>10
  DEF Inbound!InboundNext, Inbound!Step, Workers!InboundNext, Workers!Step

\* The two instances of the pipeline are one.
LEMMA SamePipeline == Workers!Spec <=> Pipeline!Spec
<1>. USE DEF
     Workers!Goto, Pipeline!Goto, Workers!Strike, Pipeline!Strike, Workers!Raise,
     Pipeline!Raise, Workers!Retry, Pipeline!Retry, Workers!Finish, Pipeline!Finish,
     Workers!Bump, Pipeline!Bump, Workers!Happened, Pipeline!Happened, Workers!Outcome,
     Pipeline!Outcome, Workers!Owns, Pipeline!Owns, Workers!brokerVars,
     Pipeline!brokerVars, Workers!localVars, Pipeline!localVars, Workers!rowVars,
     Pipeline!rowVars, Workers!sendVars, Pipeline!sendVars, Workers!handoffVars,
     Pipeline!handoffVars, Workers!inboundVars, Pipeline!inboundVars, Workers!vars,
     Pipeline!vars, Workers!NewDoc, Pipeline!NewDoc, Workers!Touched, Pipeline!Touched,
     Workers!Escalated, Pipeline!Escalated, Workers!Resolved, Pipeline!Resolved,
     Workers!Overtakes, Pipeline!Overtakes, Workers!Informed, Pipeline!Informed
<1>1. \A S : Workers!Cardinality(S) = Pipeline!Cardinality(S)
  BY DEF Workers!Cardinality, Pipeline!Cardinality
<1>2. Workers!Running = Pipeline!Running
  BY DEF Workers!Running, Workers!Guarded, Pipeline!Running, Pipeline!Guarded
<1>3. Workers!Guarded = Pipeline!Guarded
  BY DEF Workers!Guarded, Pipeline!Guarded
<1>4. \A t \in Task :
           /\ Workers!Begin(t) <=> Pipeline!Begin(t)
  BY <1>1, <1>2, <1>3 DEF
     Workers!Begin, Pipeline!Begin
<1>5. \A t \in Task :
           /\ Workers!ResolveContext(t) <=> Pipeline!ResolveContext(t)
           /\ Workers!Claim(t) <=> Pipeline!Claim(t)
           /\ Workers!FindConversation(t) <=> Pipeline!FindConversation(t)
           /\ Workers!CreateConversation(t) <=> Pipeline!CreateConversation(t)
  BY <1>1, <1>2, <1>3 DEF
     Workers!ResolveContext, Pipeline!ResolveContext, Workers!Claim, Pipeline!Claim,
     Workers!FindConversation, Pipeline!FindConversation, Workers!CreateConversation,
     Pipeline!CreateConversation
<1>6. \A t \in Task :
           /\ Workers!Touch(t) <=> Pipeline!Touch(t)
           /\ Workers!LogCustomer(t) <=> Pipeline!LogCustomer(t)
           /\ Workers!Handle(t) <=> Pipeline!Handle(t)
           /\ Workers!SendReply(t) <=> Pipeline!SendReply(t)
           /\ Workers!SendHolding(t) <=> Pipeline!SendHolding(t)
  BY <1>1, <1>2, <1>3 DEF
     Workers!Touch, Pipeline!Touch, Workers!LogCustomer, Pipeline!LogCustomer,
     Workers!Handle, Pipeline!Handle, Workers!SendReply, Pipeline!SendReply,
     Workers!SendHolding, Pipeline!SendHolding
<1>7. \A t \in Task :
           /\ Workers!LogJane(t) <=> Pipeline!LogJane(t)
           /\ Workers!Escalate(t) <=> Pipeline!Escalate(t)
           /\ Workers!Notify(t) <=> Pipeline!Notify(t)
           /\ Workers!Release(t) <=> Pipeline!Release(t)
  BY <1>1, <1>2, <1>3 DEF
     Workers!LogJane, Pipeline!LogJane, Workers!Escalate, Pipeline!Escalate,
     Workers!Notify, Pipeline!Notify, Workers!Release, Pipeline!Release
<1>8. \A t \in Task :
           /\ Workers!WorkerLost(t) <=> Pipeline!WorkerLost(t)
           /\ Workers!SoftTimeLimit(t) <=> Pipeline!SoftTimeLimit(t)
           /\ Workers!HardTimeLimit(t) <=> Pipeline!HardTimeLimit(t)
  BY <1>1, <1>2, <1>3 DEF
     Workers!WorkerLost, Pipeline!WorkerLost, Workers!SoftTimeLimit,
     Pipeline!SoftTimeLimit, Workers!HardTimeLimit, Pipeline!HardTimeLimit
<1>9. \A m \in Message, t \in Task : Workers!ReceiveWebhook(m, t) <=> Pipeline!ReceiveWebhook(m, t)
  BY <1>2, <1>3 DEF Workers!ReceiveWebhook, Pipeline!ReceiveWebhook
<1>10. \A m \in Message : Workers!ExpireClaim(m) <=> Pipeline!ExpireClaim(m)
  BY <1>2, <1>3 DEF Workers!ExpireClaim, Pipeline!ExpireClaim
<1>11. \A c \in Chat : Workers!AgentResolves(c) <=> Pipeline!AgentResolves(c)
  BY <1>2, <1>3 DEF Workers!AgentResolves, Pipeline!AgentResolves
<1>12. [Workers!Next]_(Workers!vars) <=> [Pipeline!Next]_(Pipeline!vars)
  BY <1>4, <1>5, <1>6, <1>7, <1>8, <1>9, <1>10, <1>11 DEF
     Workers!Next, Pipeline!Next, Workers!InboundNext, Pipeline!InboundNext,
     Workers!Step, Pipeline!Step, Workers!Kill, Pipeline!Kill
<1>13. Workers!Init <=> Pipeline!Init
  BY DEF Workers!Init, Pipeline!Init
<1>. QED  BY <1>12, <1>13, PTL DEF Workers!Spec, Pipeline!Spec

-----------------------------------------------------------------------------
(***************************************************************************)
(* The steps of the agents' requests.                                      *)
(***************************************************************************)
\* The two instances of the agent side are one.
LEMMA SameService == Agents!AgentNext <=> Service!AgentNext
<1>. USE DEF
     Agents!Goto, Service!Goto, Agents!Strike, Service!Strike, Agents!Raise,
     Service!Raise, Agents!Finish, Service!Finish, Agents!ReadFails, Service!ReadFails,
     Agents!Bump, Service!Bump, Agents!Applied, Service!Applied, Agents!AgentOutcome,
     Service!AgentOutcome, Agents!Doubtful, Service!Doubtful, Agents!Holds,
     Service!Holds, Agents!Owning, Service!Owning, Agents!Serving, Service!Serving,
     Agents!faultVars, Service!faultVars, Agents!requestVars, Service!requestVars,
     Agents!readVars, Service!readVars
<1>1. \A r \in Request :
           /\ Agents!PostResolve(r) <=> Service!PostResolve(r)
           /\ Agents!LookupClaim(r) <=> Service!LookupClaim(r)
           /\ Agents!AnswerAlreadySent(r) <=> Service!AnswerAlreadySent(r)
           /\ Agents!CheckConversation(r) <=> Service!CheckConversation(r)
  BY DEF
     Agents!PostResolve, Service!PostResolve, Agents!LookupClaim, Service!LookupClaim,
     Agents!AnswerAlreadySent, Service!AnswerAlreadySent, Agents!CheckConversation,
     Service!CheckConversation
<1>2. \A r \in Request :
           /\ Agents!InsertClaim(r) <=> Service!InsertClaim(r)
           /\ Agents!ResolveSendTarget(r) <=> Service!ResolveSendTarget(r)
           /\ Agents!SendMessage(r) <=> Service!SendMessage(r)
           /\ Agents!MarkSent(r) <=> Service!MarkSent(r)
  BY DEF
     Agents!InsertClaim, Service!InsertClaim, Agents!ResolveSendTarget,
     Service!ResolveSendTarget, Agents!SendMessage, Service!SendMessage,
     Agents!MarkSent, Service!MarkSent
<1>3. \A r \in Request :
           /\ Agents!ReleaseClaim(r) <=> Service!ReleaseClaim(r)
           /\ Agents!LogReply(r) <=> Service!LogReply(r)
           /\ Agents!ResolveFind(r) <=> Service!ResolveFind(r)
           /\ Agents!ResolveUpdate(r) <=> Service!ResolveUpdate(r)
           /\ Agents!ServerLost(r) <=> Service!ServerLost(r)
  BY DEF
     Agents!ReleaseClaim, Service!ReleaseClaim, Agents!LogReply, Service!LogReply,
     Agents!ResolveFind, Service!ResolveFind, Agents!ResolveUpdate,
     Service!ResolveUpdate, Agents!ServerLost, Service!ServerLost, Agents!Resolved,
     Service!Resolved
<1>4. \A r \in Request, k \in Key : Agents!PostReply(r, k) <=> Service!PostReply(r, k)
  BY DEF Agents!PostReply, Service!PostReply
<1>5. \A k \in Key : Agents!ExpireAgentClaim(k) <=> Service!ExpireAgentClaim(k)
  BY DEF Agents!ExpireAgentClaim, Service!ExpireAgentClaim
<1>. QED
  BY <1>1, <1>2, <1>3, <1>4, <1>5 DEF
     Agents!AgentNext, Agents!Serve, Service!AgentNext, Service!Serve

\* A step of a request that is being served leaves the others where they are; it
\* writes to its conversation only when it resolves it, which is its last step.
RequestMoves(r) ==
  /\ rpc[r] \in Agents!Serving
  /\ rchat' = rchat
  /\ \A q \in Request : q # r => rpc'[q] = rpc[q]
  /\ \/ conv' = conv
     \/ rpc'[r] \notin Agents!Serving /\ AgentWrites(rchat[r])

\* A request comes in.
RequestArrives(r) ==
  /\ rpc[r] \notin Agents!Serving /\ rpc'[r] \in Agents!Serving
  /\ rchat'[r] \in Chat
  /\ \A q \in Request : q # r => rpc'[q] = rpc[q] /\ rchat'[q] = rchat[q]
  /\ conv' = conv

LEMMA AgentSteps ==
  ASSUME Service!TypeInv, Service!AgentNext
  PROVE  \/ \E r \in Request : RequestMoves(r) \/ RequestArrives(r)
         \/ UNCHANGED <<rpc, rchat, conv>>
<1>. USE DEF Agents!Serving, Agents!Owning
<1>1. ASSUME NEW r \in Request, Service!Serve(r) \/ Service!ServerLost(r) PROVE RequestMoves(r)
  <2>1. Service!Serves(r)
    <3>1. Service!Kinds(r)
      BY <1>1, ForService, Service!RequestKinds
    <3>. QED  BY <3>1 DEF Service!Kinds, Service!Aside, Service!Claims, Service!Progress,
              Service!Delivers, Service!Frees
  <2>2. rpc[r] \in Agents!Serving
    BY <1>1 DEF Service!Serve, Service!ServerLost, Service!Serving, Service!Owning,
       Service!LookupClaim, Service!AnswerAlreadySent, Service!CheckConversation,
       Service!InsertClaim, Service!ResolveSendTarget, Service!SendMessage, Service!MarkSent,
       Service!ReleaseClaim, Service!LogReply, Service!ResolveFind, Service!ResolveUpdate
  <2>3. CASE Service!ResolveUpdate(r)
    <3>1. rpc[r] = "resolveUpdate" /\ conv[rchat[r]] # NoDoc
      BY <2>3 DEF Service!ResolveUpdate, Service!TypeInv
    <3>2. rpc'[r] \in {"resolved", "sent", "error"}
      BY <2>3, <3>1 DEF Service!ResolveUpdate, Service!Finish, Service!Goto, Service!Raise,
         Service!TypeInv, Service!TypeOK
    <3>3. conv' = conv \/ AgentWrites(rchat[r])
      BY <2>3, <3>1 DEF Service!ResolveUpdate, AgentWrites, Writes, Resolved, Service!Resolved
    <3>. QED  BY <2>1, <2>2, <3>2, <3>3 DEF RequestMoves, Service!Serves, Service!Moves
  <2>4. CASE ~ Service!ResolveUpdate(r)
    <3>1. conv' = conv
      BY <1>1, <2>4 DEF Service!Serve, Service!ServerLost,
         Service!LookupClaim, Service!AnswerAlreadySent, Service!CheckConversation,
         Service!InsertClaim, Service!ResolveSendTarget, Service!SendMessage, Service!MarkSent,
         Service!ReleaseClaim, Service!LogReply, Service!ResolveFind
    <3>. QED  BY <2>1, <2>2, <3>1 DEF RequestMoves, Service!Serves, Service!Moves
  <2>. QED  BY <2>3, <2>4
<1>2. ASSUME NEW r \in Request, NEW k \in Key, Service!PostReply(r, k) PROVE RequestArrives(r)
  BY <1>2, ForService
  DEF Service!PostReply, Service!Goto, Service!TypeInv, Service!TypeOK, RequestArrives
<1>3. ASSUME NEW r \in Request, Service!PostResolve(r) PROVE RequestArrives(r)
  BY <1>3
  DEF Service!PostResolve, Service!Goto, Service!TypeInv, Service!TypeOK, RequestArrives,
      Service!requestVars
<1>4. ASSUME NEW k \in Key, Service!ExpireAgentClaim(k) PROVE UNCHANGED <<rpc, rchat, conv>>
  BY <1>4 DEF Service!ExpireAgentClaim, Service!requestVars
<1>. QED  BY <1>1, <1>2, <1>3, <1>4 DEF Service!AgentNext

-----------------------------------------------------------------------------
(***************************************************************************)
(* The invariant.                                                          *)
(***************************************************************************)
\* Nobody closes a conversation.
NeverClosed == \A c \in Chat : conv[c] # NoDoc => conv[c].state # "closed"

\* What the proofs of the parts keep of their own, on the documents as each of
\* them sees them, and what the parts have in common.
SystemInv ==
  /\ Documents /\ NeverClosed
  /\ Workers!TypeInv
  /\ Service!TypeInv /\ Service!KeyIsExclusive /\ Service!PaidInv /\ Service!TruthInv

LEMMA SystemInit == Init => SystemInv
<1>. SUFFICES ASSUME Init PROVE SystemInv
  OBVIOUS
<1>1. conv = [c \in Chat |-> NoDoc]
  BY DEF Init, Inbound!Init
<1>2. Documents /\ NeverClosed
  BY <1>1 DEF Documents, NeverClosed
<1>3. Workers!Init
  <2>1. SeenByTasks = [c \in Chat |-> NoDoc]
    BY <1>1 DEF SeenByTasks
  <2>. QED  BY <2>1 DEF Init, Inbound!Init, Workers!Init
<1>4. Service!Init
  BY <1>1 DEF Init, Agents!AgentInit, Service!Init, Service!AgentInit
<1>5. Workers!TypeInv
  BY <1>3, ForWorkers, Workers!TypeInit
<1>6. Service!TypeInv /\ Service!KeyIsExclusive /\ Service!PaidInv
  BY <1>4, ForService, Service!TypeInit, Service!ClaimInit, Service!PaidInit
<1>7. Service!TruthInv
  BY <1>4, ForService, Service!TruthInit DEF Service!Init
<1>. QED  BY <1>2, <1>5, <1>6, <1>7 DEF SystemInv

\* Every step writes to one document at most, and its writer is known by it.
LEMMA SystemWrites ==
  ASSUME SystemInv, [Next]_vars
  PROVE  \/ conv' = conv
         \/ \E c \in Chat : TaskWrites(c) \/ AgentWrites(c) \/ JobWrites(c)
<1>1. CASE Inbound!InboundNext
  BY <1>1, InboundWrites DEF SystemInv
<1>2. CASE Agents!AgentNext
  <2>1. Service!AgentNext
    BY <1>2, SameService
  <2>2. \A r \in Request : rchat[r] \in Chat
    BY DEF SystemInv, Service!TypeInv, Service!TypeOK
  <2>. QED
    BY <2>1, <2>2, AgentSteps DEF SystemInv, RequestMoves, RequestArrives
<1>3. ASSUME NEW c \in Chat, Age(c) \/ Purge(c) PROVE JobWrites(c)
  BY <1>3 DEF Age, Purge, JobWrites, Writes
<1>4. CASE UNCHANGED vars
  BY <1>4 DEF vars
<1>. QED  BY <1>1, <1>2, <1>3, <1>4 DEF Next

\* What a writer of any kind leaves: a document, which is not closed.
LEMMA WritesDocs ==
  ASSUME Documents, NeverClosed, NEW c \in Chat, TaskWrites(c) \/ AgentWrites(c) \/ JobWrites(c)
  PROVE  \E d \in Doc : /\ Writes(c, d) /\ d.state # "closed"
                        /\ JobWrites(c) => Cover(d) = Cover(conv[c]) /\ d.state = conv[c].state
<1>1. CASE conv[c] = NoDoc
  <2>1. NewDoc \in Doc /\ NewDoc.state # "closed"
    BY DocWrites DEF NewDoc
  <2>. QED  BY <1>1, <2>1 DEF TaskWrites, AgentWrites, JobWrites
<1>2. CASE conv[c] # NoDoc
  <2>1. conv[c] \in Doc /\ conv[c].state # "closed"
    BY <1>2 DEF Documents, NeverClosed
  <2>2. /\ Touched(conv[c]).state = conv[c].state /\ Aged(conv[c]).state = conv[c].state
        /\ Purged(conv[c]).state = conv[c].state
        /\ Escalated(conv[c]).state = "escalated" /\ Resolved(conv[c]).state = "jane_handling"
    BY <2>1 DEF Doc, Touched, Aged, Purged, Escalated, Resolved
  <2>3. CASE JobWrites(c)
    <3>1. CASE Writes(c, Aged(conv[c]))
      BY <2>1, <2>2, <3>1, DocWrites, Covers
    <3>2. CASE Writes(c, Purged(conv[c]))
      BY <2>1, <2>2, <3>2, DocWrites, Covers
    <3>. QED  BY <2>3, <3>1, <3>2 DEF JobWrites
  <2>4. CASE ~ JobWrites(c)
    BY <1>2, <2>1, <2>2, <2>4, DocWrites DEF TaskWrites, AgentWrites
  <2>. QED  BY <2>3, <2>4
<1>. QED  BY <1>1, <1>2

\* To the workers, every step of the others is that of an agent who resolves, or
\* none at all.
LEMMA WorkersStep ==
  ASSUME SystemInv, [Next]_vars
  PROVE  [Workers!Next]_(Workers!vars)
<1>1. CASE Inbound!InboundNext
  BY <1>1, TasksSee DEF SystemInv, Workers!Next
<1>2. ASSUME UNCHANGED inboundVars PROVE UNCHANGED Workers!inboundVars
  BY <1>2 DEF inboundVars, Workers!inboundVars, Workers!brokerVars, Workers!localVars,
     Workers!rowVars, Workers!sendVars, Workers!handoffVars
<1>3. CASE Agents!AgentNext /\ UNCHANGED inboundVars
  <2>1. conv' = conv \/ \E c \in Chat : AgentWrites(c)
    <3>1. Service!AgentNext
      BY <1>3, SameService
    <3>2. \A r \in Request : rchat[r] \in Chat
      BY DEF SystemInv, Service!TypeInv, Service!TypeOK
    <3>. QED
      BY <3>1, <3>2, AgentSteps DEF SystemInv, RequestMoves, RequestArrives
  <2>2. ASSUME NEW c \in Chat, AgentWrites(c)
        PROVE  UNCHANGED SeenByTasks \/ Workers!AgentResolves(c)
    <3>1. /\ conv[c] # NoDoc /\ conv[c] \in Doc /\ conv[c].state # "closed"
          /\ SeenByTasks[c] = Cover(conv[c]) /\ SeenByTasks[c] # NoDoc
          /\ SeenByTasks[c].state = conv[c].state
      BY <2>2, Seen DEF SystemInv, NeverClosed, AgentWrites
    <3>2. CASE conv[c].state = "escalated"
      <4>1. SeenByTasks' = [SeenByTasks EXCEPT ![c] = Cover(Resolved(conv[c]))]
        BY <2>2, <3>1, DocWrites, SeenWrite DEF SystemInv, AgentWrites
      <4>2. Cover(Resolved(conv[c])) = Resolved(SeenByTasks[c])
        BY <3>1, Covers
      <4>3. UNCHANGED Workers!inboundVars
        BY <1>2, <1>3
      <4>. QED
        BY <3>1, <3>2, <4>1, <4>2, <4>3 DEF Workers!AgentResolves, Resolved, Workers!Resolved
    <3>3. CASE conv[c].state = "jane_handling"
      <4>1. Resolved(conv[c]) = conv[c]
        BY <3>1, <3>3 DEF Resolved, Doc
      <4>2. conv' = conv
        BY <2>2, <4>1 DEF AgentWrites, Writes, SystemInv, Documents
      <4>. QED  BY <4>2, SeenSame
    <3>. QED  BY <3>1, <3>2, <3>3 DEF Doc, ConversationState
  <2>. QED
    BY <1>2, <1>3, <2>1, <2>2, SeenSame DEF Workers!Next, Workers!vars
<1>4. ASSUME NEW c \in Chat, Age(c) \/ Purge(c) PROVE UNCHANGED Workers!vars
  <2>1. JobWrites(c) /\ conv[c] # NoDoc /\ UNCHANGED inboundVars
    BY <1>4 DEF Age, Purge, JobWrites, Writes
  <2>2. PICK d \in Doc : Writes(c, d) /\ Cover(d) = Cover(conv[c])
    BY <2>1, WritesDocs DEF SystemInv
  <2>3. SeenByTasks' = [SeenByTasks EXCEPT ![c] = SeenByTasks[c]]
    BY <2>1, <2>2, Seen, SeenWrite DEF SystemInv
  <2>4. UNCHANGED SeenByTasks
    BY <2>3 DEF SeenByTasks
  <2>. QED  BY <1>2, <2>1, <2>4 DEF Workers!vars
<1>5. CASE UNCHANGED vars
  BY <1>2, <1>5, SeenSame DEF vars, Workers!vars
<1>. QED  BY <1>1, <1>3, <1>4, <1>5 DEF Next

\* Each write keeps the conversation going for the agents: escalations are counted
\* up, and Jane loses it to a later one only.
LEMMA WritesGrow ==
  ASSUME Documents, NEW c \in Chat, TaskWrites(c) \/ AgentWrites(c) \/ JobWrites(c)
  PROVE  Service!ConvGrows
<1>1. \A e \in Chat : e # c => conv'[e] = conv[e]
  BY DEF TaskWrites, AgentWrites, JobWrites, Writes, Documents
<1>2. \A e \in Chat : conv[e] # NoDoc => conv[e].escalated_at \in Nat
  BY DEF Documents, Doc
<1>3. ASSUME conv[c] # NoDoc
      PROVE  /\ conv'[c] # NoDoc
             /\ conv[c].escalated_at <= conv'[c].escalated_at
             /\ conv[c].state = "jane_handling" =>
                  \/ conv'[c].state = "jane_handling"
                  \/ conv[c].escalated_at < conv'[c].escalated_at
  <2>1. conv[c] \in Doc
    BY <1>3 DEF Documents
  <2>2. CASE Writes(c, Escalated(conv[c]))
    <3>1. conv'[c] = Escalated(conv[c]) /\ Escalated(conv[c]) \in Doc
      BY <2>1, <2>2, DocWrites DEF Writes, Documents
    <3>2. Escalated(conv[c]).escalated_at = conv[c].escalated_at + 1
      BY <2>1 DEF Escalated, Doc
    <3>. QED  BY <1>2, <1>3, <3>1, <3>2, NoDocAssumption
  <2>3. ASSUME NEW d \in Doc, Writes(c, d), d.escalated_at = conv[c].escalated_at,
               d.state \in {conv[c].state, "jane_handling"}
        PROVE  /\ conv'[c] # NoDoc
               /\ conv[c].escalated_at <= conv'[c].escalated_at
               /\ conv[c].state = "jane_handling" => conv'[c].state = "jane_handling"
    <3>1. conv'[c] = d
      BY <2>3 DEF Writes, Documents
    <3>. QED  BY <1>2, <1>3, <2>3, <3>1, NoDocAssumption
  <2>4. \A d \in {Touched(conv[c]), Aged(conv[c]), Purged(conv[c]), Resolved(conv[c])} :
          /\ d \in Doc /\ d.escalated_at = conv[c].escalated_at
          /\ d.state \in {conv[c].state, "jane_handling"}
    <3>1. /\ Touched(conv[c]) \in Doc /\ Aged(conv[c]) \in Doc
          /\ Purged(conv[c]) \in Doc /\ Resolved(conv[c]) \in Doc
      BY <2>1, DocWrites
    <3>. QED  BY <2>1, <3>1 DEF Doc, Touched, Aged, Purged, Resolved
  <2>. QED
    BY <1>3, <2>2, <2>3, <2>4 DEF TaskWrites, AgentWrites, JobWrites
<1>. QED  BY <1>1, <1>2, <1>3 DEF Service!ConvGrows

\* An agent's part is touched by nothing but its own steps, and by the writes of
\* the others to the documents, none of which takes one away.
LEMMA ServiceStep ==
  ASSUME SystemInv, [Next]_vars
  PROVE  (Service!TypeInv /\ Service!KeyIsExclusive /\ Service!PaidInv /\ Service!TruthInv)'
<1>. USE DEF SystemInv
<1>1. CASE Agents!AgentNext
  <2>1. Service!Next
    BY <1>1, SameService DEF Service!Next
  <2>. QED
    BY <2>1, ForService, Service!TypeNext, Service!ClaimNext, Service!PaidNext, Service!TruthNext
<1>2. CASE UNCHANGED agentVars
  <2>1. /\ UNCHANGED <<rpc, rkey, rchat, phone, seen, aclaims>>
        /\ UNCHANGED <<delivered, agentRows, strikes, doubts>>
    BY <1>2 DEF agentVars
  <2>2. Documents' /\ \A c \in Chat : conv[c] # NoDoc => conv'[c] # NoDoc
    <3>1. CASE conv' = conv
      BY <3>1 DEF Documents
    <3>2. ASSUME NEW c \in Chat, NEW d \in Doc, Writes(c, d)
          PROVE  Documents' /\ \A e \in Chat : conv[e] # NoDoc => conv'[e] # NoDoc
      BY <3>2, NoDocAssumption DEF Writes, Documents
    <3>. QED  BY <3>1, <3>2, SystemWrites, WritesDocs
  <2>3. Service!TypeInv'
    <3>1. Service!TypeOK'
      BY <2>1, <2>2, SameDocs DEF Documents, Service!TypeInv, Service!TypeOK
    <3>. QED
      BY <2>1, <2>2, <3>1 DEF Service!TypeInv, Service!TypeOK
  <2>4. Service!KeyIsExclusive'
    BY <2>1 DEF Service!KeyIsExclusive, Service!Holds
  <2>5. Service!PaidInv'
    BY <2>1 DEF Service!PaidInv, Service!DeliveriesPaidByDoubts
  <2>6. Service!ConvGrows
    <3>1. CASE conv' = conv
      BY <3>1 DEF Service!ConvGrows, Documents, Doc
    <3>. QED  BY <3>1, SystemWrites, WritesGrow
  <2>7. Service!Elsewhere
    <3>1. Service!Counts
      BY <2>1, ForService, Service!CountTypes DEF Service!Counts
    <3>. QED  BY <2>1, <3>1 DEF Service!Elsewhere
  <2>8. Service!TruthInv'
    BY <2>3, <2>6, <2>7, ForService, Service!TruthElsewhere
  <2>. QED  BY <2>3, <2>4, <2>5, <2>8
<1>. QED  BY <1>1, <1>2 DEF Next, Age, Purge, vars

LEMMA SystemNext == SystemInv /\ [Next]_vars => SystemInv'
<1>. SUFFICES ASSUME SystemInv, [Next]_vars PROVE SystemInv'
  OBVIOUS
<1>1. Workers!TypeInv'
  BY WorkersStep, WorkersTyped DEF SystemInv
<1>2. Documents' /\ NeverClosed'
  <2>1. CASE conv' = conv
    BY <2>1 DEF SystemInv, Documents, NeverClosed
  <2>2. ASSUME NEW c \in Chat, NEW d \in Doc, Writes(c, d), d.state # "closed"
        PROVE  Documents' /\ NeverClosed'
    BY <2>2 DEF SystemInv, Documents, NeverClosed, Writes
  <2>. QED  BY <2>1, <2>2, SystemWrites, WritesDocs DEF SystemInv
<1>. QED  BY <1>1, <1>2, ServiceStep DEF SystemInv

-----------------------------------------------------------------------------
(***************************************************************************)
(* The lifecycle.                                                          *)
(***************************************************************************)
LEMMA LifeInit == Init => Life!Init
<1>. SUFFICES ASSUME Init PROVE Life!Init
  OBVIOUS
<1>1. StateOf = [c \in Chat |-> "new"]
  BY DEF Init, Inbound!Init, StateOf
<1>2. ServedIn = [c \in Chat |-> {}]
  <2>1. \A r \in Request : rpc[r] \notin Agents!Serving
    BY DEF Init, Agents!AgentInit, Agents!Serving, Agents!Owning
  <2>. QED  BY <2>1 DEF ServedIn
<1>. QED  BY <1>1, <1>2 DEF Life!Init

\* A write to a document is one to the state of its conversation.
LEMMA StateWrite ==
  ASSUME Documents, NEW c \in Chat, NEW d \in Doc, Writes(c, d)
  PROVE  StateOf' = [StateOf EXCEPT ![c] = d.state]
<1>1. conv'[c] = d /\ d # NoDoc /\ \A e \in Chat : e # c => conv'[e] = conv[e]
  BY NoDocAssumption DEF Documents, Writes
<1>2. \A e \in Chat : StateOf'[e] = IF e = c THEN d.state ELSE StateOf[e]
  BY <1>1 DEF StateOf
<1>3. /\ StateOf' = [e \in Chat |-> StateOf'[e]]
      /\ StateOf = [e \in Chat |-> StateOf[e]]
  BY DEF StateOf
<1>. QED  BY <1>2, <1>3

LEMMA StateSame ==
  ASSUME Documents, NEW c \in Chat, NEW d \in Doc, Writes(c, d),
         conv[c] # NoDoc, d.state = conv[c].state
  PROVE  UNCHANGED StateOf
<1>1. StateOf' = [StateOf EXCEPT ![c] = StateOf[c]]
  BY StateWrite DEF StateOf
<1>. QED  BY <1>1 DEF StateOf

\* Which requests are being served, after one of them has moved.
LEMMA ServedMove ==
  ASSUME NEW r \in Request, NEW c \in Chat, rchat'[r] = c,
         \A q \in Request : q # r => rpc'[q] = rpc[q] /\ rchat'[q] = rchat[q],
         rpc[r] \in Agents!Serving => rchat[r] = c
  PROVE  /\ (rpc[r] \in Agents!Serving <=> rpc'[r] \in Agents!Serving) => UNCHANGED ServedIn
         /\ rpc[r] \in Agents!Serving /\ rpc'[r] \notin Agents!Serving =>
              r \in ServedIn[c] /\ ServedIn' = [ServedIn EXCEPT ![c] = @ \ {r}]
         /\ rpc[r] \notin Agents!Serving /\ rpc'[r] \in Agents!Serving =>
              /\ \A e \in Chat : r \notin ServedIn[e]
              /\ ServedIn' = [ServedIn EXCEPT ![c] = @ \cup {r}]
<1>1. /\ ServedIn' = [e \in Chat |-> ServedIn'[e]]
      /\ ServedIn = [e \in Chat |-> ServedIn[e]]
  BY DEF ServedIn
<1>2. \A e \in Chat : \A q \in Request :
        /\ q \in ServedIn[e] <=> rchat[q] = e /\ rpc[q] \in Agents!Serving
        /\ q \in ServedIn'[e] <=> rchat'[q] = e /\ rpc'[q] \in Agents!Serving
  BY DEF ServedIn, Agents!Serving, Agents!Owning
<1>3. \A e \in Chat : ServedIn[e] \subseteq Request /\ ServedIn'[e] \subseteq Request
  BY DEF ServedIn
<1>0. \A e \in Chat : \A q \in Request : q # r => (q \in ServedIn'[e] <=> q \in ServedIn[e])
  BY <1>2
<1>4. CASE rpc[r] \in Agents!Serving <=> rpc'[r] \in Agents!Serving
  <2>1. ASSUME NEW e \in Chat PROVE ServedIn'[e] = ServedIn[e]
    <3>1. r \in ServedIn'[e] <=> r \in ServedIn[e]
      BY <1>2, <1>4
    <3>2. \A q \in Request : q \in ServedIn'[e] <=> q \in ServedIn[e]
      BY <1>0, <3>1
    <3>3. ServedIn[e] \subseteq Request /\ ServedIn'[e] \subseteq Request
      BY <1>3
    <3>. QED  BY <3>2, <3>3
  <2>. QED  BY <1>1, <1>4, <2>1
<1>5. CASE rpc[r] \in Agents!Serving /\ rpc'[r] \notin Agents!Serving
  <2>1. ASSUME NEW e \in Chat
        PROVE  ServedIn'[e] = IF e = c THEN ServedIn[e] \ {r} ELSE ServedIn[e]
    <3>1. (r \in ServedIn[e] <=> e = c) /\ r \notin ServedIn'[e]
      BY <1>2, <1>5
    <3>2. \A q \in Request : q \in ServedIn'[e] <=> q \in (IF e = c THEN ServedIn[e] \ {r} ELSE ServedIn[e])
      BY <1>0, <3>1
    <3>3. ServedIn[e] \subseteq Request /\ ServedIn'[e] \subseteq Request
      BY <1>3
    <3>. QED  BY <3>2, <3>3
  <2>. QED  BY <1>1, <1>2, <1>5, <2>1
<1>6. CASE rpc[r] \notin Agents!Serving /\ rpc'[r] \in Agents!Serving
  <2>1. ASSUME NEW e \in Chat
        PROVE  ServedIn'[e] = IF e = c THEN ServedIn[e] \cup {r} ELSE ServedIn[e]
    <3>1. r \notin ServedIn[e] /\ (r \in ServedIn'[e] <=> e = c)
      BY <1>2, <1>6
    <3>2. \A q \in Request : q \in ServedIn'[e] <=> q \in (IF e = c THEN ServedIn[e] \cup {r} ELSE ServedIn[e])
      BY <1>0, <3>1
    <3>3. ServedIn[e] \subseteq Request /\ ServedIn'[e] \subseteq Request
      BY <1>3
    <3>. QED  BY <3>2, <3>3
  <2>. QED  BY <1>1, <1>2, <1>6, <2>1
<1>. QED  BY <1>4, <1>5, <1>6

LEMMA LifeNext ==
  ASSUME SystemInv, [Next]_vars
  PROVE  [Life!Next]_<<StateOf, ServedIn>>
<1>a. Documents /\ NeverClosed /\ \A r \in Request : rchat[r] \in Chat
  BY DEF SystemInv, Service!TypeInv, Service!TypeOK
<1>1. CASE Inbound!InboundNext /\ UNCHANGED agentVars
  <2>1. UNCHANGED ServedIn
    BY <1>1 DEF agentVars, ServedIn
  <2>2. CASE conv' = conv
    BY <2>1, <2>2 DEF StateOf
  <2>3. ASSUME NEW c \in Chat, TaskWrites(c) PROVE [Life!Next]_<<StateOf, ServedIn>>
    <3>1. CASE conv[c] = NoDoc /\ Writes(c, NewDoc)
      <4>1. StateOf[c] = "new" /\ StateOf' = [StateOf EXCEPT ![c] = "jane_handling"]
        <5>1. NewDoc.state = "jane_handling"
          BY DEF NewDoc
        <5>. QED  BY <1>a, <3>1, <5>1, DocWrites, StateWrite DEF StateOf
      <4>. QED  BY <2>1, <4>1 DEF Life!Next, Life!Open
    <3>2. CASE conv[c] # NoDoc /\ Writes(c, Touched(conv[c]))
      <4>1. conv[c] \in Doc /\ Touched(conv[c]).state = conv[c].state
        BY <1>a, <3>2 DEF Documents, Touched, Doc
      <4>. QED  BY <1>a, <2>1, <3>2, <4>1, DocWrites, StateSame
    <3>3. CASE conv[c] # NoDoc /\ Writes(c, Escalated(conv[c]))
      <4>1. conv[c] \in Doc /\ Escalated(conv[c]).state = "escalated"
        BY <1>a, <3>3 DEF Documents, Escalated, Doc
      <4>2. CASE conv[c].state = "escalated"
        BY <1>a, <2>1, <3>3, <4>1, <4>2, DocWrites, StateSame
      <4>3. CASE conv[c].state = "jane_handling"
        <5>1. StateOf[c] = "jane_handling" /\ StateOf' = [StateOf EXCEPT ![c] = "escalated"]
          BY <1>a, <3>3, <4>1, <4>3, DocWrites, StateWrite DEF StateOf
        <5>. QED  BY <2>1, <5>1 DEF Life!Next, Life!Escalate
      <4>. QED
        BY <1>a, <3>3, <4>1, <4>2, <4>3 DEF NeverClosed, Doc, ConversationState
    <3>. QED  BY <2>3, <3>1, <3>2, <3>3 DEF TaskWrites
  <2>. QED  BY <1>1, <2>2, <2>3, InboundWrites DEF SystemInv
<1>2. ASSUME NEW r \in Request, RequestMoves(r) PROVE [Life!Next]_<<StateOf, ServedIn>>
  <2>. DEFINE c == rchat[r]
  <2>1. c \in Chat /\ rchat'[r] = c /\ rpc[r] \in Agents!Serving
    BY <1>a, <1>2 DEF RequestMoves
  <2>2. \A q \in Request : q # r => rpc'[q] = rpc[q] /\ rchat'[q] = rchat[q]
    BY <1>2 DEF RequestMoves
  <2>3. CASE rpc'[r] \in Agents!Serving
    <3>1. UNCHANGED ServedIn
      BY <2>1, <2>2, <2>3, ServedMove
    <3>2. conv' = conv
      BY <1>2, <2>3 DEF RequestMoves
    <3>. QED  BY <3>1, <3>2 DEF StateOf
  <2>4. CASE rpc'[r] \notin Agents!Serving
    <3>1. r \in ServedIn[c] /\ ServedIn' = [ServedIn EXCEPT ![c] = @ \ {r}]
      BY <2>1, <2>2, <2>4, ServedMove
    <3>2. \/ UNCHANGED StateOf
          \/ /\ StateOf[c] = "escalated"
             /\ StateOf' = [StateOf EXCEPT ![c] = "jane_handling"]
      <4>. HIDE DEF c
      <4>1. CASE conv' = conv
        BY <4>1 DEF StateOf
      <4>2. CASE AgentWrites(c)
        <5>1. /\ conv[c] # NoDoc /\ conv[c] \in Doc /\ Writes(c, Resolved(conv[c]))
              /\ Resolved(conv[c]) \in Doc
              /\ StateOf[c] = conv[c].state
              /\ conv[c].state \in {"jane_handling", "escalated"}
          BY <1>a, <2>1, <4>2, DocWrites
          DEF AgentWrites, Documents, NeverClosed, StateOf, Doc, ConversationState
        <5>2. Resolved(conv[c]).state = "jane_handling"
          BY <5>1 DEF Resolved, Doc
        <5>. QED  BY <1>a, <2>1, <5>1, <5>2, StateWrite, StateSame
      <4>. QED  BY <1>2, <4>1, <4>2 DEF RequestMoves, c
    <3>3. Life!Leave(c, r)
      BY <3>1, <3>2 DEF Life!Leave
    <3>. QED  BY <2>1, <3>3 DEF Life!Next
  <2>. QED  BY <2>3, <2>4
<1>3. ASSUME NEW r \in Request, RequestArrives(r) PROVE [Life!Next]_<<StateOf, ServedIn>>
  <2>. DEFINE c == rchat'[r]
  <2>1. c \in Chat /\ conv' = conv
    BY <1>3 DEF RequestArrives
  <2>2. /\ \A e \in Chat : r \notin ServedIn[e]
        /\ ServedIn' = [ServedIn EXCEPT ![c] = @ \cup {r}]
    BY <1>3, <2>1, ServedMove DEF RequestArrives
  <2>3. Life!Arrive(c, r)
    BY <2>1, <2>2 DEF Life!Arrive, StateOf
  <2>. QED  BY <2>1, <2>3 DEF Life!Next
<1>4. CASE Agents!AgentNext
  <2>1. Service!AgentNext
    BY <1>4, SameService
  <2>2. UNCHANGED <<rpc, rchat, conv>> => UNCHANGED <<StateOf, ServedIn>>
    BY DEF StateOf, ServedIn
  <2>. QED  BY <1>2, <1>3, <2>1, <2>2, AgentSteps DEF SystemInv
<1>5. ASSUME NEW c \in Chat, Age(c) \/ Purge(c) PROVE UNCHANGED <<StateOf, ServedIn>>
  <2>1. JobWrites(c) /\ conv[c] # NoDoc /\ UNCHANGED agentVars
    BY <1>5 DEF Age, Purge, JobWrites, Writes
  <2>2. PICK d \in Doc : Writes(c, d) /\ d.state = conv[c].state
    BY <1>a, <2>1, WritesDocs
  <2>. QED  BY <1>a, <2>1, <2>2, StateSame DEF agentVars, ServedIn
<1>6. CASE UNCHANGED vars
  BY <1>6 DEF vars, agentVars, StateOf, ServedIn
<1>. QED  BY <1>1, <1>4, <1>5, <1>6 DEF Next

-----------------------------------------------------------------------------
(***************************************************************************)
(* The theorems.                                                           *)
(***************************************************************************)
\* The invariant, for the theorems.
LEMMA SystemInvariant == Spec => []SystemInv
BY SystemInit, SystemNext, PTL DEF Spec

\* However workers, agents and the retention job interleave, retry and die, a
\* conversation moves along the edges of the diagram, and each return to Jane is
\* the last act of one agent's request.
THEOREM ServiceFollowsLifecycle == Spec => FollowsLifecycle
<1>1. SystemInv /\ [Next]_vars => [Life!Next]_<<StateOf, ServedIn>>
  BY LifeNext
<1>. QED  BY SystemInvariant, LifeInit, <1>1, PTL DEF Spec, FollowsLifecycle, Life!Spec

\* A behaviour of the service is one of the pipeline alone.
LEMMA ServiceRunsPipeline == Spec => Workers!Spec
<1>1. SystemInv /\ [Next]_vars => [Workers!Next]_(Workers!vars)
  BY WorkersStep
<1>2. Init => Workers!Init
  <2>1. ASSUME Init PROVE Workers!Init
    <3>1. SeenByTasks = [c \in Chat |-> NoDoc]
      BY <2>1 DEF Init, Inbound!Init, SeenByTasks
    <3>. QED  BY <2>1, <3>1 DEF Init, Inbound!Init, Workers!Init
  <2>. QED  BY <2>1
<1>. QED  BY SystemInvariant, <1>1, <1>2, PTL DEF Spec, Workers!Spec

\* The agents and the retention job never make the pipeline do what
\* MessageProcessor, on its own, could not.
THEOREM ServiceKeepsPipeline == Spec => PipelineIsKept
BY ServiceRunsPipeline, SamePipeline, PTL DEF PipelineIsKept

\* What the pipeline promises for one message: the claim, the sends, the
\* transcript, the handoff and the types, in the service as in MessageProcessor.
PipelinePromises ==
  /\ Inbound!ClaimIsExclusive /\ Inbound!SendsPaidByFaults
  /\ Inbound!TranscriptMatchesSends /\ Inbound!EscalationIsNotified

THEOREM ServiceKeepsPromises == Spec => []PipelinePromises
<1>1. Workers!Spec => [](/\ Workers!ClaimIsExclusive /\ Workers!SendsPaidByFaults
                         /\ Workers!TranscriptMatchesSends /\ Workers!EscalationIsNotified)
  <2>1. Workers!Spec => []Workers!ClaimIsExclusive
    BY ForWorkers, Workers!LockHolds
  <2>2. Workers!Spec => []Workers!SendsPaidByFaults
    BY ForWorkers, Workers!SendsArePaid
  <2>3. Workers!Spec => []Workers!TranscriptMatchesSends
    BY ForWorkers, Workers!TranscriptIsTrue
  <2>4. Workers!Spec => []Workers!EscalationIsNotified
    BY ForWorkers, Workers!HandoffIsComplete
  <2>. QED  BY <2>1, <2>2, <2>3, <2>4, PTL
<1>2. /\ Workers!ClaimIsExclusive => Inbound!ClaimIsExclusive
      /\ Workers!SendsPaidByFaults => Inbound!SendsPaidByFaults
      /\ Workers!TranscriptMatchesSends => Inbound!TranscriptMatchesSends
      /\ Workers!EscalationIsNotified => Inbound!EscalationIsNotified
  BY DEF Workers!ClaimIsExclusive, Workers!Owns, Workers!Guarded, Workers!SendsPaidByFaults,
     Workers!TranscriptMatchesSends, Workers!Sends, Workers!EscalationIsNotified, Workers!Running,
     Inbound!ClaimIsExclusive, Inbound!Owns, Inbound!Guarded, Inbound!SendsPaidByFaults,
     Inbound!TranscriptMatchesSends, Inbound!Sends, Inbound!EscalationIsNotified, Inbound!Running
<1>3. /\ Workers!ClaimIsExclusive /\ Workers!SendsPaidByFaults
      /\ Workers!TranscriptMatchesSends /\ Workers!EscalationIsNotified
      => PipelinePromises
  BY <1>2 DEF PipelinePromises
<1>. QED  BY ServiceRunsPipeline, <1>1, <1>3, PTL

\* A delivery dropped as a duplicate has its original, in the service too, when
\* the faults are those after which a claim comes back.
THEOREM ServiceDropsOnlyDuplicates ==
  ASSUME Workers!ClaimsComeBack
  PROVE  Spec => []Inbound!NoFalseDuplicate
<1>1. Workers!Spec => []Workers!NoFalseDuplicate
  BY ForWorkers, Workers!DuplicatesAreTrue
<1>2. Workers!NoFalseDuplicate => Inbound!NoFalseDuplicate
  BY DEF Workers!NoFalseDuplicate, Workers!Running, Workers!Guarded, Workers!Handled,
     Inbound!NoFalseDuplicate, Inbound!Running, Inbound!Guarded, Inbound!Handled
<1>. QED  BY ServiceRunsPipeline, <1>1, <1>2, PTL

\* What QuietUnlessOvertaken says of one step, of the documents themselves.
SpeaksWhenOvertaken ==
  \A m \in Message :
    /\ Inbound!Sends(m)' > Inbound!Sends(m)
    /\ conv[ChatOf[m]] # NoDoc /\ conv[ChatOf[m]].state = "escalated"
    => \E t \in overtaken : msg[t] = m /\ pc[t] \in {"sendReply", "sendHolding"}

\* In the service too, whatever agents and the retention job do to the documents
\* meanwhile, and with any number of workers, Jane speaks on an escalated
\* conversation only when another question has escalated it since the task read it.
THEOREM ServiceIsQuiet == Spec => Inbound!QuietUnlessOvertaken
<1>1. Workers!Spec => Workers!QuietUnlessOvertaken
  BY ForWorkers, Workers!OnlyTheOvertakenSpeak
<1>2. SystemInv /\ [Workers!QuietStep]_(Workers!vars) => [SpeaksWhenOvertaken]_(Inbound!vars)
  <2>. SUFFICES ASSUME SystemInv, [Workers!QuietStep]_(Workers!vars), NEW m \in Message,
                       Inbound!Sends(m)' > Inbound!Sends(m),
                       conv[ChatOf[m]] # NoDoc, conv[ChatOf[m]].state = "escalated"
                PROVE  \E t \in overtaken : msg[t] = m /\ pc[t] \in {"sendReply", "sendHolding"}
    BY DEF SpeaksWhenOvertaken
  <2>1. Inbound!Sends(m) = Workers!Sends(m) /\ Inbound!Sends(m)' = Workers!Sends(m)'
    BY DEF Inbound!Sends, Workers!Sends
  <2>2. ChatOf[m] \in Chat
    BY ForWorkers
  <2>3. Workers!Sends(m) \in Nat
    BY DEF SystemInv, Workers!TypeInv, Workers!TypeOK, Workers!Sends
  <2>4. CASE UNCHANGED Workers!vars
    <3>1. Workers!Sends(m)' = Workers!Sends(m)
      BY <2>4 DEF Workers!vars, Workers!inboundVars, Workers!sendVars, Workers!Sends
    <3>. QED  BY <2>1, <2>3, <3>1
  <2>5. CASE Workers!QuietStep
    <3>1. SeenByTasks[ChatOf[m]] # NoDoc /\ SeenByTasks[ChatOf[m]].state = "escalated"
      BY <2>2, Seen DEF SystemInv
    <3>. QED  BY <2>1, <2>5, <3>1 DEF Workers!QuietStep
  <2>. QED  BY <2>4, <2>5
<1>3. Workers!QuietUnlessOvertaken => [][Workers!QuietStep]_(Workers!vars)
  BY PTL DEF Workers!QuietUnlessOvertaken, Workers!QuietStep
<1>4. [][SpeaksWhenOvertaken]_(Inbound!vars) => Inbound!QuietUnlessOvertaken
  BY PTL DEF Inbound!QuietUnlessOvertaken, SpeaksWhenOvertaken
<1>. QED  BY SystemInvariant, ServiceRunsPipeline, <1>1, <1>2, <1>3, <1>4, PTL

\* The agents' side keeps its own while real customers escalate, and the
\* retention job runs: one holder per key, every delivery beyond the first paid
\* for by a doubt, and answers that are true.
AgentPromises ==
  Agents!KeyIsExclusive /\ Agents!DeliveriesPaidByDoubts /\ Agents!AnswersAreTrue

THEOREM ServiceKeepsAgentPromises == Spec => []AgentPromises
<1>1. SystemInv => Agents!KeyIsExclusive /\ Agents!DeliveriesPaidByDoubts
  BY DEF SystemInv, Service!KeyIsExclusive, Service!PaidInv, Service!DeliveriesPaidByDoubts,
     Service!Holds, Service!Owning, Agents!KeyIsExclusive, Agents!DeliveriesPaidByDoubts,
     Agents!Holds, Agents!Owning
<1>2. SystemInv => Agents!AnswersAreTrue
  <2>1. SystemInv => Service!AnswersAreTrue
    BY ForService, Service!AnswersFromTruth DEF SystemInv
  <2>. QED
    BY <2>1 DEF Service!AnswersAreTrue, Service!Serving, Service!Owning,
       Agents!AnswersAreTrue, Agents!Serving, Agents!Owning
<1>3. SystemInv => AgentPromises
  BY <1>1, <1>2 DEF AgentPromises
<1>. QED  BY SystemInvariant, <1>3, PTL

\* Unless a call raises after Jane's message went out, or a claim comes of age, a
\* question is answered at most once in the service too.
LEMMA ServiceAnswersOnce ==
  ASSUME Workers!ClaimsLast
  PROVE  Spec => []Inbound!AnsweredOnce
<1>1. Workers!Spec => []Workers!AnsweredOnce
  BY ForWorkers, Workers!AnsweredAtMostOnce
<1>2. Workers!AnsweredOnce => Inbound!AnsweredOnce
  BY DEF Workers!AnsweredOnce, Workers!Sends, Inbound!AnsweredOnce, Inbound!Sends
<1>. QED  BY ServiceRunsPipeline, <1>1, <1>2, PTL

\* And without a doubtful fault, an agent's reply is delivered at most once.
LEMMA ServiceDeliversOnce ==
  ASSUME Service!NoDoubts
  PROVE  Spec => []Agents!AtMostOnce
<1>. DEFINE Undoubted == \A k \in Key : doubts[k] = 0
<1>1. Init => Undoubted
  BY DEF Init, Agents!AgentInit
<1>2. Undoubted /\ [Next]_vars => Undoubted'
  <2>1. CASE Agents!AgentNext
    <3>1. Service!Next
      BY <2>1, SameService DEF Service!Next
    <3>. QED  BY <3>1, ForService, Service!NoDoubtArises
  <2>2. CASE UNCHANGED agentVars
    BY <2>2 DEF agentVars
  <2>. QED  BY <2>1, <2>2 DEF Next, Age, Purge, vars
<1>3. SystemInv /\ Undoubted => Agents!AtMostOnce
  <2>1. SystemInv => \A k \in Key : delivered[k] \in Nat /\ delivered[k] <= 1 + doubts[k]
    BY DEF SystemInv, Service!TypeInv, Service!TypeOK, Service!PaidInv,
       Service!DeliveriesPaidByDoubts
  <2>. QED  BY <2>1 DEF Agents!AtMostOnce
<1>. HIDE DEF Undoubted
<1>. QED  BY SystemInvariant, <1>1, <1>2, <1>3, PTL DEF Spec

\* Nobody hears the same thing twice, whatever else fails, dies or is repeated on
\* either side, unless a claim goes away after the send it stands for.
THEOREM ServiceSaysOnce ==
  ASSUME Workers!ClaimsLast, Service!NoDoubts
  PROVE  Spec => []SaidOnce
BY ServiceAnswersOnce, ServiceDeliversOnce, PTL DEF SaidOnce

\* Both claim collections keep the ledger in the service, side by side on one
\* conversations collection: the two implement OnceLedger at once.
ServiceLedgers == Inbound!KeepsLedger /\ Agents!KeepsLedger

THEOREM ServiceKeepsLedgers == Spec => ServiceLedgers
<1>1. Spec => Inbound!KeepsLedger
  <2>1. Workers!Spec => Workers!KeepsLedger
    BY ForWorkers, Workers!PipelineKeepsLedger
  <2>2. Workers!Ledger!Init => Inbound!Ledger!Init
    BY DEF Workers!Ledger!Init, Inbound!Ledger!Init, Workers!Owns, Inbound!Owns,
       Workers!Guarded, Inbound!Guarded, Workers!Sends, Inbound!Sends
  <2>3. [Workers!Ledger!Next]_(Workers!Ledger!vars) => [Inbound!Ledger!Next]_(Inbound!Ledger!vars)
    BY DEF Workers!Ledger!Next, Inbound!Ledger!Next, Workers!Ledger!vars, Inbound!Ledger!vars,
       Workers!Ledger!MayPay, Inbound!Ledger!MayPay, Workers!Ledger!Take, Inbound!Ledger!Take,
       Workers!Ledger!Orphan, Inbound!Ledger!Orphan, Workers!Ledger!Deliver, Inbound!Ledger!Deliver,
       Workers!Ledger!Leave, Inbound!Ledger!Leave, Workers!Ledger!Free, Inbound!Ledger!Free,
       Workers!Owns, Inbound!Owns, Workers!Guarded, Inbound!Guarded, Workers!Sends, Inbound!Sends
  <2>. QED
    BY ServiceRunsPipeline, <2>1, <2>2, <2>3, PTL
    DEF Workers!KeepsLedger, Inbound!KeepsLedger, Workers!Ledger!Spec, Inbound!Ledger!Spec
<1>2. Spec => Agents!KeepsLedger
  <2>1. Init => Agents!Ledger!Init
    BY DEF Init, Agents!AgentInit, Agents!Ledger!Init, Agents!Holds, Agents!Owning
  <2>2. SystemInv /\ SystemInv' /\ [Next]_vars => [Agents!Ledger!Next]_(Agents!Ledger!vars)
    <3>. SUFFICES ASSUME SystemInv, SystemInv', [Next]_vars
                  PROVE  [Agents!Ledger!Next]_(Agents!Ledger!vars)
      OBVIOUS
    <3>1. CASE Agents!AgentNext
      <4>1. [Service!Ledger!Next]_(Service!Ledger!vars)
        <5>1. Service!Next
          BY <3>1, SameService DEF Service!Next
        <5>. QED  BY <5>1, ForService, Service!LedgerNext DEF SystemInv
      <4>. QED
        BY <4>1
        DEF Service!Ledger!Next, Agents!Ledger!Next, Service!Ledger!vars, Agents!Ledger!vars,
            Service!Ledger!MayPay, Agents!Ledger!MayPay, Service!Ledger!Take, Agents!Ledger!Take,
            Service!Ledger!Orphan, Agents!Ledger!Orphan, Service!Ledger!Deliver,
            Agents!Ledger!Deliver, Service!Ledger!Leave, Agents!Ledger!Leave,
            Service!Ledger!Free, Agents!Ledger!Free,
            Service!Holds, Agents!Holds, Service!Owning, Agents!Owning
    <3>2. CASE UNCHANGED agentVars
      BY <3>2 DEF agentVars, Agents!Ledger!vars, Agents!Holds, Agents!Owning
    <3>. QED  BY <3>1, <3>2 DEF Next, Age, Purge, vars
  <2>. QED
    BY SystemInvariant, <2>1, <2>2, PTL DEF Spec, Agents!KeepsLedger, Agents!Ledger!Spec
<1>. QED  BY <1>1, <1>2, PTL DEF ServiceLedgers

===============================================================================
