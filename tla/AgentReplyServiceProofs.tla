------------------------ MODULE AgentReplyServiceProofs ------------------------
(***************************************************************************)
(* What holds of AgentReplyService for every number of requests, keys and  *)
(* conversations and every set of faults: types, the claim, the deliveries *)
(* and what pays for them, the ledger it implements, and the answers.      *)
(***************************************************************************)
EXTENDS AgentReplyService, FiniteSetTheorems, TLAPS

-----------------------------------------------------------------------------
(***************************************************************************)
(* The inductive invariant, in three layers.                               *)
(***************************************************************************)
\* The steps of send_agent_reply up to its log.
Keyed == Owning \cup {"lookup", "answer", "insert", "log"}

\* TypeOK needs that those steps have a key, that the document resolve is about
\* to write exists, and that a doubt is a fault like any other.
TypeInv ==
  /\ TypeOK
  /\ \A r \in Request : rpc[r] \in Keyed => rkey[r] \in Key
  /\ \A r \in Request : rpc[r] = "resolveUpdate" => conv[rchat[r]] # NoDoc
  /\ \A k \in Key \cup {NoKey} : doubts[k] <= strikes[k]

\* The steps of a holder before it has sent anything, and those after which it
\* does not know.
Unsure == {"target", "send", "release"}

\* A key without a claim, or whose holder is unsure, has had as many doubts as
\* deliveries: whoever claims it next may deliver once more.
PaidInv ==
  /\ DeliveriesPaidByDoubts
  /\ \A k \in Key : aclaims[k] = "none" => delivered[k] <= doubts[k]
  /\ \A r \in Request : rpc[r] \in Unsure => delivered[rkey[r]] <= doubts[rkey[r]]

-----------------------------------------------------------------------------
(***************************************************************************)
(* What the control-flow helpers do, once for all the steps.               *)
(***************************************************************************)
Moves(r) == rpc' \in [Request -> RPC] /\ \A q \in Request : q # r => rpc'[q] = rpc[q]

Struck(r) == strikes' = [strikes EXCEPT ![rkey[r]] = @ + 1]

\* The fault of a step, which may be a doubt.
OneFault(r) ==
  /\ strikes' \in [Key \cup {NoKey} -> 0..MaxStrikes]
  /\ doubts' \in [Key \cup {NoKey} -> 0..MaxStrikes]
  /\ \A k \in Key \cup {NoKey} : doubts'[k] <= strikes'[k]
  /\ Struck(r)
  /\ doubts' = doubts \/ doubts' = [doubts EXCEPT ![rkey[r]] = @ + 1]

Doubt(r) == doubts' = [doubts EXCEPT ![rkey[r]] = @ + 1]

Raised(r) == rpc'[r] = IF rpc[r] \in {"target", "send", "mark"} THEN "release" ELSE "error"

LEMMA StrikeCounts ==
  ASSUME TypeInv, NEW r \in Request, NEW kind, Strike(r, kind)
  PROVE  OneFault(r) /\ (<<rpc[r], kind>> \in Doubtful => Doubt(r))
<1>1. PICK k \in Key \cup {NoKey} : k = rkey[r]
  BY DEF TypeInv, TypeOK
<1>2. /\ strikes[k] \in 0..MaxStrikes /\ doubts[k] \in 0..MaxStrikes
      /\ doubts[k] <= strikes[k] /\ strikes[k] < MaxStrikes
  BY <1>1 DEF TypeInv, TypeOK, Strike
<1>3. /\ strikes' = [strikes EXCEPT ![k] = @ + 1]
      /\ \/ doubts' = [doubts EXCEPT ![k] = @ + 1]
         \/ doubts' = doubts
      /\ <<rpc[r], kind>> \in Doubtful => doubts' = [doubts EXCEPT ![k] = @ + 1]
  BY <1>1 DEF Strike, Bump
<1>4. /\ strikes' \in [Key \cup {NoKey} -> 0..MaxStrikes]
      /\ doubts' \in [Key \cup {NoKey} -> 0..MaxStrikes]
  BY <1>2, <1>3, AgentAssumption DEF TypeInv, TypeOK
<1>5. \A j \in Key \cup {NoKey} : doubts'[j] <= strikes'[j]
  BY <1>2, <1>3, AgentAssumption DEF TypeInv, TypeOK
<1>. QED  BY <1>1, <1>3, <1>4, <1>5 DEF OneFault, Struck, Doubt

LEMMA GotoMoves ==
  ASSUME TypeInv, NEW r \in Request, NEW p \in RPC, Goto(r, p)
  PROVE  Moves(r) /\ rpc'[r] = p /\ UNCHANGED <<strikes, doubts>>
BY DEF TypeInv, TypeOK, Goto, Moves, faultVars

LEMMA RaiseMoves ==
  ASSUME TypeInv, NEW r \in Request, Raise(r)
  PROVE  Moves(r) /\ Raised(r)
BY DEF TypeInv, TypeOK, Raise, Moves, Raised, RPC, Serving, Owning, Answered

LEMMA FinishMoves ==
  ASSUME TypeInv, NEW r \in Request, NEW o, NEW p \in RPC, Finish(r, o, p)
  PROVE  /\ Moves(r)
         /\ \/ o = "ok" /\ rpc'[r] = p /\ UNCHANGED <<strikes, doubts>>
            \/ /\ o # "ok" /\ Raised(r) /\ OneFault(r)
               /\ <<rpc[r], o>> \in Doubtful => Doubt(r)
<1>1. CASE o = "ok"
  BY <1>1, GotoMoves DEF Finish
<1>2. CASE o # "ok"
  BY <1>2, RaiseMoves, StrikeCounts DEF Finish
<1>. QED  BY <1>1, <1>2

LEMMA ReadFailsMoves ==
  ASSUME TypeInv, NEW r \in Request, ReadFails(r)
  PROVE  Moves(r) /\ Raised(r) /\ OneFault(r)
BY RaiseMoves, StrikeCounts DEF ReadFails

\* Whether a step was struck or not.
Faulty(r) == UNCHANGED <<strikes, doubts>> \/ OneFault(r)

LEMMA BumpType ==
  ASSUME NEW f \in [Key -> Nat], NEW k \in Key
  PROVE  Bump(f, k) \in [Key -> Nat]
BY DEF Bump

-----------------------------------------------------------------------------
(***************************************************************************)
(* Type correctness.                                                       *)
(***************************************************************************)
LEMMA DocWrites ==
  /\ NewDoc \in Doc
  /\ [Escalated(NewDoc) EXCEPT !.phone = FALSE] \in Doc
  /\ \A d \in Doc : Escalated(d) \in Doc /\ Resolved(d) \in Doc
<1>1. NewDoc \in Doc
  BY DEF NewDoc, Doc, ConversationState
<1>2. ASSUME NEW d \in Doc PROVE Escalated(d) \in Doc
  <2>1. d.escalated_at + 1 \in Nat
    BY DEF Doc
  <2>2. Escalated(d) = [d EXCEPT !.state = "escalated", !.escalated_at = d.escalated_at + 1]
    BY DEF Escalated
  <2>. QED  BY <2>1, <2>2 DEF Doc, ConversationState
<1>3. ASSUME NEW d \in Doc PROVE Resolved(d) \in Doc
  BY DEF Doc, ConversationState, Resolved
<1>4. ASSUME NEW d \in Doc PROVE [d EXCEPT !.phone = FALSE] \in Doc
  BY DEF Doc
<1>. QED  BY <1>1, <1>2, <1>3, <1>4

LEMMA TypeInit == Init => TypeInv
<1>. SUFFICES ASSUME Init PROVE TypeInv
  OBVIOUS
<1>1. conv \in [Chat -> Doc \cup {NoDoc}]
  BY DocWrites DEF Init
<1>2. TypeOK
  BY <1>1, AgentAssumption DEF Init, AgentInit, TypeOK, RPC, Claimed
<1>. QED
  BY <1>2, AgentAssumption DEF Init, AgentInit, TypeInv, Keyed, Owning

\* No write to the conversations removes a document.
Kept == \A c \in Chat : conv[c] # NoDoc => conv'[c] # NoDoc

LEMMA TypeStep ==
  ASSUME TypeInv, NEW r \in Request, Moves(r), Faulty(r),
         rkey' = rkey, rchat' = rchat, Kept,
         rpc'[r] \in Keyed => rkey[r] \in Key,
         rpc'[r] = "resolveUpdate" => conv'[rchat[r]] # NoDoc,
         phone' \in [Request -> BOOLEAN], seen' \in [Request -> Nat],
         aclaims' \in [Key -> Claimed], conv' \in [Chat -> Doc \cup {NoDoc}],
         delivered' \in [Key -> Nat], agentRows' \in [Key -> Nat]
  PROVE  TypeInv'
<1>1. TypeOK'
  BY DEF TypeInv, TypeOK, Moves, Faulty, OneFault
<1>2. (\A q \in Request : rpc[q] \in Keyed => rkey[q] \in Key)'
  BY DEF TypeInv, Moves
<1>3. (\A q \in Request : rpc[q] = "resolveUpdate" => conv[rchat[q]] # NoDoc)'
  <2>. SUFFICES ASSUME NEW q \in Request, rpc'[q] = "resolveUpdate"
                PROVE  conv'[rchat[q]] # NoDoc
    OBVIOUS
  <2>1. CASE q = r
    BY <2>1
  <2>2. CASE q # r
    BY <2>2 DEF TypeInv, TypeOK, Moves, Kept
  <2>. QED  BY <2>1, <2>2
<1>4. (\A k \in Key \cup {NoKey} : doubts[k] <= strikes[k])'
  BY DEF TypeInv, Faulty, OneFault
<1>. QED  BY <1>1, <1>2, <1>3, <1>4 DEF TypeInv

-----------------------------------------------------------------------------
(***************************************************************************)
(* The kinds of step, by what they do to the claim and the deliveries of   *)
(* the request's key.                                                      *)
(***************************************************************************)
\* Where it leads, the request has what it needs there.
Leads(r) ==
  /\ rpc'[r] \in Keyed => rkey[r] \in Key
  /\ rpc'[r] = "resolveUpdate" => conv[rchat[r]] # NoDoc

Serves(r) ==
  /\ Moves(r) /\ Faulty(r) /\ Leads(r)
  /\ rkey' = rkey /\ rchat' = rchat

\* A step outside the claim; an insert that raised may leave a claim behind.
Aside(r) ==
  /\ Serves(r) /\ rpc[r] \notin Owning /\ rpc'[r] \notin Owning
  /\ delivered' = delivered
  /\ \/ aclaims' = aclaims
     \/ /\ rkey[r] \in Key /\ aclaims[rkey[r]] = "none"
        /\ aclaims' = [aclaims EXCEPT ![rkey[r]] = "unsent"]

\* The insert that takes the claim.
Claims(r) ==
  /\ Serves(r) /\ rpc[r] = "insert" /\ rpc'[r] = "target"
  /\ UNCHANGED <<delivered, strikes, doubts>>
  /\ aclaims[rkey[r]] = "none"
  /\ aclaims' = [aclaims EXCEPT ![rkey[r]] = "unsent"]

\* A step of the holder that delivers nothing and keeps the claim.
Progress(r) ==
  /\ Serves(r) /\ rpc[r] \in Owning
  /\ delivered' = delivered
  /\ \/ aclaims' = aclaims
     \/ /\ aclaims[rkey[r]] # "none"
        /\ aclaims' = [aclaims EXCEPT ![rkey[r]] = "sent"]
  /\ rpc'[r] \in Unsure => rpc[r] \in Unsure \/ Doubt(r)

\* The delivery; when it raised all the same, the claim is going to go.
Delivers(r) ==
  /\ Serves(r) /\ rpc[r] = "send"
  /\ delivered' = Bump(delivered, rkey[r])
  /\ aclaims' = aclaims
  /\ \/ rpc'[r] = "mark"
     \/ rpc'[r] = "release" /\ Doubt(r)

\* The delete of the claim.
Frees(r) ==
  /\ Serves(r) /\ rpc[r] = "release" /\ rpc'[r] = "error"
  /\ delivered' = delivered
  /\ aclaims' = [aclaims EXCEPT ![rkey[r]] = "none"]

LEMMA CrashServes ==
  ASSUME TypeInv, NEW r \in Request, ServerLost(r)
  PROVE  Aside(r) \/ Progress(r)
<1>1. OneFault(r)
  BY StrikeCounts DEF ServerLost
<1>2. Moves(r) /\ rpc'[r] = "cut"
  BY DEF ServerLost, TypeInv, TypeOK, Moves, RPC
<1>3. Serves(r) /\ UNCHANGED <<aclaims, delivered>>
  BY <1>1, <1>2 DEF ServerLost, Serves, Faulty, Leads, Keyed, Owning, requestVars
<1>. QED  BY <1>2, <1>3 DEF Aside, Progress, Owning, Unsure

LEMMA ServeKinds ==
  ASSUME TypeInv, NEW r \in Request, Serve(r)
  PROVE  Aside(r) \/ Claims(r) \/ Progress(r) \/ Delivers(r) \/ Frees(r)
<1>. USE DEF requestVars, Faulty, Serves, Leads, Keyed, Owning
<1>a. rpc[r] \in Keyed => rkey[r] \in Key
  BY DEF TypeInv
<1>1. CASE LookupClaim(r)
  <2>1. CASE ReadFails(r)
    BY <1>a, <1>1, <2>1, ReadFailsMoves DEF LookupClaim, Aside, Raised
  <2>2. CASE ~ ReadFails(r)
    <3>1. PICK p \in {"check", "answer", "inProgress"} : Goto(r, p)
      BY <1>1, <2>2 DEF LookupClaim, TypeInv, TypeOK, Keyed, Claimed
    <3>. QED
      BY <1>a, <1>1, <3>1, GotoMoves DEF LookupClaim, Aside, RPC, Serving, Answered
  <2>. QED  BY <2>1, <2>2
<1>2. CASE AnswerAlreadySent(r)
  <2>1. CASE ReadFails(r)
    BY <1>a, <1>2, <2>1, ReadFailsMoves DEF AnswerAlreadySent, Aside, Raised
  <2>2. CASE ~ ReadFails(r)
    <3>1. PICK p \in {"error", "already_sent"} : Goto(r, p)
      BY <1>2, <2>2 DEF AnswerAlreadySent
    <3>. QED
      BY <1>a, <1>2, <3>1, GotoMoves DEF AnswerAlreadySent, Aside, RPC, Serving, Answered
  <2>. QED  BY <2>1, <2>2
<1>3. CASE CheckConversation(r)
  <2>1. CASE ReadFails(r)
    BY <1>a, <1>3, <2>1, ReadFailsMoves DEF CheckConversation, Aside, Raised
  <2>2. CASE ~ ReadFails(r)
    <3>1. PICK p \in {"notFound", "resolveFind", "insert", "conflict"} :
            Goto(r, p) /\ (p = "insert" => rkey[r] \in Key)
      BY <1>3, <2>2 DEF CheckConversation, TypeInv, TypeOK
    <3>. QED
      BY <1>a, <1>3, <3>1, GotoMoves DEF CheckConversation, Aside, RPC, Serving, Answered
  <2>. QED  BY <2>1, <2>2
<1>4. CASE InsertClaim(r)
  <2>1. rkey[r] \in Key
    BY <1>4 DEF InsertClaim, TypeInv, Keyed
  <2>2. CASE aclaims[rkey[r]] # "none"
    BY <1>a, <1>4, <2>2, GotoMoves DEF InsertClaim, Aside, RPC, Serving, Answered
  <2>3. CASE aclaims[rkey[r]] = "none"
    <3>1. PICK o \in AgentOutcome :
            /\ Finish(r, o, "target")
            /\ aclaims' = IF Applied(o) THEN [aclaims EXCEPT ![rkey[r]] = "unsent"] ELSE aclaims
      BY <1>4, <2>3 DEF InsertClaim
    <3>2. "target" \in RPC
      BY DEF RPC, Serving
    <3>3. CASE o = "ok"
      BY <1>a, <1>4, <2>3, <3>1, <3>2, <3>3, FinishMoves DEF InsertClaim, Claims, Applied
    <3>4. CASE o # "ok"
      BY <1>a, <1>4, <2>1, <2>3, <3>1, <3>2, <3>4, FinishMoves DEF InsertClaim, Aside, Raised
    <3>. QED  BY <3>3, <3>4
  <2>. QED  BY <2>2, <2>3
<1>5. CASE ResolveSendTarget(r)
  <2>1. CASE ReadFails(r)
    BY <1>a, <1>5, <2>1, ReadFailsMoves DEF ResolveSendTarget, Progress, Raised, Unsure
  <2>2. CASE Goto(r, "send")
    BY <1>a, <1>5, <2>2, GotoMoves DEF ResolveSendTarget, Progress, Unsure, RPC, Serving
  <2>3. CASE Raise(r) /\ UNCHANGED faultVars
    BY <1>a, <1>5, <2>3, RaiseMoves DEF ResolveSendTarget, Progress, Raised, Unsure, faultVars
  <2>. QED  BY <1>5, <2>1, <2>2, <2>3 DEF ResolveSendTarget
<1>6. CASE SendMessage(r)
  <2>1. PICK o \in AgentOutcome :
          /\ Finish(r, o, "mark")
          /\ delivered' = IF Applied(o) THEN Bump(delivered, rkey[r]) ELSE delivered
    BY <1>6 DEF SendMessage
  <2>2. "mark" \in RPC
    BY DEF RPC, Serving
  <2>3. CASE o = "ok"
    BY <1>a, <1>6, <2>1, <2>2, <2>3, FinishMoves DEF SendMessage, Delivers, Applied
  <2>4. CASE o = "failed"
    BY <1>a, <1>6, <2>1, <2>2, <2>4, FinishMoves DEF SendMessage, Progress, Applied, Raised, Unsure
  <2>5. CASE o = "lost"
    BY <1>a, <1>6, <2>1, <2>2, <2>5, FinishMoves DEF SendMessage, Delivers, Applied, Raised, Doubtful
  <2>. QED  BY <2>3, <2>4, <2>5 DEF AgentOutcome
<1>7. CASE MarkSent(r)
  <2>1. PICK o \in AgentOutcome :
          /\ Finish(r, o, "log")
          /\ aclaims' = IF Applied(o) /\ aclaims[rkey[r]] # "none"
                          THEN [aclaims EXCEPT ![rkey[r]] = "sent"] ELSE aclaims
    BY <1>7 DEF MarkSent
  <2>2. "log" \in RPC
    BY DEF RPC, Serving
  <2>3. CASE o = "ok"
    BY <1>a, <1>7, <2>1, <2>2, <2>3, FinishMoves DEF MarkSent, Progress, Unsure
  <2>4. CASE o # "ok"
    <3>1. Doubt(r)
      BY <1>a, <1>7, <2>1, <2>2, <2>4, FinishMoves DEF MarkSent, AgentOutcome, Doubtful
    <3>. QED
      BY <1>a, <1>7, <2>1, <2>2, <2>4, <3>1, FinishMoves DEF MarkSent, Progress, Raised
  <2>. QED  BY <2>3, <2>4
<1>8. CASE ReleaseClaim(r)
  <2>1. PICK o \in AgentOutcome :
          /\ Finish(r, o, "error")
          /\ aclaims' = IF Applied(o) THEN [aclaims EXCEPT ![rkey[r]] = "none"] ELSE aclaims
    BY <1>8 DEF ReleaseClaim
  <2>2. "error" \in RPC
    BY DEF RPC, Answered
  <2>3. rpc'[r] = "error" /\ Serves(r)
    BY <1>a, <1>8, <2>1, <2>2, FinishMoves DEF ReleaseClaim, Raised
  <2>. QED
    BY <1>8, <2>1, <2>3 DEF ReleaseClaim, Progress, Frees, Unsure
<1>9. CASE LogReply(r)
  <2>1. PICK o \in AgentOutcome : Finish(r, o, "resolveFind")
    BY <1>9 DEF LogReply
  <2>2. "resolveFind" \in RPC
    BY DEF RPC, Serving
  <2>. QED
    BY <1>a, <1>9, <2>1, <2>2, FinishMoves DEF LogReply, Aside, Raised
<1>10. CASE ResolveFind(r)
  <2>1. CASE ReadFails(r)
    BY <1>a, <1>10, <2>1, ReadFailsMoves DEF ResolveFind, Aside, Raised
  <2>2. CASE ~ ReadFails(r)
    <3>1. PICK p \in {"resolveUpdate", "not_escalated", "error"} :
            Goto(r, p) /\ (p = "resolveUpdate" => conv[rchat[r]] # NoDoc)
      BY <1>10, <2>2 DEF ResolveFind
    <3>. QED
      BY <1>a, <1>10, <3>1, GotoMoves DEF ResolveFind, Aside, RPC, Serving, Answered
  <2>. QED  BY <2>1, <2>2
<1>11. CASE ResolveUpdate(r)
  <2>1. PICK o \in AgentOutcome, p \in {"resolved", "sent"} : Finish(r, o, p)
    BY <1>11 DEF ResolveUpdate
  <2>2. p \in RPC
    BY DEF RPC, Answered
  <2>. QED
    BY <1>a, <1>11, <2>1, <2>2, FinishMoves DEF ResolveUpdate, Aside, Raised
<1>. QED
  BY <1>1, <1>2, <1>3, <1>4, <1>5, <1>6, <1>7, <1>8, <1>9, <1>10, <1>11 DEF Serve

\* The rest of a step: documents are read and written, never removed.
LEMMA ServeWrites ==
  ASSUME TypeInv, NEW r \in Request, Serve(r) \/ ServerLost(r)
  PROVE  /\ phone' \in [Request -> BOOLEAN] /\ seen' \in [Request -> Nat]
         /\ conv' \in [Chat -> Doc \cup {NoDoc}] /\ Kept
         /\ agentRows' \in [Key -> Nat]
<1>0. /\ phone \in [Request -> BOOLEAN] /\ seen \in [Request -> Nat]
      /\ conv \in [Chat -> Doc \cup {NoDoc}] /\ agentRows \in [Key -> Nat]
      /\ rchat[r] \in Chat
      /\ rpc[r] \in Keyed => rkey[r] \in Key
      /\ rpc[r] = "resolveUpdate" => conv[rchat[r]] \in Doc
  BY DEF TypeInv, TypeOK
<1>1. phone' \in [Request -> BOOLEAN]
  <2>1. CASE CheckConversation(r)
    <3>1. conv[rchat[r]] # NoDoc => conv[rchat[r]].phone \in BOOLEAN
      BY <1>0 DEF Doc
    <3>. QED  BY <1>0, <2>1, <3>1 DEF CheckConversation
  <2>2. CASE ~ CheckConversation(r)
    BY <1>0, <2>2
    DEF Serve, LookupClaim, AnswerAlreadySent, InsertClaim, ResolveSendTarget, SendMessage,
        MarkSent, ReleaseClaim, LogReply, ResolveFind, ResolveUpdate, ServerLost, readVars
  <2>. QED  BY <2>1, <2>2
<1>2. seen' \in [Request -> Nat]
  <2>1. CASE ResolveFind(r)
    <3>1. conv[rchat[r]] # NoDoc => conv[rchat[r]].escalated_at \in Nat
      BY <1>0 DEF Doc
    <3>. QED  BY <1>0, <2>1, <3>1 DEF ResolveFind
  <2>2. CASE ~ ResolveFind(r)
    BY <1>0, <2>2
    DEF Serve, LookupClaim, AnswerAlreadySent, CheckConversation, InsertClaim, SendMessage,
        ResolveSendTarget, MarkSent, ReleaseClaim, LogReply, ResolveUpdate, ServerLost, readVars
  <2>. QED  BY <2>1, <2>2
<1>3. conv' \in [Chat -> Doc \cup {NoDoc}] /\ Kept
  <2>1. CASE ResolveUpdate(r)
    <3>1. Resolved(conv[rchat[r]]) \in Doc
      BY <1>0, <2>1, DocWrites DEF ResolveUpdate
    <3>. QED  BY <1>0, <2>1, <3>1, NoDocAssumption DEF ResolveUpdate, Kept
  <2>2. CASE ~ ResolveUpdate(r)
    BY <1>0, <2>2
    DEF Serve, LookupClaim, AnswerAlreadySent, CheckConversation, InsertClaim, SendMessage,
        ResolveSendTarget, MarkSent, ReleaseClaim, LogReply, ResolveFind, ServerLost, Kept
  <2>. QED  BY <2>1, <2>2
<1>4. agentRows' \in [Key -> Nat]
  <2>1. CASE LogReply(r)
    <3>1. rkey[r] \in Key
      BY <1>0, <2>1 DEF LogReply, Keyed
    <3>. QED  BY <1>0, <2>1, <3>1, BumpType DEF LogReply
  <2>2. CASE ~ LogReply(r)
    BY <1>0, <2>2
    DEF Serve, LookupClaim, AnswerAlreadySent, CheckConversation, InsertClaim, SendMessage,
        ResolveSendTarget, MarkSent, ReleaseClaim, ResolveFind, ResolveUpdate, ServerLost
  <2>. QED  BY <2>1, <2>2
<1>. QED  BY <1>1, <1>2, <1>3, <1>4

\* The kinds of step of Serve and ServerLost.
Kinds(r) == Aside(r) \/ Claims(r) \/ Progress(r) \/ Delivers(r) \/ Frees(r)

LEMMA RequestKinds ==
  ASSUME TypeInv, NEW r \in Request, Serve(r) \/ ServerLost(r)
  PROVE  Kinds(r)
BY ServeKinds, CrashServes DEF Kinds

LEMMA TypeNext == TypeInv /\ [Next]_vars => TypeInv'
<1>. SUFFICES ASSUME TypeInv, [Next]_vars PROVE TypeInv'
  OBVIOUS
<1>1. ASSUME NEW r \in Request, Serve(r) \/ ServerLost(r) PROVE TypeInv'
  <2>1. Kinds(r)
    BY <1>1, RequestKinds
  <2>2. Serves(r)
    BY <2>1 DEF Kinds, Aside, Claims, Progress, Delivers, Frees
  <2>3. aclaims \in [Key -> Claimed] /\ delivered \in [Key -> Nat]
    BY DEF TypeInv, TypeOK
  <2>4. aclaims' \in [Key -> Claimed]
    BY <2>1, <2>3 DEF Kinds, Aside, Claims, Progress, Delivers, Frees, Claimed
  <2>5. delivered' \in [Key -> Nat]
    <3>1. CASE Delivers(r)
      <4>1. rkey[r] \in Key
        BY <3>1 DEF Delivers, TypeInv, Keyed, Owning
      <4>. QED  BY <2>3, <3>1, <4>1, BumpType DEF Delivers
    <3>2. CASE ~ Delivers(r)
      BY <2>1, <2>3, <3>2 DEF Kinds, Aside, Claims, Progress, Frees
    <3>. QED  BY <3>1, <3>2
  <2>6. /\ phone' \in [Request -> BOOLEAN] /\ seen' \in [Request -> Nat]
        /\ conv' \in [Chat -> Doc \cup {NoDoc}] /\ Kept
        /\ agentRows' \in [Key -> Nat]
    BY <1>1, ServeWrites
  <2>7. rpc'[r] = "resolveUpdate" => conv'[rchat[r]] # NoDoc
    BY <2>2, <2>6 DEF Serves, Leads, Kept, TypeInv, TypeOK
  <2>. QED  BY <2>2, <2>4, <2>5, <2>6, <2>7, TypeStep DEF Serves, Leads
<1>2. ASSUME NEW r \in Request, NEW k \in Key, PostReply(r, k) PROVE TypeInv'
  <2>1. Moves(r) /\ rpc'[r] = "lookup" /\ UNCHANGED <<strikes, doubts>>
    BY <1>2, GotoMoves DEF PostReply, RPC, Serving
  <2>2. TypeOK'
    BY <1>2, <2>1, AgentAssumption DEF PostReply, TypeInv, TypeOK, Moves, readVars
  <2>3. (\A q \in Request : rpc[q] \in Keyed => rkey[q] \in Key)'
    BY <1>2, <2>1 DEF PostReply, TypeInv, TypeOK, Moves
  <2>4. (\A q \in Request : rpc[q] = "resolveUpdate" => conv[rchat[q]] # NoDoc)'
    BY <1>2, <2>1 DEF PostReply, TypeInv, TypeOK, Moves
  <2>. QED  BY <2>1, <2>2, <2>3, <2>4 DEF TypeInv
<1>3. ASSUME NEW r \in Request, PostResolve(r) PROVE TypeInv'
  <2>1. Moves(r) /\ rpc'[r] = "check" /\ UNCHANGED <<strikes, doubts>>
    BY <1>3, GotoMoves DEF PostResolve, RPC, Serving
  <2>2. rpc'[r] \notin Keyed
    BY <2>1 DEF Keyed, Owning
  <2>. QED
    BY <1>3, <2>1, <2>2, TypeStep
    DEF PostResolve, requestVars, readVars, Faulty, Kept, TypeInv, TypeOK
<1>4. ASSUME NEW k \in Key, ExpireAgentClaim(k) PROVE TypeInv'
  <2>1. strikes' \in [Key \cup {NoKey} -> 0..MaxStrikes]
    BY <1>4, AgentAssumption DEF ExpireAgentClaim, Bump, TypeInv, TypeOK
  <2>2. /\ doubts' \in [Key \cup {NoKey} -> 0..MaxStrikes]
        /\ \A j \in Key \cup {NoKey} : doubts'[j] <= strikes'[j]
    BY <1>4, <2>1, AgentAssumption DEF ExpireAgentClaim, Bump, TypeInv, TypeOK
  <2>3. aclaims' \in [Key -> Claimed]
    BY <1>4 DEF ExpireAgentClaim, TypeInv, TypeOK, Claimed
  <2>. QED
    BY <1>4, <2>1, <2>2, <2>3 DEF ExpireAgentClaim, TypeInv, TypeOK, requestVars, readVars
<1>5. ASSUME NEW c \in Chat, JaneEscalates(c) PROVE TypeInv'
  <2>1. Escalated(conv[c]) \in Doc
    BY <1>5, DocWrites DEF JaneEscalates, TypeInv, TypeOK
  <2>. QED
    BY <1>5, <2>1, NoDocAssumption
    DEF JaneEscalates, agentVars, requestVars, readVars, faultVars, TypeInv, TypeOK
<1>6. CASE UNCHANGED vars
  BY <1>6 DEF vars, agentVars, requestVars, readVars, faultVars, TypeInv, TypeOK
<1>. QED
  BY <1>1, <1>2, <1>3, <1>4, <1>5, <1>6 DEF Next, AgentNext

\* Every variable keeps its type.
THEOREM TypeCorrect == Spec => []TypeOK
<1>1. TypeInv => TypeOK
  BY DEF TypeInv
<1>. QED  BY TypeInit, TypeNext, <1>1, PTL DEF Spec

-----------------------------------------------------------------------------
(***************************************************************************)
(* The claim.                                                              *)
(***************************************************************************)
LEMMA OwnerKey ==
  ASSUME TypeInv, NEW r \in Request, rpc[r] \in Owning
  PROVE  rkey[r] \in Key
BY DEF TypeInv, Keyed

LEMMA ClaimInit == Init => KeyIsExclusive
BY DEF Init, AgentInit, KeyIsExclusive, Owning

LEMMA ClaimNext == TypeInv /\ KeyIsExclusive /\ [Next]_vars => KeyIsExclusive'
<1>. SUFFICES ASSUME TypeInv, KeyIsExclusive, [Next]_vars PROVE KeyIsExclusive'
  OBVIOUS
<1>. USE DEF Holds
<1>0. aclaims \in [Key -> Claimed]
  BY DEF TypeInv, TypeOK
<1>1. ASSUME NEW r \in Request, Serves(r), rpc'[r] \notin Owning \/ rpc[r] \in Owning,
             \A q \in Request : rpc'[q] \in Owning => aclaims'[rkey[q]] # "none"
      PROVE  KeyIsExclusive'
  BY <1>1 DEF Serves, Moves, KeyIsExclusive
<1>2. ASSUME NEW r \in Request, Aside(r) PROVE KeyIsExclusive'
  <2>1. \A q \in Request : rpc'[q] \in Owning => rpc[q] \in Owning /\ rkey[q] \in Key
    BY <1>2, OwnerKey DEF Aside, Serves, Moves
  <2>2. \A q \in Request : rpc'[q] \in Owning => aclaims'[rkey[q]] # "none"
    BY <1>0, <1>2, <2>1 DEF Aside, KeyIsExclusive
  <2>. QED  BY <1>1, <1>2, <2>2 DEF Aside
<1>3. ASSUME NEW r \in Request, Claims(r) PROVE KeyIsExclusive'
  <2>1. rkey[r] \in Key
    BY <1>3 DEF Claims, TypeInv, Keyed
  <2>2. \A q \in Request : rpc[q] \in Owning => rkey[q] # rkey[r] /\ rkey[q] \in Key
    BY <1>3, OwnerKey DEF Claims, KeyIsExclusive
  <2>3. \A q \in Request : q # r /\ rpc'[q] \in Owning => rpc[q] \in Owning
    BY <1>3 DEF Claims, Serves, Moves
  <2>4. \A q \in Request : rpc'[q] \in Owning => aclaims'[rkey[q]] # "none"
    BY <1>0, <1>3, <2>1, <2>2, <2>3 DEF Claims, KeyIsExclusive
  <2>. QED  BY <1>3, <2>2, <2>3, <2>4 DEF Claims, Serves, KeyIsExclusive
<1>4. ASSUME NEW r \in Request, Progress(r) \/ Delivers(r) PROVE KeyIsExclusive'
  <2>1. \A q \in Request : rpc'[q] \in Owning => rpc[q] \in Owning /\ rkey[q] \in Key
    BY <1>4, OwnerKey DEF Progress, Delivers, Serves, Moves, Owning
  <2>2. \A q \in Request : rpc'[q] \in Owning => aclaims'[rkey[q]] # "none"
    BY <1>0, <1>4, <2>1 DEF Progress, Delivers, KeyIsExclusive
  <2>. QED  BY <1>1, <1>4, <2>2 DEF Progress, Delivers, Owning
<1>5. ASSUME NEW r \in Request, Frees(r) PROVE KeyIsExclusive'
  <2>1. rpc[r] \in Owning /\ rpc'[r] \notin Owning
    BY <1>5 DEF Frees, Owning
  <2>2. \A q \in Request : rpc'[q] \in Owning =>
          rpc[q] \in Owning /\ rkey[q] \in Key /\ rkey[q] # rkey[r]
    BY <1>5, <2>1, OwnerKey DEF Frees, Serves, Moves, KeyIsExclusive
  <2>3. \A q \in Request : rpc'[q] \in Owning => aclaims'[rkey[q]] # "none"
    BY <1>0, <1>5, <2>2 DEF Frees, KeyIsExclusive
  <2>. QED  BY <1>1, <1>5, <2>1, <2>3 DEF Frees
<1>6. ASSUME NEW r \in Request, NEW k \in Key, PostReply(r, k) PROVE KeyIsExclusive'
  <2>1. Moves(r) /\ rpc'[r] \notin Owning /\ rpc[r] \notin Owning
    BY <1>6, GotoMoves DEF PostReply, RPC, Serving, Owning
  <2>2. \A q \in Request : q # r => rkey'[q] = rkey[q]
    BY <1>6 DEF PostReply, TypeInv, TypeOK
  <2>. QED  BY <1>6, <2>1, <2>2 DEF PostReply, Moves, KeyIsExclusive
<1>7. ASSUME NEW r \in Request, PostResolve(r) PROVE KeyIsExclusive'
  <2>1. Moves(r) /\ rpc'[r] \notin Owning
    BY <1>7, GotoMoves DEF PostResolve, RPC, Serving, Owning
  <2>. QED  BY <1>7, <2>1 DEF PostResolve, requestVars, Moves, KeyIsExclusive
<1>8. ASSUME NEW k \in Key, ExpireAgentClaim(k) PROVE KeyIsExclusive'
  BY <1>0, <1>8, OwnerKey DEF ExpireAgentClaim, requestVars, KeyIsExclusive
<1>9. ASSUME NEW c \in Chat, JaneEscalates(c) PROVE KeyIsExclusive'
  BY <1>9 DEF JaneEscalates, agentVars, requestVars, KeyIsExclusive
<1>10. CASE UNCHANGED vars
  BY <1>10 DEF vars, agentVars, requestVars, KeyIsExclusive
<1>. QED
  BY <1>2, <1>3, <1>4, <1>5, <1>6, <1>7, <1>8, <1>9, <1>10, RequestKinds
  DEF Next, AgentNext, Kinds

\* Of all the requests that carry one key, at most one is under way with the
\* claim, and the claim is in the database while it is.
THEOREM OneHolderPerKey == Spec => []KeyIsExclusive
BY TypeInit, TypeNext, ClaimInit, ClaimNext, PTL DEF Spec

-----------------------------------------------------------------------------
(***************************************************************************)
(* The deliveries.                                                         *)
(***************************************************************************)
LEMMA PaidTypes ==
  ASSUME TypeInv, NEW k \in Key
  PROVE  delivered[k] \in Nat /\ doubts[k] \in Nat
BY AgentAssumption DEF TypeInv, TypeOK

\* Doubts are never forgotten.
LEMMA DoubtsGrow ==
  ASSUME TypeInv, TypeInv', NEW r \in Request, Serves(r)
  PROVE  /\ \A k \in Key : doubts[k] <= doubts'[k]
         /\ \A k \in Key : k = rkey[r] /\ Doubt(r) => doubts'[k] = doubts[k] + 1
<1>. SUFFICES ASSUME NEW k \in Key
              PROVE  doubts[k] <= doubts'[k] /\ (k = rkey[r] /\ Doubt(r) => doubts'[k] = doubts[k] + 1)
  OBVIOUS
<1>1. doubts[k] \in Nat /\ doubts \in [Key \cup {NoKey} -> 0..MaxStrikes]
  BY PaidTypes DEF TypeInv, TypeOK
<1>. QED  BY <1>1 DEF Serves, Faulty, OneFault, Doubt

LEMMA PaidInit == Init => PaidInv
<1>. SUFFICES ASSUME Init PROVE PaidInv
  OBVIOUS
<1>1. \A k \in Key : delivered[k] = 0 /\ doubts[k] = 0
  BY DEF Init, AgentInit
<1>. QED
  BY <1>1 DEF Init, AgentInit, PaidInv, DeliveriesPaidByDoubts, Unsure

LEMMA PaidNext ==
  TypeInv /\ TypeInv' /\ KeyIsExclusive /\ PaidInv /\ [Next]_vars => PaidInv'
<1>. SUFFICES ASSUME TypeInv, TypeInv', KeyIsExclusive, PaidInv, [Next]_vars PROVE PaidInv'
  OBVIOUS
<1>0. /\ \A k \in Key : delivered[k] \in Nat /\ doubts[k] \in Nat /\ doubts'[k] \in Nat
      /\ aclaims \in [Key -> Claimed]
  BY AgentAssumption DEF TypeInv, TypeOK
<1>1. \A r \in Request : rpc[r] \in Unsure => rkey[r] \in Key
  BY OwnerKey DEF Unsure, Owning
<1>2. ASSUME \A k \in Key : doubts[k] <= doubts'[k], delivered' = delivered,
             \A k \in Key : aclaims'[k] = "none" =>
               aclaims[k] = "none" \/ delivered[k] <= doubts'[k],
             \A r \in Request : rpc'[r] \in Unsure =>
               \/ rpc[r] \in Unsure /\ rkey'[r] = rkey[r]
               \/ rkey'[r] \in Key /\ delivered[rkey'[r]] <= doubts'[rkey'[r]]
      PROVE  PaidInv'
  <2>1. \A k \in Key : delivered[k] <= doubts[k] => delivered[k] <= doubts'[k]
    BY <1>0, <1>2
  <2>2. \A k \in Key : delivered[k] <= 1 + doubts'[k]
    BY <1>0, <1>2 DEF PaidInv, DeliveriesPaidByDoubts
  <2>3. \A k \in Key : aclaims'[k] = "none" => delivered[k] <= doubts'[k]
    BY <1>2, <2>1 DEF PaidInv
  <2>4. \A r \in Request : rpc'[r] \in Unsure => delivered[rkey'[r]] <= doubts'[rkey'[r]]
    BY <1>1, <1>2, <2>1 DEF PaidInv
  <2>. QED  BY <1>2, <2>2, <2>3, <2>4 DEF PaidInv, DeliveriesPaidByDoubts
<1>3. ASSUME NEW r \in Request, Aside(r) PROVE PaidInv'
  <2>1. \A q \in Request : rpc'[q] \in Unsure => rpc[q] \in Unsure /\ rkey'[q] = rkey[q]
    BY <1>3 DEF Aside, Serves, Moves, Owning, Unsure
  <2>2. \A k \in Key : aclaims'[k] = "none" => aclaims[k] = "none"
    BY <1>0, <1>3 DEF Aside
  <2>3. \A k \in Key : doubts[k] <= doubts'[k]
    BY <1>3, DoubtsGrow DEF Aside
  <2>. QED  BY <1>2, <1>3, <2>1, <2>2, <2>3 DEF Aside
<1>4. ASSUME NEW r \in Request, Claims(r) PROVE PaidInv'
  <2>1. rkey[r] \in Key /\ delivered[rkey[r]] <= doubts[rkey[r]]
    BY <1>4 DEF Claims, TypeInv, Keyed, PaidInv
  <2>2. \A q \in Request : q # r /\ rpc'[q] \in Unsure => rpc[q] \in Unsure
    BY <1>4 DEF Claims, Serves, Moves
  <2>3. \A k \in Key : aclaims'[k] = "none" => aclaims[k] = "none"
    BY <1>0, <1>4 DEF Claims
  <2>4. \A k \in Key : doubts[k] <= doubts'[k]
    BY <1>0, <1>4 DEF Claims
  <2>. QED  BY <1>2, <1>4, <2>1, <2>2, <2>3, <2>4 DEF Claims, Serves
<1>5. ASSUME NEW r \in Request, Progress(r) PROVE PaidInv'
  <2>1. rkey[r] \in Key
    BY <1>5, OwnerKey DEF Progress
  <2>2. \A k \in Key : doubts[k] <= doubts'[k]
    BY <1>5, DoubtsGrow DEF Progress
  <2>3. \A k \in Key : aclaims'[k] = "none" => aclaims[k] = "none"
    BY <1>0, <1>5 DEF Progress
  <2>4. ASSUME rpc'[r] \in Unsure, rpc[r] \notin Unsure
        PROVE  delivered[rkey[r]] <= doubts'[rkey[r]]
    <3>1. Doubt(r)
      BY <1>5, <2>4 DEF Progress
    <3>2. doubts'[rkey[r]] = doubts[rkey[r]] + 1
      BY <1>5, <2>1, <3>1, DoubtsGrow DEF Progress
    <3>. QED  BY <1>0, <2>1, <3>2 DEF PaidInv, DeliveriesPaidByDoubts
  <2>5. \A q \in Request : q # r /\ rpc'[q] \in Unsure => rpc[q] \in Unsure
    BY <1>5 DEF Progress, Serves, Moves
  <2>. QED  BY <1>2, <1>5, <2>1, <2>2, <2>3, <2>4, <2>5 DEF Progress, Serves
<1>6. ASSUME NEW r \in Request, Delivers(r) PROVE PaidInv'
  <2>1. PICK k \in Key : k = rkey[r]
    BY <1>6, OwnerKey DEF Delivers, Owning
  <2>2. delivered[k] <= doubts[k] /\ aclaims'[k] # "none"
    BY <1>6, <2>1 DEF Delivers, PaidInv, KeyIsExclusive, Owning, Unsure
  <2>3. /\ delivered'[k] = delivered[k] + 1
        /\ \A j \in Key : j # k => delivered'[j] = delivered[j]
    BY <1>6, <2>1 DEF Delivers, Bump, TypeInv, TypeOK
  <2>4. /\ \A j \in Key : doubts[j] <= doubts'[j]
        /\ Doubt(r) => doubts'[k] = doubts[k] + 1
    BY <1>6, <2>1, DoubtsGrow DEF Delivers
  <2>5. \A q \in Request : q # r /\ rpc'[q] \in Unsure =>
          rpc[q] \in Unsure /\ rkey[q] \in Key /\ rkey[q] # k
    BY <1>1, <1>6, <2>1
    DEF Delivers, Serves, Moves, KeyIsExclusive, Holds, Owning, Unsure
  <2>6. \A j \in Key : delivered'[j] <= 1 + doubts'[j]
    BY <1>0, <2>2, <2>3, <2>4 DEF PaidInv, DeliveriesPaidByDoubts
  <2>7. \A j \in Key : aclaims'[j] = "none" => delivered'[j] <= doubts'[j]
    BY <1>0, <1>6, <2>2, <2>3, <2>4 DEF Delivers, PaidInv
  <2>8. ASSUME NEW q \in Request, rpc'[q] \in Unsure
        PROVE  delivered'[rkey'[q]] <= doubts'[rkey'[q]]
    <3>1. CASE q = r
      <4>1. Doubt(r)
        BY <1>6, <2>8, <3>1 DEF Delivers, Unsure
      <4>. QED
        BY <1>0, <1>6, <2>1, <2>2, <2>3, <2>4, <3>1, <4>1 DEF Delivers, Serves
    <3>2. CASE q # r
      <4>1. rkey[q] \in Key /\ rkey[q] # k /\ delivered[rkey[q]] <= doubts[rkey[q]]
        BY <2>5, <2>8, <3>2 DEF PaidInv
      <4>. QED
        BY <1>0, <1>6, <2>3, <2>4, <4>1 DEF Delivers, Serves
    <3>. QED  BY <3>1, <3>2
  <2>. QED  BY <2>6, <2>7, <2>8 DEF PaidInv, DeliveriesPaidByDoubts
<1>7. ASSUME NEW r \in Request, Frees(r) PROVE PaidInv'
  <2>1. rkey[r] \in Key /\ delivered[rkey[r]] <= doubts[rkey[r]]
    BY <1>1, <1>7 DEF Frees, PaidInv, Unsure
  <2>2. \A k \in Key : doubts[k] <= doubts'[k]
    BY <1>7, DoubtsGrow DEF Frees
  <2>3. delivered[rkey[r]] <= doubts'[rkey[r]]
    BY <1>0, <2>1, <2>2
  <2>4. \A k \in Key : aclaims'[k] = "none" =>
          aclaims[k] = "none" \/ delivered[k] <= doubts'[k]
    BY <1>0, <1>7, <2>1, <2>3 DEF Frees
  <2>5. \A q \in Request : rpc'[q] \in Unsure => rpc[q] \in Unsure
    BY <1>7 DEF Frees, Serves, Moves, Unsure
  <2>. QED  BY <1>2, <1>7, <2>2, <2>4, <2>5 DEF Frees, Serves
<1>8. ASSUME NEW r \in Request, NEW k \in Key, PostReply(r, k) PROVE PaidInv'
  <2>1. Moves(r) /\ rpc'[r] \notin Unsure /\ UNCHANGED <<strikes, doubts>>
    BY <1>8, GotoMoves DEF PostReply, RPC, Serving, Unsure
  <2>2. \A q \in Request : q # r => rkey'[q] = rkey[q]
    BY <1>8 DEF PostReply, TypeInv, TypeOK
  <2>. QED  BY <1>0, <1>2, <1>8, <2>1, <2>2 DEF PostReply, Moves
<1>9. ASSUME NEW r \in Request, PostResolve(r) PROVE PaidInv'
  <2>1. Moves(r) /\ rpc'[r] \notin Unsure /\ UNCHANGED <<strikes, doubts>>
    BY <1>9, GotoMoves DEF PostResolve, RPC, Serving, Unsure
  <2>. QED  BY <1>0, <1>2, <1>9, <2>1 DEF PostResolve, requestVars, Moves
<1>10. ASSUME NEW k \in Key, ExpireAgentClaim(k) PROVE PaidInv'
  <2>1. doubts'[k] = doubts[k] + 1 /\ \A j \in Key : j # k => doubts'[j] = doubts[j]
    BY <1>10 DEF ExpireAgentClaim, Bump, TypeInv, TypeOK
  <2>2. delivered[k] <= doubts'[k] /\ \A j \in Key : doubts[j] <= doubts'[j]
    BY <1>0, <2>1 DEF PaidInv, DeliveriesPaidByDoubts
  <2>3. \A j \in Key : aclaims'[j] = "none" => aclaims[j] = "none" \/ j = k
    BY <1>0, <1>10 DEF ExpireAgentClaim
  <2>. QED  BY <1>2, <1>10, <2>2, <2>3 DEF ExpireAgentClaim, requestVars
<1>11. ASSUME NEW c \in Chat, JaneEscalates(c) PROVE PaidInv'
  BY <1>0, <1>2, <1>11 DEF JaneEscalates, agentVars, requestVars, faultVars
<1>12. CASE UNCHANGED vars
  BY <1>0, <1>2, <1>12 DEF vars, agentVars, requestVars, faultVars
<1>. QED
  BY <1>3, <1>4, <1>5, <1>6, <1>7, <1>8, <1>9, <1>10, <1>11, <1>12, RequestKinds
  DEF Next, AgentNext, Kinds

\* A typed reply reaches the customer at most once for every fault after which
\* the code gives up the claim of a delivered reply, and once besides.
THEOREM DeliveriesArePaid == Spec => []DeliveriesPaidByDoubts
<1>1. PaidInv => DeliveriesPaidByDoubts
  BY DEF PaidInv
<1>. QED
  BY TypeInit, TypeNext, ClaimInit, ClaimNext, PaidInit, PaidNext, <1>1, PTL DEF Spec

-----------------------------------------------------------------------------
(***************************************************************************)
(* At most once.  Nothing but the doubtful faults makes a second delivery. *)
(***************************************************************************)
NoDoubts == AgentFaults \cap (Doubtful \cup {<<"claim", "expired">>}) = {}

LEMMA NoDoubtArises ==
  ASSUME NoDoubts, [Next]_vars
  PROVE  doubts' = doubts
<1>1. ASSUME NEW r \in Request, NEW kind, Strike(r, kind) PROVE doubts' = doubts
  BY <1>1 DEF NoDoubts, Strike
<1>2. ASSUME NEW r \in Request, NEW p, Goto(r, p) PROVE doubts' = doubts
  BY <1>2 DEF Goto, faultVars
<1>3. ASSUME NEW r \in Request, ReadFails(r) PROVE doubts' = doubts
  BY <1>1, <1>3 DEF ReadFails
<1>4. ASSUME NEW r \in Request, NEW o, NEW p, Finish(r, o, p) PROVE doubts' = doubts
  BY <1>1, <1>2, <1>4 DEF Finish
<1>5. ASSUME NEW r \in Request, NEW k \in Key, PostReply(r, k) PROVE doubts' = doubts
  BY <1>2, <1>5 DEF PostReply
<1>6. ASSUME NEW r \in Request, PostResolve(r) \/ ServerLost(r) PROVE doubts' = doubts
  BY <1>1, <1>2, <1>6 DEF PostResolve, ServerLost
<1>7. ASSUME NEW r \in Request, LookupClaim(r) \/ AnswerAlreadySent(r) PROVE doubts' = doubts
  BY <1>2, <1>3, <1>7 DEF LookupClaim, AnswerAlreadySent
<1>8. ASSUME NEW r \in Request, CheckConversation(r) PROVE doubts' = doubts
  BY <1>2, <1>3, <1>8 DEF CheckConversation
<1>9. ASSUME NEW r \in Request, InsertClaim(r) PROVE doubts' = doubts
  BY <1>2, <1>4, <1>9 DEF InsertClaim
<1>10. ASSUME NEW r \in Request, ResolveSendTarget(r) PROVE doubts' = doubts
  BY <1>2, <1>3, <1>10 DEF ResolveSendTarget, faultVars
<1>11. ASSUME NEW r \in Request, SendMessage(r) \/ MarkSent(r) PROVE doubts' = doubts
  BY <1>4, <1>11 DEF SendMessage, MarkSent
<1>12. ASSUME NEW r \in Request, ReleaseClaim(r) \/ LogReply(r) PROVE doubts' = doubts
  BY <1>4, <1>12 DEF ReleaseClaim, LogReply
<1>13. ASSUME NEW r \in Request, ResolveFind(r) PROVE doubts' = doubts
  BY <1>2, <1>3, <1>13 DEF ResolveFind
<1>14. ASSUME NEW r \in Request, ResolveUpdate(r) PROVE doubts' = doubts
  BY <1>4, <1>14 DEF ResolveUpdate
<1>15. ASSUME NEW k \in Key, ExpireAgentClaim(k) PROVE doubts' = doubts
  BY <1>15 DEF ExpireAgentClaim, NoDoubts
<1>16. CASE UNCHANGED vars \/ \E c \in Chat : JaneEscalates(c)
  BY <1>16 DEF vars, JaneEscalates, agentVars, faultVars
<1>. QED
  BY <1>5, <1>6, <1>7, <1>8, <1>9, <1>10, <1>11, <1>12, <1>13, <1>14, <1>15, <1>16
  DEF Next, AgentNext, Serve

\* Without a send that raised after the delivery, a mark that raised and a claim
\* past its 24 hours, a typed reply reaches the customer at most once, however
\* often it is posted and wherever else calls raise and processes die.
THEOREM DeliveredAtMostOnce ==
  ASSUME NoDoubts
  PROVE  Spec => []AtMostOnce
<1>. DEFINE Undoubted == \A k \in Key : doubts[k] = 0
<1>1. Init => Undoubted
  BY DEF Init, AgentInit
<1>2. Undoubted /\ [Next]_vars => Undoubted'
  BY NoDoubtArises
<1>3. TypeInv /\ PaidInv /\ Undoubted => AtMostOnce
  BY PaidTypes DEF PaidInv, DeliveriesPaidByDoubts, AtMostOnce
<1>. HIDE DEF Undoubted
<1>. QED
  BY TypeInit, TypeNext, ClaimInit, ClaimNext, PaidInit, PaidNext, <1>1, <1>2, <1>3, PTL
  DEF Spec

-----------------------------------------------------------------------------
(***************************************************************************)
(* The ledger: each step of a request is a step of OnceLedger for its key, *)
(* or leaves the ledger alone.                                             *)
(***************************************************************************)
\* What the refinement mapping says of taken, holders and paid.
Taken == {k \in Key : aclaims[k] # "none"}
HoldersOf == [k \in Key |-> {r \in Request : Holds(r, k)}]
Owed == [k \in Key |-> doubts[k]]

-----------------------------------------------------------------------------
(***************************************************************************)
(* What the kinds of step do to the holders and to the doubts.             *)
(***************************************************************************)
LEMMA HoldersStay ==
  ASSUME \A q \in Request : rpc'[q] \in Owning <=> rpc[q] \in Owning,
         \A q \in Request : rpc[q] \in Owning => rkey'[q] = rkey[q]
  PROVE  HoldersOf' = HoldersOf
<1>. SUFFICES ASSUME NEW k \in Key
              PROVE  {q \in Request : rpc'[q] \in Owning /\ rkey'[q] = k}
                       = {q \in Request : rpc[q] \in Owning /\ rkey[q] = k}
  BY DEF HoldersOf, Holds
<1>. QED  OBVIOUS

\* The only change to the holders is that request r takes or leaves its key.
LEMMA HoldersMove ==
  ASSUME KeyIsExclusive, NEW r \in Request, rkey[r] \in Key, rkey' = rkey,
         \A q \in Request : q # r => rpc'[q] = rpc[q],
         rpc[r] \in Owning \/ aclaims[rkey[r]] = "none"
  PROVE  HoldersOf' = [HoldersOf EXCEPT ![rkey[r]] = IF rpc'[r] \in Owning THEN {r} ELSE {}]
<1>1. \A q \in Request : q # r /\ rpc[q] \in Owning => rkey[q] # rkey[r]
  BY DEF KeyIsExclusive, Holds
<1>2. ASSUME NEW k \in Key
      PROVE  HoldersOf'[k] = IF k # rkey[r] THEN HoldersOf[k]
                             ELSE IF rpc'[r] \in Owning THEN {r} ELSE {}
  <2>1. CASE k = rkey[r]
    BY <1>1, <2>1 DEF HoldersOf, Holds
  <2>2. CASE k # rkey[r]
    BY <2>2 DEF HoldersOf, Holds
  <2>. QED  BY <2>1, <2>2
<1>. QED  BY <1>2 DEF HoldersOf

\* The doubts of one key at most change, by one.
MayOwe(k) == Owed' \in {Owed, [Owed EXCEPT ![k] = @ + 1]}

LEMMA ServesOwes ==
  ASSUME TypeInv, NEW r \in Request, Serves(r)
  PROVE  (rkey[r] \in Key => MayOwe(rkey[r])) /\ (rkey[r] \notin Key => Owed' = Owed)
<1>1. doubts' = doubts \/ doubts' = [doubts EXCEPT ![rkey[r]] = @ + 1]
  BY DEF Serves, Faulty, OneFault
<1>2. doubts \in [Key \cup {NoKey} -> 0..MaxStrikes]
  BY DEF TypeInv, TypeOK
<1>. QED  BY <1>1, <1>2 DEF Owed, MayOwe

-----------------------------------------------------------------------------
(***************************************************************************)
(* The steps of the ledger, in terms of this module.                       *)
(***************************************************************************)
LEMMA LedgerSteps ==
  ASSUME NEW k \in Key, MayOwe(k),
         \/ Taken' = Taken /\ HoldersOf' = HoldersOf /\ delivered' = delivered
         \/ /\ k \notin Taken /\ Taken' = Taken \cup {k} /\ delivered' = delivered
            /\ \/ \E r \in Request : HoldersOf' = [HoldersOf EXCEPT ![k] = {r}]
               \/ HoldersOf' = HoldersOf
         \/ /\ Taken' = Taken /\ HoldersOf' = HoldersOf
            /\ HoldersOf[k] # {} /\ delivered[k] <= doubts[k]
            /\ delivered' = [delivered EXCEPT ![k] = @ + 1]
         \/ /\ Taken' = Taken /\ delivered' = delivered
            /\ HoldersOf[k] # {} /\ HoldersOf' = [HoldersOf EXCEPT ![k] = {}]
         \/ /\ k \in Taken /\ Taken' = Taken \ {k} /\ delivered' = delivered
            /\ delivered[k] <= doubts'[k] /\ HoldersOf' = [HoldersOf EXCEPT ![k] = {}]
  PROVE  Ledger!Next
<1>1. Ledger!MayPay(k)
  BY DEF MayOwe, Owed, Ledger!MayPay
<1>. QED
  BY <1>1 DEF Ledger!Next, Ledger!Take, Ledger!Orphan, Ledger!Deliver, Ledger!Leave,
     Ledger!Free, Taken, HoldersOf, Owed

LEMMA LedgerInit == Init => Ledger!Init
BY DEF Init, AgentInit, Ledger!Init, Holds, Owning

LEMMA LedgerNext ==
  TypeInv /\ TypeInv' /\ KeyIsExclusive /\ PaidInv /\ [Next]_vars => [Ledger!Next]_Ledger!vars
<1>. SUFFICES ASSUME TypeInv, TypeInv', KeyIsExclusive, PaidInv, [Next]_vars
              PROVE  [Ledger!Next]_Ledger!vars
  OBVIOUS
<1>a. ASSUME UNCHANGED <<Taken, HoldersOf, delivered, Owed>> PROVE UNCHANGED Ledger!vars
  BY <1>a DEF Ledger!vars, Taken, HoldersOf, Owed
<1>b. /\ aclaims \in [Key -> Claimed]
      /\ \A k \in Key : delivered[k] \in Nat /\ doubts[k] \in Nat /\ doubts'[k] \in Nat
  BY DEF TypeInv, TypeInv, TypeOK
<1>1. ASSUME NEW r \in Request, Aside(r) PROVE Ledger!Next \/ UNCHANGED Ledger!vars
  <2>1. HoldersOf' = HoldersOf
    BY <1>1, HoldersStay DEF Aside, Serves, Moves
  <2>2. CASE aclaims' = aclaims /\ rkey[r] \in Key
    BY <1>1, <2>1, <2>2, LedgerSteps, ServesOwes DEF Aside, Taken
  <2>3. CASE aclaims' = aclaims /\ rkey[r] \notin Key
    BY <1>1, <1>a, <2>1, <2>3, ServesOwes DEF Aside, Taken
  <2>4. CASE /\ rkey[r] \in Key /\ aclaims[rkey[r]] = "none"
             /\ aclaims' = [aclaims EXCEPT ![rkey[r]] = "unsent"]
    <3>1. rkey[r] \notin Taken /\ Taken' = Taken \cup {rkey[r]}
      BY <1>b, <2>4 DEF Taken
    <3>. QED  BY <1>1, <2>1, <2>4, <3>1, LedgerSteps, ServesOwes DEF Aside
  <2>. QED  BY <1>1, <2>2, <2>3, <2>4 DEF Aside
<1>2. ASSUME NEW r \in Request, Claims(r) PROVE Ledger!Next
  <2>1. rkey[r] \in Key /\ rpc'[r] \in Owning
    BY <1>2 DEF Claims, TypeInv, Keyed, Owning
  <2>2. rkey[r] \notin Taken /\ Taken' = Taken \cup {rkey[r]}
    BY <1>2, <1>b, <2>1 DEF Claims, Taken
  <2>3. HoldersOf' = [HoldersOf EXCEPT ![rkey[r]] = {r}]
    BY <1>2, <2>1, HoldersMove DEF Claims, Serves, Moves
  <2>. QED  BY <1>2, <2>1, <2>2, <2>3, LedgerSteps, ServesOwes DEF Claims
<1>3. ASSUME NEW r \in Request, rpc[r] \in Owning
      PROVE  rkey[r] \in Key /\ rkey[r] \in Taken /\ HoldersOf[rkey[r]] # {}
  <2>1. rkey[r] \in Key
    BY <1>3, OwnerKey
  <2>2. r \in HoldersOf[rkey[r]]
    BY <1>3, <2>1 DEF HoldersOf, Holds
  <2>. QED  BY <1>3, <2>1, <2>2 DEF KeyIsExclusive, Taken
<1>4. ASSUME NEW r \in Request, Progress(r) PROVE Ledger!Next
  <2>1. rkey[r] \in Key /\ HoldersOf[rkey[r]] # {}
    BY <1>3, <1>4 DEF Progress
  <2>2. Taken' = Taken
    BY <1>4, <1>b, <2>1 DEF Progress, Taken
  <2>3. CASE rpc'[r] \in Owning
    <3>1. HoldersOf' = HoldersOf
      BY <1>4, <2>3, HoldersStay DEF Progress, Serves, Moves
    <3>. QED  BY <1>4, <2>1, <2>2, <3>1, LedgerSteps, ServesOwes DEF Progress
  <2>4. CASE rpc'[r] \notin Owning
    <3>1. HoldersOf' = [HoldersOf EXCEPT ![rkey[r]] = {}]
      BY <1>4, <2>1, <2>4, HoldersMove DEF Progress, Serves, Moves
    <3>. QED  BY <1>4, <2>1, <2>2, <3>1, LedgerSteps, ServesOwes DEF Progress
  <2>. QED  BY <2>3, <2>4
<1>5. ASSUME NEW r \in Request, Delivers(r) PROVE Ledger!Next
  <2>1. rkey[r] \in Key /\ HoldersOf[rkey[r]] # {}
    BY <1>3, <1>5 DEF Delivers, Owning
  <2>2. HoldersOf' = HoldersOf
    BY <1>5, HoldersStay DEF Delivers, Serves, Moves, Owning
  <2>3. delivered[rkey[r]] <= doubts[rkey[r]]
    BY <1>5 DEF Delivers, PaidInv, Unsure
  <2>4. Taken' = Taken
    BY <1>5 DEF Delivers, Taken
  <2>. QED
    BY <1>5, <2>1, <2>2, <2>3, <2>4, LedgerSteps, ServesOwes DEF Delivers, Bump
<1>6. ASSUME NEW r \in Request, Frees(r) PROVE Ledger!Next
  <2>1. rkey[r] \in Key /\ rkey[r] \in Taken /\ rpc'[r] \notin Owning
    BY <1>3, <1>6 DEF Frees, Owning
  <2>2. HoldersOf' = [HoldersOf EXCEPT ![rkey[r]] = {}]
    BY <1>6, <2>1, HoldersMove DEF Frees, Serves, Moves, Owning
  <2>3. Taken' = Taken \ {rkey[r]}
    BY <1>6, <1>b, <2>1 DEF Frees, Taken
  <2>4. delivered[rkey[r]] <= doubts'[rkey[r]]
    <3>1. delivered[rkey[r]] <= doubts[rkey[r]]
      BY <1>6 DEF Frees, PaidInv, Unsure
    <3>2. doubts[rkey[r]] <= doubts'[rkey[r]]
      BY <1>6, <2>1, DoubtsGrow DEF Frees
    <3>. QED  BY <1>b, <2>1, <3>1, <3>2
  <2>. QED
    BY <1>6, <2>1, <2>2, <2>3, <2>4, LedgerSteps, ServesOwes DEF Frees
<1>7. ASSUME NEW r \in Request, NEW k \in Key, PostReply(r, k) PROVE UNCHANGED Ledger!vars
  <2>1. Moves(r) /\ rpc'[r] \notin Owning /\ rpc[r] \notin Owning /\ doubts' = doubts
    BY <1>7, GotoMoves DEF PostReply, RPC, Serving, Owning
  <2>2. \A q \in Request : q # r => rkey'[q] = rkey[q]
    BY <1>7 DEF PostReply, TypeInv, TypeOK
  <2>3. HoldersOf' = HoldersOf
    BY <2>1, <2>2, HoldersStay DEF Moves
  <2>. QED  BY <1>7, <1>a, <2>1, <2>3 DEF PostReply, Taken, Owed
<1>8. ASSUME NEW r \in Request, PostResolve(r) PROVE UNCHANGED Ledger!vars
  <2>1. Moves(r) /\ rpc'[r] \notin Owning /\ rpc[r] \notin Owning /\ doubts' = doubts
    BY <1>8, GotoMoves DEF PostResolve, RPC, Serving, Owning
  <2>2. HoldersOf' = HoldersOf
    BY <1>8, <2>1, HoldersStay DEF PostResolve, requestVars, Moves
  <2>. QED  BY <1>8, <1>a, <2>1, <2>2 DEF PostResolve, Taken, Owed
<1>9. ASSUME NEW k \in Key, ExpireAgentClaim(k) PROVE Ledger!Next
  <2>1. HoldersOf' = HoldersOf
    BY <1>9, HoldersStay DEF ExpireAgentClaim, requestVars
  <2>2. HoldersOf' = [HoldersOf EXCEPT ![k] = {}]
    BY <1>9, <2>1 DEF ExpireAgentClaim, HoldersOf
  <2>3. k \in Taken /\ Taken' = Taken \ {k}
    BY <1>9, <1>b DEF ExpireAgentClaim, Taken
  <2>4. doubts' = [doubts EXCEPT ![k] = @ + 1] /\ doubts'[k] = doubts[k] + 1
    BY <1>9 DEF ExpireAgentClaim, Bump, TypeInv, TypeOK
  <2>5. MayOwe(k)
    BY <2>4 DEF MayOwe, Owed, TypeInv, TypeOK
  <2>6. delivered[k] <= doubts'[k]
    BY <1>b, <2>4 DEF PaidInv, DeliveriesPaidByDoubts
  <2>. QED  BY <1>9, <2>2, <2>3, <2>5, <2>6, LedgerSteps DEF ExpireAgentClaim
<1>10. ASSUME NEW c \in Chat, JaneEscalates(c) PROVE UNCHANGED Ledger!vars
  BY <1>10, <1>a, HoldersStay
  DEF JaneEscalates, agentVars, requestVars, faultVars, Taken, Owed
<1>11. CASE UNCHANGED vars
  BY <1>11, <1>a, HoldersStay DEF vars, agentVars, requestVars, faultVars, Taken, Owed
<1>. QED
  BY <1>1, <1>2, <1>4, <1>5, <1>6, <1>7, <1>8, <1>9, <1>10, <1>11, RequestKinds
  DEF Next, AgentNext, Kinds

\* The agent side implements the ledger: only the request that holds the claim of
\* a typed reply delivers it, once per claim, and the claim is given up only when
\* every delivery made so far is accounted for by a fault.
THEOREM AgentKeepsLedger == Spec => KeepsLedger
<1>1. TypeInv /\ TypeInv' /\ KeyIsExclusive /\ PaidInv /\ [Next]_vars
        => [Ledger!Next]_Ledger!vars
  BY LedgerNext
<1>. QED
  BY TypeInit, TypeNext, ClaimInit, ClaimNext, PaidInit, PaidNext, LedgerInit, <1>1, PTL
  DEF Spec, KeepsLedger, Ledger!Spec

-----------------------------------------------------------------------------
(***************************************************************************)
(* The answers: what a request was told, or a row of the transcript says,  *)
(* goes back to a delivery and to the conversation it was made in.  Rows   *)
(* are counted against deliveries, which takes the number of requests in   *)
(* between.  What a fault-free request raises for depends on the number of *)
(* the conversation as well, which stays as it is in this module.          *)
(***************************************************************************)
\* Requests between a delivery and its row in the transcript.
Logging(k) == {r \in Request : rpc[r] \in {"mark", "log"} /\ rkey[r] = k}

\* A request writes for the conversation its key was typed for.
Addressed == \A r \in Request : rkey[r] \in Key => rchat[r] = ChatOfKey[rkey[r]]

\* What has been delivered where a request says so, and what has been logged.
Delivered ==
  /\ \A k \in Key : aclaims[k] = "sent" => delivered[k] > 0
  /\ \A r \in Request :
       /\ rpc[r] \in {"mark", "log", "answer", "already_sent"} =>
            rkey[r] \in Key /\ delivered[rkey[r]] > 0
       /\ rpc[r] = "sent" => rkey[r] \in Key
       /\ rpc[r] \in {"resolveFind", "resolveUpdate", "sent"} /\ rkey[r] \in Key =>
            agentRows[rkey[r]] > 0

\* A delivery without its row has a request about to write it.
RowsCounted ==
  \A k \in Key :
    /\ IsFiniteSet(Logging(k))
    /\ agentRows[k] + Cardinality(Logging(k)) <= delivered[k]

\* A request that is about to write the row, or a fault, is why there is none.
Pursued ==
  \A k \in Key : delivered[k] > 0 =>
    agentRows[k] > 0 \/ strikes[k] > 0 \/ Logging(k) # {}

\* As long as no fault struck a key, what is in the transcript is marked.
Marked ==
  \A k \in Key : strikes[k] = 0 =>
    /\ agentRows[k] > 0 => aclaims[k] = "sent"
    /\ \A r \in Request : rpc[r] = "log" /\ rkey[r] = k => aclaims[k] = "sent"

\* The conversation a request serves is there, and what was read of it is out of
\* date by later escalations at most.
Read ==
  /\ \A k \in Key : delivered[k] > 0 => conv[ChatOfKey[k]] # NoDoc
  /\ \A r \in Request :
       /\ rpc[r] \in {"insert", "target", "send"} => conv[rchat[r]] # NoDoc
       /\ rpc[r] \in {"resolveUpdate", "sent", "resolved"} =>
            conv[rchat[r]] # NoDoc /\ seen[r] <= conv[rchat[r]].escalated_at
       /\ rpc[r] \in {"sent", "resolved"} =>
            \/ conv[rchat[r]].state = "jane_handling"
            \/ seen[r] < conv[rchat[r]].escalated_at

\* What the answers are about.  No part of it depends on a number, so that the
\* retention job leaves it alone too.
TruthInv == Addressed /\ Delivered /\ RowsCounted /\ Pursued /\ Marked /\ Read

\* The number a request goes by is that of its conversation.
NumberRead ==
  \A r \in Request :
    /\ rpc[r] \in {"insert", "target", "send"} => phone[r] = conv[rchat[r]].phone
    /\ rpc[r] = "send" => phone[r]

\* Nobody can deliver a reply whose conversation has no number.
Undeliverable(k) ==
  delivered[k] = 0 /\ conv[ChatOfKey[k]] # NoDoc /\ ~ conv[ChatOfKey[k]].phone

Completed(k) == aclaims[k] = "sent" /\ delivered[k] = 1 /\ agentRows[k] = 1

\* Without a fault, a request gives up or fails for want of a number, or because
\* its conversation was resolved by another when its reply was delivered and logged.
Excused ==
  \A r \in Request : rkey[r] \in Key /\ strikes[rkey[r]] = 0 =>
    /\ rpc[r] = "release" => Undeliverable(rkey[r])
    /\ rpc[r] = "error" => Undeliverable(rkey[r]) \/ Completed(rkey[r])

AnswerInv == TruthInv /\ NumberRead /\ Excused

-----------------------------------------------------------------------------
\* What a step of a request writes, and that a step after the send goes on or is
\* struck.
Writes(r) ==
  /\ \A k \in Key : aclaims'[k] = "sent" => \/ aclaims[k] = "sent"
                                            \/ k = rkey[r] /\ rpc[r] = "mark"
  /\ \/ agentRows' = agentRows
     \/ rpc[r] = "log" /\ rpc'[r] \notin {"mark", "log"} /\ agentRows' = Bump(agentRows, rkey[r])
  /\ rpc[r] # "check" => phone' = phone
  /\ rpc[r] # "resolveFind" => seen' = seen
  /\ \A q \in Request : q # r => phone'[q] = phone[q] /\ seen'[q] = seen[q]
  /\ rpc[r] = "send" => \/ Struck(r)
                        \/ rpc'[r] = "mark" /\ delivered' = Bump(delivered, rkey[r])
  /\ rpc[r] = "mark" => rpc'[r] = "log" \/ Struck(r)
  /\ rpc[r] = "log" => \/ Struck(r)
                       \/ rpc'[r] = "resolveFind" /\ agentRows' = Bump(agentRows, rkey[r])

\* From where, and with what, a request gets where it gets; in particular where an
\* exception that is no fault is raised.
Enters(r) ==
  /\ rpc'[r] = "insert" =>
       rpc[r] = "check" /\ conv[rchat[r]] # NoDoc /\ phone'[r] = conv[rchat[r]].phone
  /\ rpc'[r] = "target" => rpc[r] = "insert"
  /\ rpc'[r] = "send" => rpc[r] = "target" /\ phone[r]
  /\ rpc'[r] = "mark" => rpc[r] = "send" /\ delivered' = Bump(delivered, rkey[r])
  /\ rpc'[r] = "log" =>
       /\ rpc[r] = "mark"
       /\ aclaims[rkey[r]] # "none" => aclaims' = [aclaims EXCEPT ![rkey[r]] = "sent"]
  /\ rpc'[r] = "answer" => rpc[r] = "lookup" /\ aclaims[rkey[r]] = "sent"
  /\ rpc'[r] = "already_sent" => rpc[r] = "answer"
  /\ rpc'[r] = "resolveFind" =>
       \/ rkey[r] \notin Key
       \/ rpc[r] = "log" /\ agentRows' = Bump(agentRows, rkey[r])
  /\ rpc'[r] = "resolveUpdate" =>
       /\ rpc[r] = "resolveFind" /\ conv[rchat[r]] # NoDoc
       /\ seen'[r] = conv[rchat[r]].escalated_at
  /\ rpc'[r] \in {"sent", "resolved"} =>
       rpc[r] = "resolveUpdate" /\ conv' = [conv EXCEPT ![rchat[r]] = Resolved(@)]
  /\ rpc'[r] = "sent" => rkey[r] \in Key
  /\ rpc'[r] = "release" => \/ Struck(r)
                            \/ rpc[r] = "target" /\ ~ phone[r]
  /\ rpc'[r] = "error" => \/ Struck(r) \/ rpc[r] \in {"release", "resolveFind"}
                          \/ rpc[r] = "answer" /\ conv[rchat[r]] = NoDoc

Edges(r) == Writes(r) /\ Enters(r)

LEMMA EdgesServe ==
  ASSUME TypeInv, NEW r \in Request, Serve(r) \/ ServerLost(r)
  PROVE  Edges(r)
<1>. USE DEF Edges, Writes, Enters, OneFault, Owning
<1>a. /\ rpc[r] \in Keyed => rkey[r] \in Key
      /\ rkey[r] # NoKey => rkey[r] \in Key
      /\ phone \in [Request -> BOOLEAN] /\ seen \in [Request -> Nat]
      /\ aclaims \in [Key -> Claimed]
      /\ rpc[r] \in RPC
  BY DEF TypeInv, TypeOK
<1>0. CASE ServerLost(r)
  BY <1>0, StrikeCounts DEF ServerLost, readVars, Serving, Owning, TypeInv, TypeOK
<1>1. CASE LookupClaim(r)
  <2>1. CASE ReadFails(r)
    BY <1>1, <2>1, ReadFailsMoves DEF LookupClaim, Raised, readVars
  <2>2. CASE ~ ReadFails(r)
    <3>1. PICK p \in {"check", "answer", "inProgress"} :
            Goto(r, p) /\ (p = "answer" => aclaims[rkey[r]] = "sent")
      BY <1>1, <2>2 DEF LookupClaim, TypeInv, TypeOK, Keyed, Claimed
    <3>. QED
      BY <1>1, <3>1, GotoMoves DEF LookupClaim, RPC, Serving, Answered, readVars
  <2>. QED  BY <2>1, <2>2
<1>2. CASE AnswerAlreadySent(r)
  <2>1. CASE ReadFails(r)
    BY <1>2, <2>1, ReadFailsMoves DEF AnswerAlreadySent, Raised, readVars
  <2>2. CASE ~ ReadFails(r)
    <3>1. PICK p \in {"error", "already_sent"} :
            Goto(r, p) /\ (p = "error" => conv[rchat[r]] = NoDoc)
      BY <1>2, <2>2 DEF AnswerAlreadySent
    <3>. QED
      BY <1>2, <3>1, GotoMoves DEF AnswerAlreadySent, RPC, Serving, Answered, readVars
  <2>. QED  BY <2>1, <2>2
<1>3. CASE CheckConversation(r)
  <2>0. UNCHANGED seen /\ \A q \in Request : q # r => phone'[q] = phone[q]
    BY <1>a, <1>3 DEF CheckConversation
  <2>1. CASE ReadFails(r)
    BY <1>3, <2>0, <2>1, ReadFailsMoves DEF CheckConversation, Raised
  <2>2. CASE ~ ReadFails(r)
    <3>1. PICK p \in {"notFound", "resolveFind", "insert", "conflict"} :
            /\ Goto(r, p)
            /\ p = "insert" => conv[rchat[r]] # NoDoc /\ phone'[r] = conv[rchat[r]].phone
            /\ p = "resolveFind" => rkey[r] \notin Key
      BY <1>a, <1>3, <2>2, AgentAssumption DEF CheckConversation
    <3>. QED
      BY <1>3, <2>0, <3>1, GotoMoves DEF CheckConversation, RPC, Serving, Answered
  <2>. QED  BY <2>1, <2>2
<1>4. CASE InsertClaim(r)
  <2>0. UNCHANGED <<phone, seen, agentRows, conv, delivered>> /\ rpc[r] = "insert"
    BY <1>4 DEF InsertClaim, readVars
  <2>1. \A k \in Key : aclaims'[k] = "sent" => aclaims[k] = "sent"
    BY <1>a, <1>4 DEF InsertClaim, Keyed
  <2>2. CASE aclaims[rkey[r]] # "none"
    BY <1>4, <2>0, <2>2, GotoMoves DEF InsertClaim, RPC, Serving, Answered
  <2>3. CASE aclaims[rkey[r]] = "none"
    <3>1. PICK o \in AgentOutcome : Finish(r, o, "target")
      BY <1>4, <2>3 DEF InsertClaim
    <3>2. "target" \in RPC
      BY DEF RPC, Serving
    <3>. QED
      BY <2>0, <2>1, <3>1, <3>2, FinishMoves DEF Raised
  <2>. QED  BY <2>2, <2>3
<1>5. CASE ResolveSendTarget(r)
  <2>1. CASE ReadFails(r)
    BY <1>5, <2>1, ReadFailsMoves DEF ResolveSendTarget, Raised, readVars
  <2>2. CASE Goto(r, "send") /\ phone[r]
    BY <1>5, <2>2, GotoMoves DEF ResolveSendTarget, RPC, Serving, readVars
  <2>3. CASE Raise(r) /\ UNCHANGED faultVars /\ ~ phone[r]
    BY <1>5, <2>3, RaiseMoves DEF ResolveSendTarget, Raised, readVars
  <2>. QED  BY <1>5, <2>1, <2>2, <2>3 DEF ResolveSendTarget
<1>6. CASE SendMessage(r)
  <2>1. PICK o \in AgentOutcome :
          /\ Finish(r, o, "mark")
          /\ delivered' = IF Applied(o) THEN Bump(delivered, rkey[r]) ELSE delivered
    BY <1>6 DEF SendMessage
  <2>2. "mark" \in RPC
    BY DEF RPC, Serving
  <2>3. UNCHANGED <<phone, seen, aclaims, agentRows>> /\ rpc[r] = "send"
    BY <1>6 DEF SendMessage, readVars
  <2>4. \/ rpc'[r] = "mark" /\ delivered' = Bump(delivered, rkey[r])
        \/ rpc'[r] = "release" /\ Struck(r)
    BY <1>6, <2>1, <2>2, FinishMoves DEF SendMessage, Applied, Raised
  <2>. QED  BY <2>3, <2>4
<1>7. CASE MarkSent(r)
  <2>1. PICK o \in AgentOutcome :
          /\ Finish(r, o, "log")
          /\ aclaims' = IF Applied(o) /\ aclaims[rkey[r]] # "none"
                          THEN [aclaims EXCEPT ![rkey[r]] = "sent"] ELSE aclaims
    BY <1>7 DEF MarkSent
  <2>2. "log" \in RPC
    BY DEF RPC, Serving
  <2>3. \A k \in Key : aclaims'[k] = "sent" => \/ aclaims[k] = "sent"
                                               \/ k = rkey[r] /\ rpc[r] = "mark"
    BY <1>a, <1>7, <2>1 DEF MarkSent
  <2>4. UNCHANGED <<phone, seen, agentRows>> /\ rpc[r] = "mark"
    BY <1>7 DEF MarkSent, readVars
  <2>5. \/ /\ rpc'[r] = "log"
           /\ aclaims[rkey[r]] # "none" => aclaims' = [aclaims EXCEPT ![rkey[r]] = "sent"]
        \/ rpc'[r] = "release" /\ Struck(r)
    BY <1>7, <2>1, <2>2, FinishMoves DEF MarkSent, Applied, Raised
  <2>. QED  BY <2>3, <2>4, <2>5
<1>8. CASE ReleaseClaim(r)
  <2>1. PICK o \in AgentOutcome : Finish(r, o, "error")
    BY <1>8 DEF ReleaseClaim
  <2>2. "error" \in RPC
    BY DEF RPC, Answered
  <2>3. \A k \in Key : aclaims'[k] = "sent" => aclaims[k] = "sent"
    BY <1>a, <1>8 DEF ReleaseClaim
  <2>. QED
    BY <1>8, <2>1, <2>2, <2>3, FinishMoves DEF ReleaseClaim, Raised, readVars
<1>9. CASE LogReply(r)
  <2>1. PICK o \in AgentOutcome :
          /\ Finish(r, o, "resolveFind")
          /\ agentRows' = IF Applied(o) THEN Bump(agentRows, rkey[r]) ELSE agentRows
    BY <1>9 DEF LogReply
  <2>2. "resolveFind" \in RPC
    BY DEF RPC, Serving
  <2>. QED
    BY <1>9, <2>1, <2>2, FinishMoves DEF LogReply, Applied, Raised, readVars
<1>10. CASE ResolveFind(r)
  <2>0. UNCHANGED phone /\ \A q \in Request : q # r => seen'[q] = seen[q]
    BY <1>a, <1>10 DEF ResolveFind
  <2>1. CASE ReadFails(r)
    BY <1>10, <2>0, <2>1, ReadFailsMoves DEF ResolveFind, Raised
  <2>2. CASE ~ ReadFails(r)
    <3>1. PICK p \in {"resolveUpdate", "not_escalated", "error"} :
            /\ Goto(r, p)
            /\ p = "resolveUpdate" => /\ conv[rchat[r]] # NoDoc
                                      /\ seen'[r] = conv[rchat[r]].escalated_at
      BY <1>a, <1>10, <2>2 DEF ResolveFind
    <3>. QED
      BY <1>10, <2>0, <3>1, GotoMoves DEF ResolveFind, RPC, Serving, Answered
  <2>. QED  BY <2>1, <2>2
<1>11. CASE ResolveUpdate(r)
  <2>1. PICK o \in AgentOutcome, p \in {"resolved", "sent"} :
          /\ Finish(r, o, p)
          /\ p = "sent" => rkey[r] # NoKey
          /\ conv' = IF Applied(o) THEN [conv EXCEPT ![rchat[r]] = Resolved(@)] ELSE conv
    BY <1>11 DEF ResolveUpdate
  <2>2. p \in RPC
    BY DEF RPC, Answered
  <2>. QED
    BY <1>a, <1>11, <2>1, <2>2, FinishMoves DEF ResolveUpdate, Raised, Applied, readVars
<1>. QED
  BY <1>0, <1>1, <1>2, <1>3, <1>4, <1>5, <1>6, <1>7, <1>8, <1>9, <1>10, <1>11 DEF Serve

-----------------------------------------------------------------------------
\* Conversations go on: escalations are counted up, and one that Jane has is
\* taken from her by a later escalation only.
ConvGrows ==
  \A c \in Chat : conv[c] # NoDoc =>
    /\ conv'[c] # NoDoc
    /\ conv[c].escalated_at <= conv'[c].escalated_at
    /\ conv[c].state = "jane_handling" =>
         \/ conv'[c].state = "jane_handling"
         \/ conv[c].escalated_at < conv'[c].escalated_at

\* No step of this module changes a number.
NumbersStay == \A c \in Chat : conv[c] # NoDoc => conv'[c].phone = conv[c].phone

LEMMA Growth ==
  ASSUME TypeInv, [Next]_vars
  PROVE  ConvGrows /\ NumbersStay
<1>0. /\ conv \in [Chat -> Doc \cup {NoDoc}] /\ rchat \in [Request -> Chat]
      /\ \A c \in Chat : conv[c] # NoDoc => conv[c].escalated_at \in Nat
  BY DEF TypeInv, TypeOK, Doc
<1>1. CASE conv' = conv
  BY <1>0, <1>1 DEF ConvGrows, NumbersStay
<1>2. ASSUME NEW c \in Chat, conv[c] # NoDoc,
             conv' = [conv EXCEPT ![c] = Escalated(@)] \/ conv' = [conv EXCEPT ![c] = Resolved(@)]
      PROVE  ConvGrows /\ NumbersStay
  <2>1. conv[c] \in Doc
    BY <1>0, <1>2
  <2>2. /\ Escalated(conv[c]) # NoDoc /\ Escalated(conv[c]).phone = conv[c].phone
        /\ Escalated(conv[c]).escalated_at = conv[c].escalated_at + 1
    BY <2>1, DocWrites, NoDocAssumption DEF Escalated, Doc
  <2>3. /\ Resolved(conv[c]) # NoDoc /\ Resolved(conv[c]).phone = conv[c].phone
        /\ Resolved(conv[c]).escalated_at = conv[c].escalated_at
        /\ Resolved(conv[c]).state = "jane_handling"
    BY <2>1, DocWrites, NoDocAssumption DEF Resolved, Doc
  <2>. QED
    BY <1>0, <1>2, <2>2, <2>3 DEF ConvGrows, NumbersStay
<1>3. ASSUME NEW r \in Request, ResolveUpdate(r) PROVE ConvGrows /\ NumbersStay
  BY <1>0, <1>1, <1>2, <1>3 DEF ResolveUpdate, TypeInv
<1>4. ASSUME NEW c \in Chat, JaneEscalates(c) PROVE ConvGrows /\ NumbersStay
  BY <1>2, <1>4 DEF JaneEscalates
<1>5. ASSUME NEW r \in Request, Serve(r) \/ ServerLost(r), ~ ResolveUpdate(r) PROVE conv' = conv
  BY <1>5 DEF Serve, LookupClaim, AnswerAlreadySent, CheckConversation, InsertClaim,
     ResolveSendTarget, SendMessage, MarkSent, ReleaseClaim, LogReply, ResolveFind, ServerLost
<1>. QED
  BY <1>1, <1>3, <1>4, <1>5
  DEF Next, AgentNext, PostReply, PostResolve, ExpireAgentClaim, vars, agentVars

-----------------------------------------------------------------------------
\* What was counted stays counted, at least.
Counts ==
  /\ \A k \in Key : /\ delivered[k] <= delivered'[k] /\ agentRows[k] <= agentRows'[k]
                    /\ strikes[k] <= strikes'[k]

LEMMA CountTypes ==
  ASSUME TypeInv, NEW k \in Key
  PROVE  delivered[k] \in Nat /\ agentRows[k] \in Nat /\ strikes[k] \in Nat /\ doubts[k] \in Nat
         /\ doubts[k] <= strikes[k]
BY AgentAssumption DEF TypeInv, TypeOK

LEMMA CountTypesNext ==
  ASSUME TypeInv, NEW r \in Request, Serve(r) \/ ServerLost(r)
  PROVE  \A k \in Key : /\ delivered[k] \in Nat /\ agentRows[k] \in Nat /\ strikes[k] \in Nat
                        /\ delivered'[k] \in Nat /\ agentRows'[k] \in Nat /\ strikes'[k] \in Nat
<1>1. TypeInv'
  BY TypeNext DEF Next, AgentNext
<1>. QED  BY <1>1, AgentAssumption DEF TypeInv, TypeOK

LEMMA ServeCounts ==
  ASSUME TypeInv, NEW r \in Request, Serve(r) \/ ServerLost(r)
  PROVE  /\ Counts /\ Serves(r) /\ Edges(r)
         /\ rkey[r] \in Key /\ Struck(r) => strikes'[rkey[r]] > 0
         /\ \A k \in Key : k # rkey[r] =>
              /\ delivered'[k] = delivered[k] /\ agentRows'[k] = agentRows[k]
              /\ aclaims'[k] = aclaims[k]
         /\ delivered' # delivered =>
              rpc[r] = "send" /\ rkey[r] \in Key /\ delivered' = Bump(delivered, rkey[r])
<1>1. Edges(r) /\ Kinds(r) /\ Serves(r)
  BY EdgesServe, RequestKinds DEF Kinds, Aside, Claims, Progress, Delivers, Frees
<1>2. /\ delivered \in [Key -> Nat] /\ agentRows \in [Key -> Nat] /\ aclaims \in [Key -> Claimed]
      /\ strikes \in [Key \cup {NoKey} -> 0..MaxStrikes] /\ MaxStrikes \in Nat
  BY AgentAssumption DEF TypeInv, TypeOK
<1>3. /\ delivered' # delivered =>
           rpc[r] = "send" /\ rkey[r] \in Key /\ delivered' = Bump(delivered, rkey[r])
      /\ agentRows' # agentRows =>
           rpc[r] = "log" /\ rkey[r] \in Key /\ agentRows' = Bump(agentRows, rkey[r])
  BY <1>1 DEF Edges, Writes, Enters, Kinds, Aside, Claims, Progress, Delivers, Frees, TypeInv, Keyed, Owning
<1>4. strikes' = strikes \/ Struck(r)
  BY <1>1 DEF Serves, Faulty, OneFault
<1>5. \A k \in Key : /\ delivered[k] <= delivered'[k] /\ agentRows[k] <= agentRows'[k]
                     /\ k # rkey[r] => /\ delivered'[k] = delivered[k]
                                       /\ agentRows'[k] = agentRows[k]
  BY <1>2, <1>3 DEF Bump
<1>6. \A k \in Key : k # rkey[r] => aclaims'[k] = aclaims[k]
  BY <1>1, <1>2 DEF Kinds, Aside, Claims, Progress, Delivers, Frees
<1>7. \A k \in Key : strikes[k] <= strikes'[k] /\ (k = rkey[r] /\ Struck(r) => strikes'[k] > 0)
  BY <1>2, <1>4 DEF Struck
<1>. QED  BY <1>1, <1>3, <1>5, <1>6, <1>7 DEF Counts

\* As long as no fault struck a key, sent=True stays.
LEMMA MarkStays ==
  ASSUME TypeInv, PaidInv, Delivered, NEW r \in Request, Serve(r) \/ ServerLost(r),
         NEW k \in Key, strikes[k] = 0, aclaims[k] = "sent"
  PROVE  aclaims'[k] = "sent"
<1>1. delivered[k] > 0 /\ doubts[k] = 0
  BY CountTypes DEF Delivered
<1>2. ~ (Frees(r) /\ k = rkey[r])
  BY <1>1, CountTypes DEF Frees, PaidInv, Unsure
<1>3. Kinds(r) /\ aclaims \in [Key -> Claimed]
  BY RequestKinds DEF TypeInv, TypeOK
<1>. QED
  BY <1>2, <1>3 DEF Kinds, Aside, Claims, Progress, Delivers, Frees

-----------------------------------------------------------------------------
(***************************************************************************)
(* Each part is kept by the steps of a request.                            *)
(***************************************************************************)
LEMMA DeliveredServe ==
  ASSUME TypeInv, KeyIsExclusive, Delivered, NEW r \in Request, Serve(r) \/ ServerLost(r)
  PROVE  Delivered'
<1>1. Counts /\ Serves(r) /\ Edges(r)
  BY ServeCounts
<1>2. \A k \in Key : delivered[k] \in Nat /\ delivered'[k] \in Nat
                     /\ agentRows[k] \in Nat /\ agentRows'[k] \in Nat
  BY CountTypesNext
<1>3. \A k \in Key : aclaims'[k] = "sent" => delivered'[k] > 0
  BY <1>1, <1>2 DEF Edges, Writes, Enters, Counts, Delivered
<1>4. ASSUME NEW q \in Request, rpc'[q] \in {"mark", "log", "answer", "already_sent"}
      PROVE  rkey[q] \in Key /\ delivered'[rkey[q]] > 0
  <2>1. CASE q # r
    BY <1>1, <1>2, <1>4, <2>1 DEF Serves, Moves, Counts, Delivered
  <2>2. CASE q = r /\ rpc'[r] = "mark"
    BY <1>1, <1>2, <2>2 DEF Edges, Writes, Enters, Bump, TypeInv, TypeOK, Keyed, Owning
  <2>3. CASE q = r /\ rpc'[r] \in {"log", "already_sent"}
    BY <1>1, <1>2, <2>3 DEF Edges, Writes, Enters, Counts, Delivered
  <2>4. CASE q = r /\ rpc'[r] = "answer"
    BY <1>1, <1>2, <2>4 DEF Edges, Writes, Enters, Counts, Delivered, TypeInv, Keyed
  <2>. QED  BY <1>4, <2>1, <2>2, <2>3, <2>4
<1>5. ASSUME NEW q \in Request, rpc'[q] = "sent" PROVE rkey[q] \in Key
  BY <1>1, <1>5 DEF Serves, Moves, Edges, Writes, Enters, Delivered
<1>6. ASSUME NEW q \in Request, rpc'[q] \in {"resolveFind", "resolveUpdate", "sent"}, rkey[q] \in Key
      PROVE  agentRows'[rkey[q]] > 0
  <2>1. CASE q # r
    BY <1>1, <1>2, <1>6, <2>1 DEF Serves, Moves, Counts, Delivered
  <2>2. CASE q = r /\ rpc'[r] = "resolveFind"
    BY <1>1, <1>2, <1>6, <2>2 DEF Edges, Writes, Enters, Bump, TypeInv, TypeOK
  <2>3. CASE q = r /\ rpc'[r] \in {"resolveUpdate", "sent"}
    BY <1>1, <1>2, <1>6, <2>3 DEF Edges, Writes, Enters, Counts, Delivered
  <2>. QED  BY <1>6, <2>1, <2>2, <2>3
<1>7. rkey' = rkey
  BY <1>1 DEF Serves
<1>. QED  BY <1>3, <1>4, <1>5, <1>6, <1>7 DEF Delivered

LEMMA RowsServe ==
  ASSUME TypeInv, Delivered, RowsCounted, Pursued, NEW r \in Request, Serve(r) \/ ServerLost(r)
  PROVE  RowsCounted' /\ Pursued'
<1>1. Counts /\ Serves(r) /\ Edges(r)
  BY ServeCounts
<1>2. \A k \in Key : delivered[k] \in Nat /\ agentRows[k] \in Nat /\ strikes[k] \in Nat
                     /\ delivered'[k] \in Nat /\ agentRows'[k] \in Nat /\ strikes'[k] \in Nat
  BY CountTypesNext
<1>. SUFFICES ASSUME NEW k \in Key
              PROVE  /\ IsFiniteSet(Logging(k)')
                     /\ agentRows'[k] + Cardinality(Logging(k)') <= delivered'[k]
                     /\ delivered'[k] > 0 =>
                          agentRows'[k] > 0 \/ strikes'[k] > 0 \/ Logging(k)' # {}
  BY DEF RowsCounted, Pursued
<1>3. /\ IsFiniteSet(Logging(k)) /\ Cardinality(Logging(k)) \in Nat
      /\ agentRows[k] + Cardinality(Logging(k)) <= delivered[k]
      /\ delivered[k] > 0 => agentRows[k] > 0 \/ strikes[k] > 0 \/ Logging(k) # {}
  BY FS_CardinalityType DEF RowsCounted, Pursued
<1>4. \A q \in Request : q # r => (q \in Logging(k)' <=> q \in Logging(k))
  BY <1>1 DEF Serves, Moves, Logging
<1>5. CASE k # rkey[r]
  <2>1. Logging(k)' = Logging(k)
    BY <1>1, <1>4, <1>5 DEF Serves, Logging
  <2>2. delivered'[k] = delivered[k] /\ agentRows'[k] = agentRows[k]
    BY <1>5, ServeCounts
  <2>. QED  BY <1>1, <1>2, <1>3, <2>1, <2>2 DEF Counts
<1>6. CASE k = rkey[r] /\ rpc'[r] = "mark"
  <2>1. rpc[r] = "send" /\ delivered'[k] = delivered[k] + 1 /\ agentRows'[k] = agentRows[k]
    BY <1>1, <1>6 DEF Edges, Writes, Enters, Bump, TypeInv, TypeOK
  <2>2. Logging(k)' = Logging(k) \cup {r} /\ r \notin Logging(k)
    BY <1>1, <1>4, <1>6, <2>1 DEF Serves, Logging
  <2>3. IsFiniteSet(Logging(k)') /\ Cardinality(Logging(k)') = Cardinality(Logging(k)) + 1
    BY <1>3, <2>2, FS_AddElement
  <2>. QED  BY <1>2, <1>3, <2>1, <2>2, <2>3
<1>7. CASE k = rkey[r] /\ rpc'[r] = "log"
  <2>1. rpc[r] = "mark" /\ agentRows'[k] = agentRows[k]
    BY <1>1, <1>7 DEF Edges, Writes, Enters
  <2>2. Logging(k)' = Logging(k) /\ Logging(k)' # {}
    BY <1>1, <1>4, <1>7, <2>1 DEF Serves, Logging
  <2>. QED  BY <1>1, <1>2, <1>3, <2>1, <2>2 DEF Counts
<1>8. CASE k = rkey[r] /\ rpc'[r] \notin {"mark", "log"} /\ rpc[r] \in {"mark", "log"}
  <2>1. strikes'[k] > 0 \/ agentRows'[k] > 0
    <3>1. Struck(r) \/ agentRows' = Bump(agentRows, rkey[r])
      BY <1>1, <1>8 DEF Edges, Writes, Enters
    <3>2. agentRows' = Bump(agentRows, rkey[r]) => agentRows'[k] = agentRows[k] + 1
      BY <1>8 DEF Bump, TypeInv, TypeOK
    <3>. QED  BY <1>2, <1>8, <3>1, <3>2, ServeCounts
  <2>2. agentRows'[k] <= agentRows[k] + 1
    BY <1>1, <1>2, <1>8 DEF Edges, Writes, Enters, Bump, TypeInv, TypeOK
  <2>3. Logging(k)' = Logging(k) \ {r} /\ r \in Logging(k)
    BY <1>1, <1>4, <1>8 DEF Serves, Logging
  <2>4. IsFiniteSet(Logging(k)') /\ Cardinality(Logging(k)') = Cardinality(Logging(k)) - 1
    BY <1>3, <2>3, FS_RemoveElement
  <2>. QED  BY <1>1, <1>2, <1>3, <2>1, <2>2, <2>4 DEF Counts
<1>9. CASE k = rkey[r] /\ rpc'[r] \notin {"mark", "log"} /\ rpc[r] \notin {"mark", "log"}
  <2>1. agentRows' = agentRows
    BY <1>1, <1>9 DEF Edges, Writes, Enters
  <2>2. Logging(k)' = Logging(k)
    BY <1>1, <1>4, <1>9 DEF Serves, Logging
  <2>3. delivered' = delivered \/ strikes'[k] > 0
    <3>1. rpc[r] = "send" => Struck(r)
      BY <1>1, <1>9 DEF Edges, Writes, Enters
    <3>. QED  BY <1>9, <3>1, ServeCounts
  <2>. QED  BY <1>1, <1>2, <1>3, <2>1, <2>2, <2>3 DEF Counts
<1>. QED  BY <1>5, <1>6, <1>7, <1>8, <1>9

LEMMA MarkedServe ==
  ASSUME TypeInv, KeyIsExclusive, PaidInv, Delivered, Marked,
         NEW r \in Request, Serve(r) \/ ServerLost(r)
  PROVE  Marked'
<1>1. Counts /\ Serves(r) /\ Edges(r)
  BY ServeCounts
<1>. SUFFICES ASSUME NEW k \in Key, strikes'[k] = 0
              PROVE  /\ agentRows'[k] > 0 => aclaims'[k] = "sent"
                     /\ \A q \in Request : rpc'[q] = "log" /\ rkey'[q] = k => aclaims'[k] = "sent"
  BY DEF Marked
<1>2. strikes[k] = 0
  BY <1>1, CountTypes DEF Counts
<1>3. aclaims[k] = "sent" => aclaims'[k] = "sent"
  BY <1>2, MarkStays
<1>4. ASSUME agentRows'[k] > 0 PROVE aclaims'[k] = "sent"
  <2>1. agentRows'[k] = agentRows[k] \/ (k = rkey[r] /\ rpc[r] = "log")
    BY <1>1, ServeCounts DEF Edges, Writes, Enters
  <2>. QED  BY <1>2, <1>3, <1>4, <2>1 DEF Marked
<1>5. ASSUME NEW q \in Request, rpc'[q] = "log", rkey'[q] = k PROVE aclaims'[k] = "sent"
  <2>1. CASE q # r
    BY <1>1, <1>2, <1>3, <1>5, <2>1 DEF Serves, Moves, Marked
  <2>2. CASE q = r
    <3>1. rpc[r] = "mark" /\ rkey[r] = k
      BY <1>1, <1>5, <2>2 DEF Edges, Writes, Enters, Serves
    <3>2. aclaims[k] # "none"
      BY <3>1 DEF KeyIsExclusive, Owning
    <3>. QED
      BY <1>1, <1>5, <2>2, <3>1, <3>2 DEF Edges, Writes, Enters, TypeInv, TypeOK
  <2>. QED  BY <2>1, <2>2
<1>. QED  BY <1>4, <1>5

\* What was read of a conversation is out of date by an escalation at most.
LEMMA ReadGrows ==
  ASSUME TypeInv, TypeInv', Read, ConvGrows, NEW q \in Request,
         rpc'[q] = rpc[q], rkey'[q] = rkey[q], rchat'[q] = rchat[q],
         seen'[q] = seen[q]
  PROVE  /\ rpc'[q] \in {"insert", "target", "send"} =>
              conv'[rchat[q]] # NoDoc
         /\ rpc'[q] \in {"resolveUpdate", "sent", "resolved"} =>
              conv'[rchat[q]] # NoDoc /\ seen[q] <= conv'[rchat[q]].escalated_at
         /\ rpc'[q] \in {"sent", "resolved"} =>
              \/ conv'[rchat[q]].state = "jane_handling"
              \/ seen[q] < conv'[rchat[q]].escalated_at
<1>1. rchat[q] \in Chat /\ seen[q] \in Nat
  BY DEF TypeInv, TypeOK
<1>2. conv[rchat[q]] # NoDoc =>
        /\ conv[rchat[q]].escalated_at \in Nat
        /\ conv'[rchat[q]] # NoDoc => conv'[rchat[q]].escalated_at \in Nat
  BY <1>1 DEF TypeInv, TypeOK, Doc
<1>. QED  BY <1>1, <1>2 DEF Read, ConvGrows

LEMMA ReadServe ==
  ASSUME TypeInv, Addressed, Read, NEW r \in Request, Serve(r) \/ ServerLost(r)
  PROVE  Read'
<1>1. Counts /\ Serves(r) /\ Edges(r) /\ ConvGrows /\ TypeInv'
  BY ServeCounts, Growth, TypeNext DEF Next, AgentNext
<1>2. ASSUME NEW k \in Key, delivered'[k] > 0 PROVE conv'[ChatOfKey[k]] # NoDoc
  <2>1. conv[ChatOfKey[k]] # NoDoc
    <3>1. CASE delivered[k] > 0
      BY <3>1 DEF Read
    <3>2. CASE ~ (delivered[k] > 0)
      <4>1. k = rkey[r] /\ rpc[r] = "send"
        BY <1>2, <3>2, ServeCounts
      <4>. QED  BY <4>1 DEF Read, Addressed
    <3>. QED  BY <3>1, <3>2
  <2>. QED  BY <1>1, <2>1, AgentAssumption DEF ConvGrows
<1>3. ASSUME NEW q \in Request
      PROVE  /\ rpc'[q] \in {"insert", "target", "send"} =>
                  conv'[rchat[q]] # NoDoc
             /\ rpc'[q] \in {"resolveUpdate", "sent", "resolved"} =>
                  conv'[rchat[q]] # NoDoc /\ seen'[q] <= conv'[rchat[q]].escalated_at
             /\ rpc'[q] \in {"sent", "resolved"} =>
                  \/ conv'[rchat[q]].state = "jane_handling"
                  \/ seen'[q] < conv'[rchat[q]].escalated_at
  <2>1. CASE q # r
    <3>1. /\ rpc'[q] = rpc[q] /\ rkey'[q] = rkey[q] /\ rchat'[q] = rchat[q]
          /\ seen'[q] = seen[q]
      BY <1>1, <2>1 DEF Serves, Moves, Edges, Writes, Enters
    <3>. QED  BY <1>1, <3>1, ReadGrows
  <2>2. CASE q = r
    <3>0. /\ rchat[r] \in Chat
          /\ conv \in [Chat -> Doc \cup {NoDoc}] /\ conv' \in [Chat -> Doc \cup {NoDoc}]
          /\ \A d \in Doc : d.escalated_at \in Nat
      BY <1>1 DEF TypeInv, TypeOK, Doc
    <3>1. CASE rpc'[r] \in {"insert", "target", "send"}
      <4>1. conv[rchat[r]] # NoDoc
        BY <1>1, <3>1 DEF Edges, Writes, Enters, Read
      <4>. QED  BY <1>1, <2>2, <3>0, <3>1, <4>1 DEF ConvGrows
    <3>2. CASE rpc'[r] = "resolveUpdate"
      BY <1>1, <2>2, <3>0, <3>2 DEF Edges, Writes, Enters, ConvGrows
    <3>3. CASE rpc'[r] \in {"sent", "resolved"}
      <4>1. /\ conv[rchat[r]] # NoDoc /\ seen[r] <= conv[rchat[r]].escalated_at
            /\ seen'[r] = seen[r] /\ seen[r] \in Nat
            /\ conv' = [conv EXCEPT ![rchat[r]] = Resolved(@)]
        BY <1>1, <3>3 DEF Edges, Writes, Enters, Read, TypeInv, TypeOK
      <4>2. /\ conv'[rchat[r]] = Resolved(conv[rchat[r]]) /\ conv[rchat[r]] \in Doc
            /\ conv'[rchat[r]] # NoDoc
        BY <1>1, <3>0, <4>1 DEF ConvGrows
      <4>3. conv'[rchat[r]].state = "jane_handling"
            /\ conv'[rchat[r]].escalated_at = conv[rchat[r]].escalated_at
        BY <4>2 DEF Resolved, Doc
      <4>. QED  BY <2>2, <3>3, <4>1, <4>2, <4>3
    <3>. QED  BY <2>2, <3>1, <3>2, <3>3
  <2>. QED  BY <2>1, <2>2
<1>4. rchat' = rchat
  BY <1>1 DEF Serves
<1>. QED  BY <1>2, <1>3, <1>4 DEF Read

LEMMA NumberServe ==
  ASSUME TypeInv, Read, NumberRead, NEW r \in Request, Serve(r) \/ ServerLost(r)
  PROVE  NumberRead'
<1>1. Serves(r) /\ Edges(r) /\ NumbersStay
  BY ServeCounts, Growth DEF Next, AgentNext
<1>2. \A q \in Request : rchat[q] \in Chat
  BY DEF TypeInv, TypeOK
<1>. SUFFICES ASSUME NEW q \in Request
              PROVE  /\ rpc'[q] \in {"insert", "target", "send"} =>
                          phone'[q] = conv'[rchat[q]].phone
                     /\ rpc'[q] = "send" => phone'[q]
  BY <1>1 DEF NumberRead, Serves
<1>3. CASE q # r
  <2>1. rpc'[q] = rpc[q] /\ phone'[q] = phone[q]
    BY <1>1, <1>3 DEF Serves, Moves, Edges, Writes
  <2>. QED  BY <1>1, <1>2, <2>1 DEF NumberRead, NumbersStay, Read
<1>4. CASE q = r
  <2>1. rpc'[r] \in {"insert", "target", "send"} =>
          conv[rchat[r]] # NoDoc /\ phone'[r] = conv[rchat[r]].phone
    BY <1>1 DEF Edges, Writes, Enters, NumberRead, Read
  <2>2. rpc'[r] = "send" => phone'[r]
    BY <1>1 DEF Edges, Writes, Enters
  <2>. QED  BY <1>1, <1>2, <1>4, <2>1, <2>2 DEF NumbersStay
<1>. QED  BY <1>3, <1>4

LEMMA ExcusedServe ==
  ASSUME TypeInv, KeyIsExclusive, PaidInv, AnswerInv, RowsCounted',
         NEW r \in Request, Serve(r) \/ ServerLost(r)
  PROVE  Excused'
<1>. USE DEF AnswerInv, TruthInv
<1>1. Counts /\ Serves(r) /\ Edges(r) /\ ConvGrows /\ NumbersStay
  BY ServeCounts, Growth DEF Next, AgentNext
<1>2. \A k \in Key : /\ delivered[k] \in Nat /\ agentRows[k] \in Nat /\ strikes[k] \in Nat
                     /\ delivered'[k] \in Nat /\ agentRows'[k] \in Nat /\ strikes'[k] \in Nat
  BY CountTypesNext
<1>3. ASSUME NEW k \in Key, strikes'[k] = 0
      PROVE  strikes[k] = 0 /\ doubts[k] = 0 /\ delivered[k] <= 1 /\ agentRows'[k] <= delivered'[k]
  <2>1. strikes[k] = 0
    BY <1>1, <1>2, <1>3 DEF Counts
  <2>2. doubts[k] = 0 /\ delivered[k] <= 1
    BY <1>2, <2>1, CountTypes DEF PaidInv, DeliveriesPaidByDoubts
  <2>3. IsFiniteSet(Logging(k)') /\ agentRows'[k] + Cardinality(Logging(k)') <= delivered'[k]
    BY DEF RowsCounted
  <2>4. agentRows'[k] <= delivered'[k]
    BY <1>2, <2>3, FS_CardinalityType
  <2>. QED  BY <2>1, <2>2, <2>4
\* A delivery without a fault is a first one, to a number that is there.
<1>4. ASSUME NEW k \in Key, strikes'[k] = 0, delivered'[k] # delivered[k]
      PROVE  delivered[k] = 0 /\ ~ Undeliverable(k)
  <2>1. k = rkey[r] /\ rpc[r] = "send"
    BY <1>4, ServeCounts
  <2>2. delivered[k] = 0
    BY <1>2, <1>3, <1>4, <2>1 DEF PaidInv, Unsure
  <2>3. conv[ChatOfKey[k]].phone
    BY <2>1 DEF NumberRead, Addressed
  <2>. QED  BY <2>2, <2>3 DEF Undeliverable
<1>5. ASSUME NEW k \in Key, strikes'[k] = 0, Undeliverable(k) PROVE Undeliverable(k)'
  BY <1>1, <1>4, <1>5, AgentAssumption DEF Undeliverable, ConvGrows, NumbersStay
<1>6. ASSUME NEW k \in Key, strikes'[k] = 0, Completed(k) PROVE Completed(k)'
  <2>1. aclaims'[k] = "sent"
    BY <1>3, <1>6, MarkStays DEF Completed
  <2>2. delivered'[k] = 1
    BY <1>4, <1>6 DEF Completed
  <2>3. agentRows'[k] = 1
    BY <1>1, <1>2, <1>3, <1>6, <2>2 DEF Completed, Counts
  <2>. QED  BY <2>1, <2>2, <2>3 DEF Completed
<1>. SUFFICES ASSUME NEW q \in Request, NEW k \in Key, rkey[q] = k, strikes'[k] = 0
              PROVE  /\ rpc'[q] = "release" => Undeliverable(k)'
                     /\ rpc'[q] = "error" => Undeliverable(k)' \/ Completed(k)'
  BY <1>1 DEF Excused, Serves, Undeliverable, Completed
<1>7. CASE q # r
  BY <1>1, <1>3, <1>5, <1>6, <1>7 DEF Serves, Moves, Excused
<1>8. CASE q = r
  <2>1. ~ Struck(r)
    BY <1>2, <1>8, ServeCounts
  <2>2. CASE rpc'[r] = "release"
    <3>1. rpc[r] = "target" /\ ~ phone[r]
      BY <1>1, <2>1, <2>2 DEF Edges, Writes, Enters
    <3>2. delivered[k] = 0
      BY <1>2, <1>3, <1>8, <3>1 DEF PaidInv, Unsure
    <3>3. Undeliverable(k)
      BY <1>8, <3>1, <3>2 DEF Read, NumberRead, Addressed, Undeliverable
    <3>. QED  BY <1>5, <1>8, <2>2, <3>3
  <2>3. CASE rpc'[r] = "error"
    <3>1. CASE rpc[r] = "release"
      <4>1. Undeliverable(k)
        BY <1>3, <1>8, <3>1 DEF Excused
      <4>. QED  BY <1>5, <1>8, <2>3, <4>1
    <3>2. CASE rpc[r] = "resolveFind"
      <4>1. agentRows[k] > 0
        BY <1>8, <3>2 DEF Delivered
      <4>2. agentRows[k] <= delivered[k]
        BY <1>2, <1>8, FS_CardinalityType DEF RowsCounted
      <4>3. Completed(k)
        BY <1>2, <1>3, <1>8, <4>1, <4>2 DEF Marked, Completed
      <4>. QED  BY <1>6, <1>8, <2>3, <4>3
    <3>3. CASE rpc[r] = "answer" /\ conv[rchat[r]] = NoDoc
      BY <1>8, <3>3 DEF Delivered, Read, Addressed
    <3>. QED  BY <1>1, <2>1, <2>3, <3>1, <3>2, <3>3 DEF Edges, Writes, Enters
  <2>. QED  BY <1>8, <2>2, <2>3
<1>. QED  BY <1>7, <1>8

-----------------------------------------------------------------------------
LEMMA TruthInit == AgentInit => TruthInv
<1>. SUFFICES ASSUME AgentInit PROVE TruthInv
  OBVIOUS
<1>1. \A k \in Key : Logging(k) = {} /\ delivered[k] = 0 /\ agentRows[k] = 0
  BY DEF AgentInit, Logging
<1>2. RowsCounted
  BY <1>1, FS_EmptySet DEF RowsCounted
<1>. QED
  BY <1>1, <1>2, AgentAssumption
  DEF AgentInit, TruthInv, Addressed, Delivered, Pursued, Marked, Read

LEMMA AnswerInit == Init => AnswerInv
BY TruthInit DEF Init, AgentInit, AnswerInv, NumberRead, Excused

\* What a request that is accepted, a conversation that is escalated again and a
\* claim that expires leave alone.
Elsewhere ==
  /\ UNCHANGED <<phone, seen, delivered, agentRows>>
  /\ \A q \in Request :
       \/ rpc'[q] = rpc[q] /\ rkey'[q] = rkey[q] /\ rchat'[q] = rchat[q]
       \/ /\ rpc[q] = "idle" /\ rpc'[q] \in {"lookup", "check"}
          /\ rkey'[q] \in Key => rchat'[q] = ChatOfKey[rkey'[q]]
  /\ \A k \in Key : \/ aclaims'[k] = aclaims[k]
                    \/ aclaims'[k] = "none" /\ strikes'[k] > 0
  /\ Counts

LEMMA TruthElsewhere ==
  ASSUME TypeInv, TypeInv', TruthInv, ConvGrows, Elsewhere
  PROVE  TruthInv'
<1>. USE DEF TruthInv, Elsewhere
<1>1. \A k \in Key : Logging(k)' = Logging(k)
  BY DEF Logging
<1>2. \A k \in Key : strikes[k] \in Nat /\ strikes'[k] \in Nat /\ delivered[k] \in Nat
  BY AgentAssumption DEF TypeInv, TypeOK
<1>3. Addressed' /\ Delivered'
  BY DEF Addressed, Delivered
<1>4. RowsCounted' /\ Pursued'
  BY <1>1, <1>2 DEF RowsCounted, Pursued, Counts
<1>5. Marked'
  BY <1>2 DEF Marked, Counts
<1>6. Read'
  <2>1. \A k \in Key : delivered'[k] > 0 => conv'[ChatOfKey[k]] # NoDoc
    BY AgentAssumption DEF Read, ConvGrows
  <2>. QED  BY <2>1, ReadGrows DEF Read
<1>. QED  BY <1>3, <1>4, <1>5, <1>6

LEMMA ExcusedElsewhere ==
  ASSUME TypeInv, TypeInv', AnswerInv, ConvGrows, NumbersStay, Elsewhere
  PROVE  NumberRead' /\ Excused'
<1>. USE DEF AnswerInv, TruthInv, Elsewhere
<1>1. \A k \in Key : strikes[k] \in Nat /\ strikes'[k] \in Nat
  BY AgentAssumption DEF TypeInv, TypeOK
<1>2. NumberRead'
  BY DEF NumberRead, NumbersStay, Read, TypeInv, TypeOK
<1>3. \A k \in Key : Undeliverable(k) => Undeliverable(k)'
  BY AgentAssumption DEF Undeliverable, ConvGrows, NumbersStay
<1>4. \A k \in Key : strikes'[k] = 0 /\ Completed(k) => Completed(k)'
  BY <1>1 DEF Completed
<1>. QED  BY <1>1, <1>2, <1>3, <1>4 DEF Excused, Counts, Undeliverable, Completed

\* Every step serves a request, or goes on elsewhere.
LEMMA NextKinds ==
  ASSUME TypeInv, Addressed, [Next]_vars
  PROVE  Elsewhere \/ \E r \in Request : Serve(r) \/ ServerLost(r)
<1>1. ASSUME NEW r \in Request, NEW k \in Key, PostReply(r, k) PROVE Elsewhere
  <2>1. Moves(r) /\ rpc'[r] = "lookup" /\ UNCHANGED <<strikes, doubts>>
    BY <1>1, GotoMoves DEF PostReply, RPC, Serving
  <2>2. /\ UNCHANGED <<phone, seen, aclaims, delivered, agentRows>> /\ rpc[r] = "idle"
        /\ rkey' = [rkey EXCEPT ![r] = k] /\ rchat' = [rchat EXCEPT ![r] = ChatOfKey[k]]
    BY <1>1 DEF PostReply, readVars
  <2>3. Counts
    BY <2>1, <2>2, CountTypes DEF Counts
  <2>4. \A q \in Request : IF q = r THEN rkey'[q] = k /\ rchat'[q] = ChatOfKey[k]
                           ELSE rpc'[q] = rpc[q] /\ rkey'[q] = rkey[q] /\ rchat'[q] = rchat[q]
    BY <2>1, <2>2 DEF Moves, TypeInv, TypeOK
  <2>. QED  BY <2>1, <2>2, <2>3, <2>4 DEF Elsewhere
<1>2. ASSUME NEW r \in Request, PostResolve(r) PROVE Elsewhere
  <2>1. Moves(r) /\ rpc'[r] = "check" /\ UNCHANGED <<strikes, doubts>>
    BY <1>2, GotoMoves DEF PostResolve, RPC, Serving
  <2>2. UNCHANGED <<rkey, rchat, phone, seen, aclaims, delivered, agentRows>> /\ rpc[r] = "idle"
    BY <1>2 DEF PostResolve, requestVars, readVars
  <2>3. Counts
    BY <2>1, <2>2, CountTypes DEF Counts
  <2>4. /\ \A q \in Request : q # r => rpc'[q] = rpc[q]
        /\ rkey'[r] \in Key => rchat'[r] = ChatOfKey[rkey'[r]]
    BY <2>1, <2>2 DEF Moves, Addressed
  <2>. QED  BY <2>1, <2>2, <2>3, <2>4 DEF Elsewhere
<1>3. ASSUME NEW k \in Key, ExpireAgentClaim(k) PROVE Elsewhere
  <2>1. UNCHANGED <<rpc, rkey, rchat, phone, seen, delivered, agentRows>>
    BY <1>3 DEF ExpireAgentClaim, requestVars, readVars
  <2>2. /\ strikes \in [Key \cup {NoKey} -> 0..MaxStrikes] /\ MaxStrikes \in Nat
        /\ strikes' = [strikes EXCEPT ![k] = @ + 1]
        /\ aclaims \in [Key -> Claimed] /\ aclaims' = [aclaims EXCEPT ![k] = "none"]
    BY <1>3, AgentAssumption DEF ExpireAgentClaim, Bump, TypeInv, TypeOK
  <2>3. \A j \in Key : /\ strikes[j] <= strikes'[j] /\ (j = k => strikes'[j] > 0)
                       /\ IF j = k THEN aclaims'[j] = "none" ELSE aclaims'[j] = aclaims[j]
    BY <2>2
  <2>4. Counts
    BY <2>1, <2>3, CountTypes DEF Counts
  <2>. QED  BY <2>1, <2>3, <2>4 DEF Elsewhere
<1>4. CASE (\E c \in Chat : JaneEscalates(c)) \/ UNCHANGED vars
  <2>1. UNCHANGED <<rpc, rkey, rchat, phone, seen, aclaims, delivered, agentRows, strikes>>
    BY <1>4 DEF JaneEscalates, vars, agentVars, requestVars, readVars, faultVars
  <2>2. Counts
    BY <2>1, CountTypes DEF Counts
  <2>. QED  BY <2>1, <2>2 DEF Elsewhere
<1>. QED
  BY <1>1, <1>2, <1>3, <1>4 DEF Next, AgentNext

LEMMA TruthNext ==
  TypeInv /\ TypeInv' /\ KeyIsExclusive /\ PaidInv /\ TruthInv /\ [Next]_vars => TruthInv'
<1>. SUFFICES ASSUME TypeInv, TypeInv', KeyIsExclusive, PaidInv, TruthInv, [Next]_vars
              PROVE  TruthInv'
  OBVIOUS
<1>1. ASSUME NEW r \in Request, Serve(r) \/ ServerLost(r) PROVE TruthInv'
  <2>1. Addressed'
    BY <1>1, ServeCounts DEF Serves, Addressed, TruthInv
  <2>2. Delivered' /\ RowsCounted' /\ Pursued' /\ Marked' /\ Read'
    BY <1>1, DeliveredServe, RowsServe, MarkedServe, ReadServe DEF TruthInv
  <2>. QED  BY <2>1, <2>2 DEF TruthInv
<1>2. CASE Elsewhere
  BY <1>2, Growth, TruthElsewhere
<1>. QED  BY <1>1, <1>2, NextKinds DEF TruthInv

LEMMA AnswerNext ==
  TypeInv /\ TypeInv' /\ KeyIsExclusive /\ PaidInv /\ AnswerInv /\ [Next]_vars => AnswerInv'
<1>. SUFFICES ASSUME TypeInv, TypeInv', KeyIsExclusive, PaidInv, AnswerInv, [Next]_vars
              PROVE  AnswerInv'
  OBVIOUS
<1>1. TruthInv'
  BY TruthNext DEF AnswerInv
<1>2. ASSUME NEW r \in Request, Serve(r) \/ ServerLost(r) PROVE NumberRead' /\ Excused'
  BY <1>1, <1>2, NumberServe, ExcusedServe DEF AnswerInv, TruthInv
<1>3. ASSUME Elsewhere PROVE NumberRead' /\ Excused'
  BY <1>3, Growth, ExcusedElsewhere
<1>. QED  BY <1>1, <1>2, <1>3, NextKinds DEF AnswerInv, TruthInv

\* The invariants together.
AgentInv == TypeInv /\ KeyIsExclusive /\ PaidInv /\ AnswerInv

LEMMA AgentInvariant == Spec => []AgentInv
<1>1. Init => AgentInv
  BY TypeInit, ClaimInit, PaidInit, AnswerInit DEF AgentInv
<1>2. AgentInv /\ [Next]_vars => AgentInv'
  BY TypeNext, ClaimNext, PaidNext, AnswerNext DEF AgentInv
<1>. QED  BY <1>1, <1>2, PTL DEF Spec

LEMMA AnswersFromTruth == TypeInv /\ TruthInv => AnswersAreTrue
<1>. SUFFICES ASSUME TypeInv, TruthInv PROVE AnswersAreTrue
  OBVIOUS
<1>. USE DEF TruthInv
<1>1. ASSUME NEW k \in Key PROVE agentRows[k] <= delivered[k]
  BY CountTypes, FS_CardinalityType DEF RowsCounted
<1>2. ASSUME NEW r \in Request, rpc[r] = "already_sent"
      PROVE  /\ delivered[rkey[r]] > 0
             /\ \/ agentRows[rkey[r]] > 0
                \/ strikes[rkey[r]] > 0
                \/ \E q \in Request : rkey[q] = rkey[r] /\ rpc[q] \in Serving
  BY <1>2 DEF Delivered, Pursued, Logging, Serving, Owning
<1>. QED  BY <1>1, <1>2 DEF AnswersAreTrue, Delivered, Read

\* What the claim, the transcript and the answers to the dashboard say is so,
\* however requests interleave, fail and die.
THEOREM AnswersTrue == Spec => []AnswersAreTrue
<1>1. AgentInv => AnswersAreTrue
  BY AnswersFromTruth DEF AgentInv, AnswerInv
<1>. QED  BY <1>1, AgentInvariant, PTL

\* A reply that is answered with an error no fault explains was delivered, logged
\* and marked, or not delivered at all.
THEOREM ErrorsRepeatable == Spec => []ErrorIsRepeatable
<1>1. ASSUME AgentInv PROVE ErrorIsRepeatable
  <2>1. \A r \in Request : rkey[r] # NoKey => rkey[r] \in Key
    BY <1>1 DEF AgentInv, TypeInv, TypeOK
  <2>. QED
    BY <1>1, <2>1 DEF AgentInv, AnswerInv, Excused, Undeliverable, Completed, ErrorIsRepeatable
<1>. QED  BY <1>1, AgentInvariant, PTL

===============================================================================
