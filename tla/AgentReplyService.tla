--------------------------- MODULE AgentReplyService ---------------------------
(***************************************************************************)
(* The agent side: the dashboard POSTs a reply or a resolve for one        *)
(* conversation, the FastAPI process serves it.                            *)
(*   app/routers/internal_router.py, app/services/agent_reply_service.py,  *)
(*   app/services/conversation_service.py (resolve)                        *)
(*                                                                         *)
(* Requests run concurrently, in several replicas, and interleave at every *)
(* await; one action is one await with the code up to the next one.  As in *)
(* MessageProcessor an await ends "ok", "failed" (raised, no effect) or    *)
(* "lost" (took effect, raised all the same), and a process may die.       *)
(***************************************************************************)
EXTENDS ConversationDoc

CONSTANTS
  Chat,
  Request,        \* POSTs to /reply and /resolve
  Key,            \* idempotency keys the dashboard made up, one per typed reply
  ChatOfKey,      \* the conversation that reply was typed for
  NoKey,          \* a /resolve request has no key
  AgentFaults,    \* <<step, outcome>> pairs that may go wrong
  MaxStrikes,     \* bound on the faults that strike one key
  MaxEscalations  \* bound on escalated_at

ASSUME AgentAssumption ==
  /\ ChatOfKey \in [Key -> Chat]
  /\ NoKey \notin Key
  /\ MaxStrikes \in Nat
  /\ MaxEscalations \in Nat

VARIABLES
  rpc,        \* where each request is, or how it was answered
  rkey,       \* its idempotency key
  rchat,      \* its conversation
  phone,      \* "phone_encrypted" in the document it checked
  seen,       \* the escalation that resolve's find_one read
  aclaims,    \* jane_wa_agent_reply_claims: absent, sent=False or sent=True
  conv,       \* jane_wa_conversations
  delivered,  \* replies that reached the customer, per key
  agentRows,  \* jane_wa_messages rows, role "agent", per key
  strikes,    \* faults that have struck each key
  doubts      \* those of them that can take the claim of a delivered reply away

requestVars == <<rkey, rchat>>
readVars    == <<phone, seen>>
faultVars   == <<strikes, doubts>>
agentVars   == <<rpc, requestVars, readVars, aclaims, delivered, agentRows, faultVars>>
vars        == <<agentVars, conv>>

-----------------------------------------------------------------------------
Owning   == {"target", "send", "mark", "release"}   \* holds the claim, unsure of it
Serving  == Owning \cup {"lookup", "answer", "check", "insert", "log",
                         "resolveFind", "resolveUpdate"}
Answered == {"sent", "already_sent", "resolved", "not_escalated",   \* 200
             "notFound", "conflict", "inProgress", "error"}         \* 404 409 409 500
RPC      == Serving \cup Answered \cup {"idle", "cut"}

Claimed == {"none", "unsent", "sent"}

AgentOutcome == {"ok", "failed", "lost"}
Applied(o) == o # "failed"

TypeOK ==
  /\ rpc \in [Request -> RPC]
  /\ rkey \in [Request -> Key \cup {NoKey}]
  /\ rchat \in [Request -> Chat]
  /\ phone \in [Request -> BOOLEAN]
  /\ seen \in [Request -> Nat]
  /\ aclaims \in [Key -> Claimed]
  /\ conv \in [Chat -> Doc \cup {NoDoc}]
  /\ delivered \in [Key -> Nat]
  /\ agentRows \in [Key -> Nat]
  /\ strikes \in [Key \cup {NoKey} -> 0..MaxStrikes]
  /\ doubts \in [Key \cup {NoKey} -> 0..MaxStrikes]

AgentInit ==
  /\ rpc = [r \in Request |-> "idle"]
  /\ rkey = [r \in Request |-> NoKey]
  /\ rchat \in [Request -> Chat]
  /\ phone = [r \in Request |-> FALSE]
  /\ seen = [r \in Request |-> 0]
  /\ aclaims = [k \in Key |-> "none"]
  /\ delivered = [k \in Key |-> 0]
  /\ agentRows = [k \in Key |-> 0]
  /\ strikes = [k \in Key \cup {NoKey} |-> 0]
  /\ doubts = strikes

-----------------------------------------------------------------------------
Goto(r, p) == rpc' = [rpc EXCEPT ![r] = p] /\ UNCHANGED faultVars

\* A send that raises after Meta accepted it and a mark that raises lead the
\* except block to delete the claim of a reply that was delivered; so does the
\* end of the claim's 24 hours.
Doubtful == {<<"send", "lost">>, <<"mark", "failed">>, <<"mark", "lost">>}

Bump(f, k) == [f EXCEPT ![k] = @ + 1]

Strike(r, kind) ==
  /\ <<rpc[r], kind>> \in AgentFaults
  /\ strikes[rkey[r]] < MaxStrikes
  /\ strikes' = Bump(strikes, rkey[r])
  /\ doubts' = IF <<rpc[r], kind>> \in Doubtful THEN Bump(doubts, rkey[r]) ELSE doubts

\* Slip: the try block reaches down to the insert of the transcript row.
RaiseFromLog(r) ==
  rpc' = [rpc EXCEPT ![r] = IF @ \in {"target", "send", "mark", "log"} THEN "release" ELSE "error"]

\* An exception.  Between the insert of the claim and its sent=True the except
\* block deletes the claim first; anywhere else it is a 500 straight away.
Raise(r) ==
  rpc' = [rpc EXCEPT ![r] = IF @ \in {"target", "send", "mark"} THEN "release" ELSE "error"]

Finish(r, o, next) ==
  IF o = "ok" THEN Goto(r, next)
              ELSE Strike(r, o) /\ Raise(r)

\* A read: it can fail but there is nothing to lose.
ReadFails(r) == Strike(r, "failed") /\ Raise(r)

-----------------------------------------------------------------------------
(***************************************************************************)
(* The two endpoints.  The service never deletes a conversation and hands  *)
(* out ids of those it has, but an id may be wrong: a chat with no document *)
(* stands for it.                                                          *)
(***************************************************************************)
PostReply(r, k) ==
  /\ rpc[r] = "idle"
  /\ Goto(r, "lookup")
  /\ rkey' = [rkey EXCEPT ![r] = k]
  /\ rchat' = [rchat EXCEPT ![r] = ChatOfKey[k]]
  /\ UNCHANGED <<readVars, aclaims, conv, delivered, agentRows>>

PostResolve(r) ==
  /\ rpc[r] = "idle"
  /\ Goto(r, "check")
  /\ UNCHANGED <<requestVars, readVars, aclaims, conv, delivered, agentRows>>

-----------------------------------------------------------------------------
(***************************************************************************)
(* send_agent_reply and resolve_only, one action per await.                *)
(***************************************************************************)
\* Slip: any claim that exists counts as done.
LookupTrusting(r) ==
  /\ rpc[r] = "lookup"
  /\ Goto(r, IF aclaims[rkey[r]] = "none" THEN "check" ELSE "answer")
  /\ UNCHANGED <<requestVars, readVars, aclaims, conv, delivered, agentRows>>

\* Slip: a claim that is not marked sent is taken over.
LookupRetrying(r) ==
  /\ rpc[r] = "lookup"
  /\ Goto(r, CASE aclaims[rkey[r]] = "none"   -> "check"
               [] aclaims[rkey[r]] = "sent"   -> "answer"
               [] aclaims[rkey[r]] = "unsent" -> "target")
  /\ UNCHANGED <<requestVars, readVars, aclaims, conv, delivered, agentRows>>

\* find_one of the claim: a done reply is answered, an unfinished one refused.
LookupClaim(r) ==
  /\ rpc[r] = "lookup"
  /\ \/ Goto(r, CASE aclaims[rkey[r]] = "none"   -> "check"
                  [] aclaims[rkey[r]] = "sent"   -> "answer"
                  [] aclaims[rkey[r]] = "unsent" -> "inProgress")
     \/ ReadFails(r)
  /\ UNCHANGED <<requestVars, readVars, aclaims, conv, delivered, agentRows>>

\* The read of the conversation behind "already_sent"; the router takes its
\* state, which a missing document does not have.
AnswerAlreadySent(r) ==
  /\ rpc[r] = "answer"
  /\ \/ Goto(r, IF conv[rchat[r]] = NoDoc THEN "error" ELSE "already_sent")
     \/ ReadFails(r)
  /\ UNCHANGED <<requestVars, readVars, aclaims, conv, delivered, agentRows>>

\* find_one of the conversation.  A reply needs it escalated; resolve_only
\* leaves that question to resolve.
CheckConversation(r) ==
  LET d == conv[rchat[r]] IN
  /\ rpc[r] = "check"
  /\ \/ /\ d = NoDoc
        /\ Goto(r, "notFound")
        /\ UNCHANGED phone
     \/ /\ d # NoDoc
        /\ Goto(r, IF rkey[r] = NoKey THEN "resolveFind"
                   ELSE IF d.state = "escalated" THEN "insert" ELSE "conflict")
        /\ phone' = [phone EXCEPT ![r] = d.phone]
     \/ ReadFails(r) /\ UNCHANGED phone
  /\ UNCHANGED <<requestVars, seen, aclaims, conv, delivered, agentRows>>

\* Slip: no unique index on idempotency_key.
InsertWithoutIndex(r) ==
  /\ rpc[r] = "insert"
  /\ aclaims' = [aclaims EXCEPT ![rkey[r]] = "unsent"]
  /\ Goto(r, "target")
  /\ UNCHANGED <<requestVars, readVars, conv, delivered, agentRows>>

\* Slip: the claim is inserted without its sent field.
InsertWithoutSent(r) ==
  /\ rpc[r] = "insert"
  /\ aclaims[rkey[r]] = "none"
  /\ aclaims' = [aclaims EXCEPT ![rkey[r]] = "unset"]
  /\ Goto(r, "target")
  /\ UNCHANGED <<requestVars, readVars, conv, delivered, agentRows>>

\* insert_one on the unique idempotency_key index, outside the try block that
\* releases: an insert that was applied but raised leaves the claim behind.
InsertClaim(r) ==
  LET k == rkey[r] IN
  /\ rpc[r] = "insert"
  /\ \/ /\ aclaims[k] # "none"
        /\ Goto(r, "inProgress")
        /\ UNCHANGED aclaims
     \/ /\ aclaims[k] = "none"
        /\ \E o \in AgentOutcome :
             /\ Finish(r, o, "target")
             /\ aclaims' = IF Applied(o) THEN [aclaims EXCEPT ![k] = "unsent"] ELSE aclaims
  /\ UNCHANGED <<requestVars, readVars, conv, delivered, agentRows>>

\* _resolve_send_target: decrypt the number of the document that was checked
\* (a KeyError when it has none), then look up the client's token.
ResolveSendTarget(r) ==
  /\ rpc[r] = "target"
  /\ \/ /\ phone[r]
        /\ Goto(r, "send") \/ ReadFails(r)
     \/ /\ ~ phone[r]
        /\ Raise(r)
        /\ UNCHANGED faultVars
  /\ UNCHANGED <<requestVars, readVars, aclaims, conv, delivered, agentRows>>

SendMessage(r) ==
  LET k == rkey[r] IN
  /\ rpc[r] = "send"
  /\ \E o \in AgentOutcome :
       /\ Finish(r, o, "mark")
       /\ delivered' = IF Applied(o) THEN Bump(delivered, k) ELSE delivered
  /\ UNCHANGED <<requestVars, readVars, aclaims, conv, agentRows>>

\* update_one sent=True: nothing to update when the claim is gone.
MarkSent(r) ==
  LET k == rkey[r] IN
  /\ rpc[r] = "mark"
  /\ \E o \in AgentOutcome :
       /\ Finish(r, o, "log")
       /\ aclaims' = IF Applied(o) /\ aclaims[k] # "none"
                       THEN [aclaims EXCEPT ![k] = "sent"] ELSE aclaims
  /\ UNCHANGED <<requestVars, readVars, conv, delivered, agentRows>>

\* The except block: delete_one of the claim, then a 500.
ReleaseClaim(r) ==
  LET k == rkey[r] IN
  /\ rpc[r] = "release"
  /\ \E o \in AgentOutcome :
       /\ Finish(r, o, "error")
       /\ aclaims' = IF Applied(o) THEN [aclaims EXCEPT ![k] = "none"] ELSE aclaims
  /\ UNCHANGED <<requestVars, readVars, conv, delivered, agentRows>>

LogReply(r) ==
  LET k == rkey[r] IN
  /\ rpc[r] = "log"
  /\ \E o \in AgentOutcome :
       /\ Finish(r, o, "resolveFind")
       /\ agentRows' = IF Applied(o) THEN Bump(agentRows, k) ELSE agentRows
  /\ UNCHANGED <<requestVars, readVars, aclaims, conv, delivered>>

\* Slip: the call of resolve is inside the try block that releases.
ResolveFindInTry(r) ==
  LET d == conv[rchat[r]] IN
  /\ rpc[r] = "resolveFind"
  /\ \/ /\ d # NoDoc /\ d.state = "escalated"
        /\ Goto(r, "resolveUpdate")
        /\ seen' = [seen EXCEPT ![r] = d.escalated_at]
     \/ /\ d = NoDoc \/ d.state # "escalated"
        /\ Goto(r, IF rkey[r] = NoKey THEN "not_escalated" ELSE "release")
        /\ UNCHANGED seen
  /\ UNCHANGED <<requestVars, phone, aclaims, conv, delivered, agentRows>>

\* resolve, the find_one and its guard.  resolve_only answers with the document
\* it had; send_agent_reply passes None on, and the router's
\* conversation.get("state") raises AttributeError.
ResolveFind(r) ==
  LET d == conv[rchat[r]] IN
  /\ rpc[r] = "resolveFind"
  /\ \/ /\ d # NoDoc /\ d.state = "escalated"
        /\ Goto(r, "resolveUpdate")
        /\ seen' = [seen EXCEPT ![r] = d.escalated_at]
     \/ /\ d = NoDoc \/ d.state # "escalated"
        /\ Goto(r, IF rkey[r] = NoKey THEN "not_escalated" ELSE "error")
        /\ UNCHANGED seen
     \/ ReadFails(r) /\ UNCHANGED seen
  /\ UNCHANGED <<requestVars, phone, aclaims, conv, delivered, agentRows>>

\* resolve, the update_one: by _id alone, whatever happened since the find_one.
ResolveUpdate(r) ==
  LET c == rchat[r] IN
  /\ rpc[r] = "resolveUpdate"
  /\ \E o \in AgentOutcome :
       /\ Finish(r, o, IF rkey[r] = NoKey THEN "resolved" ELSE "sent")
       /\ conv' = IF Applied(o) THEN [conv EXCEPT ![c] = Resolved(@)] ELSE conv
  /\ UNCHANGED <<requestVars, readVars, aclaims, delivered, agentRows>>

-----------------------------------------------------------------------------
\* The process serving r dies; nobody runs its except block, and nothing but
\* the dashboard, with another request, tries again.
ServerLost(r) ==
  /\ rpc[r] \in Serving
  /\ Strike(r, "crash")
  /\ rpc' = [rpc EXCEPT ![r] = "cut"]
  /\ UNCHANGED <<requestVars, readVars, aclaims, conv, delivered, agentRows>>

Holds(r, k) == rpc[r] \in Owning /\ rkey[r] = k

\* The TTL index, 24 hours after the insert; no request takes that long.
ExpireAgentClaim(k) ==
  /\ aclaims[k] # "none"
  /\ <<"claim", "expired">> \in AgentFaults
  /\ strikes[k] < MaxStrikes
  /\ ~ \E r \in Request : Holds(r, k)
  /\ aclaims' = [aclaims EXCEPT ![k] = "none"]
  /\ strikes' = Bump(strikes, k)
  /\ doubts' = Bump(doubts, k)
  /\ UNCHANGED <<rpc, requestVars, readVars, conv, delivered, agentRows>>

Serve(r) ==
  \/ LookupClaim(r) \/ AnswerAlreadySent(r) \/ CheckConversation(r) \/ InsertClaim(r)
  \/ ResolveSendTarget(r) \/ SendMessage(r) \/ MarkSent(r) \/ ReleaseClaim(r)
  \/ LogReply(r) \/ ResolveFind(r) \/ ResolveUpdate(r)

AgentNext ==
  \/ \E r \in Request, k \in Key : PostReply(r, k)
  \/ \E r \in Request : PostResolve(r) \/ Serve(r) \/ ServerLost(r)
  \/ \E k \in Key : ExpireAgentClaim(k)

-----------------------------------------------------------------------------
(***************************************************************************)
(* The rest of the system, for this module alone: conversations escalated  *)
(* or not, with or without a number, and customers whose questions         *)
(* escalate them again (MessageProcessor has the real thing).              *)
(***************************************************************************)
Init ==
  /\ AgentInit
  /\ conv \in [Chat -> {NoDoc, NewDoc, Escalated(NewDoc),
                        [Escalated(NewDoc) EXCEPT !.phone = FALSE]}]

JaneEscalates(c) ==
  /\ conv[c] # NoDoc
  /\ conv[c].escalated_at < MaxEscalations
  /\ conv' = [conv EXCEPT ![c] = Escalated(@)]
  /\ UNCHANGED agentVars

Next == AgentNext \/ \E c \in Chat : JaneEscalates(c)

Spec == Init /\ [][Next]_vars

-----------------------------------------------------------------------------
(***************************************************************************)
(* Properties.                                                             *)
(***************************************************************************)
\* Of the requests that carry one key, at most one is between inserting the
\* claim and settling it, however they interleave, fail or die, and the claim
\* is in the database for all the others to see.
KeyIsExclusive ==
  \A r \in Request : rpc[r] \in Owning =>
    /\ aclaims[rkey[r]] # "none"
    /\ \A q \in Request : Holds(q, rkey[r]) => q = r

\* Every delivery of one typed reply beyond the first is paid for by a fault
\* after which the code gives up the claim of a delivered reply.  Crashes at any
\* point and calls that raise at any other step never deliver twice.
DeliveriesPaidByDoubts == \A k \in Key : delivered[k] <= 1 + doubts[k]

\* "A false automatic retry risks a real double-send to the customer": one
\* typed reply reaches the customer at most once, however often it is posted.
AtMostOnce == \A k \in Key : delivered[k] <= 1

\* The claim, the transcript and the answers tell the truth: sent=True only
\* after a delivery, one agent row per delivery at most, and a request that is
\* answered "sent" has its row, its claim's delivery and its conversation
\* resolved at least up to the escalation it read.  A key answered
\* "already_sent" is delivered; it is in the transcript too unless a request is
\* still serving it or a fault struck it in between.
AnswersAreTrue ==
  /\ \A k \in Key : /\ aclaims[k] = "sent" => delivered[k] > 0
                    /\ agentRows[k] <= delivered[k]
  /\ \A r \in Request :
       /\ rpc[r] = "already_sent" =>
            /\ delivered[rkey[r]] > 0
            /\ \/ agentRows[rkey[r]] > 0
               \/ strikes[rkey[r]] > 0
               \/ \E q \in Request : rkey[q] = rkey[r] /\ rpc[q] \in Serving
       /\ rpc[r] = "sent" => agentRows[rkey[r]] > 0
       /\ rpc[r] \in {"sent", "resolved"} =>
            \/ conv[rchat[r]].state = "jane_handling"
            \/ conv[rchat[r]].escalated_at > seen[r]

\* The router's 500 for a reply whose conversation somebody else resolved
\* first: with no fault behind it, the agent who gets an error may post the key
\* again.  Either the reply was delivered and logged and its claim says so, or
\* nothing was delivered.
ErrorIsRepeatable ==
  \A r \in Request :
    rpc[r] = "error" /\ rkey[r] # NoKey /\ strikes[rkey[r]] = 0 =>
      LET k == rkey[r] IN
      \/ delivered[k] = 0
      \/ aclaims[k] = "sent" /\ delivered[k] = 1 /\ agentRows[k] = 1

-----------------------------------------------------------------------------
(***************************************************************************)
(* A key's claim, its deliveries and the faults that pay for them keep the *)
(* promise of OnceLedger.                                                  *)
(***************************************************************************)
Ledger == INSTANCE OnceLedger WITH
  Item    <- Key,
  Worker  <- Request,
  taken   <- {k \in Key : aclaims[k] # "none"},
  holders <- [k \in Key |-> {r \in Request : Holds(r, k)}],
  out     <- delivered,
  paid    <- [k \in Key |-> doubts[k]]

\* Only the one request that holds the claim of a reply delivers it, once per
\* claim, and a claim is given up only when every delivery made so far has a
\* fault of its own to answer for it.
KeepsLedger == Ledger!Spec

===============================================================================
