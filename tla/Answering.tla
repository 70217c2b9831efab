------------------------------- MODULE Answering -------------------------------
(***************************************************************************)
(* What a question is answered from: the number it came in on is resolved  *)
(* to a brand, the brand's facts are read, and the first that matches is   *)
(* quoted.                                                                 *)
(*   app/tasks/message_processor.py (_resolve_client_context),             *)
(*   app/services/client_registry.py, app/services/brand_facts_reader.py,  *)
(*   app/services/reply_engine.py                                          *)
(*                                                                         *)
(* Both lookups go through a ReadThroughCache of the process.  Their keys  *)
(* are disjoint, so that one cache stands for both dicts.                  *)
(* MessageProcessor has what happens to the task between and after them.   *)
(***************************************************************************)
EXTENDS ReplyEngine, ReadThroughCache

CONSTANTS
  Number, Brand,
  OwnNumber, OwnBrand,  \* settings.WHATSAPP_PHONE_NUMBER_ID, URI_BRAND_ID
  Legal,                \* versions of the document of a number or of a brand
  NoConnection,         \* the connection of a number nobody has registered
  SwitchedOff,          \* a connection that is there and not active
  BrandOf,              \* the brand_id or user_id in a version of a connection
  NoBrand,              \* neither of the two
  FactsIn,              \* the operational_facts in a version of a brand
  Question,
  MaxNow, MaxWrites     \* bounds on the clock and on changes of the database

VARIABLES
  at,        \* where each task is
  number,    \* the number its question came in on
  received,  \* when it looked the number up
  brand,     \* the brand it resolved that to
  asked,     \* the question
  match,     \* what it was answered from
  writes

taskVars == <<at, number, received, brand, asked, match>>
vars     == <<cacheVars, taskVars, writes>>

\* find_one filters on connection_status "active", so that the registry returns, and
\* caches, the same None for both.
None == {NoConnection, SwitchedOff}

Task == Call   \* each Celery child has one at a time, question after question

ASSUME AnsweringAssumption ==
  /\ OwnNumber \in Number /\ OwnBrand \in Brand
  /\ NoBrand \notin Brand
  /\ Number \cap Brand = {} /\ Key = Number \cup Brand
  /\ Value = UNION {Legal[k] : k \in Key}
  /\ MaxWrites \in Nat
  /\ \A t, u \in Task : ProcOf[t] = ProcOf[u] => t = u
  /\ \A b \in Brand : \A f \in Legal[b] : \A topic \in ToSet(Topics) :
       DOMAIN FactsIn[f][topic] \subseteq Nat
  /\ Question \subseteq Seq(STRING)
  /\ \A b \in Brand : \A f \in Legal[b] : \A i \in DOMAIN FactsIn[f].catalogue :
       FactsIn[f].catalogue[i].name \in Seq(STRING)
  /\ \A n \in Number : \A v \in Legal[n] \ None : BrandOf[v] \in Brand \cup {NoBrand}

At == {"idle", "context", "ready", "facts", "answered", "held", "dropped", "failed"}

\* In particular a lookup returns a version of the document it asked for.
TypeOK ==
  /\ CacheTypeOK
  /\ at \in [Task -> At]
  /\ number \in [Task -> Number]
  /\ received \in [Task -> Nat]
  /\ brand \in [Task -> Brand \cup {NoBrand}]
  /\ asked \in [Task -> Question \cup {<<>>}]
  /\ DOMAIN match = Task
  /\ \A t \in Task : match[t].topic \in ToSet(Topics) \cup {"none"}
  /\ writes \in 0..MaxWrites
  /\ \A k \in Key : truth[k] \in Legal[k]
  /\ \A t \in Task : stage[t] = "returned" => got[t] \in Legal[key[t]]

Init ==
  /\ CacheInit
  /\ \A k \in Key : truth[k] \in Legal[k]
  /\ at = [t \in Task |-> "idle"]
  /\ number = [t \in Task |-> OwnNumber]
  /\ received = [t \in Task |-> TTL]
  /\ brand = [t \in Task |-> NoBrand]
  /\ asked = [t \in Task |-> <<>>]
  /\ match = [t \in Task |-> NoMatch]
  /\ writes = 0

-----------------------------------------------------------------------------
Move(t, p) == at' = [at EXCEPT ![t] = p]

\* A question comes in on number n: get_client_by_phone_number_id is called.
\* The process has nothing else to do, one task at a time.
Receive(t, n) ==
  /\ at[t] \in {"idle", "answered", "held", "dropped", "failed"}
  /\ Move(t, "context")
  /\ number' = [number EXCEPT ![t] = n]
  /\ received' = [received EXCEPT ![t] = now]
  /\ brand' = [brand EXCEPT ![t] = NoBrand]
  /\ asked' = [asked EXCEPT ![t] = <<>>]
  /\ match' = [match EXCEPT ![t] = NoMatch]
  /\ Lookup(t, n)
  /\ UNCHANGED writes

\* Slip: a number that is not known falls back to the own brand, any number.
RouteGuessing(t) ==
  /\ at[t] = "context"
  /\ stage[t] = "returned"
  /\ brand' = [brand EXCEPT ![t] = IF got[t] \in None THEN OwnBrand ELSE BrandOf[got[t]]]
  /\ Move(t, "ready")
  /\ UNCHANGED <<cacheVars, number, received, asked, match, writes>>

\* _resolve_client_context with the registry's answer: the connection's brand;
\* without one the transition fallback for the own number, or a drop.
Route(t) ==
  /\ at[t] = "context"
  /\ stage[t] = "returned"
  /\ \/ /\ got[t] \notin None
        /\ brand' = [brand EXCEPT ![t] = BrandOf[got[t]]]
        /\ Move(t, "ready")
     \/ /\ got[t] \in None
        /\ number[t] = OwnNumber
        /\ brand' = [brand EXCEPT ![t] = OwnBrand]
        /\ Move(t, "ready")
     \/ /\ got[t] \in None
        /\ number[t] # OwnNumber
        /\ Move(t, "dropped")
        /\ UNCHANGED brand
  /\ UNCHANGED <<cacheVars, number, received, asked, match, writes>>

\* reply_engine.handle: get_operational_facts_for_brand is called, and raises
\* at once without a brand.
Handle(t) ==
  /\ at[t] = "ready"
  /\ \/ /\ brand[t] # NoBrand
        /\ Move(t, "facts")
        /\ Lookup(t, brand[t])
     \/ /\ brand[t] = NoBrand
        /\ Move(t, "failed")
        /\ UNCHANGED cacheVars
  /\ UNCHANGED <<number, received, brand, asked, match, writes>>

\* The facts are there: the match is phrased (by the model, or as it stands when
\* the model fails) and sent, or the question is held and escalated.
Answer(t, q) ==
  LET m == FindMatch(q, FactsIn[got[t]]) IN
  /\ at[t] = "facts"
  /\ stage[t] = "returned"
  /\ Move(t, IF m = NoMatch THEN "held" ELSE "answered")
  /\ asked' = [asked EXCEPT ![t] = q]
  /\ match' = [match EXCEPT ![t] = m]
  /\ UNCHANGED <<cacheVars, number, received, brand, writes>>

\* Either lookup raised: the task fails, for Celery to retry.
Fail(t) ==
  /\ at[t] \in {"context", "facts"}
  /\ stage[t] = "raised"
  /\ Move(t, "failed")
  /\ UNCHANGED <<cacheVars, number, received, brand, asked, match, writes>>

AwaitLookup(t) ==
  /\ Read(t) \/ ReadRaises(t) \/ Store(t)
  /\ UNCHANGED <<taskVars, writes>>

\* A client connects or disconnects, an owner corrects a price.
Write(k, v) ==
  /\ writes < MaxWrites
  /\ writes' = writes + 1
  /\ Change(k, v)
  /\ UNCHANGED taskVars

TimePasses == now < MaxNow /\ Tick /\ UNCHANGED <<taskVars, writes>>

Next ==
  \/ \E t \in Task :
       \/ \E n \in Number : Receive(t, n)
       \/ AwaitLookup(t) \/ Route(t) \/ Handle(t) \/ Fail(t)
       \/ \E q \in Question : Answer(t, q)
  \/ \E k \in Key : \E v \in Legal[k] : Write(k, v)
  \/ TimePasses

Spec == Init /\ [][Next]_vars

-----------------------------------------------------------------------------
\* What the connection of t's number was less than a cache lifetime before its message.
Lately(t) == {v \in Legal[number[t]] : received[t] < lastTrue[number[t]][v] + TTL}

\* "Never guess a fallback brand" (client_registry.py): a question is answered from
\* the facts of the brand its number was connected to within the last 60 seconds, or
\* from the own brand's when it came in on the own number and that was not
\* registered yet; it is dropped only when its number had no active connection.  The
\* last case of the first conjunct is no promise, it is what SwitchedOffIsDropped
\* forbids: here it says that this reaches no other number and no other brand.
ServesItsBrand ==
  \A t \in Task :
    /\ at[t] \in {"answered", "held"} =>
         \/ \E v \in Lately(t) \ None : BrandOf[v] = brand[t]
         \/ number[t] = OwnNumber /\ brand[t] = OwnBrand /\ NoConnection \in Lately(t)
         \/ number[t] = OwnNumber /\ brand[t] = OwnBrand /\ SwitchedOff \in Lately(t)
    /\ at[t] = "dropped" => number[t] # OwnNumber /\ Lately(t) \cap None # {}
    /\ at[t] = "answered" =>
         \E f \in Legal[brand[t]] :
           begun[t] < lastTrue[brand[t]][f] + TTL /\ FindMatch(asked[t], FactsIn[f]) = match[t]

\* "Not currently active (disconnected, mid-onboarding, etc.) - callers must treat
\* None as drop this message" (client_registry.py), and "once the migration doc exists
\* ... this branch stops firing" (message_processor.py, of the fallback): no question
\* is served on a number that has been switched off for a cache lifetime.
SwitchedOffIsDropped ==
  \A t \in Task : at[t] \in {"answered", "held"} => Lately(t) # {SwitchedOff}

\* "A question about one must never answer with the other's price"
\* (tests/test_reply_engine.py): a question that spells out one item of the
\* catalogue, and no other in the words around it, is answered with that item.
NoCrossMatch ==
  \A t \in Task :
    at[t] \in {"answered", "held"} =>
      LET catalogue == FactsIn[got[t]].catalogue IN
      \A j \in DOMAIN catalogue :
        IsAbout(asked[t], catalogue, j) => match[t] = [topic |-> "catalogue", index |-> j]

\* An item whose significant words all appear somewhere in the question matches
\* (_catalogue_item_matches), and this is all the harm it does: such a question is
\* answered from the catalogue, and with another item only if that is listed
\* before and can be confused with the one asked for.
CrossMatchesExplained ==
  \A t \in Task :
    at[t] \in {"answered", "held"} =>
      LET catalogue == FactsIn[got[t]].catalogue
          i == match[t].index
      IN \A j \in DOMAIN catalogue :
           IsAbout(asked[t], catalogue, j) =>
             /\ match[t].topic = "catalogue"
             /\ i = j \/ (i < j /\ Confusable(catalogue[i].name, catalogue[j].name, asked[t]))

===============================================================================
