# Jane on WhatsApp: a TLA+ verification project

Jane answers customers on a brand's WhatsApp number. A FastAPI service takes
Meta's webhooks and puts them on a Redis queue; Celery workers answer a question
from the brand's facts or escalate it with a holding reply; agents answer
escalated conversations through an internal API. All of them share MongoDB,
which gives single-document atomicity and unique indexes and nothing more: every
other guarantee (no double answer, no lost question, quiet while a human is in
charge) is made by the order of the awaits in this code. That order, with other
workers and agents in between and any of the calls failing, is what the modules
model.

## Inventory

| Component | State it keeps | Operations | What is hard |
|---|---|---|---|
| Inbound pipeline: `webhook_router.py`, `celery_app.py`, `message_processor.py` | Celery tasks and their retries; claims `jane_wa_processed_messages` (unique, 24 h TTL); rows `jane_wa_messages` | receive, claim, get or create, touch, log, answer or hold + escalate + notify, release, retry | redeliveries, worker loss, both time limits, calls that raise after taking effect, tasks of one chat interleaving |
| Conversation state machine: `conversation_service.py` | one document per (phone_hash, brand_id): `state`, `escalated_at`, `phone_encrypted`, `last_message_at` | get_or_create, escalate, resolve (find, then update), touch, close (no caller) | find and update are two operations; snapshots go stale |
| Agent replies: `internal_router.py`, `agent_reply_service.py` | claims `jane_wa_agent_reply_claims` (`sent` flag, unique key, 24 h TTL); agent rows | send_agent_reply, resolve_only | the send cannot be rolled back; crash between send and mark; two agents at once |
| Retention job: `purge_stale_phone_numbers.py` | - | unset `phone_encrypted` of idle documents that are not escalated | runs against live traffic; nothing restores a number |
| Notifier: `escalation_notifier.py` | - | one e-mail per escalation | fails after the escalation is stored |
| Echo channel: `extract_message_echo`, `log_agent_echo` | agent rows | log, resolve | unreachable: the extractor is a stub that returns None |
| Reply engine: `reply_engine.py` | - | first match over the facts, phrasing by a model | substring matching, first match wins |
| Caches: `client_registry.py`, `brand_facts_reader.py` | per-process 60 s caches, None included | read through | staleness, negative entries, a slow call that stores over a newer entry |
| Indexes: `db_indexes.py`, hooks in `celery_app.py`, `main.py` | the six indexes | create one after another at every start of a process | a failure skips the rest, is printed, and the process serves all the same |
| Migration: `migrate_uri_own_connection.py` | `social_connections`, `brand_id` of every conversation | upsert the connection, count, backfill, count again | races with the live service, is run again on half of its own work |
| Cloud API client, encryption, internal auth, configuration, deployment | - | stateless | cryptography and I/O |

The components meet in the database. The pipeline and the agents write the same
conversation documents; the retention job writes them too; the pipeline's
escalation is what makes an agent act, and the agent's resolve is what lets Jane
speak again.

What makes each component correct: one delivery of an event at a time is
processed, an event is answered at most once unless a fault struck, never
dropped, and always on record (pipeline); a typed reply reaches the customer at
most once and the answers the agent gets are true (agent replies); documents
move along the diagram in the docstring of `conversation_service.py` only, and a
conversation that waits for an agent can be answered (state machine, retention);
an escalation is notified (notifier); a question is answered from the facts of
the brand its number belongs to, no older than a cache entry may be, and about
the thing it asks for (caches, reply engine); nobody serves without the unique
indexes unless creating them failed, and that heals; the migration loses no
conversation and ends (deployment).

## Modules

| Module | What it is |
|---|---|
| `ConversationDoc` | one conversation document and the effect of every write to it |
| `MessageProcessor` | the inbound pipeline |
| `AgentReplyService` | the internal API's two endpoints |
| `ConversationLifecycle` | the abstract state machine, with the agents at work |
| `JaneSystem` | pipeline, agents and retention job on one collection; implements `ConversationLifecycle`, and `MessageProcessor` as the workers see it |
| `OnceLedger` | the abstract promise of a claim: one holder, and no delivery beyond the first that a fault does not account for; `MessageProcessor` and `AgentReplyService` implement it |
| `ReadThroughCache` | the 60 s cache both lookups use, for any number of processes and concurrent calls |
| `ReplyEngine` | the matching rules, as operators on texts, and what it takes for two items to be confused |
| `Answering` | from a number to a brand, its facts and the one that is quoted; extends the two before |
| `Deployment` | the migration beside the old service, the switch, and the indexes at each start of the new processes |
| `MessageProcessorProofs`, `MessageProcessorOutcomes` | the theorems about the pipeline: the claim, the sends and the ledger; what comes of a question |
| `AgentReplyServiceProofs`, `ReadThroughCacheProofs`, `AnsweringProofs`, `DeploymentProofs`, `OnceLedgerProofs` | the theorems about the module each is named after |
| `JaneSystemProofs` | the theorems about the whole service, from those about its parts |
| `MC*` | instances for TLC |

**One await, one action.** A worker or request runs undisturbed from one await to
the next, so each action is one database, Meta or SMTP call with the Python code
up to the next call. `pc[t]` names the call a task is about to make and `rpc[r]`
that of a request, or how it ended.

**Three outcomes.** A call ends `ok`, `failed` (it raised and had no effect) or
`lost` (it took effect and raised all the same, as a timeout does). `Finish`
sends the first to the next step and the others to the code's except block:
`Raise`, `Release`, `Retry` in `MessageProcessor`, `Raise`, `ReleaseClaim` in
`AgentReplyService`. The constants `Faults` and `AgentFaults` list the (step,
outcome) pairs a run allows; `faults[m]` and `strikes[k]` count them per event
and per idempotency key, up to `MaxFaults` and `MaxStrikes`.

**Kills.** `WorkerLost`: late acknowledgement puts the task back, no except block
runs. `SoftTimeLimit`: the exception comes up in the event loop while the
coroutine is suspended, the coroutine is cancelled, and a `CancelledError` passes
`except Exception`; the task catches the time limit outside and retries.
`HardTimeLimit`: the process is killed and the task is gone; it takes a soft
limit that was swallowed (by the `except` in `_phrase_fact`) or a release that
hangs. `ServerLost`: a request dies; nobody repeats it but the dashboard.

**State and code.** `claims`, `conv`, `customerRows`, `janeRows`, `aclaims`,
`agentRows` are the collections; `claimed`, `sawEscalated`, `phone`, `seen` are
locals of the coroutines (what a snapshot said when it was taken); `pending`,
`msg`, `retries` are Meta and the broker; `replied`, `held`, `delivered`,
`notified`, `escalations` record what the outside world saw and nothing reads
them. A document keeps its state, a counter for `escalated_at`, whether a number
is present and whether it is inside the retention window. Bodies, names and
wording are left out; so is, in `MessageProcessor`, the choice between matching
facts, of which only the outcome (reply or holding reply) matters there.

**The caches.** A lookup is two steps when it misses: the database answers
(`Read`), and later the coroutine runs on and stores (`Store`) with the clock it
read at the start. In between, other calls of the process store too and the
database changes. `lastTrue` records when each version was last what the database
had; the code does not see it. `Answering` runs question after question through
both lookups, so that a chat is answered from a mixture of entries of any age.

**Texts.** In `ReplyEngine` a text is a sequence of pieces, one of which is the
space: "our products" is "our", space, "pro", "ducts". `In` is Python's `in`, a
test for substrings, and `Words` is `split`: pieces between spaces. Pieces are as
fine as it takes to tell the two apart; nothing in the definitions or the proofs
depends on how fine, so they may as well be characters.

**Deployment.** The old service is what the migration's docstring says of it:
live, and its documents have no `brand_id`. It may open a conversation or escalate
one between any two awaits of the script. The script may die anywhere and is run
again, before the switch or after it, until it has gone through and whenever
documents without a `brand_id` are left. The switch may come at any moment of this:
the docstring asks for the migration first, but the workflow that deploys
(`deploy-production.yml`) neither runs it nor looks whether somebody has. The new
processes take `ensure_indexes` one index at a time. `missed` (customers of whom
the switch leaves a document without a `brand_id` behind: any, if no run had gone
through, and otherwise those opened since) and `misspoken` are the record of what
happened, `failures` and `crashes` that of the faults.

**What was overtaken.** `overtaken` records, for `QuietUnlessOvertaken`, the tasks
whose chat the question of another message has escalated since they read its
state; no action depends on it.

**Environment.** Alone, `MessageProcessor` has an agent that may resolve at any
time, and `AgentReplyService` customers who may escalate at any time and
conversations in any of the four conditions an agent can meet. `JaneSystem`
replaces both by the real thing. A definition introduced by the word *Slip* is a
plausible mistake in the operation that follows it; no specification uses it. It
is there to show that a property would notice.

## What the runs show

| Run | Instance | Result |
|---|---|---|
| `inbound_faults` | 3 deliveries, 1 text and 1 other payload, 2 workers, 1 retry, 2 faults per event, every fault and kill, claim expiry | `TypeOK`, `ClaimIsExclusive`, `SendsPaidByFaults`, `TranscriptMatchesSends` and `KeepsLedger` (refinement) hold |
| `inbound_retry` | 2 questions in one chat, 2 deliveries, 2 workers, 2 retries, 1 raising call per event | `NoFalseDuplicate`, `EscalationIsNotified`, `QuietUnlessOvertaken` and, under fairness, `EveryEventIsSettled` hold |
| `quiet_race` | 2 questions in one chat, 2 workers, no fault | `QuietWhileEscalated` is violated |
| `kill_drops` | one event, one task, one crash or soft time limit | `NoFalseDuplicate` is violated |
| `agent_faults` | 3 requests, 2 keys of one conversation, 2 faults per key, every fault and crash, claim expiry | `TypeOK`, `KeyIsExclusive`, `DeliveriesPaidByDoubts`, `AnswersAreTrue`, `ErrorIsRepeatable` and `KeepsLedger` (refinement) hold |
| `agent_double_send` | 2 requests, 1 key, the mark raises | `AtMostOnce` is violated |
| `system_lifecycle` | 2 questions, 2 workers, 2 requests, retention job, a lost resolve, and on either side a send that raises and a crash after the send | `FollowsLifecycle`, `PipelineIsKept` (refinements) and `SaidOnce` hold |
| `system_phone` | 2 questions, retention job, no fault | `WaitingChatHasPhone` is violated |
| `answers` | 2 numbers, 2 brands (one with items that cannot be confused, one with Pro plan, Pro plus and Rose soap), questions about either and one that says "products", connections that come and go, that of the own number also switched off, a price that is corrected | `TypeOK`, `StalenessBounded`, `ServesItsBrand`, `CrossMatchesExplained` hold |
| `own_number_off` | the same | `SwitchedOffIsDropped` is violated |
| `cross_match` | one brand with Pro plan, Pro plus and Rose soap in its catalogue | `NoCrossMatch` is violated |
| `deploy` | 2 customers, 2 processes, a switch at any time, one crash of the migration, one failed index creation | `TypeOK`, `QuietAcrossDeploy`, `ServesGuarded` and, under fairness, `MigrationGoesThrough`, `IndexesHeal` hold |

The violated properties are promises of the repository's own docstrings,
comments and tests, quoted in `PROJECT.json` under `findings`. In short:

1. The quiet test reads a snapshot, so two workers on one chat can make Jane
   speak after the conversation was escalated. `QuietUnlessOvertaken` says how far
   it goes, for any number of workers and with every fault: the escalation is then
   that of another question, and came after this task read the state. One that was
   there before the read keeps Jane quiet, and so does one the same question caused
   before a fault made it start over.
2. A claim survives a crash and a soft time limit, and the redelivery or retry
   then drops the message as a duplicate. The code deals with calls that raise;
   it does not deal with being killed.
3. The agent's claim protects against crashes but is deleted when marking it
   raises, after the reply was delivered.
4. A purged number is never restored, so a returning customer can be escalated
   into a conversation nobody can answer.
5. The first item of the catalogue whose significant words occur in the question
   wins, so that a question about Pro plus gets the price of Pro plan. That the
   names share no word is not enough to prevent it: "Pro plan" also matches a
   question about Rose soap that says "products". `CrossMatchesExplained` shows that
   there is no third way, and `DistinctItemsNeverCross` that a catalogue without
   either never crosses.
6. The own number is served with the own brand's facts whenever the registry has no
   active connection for it, and so also when its connection is there and was
   switched off. `client_registry.py:27-29` says that None includes "not currently
   active" and that callers must drop the message, "never guess a fallback brand";
   `message_processor.py:54-59` justifies the fallback by a migration that has not
   been run yet, and says that it ends with it. The registry's None tells
   the two apart for nobody. `ServesItsBrand` shows that it stays with that number
   and that brand.

Observations the modules contain beyond these; no promise of the repository forbids
them, except that the one about `brand_id` is in conflict with a docstring:

- A reply typed for an escalated conversation is delivered although another agent
  resolved it after the check (`CheckConversation` to `SendMessage`). That agent is
  answered with a 500, since `resolve` returned None (`ResolveFind`); what
  `ErrorIsRepeatable` shows is that posting the key again is then safe.
- `resolve` updates by `_id` alone, so an escalation raised between its two calls
  is taken away unseen (`ResolveUpdate`).
- A notification that fails once is never sent: the retry finds the conversation
  escalated and stays quiet. `EscalationIsNotified` therefore excepts questions
  that a fault struck.
- When the log of an agent's reply raises, the key is answered `already_sent` for
  good with no row in the transcript; `AnswersAreTrue` excepts it likewise.
- A conversation that has no `brand_id` at the switch, because the migration had
  not gone through or because the old service opened it after it had, is not found
  any more: the new service opens a second one for that customer, and Jane answers
  although the first may be escalated. From then on every run of the migration
  fails on the unique index (`Backfill`). `QuietAcrossDeploy` shows that these are
  the only customers it happens to as long as no two documents of one conversation
  have a `brand_id`, and in particular that the comparison of the counts catches what the
  old service opens during a run; `MigrationGoesThrough` that nothing else keeps the
  migration from ending. The script's docstring (l. 6-8), which says that the pipeline "keeps
  working via the old single-tenant settings even if this hasn't run yet", is in
  conflict with this: what keeps working is the routing of the number, and not the
  escalations that were open.
- Running the migration again makes the own number's connection active again, also
  one that was switched off (`connection_status` is in the upserted document). The
  module keeps only whether the document is there.
- Two documents of one conversation, inserted while the unique index was missing,
  keep `ensure_indexes` from ever reaching the index of the agents' claims
  (`IndexesHeal` excepts them).

### Bounds, and why they are enough

- Three deliveries of one event: one may hold the claim while another meets it
  and a third comes after it was released. Two questions in one chat are what
  the races on a conversation take; different chats share no state but workers.
- `Slots`: the deployment has six worker processes; two are enough for any pair
  of tasks to interleave. The theorems are for any number.
- `MaxRetries` is 3 in the code. A run needs one more retry than faults that
  strike an event plus the one that losing the race to create a conversation
  costs; `inbound_retry` has 2 retries and 1 fault. `inbound_faults` has 1 retry
  and 2 faults, so that tasks also run out of retries and leave the event to the
  next delivery. Runs about drops use 3.
- `MaxFaults`, `MaxStrikes` of 1 or 2: a second fault is what it takes to break
  the recovery from the first.
- `answers`: the clock starts at the lifetime of 2 and ticks twice (`MaxNow` 4),
  and one correction is made to any starting state (`MaxWrites` 1): an entry can be
  filled, go stale once and expire. One worker process: the cache theorem covers
  any number of processes and concurrent calls, and `Answering` adds nothing that
  two tasks share but the cache.
- `deploy`: two customers are what a half-done backfill takes, two processes what
  the race for a document takes; `MaxDocs` of 2 leaves room for a legacy document
  and a new one of a customer, for two customers of whom one comes between two
  counts, and for two new ones of one conversation. A customer with two documents
  beside another's takes 3, at three times the states and beyond the time of a
  run; the safety properties are proved for every `MaxDocs`.
- `MaxEscalations` bounds `escalated_at` in `AgentReplyService`; in `JaneSystem`
  escalations are bounded by messages.
- Tasks and requests are symmetric and are declared so, except where a liveness
  property is checked and where a run looks for a counterexample.
- `CHECK_DEADLOCK FALSE` everywhere: every task and request ends and nothing is
  left to do.

### Fairness

`FairSpec` is weak fairness of `Begin(t)` and of the steps of each task: Celery
hands queued tasks to free processes (retries carry a countdown of seconds), and
every await ends, by its own timeout or the task's time limit. Faults, kills,
Meta's redeliveries, agents and the TTL get none. `EveryEventIsSettled` is
checked without kills, since `kill_drops` shows that a kill can lose the event,
and without faults in the claim's own insert after it was applied and in its
delete, which lose it as well.

`Deployment`'s `FairSpec`: somebody runs the migration until it has gone through,
which is what its docstring asks for ("safe to re-run") and nothing in the
repository does by itself; one day somebody pushes, and the workflow switches; a
start-up ends, and every process is replaced again and again
(`worker_max_tasks_per_child` and deployments see to it). The old service, crashes
and failures get none. That the counts match in the end takes that the old service
runs out of new customers, which the instance's finite set of them stands for: a
service with a new customer during every run would keep the script failing.

## What is proved

`MessageProcessorProofs`, for every set of messages, chats, tasks and faults and
every `Slots`, `MaxRetries` and `MaxFaults`, from `InboundAssumption` and
`NoDocAssumption` alone:

- `TypeCorrect`: `Spec => []TypeOK`. Not inductive alone, since `Touch` and
  `Escalate` update the document of the task's chat: `TypeInv` adds that a task
  that is past `get_or_create_conversation` has one, which holds because no write
  removes a document.
- `LockHolds`: `Spec => []ClaimIsExclusive`. `ClaimInv` adds that `claimed` is
  TRUE exactly at the steps inside the try block after the insert: the only step
  that becomes an owner found no claim, so nobody else was one; the only steps
  that take a claim away are the owner's own release and the TTL, which waits
  until there is no owner.
- `SendsArePaid`: `Spec => []SendsPaidByFaults`. `SendInv` adds that an event
  that is unclaimed, whose holder has not sent yet, or whose claim is about to be
  released has had at most as many messages as faults. A send spends that
  allowance; the next owner gets one only through a release, which an exception
  after the send has paid for, or through an expiry, which counts as a fault.
  The case to worry about is the one exception that no fault explains, the lost
  race to create a conversation: it comes before anything was sent.

The proofs first show, once, what a step writes through `Goto`, `Raise` and
`Finish` (`Moves`, `FinishMoves`), then sort the steps into those of a claim's
holder (`Progress`), of the others (`Aside`), and the insert that succeeds
(`Claims`), so that each invariant is argued per kind of step.

`OnceLedgerProofs`, `LedgerPromise`: whatever keeps the ledger has one holder per
claim and at most one delivery per item that no fault accounts for.

`PipelineKeepsLedger` (same module): `Spec => KeepsLedger`, the
refinement the run `inbound_faults` checks on a small instance. `claims` is
`taken`, the tasks that own the claim of a message are its `holders`, replies and
holding replies together are `out`, `faults` is `paid`. Each kind of step of
`MessageProcessorProofs` is mapped once: `Progress` to a stutter, a payment or a
`Leave`, a send to `Deliver`, `Claims` to `Take`, an insert that took effect and
raised to `Orphan`, `Release` and `ExpireClaim` to `Free`. The guards of `Deliver`
and `Free` are what `SendInv` is for.

`AgentReplyServiceProofs`, for every set of requests, keys, conversations and
faults, from `AgentAssumption` and `NoDocAssumption`:

- `TypeCorrect`: `Spec => []TypeOK`. `TypeInv` adds that the steps of
  `send_agent_reply` have a key (`/resolve` has none, and would bump a counter that
  does not exist), that the document `resolve` is about to write exists, and that a
  doubt is counted as a fault too.
- `OneHolderPerKey`: `Spec => []KeyIsExclusive`, inductive as it stands. The one
  step that makes a holder finds no claim, so there was no holder; `mark` changes
  the claim but does not remove it; the delete and the TTL leave no holder behind.
- `DeliveriesArePaid`: `Spec => []DeliveriesPaidByDoubts`. `PaidInv` adds that a
  key that is unclaimed, or whose holder is before its send or about to delete the
  claim, has had at most as many deliveries as doubts. The step into the `except`
  block after the send is where a doubt is paid; a crash pays nothing and needs
  nothing, since the claim stays.

- `DeliveredAtMostOnce`: `Spec => []AtMostOnce`, **if** `NoDoubts`: no send raises
  after it delivered, no mark raises, and no claim passes its 24 hours. Crashes and
  all other faults are allowed. The hypothesis is needed (`agent_double_send`, where
  the mark raises), and it is what the docstring of `agent_reply_service.py` leaves
  open. `DeliveriesArePaid` gives the rest: without those faults there is no doubt to
  pay with (`NoDoubtArises`).

`AgentKeepsLedger` (same module): `Spec => KeepsLedger`. Here `paid` is
`doubts` alone, so this is stronger than what the pipeline promises. The kinds of
step are those of the pipeline (`Aside`, `Claims`, `Progress`) with the delivery
(`Delivers`) and the delete (`Frees`) told apart.

`ReadThroughCacheProofs`, `StaleForLessThanTTL`: `CacheSpec => []StalenessBounded`
for any processes, calls, keys and values and any lifetime, from
`CacheAssumption`. The invariant says of every entry, and of every answer that has
not been stored yet, that it was true no earlier than the stamp it has or will
get; a stamp is never ahead of the clock. That the stamp is taken before the await
and not after it is what it rests on.

`MessageProcessorOutcomes`, from the invariants above and `OutcomeInv`, which
accounts for every question, row and handoff at each step of its task (a message
sent has a customer's row; a row of Jane's has a message; a message without a row
has a task about to write it, or a fault; an escalation has its holding reply and
its e-mail, or a task on its way to them, or a fault):

- `TranscriptIsTrue`: `Spec => []TranscriptMatchesSends`, and `HandoffIsComplete`:
  `Spec => []EscalationIsNotified`.
- `DuplicatesAreTrue`: `Spec => []NoFalseDuplicate`, **if** `ClaimsComeBack`: no
  insert of a claim is applied though it raises, no delete of one fails, and no kill
  or time limit strikes a task that holds one. Without each of these the statement
  is false; `kill_drops` is the counterexample for the kill. Every other fault is
  allowed. `DuplicateInv` says that a claim in the database always stands for a
  delivery that holds it or was handled.
- `AnsweredAtMostOnce`: `Spec => []AnsweredOnce`, **if** `ClaimsLast`: no call
  raises once Jane's message is out (that releases the claim on a question that has
  its answer) and no claim comes of age. Everything else may raise, with or without
  effect, and workers may be killed anywhere. `OnceInv`: whoever may still send, or is
  about to give the claim up, finds that nothing has been sent. With one of those
  faults the statement is false and `SendsArePaid` is what remains.
- `OnlyTheOvertakenSpeak`: `Spec => QuietUnlessOvertaken`, for any number of
  workers and without a hypothesis on the faults. `SnapshotHolds`: a task that goes by
  the state it read, and has not been overtaken, finds the conversation escalated
  only if it read so, since the one other task that could have escalated it is of
  the same question and would have to hold the same claim. What an agent resolves
  in between only makes the snapshot too cautious. Without the exception it is false
  (`quiet_race`).

In `AgentReplyServiceProofs`, the invariants of the answers:

- `AnswersTrue`: `Spec => []AnswersAreTrue`. `TruthInv` counts the rows of a key
  together with the requests that are about to write one against its deliveries, and
  says that a document `resolve` has read is out of date by later escalations at
  most.
- `ErrorsRepeatable`: `Spec => []ErrorIsRepeatable`. It adds why a request that no
  fault struck may raise: the conversation has no number, and then nobody can have
  delivered (`NumberRead`, `Excused`), or somebody else resolved it and the reply is
  complete. The first case rests on numbers staying as they are while requests run,
  which holds in `AgentReplyService` alone: of two posts of one key, the one that
  read the number before a purge may deliver after the other has failed for want of
  it. That takes a conversation that is resolved, purged, written to and escalated
  again between two awaits of a request (TLC finds it in `JaneSystem` with three
  requests and no fault, a trace of 43 states), and is why this theorem, unlike
  `AnswersTrue`, is not carried over to the whole service.

`DeploymentProofs`: `DeploymentTypeCorrect`, `QuietThroughout`
(`Spec => []QuietAcrossDeploy`) and `ServedWithIndexes` (`Spec => []ServesGuarded`),
for any customers and processes, any number of crashes and failures and a switch at
any time, from `DeploymentAssumption`. `DeployInv` has two arguments. Of the
documents there were when they were counted, those without a `brand_id` are on the
list of the run until it compares (`Backfilling`), so that once it has gone through, and from
the switch on, a document without a `brand_id` is of a customer in `missed`
(`Complete`). Nothing of the new service has spoken before the switch (`Switched`),
and after it an escalated document Jane does not look at is one of those, or has a
`brand_id` like the one she does look at: a document keeps its `brand_id`
(`DoubledStays`), so the customer has two for good. As long as no creation failed, a
process has every index before the one it is at (`InOrder`), and a customer has one
document until the unique index is there and one with and one without a `brand_id`
at most after that (`OnePerCustomer`).

`AnsweringProofs`, from `AnsweringAssumption`: `AnsweringTypeCorrect`,
`LookupsAreFresh` (`StalenessBounded`, under the specification of `Answering`) and
`NoBrandIsGuessed` (`Spec => []ServesItsBrand`: no number but the own one is ever
served without an active connection, and that one with its own brand only), from the cache's invariant and the
control of a question: what it carries from one lookup to the next is what that
lookup returned. `FirstMatch` shows that `FindMatch` returns the first item whose
words occur and `NoMatch` only if there is none, from which `AnswersByTheRule` is
proved of every answer and of every escalation.

Two theorems of the same module say which answers are about the wrong item, for
every catalogue and every question made of pieces:

- `OnlyConfusableItemsCross`: `Spec => []CrossMatchesExplained`. A question about an
  item is answered with that item, or with one listed before it of which some
  significant word is a word of the item's name, or occurs in the question only
  inside a longer word (`Confusable`).
- `DistinctItemsNeverCross`: `Spec => []NoCrossMatch`, **if** no two items of a
  catalogue are confusable in any question that is asked (`Distinct`). The shop of
  `MCAnswering` meets the hypothesis (`ShopIsDistinct`, an ASSUME there), the plans of
  `cross_match` do not, and there the property fails.

Neither takes induction over texts. What they take is that occurring is transitive
(`InIsTransitive`), that a word of a text occurs in it (`WordOfText`), and where an
occurrence of a word can lie in a text that contains a name: inside the name, so that
it is the name's own, or around it (`WordOfSegment`, `WordInOrAround`). `FromFacts`
adds that every answer quotes an item of the facts it was given.

`JaneSystemProofs`, for every set of messages, chats, tasks, requests, keys and
faults, from the assumptions of the two parts (`SystemAssumption`):

- `ServiceFollowsLifecycle`: `Spec => FollowsLifecycle`. A step of the service
  writes to one document at most, and who wrote is known by what is written
  (`TaskWrites`, `AgentWrites`, `JobWrites`); each write is mapped to one edge or to a
  stutter. What the map needs of the parts is that `Touch` and `Escalate` find a
  document, and of the whole that nobody writes "closed" (`NeverClosed`).
- `ServiceKeepsPipeline`: `Spec => PipelineIsKept`. Without the number and the age,
  which no step of a task depends on, the service is `MessageProcessor`: a task's
  step is the same step, an agent's is `AgentResolves` or a stutter, the retention
  job's is a stutter. Everything proved of the pipeline therefore holds of the
  service, and four theorems state it there: `ServiceKeepsPromises` (the claim, the
  sends, the transcript, the handoff), `ServiceDropsOnlyDuplicates` (under
  `ClaimsComeBack`), `ServiceIsQuiet` (`QuietUnlessOvertaken`) and the first half of
  `ServiceSaysOnce`. Their steps cite the theorems about `MessageProcessor` through
  an instance of that module.
- `ServiceKeepsAgentPromises`: `KeyIsExclusive`, `DeliveriesPaidByDoubts` and
  `AnswersAreTrue`, beside real customers, workers and the retention job. No write
  of theirs takes a document away, counts escalations down, or takes a conversation
  from Jane without counting (`WritesGrow`); that is all `TruthInv` needs of them.
- `ServiceSaysOnce`: `Spec => []SaidOnce`, under `ClaimsLast` and `NoDoubts`. No
  question is answered twice and no agent's reply is delivered twice in the service.
- `ServiceKeepsLedgers`: the service implements `OnceLedger` twice at once, with the
  claims on questions and with those on agents' replies. The pipeline's ledger comes
  from `ServiceKeepsPipeline`, the agents' from the step lemma of
  `AgentKeepsLedger` and the fact that nobody else touches a claim of theirs.

### What only TLC checks

- Liveness (`EveryEventIsSettled`, `MigrationGoesThrough`, `IndexesHeal`): fairness
  is out of the prover's reach.
- That a given shop has no confusable items: a computation over its questions, which
  TLC does for `ShopIsDistinct`.
- The violated properties are false, and stay with TLC's counterexamples.

## Not modelled, and why

Signature verification, encryption and header authentication (cryptography, no
state); `GET .../messages` and the health check (they only read); configuration;
nginx and Flower; Redis losing queue entries (`allkeys-lru` may evict them: the
broker is modelled as reliable); MongoDB's own failover; several messages in one
webhook payload (only the first is handled); the wording of replies and the model
that phrases them; `close()`, `_lookup_waba_id` and
`format_operational_facts_for_prompt`, which nothing calls; the echo channel, which
no payload reaches since its extractor is a stub that returns None.

## Plan

1. Done: the pipeline, the agents, the composed system and its lifecycle, the claim
   ledger, the caches, the matching rules, answering, migration and index creation.
   Every safety property of the passing runs is a theorem, without hypotheses or
   under ones that exclude its known counterexamples, and those of the parts are carried over to
   the whole service.
2. Webhook batches and late replies, if the team decides what they should do.
3. `ErrorIsRepeatable` in the composed service, should `resolve` or the purge come to
   respect requests that are being served.
