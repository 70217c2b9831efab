------------------------------- MODULE Deployment ------------------------------
(***************************************************************************)
(* Bringing the multi-tenant service up: the one-off migration that gives  *)
(* every conversation its brand_id while the old service is still live,    *)
(* the switch, and the new processes, each of which creates the indexes    *)
(* before it serves and serves even if that failed.                        *)
(*   scripts/migrate_uri_own_connection.py, app/services/db_indexes.py,    *)
(*   app/celery_app.py (_init_worker_process), app/main.py (lifespan),     *)
(*   app/services/conversation_service.py (get_or_create_conversation)     *)
(*                                                                         *)
(* All conversations are of the one tenant there is, so a document has its *)
(* brand_id or has none.  The old service is not in the repository: it is  *)
(* what the migration's docstring says of it, live until the switch, with  *)
(* documents without a brand_id.  The switch waits for nothing: whoever    *)
(* pushes deploys, whatever has become of the migration by then.           *)
(***************************************************************************)
EXTENDS Naturals, Sequences

CONSTANTS
  Customer,
  Proc,         \* processes of the new service that serve conversations
  MaxDocs,      \* bound on documents
  MaxFailures,  \* bound on index creations that raise
  MaxCrashes    \* bound on migration runs that die

ASSUME DeploymentAssumption ==
  /\ MaxDocs \in Nat /\ MaxFailures \in Nat /\ MaxCrashes \in Nat

VARIABLES
  docs,       \* jane_wa_conversations, in order of insertion
  indexes,    \* the indexes that exist
  boot,       \* per process: the index it creates next, 0 down, Serving
  creating,   \* per process: the customer it found no document for
  old,        \* whether the old service is up
  migration,  \* the step the migration is at
  connected,  \* whether the social_connections document is there
  todo,       \* the documents update_many still has to write
  before,     \* before_count
  \* what happened on the way
  missed,     \* customers the switch left behind without a brand_id, for all the migration did
  failures, crashes,
  misspoken   \* customers Jane answered although a document of theirs was escalated

migrationVars == <<migration, connected, todo, before, crashes>>
processVars   == <<boot, creating>>
vars == <<docs, indexes, processVars, old, migrationVars, missed, failures, misspoken>>

\* ensure_indexes, in order.
Indexes == <<"message_id", "message ttl", "conversation", "idempotency_key",
             "reply ttl", "history">>
AllIndexes == {Indexes[i] : i \in DOMAIN Indexes}
Serving == Len(Indexes) + 1

Doc == [customer : Customer, branded : BOOLEAN, escalated : BOOLEAN]
Migration == {"idle", "resolve", "connect", "count", "countMissing", "update", "backfill",
              "verify", "done"}

TypeOK ==
  /\ docs \in Seq(Doc) /\ Len(docs) <= MaxDocs
  /\ indexes \subseteq AllIndexes
  /\ boot \in [Proc -> 0..Serving]
  /\ creating \in [Proc -> SUBSET Customer]
  /\ old \in BOOLEAN /\ connected \in BOOLEAN
  /\ migration \in Migration
  /\ todo \subseteq DOMAIN docs
  /\ before \in 0..MaxDocs
  /\ missed \subseteq Customer /\ misspoken \subseteq Customer
  /\ failures \in 0..MaxFailures /\ crashes \in 0..MaxCrashes

Init ==
  /\ docs = <<>>
  /\ indexes = {}
  /\ boot = [p \in Proc |-> 0]
  /\ creating = [p \in Proc |-> {}]
  /\ old = TRUE
  /\ migration = "idle"
  /\ connected = FALSE
  /\ todo = {}
  /\ before = 0
  /\ missed = {}
  /\ failures = 0
  /\ crashes = 0
  /\ misspoken = {}

-----------------------------------------------------------------------------
DocsOf(c) == {d \in DOMAIN docs : docs[d].customer = c}
Branded(c) == {d \in DocsOf(c) : docs[d].branded}

MissingBrand == {d \in DOMAIN docs : ~ docs[d].branded}

\* Two documents a unique index on (phone_hash, brand_id) cannot hold; a missing
\* brand_id counts as a value.
Duplicates ==
  \E d, e \in DOMAIN docs :
    d # e /\ docs[d].customer = docs[e].customer /\ docs[d].branded = docs[e].branded

\* Customers with two documents of their one conversation.
Doubled == {c \in Customer : \E d, e \in Branded(c) : d # e}

Insert(c, branded, escalated) ==
  /\ Len(docs) < MaxDocs
  /\ docs' = Append(docs, [customer |-> c, branded |-> branded, escalated |-> escalated])

-----------------------------------------------------------------------------
\* The old service: a customer writes, is known by phone_hash alone, and is
\* answered or escalated.
OldService(c) ==
  /\ old
  /\ \/ /\ DocsOf(c) = {}
        /\ \E e \in BOOLEAN : Insert(c, FALSE, e)
        /\ missed' = IF migration = "done" THEN missed \cup {c} ELSE missed
     \/ /\ \E d \in DocsOf(c) : docs' = [docs EXCEPT ![d].escalated = TRUE]
        /\ UNCHANGED missed
  /\ UNCHANGED <<indexes, processVars, old, migrationVars, failures, misspoken>>

-----------------------------------------------------------------------------
(***************************************************************************)
(* The migration script, one action per await.                             *)
(***************************************************************************)
\* The run is over, and its local variables with it.
Stop(m) ==
  /\ migration' = m
  /\ todo' = {}
  /\ before' = 0

\* "Safe to re-run": somebody does so, before the switch or after it, while it has
\* not gone through or documents without a brand_id turn out to be left.
StartMigration ==
  /\ \/ migration = "idle"
     \/ migration = "done" /\ MissingBrand # {}
  /\ migration' = "resolve"
  /\ missed' = IF old THEN {} ELSE missed
  /\ UNCHANGED <<connected, todo, before, crashes>>

\* _resolve_brand_and_user_id: both spellings end in the id the live pipeline
\* uses, URI_BRAND_ID.
ResolveBrand ==
  /\ migration = "resolve"
  /\ migration' = "connect"
  /\ UNCHANGED <<connected, todo, before, crashes>>

\* Slip: the connection is inserted under its unique id, not upserted.
InsertConnection ==
  /\ migration = "connect"
  /\ migration' = IF connected THEN "idle" ELSE "count"
  /\ connected' = TRUE
  /\ UNCHANGED <<todo, before, crashes>>

UpsertConnection ==
  /\ migration = "connect"
  /\ migration' = "count"
  /\ connected' = TRUE
  /\ UNCHANGED <<todo, before, crashes>>

\* before_count, of all documents.
CountDocuments ==
  /\ migration = "count"
  /\ migration' = "countMissing"
  /\ before' = Len(docs)
  /\ UNCHANGED <<connected, todo, crashes>>

\* missing_count, which decides whether there is an update at all.
CountMissing ==
  /\ migration = "countMissing"
  /\ migration' = IF MissingBrand # {} THEN "update" ELSE "verify"
  /\ UNCHANGED <<connected, todo, before, crashes>>

\* update_many begins: it will write every document that has no brand_id now.
UpdateMany ==
  /\ migration = "update"
  /\ migration' = "backfill"
  /\ todo' = MissingBrand
  /\ UNCHANGED <<connected, before, crashes>>

\* Slip: the update lacks its $set and replaces the document.
BackfillReplacing(d) ==
  /\ migration = "backfill"
  /\ ~ docs[d].branded
  /\ docs' = [docs EXCEPT ![d] = [branded |-> TRUE]]
  /\ todo' = todo \ {d}
  /\ UNCHANGED <<migration, connected, before, crashes>>

\* update_many writes one document at a time, and raises where the unique index
\* has another for that customer.  It may also come by one inserted meanwhile.
Backfill(d) ==
  /\ migration = "backfill"
  /\ ~ docs[d].branded
  /\ \/ /\ "conversation" \in indexes /\ Branded(docs[d].customer) # {}
        /\ Stop("idle")
        /\ UNCHANGED docs
     \/ /\ ~ ("conversation" \in indexes /\ Branded(docs[d].customer) # {})
        /\ docs' = [docs EXCEPT ![d].branded = TRUE]
        /\ todo' = todo \ {d}
        /\ UNCHANGED <<migration, before>>
  /\ UNCHANGED <<connected, crashes>>

BackfillEnds ==
  /\ migration = "backfill"
  /\ todo = {}
  /\ migration' = "verify"
  /\ UNCHANGED <<connected, todo, before, crashes>>

\* Slip: the counts are printed, and not compared.
VerifyByEye ==
  /\ migration = "verify"
  /\ Stop("done")
  /\ UNCHANGED <<connected, crashes>>

\* after_count must be what before_count was.
Verify ==
  /\ migration = "verify"
  /\ Stop(IF Len(docs) = before THEN "done" ELSE "idle")
  /\ UNCHANGED <<connected, crashes>>

\* The script dies, or one of its calls raises; somebody runs it again.
MigrationDies ==
  /\ migration \notin {"idle", "done"}
  /\ crashes < MaxCrashes
  /\ crashes' = crashes + 1
  /\ Stop("idle")
  /\ UNCHANGED connected

MigrationStep ==
  /\ \/ StartMigration /\ UNCHANGED docs
     \/ /\ \/ ResolveBrand \/ UpsertConnection \/ CountDocuments \/ CountMissing
           \/ UpdateMany \/ BackfillEnds \/ Verify
        /\ UNCHANGED <<docs, missed>>
     \/ \E d \in DOMAIN docs : Backfill(d) /\ UNCHANGED missed
  /\ UNCHANGED <<indexes, processVars, old, failures, misspoken>>

-----------------------------------------------------------------------------
(***************************************************************************)
(* The new service.                                                        *)
(***************************************************************************)
\* docker compose down, then up, on a push.  Nothing of it runs the migration or
\* looks whether somebody has: until a run has gone through, every document without
\* a brand_id is one the migration has yet to come by.
Deploy ==
  /\ old
  /\ old' = FALSE
  /\ boot' = [p \in Proc |-> 1]
  /\ missed' = IF migration = "done" THEN missed ELSE {docs[d].customer : d \in MissingBrand}
  /\ UNCHANGED <<docs, indexes, creating, migrationVars, failures, misspoken>>

\* Slip: the indexes are created in the background.
CreateIndexLater(p) ==
  /\ boot[p] \in DOMAIN Indexes
  /\ boot' = [boot EXCEPT ![p] = Serving]
  /\ UNCHANGED <<docs, indexes, creating, old, migrationVars, missed, failures, misspoken>>

\* Slip: a start-up that finds an index takes the rest to be there.
CreateIndexIfFresh(p) ==
  /\ boot[p] \in DOMAIN Indexes
  /\ IF boot[p] = 1 /\ indexes # {}
       THEN /\ boot' = [boot EXCEPT ![p] = Serving]
            /\ UNCHANGED <<indexes, failures>>
       ELSE \/ /\ indexes' = indexes \cup {Indexes[boot[p]]}
               /\ boot' = [boot EXCEPT ![p] = @ + 1]
               /\ UNCHANGED failures
            \/ /\ failures < MaxFailures
               /\ failures' = failures + 1
               /\ boot' = [boot EXCEPT ![p] = Serving]
               /\ UNCHANGED indexes
  /\ UNCHANGED <<docs, creating, old, migrationVars, missed, misspoken>>

\* One create_index of ensure_indexes.  When it raises, for a fault or because
\* the collection has duplicates, the rest is skipped and the exception printed.
CreateIndex(p) ==
  /\ boot[p] \in DOMAIN Indexes
  /\ LET i == Indexes[boot[p]] IN
     \/ /\ i = "conversation" => ~ Duplicates
        /\ indexes' = indexes \cup {i}
        /\ boot' = [boot EXCEPT ![p] = @ + 1]
        /\ UNCHANGED failures
     \/ /\ i = "conversation" /\ Duplicates
        /\ boot' = [boot EXCEPT ![p] = Serving]
        /\ UNCHANGED <<indexes, failures>>
     \/ /\ failures < MaxFailures
        /\ failures' = failures + 1
        /\ boot' = [boot EXCEPT ![p] = Serving]
        /\ UNCHANGED indexes
  /\ UNCHANGED <<docs, creating, old, migrationVars, missed, misspoken>>

\* A child dies or has run its 1000 tasks, a container is restarted: the start-up
\* hook runs again.
Restart(p) ==
  /\ boot[p] = Serving
  /\ boot' = [boot EXCEPT ![p] = 1]
  /\ creating' = [creating EXCEPT ![p] = {}]
  /\ UNCHANGED <<docs, indexes, old, migrationVars, missed, failures, misspoken>>

\* Jane answers customer c, or holds the question and escalates document d.
Speaks(c) ==
  misspoken' = IF \E d \in DocsOf(c) : docs[d].escalated
                 THEN misspoken \cup {c} ELSE misspoken

\* get_or_create_conversation, the find_one by (phone_hash, brand_id); what
\* MessageProcessor does with the document it returns is one step here.
FindConversation(p, c) ==
  /\ boot[p] = Serving
  /\ creating[p] = {}
  /\ \/ /\ Branded(c) = {}
        /\ creating' = [creating EXCEPT ![p] = {c}]
        /\ UNCHANGED <<docs, misspoken>>
     \/ \E d \in Branded(c), e \in BOOLEAN :
          /\ ~ docs[d].escalated
          /\ Speaks(c)
          /\ docs' = [docs EXCEPT ![d].escalated = e]
          /\ UNCHANGED creating
  /\ UNCHANGED <<indexes, boot, old, migrationVars, missed, failures>>

\* The insert_one, in which the unique index is what stops the second of two.
InsertConversation(p, c) ==
  /\ creating[p] = {c}
  /\ creating' = [creating EXCEPT ![p] = {}]
  /\ \/ /\ "conversation" \in indexes /\ Branded(c) # {}
        /\ UNCHANGED <<docs, misspoken>>
     \/ /\ ~ ("conversation" \in indexes /\ Branded(c) # {})
        /\ \E e \in BOOLEAN : Insert(c, TRUE, e)
        /\ Speaks(c)
  /\ UNCHANGED <<indexes, boot, old, migrationVars, missed, failures>>

Next ==
  \/ \E c \in Customer : OldService(c)
  \/ MigrationStep
  \/ MigrationDies /\ UNCHANGED <<docs, indexes, processVars, old, missed, failures, misspoken>>
  \/ Deploy
  \/ \E p \in Proc : CreateIndex(p) \/ Restart(p)
  \/ \E p \in Proc, c \in Customer : FindConversation(p, c) \/ InsertConversation(p, c)

Spec == Init /\ [][Next]_vars

\* The migration is run until it has gone through, one day the new service is
\* deployed, a start-up ends, and every process is replaced again and again.
FairSpec ==
  /\ Spec
  /\ WF_vars(MigrationStep) /\ WF_vars(Deploy)
  /\ \A p \in Proc : WF_vars(CreateIndex(p)) /\ WF_vars(Restart(p))

-----------------------------------------------------------------------------
\* Jane answers a customer who waits for an agent in a document she does not look
\* at only if the switch left a document of theirs behind: because no run of the
\* migration had gone through by then, or because the old service opened it after
\* the last one had.  Otherwise they have two documents of one conversation, which
\* takes a unique index that could not be created (ServesGuarded).  A document the
\* old service opens while the migration runs is caught by the comparison of the
\* counts, through crashes and re-runs.
QuietAcrossDeploy == misspoken \subseteq missed \cup Doubled

\* The unique indexes are there before anybody relies on them, the agents' one
\* included, which is created after that of the conversations: a process that
\* serves without one of them is accounted for by an index creation that failed.
\* Duplicates, which would keep both away, need such a failure too.
ServesGuarded ==
  failures = 0 =>
    /\ \A p \in Proc : boot[p] = Serving => indexes = AllIndexes
    /\ ~ Duplicates

\* "Safe to re-run": however often the migration dies, with the old service
\* opening and escalating conversations meanwhile, it goes through, the count it
\* insists on included (a new customer makes the counts differ once, and there are
\* finitely many), and the new service comes up.  What stops it for good is the new
\* service itself: a customer it opened a second document for cannot be given the
\* brand_id in the first under the unique index, and update_many raises whenever it
\* gets there.
MigrationGoesThrough ==
  \/ <>(migration = "done" /\ ~ old)
  \/ <>[](\E c \in Customer : Branded(c) # {} /\ DocsOf(c) # Branded(c))

\* A failed index creation is made up for by a later start-up, unless two
\* documents of one conversation slipped in while the index was missing.
IndexesHeal == <>[](indexes = AllIndexes) \/ <>[]Duplicates

===============================================================================
