---------------------------- MODULE DeploymentProofs ---------------------------
(***************************************************************************)
(* TypeOK, QuietAcrossDeploy and ServesGuarded, for any number of          *)
(* customers and of processes and for every bound.                         *)
(*                                                                         *)
(* There are two arguments.  The migration: what it still has to write is  *)
(* what it counted and has no brand_id (Backfilling), so a run that finds  *)
(* the count unchanged leaves nothing behind, and only the old service can *)
(* add to that before the switch (Complete).  A process that answers over  *)
(* an escalated document then answers a customer who was left behind, or   *)
(* has a second document with a brand_id.  The indexes: as long as no      *)
(* creation failed, a process has those it is past (InOrder), nobody but   *)
(* the old service opens documents before the unique index is there        *)
(* (OnePerCustomer), and none is a duplicate.                              *)
(***************************************************************************)
EXTENDS Deployment, SequenceTheorems, TLAPS

\* A process up to index n has created those before it, and holds a customer it
\* found no document for only while it serves.
InOrder ==
  failures = 0 =>
    \A p \in Proc :
      /\ \A i \in DOMAIN Indexes : i < boot[p] => Indexes[i] \in indexes
      /\ creating[p] # {} => boot[p] = Serving

\* Nothing of the new service is up, or has spoken, beside the old service.
Switched ==
  /\ \A p \in Proc : boot[p] # 0 \/ creating[p] # {} => ~ old
  /\ old => misspoken = {}

\* Without the unique index there is no more than the old service opens.
OnePerCustomer ==
  failures = 0 =>
    /\ "conversation" \notin indexes =>
         \A d, e \in DOMAIN docs : docs[d].customer = docs[e].customer => d = e
    /\ ~ Duplicates

\* What a run of the migration has counted and not yet written.
Backfilling ==
  /\ before <= Len(docs)
  /\ migration = "backfill" =>
       \A d \in DOMAIN docs : d <= before /\ ~ docs[d].branded => d \in todo
  /\ migration = "verify" =>
       \A d \in DOMAIN docs : d <= before => docs[d].branded

\* Once the migration has gone through, and from the switch on, a document without
\* a brand_id is one of a customer the switch leaves behind.
Complete ==
  ~ old \/ migration = "done" => \A d \in MissingBrand : docs[d].customer \in missed

DeployInv ==
  /\ TypeOK /\ InOrder /\ Switched /\ OnePerCustomer /\ Backfilling /\ Complete
  /\ QuietAcrossDeploy

USE DeploymentAssumption

-----------------------------------------------------------------------------
\* The indexes and their order.
LEMMA IndexOrder ==
  /\ DOMAIN Indexes = 1..6 /\ Serving = 7
  /\ \A i \in 1..6 : Indexes[i] = "conversation" <=> i = 3
  /\ \A i \in 1..6 : Indexes[i] \in AllIndexes
  /\ \A x \in AllIndexes : \E i \in 1..6 : x = Indexes[i]
  <1>1. DOMAIN Indexes = 1..6 /\ Len(Indexes) = 6
    BY DEF Indexes
  <1>2. \A i \in 1..6 : Indexes[i] = "conversation" <=> i = 3
    <2>1. /\ Indexes[1] = "message_id" /\ Indexes[2] = "message ttl"
          /\ Indexes[3] = "conversation" /\ Indexes[4] = "idempotency_key"
          /\ Indexes[5] = "reply ttl" /\ Indexes[6] = "history"
      BY DEF Indexes
    <2>2. \A i \in 1..6 : i = 1 \/ i = 2 \/ i = 3 \/ i = 4 \/ i = 5 \/ i = 6
      OBVIOUS
    <2>3. QED
      BY <2>1, <2>2
  <1>3. Serving = 7
    BY <1>1 DEF Serving
  <1>4. /\ \A i \in 1..6 : Indexes[i] \in AllIndexes
        /\ \A x \in AllIndexes : \E i \in 1..6 : x = Indexes[i]
    BY <1>1 DEF AllIndexes
  <1>5. QED
    BY <1>1, <1>2, <1>3, <1>4

\* The collection is a sequence of documents.
LEMMA Collection ==
  ASSUME TypeOK
  PROVE  /\ Len(docs) \in Nat /\ DOMAIN docs = 1..Len(docs)
         /\ \A d \in DOMAIN docs : docs[d] \in Doc
  BY LenProperties, ElementOfSeq DEF TypeOK

\* An insert adds one document at the end.
LEMMA Inserted ==
  ASSUME TypeOK, NEW c \in Customer, NEW b \in BOOLEAN, NEW e \in BOOLEAN, Insert(c, b, e)
  PROVE  /\ docs' \in Seq(Doc) /\ Len(docs') <= MaxDocs
         /\ Len(docs') = Len(docs) + 1
         /\ DOMAIN docs' = DOMAIN docs \cup {Len(docs) + 1}
         /\ Len(docs) + 1 \notin DOMAIN docs
         /\ \A d \in DOMAIN docs : docs'[d] = docs[d]
         /\ docs'[Len(docs) + 1].customer = c
         /\ docs'[Len(docs) + 1].branded = b
  <1> DEFINE x == [customer |-> c, branded |-> b, escalated |-> e]
  <1>1. x \in Doc
    BY DEF Doc
  <1>2. docs \in Seq(Doc) /\ Len(docs) < MaxDocs /\ docs' = Append(docs, x)
    BY DEF TypeOK, Insert
  <1> HIDE DEF x
  <1>3. /\ docs' \in Seq(Doc) /\ Len(docs') = Len(docs) + 1
        /\ \A d \in 1..Len(docs) : docs'[d] = docs[d]
        /\ docs'[Len(docs) + 1] = x
    BY <1>1, <1>2, AppendProperties
  <1>4. /\ DOMAIN docs' = 1..Len(docs') /\ DOMAIN docs = 1..Len(docs)
        /\ Len(docs) \in Nat
    BY <1>2, <1>3, LenProperties
  <1>5. Len(docs') <= MaxDocs
    BY <1>2, <1>3, <1>4
  <1>6. x.customer = c /\ x.branded = b
    BY DEF x
  <1>7. QED
    BY <1>3, <1>4, <1>5, <1>6

\* An update of one document changes one of its fields.
LEMMA Updated ==
  ASSUME TypeOK, NEW d \in DOMAIN docs, NEW e \in BOOLEAN
  PROVE  /\ docs' = [docs EXCEPT ![d].escalated = e] =>
              /\ docs' \in Seq(Doc) /\ Len(docs') = Len(docs)
              /\ DOMAIN docs' = DOMAIN docs
              /\ \A f \in DOMAIN docs : /\ docs'[f].customer = docs[f].customer
                                        /\ docs'[f].branded = docs[f].branded
         /\ docs' = [docs EXCEPT ![d].branded = e] =>
              /\ docs' \in Seq(Doc) /\ Len(docs') = Len(docs)
              /\ DOMAIN docs' = DOMAIN docs
              /\ \A f \in DOMAIN docs :
                   /\ docs'[f].customer = docs[f].customer
                   /\ docs'[f].branded = IF f = d THEN e ELSE docs[f].branded
  <1>1. docs \in Seq(Doc) /\ d \in 1..Len(docs) /\ DOMAIN docs = 1..Len(docs)
    BY Collection DEF TypeOK
  <1>2. docs[d] \in Doc
    BY Collection
  <1> DEFINE x == [docs[d] EXCEPT !.escalated = e]
             y == [docs[d] EXCEPT !.branded = e]
  <1>3. x \in Doc /\ y \in Doc
    BY <1>2 DEF Doc
  <1>4. /\ x.customer = docs[d].customer /\ x.branded = docs[d].branded
        /\ y.customer = docs[d].customer /\ y.branded = e
    BY <1>2 DEF Doc
  <1>5. /\ [docs EXCEPT ![d].escalated = e] = [docs EXCEPT ![d] = x]
        /\ [docs EXCEPT ![d].branded = e] = [docs EXCEPT ![d] = y]
    OBVIOUS
  <1> HIDE DEF x, y
  <1>6. ASSUME NEW z \in Doc, docs' = [docs EXCEPT ![d] = z]
        PROVE  /\ docs' \in Seq(Doc) /\ Len(docs') = Len(docs)
               /\ DOMAIN docs' = DOMAIN docs
               /\ \A f \in DOMAIN docs : docs'[f] = IF f = d THEN z ELSE docs[f]
    <2>1. /\ docs' \in Seq(Doc) /\ Len(docs') = Len(docs)
          /\ \A f \in 1..Len(docs) : docs'[f] = IF f = d THEN z ELSE docs[f]
      BY <1>1, <1>6, ExceptSeq
    <2>2. DOMAIN docs' = 1..Len(docs')
      BY <2>1, LenProperties
    <2>3. QED
      BY <1>1, <2>1, <2>2
  <1>7. QED
    BY <1>3, <1>4, <1>5, <1>6

-----------------------------------------------------------------------------
\* Before anything ran there is nothing.
LEMMA InitInv == Init => DeployInv
  <1> SUFFICES ASSUME Init PROVE DeployInv
    OBVIOUS
  <1>1. docs = <<>> /\ DOMAIN docs = {} /\ Len(docs) = 0 /\ docs \in Seq(Doc)
    BY EmptySeq DEF Init
  <1>2. TypeOK
    <2>1. indexes \subseteq AllIndexes /\ boot \in [Proc -> 0..Serving]
      BY IndexOrder DEF Init
    <2>2. 0 \in 0..MaxDocs /\ 0 \in 0..MaxFailures /\ 0 \in 0..MaxCrashes /\ 0 <= MaxDocs
      BY DEF DeploymentAssumption
    <2>3. QED
      BY <1>1, <2>1, <2>2 DEF Init, TypeOK, Migration
  <1>3. InOrder
    BY IndexOrder DEF Init, InOrder
  <1>4. QED
    BY <1>1, <1>2, <1>3 DEF Init, DeployInv, Switched, OnePerCustomer, Duplicates, Backfilling,
       Complete, MissingBrand, QuietAcrossDeploy

\* Documents keep their customer and, once they have it, their brand_id: two of one
\* conversation stay two.
LEMMA DoubledStays ==
  ASSUME DOMAIN docs \subseteq DOMAIN docs',
         \A d \in DOMAIN docs : /\ docs'[d].customer = docs[d].customer
                                /\ docs[d].branded => docs'[d].branded
  PROVE  Doubled \subseteq Doubled'
  <1> SUFFICES ASSUME NEW c \in Customer, NEW d \in Branded(c), NEW e \in Branded(c), d # e
               PROVE  c \in Doubled'
    BY DEF Doubled
  <1>1. d \in Branded(c)' /\ e \in Branded(c)'
    BY DEF Branded, DocsOf
  <1>2. QED
    BY <1>1 DEF Doubled

\* After the switch a document is of a customer left behind, or has its brand_id.
LEMMA LeftBehind ==
  ASSUME DeployInv, ~ old, NEW c \in Customer, NEW d \in DocsOf(c)
  PROVE  c \in missed \/ d \in Branded(c)
  BY DEF DeployInv, Complete, MissingBrand, DocsOf, Branded

\* A process that serves has every index, and with them every customer one document
\* with a brand_id at most.
LEMMA ServingProcess ==
  ASSUME DeployInv, failures = 0, NEW p \in Proc, boot[p] = Serving
  PROVE  /\ indexes = AllIndexes /\ "conversation" \in indexes
         /\ ~ old
         /\ \A c \in Customer : \A d, e \in Branded(c) : d = e
  <1> USE DEF DeployInv
  <1>1. indexes = AllIndexes /\ "conversation" \in indexes
    <2>1. \A i \in 1..6 : Indexes[i] \in indexes
      BY IndexOrder DEF InOrder
    <2>2. AllIndexes \subseteq indexes
      BY <2>1, IndexOrder
    <2>3. "conversation" = Indexes[3] /\ 3 \in 1..6
      BY IndexOrder
    <2>4. QED
      BY <2>1, <2>2, <2>3 DEF TypeOK
  <1>2. ~ old
    BY IndexOrder DEF Switched
  <1>4. ASSUME NEW c \in Customer, NEW d \in Branded(c), NEW e \in Branded(c) PROVE d = e
    <2>1. /\ d \in DOMAIN docs /\ e \in DOMAIN docs
          /\ docs[d].customer = docs[e].customer
          /\ docs[d].branded = TRUE /\ docs[e].branded = TRUE
      BY Collection DEF Branded, DocsOf, Doc
    <2>2. QED
      BY <2>1 DEF OnePerCustomer, Duplicates
  <1>5. QED
    BY <1>1, <1>2, <1>4

\* The old service opens the first document of a customer, or escalates one.
LEMMA OldServiceInv ==
  ASSUME DeployInv, NEW c \in Customer, OldService(c)
  PROVE  DeployInv'
  <1> USE DEF DeployInv
  <1>0. /\ old
        /\ UNCHANGED <<indexes, boot, creating, old, migration, connected, todo, before,
                       crashes, failures, misspoken>>
    BY DEF OldService, processVars, migrationVars, TypeOK
  <1>1. InOrder' /\ Switched'
    BY <1>0 DEF InOrder, Switched
  <1>q. QuietAcrossDeploy'
    BY <1>0 DEF QuietAcrossDeploy, Switched
  <1>2. CASE /\ DocsOf(c) = {}
             /\ \E e \in BOOLEAN : Insert(c, FALSE, e)
             /\ missed' = IF migration = "done" THEN missed \cup {c} ELSE missed
    <2> DEFINE n == Len(docs) + 1
    <2>1. /\ docs' \in Seq(Doc) /\ Len(docs') <= MaxDocs /\ Len(docs') = n
          /\ DOMAIN docs' = DOMAIN docs \cup {n} /\ n \notin DOMAIN docs
          /\ \A d \in DOMAIN docs : docs'[d] = docs[d]
          /\ docs'[n].customer = c
      BY <1>2, Inserted
    <2>2. Len(docs) \in Nat /\ DOMAIN docs = 1..Len(docs) /\ before \in Nat
      BY Collection DEF TypeOK, DeploymentAssumption
    <2>3. \A d \in DOMAIN docs : docs[d].customer # c
      BY <1>2 DEF DocsOf
    <2> HIDE DEF n
    <2>4. TypeOK'
      BY <1>0, <1>2, <2>1 DEF TypeOK
    <2>5. OnePerCustomer'
      BY <1>0, <2>1, <2>3 DEF OnePerCustomer, Duplicates
    <2>6. Backfilling'
      <3>1. before < n /\ n = Len(docs) + 1
        BY <2>2 DEF Backfilling, n
      <3>2. QED
        BY <1>0, <2>1, <2>2, <3>1 DEF Backfilling
    <2>7. Complete'
      BY <1>0, <1>2, <2>1 DEF Complete, MissingBrand
    <2>8. QED
      BY <1>1, <1>q, <2>4, <2>5, <2>6, <2>7
  <1>3. CASE (\E d \in DocsOf(c) : docs' = [docs EXCEPT ![d].escalated = TRUE]) /\ UNCHANGED missed
    <2>1. /\ docs' \in Seq(Doc) /\ Len(docs') = Len(docs) /\ DOMAIN docs' = DOMAIN docs
          /\ \A f \in DOMAIN docs : /\ docs'[f].customer = docs[f].customer
                                    /\ docs'[f].branded = docs[f].branded
      BY <1>3, Updated DEF DocsOf
    <2>2. TypeOK'
      BY <1>0, <1>3, <2>1 DEF TypeOK
    <2>3. OnePerCustomer' /\ Backfilling' /\ Complete'
      BY <1>0, <1>3, <2>1 DEF OnePerCustomer, Duplicates, Backfilling, Complete, MissingBrand
    <2>4. QED
      BY <1>1, <1>q, <2>2, <2>3
  <1>4. QED
    BY <1>2, <1>3 DEF OldService

\* The migration writes nothing but brand_ids, of documents it finds without one.
LEMMA MigrationInv ==
  ASSUME DeployInv, MigrationStep
  PROVE  DeployInv'
  <1> USE DEF DeployInv
  <1>0. UNCHANGED <<indexes, boot, creating, old, failures, misspoken>>
    BY DEF MigrationStep, processVars
  <1>1. InOrder' /\ Switched'
    BY <1>0 DEF InOrder, Switched
  <1>t. Len(docs) \in 0..MaxDocs /\ 0 \in 0..MaxDocs /\ DOMAIN docs = 1..Len(docs)
    BY Collection DEF TypeOK, DeploymentAssumption
  <1>q. ASSUME UNCHANGED <<docs, missed>> PROVE QuietAcrossDeploy'
    BY <1>0, <1>q DEF QuietAcrossDeploy, Doubled, Branded, DocsOf
  <1>2. CASE StartMigration /\ UNCHANGED docs
    <2>1. TypeOK' /\ OnePerCustomer' /\ Backfilling' /\ Complete'
      BY <1>0, <1>2 DEF StartMigration, TypeOK, Migration, OnePerCustomer, Duplicates,
         Backfilling, Complete, MissingBrand
    <2>2. QuietAcrossDeploy'
      <3>1. CASE old
        BY <1>0, <3>1 DEF Switched, QuietAcrossDeploy
      <3>2. CASE ~ old
        BY <1>2, <1>q, <3>2 DEF StartMigration
      <3>3. QED
        BY <3>1, <3>2
    <2>3. QED
      BY <1>1, <2>1, <2>2
  <1>3. CASE UNCHANGED <<docs, missed>> /\ (ResolveBrand \/ UpsertConnection)
    BY <1>0, <1>1, <1>q, <1>3 DEF ResolveBrand, UpsertConnection, TypeOK, Migration,
       OnePerCustomer, Duplicates, Backfilling, Complete, MissingBrand
  <1>4. CASE UNCHANGED <<docs, missed>> /\ (CountDocuments \/ CountMissing \/ UpdateMany)
    <2>1. OnePerCustomer' /\ Complete'
      BY <1>0, <1>4 DEF CountDocuments, CountMissing, UpdateMany, OnePerCustomer, Duplicates,
         Complete, MissingBrand
    <2>2. TypeOK'
      BY <1>0, <1>4, <1>t DEF CountDocuments, CountMissing, UpdateMany, TypeOK, Migration,
         MissingBrand
    <2>3. Backfilling'
      BY <1>4, <1>t DEF CountDocuments, CountMissing, UpdateMany, Backfilling, MissingBrand
    <2>4. QED
      BY <1>1, <1>4, <1>q, <2>1, <2>2, <2>3
  <1>5. CASE UNCHANGED <<docs, missed>> /\ BackfillEnds
    <2>1. TypeOK' /\ OnePerCustomer' /\ Complete'
      BY <1>0, <1>5 DEF BackfillEnds, TypeOK, Migration, OnePerCustomer, Duplicates, Complete,
         MissingBrand
    <2>2. Backfilling'
      BY <1>5 DEF BackfillEnds, Backfilling
    <2>3. QED
      BY <1>1, <1>5, <1>q, <2>1, <2>2
  <1>6. CASE UNCHANGED <<docs, missed>> /\ Verify
    <2>1. TypeOK' /\ OnePerCustomer'
      BY <1>0, <1>6, <1>t DEF Verify, Stop, TypeOK, Migration, OnePerCustomer, Duplicates
    <2>2. Backfilling'
      BY <1>6, <1>t DEF Verify, Stop, Backfilling
    <2>3. Len(docs) = before => MissingBrand = {}
      BY <1>6, <1>t DEF Verify, Backfilling, MissingBrand
    <2>4. Complete'
      BY <1>0, <1>6, <2>3 DEF Verify, Stop, Complete, MissingBrand
    <2>5. QED
      BY <1>1, <1>6, <1>q, <2>1, <2>2, <2>4
  <1>7. ASSUME NEW d \in DOMAIN docs, Backfill(d), UNCHANGED missed PROVE DeployInv'
    <2>1. CASE "conversation" \in indexes /\ Branded(docs[d].customer) # {} /\ Stop("idle") /\ UNCHANGED docs
      <3>1. TypeOK' /\ OnePerCustomer' /\ Backfilling'
        BY <1>0, <1>7, <1>t, <2>1 DEF Backfill, Stop, TypeOK, Migration, OnePerCustomer,
           Duplicates, Backfilling
      <3>2. Complete'
        BY <1>0, <1>7, <2>1 DEF Backfill, Stop, Complete, MissingBrand
      <3>3. QED
        BY <1>1, <1>7, <1>q, <2>1, <3>1, <3>2
    <2>2. CASE /\ ~ ("conversation" \in indexes /\ Branded(docs[d].customer) # {})
               /\ docs' = [docs EXCEPT ![d].branded = TRUE]
               /\ todo' = todo \ {d}
               /\ UNCHANGED <<migration, before>>
      <3>1. /\ docs' \in Seq(Doc) /\ Len(docs') = Len(docs) /\ DOMAIN docs' = DOMAIN docs
            /\ \A f \in DOMAIN docs :
                 /\ docs'[f].customer = docs[f].customer
                 /\ docs'[f].branded = IF f = d THEN TRUE ELSE docs[f].branded
        BY <2>2, Updated
      <3>2. TypeOK'
        BY <1>0, <1>7, <2>2, <3>1 DEF Backfill, TypeOK
      <3>3. Backfilling' /\ Complete'
        BY <1>0, <1>7, <2>2, <3>1 DEF Backfill, Backfilling, Complete, MissingBrand
      <3>4. OnePerCustomer'
        <4>1. CASE "conversation" \notin indexes
          BY <1>0, <3>1, <4>1 DEF OnePerCustomer, Duplicates
        <4>2. CASE "conversation" \in indexes
          <5>1. \A e \in DOMAIN docs : docs[e].customer = docs[d].customer => ~ docs[e].branded
            BY <2>2, <4>2 DEF Branded, DocsOf
          <5>2. \A e \in DOMAIN docs : docs[e].branded \in BOOLEAN
            BY Collection DEF Doc
          <5>3. ASSUME failures = 0, NEW x \in DOMAIN docs, NEW y \in DOMAIN docs, x # y,
                       docs[x].customer = docs[y].customer,
                       docs'[x].branded = docs'[y].branded
                PROVE  FALSE
            <6>1. ~ (docs[x].branded = docs[y].branded)
              BY <5>3 DEF OnePerCustomer, Duplicates
            <6>2. x = d \/ y = d
              BY <3>1, <5>3, <6>1
            <6>3. QED
              BY <3>1, <5>1, <5>2, <5>3, <6>1, <6>2
          <5>4. ~ Duplicates' \/ failures # 0
            BY <3>1, <5>3 DEF Duplicates
          <5>5. QED
            BY <1>0, <4>2, <5>4 DEF OnePerCustomer
        <4>3. QED
          BY <4>1, <4>2
      <3>q. QuietAcrossDeploy'
        <4>1. Doubled \subseteq Doubled'
          BY <3>1, DoubledStays
        <4>2. QED
          BY <1>0, <1>7, <4>1 DEF QuietAcrossDeploy
      <3>5. QED
        BY <1>1, <3>2, <3>3, <3>4, <3>q
    <2>3. QED
      BY <1>7, <2>1, <2>2 DEF Backfill
  <1>8. QED
    BY <1>2, <1>3, <1>4, <1>5, <1>6, <1>7 DEF MigrationStep

\* A run of the migration that dies takes its count and its list with it.
LEMMA MigrationDiesInv ==
  ASSUME DeployInv, MigrationDies,
         UNCHANGED <<docs, indexes, processVars, old, missed, failures, misspoken>>
  PROVE  DeployInv'
  <1> USE DEF DeployInv
  <1>1. UNCHANGED <<docs, indexes, boot, creating, old, missed, failures, misspoken>>
    BY DEF processVars
  <1>2. 0 \in 0..MaxDocs /\ 0 <= Len(docs) /\ crashes' \in 0..MaxCrashes
    BY Collection DEF MigrationDies, TypeOK, DeploymentAssumption
  <1>3. TypeOK' /\ Backfilling'
    BY <1>1, <1>2, Collection DEF MigrationDies, Stop, TypeOK, Migration, Backfilling,
       DeploymentAssumption
  <1>4. Complete'
    BY <1>1 DEF MigrationDies, Stop, Complete, MissingBrand
  <1>5. QED
    BY <1>1, <1>3, <1>4 DEF InOrder, Switched, OnePerCustomer, Duplicates, QuietAcrossDeploy,
       Doubled, Branded, DocsOf

\* The switch starts every process at the first index.
LEMMA SwitchInv ==
  ASSUME DeployInv, Deploy
  PROVE  DeployInv'
  <1> USE DEF DeployInv
  <1>1. UNCHANGED <<docs, indexes, creating, migration, connected, todo, before, crashes,
                    failures, misspoken>>
    BY DEF Deploy, migrationVars
  <1>2. /\ boot' = [p \in Proc |-> 1] /\ old' = FALSE /\ old
        /\ missed' = IF migration = "done" THEN missed
                       ELSE {docs[d].customer : d \in MissingBrand}
    BY DEF Deploy
  <1>3. TypeOK'
    <2>1. boot' \in [Proc -> 0..Serving]
      BY <1>2, IndexOrder
    <2>2. missed' \subseteq Customer
      BY <1>2, Collection DEF TypeOK, MissingBrand, Doc
    <2>3. QED
      BY <1>1, <1>2, <2>1, <2>2 DEF TypeOK
  <1>4. InOrder'
    <2>1. \A p \in Proc : boot[p] = 0
      BY <1>2 DEF Switched
    <2>2. failures = 0 => \A p \in Proc : creating[p] = {}
      BY <2>1, IndexOrder DEF InOrder
    <2>3. QED
      BY <1>1, <1>2, <2>2, IndexOrder DEF InOrder
  <1>5. Complete'
    BY <1>1, <1>2 DEF Complete, MissingBrand
  <1>6. QED
    BY <1>1, <1>2, <1>3, <1>4, <1>5 DEF Switched, OnePerCustomer, Duplicates, Backfilling,
       QuietAcrossDeploy

\* A process creates an index and goes on to the next; a creation that raises,
\* which without a fault none does, makes it serve at once.
LEMMA CreateIndexInv ==
  ASSUME DeployInv, NEW p \in Proc, CreateIndex(p)
  PROVE  DeployInv'
  <1> USE DEF DeployInv
  <1> DEFINE i == Indexes[boot[p]]
  <1>1. UNCHANGED <<docs, creating, old, migration, connected, todo, before, crashes,
                    missed, misspoken>>
    BY DEF CreateIndex, migrationVars
  <1>2. boot[p] \in 1..6 /\ i \in AllIndexes /\ Serving = 7 /\ DOMAIN Indexes = 1..6
    BY IndexOrder DEF CreateIndex
  <1> HIDE DEF i
  <1>q. QuietAcrossDeploy'
    BY <1>1 DEF QuietAcrossDeploy, Doubled, Branded, DocsOf
  <1>3. Switched' /\ Backfilling' /\ Complete'
    <2>1. boot[p] # 0 /\ \A q \in Proc : q # p => boot'[q] = boot[q]
      BY <1>2 DEF CreateIndex, TypeOK
    <2>2. QED
      BY <1>1, <2>1 DEF Switched, Backfilling, Complete, MissingBrand
  <1>4. CASE /\ i = "conversation" => ~ Duplicates
             /\ indexes' = indexes \cup {i}
             /\ boot' = [boot EXCEPT ![p] = @ + 1]
             /\ UNCHANGED failures
    <2>1. TypeOK'
      BY <1>1, <1>2, <1>4 DEF TypeOK
    <2>2. InOrder'
      <3>1. ASSUME failures = 0, NEW q \in Proc, NEW j \in 1..6, j < boot'[q]
            PROVE  Indexes[j] \in indexes'
        <4>1. CASE q = p /\ j = boot[p]
          BY <1>4, <4>1 DEF i
        <4>2. CASE ~ (q = p /\ j = boot[p])
          <5>1. j < boot[q]
            BY <1>2, <1>4, <3>1, <4>2 DEF TypeOK
          <5>2. QED
            BY <1>2, <1>4, <3>1, <5>1 DEF InOrder
        <4>3. QED
          BY <4>1, <4>2
      <3>2. ASSUME failures = 0, NEW q \in Proc, creating[q] # {}
            PROVE  boot'[q] = Serving
        BY <1>2, <1>4, <3>2 DEF InOrder, TypeOK
      <3>3. QED
        BY <1>1, <1>2, <1>4, <3>1, <3>2 DEF InOrder
    <2>3. OnePerCustomer'
      BY <1>1, <1>4 DEF OnePerCustomer, Duplicates
    <2>4. QED
      BY <1>3, <1>q, <2>1, <2>2, <2>3
  <1>5. CASE /\ i = "conversation" /\ Duplicates
             /\ boot' = [boot EXCEPT ![p] = Serving]
             /\ UNCHANGED <<indexes, failures>>
    <2>1. failures # 0
      BY <1>5 DEF OnePerCustomer
    <2>2. TypeOK'
      BY <1>1, <1>2, <1>5 DEF TypeOK
    <2>3. QED
      BY <1>1, <1>3, <1>5, <1>q, <2>1, <2>2 DEF InOrder, OnePerCustomer
  <1>6. CASE /\ failures < MaxFailures
             /\ failures' = failures + 1
             /\ boot' = [boot EXCEPT ![p] = Serving]
             /\ UNCHANGED indexes
    <2>1. failures' \in 0..MaxFailures /\ failures' # 0 /\ failures' > 0
      BY <1>6 DEF TypeOK, DeploymentAssumption
    <2>2. TypeOK'
      BY <1>1, <1>2, <1>6, <2>1 DEF TypeOK
    <2>3. QED
      BY <1>3, <1>q, <2>1, <2>2 DEF InOrder, OnePerCustomer
  <1>7. QED
    BY <1>4, <1>5, <1>6 DEF CreateIndex, i

\* A process that restarts begins with the first index again.
LEMMA RestartInv ==
  ASSUME DeployInv, NEW p \in Proc, Restart(p)
  PROVE  DeployInv'
  <1> USE DEF DeployInv
  <1>1. /\ UNCHANGED <<docs, indexes, old, migration, connected, todo, before, crashes, missed,
                       failures, misspoken>>
        /\ boot[p] = 7 /\ boot' = [boot EXCEPT ![p] = 1]
        /\ creating' = [creating EXCEPT ![p] = {}]
    BY IndexOrder DEF Restart, migrationVars
  <1>2. TypeOK'
    BY <1>1, IndexOrder DEF TypeOK
  <1>3. InOrder' /\ Switched'
    BY <1>1, IndexOrder DEF InOrder, Switched, TypeOK
  <1>4. QED
    BY <1>1, <1>2, <1>3 DEF OnePerCustomer, Duplicates, Backfilling, Complete, MissingBrand,
       QuietAcrossDeploy, Doubled, Branded, DocsOf

\* A process that finds a document of the customer answers in it: one who waits in
\* another has two with a brand_id, or was left behind.
LEMMA FindConversationInv ==
  ASSUME DeployInv, NEW p \in Proc, NEW c \in Customer, FindConversation(p, c)
  PROVE  DeployInv'
  <1> USE DEF DeployInv
  <1>1. /\ boot[p] = Serving /\ creating[p] = {} /\ ~ old
        /\ UNCHANGED <<indexes, boot, old, migration, connected, todo, before, crashes, missed,
                       failures>>
    BY IndexOrder DEF FindConversation, migrationVars, Switched
  <1>2. CASE /\ creating' = [creating EXCEPT ![p] = {c}]
             /\ UNCHANGED <<docs, misspoken>>
    <2>1. TypeOK' /\ InOrder' /\ Switched'
      BY <1>1, <1>2 DEF TypeOK, InOrder, Switched
    <2>2. QED
      BY <1>1, <1>2, <2>1 DEF OnePerCustomer, Duplicates, Backfilling, Complete, MissingBrand,
         QuietAcrossDeploy, Doubled, Branded, DocsOf
  <1>3. ASSUME NEW d \in Branded(c), NEW e \in BOOLEAN,
               ~ docs[d].escalated, Speaks(c),
               docs' = [docs EXCEPT ![d].escalated = e], UNCHANGED creating
        PROVE  DeployInv'
    <2>1. /\ docs' \in Seq(Doc) /\ Len(docs') = Len(docs) /\ DOMAIN docs' = DOMAIN docs
          /\ \A f \in DOMAIN docs : /\ docs'[f].customer = docs[f].customer
                                    /\ docs'[f].branded = docs[f].branded
      BY <1>3, Updated DEF Branded, DocsOf
    <2>2. TypeOK'
      BY <1>1, <1>3, <2>1 DEF TypeOK, Speaks
    <2>3. InOrder' /\ Switched' /\ OnePerCustomer' /\ Backfilling' /\ Complete'
      BY <1>1, <1>3, <2>1 DEF InOrder, Switched, OnePerCustomer, Duplicates, Backfilling,
         Complete, MissingBrand
    <2>4. ASSUME NEW f \in DocsOf(c), docs[f].escalated PROVE c \in missed \cup Doubled
      <3>1. f # d
        BY <1>3, <2>4
      <3>2. QED
        BY <1>1, <1>3, <3>1, LeftBehind DEF Doubled
    <2>5. QuietAcrossDeploy'
      <3>1. Doubled \subseteq Doubled'
        BY <2>1, DoubledStays
      <3>2. misspoken' \subseteq misspoken \cup (missed \cup Doubled)
        BY <1>3, <2>4 DEF Speaks
      <3>3. QED
        BY <1>1, <3>1, <3>2 DEF QuietAcrossDeploy
    <2>6. QED
      BY <2>2, <2>3, <2>5
  <1>4. QED
    BY <1>2, <1>3 DEF FindConversation

\* One that found none opens it, unless another did meanwhile.
LEMMA InsertConversationInv ==
  ASSUME DeployInv, NEW p \in Proc, NEW c \in Customer, InsertConversation(p, c)
  PROVE  DeployInv'
  <1> USE DEF DeployInv
  <1>1. /\ creating[p] # {} /\ creating' = [creating EXCEPT ![p] = {}] /\ ~ old
        /\ UNCHANGED <<indexes, boot, old, migration, connected, todo, before, crashes, missed,
                       failures>>
    BY DEF InsertConversation, migrationVars, Switched
  <1>2. InOrder' /\ Switched'
    BY <1>1 DEF InOrder, Switched, TypeOK
  <1>3. CASE UNCHANGED <<docs, misspoken>>
    BY <1>1, <1>2, <1>3 DEF TypeOK, OnePerCustomer, Duplicates, Backfilling, Complete,
       MissingBrand, QuietAcrossDeploy, Doubled, Branded, DocsOf
  <1>4. ASSUME ~ ("conversation" \in indexes /\ Branded(c) # {}),
               NEW e \in BOOLEAN, Insert(c, TRUE, e), Speaks(c)
        PROVE  DeployInv'
    <2> DEFINE n == Len(docs) + 1
    <2>1. /\ docs' \in Seq(Doc) /\ Len(docs') <= MaxDocs /\ Len(docs') = n
          /\ DOMAIN docs' = DOMAIN docs \cup {n} /\ n \notin DOMAIN docs
          /\ \A d \in DOMAIN docs : docs'[d] = docs[d]
          /\ docs'[n].customer = c /\ docs'[n].branded = TRUE
      BY <1>4, Inserted
    <2>2. Len(docs) \in Nat /\ DOMAIN docs = 1..Len(docs) /\ before \in Nat
      BY Collection DEF TypeOK, DeploymentAssumption
    <2>n. before < n /\ n = Len(docs) + 1
      BY <2>2 DEF Backfilling
    <2> HIDE DEF n
    <2>3. TypeOK'
      BY <1>1, <1>4, <2>1 DEF TypeOK, Speaks
    <2>4. Backfilling' /\ Complete'
      BY <1>1, <2>1, <2>2, <2>n DEF Backfilling, Complete, MissingBrand
    <2>5. failures = 0 => "conversation" \in indexes /\ Branded(c) = {}
      BY <1>1, <1>4, ServingProcess DEF InOrder
    <2>6. OnePerCustomer'
      <3>1. failures = 0 => \A d \in DOMAIN docs : docs[d].customer = c => ~ docs[d].branded
        BY <2>5 DEF Branded, DocsOf
      <3>2. failures = 0 => ~ Duplicates'
        BY <2>1, <3>1 DEF OnePerCustomer, Duplicates
      <3>3. QED
        BY <1>1, <2>5, <3>2 DEF OnePerCustomer
    <2>7. QuietAcrossDeploy'
      <3>1. Doubled \subseteq Doubled'
        BY <2>1, DoubledStays
      <3>2. ASSUME NEW f \in DocsOf(c), docs[f].escalated PROVE c \in missed \cup Doubled'
        <4>1. CASE f \in Branded(c)
          <5>1. f # n /\ f \in Branded(c)' /\ n \in Branded(c)'
            BY <2>1, <4>1 DEF Branded, DocsOf
          <5>2. QED
            BY <5>1 DEF Doubled
        <4>2. QED
          BY <1>1, <4>1, LeftBehind
      <3>3. misspoken' \subseteq misspoken \cup (missed \cup Doubled')
        BY <1>4, <3>2 DEF Speaks
      <3>4. QED
        BY <1>1, <3>1, <3>3 DEF QuietAcrossDeploy
    <2>8. QED
      BY <1>2, <2>3, <2>4, <2>6, <2>7
  <1>5. QED
    BY <1>3, <1>4 DEF InsertConversation

-----------------------------------------------------------------------------
\* Every step of the service keeps the invariant.
LEMMA NextInv == DeployInv /\ [Next]_vars => DeployInv'
  <1> SUFFICES ASSUME DeployInv, [Next]_vars PROVE DeployInv'
    OBVIOUS
  <1>1. CASE UNCHANGED vars
    BY <1>1 DEF vars, processVars, migrationVars, DeployInv, TypeOK, InOrder, Switched,
       OnePerCustomer, Duplicates, Backfilling, Complete, MissingBrand, QuietAcrossDeploy,
       Doubled, Branded, DocsOf
  <1>2. CASE Next
    BY <1>2, OldServiceInv, MigrationInv, MigrationDiesInv, SwitchInv, CreateIndexInv, RestartInv,
       FindConversationInv, InsertConversationInv DEF Next
  <1>3. QED
    BY <1>1, <1>2

\* The invariant holds throughout.
LEMMA SpecInv == Spec => []DeployInv
  <1>1. QED
    BY InitInv, NextInv, PTL DEF Spec

\* The collection, the indexes and the migration's variables are well formed
\* throughout, through crashes and re-runs: a run never has more on its list than
\* there are documents.
THEOREM DeploymentTypeCorrect == Spec => []TypeOK
  <1>1. DeployInv => TypeOK
    BY DEF DeployInv
  <1>2. QED
    BY SpecInv, <1>1, PTL

\* Jane answers a customer who waits for an agent in another document only when the
\* switch left a document of theirs behind, or they have two with a brand_id,
\* whatever the migration and the processes go through and whenever the switch is.
THEOREM QuietThroughout == Spec => []QuietAcrossDeploy
  <1>1. DeployInv => QuietAcrossDeploy
    BY DEF DeployInv
  <1>2. QED
    BY SpecInv, <1>1, PTL

\* As long as no index creation failed, every process that serves has all the
\* indexes and no two documents stand for one conversation.
THEOREM ServedWithIndexes == Spec => []ServesGuarded
  <1>1. DeployInv => ServesGuarded
    BY ServingProcess DEF DeployInv, OnePerCustomer, ServesGuarded
  <1>2. QED
    BY SpecInv, <1>1, PTL

===============================================================================
