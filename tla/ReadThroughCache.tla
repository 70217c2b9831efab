---------------------------- MODULE ReadThroughCache ---------------------------
(***************************************************************************)
(* The 60 second cache that app/services/client_registry.py keeps per      *)
(* phone_number_id and app/services/brand_facts_reader.py per brand_id:    *)
(* one dict per process, filled by whichever call misses, None included.   *)
(*                                                                         *)
(* The stamp of an entry is the clock of the call that filled it, read     *)
(* before its first await.  Between the answer of the database and the     *)
(* moment the coroutine that waited for it runs on, other coroutines of    *)
(* the process run, and the database moves on: reading and storing are two *)
(* steps.                                                                  *)
(***************************************************************************)
EXTENDS Naturals

CONSTANTS
  Proc,    \* processes: webhook replicas and Celery children
  Call,    \* coroutines that look something up, one lookup after another
  ProcOf,  \* the process a call runs in
  Key, Value,
  TTL,     \* _CACHE_TTL_SECONDS
  Nothing  \* no entry yet, no call made yet

ASSUME CacheAssumption ==
  /\ ProcOf \in [Call -> Proc]
  /\ TTL \in Nat \ {0}
  /\ Nothing \notin [value : Value, fetched_at : Nat]

VARIABLES
  now,         \* time.monotonic(), in units of which TTL are a lifetime
  truth,       \* what the database has for each key
  lastTrue,    \* when each value was last what the database had (0: never)
  cache,       \* _cache of each process
  stage,       \* where each call is
  key, begun,  \* its argument, and its local variable now
  got          \* what find_one gave it, and what it returns

databaseVars == <<now, truth, lastTrue>>
callVars     == <<stage, key, begun, got>>
cacheVars    == <<databaseVars, cache, callVars>>

Entry == [value : Value, fetched_at : Nat]
Stage == {"idle", "reading", "storing", "returned", "raised"}

CacheTypeOK ==
  /\ now \in Nat
  /\ truth \in [Key -> Value]
  /\ lastTrue \in [Key -> [Value -> Nat]]
  /\ cache \in [Proc -> [Key -> Entry \cup {Nothing}]]
  /\ stage \in [Call -> Stage]
  /\ key \in [Call -> Key \cup {Nothing}]
  /\ begun \in [Call -> Nat]
  /\ got \in [Call -> Value \cup {Nothing}]

\* Time starts at TTL, so that "never" is longer ago than a lifetime.
CacheInit ==
  /\ now = TTL
  /\ truth \in [Key -> Value]
  /\ lastTrue = [k \in Key |-> [v \in Value |-> IF v = truth[k] THEN TTL ELSE 0]]
  /\ cache = [p \in Proc |-> [k \in Key |-> Nothing]]
  /\ stage = [c \in Call |-> "idle"]
  /\ key = [c \in Call |-> Nothing]
  /\ begun = [c \in Call |-> TTL]
  /\ got = [c \in Call |-> Nothing]

-----------------------------------------------------------------------------
Fresh(e, t) == e # Nothing /\ t - e.fetched_at < TTL

\* Slip: one slot for the whole process, whatever the key (the "original bug").
LookupGlobalSlot(c, k) ==
  /\ stage[c] \in {"idle", "returned", "raised"}
  /\ key' = [key EXCEPT ![c] = k]
  /\ begun' = [begun EXCEPT ![c] = now]
  /\ \/ \E j \in Key :
          /\ Fresh(cache[ProcOf[c]][j], now)
          /\ got' = [got EXCEPT ![c] = cache[ProcOf[c]][j].value]
          /\ stage' = [stage EXCEPT ![c] = "returned"]
     \/ /\ \A j \in Key : ~ Fresh(cache[ProcOf[c]][j], now)
        /\ stage' = [stage EXCEPT ![c] = "reading"]
        /\ UNCHANGED got
  /\ UNCHANGED <<databaseVars, cache>>

\* The call up to its await: a hit is answered at once.
Lookup(c, k) ==
  LET e == cache[ProcOf[c]][k] IN
  /\ stage[c] \in {"idle", "returned", "raised"}
  /\ key' = [key EXCEPT ![c] = k]
  /\ begun' = [begun EXCEPT ![c] = now]
  /\ \/ /\ Fresh(e, now)
        /\ got' = [got EXCEPT ![c] = e.value]
        /\ stage' = [stage EXCEPT ![c] = "returned"]
     \/ /\ ~ Fresh(e, now)
        /\ stage' = [stage EXCEPT ![c] = "reading"]
        /\ UNCHANGED got
  /\ UNCHANGED <<databaseVars, cache>>

\* The database answers find_one.
Read(c) ==
  /\ stage[c] = "reading"
  /\ got' = [got EXCEPT ![c] = truth[key[c]]]
  /\ stage' = [stage EXCEPT ![c] = "storing"]
  /\ UNCHANGED <<databaseVars, cache, key, begun>>

\* find_one raises: the client is closed and nothing is cached.
ReadRaises(c) ==
  /\ stage[c] = "reading"
  /\ stage' = [stage EXCEPT ![c] = "raised"]
  /\ UNCHANGED <<databaseVars, cache, key, begun, got>>

\* Slip: the entry is stamped with the time it is stored at.
StoreStampedLate(c) ==
  /\ stage[c] = "storing"
  /\ cache' = [cache EXCEPT ![ProcOf[c]][key[c]] = [value |-> got[c], fetched_at |-> now]]
  /\ stage' = [stage EXCEPT ![c] = "returned"]
  /\ UNCHANGED <<databaseVars, key, begun, got>>

\* The coroutine runs on: whoever stores last wins, newer entry or not.
Store(c) ==
  /\ stage[c] = "storing"
  /\ cache' = [cache EXCEPT ![ProcOf[c]][key[c]] =
                 [value |-> got[c], fetched_at |-> begun[c]]]
  /\ stage' = [stage EXCEPT ![c] = "returned"]
  /\ UNCHANGED <<databaseVars, key, begun, got>>

-----------------------------------------------------------------------------
\* The owner of the data (uri-social-backend) changes it; this service never does.
Change(k, v) ==
  /\ v # truth[k]
  /\ truth' = [truth EXCEPT ![k] = v]
  /\ lastTrue' = [lastTrue EXCEPT ![k][v] = now]
  /\ UNCHANGED <<now, cache, callVars>>

Tick ==
  /\ now' = now + 1
  /\ lastTrue' = [k \in Key |-> [lastTrue[k] EXCEPT ![truth[k]] = now + 1]]
  /\ UNCHANGED <<truth, cache, callVars>>

CallStep(c) == (\E k \in Key : Lookup(c, k)) \/ Read(c) \/ ReadRaises(c) \/ Store(c)

CacheNext == (\E c \in Call : CallStep(c)) \/ Tick \/ \E k \in Key, v \in Value : Change(k, v)

CacheSpec == CacheInit /\ [][CacheNext]_cacheVars

-----------------------------------------------------------------------------
\* "Cached briefly since this data changes rarely" (brand_facts_reader.py): what
\* a call returns was in the database at some moment less than a lifetime before
\* the call began, whichever call filled the entry and however slow it was.
StalenessBounded ==
  \A c \in Call :
    stage[c] = "returned" => begun[c] < lastTrue[key[c]][got[c]] + TTL

===============================================================================
