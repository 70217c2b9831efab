------------------------- MODULE ReadThroughCacheProofs ------------------------
(***************************************************************************)
(* StalenessBounded, for any number of processes, of concurrent calls in   *)
(* each of them, of keys and values, and for every lifetime.               *)
(*                                                                         *)
(* The argument: a value was read after the call that read it had taken    *)
(* its stamp, so it was still true at that stamp (lastTrue only grows).    *)
(* That holds for the answer a call waits with (Pending) and hence for     *)
(* every entry, by whichever call and however late it was stored           *)
(* (Entries); a hit adds less than a lifetime.                             *)
(***************************************************************************)
EXTENDS ReadThroughCache, TLAPS

USE CacheAssumption DEF Entry

\* A call that is under way has a key, and one that was answered a value.
Arguments ==
  \A c \in Call :
    /\ stage[c] \in {"reading", "storing", "returned"} => key[c] \in Key
    /\ stage[c] \in {"storing", "returned"} => got[c] \in Value

Clock ==
  /\ \A k \in Key : lastTrue[k][truth[k]] = now
  /\ \A k \in Key, v \in Value : lastTrue[k][v] <= now
  /\ \A c \in Call : begun[c] <= now

Entries ==
  \A p \in Proc, k \in Key :
    cache[p][k] # Nothing => cache[p][k].fetched_at <= lastTrue[k][cache[p][k].value]

Pending ==
  \A c \in Call : stage[c] = "storing" => begun[c] <= lastTrue[key[c]][got[c]]

CacheInv == CacheTypeOK /\ Arguments /\ Clock /\ Entries /\ Pending /\ StalenessBounded

-----------------------------------------------------------------------------
\* Initially there are no entries and no calls.
LEMMA CacheInitInv == CacheInit => CacheInv
  BY SMT DEF CacheInit, CacheInv, CacheTypeOK, Arguments, Clock, Entries, Pending,
             StalenessBounded, Stage

\* A change of the database or of the time takes nothing from the past.
LEMMA PastIsKept ==
  ASSUME CacheInv,
         Tick \/ \E k \in Key, v \in Value : Change(k, v)
  PROVE  /\ lastTrue' \in [Key -> [Value -> Nat]]
         /\ \A k \in Key, v \in Value : lastTrue[k][v] <= lastTrue'[k][v]
         /\ Clock'
  <1>1. CASE Tick
    BY <1>1, SMT DEF CacheInv, CacheTypeOK, Clock, Tick, callVars
  <1>2. ASSUME NEW k \in Key, NEW v \in Value, Change(k, v)
        PROVE  /\ lastTrue' \in [Key -> [Value -> Nat]]
               /\ \A j \in Key, w \in Value : lastTrue[j][w] <= lastTrue'[j][w]
               /\ Clock'
    BY <1>2, SMT DEF CacheInv, CacheTypeOK, Clock, Change, callVars
  <1>3. QED
    BY <1>1, <1>2

\* Every step keeps the invariant.
LEMMA CacheNextInv == CacheInv /\ [CacheNext]_cacheVars => CacheInv'
  <1> SUFFICES ASSUME CacheInv, [CacheNext]_cacheVars PROVE CacheInv'
    OBVIOUS
  <1> USE DEF CacheInv
  <1>1. ASSUME NEW c \in Call, NEW k \in Key, Lookup(c, k) PROVE CacheInv'
    <2>1. /\ UNCHANGED <<now, truth, lastTrue, cache>>
          /\ key' = [key EXCEPT ![c] = k]
          /\ begun' = [begun EXCEPT ![c] = now]
      BY <1>1 DEF Lookup, databaseVars
    <2>2. CASE Fresh(cache[ProcOf[c]][k], now)
      <3> DEFINE e == cache[ProcOf[c]][k]
      <3>1. /\ got' = [got EXCEPT ![c] = e.value]
            /\ stage' = [stage EXCEPT ![c] = "returned"]
        BY <1>1, <2>2 DEF Lookup
      <3>2. e \in Entry /\ now - e.fetched_at < TTL
        BY <2>2 DEF Fresh, CacheTypeOK
      <3>3. e.fetched_at <= lastTrue[k][e.value]
        BY <3>2 DEF Entries
      <3>4. now < lastTrue[k][e.value] + TTL
        BY <3>2, <3>3 DEF CacheTypeOK
      <3> HIDE DEF e
      <3>5. CacheTypeOK' /\ Arguments'
        BY <2>1, <3>1, <3>2 DEF CacheTypeOK, Arguments, Stage
      <3>6. Clock' /\ Entries' /\ Pending'
        BY <2>1, <3>1 DEF CacheTypeOK, Clock, Entries, Pending
      <3>7. StalenessBounded'
        BY <2>1, <3>1, <3>4 DEF CacheTypeOK, StalenessBounded
      <3>8. QED
        BY <3>5, <3>6, <3>7
    <2>3. CASE ~ Fresh(cache[ProcOf[c]][k], now)
      <3>1. UNCHANGED got /\ stage' = [stage EXCEPT ![c] = "reading"]
        BY <1>1, <2>3 DEF Lookup
      <3>2. QED
        BY <2>1, <3>1 DEF CacheTypeOK, Arguments, Stage, Clock, Entries, Pending, StalenessBounded
    <2>4. QED
      BY <2>2, <2>3
  <1>2. ASSUME NEW c \in Call, Read(c) PROVE CacheInv'
    <2>1. /\ UNCHANGED <<now, truth, lastTrue, cache, key, begun>>
          /\ got' = [got EXCEPT ![c] = truth[key[c]]]
          /\ stage' = [stage EXCEPT ![c] = "storing"]
          /\ key[c] \in Key
      BY <1>2 DEF Read, databaseVars, Arguments
    <2>2. begun[c] <= lastTrue[key[c]][truth[key[c]]]
      BY <2>1 DEF Clock
    <2>3. CacheTypeOK' /\ Arguments'
      BY <2>1 DEF CacheTypeOK, Arguments, Stage
    <2>4. Clock' /\ Entries' /\ Pending'
      BY <2>1, <2>2 DEF CacheTypeOK, Clock, Entries, Pending
    <2>5. StalenessBounded'
      BY <2>1 DEF CacheTypeOK, StalenessBounded
    <2>6. QED
      BY <2>3, <2>4, <2>5
  <1>3. ASSUME NEW c \in Call, ReadRaises(c) PROVE CacheInv'
    BY <1>3 DEF ReadRaises, databaseVars, CacheTypeOK, Arguments, Stage, Clock, Entries,
                Pending, StalenessBounded
  <1>4. ASSUME NEW c \in Call, Store(c) PROVE CacheInv'
    <2> DEFINE e == [value |-> got[c], fetched_at |-> begun[c]]
    <2>1. /\ UNCHANGED <<now, truth, lastTrue, key, begun, got>>
          /\ cache' = [cache EXCEPT ![ProcOf[c]][key[c]] = e]
          /\ stage' = [stage EXCEPT ![c] = "returned"]
          /\ stage[c] = "storing"
      BY <1>4 DEF Store, databaseVars
    <2>2. key[c] \in Key /\ e \in Entry /\ begun[c] <= lastTrue[key[c]][got[c]]
      BY <2>1 DEF CacheTypeOK, Arguments, Pending
    <2>3. CacheTypeOK' /\ Arguments'
      BY <2>1, <2>2 DEF CacheTypeOK, Arguments, Stage
    <2>4. Clock' /\ Pending'
      BY <2>1 DEF CacheTypeOK, Clock, Pending
    <2>5. Entries'
      BY <2>1, <2>2 DEF CacheTypeOK, Entries
    <2>6. StalenessBounded'
      BY <2>1, <2>2 DEF CacheTypeOK, StalenessBounded
    <2>7. QED
      BY <2>3, <2>4, <2>5, <2>6
  <1>5. ASSUME Tick \/ \E k \in Key, v \in Value : Change(k, v) PROVE CacheInv'
    <2>1. UNCHANGED <<cache, callVars>>
      BY <1>5 DEF Tick, Change
    <2>2. now' \in Nat /\ truth' \in [Key -> Value]
      <3>1. CASE Tick
        BY <3>1 DEF Tick, CacheTypeOK
      <3>2. ASSUME NEW k \in Key, NEW v \in Value, Change(k, v)
            PROVE  now' \in Nat /\ truth' \in [Key -> Value]
        BY <3>2 DEF Change, CacheTypeOK
      <3>3. QED
        BY <1>5, <3>1, <3>2
    <2>3. /\ lastTrue' \in [Key -> [Value -> Nat]]
          /\ \A k \in Key, v \in Value : lastTrue[k][v] <= lastTrue'[k][v]
          /\ Clock'
      BY <1>5, PastIsKept
    <2>4. CacheTypeOK' /\ Arguments'
      BY <2>1, <2>2, <2>3 DEF CacheTypeOK, Arguments, callVars
    <2>5. Entries'
      BY <2>1, <2>3 DEF CacheTypeOK, Entries
    <2>6. Pending'
      BY <2>1, <2>3 DEF CacheTypeOK, Arguments, Pending, callVars
    <2>7. StalenessBounded'
      BY <2>1, <2>3 DEF CacheTypeOK, Arguments, StalenessBounded, callVars
    <2>8. QED
      BY <2>3, <2>4, <2>5, <2>6, <2>7
  <1>6. ASSUME UNCHANGED cacheVars PROVE CacheInv'
    BY <1>6 DEF cacheVars, databaseVars, callVars, CacheTypeOK, Arguments, Clock, Entries,
                Pending, StalenessBounded
  <1>7. QED
    BY <1>1, <1>2, <1>3, <1>4, <1>5, <1>6 DEF CacheNext, CallStep

-----------------------------------------------------------------------------
\* What a call returns was in the database less than a lifetime before the call
\* began, for any number of calls that run concurrently in one process, miss
\* together, and store in any order.
THEOREM StaleForLessThanTTL == CacheSpec => []StalenessBounded
  <1>1. CacheInit => CacheInv
    BY CacheInitInv
  <1>2. CacheInv /\ [CacheNext]_cacheVars => CacheInv'
    BY CacheNextInv
  <1>3. CacheInv => StalenessBounded
    BY DEF CacheInv
  <1>4. QED
    BY <1>1, <1>2, <1>3, PTL DEF CacheSpec

===============================================================================
