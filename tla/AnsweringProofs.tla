----------------------------- MODULE AnsweringProofs -----------------------------
(***************************************************************************)
(* Whose facts a question is answered from, for any number of processes,   *)
(* numbers, brands and questions, any facts, and every cache lifetime.     *)
(*                                                                         *)
(* The argument: a lookup returns a version of the document it asked for   *)
(* (Legality), recent enough by the invariant of the cache                 *)
(* (ReadThroughCacheProofs).  What a task has drawn from its lookups is    *)
(* kept in Control; it stays true because the past does not change.        *)
(***************************************************************************)
EXTENDS Answering, ReadThroughCacheProofs, NaturalsInduction, WellFoundedInduction,
  SequenceTheorems, TLAPS

-----------------------------------------------------------------------------
(***************************************************************************)
(* The match.                                                              *)
(***************************************************************************)
\* Min does what its name says, on any set of natural numbers.
LEMMA LeastNumber ==
  ASSUME NEW S \in SUBSET Nat, S # {}
  PROVE  Min(S) \in S /\ \A y \in S : Min(S) <= y
<1>. DEFINE Less == {p \in Nat \X Nat : p[1] < p[2]}
<1>1. IsWellFoundedOn(Less, Nat)
  <2>1. OpToRel(<, Nat) = Less
    BY Zenon DEF OpToRel
  <2>. QED  BY Zenon, <2>1, NatLessThanWellFounded
<1>2. PICK x \in S : \A y \in S : ~ (<<y, x>> \in Less)
  <2>. HIDE DEF Less
  <2>. QED  BY <1>1, WFMin
<1>3. ASSUME NEW y \in S PROVE x <= y
  <2>1. <<y, x>> \in Nat \X Nat /\ <<y, x>>[1] = y /\ <<y, x>>[2] = x
    OBVIOUS
  <2>2. ~ (y < x)
    BY <1>2, <2>1
  <2>. QED  BY <2>2
<1>. QED  BY <1>3 DEF Min

\* The entries of the n-th topic that match a question.
HitsOf(question, facts, n) ==
  {i \in DOMAIN facts[Topics[n]] : Matches(Topics[n], facts[Topics[n]][i], question)}

\* What FindMatch returns: nothing when no entry matches, otherwise the first
\* entry that does, in the first topic that has one.
IsFirstMatch(question, facts, m) ==
  \/ m = NoMatch /\ \A n \in DOMAIN Topics : HitsOf(question, facts, n) = {}
  \/ \E n \in DOMAIN Topics :
       /\ m.topic = Topics[n]
       /\ m.index \in HitsOf(question, facts, n)
       /\ \A i \in HitsOf(question, facts, n) : m.index <= i
       /\ \A k \in DOMAIN Topics : k < n => HitsOf(question, facts, k) = {}

LEMMA FirstMatch ==
  ASSUME NEW question, NEW facts,
         \A topic \in ToSet(Topics) : DOMAIN facts[topic] \subseteq Nat
  PROVE  IsFirstMatch(question, facts, FindMatch(question, facts))
<1>. DEFINE Hits(n) == HitsOf(question, facts, n)
            matched == {n \in DOMAIN Topics : Hits(n) # {}}
<1>1. FindMatch(question, facts) =
        IF matched = {} THEN NoMatch
        ELSE [topic |-> Topics[Min(matched)], index |-> Min(Hits(Min(matched)))]
  BY DEF FindMatch, HitsOf
<1>2. CASE matched = {}
  BY <1>1, <1>2 DEF IsFirstMatch
<1>3. CASE matched # {}
  <2>1. DOMAIN Topics \subseteq Nat
    BY DEF Topics
  <2>2. matched \in SUBSET Nat
    BY <2>1
  <2>3. Min(matched) \in matched /\ \A n \in matched : Min(matched) <= n
    <3>. HIDE DEF matched
    <3>. QED  BY <1>3, <2>2, LeastNumber
  <2>4. PICK n \in DOMAIN Topics : n = Min(matched) /\ Hits(n) # {}
    BY <2>3
  <2>5. ASSUME NEW k \in DOMAIN Topics, k < n PROVE Hits(k) = {}
    <3>1. k \in matched => n <= k
      BY <2>3, <2>4
    <3>2. k \notin matched
      <4>. HIDE DEF matched
      <4>. QED  BY <2>1, <2>5, <3>1
    <3>. QED  BY <3>2
  <2>6. Hits(n) \in SUBSET Nat
    <3>1. Topics[n] \in ToSet(Topics)
      BY DEF ToSet
    <3>2. DOMAIN facts[Topics[n]] \subseteq Nat
      BY <3>1
    <3>. QED  BY <3>2 DEF HitsOf
  <2>7. Min(Hits(n)) \in Hits(n) /\ \A i \in Hits(n) : Min(Hits(n)) <= i
    <3>. HIDE DEF Hits
    <3>. QED  BY <2>4, <2>6, LeastNumber
  <2>8. FindMatch(question, facts) = [topic |-> Topics[n], index |-> Min(Hits(n))]
    BY <1>1, <1>3, <2>4
  <2>. HIDE DEF matched
  <2>. QED  BY <2>5, <2>7, <2>8 DEF IsFirstMatch
<1>. QED  BY <1>2, <1>3

LEMMA MatchTopic ==
  ASSUME NEW question, NEW facts,
         \A topic \in ToSet(Topics) : DOMAIN facts[topic] \subseteq Nat
  PROVE  FindMatch(question, facts).topic \in ToSet(Topics) \cup {"none"}
BY FirstMatch DEF IsFirstMatch, NoMatch, ToSet

-----------------------------------------------------------------------------
(***************************************************************************)
(* Texts.                                                                  *)
(***************************************************************************)
Text == Seq(STRING)

\* A segment of a text is the text of its pieces.
LEMMA Segment ==
  ASSUME NEW t \in Text, NEW f \in 0..Len(t), NEW g \in f..Len(t)
  PROVE  /\ SubSeq(t, f + 1, g) \in Text
         /\ Len(SubSeq(t, f + 1, g)) = g - f
         /\ \A x \in 1..(g - f) : SubSeq(t, f + 1, g)[x] = t[f + x]
<1>1. \A x \in (f + 1)..g : t[x] \in STRING
  BY DEF Text
<1>2. /\ SubSeq(t, f + 1, g) \in Seq(STRING)
      /\ Len(SubSeq(t, f + 1, g)) = IF f + 1 <= g THEN g - (f + 1) + 1 ELSE 0
      /\ \A x \in 1..(g - (f + 1) + 1) : SubSeq(t, f + 1, g)[x] = t[f + 1 + x - 1]
  BY <1>1, SubSeqProperties
<1>. QED  BY <1>2 DEF Text

\* What occurs somewhere in a text is the segment found there.
LEMMA OccurrenceIsSegment ==
  ASSUME NEW s \in Text, NEW t \in Text, NEW k \in 0..(Len(t) - Len(s)), OccursAt(s, t, k)
  PROVE  s = SubSeq(t, k + 1, k + Len(s))
<1>. DEFINE r == SubSeq(t, k + 1, k + Len(s))
<1>1. k \in 0..Len(t) /\ k + Len(s) \in k..Len(t) /\ Len(s) \in Nat
  BY DEF Text
<1>2. r \in Text /\ Len(r) = Len(s) /\ \A x \in 1..Len(s) : r[x] = t[k + x]
  BY <1>1, Segment
<1>3. \A x \in 1..Len(s) : s[x] = t[k + x]
  BY DEF OccursAt, Text
<1>. HIDE DEF r
<1>4. s = r
  BY <1>2, <1>3 DEF Text
<1>. QED  BY <1>4 DEF r

LEMMA InIsTransitive ==
  ASSUME NEW r \in Text, NEW s \in Text, NEW t \in Text, In(r, s), In(s, t)
  PROVE  In(r, t)
<1>1. PICK a \in 0..(Len(s) - Len(r)) : OccursAt(r, s, a)
  BY DEF In
<1>2. PICK b \in 0..(Len(t) - Len(s)) : OccursAt(s, t, b)
  BY DEF In
<1>3. Len(r) \in Nat /\ Len(s) \in Nat /\ Len(t) \in Nat
  BY DEF Text
<1>4. b + a \in 0..(Len(t) - Len(r))
  BY <1>3
<1>5. ASSUME NEW x \in DOMAIN r PROVE t[(b + a) + x] = r[x]
  <2>1. x \in Nat /\ a + x \in DOMAIN s
    BY <1>3 DEF Text
  <2>2. s[a + x] = r[x] /\ t[b + (a + x)] = s[a + x]
    BY <1>1, <1>2, <2>1 DEF OccursAt
  <2>. QED  BY <2>1, <2>2
<1>. QED  BY <1>4, <1>5 DEF In, OccursAt

\* A word of a text is a text without spaces, and occurs in it.
LEMMA WordOfText ==
  ASSUME NEW t \in Text, NEW w \in Words(t)
  PROVE  /\ w \in Text /\ Len(w) \in Nat \ {0}
         /\ \A x \in 1..Len(w) : w[x] # Space
         /\ In(w, t)
         /\ \E k \in 0..(Len(t) - Len(w)) : StandsAt(w, t, k)
<1>1. /\ w # <<>> /\ Space \notin ToSet(w)
      /\ \E k \in 0..(Len(t) - Len(w)) : StandsAt(w, t, k)
  BY DEF Words
<1>2. PICK i \in 0..Len(t), j \in 0..Len(t) : w = SubSeq(t, i + 1, j)
  BY DEF Words, SubSeqs
<1>3. Len(t) \in Nat
  BY DEF Text
<1>4. i <= j
  <2>. SUFFICES ASSUME j < i PROVE FALSE
    BY <1>3
  <2>. QED  BY <1>1, <1>2, <1>3, SubSeqEmpty
<1>5. w \in Text
  BY <1>2, <1>3, <1>4, Segment
<1>6. Len(w) \in Nat \ {0} /\ \A x \in 1..Len(w) : w[x] \in ToSet(w)
  BY <1>1, <1>5 DEF Text, ToSet
<1>. QED  BY <1>1, <1>5, <1>6 DEF In, StandsAt

\* A word of a text is a word of every segment that it stands in.
LEMMA WordOfSegment ==
  ASSUME NEW t \in Text, NEW w \in Words(t),
         NEW k \in 0..(Len(t) - Len(w)), StandsAt(w, t, k),
         NEW f \in 0..Len(t), NEW g \in f..Len(t), f <= k, k + Len(w) <= g
  PROVE  w \in Words(SubSeq(t, f + 1, g))
<1>. DEFINE s == SubSeq(t, f + 1, g)
<1>1. w \in Text /\ Len(w) \in Nat \ {0} /\ w # <<>> /\ Space \notin ToSet(w)
  BY WordOfText DEF Words
<1>2. s \in Text /\ Len(s) = g - f /\ \A x \in 1..(g - f) : s[x] = t[f + x]
  BY Segment
<1>3. Len(t) \in Nat
  BY DEF Text
<1>4. DOMAIN w = 1..Len(w)
  BY <1>1 DEF Text
<1>5. k - f \in 0..(Len(s) - Len(w))
  BY <1>1, <1>2, <1>3
<1>. HIDE DEF s
<1>6. StandsAt(w, s, k - f)
  <2>1. ASSUME NEW x \in DOMAIN w PROVE s[(k - f) + x] = w[x]
    <3>1. (k - f) + x \in 1..(g - f) /\ f + ((k - f) + x) = k + x
      BY <1>1, <1>3, <1>4
    <3>2. t[k + x] = w[x]
      BY DEF StandsAt, OccursAt
    <3>. QED  BY <1>2, <3>1, <3>2
  <2>2. k - f = 0 \/ s[k - f] = Space
    <3>1. CASE k = f
      BY <3>1, <1>3
    <3>2. CASE k # f
      <4>1. k - f \in 1..(g - f) /\ f + (k - f) = k /\ k # 0
        BY <3>2, <1>1, <1>3
      <4>2. s[k - f] = t[k] /\ t[k] = Space
        BY <1>2, <4>1 DEF StandsAt
      <4>. QED  BY <4>2
    <3>. QED  BY <3>1, <3>2
  <2>3. (k - f) + Len(w) = Len(s) \/ s[(k - f) + Len(w) + 1] = Space
    <3>1. CASE k + Len(w) = g
      BY <3>1, <1>1, <1>2, <1>3
    <3>2. CASE k + Len(w) # g
      <4>1. /\ (k - f) + Len(w) + 1 \in 1..(g - f)
            /\ f + ((k - f) + Len(w) + 1) = k + Len(w) + 1 /\ k + Len(w) # Len(t)
        BY <3>2, <1>1, <1>3
      <4>2. s[(k - f) + Len(w) + 1] = t[k + Len(w) + 1] /\ t[k + Len(w) + 1] = Space
        BY <1>2, <4>1 DEF StandsAt
      <4>. QED  BY <4>2
    <3>. QED  BY <3>1, <3>2
  <2>. QED  BY <2>1, <2>2, <2>3 DEF StandsAt, OccursAt
<1>7. w = SubSeq(s, (k - f) + 1, (k - f) + Len(w))
  BY <1>1, <1>2, <1>5, <1>6, OccurrenceIsSegment DEF StandsAt
<1>8. w \in SubSeqs(s)
  <2>1. k - f \in 0..Len(s) /\ (k - f) + Len(w) \in 0..Len(s)
    BY <1>1, <1>2, <1>3, <1>5
  <2>2. \E i, j \in 0..Len(s) : w = SubSeq(s, i + 1, j)
    BY <1>7, <2>1
  <2>. QED  BY <2>2 DEF SubSeqs
<1>9. w \in Words(s)
  BY <1>1, <1>5, <1>6, <1>8 DEF Words
<1>. QED  BY <1>9 DEF s

\* A word of a question in which a name stands is one of the name's words, or
\* one of those before or after it: it has no space to lie across.
LEMMA WordInOrAround ==
  ASSUME NEW q \in Text, NEW name \in Text, NEW k \in 0..(Len(q) - Len(name)),
         StandsAt(name, q, k), NEW w \in Words(q)
  PROVE  \/ w \in Words(name)
         \/ w \in Words(SubSeq(q, 1, k))
         \/ w \in Words(SubSeq(q, k + Len(name) + 1, Len(q)))
<1>. DEFINE n == Len(name)
<1>1. /\ w \in Text /\ Len(w) \in Nat \ {0} /\ \A x \in 1..Len(w) : w[x] # Space
  BY WordOfText
<1>2. PICK a \in 0..(Len(q) - Len(w)) : StandsAt(w, q, a)
  BY WordOfText
<1>3. Len(q) \in Nat /\ n \in Nat
  BY DEF Text
<1>4. \A x \in 1..Len(w) : q[a + x] # Space
  BY <1>1, <1>2 DEF StandsAt, OccursAt, Text
<1>5. CASE a + Len(w) <= k
  <2>1. w \in Words(SubSeq(q, 0 + 1, k))
    BY <1>1, <1>2, <1>3, <1>5, WordOfSegment
  <2>. QED  BY <2>1
<1>6. CASE k + n <= a
  <2>1. w \in Words(SubSeq(q, (k + n) + 1, Len(q)))
    BY <1>1, <1>2, <1>3, <1>6, WordOfSegment
  <2>. QED  BY <2>1
<1>7. CASE k < a + Len(w) /\ a < k + n
  <2>1. k <= a
    <3>. SUFFICES ASSUME a < k PROVE FALSE
      BY <1>3
    <3>1. k - a \in 1..Len(w) /\ a + (k - a) = k /\ k # 0
      BY <1>1, <1>3, <1>7
    <3>. QED  BY <1>4, <3>1 DEF StandsAt
  <2>2. a + Len(w) <= k + n
    <3>. SUFFICES ASSUME k + n < a + Len(w) PROVE FALSE
      BY <1>1, <1>3
    <3>1. /\ k + n + 1 - a \in 1..Len(w) /\ a + (k + n + 1 - a) = k + n + 1
          /\ k + n # Len(q)
      BY <1>1, <1>3, <1>7
    <3>2. q[k + n + 1] = Space
      BY <3>1 DEF StandsAt
    <3>. QED  BY <1>4, <3>1, <3>2
  <2>3. k \in 0..Len(q) /\ k + n \in k..Len(q)
    BY <1>3
  <2>4. w \in Words(SubSeq(q, k + 1, k + n))
    BY <1>2, <2>1, <2>2, <2>3, WordOfSegment
  <2>5. name = SubSeq(q, k + 1, k + n)
    BY OccurrenceIsSegment DEF StandsAt
  <2>. QED  BY <2>4, <2>5
<1>. QED  BY <1>1, <1>3, <1>5, <1>6, <1>7

\* An item that matches a question has every word that it goes by in it.
LEMMA MatchHasIdentity ==
  ASSUME NEW name \in Text, NEW q \in Text, CatalogueItemMatches(name, q),
         NEW w \in Identity(name)
  PROVE  In(w, q)
<1>1. w \in Words(name)
  BY DEF Identity, SignificantWords
<1>2. CASE In(name, q)
  BY <1>1, <1>2, WordOfText, InIsTransitive
<1>3. CASE \A v \in SignificantWords(name) : In(v, q)
  <2>1. CASE SignificantWords(name) # {}
    BY <1>3, <2>1 DEF Identity
  <2>2. CASE SignificantWords(name) = {}
    BY <1>2, <2>2 DEF CatalogueItemMatches
  <2>. QED  BY <2>1, <2>2
<1>. QED  BY <1>2, <1>3 DEF CatalogueItemMatches

\* The item a question is about matches it, and another one that does can be
\* confused with it.
LEMMA AboutOne ==
  ASSUME NEW q \in Text, NEW catalogue, NEW j \in DOMAIN catalogue,
         \A i \in DOMAIN catalogue : catalogue[i].name \in Text,
         IsAbout(q, catalogue, j)
  PROVE  /\ Matches("catalogue", catalogue[j], q)
         /\ \A i \in DOMAIN catalogue \ {j} :
              Matches("catalogue", catalogue[i], q) =>
                Confusable(catalogue[i].name, catalogue[j].name, q)
<1>. DEFINE name == catalogue[j].name
<1>1. PICK k \in 0..(Len(q) - Len(name)) :
        /\ StandsAt(name, q, k)
        /\ \A i \in DOMAIN catalogue \ {j} :
             catalogue[i].name # <<>> =>
               ~ Identity(catalogue[i].name) \subseteq
                   Words(SubSeq(q, 1, k)) \cup Words(SubSeq(q, k + Len(name) + 1, Len(q)))
  BY DEF IsAbout
<1>2. Matches("catalogue", catalogue[j], q)
  BY <1>1 DEF IsAbout, StandsAt, In, Matches, CatalogueItemMatches
<1>3. ASSUME NEW i \in DOMAIN catalogue \ {j}, Matches("catalogue", catalogue[i], q)
      PROVE  Confusable(catalogue[i].name, name, q)
  <2>1. catalogue[i].name # <<>> /\ CatalogueItemMatches(catalogue[i].name, q)
    BY <1>3 DEF Matches
  <2>2. PICK w \in Identity(catalogue[i].name) :
          /\ w \notin Words(SubSeq(q, 1, k))
          /\ w \notin Words(SubSeq(q, k + Len(name) + 1, Len(q)))
    BY <1>1, <2>1
  <2>3. In(w, q)
    BY <2>1, MatchHasIdentity
  <2>4. w \in Words(q) => w \in Words(name)
    BY <1>1, <2>2, WordInOrAround
  <2>. QED  BY <2>3, <2>4 DEF Confusable
<1>. QED  BY <1>2, <1>3

-----------------------------------------------------------------------------
(***************************************************************************)
(* The inductive invariant.                                                *)
(***************************************************************************)
\* The cache of a key holds versions of that key's document, and so does what
\* a lookup of it was given.
Legality ==
  /\ \A k \in Key : truth[k] \in Legal[k]
  /\ \A p \in Proc, k \in Key : cache[p][k] # Nothing => cache[p][k].value \in Legal[k]
  /\ \A c \in Call : stage[c] \in {"storing", "returned"} => got[c] \in Legal[key[c]]

\* t's brand is the one its number was connected to, or the fallback.
Routed(t) ==
  \/ \E v \in Lately(t) \ None : BrandOf[v] = brand[t]
  \/ number[t] = OwnNumber /\ brand[t] = OwnBrand /\ Lately(t) \cap None # {}

Unconnected(t) == number[t] # OwnNumber /\ Lately(t) \cap None # {}

\* t's answer is what facts of its brand, current within a lifetime of the
\* lookup, have to say on the question.
Answered(t) ==
  \E f \in Legal[brand[t]] :
    /\ begun[t] < lastTrue[brand[t]][f] + TTL
    /\ FindMatch(asked[t], FactsIn[f]) = match[t]
    /\ at[t] = "held" <=> match[t] = NoMatch

\* What a task knows at each step of its way.
KnownBy(t) ==
  /\ at[t] = "context" => key[t] = number[t] /\ begun[t] = received[t]
  /\ at[t] = "facts" => key[t] = brand[t]
  /\ at[t] \in {"facts", "answered", "held"} => brand[t] \in Brand
  /\ at[t] \in {"ready", "facts", "answered", "held"} => Routed(t)
  /\ at[t] = "dropped" => Unconnected(t)
  /\ at[t] \in {"answered", "held"} => Answered(t)

Control == \A t \in Task : KnownBy(t)

AnswerTypes ==
  /\ at \in [Task -> At]
  /\ number \in [Task -> Number]
  /\ received \in [Task -> Nat]
  /\ brand \in [Task -> Brand \cup {NoBrand}]
  /\ asked \in [Task -> Question \cup {<<>>}]
  /\ DOMAIN match = Task
  /\ \A t \in Task : match[t].topic \in ToSet(Topics) \cup {"none"}
  /\ writes \in 0..MaxWrites

AnswerInv == AnswerTypes /\ CacheInv /\ Legality /\ Control

LEMMA InvIsTyped == AnswerInv => TypeOK
BY DEF AnswerInv, AnswerTypes, CacheInv, Legality, TypeOK, Task

LEMMA AnswerInit == Init => AnswerInv
<1>. SUFFICES ASSUME Init PROVE AnswerInv
  OBVIOUS
<1>1. AnswerTypes
  BY AnsweringAssumption, CacheAssumption DEF Init, AnswerTypes, At, NoMatch
<1>2. CacheInv
  BY CacheInitInv DEF Init
<1>3. Legality
  BY CacheAssumption DEF Init, CacheInit, Legality
<1>4. Control
  BY DEF Init, Control, KnownBy
<1>. QED  BY <1>1, <1>2, <1>3, <1>4 DEF AnswerInv

-----------------------------------------------------------------------------
(***************************************************************************)
(* The cache's part of the steps.                                          *)
(***************************************************************************)
LEMMA CacheSteps ==
  ASSUME AnswerInv, [Next]_vars
  PROVE  CacheInv'
<1>1. [CacheNext]_cacheVars
  <2>1. ASSUME NEW t \in Task, NEW n \in Number, Receive(t, n) PROVE CacheNext
    <3>1. n \in Key
      BY AnsweringAssumption
    <3>. QED  BY <2>1, <3>1 DEF Receive, CacheNext, CallStep, Task
  <2>2. ASSUME NEW t \in Task, AwaitLookup(t) PROVE CacheNext
    BY <2>2 DEF AwaitLookup, CacheNext, CallStep, Task
  <2>3. ASSUME NEW t \in Task, Route(t) \/ Fail(t) \/ \E q \in Question : Answer(t, q)
        PROVE  UNCHANGED cacheVars
    BY <2>3 DEF Route, Fail, Answer
  <2>4. ASSUME NEW t \in Task, Handle(t) PROVE CacheNext \/ UNCHANGED cacheVars
    <3>1. brand[t] # NoBrand => brand[t] \in Key
      BY AnsweringAssumption DEF AnswerInv, AnswerTypes
    <3>. QED  BY <2>4, <3>1 DEF Handle, CacheNext, CallStep, Task
  <2>5. ASSUME NEW k \in Key, NEW v \in Legal[k], Write(k, v) PROVE CacheNext
    <3>1. v \in Value
      BY AnsweringAssumption
    <3>. QED  BY <2>5, <3>1 DEF Write, CacheNext
  <2>6. CASE TimePasses
    BY <2>6 DEF TimePasses, CacheNext
  <2>7. CASE UNCHANGED vars
    BY <2>7 DEF vars
  <2>. QED
    BY <2>1, <2>2, <2>3, <2>4, <2>5, <2>6, <2>7 DEF Next
<1>. QED  BY <1>1, CacheNextInv DEF AnswerInv

\* A lookup starts: a hit returns the entry of the key it was asked for.
LEMMA LookupLegal ==
  ASSUME AnswerInv, NEW t \in Task, NEW k \in Key, Lookup(t, k)
  PROVE  /\ Legality'
         /\ key' = [key EXCEPT ![t] = k] /\ begun' = [begun EXCEPT ![t] = now]
         /\ UNCHANGED databaseVars
<1>1. /\ key' = [key EXCEPT ![t] = k] /\ begun' = [begun EXCEPT ![t] = now]
      /\ UNCHANGED <<databaseVars, cache>>
  BY DEF Lookup
<1>2. /\ \A c \in Call : c # t => stage'[c] = stage[c] /\ got'[c] = got[c] /\ key'[c] = key[c]
      /\ key'[t] = k
  BY <1>1 DEF Lookup, AnswerInv, CacheInv, CacheTypeOK, Task
<1>3. stage'[t] \in {"storing", "returned"} => got'[t] \in Legal[k]
  <2>1. CASE Fresh(cache[ProcOf[t]][k], now)
    <3>1. ProcOf[t] \in Proc /\ cache[ProcOf[t]][k] # Nothing
      BY <2>1, CacheAssumption DEF Fresh, Task
    <3>2. got'[t] = cache[ProcOf[t]][k].value
      BY <2>1 DEF Lookup, AnswerInv, CacheInv, CacheTypeOK, Task
    <3>. QED  BY <3>1, <3>2 DEF AnswerInv, Legality
  <2>2. CASE ~ Fresh(cache[ProcOf[t]][k], now)
    BY <2>2 DEF Lookup, AnswerInv, CacheInv, CacheTypeOK, Task
  <2>. QED  BY <2>1, <2>2
<1>4. Legality'
  BY <1>1, <1>2, <1>3 DEF AnswerInv, Legality, databaseVars
<1>. QED  BY <1>1, <1>4

\* A lookup goes on: what the database has is read, or what was read is stored.
LEMMA AwaitLegal ==
  ASSUME AnswerInv, NEW t \in Task, Read(t) \/ ReadRaises(t) \/ Store(t)
  PROVE  Legality' /\ UNCHANGED <<key, begun, databaseVars>>
<1>a. CacheTypeOK /\ Arguments /\ Legality
  BY DEF AnswerInv, CacheInv
<1>1. CASE Read(t)
  <2>1. key[t] \in Key
    BY <1>1, <1>a DEF Read, Arguments, Task
  <2>. QED
    BY <1>1, <1>a, <2>1 DEF Read, CacheTypeOK, Legality, databaseVars, Task
<1>2. CASE ReadRaises(t)
  BY <1>2, <1>a DEF ReadRaises, CacheTypeOK, Legality, databaseVars, Task
<1>3. CASE Store(t)
  <2>1. key[t] \in Key /\ got[t] \in Legal[key[t]] /\ ProcOf[t] \in Proc
    BY <1>3, <1>a, CacheAssumption DEF Store, Arguments, Legality, Task
  <2>2. \A p \in Proc, k \in Key :
          cache'[p][k] = IF p = ProcOf[t] /\ k = key[t]
                           THEN [value |-> got[t], fetched_at |-> begun[t]] ELSE cache[p][k]
    BY <1>3, <1>a, <2>1 DEF Store, CacheTypeOK
  <2>3. \A c \in Call : stage'[c] \in {"storing", "returned"} =>
                          stage[c] \in {"storing", "returned"}
    BY <1>3, <1>a DEF Store, CacheTypeOK
  <2>. QED
    BY <1>3, <1>a, <2>1, <2>2, <2>3 DEF Store, Legality, databaseVars
<1>. QED  BY <1>1, <1>2, <1>3

\* Everything a task knows stays known while others work and time passes.
LEMMA KnownStays ==
  ASSUME AnswerInv, NEW t \in Task, KnownBy(t),
         at'[t] = at[t], number'[t] = number[t], received'[t] = received[t],
         brand'[t] = brand[t], asked'[t] = asked[t], match'[t] = match[t],
         key'[t] = key[t], begun'[t] = begun[t],
         lastTrue' \in [Key -> [Value -> Nat]],
         \A k \in Key, v \in Value : lastTrue[k][v] <= lastTrue'[k][v]
  PROVE  KnownBy(t)'
<1>1. /\ number[t] \in Key /\ (brand[t] \in Brand => brand[t] \in Key)
      /\ \A k \in Key : Legal[k] \subseteq Value
  BY AnsweringAssumption DEF AnswerInv, AnswerTypes
<1>2. /\ \A k \in Key, v \in Value : lastTrue[k][v] \in Nat /\ lastTrue'[k][v] \in Nat
      /\ received[t] \in Nat /\ begun[t] \in Nat /\ TTL \in Nat
  BY CacheAssumption DEF AnswerInv, AnswerTypes, CacheInv, CacheTypeOK, Task
<1>3. Lately(t) \subseteq Lately(t)'
  BY <1>1, <1>2 DEF Lately
<1>4. Routed(t) => Routed(t)'
  BY <1>3 DEF Routed
<1>5. Unconnected(t) => Unconnected(t)'
  BY <1>3 DEF Unconnected
<1>6. brand[t] \in Brand /\ Answered(t) => Answered(t)'
  <2>. SUFFICES ASSUME brand[t] \in Brand,
                       NEW f \in Legal[brand[t]],
                       begun[t] < lastTrue[brand[t]][f] + TTL,
                       FindMatch(asked[t], FactsIn[f]) = match[t],
                       at[t] = "held" <=> match[t] = NoMatch
                PROVE  Answered(t)'
    BY DEF Answered
  <2>1. begun[t] < lastTrue'[brand[t]][f] + TTL
    BY <1>1, <1>2
  <2>. QED  BY <2>1 DEF Answered
<1>. QED  BY <1>4, <1>5, <1>6 DEF KnownBy

\* The case in which the database stands still.
LEMMA OthersKnow ==
  ASSUME AnswerInv, UNCHANGED databaseVars, NEW t \in Task,
         at'[t] = at[t], number'[t] = number[t], received'[t] = received[t],
         brand'[t] = brand[t], asked'[t] = asked[t], match'[t] = match[t],
         key'[t] = key[t], begun'[t] = begun[t]
  PROVE  KnownBy(t)'
<1>1. \A k \in Key, v \in Value : lastTrue[k][v] <= lastTrue'[k][v]
  BY DEF databaseVars, AnswerInv, CacheInv, CacheTypeOK
<1>. QED
  BY <1>1, KnownStays DEF databaseVars, AnswerInv, CacheInv, CacheTypeOK, Control

-----------------------------------------------------------------------------
(***************************************************************************)
(* The steps of a task.                                                    *)
(***************************************************************************)
\* A step that only task t takes part in leaves the others what they know.
Mine(t) ==
  \A u \in Task : u # t =>
    /\ at'[u] = at[u] /\ number'[u] = number[u] /\ received'[u] = received[u]
    /\ brand'[u] = brand[u] /\ asked'[u] = asked[u] /\ match'[u] = match[u]
    /\ key'[u] = key[u] /\ begun'[u] = begun[u]

LEMMA ControlStep ==
  ASSUME AnswerInv, UNCHANGED databaseVars, NEW t \in Task, Mine(t), KnownBy(t)'
  PROVE  Control'
<1>. SUFFICES ASSUME NEW u \in Task PROVE KnownBy(u)'
  BY DEF Control
<1>1. CASE u = t
  BY <1>1
<1>2. CASE u # t
  BY <1>2, OthersKnow DEF Mine
<1>. QED  BY <1>1, <1>2

\* The routing of a question uses what the lookup of its number returned.
LEMMA RouteKnows ==
  ASSUME AnswerInv, NEW t \in Task, at[t] = "context", stage[t] = "returned"
  PROVE  got[t] \in Lately(t)
<1>1. key[t] = number[t] /\ begun[t] = received[t]
  BY DEF AnswerInv, Control, KnownBy
<1>2. begun[t] < lastTrue[key[t]][got[t]] + TTL
  BY DEF AnswerInv, CacheInv, StalenessBounded, Task
<1>3. got[t] \in Legal[key[t]]
  BY DEF AnswerInv, Legality, Task
<1>. QED  BY <1>1, <1>2, <1>3 DEF Lately

LEMMA ReceiveStep ==
  ASSUME AnswerInv, NEW t \in Task, NEW n \in Number, Receive(t, n)
  PROVE  AnswerTypes' /\ Legality' /\ Control'
<1>a. n \in Key
  BY AnsweringAssumption
<1>b. AnswerTypes /\ CacheTypeOK
  BY DEF AnswerInv, CacheInv
<1>1. /\ Legality' /\ UNCHANGED databaseVars
      /\ key' = [key EXCEPT ![t] = n] /\ begun' = [begun EXCEPT ![t] = now]
  BY <1>a, LookupLegal DEF Receive
<1>2. AnswerTypes'
  <2>1. at' \in [Task -> At] /\ received' \in [Task -> Nat]
    BY <1>b DEF Receive, Move, AnswerTypes, At, CacheTypeOK
  <2>2. number' \in [Task -> Number] /\ brand' \in [Task -> Brand \cup {NoBrand}]
    BY <1>b DEF Receive, AnswerTypes
  <2>3. asked' \in [Task -> Question \cup {<<>>}]
    BY <1>b DEF Receive, AnswerTypes
  <2>4. /\ DOMAIN match' = Task
        /\ \A u \in Task : match'[u].topic \in ToSet(Topics) \cup {"none"}
    BY <1>b DEF Receive, AnswerTypes, NoMatch
  <2>. QED  BY <1>b, <2>1, <2>2, <2>3, <2>4 DEF Receive, AnswerTypes
<1>3. Mine(t)
  BY <1>1, <1>b DEF Receive, Move, AnswerTypes, CacheTypeOK, Mine, Task
<1>4. KnownBy(t)'
  <2>1. /\ at'[t] = "context" /\ number'[t] = n /\ received'[t] = now
        /\ key'[t] = n /\ begun'[t] = now
    BY <1>1, <1>b DEF Receive, Move, AnswerTypes, CacheTypeOK, Task
  <2>. QED  BY <2>1 DEF KnownBy
<1>. QED  BY <1>1, <1>2, <1>3, <1>4, ControlStep

LEMMA RouteStep ==
  ASSUME AnswerInv, NEW t \in Task, Route(t)
  PROVE  AnswerTypes' /\ Legality' /\ Control'
<1>b. AnswerTypes /\ CacheTypeOK
  BY DEF AnswerInv, CacheInv
<1>1. got[t] \in Lately(t) /\ got[t] \in Legal[number[t]]
  BY RouteKnows DEF Route, Lately
<1>2. UNCHANGED <<cacheVars, number, received, asked, match, writes>>
  BY DEF Route
<1>3. \/ /\ at' = [at EXCEPT ![t] = "ready"]
         /\ got[t] \notin None /\ brand' = [brand EXCEPT ![t] = BrandOf[got[t]]]
      \/ /\ at' = [at EXCEPT ![t] = "ready"]
         /\ got[t] \in None /\ number[t] = OwnNumber
         /\ brand' = [brand EXCEPT ![t] = OwnBrand]
      \/ /\ at' = [at EXCEPT ![t] = "dropped"]
         /\ got[t] \in None /\ number[t] # OwnNumber /\ brand' = brand
  BY DEF Route, Move
<1>4. AnswerTypes'
  <2>1. at' \in [Task -> At]
    BY <1>b, <1>3 DEF AnswerTypes, At
  <2>2. got[t] \notin None => BrandOf[got[t]] \in Brand \cup {NoBrand}
    BY <1>b, <1>1, AnsweringAssumption DEF AnswerTypes
  <2>3. /\ OwnBrand \in Brand \cup {NoBrand}
        /\ brand \in [Task -> Brand \cup {NoBrand}]
    BY <1>b, AnsweringAssumption DEF AnswerTypes
  <2>4. brand' \in [Task -> Brand \cup {NoBrand}]
    <3>1. \A b \in Brand \cup {NoBrand} :
             [brand EXCEPT ![t] = b] \in [Task -> Brand \cup {NoBrand}]
      BY <2>3
    <3>. QED  BY <1>3, <2>2, <2>3, <3>1
  <2>. QED  BY <1>b, <1>2, <2>1, <2>4 DEF AnswerTypes
<1>5. Legality'
  BY <1>2 DEF AnswerInv, Legality, cacheVars, databaseVars, callVars
<1>6. Mine(t)
  BY <1>b, <1>2, <1>3 DEF AnswerTypes, Mine, cacheVars, callVars
<1>7. KnownBy(t)'
  <2>1. Lately(t)' = Lately(t)
    BY <1>2 DEF Lately, cacheVars, databaseVars
  <2>2. CASE /\ at' = [at EXCEPT ![t] = "ready"]
             /\ got[t] \notin None /\ brand' = [brand EXCEPT ![t] = BrandOf[got[t]]]
    <3>1. at'[t] = "ready" /\ brand'[t] = BrandOf[got[t]]
      BY <1>b, <2>2 DEF AnswerTypes
    <3>2. Routed(t)'
      BY <1>1, <1>2, <2>1, <2>2, <3>1 DEF Routed
    <3>. QED  BY <3>1, <3>2 DEF KnownBy
  <2>3. CASE /\ at' = [at EXCEPT ![t] = "ready"]
             /\ got[t] \in None /\ number[t] = OwnNumber
             /\ brand' = [brand EXCEPT ![t] = OwnBrand]
    <3>1. at'[t] = "ready" /\ brand'[t] = OwnBrand
      BY <1>b, <2>3 DEF AnswerTypes
    <3>2. Routed(t)'
      BY <1>1, <1>2, <2>1, <2>3, <3>1 DEF Routed
    <3>. QED  BY <3>1, <3>2 DEF KnownBy
  <2>4. CASE /\ at' = [at EXCEPT ![t] = "dropped"]
             /\ got[t] \in None /\ number[t] # OwnNumber /\ brand' = brand
    <3>1. at'[t] = "dropped"
      BY <1>b, <2>4 DEF AnswerTypes
    <3>2. Unconnected(t)'
      BY <1>1, <1>2, <2>1, <2>4 DEF Unconnected
    <3>. QED  BY <3>1, <3>2 DEF KnownBy
  <2>. QED  BY <1>3, <2>2, <2>3, <2>4
<1>8. UNCHANGED databaseVars
  BY <1>2 DEF cacheVars
<1>. QED  BY <1>4, <1>5, <1>6, <1>7, <1>8, ControlStep

LEMMA HandleStep ==
  ASSUME AnswerInv, NEW t \in Task, Handle(t)
  PROVE  AnswerTypes' /\ Legality' /\ Control'
<1>b. AnswerTypes /\ CacheTypeOK
  BY DEF AnswerInv, CacheInv
<1>1. UNCHANGED <<number, received, brand, asked, match, writes>> /\ at[t] = "ready"
  BY DEF Handle
<1>2. at' = [at EXCEPT ![t] = "facts"] \/ at' = [at EXCEPT ![t] = "failed"]
  BY DEF Handle, Move
<1>3. AnswerTypes'
  <2>1. at' \in [Task -> At]
    BY <1>b, <1>2 DEF AnswerTypes, At
  <2>. QED  BY <1>b, <1>1, <2>1 DEF AnswerTypes
<1>4. CASE brand[t] # NoBrand /\ Move(t, "facts") /\ Lookup(t, brand[t])
  <2>1. brand[t] \in Brand /\ brand[t] \in Key
    BY <1>4, <1>b, AnsweringAssumption DEF AnswerTypes
  <2>2. /\ Legality' /\ UNCHANGED databaseVars
        /\ key' = [key EXCEPT ![t] = brand[t]] /\ begun' = [begun EXCEPT ![t] = now]
    BY <1>4, <2>1, LookupLegal
  <2>3. Mine(t) /\ at'[t] = "facts" /\ key'[t] = brand[t]
    BY <1>1, <1>4, <1>b, <2>2 DEF Move, AnswerTypes, CacheTypeOK, Mine, Task
  <2>4. Routed(t)'
    <3>1. Routed(t)
      BY <1>1 DEF AnswerInv, Control, KnownBy
    <3>. QED  BY <1>1, <2>2, <3>1 DEF Routed, Lately, databaseVars
  <2>5. KnownBy(t)'
    BY <1>1, <2>1, <2>3, <2>4 DEF KnownBy
  <2>. QED  BY <1>3, <2>2, <2>3, <2>5, ControlStep
<1>5. CASE brand[t] = NoBrand /\ Move(t, "failed") /\ UNCHANGED cacheVars
  <2>1. Mine(t) /\ at'[t] = "failed"
    BY <1>1, <1>5, <1>b DEF Move, AnswerTypes, Mine, cacheVars, callVars
  <2>2. KnownBy(t)'
    BY <2>1 DEF KnownBy
  <2>3. Legality' /\ UNCHANGED databaseVars
    BY <1>5 DEF AnswerInv, Legality, cacheVars, databaseVars, callVars
  <2>. QED  BY <1>3, <2>1, <2>2, <2>3, ControlStep
<1>. QED  BY <1>4, <1>5 DEF Handle

LEMMA AnswerStep ==
  ASSUME AnswerInv, NEW t \in Task, NEW q \in Question, Answer(t, q)
  PROVE  AnswerTypes' /\ Legality' /\ Control'
<1>. DEFINE m == FindMatch(q, FactsIn[got[t]])
<1>b. AnswerTypes /\ CacheTypeOK
  BY DEF AnswerInv, CacheInv
<1>1. /\ UNCHANGED <<cacheVars, number, received, brand, writes>>
      /\ at[t] = "facts" /\ stage[t] = "returned"
      /\ at' = [at EXCEPT ![t] = IF m = NoMatch THEN "held" ELSE "answered"]
      /\ asked' = [asked EXCEPT ![t] = q]
      /\ match' = [match EXCEPT ![t] = m]
  BY DEF Answer, Move
<1>2. brand[t] \in Brand /\ key[t] = brand[t] /\ Routed(t)
  BY <1>1 DEF AnswerInv, Control, KnownBy
<1>3. got[t] \in Legal[brand[t]] /\ begun[t] < lastTrue[brand[t]][got[t]] + TTL
  BY <1>1, <1>2 DEF AnswerInv, CacheInv, StalenessBounded, Legality, Task
<1>4. m.topic \in ToSet(Topics) \cup {"none"}
  <2>1. \A topic \in ToSet(Topics) : DOMAIN FactsIn[got[t]][topic] \subseteq Nat
    BY <1>2, <1>3, AnsweringAssumption
  <2>. QED  BY <2>1, MatchTopic
<1>. HIDE DEF m
<1>5. AnswerTypes'
  <2>1. at' \in [Task -> At]
    BY <1>b, <1>1 DEF AnswerTypes, At
  <2>2. asked' \in [Task -> Question \cup {<<>>}]
    BY <1>b, <1>1 DEF AnswerTypes
  <2>3. /\ DOMAIN match' = Task
        /\ \A u \in Task : match'[u].topic \in ToSet(Topics) \cup {"none"}
    BY <1>b, <1>1, <1>4 DEF AnswerTypes
  <2>. QED  BY <1>b, <1>1, <2>1, <2>2, <2>3 DEF AnswerTypes
<1>6. Legality' /\ UNCHANGED databaseVars
  BY <1>1 DEF AnswerInv, Legality, cacheVars, databaseVars, callVars
<1>7. Mine(t)
  BY <1>1, <1>b DEF AnswerTypes, Mine, cacheVars, callVars
<1>8. KnownBy(t)'
  <2>1. /\ at'[t] = IF m = NoMatch THEN "held" ELSE "answered"
        /\ asked'[t] = q /\ match'[t] = m
    BY <1>b, <1>1 DEF AnswerTypes
  <2>2. Routed(t)'
    BY <1>1, <1>2 DEF Routed, Lately, cacheVars, databaseVars
  <2>3. UNCHANGED <<brand, begun, lastTrue>>
    BY <1>1 DEF cacheVars, databaseVars, callVars
  <2>4. Answered(t)'
    BY <1>3, <2>1, <2>3 DEF Answered, m
  <2>. QED  BY <1>2, <2>1, <2>2, <2>3, <2>4 DEF KnownBy
<1>. QED  BY <1>5, <1>6, <1>7, <1>8, ControlStep

LEMMA AnswerNext == AnswerInv /\ [Next]_vars => AnswerInv'
<1>. SUFFICES ASSUME AnswerInv, [Next]_vars PROVE AnswerTypes' /\ Legality' /\ Control'
  BY CacheSteps DEF AnswerInv
<1>b. AnswerTypes /\ CacheTypeOK /\ Legality
  BY DEF AnswerInv, CacheInv
<1>1. ASSUME NEW t \in Task, AwaitLookup(t) PROVE AnswerTypes' /\ Legality' /\ Control'
  <2>1. Legality' /\ UNCHANGED <<key, begun, databaseVars>>
    BY <1>1, AwaitLegal DEF AwaitLookup
  <2>2. UNCHANGED taskVars /\ UNCHANGED writes
    BY <1>1 DEF AwaitLookup
  <2>3. AnswerTypes'
    BY <1>b, <2>2 DEF AnswerTypes, taskVars
  <2>4. Control'
    BY <2>1, <2>2, OthersKnow DEF Control, taskVars
  <2>. QED  BY <2>1, <2>3, <2>4
<1>2. ASSUME NEW t \in Task, Fail(t) PROVE AnswerTypes' /\ Legality' /\ Control'
  <2>1. /\ UNCHANGED <<cacheVars, number, received, brand, asked, match, writes>>
        /\ at' = [at EXCEPT ![t] = "failed"]
    BY <1>2 DEF Fail, Move
  <2>2. AnswerTypes'
    <3>1. at' \in [Task -> At]
      BY <1>b, <2>1 DEF AnswerTypes, At
    <3>. QED  BY <1>b, <2>1, <3>1 DEF AnswerTypes
  <2>3. Legality' /\ UNCHANGED databaseVars
    BY <1>b, <2>1 DEF Legality, cacheVars, databaseVars, callVars
  <2>4. Mine(t) /\ at'[t] = "failed"
    BY <1>b, <2>1 DEF AnswerTypes, Mine, cacheVars, callVars
  <2>5. KnownBy(t)'
    BY <2>4 DEF KnownBy
  <2>. QED  BY <2>2, <2>3, <2>4, <2>5, ControlStep
<1>3. ASSUME TimePasses \/ \E k \in Key : \E v \in Legal[k] : Write(k, v)
      PROVE  AnswerTypes' /\ Legality' /\ Control'
  <2>1. Tick \/ \E k \in Key, v \in Value : Change(k, v)
    BY <1>3, AnsweringAssumption DEF TimePasses, Write
  <2>2. /\ lastTrue' \in [Key -> [Value -> Nat]]
        /\ \A k \in Key, v \in Value : lastTrue[k][v] <= lastTrue'[k][v]
    BY <2>1, PastIsKept DEF AnswerInv
  <2>3. UNCHANGED <<cache, stage, key, begun, got>>
    BY <2>1 DEF Tick, Change, callVars
  <2>4. UNCHANGED taskVars /\ writes' \in 0..MaxWrites
    BY <1>3, <1>b, AnsweringAssumption DEF TimePasses, Write, AnswerTypes
  <2>5. AnswerTypes'
    BY <1>b, <2>4 DEF AnswerTypes, taskVars
  <2>6. \A k \in Key : truth'[k] \in Legal[k]
    BY <1>3, <1>b DEF TimePasses, Write, Tick, Change, Legality, CacheTypeOK
  <2>7. Legality'
    BY <1>b, <2>3, <2>6 DEF Legality
  <2>8. Control'
    BY <2>2, <2>3, <2>4, KnownStays DEF AnswerInv, Control, taskVars
  <2>. QED  BY <2>5, <2>7, <2>8
<1>4. CASE UNCHANGED vars
  <2>1. UNCHANGED <<taskVars, writes, cacheVars>>
    BY <1>4 DEF vars
  <2>2. AnswerTypes' /\ Legality'
    BY <1>b, <2>1 DEF AnswerTypes, Legality, taskVars, cacheVars, databaseVars, callVars
  <2>3. Control'
    BY <2>1, OthersKnow DEF Control, taskVars, cacheVars, databaseVars, callVars
  <2>. QED  BY <2>2, <2>3
<1>. QED
  BY <1>1, <1>2, <1>3, <1>4, ReceiveStep, RouteStep, HandleStep, AnswerStep DEF Next

-----------------------------------------------------------------------------
(***************************************************************************)
(* The theorems.                                                           *)
(***************************************************************************)
\* Every variable keeps its type; a lookup returns a version of the document it
\* asked for, whatever else the process has in its cache.
THEOREM AnsweringTypeCorrect == Spec => []TypeOK
<1>. QED
  BY AnswerInit, AnswerNext, InvIsTyped, PTL DEF Spec

\* The lookups of the pipeline keep the cache's promise, both of them on the one
\* cache of their process.
THEOREM LookupsAreFresh == Spec => []StalenessBounded
<1>1. AnswerInv => StalenessBounded
  BY DEF AnswerInv, CacheInv
<1>. QED  BY AnswerInit, AnswerNext, <1>1, PTL DEF Spec

\* A question is answered, held or dropped by the brand its number was connected
\* to less than a lifetime ago, and answered from that brand's own facts.
THEOREM NoBrandIsGuessed == Spec => []ServesItsBrand
<1>1. AnswerInv => ServesItsBrand
  <2>. SUFFICES ASSUME AnswerInv, NEW t \in Task
                PROVE  /\ at[t] \in {"answered", "held"} => Routed(t)
                       /\ at[t] = "dropped" => Unconnected(t)
                       /\ at[t] = "answered" =>
                            \E f \in Legal[brand[t]] :
                              /\ begun[t] < lastTrue[brand[t]][f] + TTL
                              /\ FindMatch(asked[t], FactsIn[f]) = match[t]
    BY DEF ServesItsBrand, Routed, Unconnected, None
  <2>. QED  BY DEF AnswerInv, Control, KnownBy, Answered
<1>. QED  BY AnswerInit, AnswerNext, <1>1, PTL DEF Spec

\* What a question comes to is what the facts of its brand, as they were less
\* than a lifetime before the lookup, have to say: it is held only when no entry
\* of theirs matches it, and otherwise answered with the first that does.
FirstMatchDecides ==
  \A t \in Task :
    at[t] \in {"answered", "held"} =>
      \E f \in Legal[brand[t]] :
        /\ begun[t] < lastTrue[brand[t]][f] + TTL
        /\ at[t] = "held" <=> match[t] = NoMatch
        /\ IsFirstMatch(asked[t], FactsIn[f], match[t])

\* The rule holds of every answer and of every hold.
THEOREM AnswersByTheRule == Spec => []FirstMatchDecides
<1>1. AnswerInv => FirstMatchDecides
  <2>. SUFFICES ASSUME AnswerInv, NEW t \in Task, at[t] \in {"answered", "held"}
                PROVE  \E f \in Legal[brand[t]] :
                         /\ begun[t] < lastTrue[brand[t]][f] + TTL
                         /\ at[t] = "held" <=> match[t] = NoMatch
                         /\ IsFirstMatch(asked[t], FactsIn[f], match[t])
    BY DEF FirstMatchDecides
  <2>1. PICK f \in Legal[brand[t]] :
          /\ begun[t] < lastTrue[brand[t]][f] + TTL
          /\ FindMatch(asked[t], FactsIn[f]) = match[t]
          /\ at[t] = "held" <=> match[t] = NoMatch
    BY DEF AnswerInv, Control, KnownBy, Answered
  <2>2. \A topic \in ToSet(Topics) : DOMAIN FactsIn[f][topic] \subseteq Nat
    BY AnsweringAssumption DEF AnswerInv, Control, KnownBy
  <2>3. IsFirstMatch(asked[t], FactsIn[f], match[t])
    BY <2>1, <2>2, FirstMatch
  <2>. QED  BY <2>1, <2>3
<1>. QED  BY AnswerInit, AnswerNext, <1>1, PTL DEF Spec

-----------------------------------------------------------------------------
(***************************************************************************)
(* Which item is quoted.                                                   *)
(***************************************************************************)
\* An answer is the match in the facts that the task still holds in its hands.
FromFacts ==
  \A t \in Task :
    at[t] \in {"answered", "held"} =>
      /\ stage[t] = "returned" /\ key[t] = brand[t]
      /\ match[t] = FindMatch(asked[t], FactsIn[got[t]])
      /\ asked[t] \in Question

LEMMA FromFactsNext ==
  ASSUME AnswerInv, FromFacts, [Next]_vars
  PROVE  FromFacts'
<1>b. AnswerTypes /\ CacheTypeOK /\ Control
  BY DEF AnswerInv, CacheInv
<1>. SUFFICES ASSUME NEW u \in Task, at'[u] \in {"answered", "held"}
              PROVE  /\ stage'[u] = "returned" /\ key'[u] = brand'[u]
                     /\ match'[u] = FindMatch(asked'[u], FactsIn[got'[u]])
                     /\ asked'[u] \in Question
  BY DEF FromFacts
<1>1. CASE /\ at'[u] = at[u] /\ brand'[u] = brand[u] /\ asked'[u] = asked[u]
           /\ match'[u] = match[u]
           /\ stage[u] = "returned" =>
                stage'[u] = stage[u] /\ key'[u] = key[u] /\ got'[u] = got[u]
  BY <1>1 DEF FromFacts
<1>2. ASSUME NEW t \in Task, NEW q \in Question, Answer(t, q), t = u
      PROVE  /\ stage'[u] = "returned" /\ key'[u] = brand'[u]
             /\ match'[u] = FindMatch(asked'[u], FactsIn[got'[u]])
             /\ asked'[u] \in Question
  <2>1. key[u] = brand[u] /\ stage[u] = "returned"
    BY <1>b, <1>2 DEF Answer, Control, KnownBy
  <2>2. match'[u] = FindMatch(q, FactsIn[got[u]]) /\ asked'[u] = q
    BY <1>b, <1>2 DEF Answer, AnswerTypes
  <2>3. UNCHANGED <<stage, key, got, brand>>
    BY <1>2 DEF Answer, cacheVars, callVars
  <2>. QED  BY <2>1, <2>2, <2>3
<1>3. ASSUME NEW t \in Task, t = u,
             (\E n \in Number : Receive(t, n)) \/ Route(t) \/ Handle(t) \/ Fail(t)
      PROVE  FALSE
  BY <1>b, <1>3 DEF Receive, Route, Handle, Fail, Move, AnswerTypes
<1>4. ASSUME NEW t \in Task, t # u,
             \/ \E n \in Number : Receive(t, n)
             \/ AwaitLookup(t) \/ Route(t) \/ Handle(t) \/ Fail(t)
             \/ \E q \in Question : Answer(t, q)
      PROVE  /\ at'[u] = at[u] /\ brand'[u] = brand[u] /\ asked'[u] = asked[u]
             /\ match'[u] = match[u]
             /\ stage'[u] = stage[u] /\ key'[u] = key[u] /\ got'[u] = got[u]
  <2>1. CASE \E n \in Number : Receive(t, n)
    BY <1>b, <1>4, <2>1 DEF Receive, Move, Lookup, AnswerTypes, CacheTypeOK, Task
  <2>2. CASE AwaitLookup(t)
    BY <1>b, <1>4, <2>2
    DEF AwaitLookup, taskVars, Read, ReadRaises, Store, CacheTypeOK, Task
  <2>3. CASE Route(t) \/ Fail(t) \/ \E q \in Question : Answer(t, q)
    BY <1>b, <1>4, <2>3 DEF Route, Fail, Answer, Move, AnswerTypes, cacheVars, callVars
  <2>4. CASE Handle(t)
    BY <1>b, <1>4, <2>4
    DEF Handle, Move, Lookup, AnswerTypes, CacheTypeOK, cacheVars, callVars, Task
  <2>. QED  BY <1>4, <2>1, <2>2, <2>3, <2>4
<1>5. ASSUME AwaitLookup(u)
      PROVE  UNCHANGED taskVars /\ stage[u] # "returned"
  BY <1>5 DEF AwaitLookup, Read, ReadRaises, Store
<1>6. CASE TimePasses \/ (\E k \in Key : \E v \in Legal[k] : Write(k, v)) \/ UNCHANGED vars
  <2>1. UNCHANGED taskVars /\ UNCHANGED callVars
    BY <1>6 DEF TimePasses, Write, Tick, Change, vars, cacheVars
  <2>. QED  BY <1>1, <2>1 DEF taskVars, callVars
<1>7. ASSUME NEW t \in Task,
             \/ \E n \in Number : Receive(t, n)
             \/ AwaitLookup(t) \/ Route(t) \/ Handle(t) \/ Fail(t)
             \/ \E q \in Question : Answer(t, q)
      PROVE  /\ stage'[u] = "returned" /\ key'[u] = brand'[u]
             /\ match'[u] = FindMatch(asked'[u], FactsIn[got'[u]])
             /\ asked'[u] \in Question
  <2>1. CASE t # u
    BY <1>1, <1>4, <1>7, <2>1
  <2>2. CASE t = u /\ AwaitLookup(t)
    BY <1>1, <1>5, <2>2 DEF taskVars
  <2>. QED  BY <1>2, <1>3, <1>7, <2>1, <2>2
<1>. QED  BY <1>6, <1>7 DEF Next

\* What is matched in the facts of a brand: about an item, that item or an earlier
\* one that it can be confused with.
LEMMA MatchOfItem ==
  ASSUME NEW q \in Question, NEW b \in Brand, NEW f \in Legal[b],
         NEW j \in DOMAIN FactsIn[f].catalogue, IsAbout(q, FactsIn[f].catalogue, j)
  PROVE  LET catalogue == FactsIn[f].catalogue
             i == FindMatch(q, FactsIn[f]).index
         IN /\ FindMatch(q, FactsIn[f]).topic = "catalogue"
            /\ i \in DOMAIN catalogue
            /\ i = j \/ (i < j /\ Confusable(catalogue[i].name, catalogue[j].name, q))
<1>. DEFINE catalogue == FactsIn[f].catalogue
            m == FindMatch(q, FactsIn[f])
<1>1. /\ q \in Text /\ DOMAIN catalogue \subseteq Nat
      /\ \A i \in DOMAIN catalogue : catalogue[i].name \in Text
      /\ \A topic \in ToSet(Topics) : DOMAIN FactsIn[f][topic] \subseteq Nat
  <2>1. "catalogue" \in ToSet(Topics)
    BY DEF ToSet, Topics
  <2>. QED  BY <2>1, AnsweringAssumption DEF Text
<1>2. /\ Matches("catalogue", catalogue[j], q)
      /\ \A i \in DOMAIN catalogue \ {j} :
           Matches("catalogue", catalogue[i], q) =>
             Confusable(catalogue[i].name, catalogue[j].name, q)
  BY <1>1, AboutOne
<1>3. 1 \in DOMAIN Topics /\ Topics[1] = "catalogue" /\ \A n \in DOMAIN Topics : n = 1 \/ 1 < n
  BY DEF Topics
<1>4. HitsOf(q, FactsIn[f], 1) = {i \in DOMAIN catalogue : Matches("catalogue", catalogue[i], q)}
  BY <1>3 DEF HitsOf
<1>5. j \in HitsOf(q, FactsIn[f], 1)
  BY <1>2, <1>4
<1>6. IsFirstMatch(q, FactsIn[f], m)
  BY <1>1, FirstMatch
<1>. HIDE DEF m
<1>7. /\ m.topic = "catalogue" /\ m.index \in HitsOf(q, FactsIn[f], 1)
      /\ \A i \in HitsOf(q, FactsIn[f], 1) : m.index <= i
  BY <1>3, <1>5, <1>6 DEF IsFirstMatch
<1>8. m.index = j \/ (m.index < j /\ Confusable(catalogue[m.index].name, catalogue[j].name, q))
  <2>1. m.index \in Nat /\ j \in Nat /\ m.index <= j
    BY <1>1, <1>4, <1>5, <1>7
  <2>2. m.index # j => Confusable(catalogue[m.index].name, catalogue[j].name, q)
    BY <1>2, <1>4, <1>7
  <2>. QED  BY <2>1, <2>2
<1>. QED  BY <1>4, <1>7, <1>8 DEF m

LEMMA FromFactsExplains ==
  ASSUME AnswerInv, FromFacts, NEW t \in Task, at[t] \in {"answered", "held"}
  PROVE  /\ asked[t] \in Question /\ brand[t] \in Brand /\ got[t] \in Legal[brand[t]]
         /\ match[t] = FindMatch(asked[t], FactsIn[got[t]])
BY DEF AnswerInv, Legality, Control, KnownBy, FromFacts, Task

\* A question about an item of the catalogue is answered with that item, or with
\* one listed before it that goes by a word of its name or by a part of a longer
\* word of the question; in every catalogue and for every question.
THEOREM OnlyConfusableItemsCross == Spec => []CrossMatchesExplained
<1>1. Init => FromFacts
  BY DEF Init, FromFacts
<1>2. AnswerInv /\ FromFacts => CrossMatchesExplained
  <2>. SUFFICES ASSUME AnswerInv, FromFacts,
                       NEW t \in Task, at[t] \in {"answered", "held"},
                       NEW j \in DOMAIN FactsIn[got[t]].catalogue,
                       IsAbout(asked[t], FactsIn[got[t]].catalogue, j)
                PROVE  LET catalogue == FactsIn[got[t]].catalogue
                           i == match[t].index
                       IN /\ match[t].topic = "catalogue"
                          /\ \/ i = j
                             \/ i < j /\ Confusable(catalogue[i].name, catalogue[j].name, asked[t])
    BY DEF CrossMatchesExplained
  <2>. QED  BY FromFactsExplains, MatchOfItem
<1>. QED  BY AnswerInit, AnswerNext, FromFactsNext, <1>1, <1>2, PTL DEF Spec

\* Where the items of every brand are distinct in every question that may be asked,
\* the promise of the tests is kept: no question about one item is answered with
\* another's price.
THEOREM DistinctItemsNeverCross ==
  ASSUME \A b \in Brand : \A f \in Legal[b] : \A q \in Question :
           Distinct(FactsIn[f].catalogue, q)
  PROVE  Spec => []NoCrossMatch
<1>1. Init => FromFacts
  BY DEF Init, FromFacts
<1>2. AnswerInv /\ FromFacts => NoCrossMatch
  <2>. SUFFICES ASSUME AnswerInv, FromFacts,
                       NEW t \in Task, at[t] \in {"answered", "held"},
                       NEW j \in DOMAIN FactsIn[got[t]].catalogue,
                       IsAbout(asked[t], FactsIn[got[t]].catalogue, j)
                PROVE  match[t] = [topic |-> "catalogue", index |-> j]
    BY DEF NoCrossMatch
  <2>. DEFINE m == FindMatch(asked[t], FactsIn[got[t]])
  <2>1. /\ asked[t] \in Question /\ brand[t] \in Brand /\ got[t] \in Legal[brand[t]]
        /\ match[t] = m
    BY FromFactsExplains
  <2>2. m.topic = "catalogue" /\ m.index = j
    BY <2>1, MatchOfItem DEF Distinct
  <2>3. m = [topic |-> m.topic, index |-> m.index]
    BY DEF FindMatch, NoMatch
  <2>. QED  BY <2>1, <2>2, <2>3
<1>. QED  BY AnswerInit, AnswerNext, FromFactsNext, <1>1, <1>2, PTL DEF Spec

===============================================================================
