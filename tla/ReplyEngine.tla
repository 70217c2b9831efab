------------------------------ MODULE ReplyEngine ------------------------------
(***************************************************************************)
(* The matching rules of app/services/reply_engine.py, as operators.       *)
(*                                                                         *)
(* A text (a question, a name, a word) is a sequence of pieces, the space  *)
(* one of them: "pro plan" is <<"pro", " ", "plan">>, and "products" is    *)
(* <<"pro", "ducts">>.  That is as fine as Python's substring test         *)
(* (w in q) has to be told apart from a test for words.  Everything is     *)
(* lower case already.                                                     *)
(***************************************************************************)
EXTENDS Integers, Sequences, SequencesExt

CONSTANT Insignificant  \* words under three letters, with a digit, or in _STOPWORDS

\* The categories of operational_facts, in the order they are tried in.  Each
\* has a sequence of entries [name, fact]; hours and the policies at most one.
Topics == <<"catalogue", "hours", "delivery", "payment", "negotiation", "returns">>

Keywords ==
  [hours       |-> {<<"hour">>, <<"open">>, <<"close">>, <<"time">>},
   payment     |-> {<<"pay", "ment">>, <<"pay", " ">>, <<"how", " ", "do", " ", "i", " ", "pay">>,
                    <<"how", " ", "can", " ", "i", " ", "pay">>, <<"accept">>},
   negotiation |-> {<<"discount">>, <<"negotiat">>, <<"lower", " ", "price">>,
                    <<"reduce", " ", "price">>, <<"cheaper">>, <<"best", " ", "price">>},
   returns     |-> {<<"refund">>, <<"return">>, <<"money", " ", "back">>, <<"cancel">>}]

-----------------------------------------------------------------------------
Space == " "

\* s stands in t after the first k pieces.
OccursAt(s, t, k) == \A x \in DOMAIN s : t[k + x] = s[x]

\* Python's s in t.
In(s, t) == \E k \in 0..(Len(t) - Len(s)) : OccursAt(s, t, k)

\* It stands there between two spaces or ends of t.
StandsAt(s, t, k) ==
  /\ OccursAt(s, t, k)
  /\ k = 0 \/ t[k] = Space
  /\ k + Len(s) = Len(t) \/ t[k + Len(s) + 1] = Space

\* Python's t.split().
Words(t) ==
  {w \in SubSeqs(t) \ {<<>>} : /\ Space \notin ToSet(w)
                               /\ \E k \in 0..(Len(t) - Len(w)) : StandsAt(w, t, k)}

SignificantWords(name) == Words(name) \ Insignificant

\* Slip: one significant word is enough.
CatalogueItemMatchesAny(name, q) ==
  \/ In(name, q)
  \/ \E w \in SignificantWords(name) : In(w, q)

\* The name verbatim, or every significant word of it.
CatalogueItemMatches(name, q) ==
  \/ In(name, q)
  \/ /\ SignificantWords(name) # {}
     /\ \A w \in SignificantWords(name) : In(w, q)

Matches(topic, entry, q) ==
  CASE topic = "catalogue" -> entry.name # <<>> /\ CatalogueItemMatches(entry.name, q)
    [] topic = "delivery"  -> entry.name # <<>> /\ In(entry.name, q)
    [] OTHER               -> \E w \in Keywords[topic] : In(w, q)

NoMatch == [topic |-> "none", index |-> 0]

\* The first topic with a match, and its first entry that matches.
FindMatch(question, facts) ==
  LET Hits(n) == {i \in DOMAIN facts[Topics[n]] :
                    Matches(Topics[n], facts[Topics[n]][i], question)}
      matched == {n \in DOMAIN Topics : Hits(n) # {}}
  IN IF matched = {} THEN NoMatch
     ELSE [topic |-> Topics[Min(matched)], index |-> Min(Hits(Min(matched)))]

-----------------------------------------------------------------------------
(***************************************************************************)
(* What a reader of a question takes it to be about.                       *)
(***************************************************************************)
Identity(name) ==
  IF SignificantWords(name) # {} THEN SignificantWords(name) ELSE Words(name)

\* The question spells out item j's name as whole words, and no other item can
\* be made out of the words around it.
IsAbout(question, catalogue, j) ==
  LET name == catalogue[j].name IN
  /\ name # <<>>
  /\ \E k \in 0..(Len(question) - Len(name)) :
       /\ StandsAt(name, question, k)
       /\ LET before == SubSeq(question, 1, k)
              after  == SubSeq(question, k + Len(name) + 1, Len(question))
          IN \A i \in DOMAIN catalogue \ {j} :
               catalogue[i].name # <<>> =>
                 ~ Identity(catalogue[i].name) \subseteq Words(before) \cup Words(after)

\* A word that another item goes by is one of this name's too, or is found in the
\* question although it is no word of it: inside a longer one.
Confusable(other, name, question) ==
  \E w \in Identity(other) :
    /\ In(w, question)
    /\ w \in Words(name) \/ w \notin Words(question)

\* No two items of a catalogue can be confused in a question.
Distinct(catalogue, question) ==
  \A i, j \in DOMAIN catalogue :
    i # j => ~ Confusable(catalogue[i].name, catalogue[j].name, question)

===============================================================================
