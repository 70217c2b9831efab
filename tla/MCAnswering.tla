------------------------------ MODULE MCAnswering ------------------------------
(***************************************************************************)
(* Instances of Answering for TLC.                                         *)
(***************************************************************************)
EXTENDS Answering, TLC

CONSTANTS n1, n2, b1, b2, w1, p1,
          toB1, toB2, toNobody, old, new, plans

\* The own number n1 is connected to b1, not yet, or no more; n2 to b2, to nobody, or
\* by a document that names no brand.  b1 corrects a price.
Versions == (n1 :> {NoConnection, SwitchedOff, toB1}) @@ (n2 :> {NoConnection, toB2, toNobody})
         @@ (b1 :> {old, new}) @@ (b2 :> {plans})
Connected == (toB1 :> b1) @@ (toB2 :> b2) @@ (toNobody :> NoBrand)

Item(name, price) == [name |-> name, fact |-> price]
NoFacts == [topic \in ToSet(Topics) |-> <<>>]

\* The text of some words: a space between any two.
Joined(words) ==
  FlattenSeq([i \in DOMAIN words |-> IF i = 1 THEN words[i] ELSE <<" ">> \o words[i]])

\* Two items whose names share no significant word.
Lavender == <<"lavender", " ", "candle">>
Rose     == <<"rose", " ", "soap">>
Shop(price) ==
  [NoFacts EXCEPT !["catalogue"] = <<Item(Rose, 1), Item(Lavender, price)>>,
                  !["hours"] = <<Item(<<>>, 9)>>,
                  !["delivery"] = <<Item(<<"lekki">>, 2)>>]
ShopFacts == (old :> Shop(3)) @@ (new :> Shop(4))

\* Questions of a word of either or of both; an item with a word of the other's
\* before, after and inside it; and some on other topics.
ShopQuestions ==
  {Joined(q) : q \in {w \in BoundedSeq({<<"lavender">>, <<"soap">>}, 2) :
                        w # <<>> /\ IsInjective(w)}}
  \cup {<<"soap", " ">> \o Lavender, Lavender \o <<" ", "soap">>, Rose \o <<" ", "candle">>,
        <<"lavender", " ", "rose", " ", "candle">>, <<"hour", "s">>, <<"lekki", " ", "hour">>}

\* "Pro plan", "Pro plus" and "Rose soap", and "pro" again in "products".
Pro      == <<"pro", " ", "plan">>
ProPlus  == <<"pro", " ", "plus">>
Products == <<"pro", "ducts">>
Plans == [NoFacts EXCEPT !["catalogue"] = <<Item(Pro, 1), Item(ProPlus, 2), Item(Rose, 3)>>]
PlanVersions == (n1 :> {NoConnection}) @@ (b1 :> {plans})
PlanFacts == plans :> Plans
PlanQuestions ==
  {Joined(q) : q \in BoundedSeq({<<"rose">>, <<"soap">>, <<"pro">>, <<"plan">>, <<"plus">>,
                                  Products}, 3) \ {<<>>}}

\* The shop and the plans in one service, each asked about what the other sells.
Facts == ShopFacts @@ PlanFacts
Questions ==
  ShopQuestions \cup {Pro, ProPlus, Products, Rose \o <<" ">> \o Products, ProPlus \o <<" ">> \o Rose}

Documents(v) == UNION {v[k] : k \in DOMAIN v}
VersionSet == Documents(Versions)
PlanVersionSet == Documents(PlanVersions)

SmallWords == {<<"plan">>}
OneProcess == w1 :> p1

\* The condition under which no item is taken for another is one that the shop meets.
ASSUME ShopIsDistinct ==
  \A f \in DOMAIN ShopFacts, q \in ShopQuestions : Distinct(ShopFacts[f].catalogue, q)
===============================================================================
