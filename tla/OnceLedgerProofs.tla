--------------------------- MODULE OnceLedgerProofs ----------------------------
(***************************************************************************)
(* What every implementation of OnceLedger gets from it.                   *)
(***************************************************************************)
EXTENDS OnceLedger, TLAPS

LedgerType ==
  /\ taken \subseteq Item
  /\ holders \in [Item -> SUBSET Worker]
  /\ out \in [Item -> Nat]
  /\ paid \in [Item -> Nat]

LedgerInv == LedgerType /\ AtMostOnceUnlessPaid

LEMMA LedgerInit == Init => LedgerInv
BY DEF Init, LedgerInv, LedgerType, AtMostOnceUnlessPaid

LEMMA Paying ==
  ASSUME LedgerInv, NEW i \in Item, MayPay(i)
  PROVE  /\ paid' \in [Item -> Nat]
         /\ \A j \in Item : paid[j] <= paid'[j]
BY DEF LedgerInv, LedgerType, MayPay

LEMMA LedgerNext == LedgerInv /\ [Next]_vars => LedgerInv'
<1>. SUFFICES ASSUME LedgerInv, [Next]_vars PROVE LedgerInv'
  OBVIOUS
<1>. USE DEF LedgerInv, LedgerType, AtMostOnceUnlessPaid
<1>1. ASSUME NEW i \in Item, MayPay(i), NEW w \in Worker, Take(i, w) PROVE LedgerInv'
  BY <1>1, Paying DEF Take
<1>2. ASSUME NEW i \in Item, MayPay(i), Orphan(i) PROVE LedgerInv'
  BY <1>2, Paying DEF Orphan
<1>3. ASSUME NEW i \in Item, MayPay(i), Deliver(i) PROVE LedgerInv'
  BY <1>3, Paying DEF Deliver
<1>4. ASSUME NEW i \in Item, MayPay(i), Leave(i) PROVE LedgerInv'
  BY <1>4, Paying DEF Leave
<1>5. ASSUME NEW i \in Item, MayPay(i), Free(i) PROVE LedgerInv'
  BY <1>5, Paying DEF Free
<1>6. ASSUME NEW i \in Item, MayPay(i), UNCHANGED <<taken, holders, out>> PROVE LedgerInv'
  BY <1>6, Paying
<1>7. CASE UNCHANGED vars
  BY <1>7 DEF vars
<1>. QED  BY <1>1, <1>2, <1>3, <1>4, <1>5, <1>6, <1>7 DEF Next

\* A service that keeps the ledger has at most one holder of a claim, and makes
\* at most one delivery for an item that no fault accounts for, whatever it is.
THEOREM LedgerPromise == Spec => []AtMostOnceUnlessPaid
<1>1. LedgerInv => AtMostOnceUnlessPaid
  BY DEF LedgerInv
<1>. QED  BY LedgerInit, LedgerNext, <1>1, PTL DEF Spec

===============================================================================
