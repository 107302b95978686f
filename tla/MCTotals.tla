------------------------------ MODULE MCTotals ------------------------------
(* TLC instances of Totals: transactions of two acquirers, their amounts, every *)
(* subset of which has a sum of its own, and two bounds: on the uploads that go *)
(* unanswered or are refused, and on the order of transactions 1 and 2.         *)
EXTENDS Totals

TwoAndOne == <<1, 1, 2>>
Amounts == <<2, 3, 7>>

AtMostOneDoubtful == unsure \cup refused \subseteq {1}
InOrder == 1 \in fresh => 2 \in fresh
==============================================================================
