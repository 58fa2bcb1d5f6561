---------------------------- MODULE MCEditLock ----------------------------
(* Editing an order with small constants for TLC.                          *)
EXTENDS EditLock, TLC

CONSTANTS ann, bob

TwoUsers == {ann, bob}
UserSymmetry == Permutations(TwoUsers)

\* An order that has items, and a quick drop that has none yet.
Itemized  == {0}
QuickDrop == {}
=============================================================================
