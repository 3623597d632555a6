----------------------------- MODULE MCChatTurn -----------------------------
EXTENDS ChatTurn, TLC

\* The turns are interchangeable.
TurnSymmetry == Permutations(Turn)
=============================================================================
