--------------------------- MODULE MCFieldAnalysis ---------------------------
(***************************************************************************)
(* Model-checking instance of FieldAnalysis: what PokerCraft may have      *)
(* exported of two tournaments.                                            *)
(***************************************************************************)
EXTENDS FieldAnalysis

\* A hand and the summary of one tournament, in files of their own, and a hand
\* of another.
Exports == {HandFile(1, {1}), HandFile(2, {2}), Summary(1, 2)}

\* The hero's stack in the second tournament could not be read.
Stacks == [h \in Hand |-> IF h.of = 1 THEN 3 ELSE None]
\* The opponents lose a little in the one hand, the hero much in the other.
GradesOfAHand ==
  {[opponent |-> [decisions |-> 1, loss |-> 1], hero |-> Nothing],
   [opponent |-> Nothing, hero |-> [decisions |-> 1, loss |-> 4]]}

Wins == {h \in Hand : h.of = 1}

=============================================================================
