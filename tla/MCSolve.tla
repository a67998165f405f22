------------------------------- MODULE MCSolve -------------------------------
(***************************************************************************)
(* Decisions with few holdings: hands that block one another, a seat that  *)
(* is out, pinned seats, a range nothing is left of.  Decks in which every *)
(* class of hands occurs, the wheel and the ace-high straight among them.  *)
(***************************************************************************)
EXTENDS Solve

c(r, s) == <<s, r>>

Aces == Hand(12, 12, FALSE)
AceKing == Hand(12, 11, TRUE)
Deuces == Hand(0, 0, FALSE)

\* Three aces are left, or two.
ranges == [s \in Seats |-> IF s = 1 THEN (Aces :> 2) @@ (AceKing :> 1)
                           ELSE (AceKing :> 3) @@ (Deuces :> 0)]

Decision(perspective, eliminated, pins, board) ==
  [perspective |-> perspective, hero |-> <<c(12, 0), c(0, 1)>>, board |-> board,
   eliminated |-> eliminated, ranges |-> ranges, pins |-> pins]

NoPins == [s \in {} |-> Nothing]
Flop == {c(11, 0), c(11, 1), c(5, 2)}

\* The last two: a pin the second seat's range could take, and one on the board.
SolvedDecisions ==
  {Decision("hero", {}, NoPins, Flop), Decision("hero", {2}, NoPins, {}),
   Decision("hero", {1}, NoPins, Flop \cup {c(12, 2), c(12, 3)}),
   Decision("seat", {}, (0 :> <<c(12, 0), c(0, 1)>>) @@ (2 :> <<c(12, 1), c(12, 2)>>), Flop),
   Decision("seat", {2}, 0 :> <<c(11, 0), c(0, 1)>>, Flop)}

Values == [ev : {0, 2}, variance : {0, 1}, bust : {0, 1}, visits : {1}]

DealtDecks ==
  {Suit \X {0, 1, 12}, {0, 1} \X {0, 1, 2, 3, 4, 5, 12}, {0, 3} \X (7 .. 12)}

Offered == <<"Call", "Raise">>

=============================================================================
