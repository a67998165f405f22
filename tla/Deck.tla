--------------------------------- MODULE Deck ---------------------------------
(***************************************************************************)
(* The deck of src/src/card.rs as a table uses it: hand after hand is      *)
(* dealt from it, TableSession reshuffles it when a hand might not fit,    *)
(* and a table that is resumed rebuilds it from the cards not yet dealt.   *)
(***************************************************************************)
EXTENDS Integers, Sequences, FiniteSets

CONSTANTS
  DeckSize,      \* 52 in the code
  HoleCards,     \* hole cards a hand may deal: {4, 6}, two per active seat
  BoardCards,    \* community cards a hand may deal: 5
  MIN_DECK_FOR_HAND

ASSUME DeckAssumption ==
  /\ DeckSize \in Nat \ {0}
  /\ HoleCards \subseteq Nat \ {0}
  /\ BoardCards \in Nat
  /\ MIN_DECK_FOR_HAND \in Nat
  /\ \A h \in HoleCards : h + BoardCards <= MIN_DECK_FOR_HAND
  /\ MIN_DECK_FOR_HAND <= DeckSize

\* Deck::new lists the cards in this order.
Card == 1..DeckSize

VARIABLES
  cards,      \* the array; the cards before top are dealt
  top,        \* how many are dealt
  dealt,      \* the cards dealt to the hand being played, in order
  undealt,    \* community cards the hand may still need
  rebuilt     \* history: whether the table was resumed, and shuffled since

vars == <<cards, top, dealt, undealt, rebuilt>>

Orders == {order \in [Card -> Card] : \A i, j \in Card : i # j => order[i] # order[j]}

remaining == DeckSize - top

remaining_in_order == SubSeq(cards, top + 1, DeckSize)

Init ==
  /\ cards \in Orders
  /\ top = 0
  /\ dealt = <<>>
  /\ undealt = 0
  /\ rebuilt = "no"

\* n cards off a deck that lies in the given order, from position from on.
Deal(order, from, n) ==
  /\ cards' = order
  /\ top' = from + n
  /\ dealt' = SubSeq(order, from + 1, from + n)

\* Mutant: a hand may start on the last cards.
TooFewLeft_late == remaining < MIN_DECK_FOR_HAND - 1

TooFewLeft == remaining < MIN_DECK_FOR_HAND

\* deal_next_hand: shuffle if need be, and deal the hole cards.
DealHand ==
  \E hole \in HoleCards :
    /\ undealt' = BoardCards
    /\ \/ /\ ~TooFewLeft
          /\ Deal(cards, top, hole)
          /\ UNCHANGED rebuilt
       \/ /\ TooFewLeft
          /\ \E order \in Orders :
               Deal([i \in Card |-> cards[order[i]]], 0, hole)
          /\ rebuilt' = IF rebuilt = "no" THEN "no" ELSE "shuffled"

\* advance_street and showdown deal a community card; a hand may end without.
DealBoardCard ==
  /\ undealt > 0
  /\ top' = top + 1
  /\ dealt' = Append(dealt, cards[top + 1])
  /\ undealt' = undealt - 1
  /\ UNCHANGED <<cards, rebuilt>>

\* Mutant: the cards not dealt are put at the front.
try_from_remaining_front(rest) ==
  [i \in Card |-> IF i <= Len(rest) THEN rest[i] ELSE i]

\* try_from_remaining: a new deck whose end is overwritten with the rest.
try_from_remaining(rest) ==
  [i \in Card |-> IF i <= DeckSize - Len(rest) THEN i ELSE rest[i - (DeckSize - Len(rest))]]

\* The table is saved and resumed between any two deals.
Resume ==
  /\ dealt # <<>>
  /\ cards' = try_from_remaining(remaining_in_order)
  /\ rebuilt' = IF rebuilt = "no" THEN "resumed" ELSE rebuilt
  /\ UNCHANGED <<top, dealt, undealt>>

Next == DealHand \/ DealBoardCard \/ Resume

Spec == Init /\ [][Next]_vars

-----------------------------------------------------------------------------
(***************************************************************************)
(* Properties.                                                             *)
(***************************************************************************)
\* No hand ends in "deck exhausted": whatever it may still deal is there.
HandNeverRunsOut == undealt <= remaining

AllDifferent(seq) == \A i, j \in 1..Len(seq) : i # j => seq[i] # seq[j]

\* The cards of a hand and the cards still to come are all different on a
\* table that was never resumed, however often its deck was shuffled, and
\* they stay so on a resumed one for as long as its deck lasts.
NoCardTwiceUntilReshuffled ==
  rebuilt # "shuffled" => AllDifferent(dealt \o remaining_in_order)

\* src/src/card.rs:266-286 (deck_has_expected_order_and_deals_52_unique_cards): a
\* deck deals no card twice, so no hand shows one twice.
HandsDealUniqueCards == AllDifferent(dealt)

=============================================================================
