------------------------------ MODULE Evaluator ------------------------------
(***************************************************************************)
(* Cards, hand classes and the strength of a hand: src/src/eval.rs, the    *)
(* starting hands of src/src/range/hands.rs, and the tiers playouts are    *)
(* steered by, src/src/mcts/rollout.rs.  A set of ranks is the code's bit  *)
(* mask, so a card that is given twice counts once, as it does there.      *)
(***************************************************************************)
EXTENDS Integers, Sequences, SequencesExt, FiniteSetsExt

Rank == 0 .. 12     \* Two up to Ace
Suit == 0 .. 3      \* clubs, diamonds, hearts, spades
Card == Suit \X Rank

suit(card) == card[1]
rank(card) == card[2]

(***************************************************************************)
(* eval.rs.                                                                *)
(***************************************************************************)
\* The order of the classes is that of the enum.
HandClass == <<"HighCard", "Pair", "TwoPair", "Trips", "Straight", "Flush",
               "FullHouse", "Quads", "StraightFlush">>

\* The first k of a sequence of ranks; what is missing is packed as 0.
Padded(ranks, k) == [i \in 1 .. k |-> IF i <= Len(ranks) THEN ranks[i] ELSE 0]

\* An evaluation is one number: the class, and four bits for each of five ranks.
pack(class, ranks) ==
  FoldLeft(LAMBDA value, r : 16 * value + r, class, Padded(ranks, 5))

class(eval) == eval \div 16^5

Downwards(ranks) == SetToSortSeq(ranks, LAMBDA a, b : a > b)

WHEEL == {12, 0, 1, 2, 3}

\* Mutant: the ace only counts high.
straight_high_no_wheel(mask) == {r + 4 : r \in {q \in Rank : q .. q + 4 \subseteq mask}}

\* The top of the highest straight, if there is one.
straight_high(mask) ==
  LET runs == {r + 4 : r \in {q \in Rank : q .. q + 4 \subseteq mask}} IN
  IF runs # {} THEN {Max(runs)} ELSE IF WHEEL \subseteq mask THEN {3} ELSE {}

\* evaluate: the first class that fits, and the ranks that decide within it.
evaluate(cards) ==
  LET mask == [s \in Suit |-> {rank(c) : c \in {d \in cards : suit(d) = s}}]
      ranks == {rank(c) : c \in cards}
      counted(n) == {r \in ranks : Cardinality({s \in Suit : r \in mask[s]}) = n}
      trips == Downwards(counted(3))
      pairs == Downwards(counted(2))
      flushes == {mask[s] : s \in {t \in Suit : Cardinality(mask[t]) >= 5}}
      \* top_k: the highest kickers beside the ranks already named.
      with(named, k) == named \o Padded(Downwards(ranks \ ToSet(named)), k)
      full == (IF trips = <<>> THEN <<>> ELSE Tail(trips)) \o pairs
      fits == <<{pack(8, <<h>>) : h \in UNION {straight_high(f) : f \in flushes}},
                {pack(7, with(<<q>>, 1)) : q \in counted(4)},
                {pack(6, <<trips[1], full[1]>>) : t \in {1} \cap DOMAIN trips \cap DOMAIN full},
                {pack(5, Downwards(f)) : f \in flushes},
                {pack(4, <<h>>) : h \in straight_high(ranks)},
                {pack(3, with(trips, 2)) : t \in {1} \cap DOMAIN trips},
                {pack(2, with(SubSeq(pairs, 1, 2), 1)) : t \in {2} \cap DOMAIN pairs},
                {pack(1, with(pairs, 3)) : t \in {1} \cap DOMAIN pairs},
                {pack(0, with(<<>>, 5))}>>
  IN CHOOSE value \in fits[Min({i \in DOMAIN fits : fits[i] # {}})] : TRUE

\* best_hand: the cards not on the board yet are filled up with this one.
Placeholder == <<0, 0>>

best_hand(hole, board) ==
  evaluate(ToSet(hole) \cup board \cup IF Cardinality(board) < 5 THEN {Placeholder} ELSE {})

(***************************************************************************)
(* Starting hands.                                                         *)
(***************************************************************************)
Hand(high, low, suited) == [high |-> high, low |-> low, suited |-> suited]

HAND_COUNT == 169

matrix_index(r) == 12 - r

from_index(index) ==
  LET row == matrix_index(index \div 13)
      col == matrix_index(index % 13)
  IN Hand(Max({row, col}), Min({row, col}), row > col)

index(hand) ==
  LET hi == matrix_index(hand.high)
      lo == matrix_index(hand.low)
  IN IF hand.suited THEN hi * 13 + lo ELSE lo * 13 + hi

from_cards(a, b) ==
  Hand(Max({rank(a), rank(b)}), Min({rank(a), rank(b)}),
       rank(a) # rank(b) /\ suit(a) = suit(b))

combos(hand) == IF hand.high = hand.low THEN 6 ELSE IF hand.suited THEN 4 ELSE 12

\* combos_of, as a set; a holding is a pair of cards.
combos_of(hand) ==
  {<<<<st[1], hand.high>>, <<st[2], hand.low>>>> : st \in
     {suits \in Suit \X Suit :
        IF hand.suited THEN suits[1] = suits[2]
        ELSE IF hand.high = hand.low THEN suits[1] < suits[2] ELSE suits[1] # suits[2]}}

\* chen_score, in halves.
chen_score(hand) ==
  LET high == CASE hand.high = 12 -> 20 [] hand.high = 11 -> 16
                [] hand.high = 10 -> 14 [] hand.high = 9 -> 12
                [] OTHER -> hand.high + 2
      gap == hand.high - hand.low - 1
      penalty == IF gap > 3 THEN 10 ELSE <<0, 2, 4, 8>>[gap + 1]
  IN IF gap < 0 THEN Max({2 * high, 10})
     ELSE Max({0, high + (IF hand.suited THEN 4 ELSE 0) - penalty
                    + (IF gap <= 1 /\ hand.high <= 9 THEN 2 ELSE 0)})

\* chen_prior, before it is divided by its sum: every class keeps a share.
chen_prior == [i \in 0 .. HAND_COUNT - 1 |-> chen_score(from_index(i)) + 2]

(***************************************************************************)
(* The tiers of a playout, in tenths: 0 to 40.                             *)
(***************************************************************************)
preflop_tier(hole) == Min({40, chen_score(from_cards(hole[1], hole[2]))})

strength_tier(c) == <<0, 10, 20, 20, 30, 30, 35, 35, 40>>[c + 1]

tier_for(hole, board) ==
  IF board = {} THEN preflop_tier(hole) ELSE strength_tier(class(best_hand(hole, board)))

\* In halves: a tie is half a win.
Beats(a, b) == IF a > b THEN 2 ELSE IF a = b THEN 1 ELSE 0

\* The share of the live opponents the hero is ahead of.
relative_strength(hero, opponents, board) ==
  LET ahead(hole) == IF board = {} THEN Beats(preflop_tier(hero), preflop_tier(hole))
                     ELSE Beats(best_hand(hero, board), best_hand(hole, board))
  IN IF opponents = {} THEN 40
     ELSE (20 * MapThenSumSet(ahead, opponents)) \div Cardinality(opponents)

=============================================================================
