------------------------------ MODULE GameState ------------------------------
(***************************************************************************)
(* The three-handed no-limit engine of src/src/game/state.rs: one action   *)
(* per public method that changes a hand.                                  *)
(*                                                                         *)
(* Chips, betting order, folds, all-ins, side pots and eliminations are    *)
(* modelled exactly, in whole chips.  Cards are not: which cards lie on    *)
(* the board matters to the engine only by their number, and the strength  *)
(* of the hands only through the order they give the live seats at the     *)
(* showdown, so Showdown picks any such order.                             *)
(*                                                                         *)
(* `outcome` is the ActionOutcome the last call returned, which is all its *)
(* caller goes by: as in apply_settled of src/src/server/session.rs, a     *)
(* street that ended is followed by the next street or by the showdown     *)
(* before any other action is applied.                                     *)
(***************************************************************************)
EXTENDS Integers, FiniteSets

CONSTANTS
  STARTING_STACK, \* chips every seat starts the tournament with
  SMALL_BLIND,    \* blind_level.small_blind; no caller ever raises the level
  BIG_BLIND       \* blind_level.big_blind

(***************************************************************************)
(* Every level of BLIND_SCHEDULE has 0 < small <= big.  A tournament       *)
(* starts with the modal stack of the imports, or 300 chips                *)
(* (modal_starting_stack, from_store in src/src/server/ws.rs), which may   *)
(* be below a blind; only the chips in play have to exceed the two blinds. *)
(***************************************************************************)
ASSUME ChipsAssumption ==
  /\ STARTING_STACK \in Nat \ {0}
  /\ SMALL_BLIND \in Nat \ {0}
  /\ BIG_BLIND \in Nat
  /\ SMALL_BLIND <= BIG_BLIND
  /\ SMALL_BLIND + BIG_BLIND < 3 * STARTING_STACK

Hero      == 0
Opponent1 == 1
Opponent2 == 2
Seat      == 0..2
None      == 3      \* Option::None where a seat is optional

Preflop == 0
Flop    == 1
Turn    == 2
River   == 3
Street  == 0..3

Outcomes == {"Undealt", "Continue", "StreetEnded", "HandEnded"}
Reasons  == {"None", "Fold", "Showdown"}

VARIABLES
  stacks,          \* chips behind, per seat
  button,          \* the dealer, who posts the small blind
  street,
  board,           \* number of community cards dealt
  street_contrib,  \* chips committed on this street, per seat
  total_contrib,   \* chips committed in this hand, per seat
  current_bet,     \* the street contribution every live seat must match
  min_raise,       \* size of the smallest full raise
  last_full_raise, \* the seat that made the last full raise, or None
  acted,           \* seats that acted on this street
  folded,
  all_in,
  eliminated,      \* seats that busted in an earlier hand
  to_act,
  hand_over,
  hand_result,     \* reason, awards and returns of a finished hand
  outcome          \* what the last call returned; "Undealt" before any hand

betting == <<street_contrib, total_contrib, current_bet, min_raise,
             last_full_raise, acted, folded, all_in>>

vars == <<stacks, button, street, board, betting, eliminated, to_act,
          hand_over, hand_result, outcome>>

(***************************************************************************)
(* Helpers.                                                                *)
(***************************************************************************)
Lesser(m, n)  == IF m <= n THEN m ELSE n
Greater(m, n) == IF m >= n THEN m ELSE n

NoChips == [s \in Seat |-> 0]
NoSeat  == [s \in Seat |-> FALSE]
Total(chips) == chips[0] + chips[1] + chips[2]

NoResult == [reason |-> "None", awards |-> NoChips, returns |-> NoChips]

\* Seat::next: the seat to the left.
Left(s) == (s + 1) % 3

\* The next seat clockwise that has not been eliminated.
next_active(s) ==
  IF ~eliminated[Left(s)] THEN Left(s)
  ELSE IF ~eliminated[Left(Left(s))] THEN Left(Left(s))
  ELSE s

active_seats == {s \in Seat : ~eliminated[s]}

\* Seats still in the hand, given who has folded.
Live(fold) == {s \in Seat : ~fold[s] /\ ~eliminated[s]}

active_players == Live(folded)

\* Seats that can still put chips in, given who folded and who is all in.
AbleToBet(fold, allin) == {s \in Live(fold) : ~allin[s]}

(***************************************************************************)
(* The acting order of a street: the seat left of the big blind opens      *)
(* before the flop, the big blind after it.                                *)
(***************************************************************************)
action_order(btn, bb, st) ==
  LET third == IF \E s \in Seat : s \notin {btn, bb}
               THEN CHOOSE s \in Seat : s \notin {btn, bb} ELSE btn
  IN IF st = Preflop THEN <<third, btn, bb>> ELSE <<bb, third, btn>>

\* The first seat of the order that can bet; the order's head if none can.
first_to_act(order, able) ==
  IF order[1] \in able THEN order[1]
  ELSE IF order[2] \in able THEN order[2]
  ELSE IF order[3] \in able THEN order[3]
  ELSE order[1]

\* Mutant: the actor is asked again and again.
advance_to_act_stuck(able) == to_act

\* Mutant: seats that cannot bet are not skipped.
advance_to_act_no_skip(able) == Left(to_act)

\* The next seat clockwise that can bet, or the same seat if none can.
advance_to_act(able) ==
  IF Left(to_act) \in able THEN Left(to_act)
  ELSE IF Left(Left(to_act)) \in able THEN Left(Left(to_act))
  ELSE to_act

\* A street closes once every seat that can bet has acted and matched the bet.
round_complete(able, contrib, bet, done) ==
  \A s \in able : contrib[s] = bet /\ done[s]

can_continue_betting == Cardinality(AbleToBet(folded, all_in)) >= 2

(***************************************************************************)
(* legal_actions: what the seat to act may do, with the chip amounts.      *)
(***************************************************************************)
stack_to_act == stacks[to_act]
max_bet      == street_contrib[to_act] + stack_to_act
to_call      == Greater(current_bet - street_contrib[to_act], 0)
call_amount  == Lesser(to_call, stack_to_act)

\* Mutant: the minimum raise is taken from zero instead of the bet.
min_raise_from_zero == Lesser(min_raise, max_bet)

min_bet      == Lesser(Greater(current_bet + min_raise, BIG_BLIND), max_bet)
min_raise_to == Lesser(current_bet + min_raise, max_bet)

\* Mutant: a seat may fold with nothing to call.
can_fold_unfaced == TRUE

can_fold  == to_call > 0
can_check == to_call = 0
can_call  == to_call > 0 /\ to_call < stack_to_act
can_bet   == to_call = 0 /\ stack_to_act > 0
can_raise == to_call > 0 /\ stack_to_act > to_call /\ last_full_raise # to_act
can_all_in ==
  stack_to_act > 0 /\ (to_call = 0 \/ stack_to_act <= to_call \/ can_raise)

Plain(kind) == [kind |-> kind, amount |-> 0]
Sized(kind, n) == [kind |-> kind, amount |-> n]

\* Chips in play; no stack, bet or pot can exceed it.
ChipsInPlay == 3 * STARTING_STACK

Action ==
  {Plain(k) : k \in {"Fold", "Check", "Call", "AllIn"}}
    \cup {Sized(k, n) : k \in {"Bet", "Raise"}, n \in 0..ChipsInPlay}

\* LegalActions::allows.
allows(a) ==
  \/ a.kind = "Fold"  /\ can_fold
  \/ a.kind = "Check" /\ can_check
  \/ a.kind = "Call"  /\ can_call
  \/ a.kind = "Bet"   /\ can_bet   /\ a.amount >= min_bet      /\ a.amount <= max_bet
  \/ a.kind = "Raise" /\ can_raise /\ a.amount >= min_raise_to /\ a.amount <= max_bet
  \/ a.kind = "AllIn" /\ can_all_in

\* The chips an action moves from the stack into the pot.
Paid(a) ==
  CASE a.kind = "Call" -> call_amount
    [] a.kind \in {"Bet", "Raise"} -> a.amount - street_contrib[to_act]
    [] a.kind = "AllIn" -> stack_to_act
    [] OTHER -> 0

\* current_bet once an action is applied.
BetAfter(a) ==
  CASE a.kind \in {"Bet", "Raise"} -> a.amount
    [] a.kind = "AllIn" -> Greater(max_bet, current_bet)
    [] OTHER -> current_bet

\* Mutant: an all-in is never counted as a full raise.
FullRaiseByChoice(a) ==
  /\ a.kind \in {"Bet", "Raise"}
  /\ BetAfter(a) - current_bet >= min_raise

\* Whether an action raises by at least the minimum raise and so reopens
\* the betting for every other seat.
FullRaise(a) ==
  /\ BetAfter(a) > current_bet
  /\ BetAfter(a) - current_bet >= min_raise

(***************************************************************************)
(* GameState::new, with the stacks the session sets right after it.        *)
(***************************************************************************)
Init ==
  /\ stacks = [s \in Seat |-> STARTING_STACK]
  /\ button = Hero
  /\ street = Preflop
  /\ board = 0
  /\ street_contrib = NoChips
  /\ total_contrib = NoChips
  /\ current_bet = 0
  /\ min_raise = BIG_BLIND
  /\ last_full_raise = None
  /\ acted = NoSeat
  /\ folded = NoSeat
  /\ all_in = NoSeat
  /\ eliminated = NoSeat
  /\ to_act = Hero
  /\ hand_over = FALSE
  /\ hand_result = NoResult
  /\ outcome = "Undealt"

(***************************************************************************)
(* start_hand: clears the last hand and posts the blinds, a short stack    *)
(* posting all it has.                                                     *)
(***************************************************************************)
\* Mutant: a blind is posted in full by a stack that does not have it.
PostedInFull(btn, bb, s) ==
  IF s = btn THEN SMALL_BLIND ELSE IF s = bb THEN BIG_BLIND ELSE 0

Posted(btn, bb, s) ==
  IF s = btn THEN Lesser(SMALL_BLIND, stacks[s])
  ELSE IF s = bb THEN Lesser(BIG_BLIND, stacks[s])
  ELSE 0

start_hand(btn, bb) ==
  LET posted == [s \in Seat |-> Posted(btn, bb, s)]
  IN
  /\ Cardinality(active_seats) >= 2
  /\ button' = btn
  /\ street' = Preflop
  /\ board' = 0
  /\ stacks' = [s \in Seat |-> stacks[s] - posted[s]]
  /\ street_contrib' = posted
  /\ total_contrib' = posted
  /\ current_bet' = Greater(posted[btn], posted[bb])
  /\ min_raise' = BIG_BLIND
  /\ last_full_raise' = None
  /\ acted' = NoSeat
  /\ folded' = NoSeat
  /\ all_in' = [s \in Seat |-> s \in {btn, bb} /\ posted[s] = stacks[s]]
  /\ to_act' = first_to_act(action_order(btn, bb, Preflop),
                            AbleToBet(folded', all_in'))
  /\ hand_over' = FALSE
  /\ hand_result' = NoResult
  /\ outcome' = "Continue"
  /\ UNCHANGED eliminated

\* The first hand: start_hand with the button where new() put it.
FirstHand ==
  /\ outcome = "Undealt"
  /\ start_hand(button, next_active(button))

\* next_hand: the button moves to the next active seat.
NextHand ==
  /\ hand_over
  /\ LET btn == next_active(button)
     IN start_hand(btn, next_active(btn))

(***************************************************************************)
(* Paying out.  mark_eliminated runs after every award: whoever is left    *)
(* without chips is out of the tournament.                                 *)
(***************************************************************************)
\* Mutant: whoever was all in is out, winners included.
mark_eliminated_all_in(paid) == [s \in Seat |-> eliminated[s] \/ all_in[s]]

mark_eliminated(paid) == [s \in Seat |-> eliminated[s] \/ paid[s] = 0]

finish_hand(paid, result) ==
  /\ stacks' = paid
  /\ eliminated' = mark_eliminated(paid)
  /\ hand_over' = TRUE
  /\ hand_result' = result
  /\ outcome' = "HandEnded"

\* Mutant: the winner's own chips are not given back.
award_fold_win_without_own(winner, behind, contrib) ==
  finish_hand([behind EXCEPT ![winner] = @ + Total(contrib) - contrib[winner]],
              [reason  |-> "Fold",
               awards  |-> [NoChips EXCEPT ![winner] = Total(contrib)],
               returns |-> NoChips])

\* award_fold_win: the last live seat takes every chip committed.
award_fold_win(winner, behind, contrib) ==
  finish_hand([behind EXCEPT ![winner] = @ + Total(contrib)],
              [reason  |-> "Fold",
               awards  |-> [NoChips EXCEPT ![winner] = Total(contrib)],
               returns |-> NoChips])

(***************************************************************************)
(* apply_action: the seat to act folds, checks, calls, bets, raises or     *)
(* goes all in.                                                            *)
(***************************************************************************)
apply_action(a) ==
  LET behind == [stacks EXCEPT ![to_act] = @ - Paid(a)]
      fold   == [folded EXCEPT ![to_act] = @ \/ a.kind = "Fold"]
      able   == AbleToBet(fold, all_in')
  IN
  /\ outcome = "Continue"
  /\ ~hand_over
  /\ allows(a)
  /\ folded' = fold
  /\ acted' = [acted EXCEPT ![to_act] = TRUE]
  /\ street_contrib' = [street_contrib EXCEPT ![to_act] = @ + Paid(a)]
  /\ total_contrib' = [total_contrib EXCEPT ![to_act] = @ + Paid(a)]
  /\ all_in' = [all_in EXCEPT ![to_act] =
                  @ \/ (a.kind \notin {"Fold", "Check"} /\ behind[to_act] = 0)]
  /\ current_bet' = BetAfter(a)
  /\ min_raise' = IF FullRaise(a) THEN BetAfter(a) - current_bet ELSE min_raise
  /\ last_full_raise' = IF FullRaise(a) THEN to_act ELSE last_full_raise
  /\ UNCHANGED <<button, street, board>>
  /\ \/ /\ Cardinality(Live(fold)) = 1
        /\ \E winner \in Live(fold) : award_fold_win(winner, behind, total_contrib')
        /\ UNCHANGED to_act
     \/ /\ Cardinality(Live(fold)) # 1
        /\ stacks' = behind
        /\ to_act' = advance_to_act(able)
        /\ outcome' = IF round_complete(able, street_contrib', current_bet', acted')
                       THEN "StreetEnded" ELSE "Continue"
        /\ UNCHANGED <<eliminated, hand_over, hand_result>>

ApplyAction == \E a \in Action : apply_action(a)

(***************************************************************************)
(* advance_street: the next street is dealt and its betting opened.        *)
(* apply_settled calls it when two seats can still bet, short of the river.*)
(***************************************************************************)
CardsAfter(st) == CASE st = Flop -> 3 [] st = Turn -> 4 [] st = River -> 5 [] OTHER -> 0

AdvanceStreet ==
  /\ outcome = "StreetEnded"
  /\ ~hand_over
  /\ can_continue_betting
  /\ street # River
  /\ street' = street + 1
  /\ board' = board + CardsAfter(street') - CardsAfter(street)
  /\ street_contrib' = NoChips
  /\ current_bet' = 0
  /\ min_raise' = BIG_BLIND
  /\ last_full_raise' = None
  /\ acted' = NoSeat
  /\ to_act' = first_to_act(action_order(button, next_active(button), street'),
                            AbleToBet(folded, all_in))
  /\ outcome' = "Continue"
  /\ UNCHANGED <<stacks, button, total_contrib, folded, all_in, eliminated,
                 hand_over, hand_result>>

(***************************************************************************)
(* compute_pots: the contributions are cut at the level of each seat, and  *)
(* the chips between two levels make a pot for the live seats that reach   *)
(* the upper one.  Level(k) is the k-th smallest contribution, so two      *)
(* equal contributions leave an empty pot where the code removes the       *)
(* duplicate level.                                                        *)
(***************************************************************************)
Pots == 1..3

LowestOf(c)  == Lesser(c[0], Lesser(c[1], c[2]))
HighestOf(c) == Greater(c[0], Greater(c[1], c[2]))

Level(k) ==
  CASE k = 1 -> LowestOf(total_contrib)
    [] k = 2 -> Total(total_contrib) - LowestOf(total_contrib) - HighestOf(total_contrib)
    [] k = 3 -> HighestOf(total_contrib)
    [] OTHER -> 0

\* The chips of seat s in pot k.
Slice(k, s) == IF total_contrib[s] >= Level(k) THEN Level(k) - Level(k - 1) ELSE 0

PotAmount(k) == Slice(k, 0) + Slice(k, 1) + Slice(k, 2)

\* Mutant: every live seat contests every pot.
EligibleAtAnyLevel(k) == active_players

Eligible(k) == {s \in active_players : total_contrib[s] >= Level(k)}

(***************************************************************************)
(* showdown: the board is dealt out and each pot goes to its best hands.   *)
(* A pot with one eligible seat goes back to it as a return.  `rank` is    *)
(* the order of the hands, ties included.  A split pot's odd chips go to   *)
(* the first winner in seat order.                                         *)
(***************************************************************************)
Ranking ==
  {rank \in [Seat -> 1..3] : \A s \in Seat : rank[s] = 1 \/ \E t \in Seat : rank[t] = rank[s] - 1}

Winners(k, rank) ==
  {s \in Eligible(k) : \A t \in Eligible(k) : rank[t] <= rank[s]}

\* Mutant: the odd chips of a split pot are dropped.
ShareRoundedDown(k, rank, s) ==
  LET won == Winners(k, rank)
  IN IF s \notin won THEN 0 ELSE PotAmount(k) \div Cardinality(won)

Share(k, rank, s) ==
  LET won == Winners(k, rank)
  IN IF s \notin won THEN 0
     ELSE PotAmount(k) \div Cardinality(won)
          + IF \A t \in won : s <= t THEN PotAmount(k) % Cardinality(won) ELSE 0

Awarded(k, rank, s)  == IF Cardinality(Eligible(k)) = 1 THEN 0 ELSE Share(k, rank, s)
Returned(k, rank, s) == IF Cardinality(Eligible(k)) = 1 THEN Share(k, rank, s) ELSE 0

showdown(rank) ==
  LET awards  == [s \in Seat |-> Awarded(1, rank, s) + Awarded(2, rank, s) + Awarded(3, rank, s)]
      returns == [s \in Seat |-> Returned(1, rank, s) + Returned(2, rank, s) + Returned(3, rank, s)]
  IN
  /\ outcome = "StreetEnded"
  /\ ~hand_over
  /\ ~(can_continue_betting /\ street # River)
  /\ board' = 5
  /\ finish_hand([s \in Seat |-> stacks[s] + awards[s] + returns[s]],
                 [reason |-> "Showdown", awards |-> awards, returns |-> returns])
  /\ UNCHANGED <<button, street, betting, to_act>>

Showdown == \E rank \in Ranking : showdown(rank)

(***************************************************************************)
(* The last seat with chips has won: no hand can be dealt any more.        *)
(***************************************************************************)
TournamentOver ==
  /\ hand_over
  /\ Cardinality(active_seats) = 1
  /\ UNCHANGED vars

Next ==
  \/ FirstHand
  \/ NextHand
  \/ ApplyAction
  \/ AdvanceStreet
  \/ Showdown
  \/ TournamentOver

Spec == Init /\ [][Next]_vars

-----------------------------------------------------------------------------
(***************************************************************************)
(* Properties.                                                             *)
(***************************************************************************)
Chips == 0..ChipsInPlay

ResultType == [reason : Reasons, awards : [Seat -> Chips], returns : [Seat -> Chips]]

\* Type correctness.  No amount ever exceeds the chips of the tournament or
\* falls below zero, so none of the code's u32 subtractions wraps around.
TypeOK ==
  /\ stacks \in [Seat -> Chips]
  /\ button \in Seat
  /\ street \in Street
  /\ board \in 0..5
  /\ street_contrib \in [Seat -> Chips]
  /\ total_contrib \in [Seat -> Chips]
  /\ current_bet \in Chips
  /\ min_raise \in 1..ChipsInPlay
  /\ last_full_raise \in Seat \cup {None}
  /\ acted \in [Seat -> BOOLEAN]
  /\ folded \in [Seat -> BOOLEAN]
  /\ all_in \in [Seat -> BOOLEAN]
  /\ eliminated \in [Seat -> BOOLEAN]
  /\ to_act \in Seat
  /\ hand_over \in BOOLEAN
  /\ hand_result \in ResultType
  /\ outcome \in Outcomes

InHand == outcome \in {"Continue", "StreetEnded"}

\* No chip is created or lost: what the seats hold and what lies in the pot
\* of the hand being played add up to what the tournament started with.
\* A side pot nobody is eligible for, an odd chip of a split pot or a blind
\* posted by a short stack would show here.
ChipsConserved ==
  Total(stacks) + (IF InHand THEN Total(total_contrib) ELSE 0) = ChipsInPlay

\* While a hand is played, some live seat has contributed as much as any
\* other: every pot compute_pots cuts has an eligible seat, whatever the
\* folds and short all-ins before it, and the showdown leaves no chips.
EveryPotHasAClaimant ==
  InHand => \E s \in active_players : \A t \in Seat : total_contrib[t] <= total_contrib[s]

\* The bet to match is the highest street contribution.
BetIsTheHighest ==
  InHand => current_bet = HighestOf(street_contrib)

\* The seat asked to act can and must act: it is live, has chips, and has
\* not yet matched the bet with an action of its own.  Otherwise the pump
\* would ask a folded, busted or settled seat, or pass over one.
ActorIsPending ==
  outcome = "Continue" =>
    /\ to_act \in AbleToBet(folded, all_in)
    /\ street_contrib[to_act] # current_bet \/ ~acted[to_act]

\* When a street closes, all live seats that still have chips have put the
\* same amount in the hand, and no all-in seat more than they.
StreetClosesLevel ==
  outcome = "StreetEnded" =>
    \A s \in AbleToBet(folded, all_in) : \A t \in active_players :
      total_contrib[t] <= total_contrib[s]

\* A seat is all in exactly when its last chip is in the pot of the hand
\* being played; a busted seat holds nothing and is dealt nothing in.
AllInMeansNoChips ==
  InHand => \A s \in Seat :
    /\ stacks[s] = 0 <=> all_in[s] \/ eliminated[s]
    /\ eliminated[s] => ~all_in[s] /\ total_contrib[s] = 0

\* After a hand the busted seats are exactly the seats without chips, and
\* somebody is left.
BustedMeansNoChips ==
  hand_over =>
    /\ \A s \in Seat : eliminated[s] <=> stacks[s] = 0
    /\ active_seats # {}

\* Every action legal_actions offers can be paid from the stack, and every
\* bet or raise goes above the bet it raises.
LegalActionsArePayable ==
  outcome = "Continue" =>
    \A a \in Action : allows(a) =>
      /\ Paid(a) \in 0..stack_to_act
      /\ a.kind \in {"Bet", "Raise"} => a.amount > current_bet

\* What seat s could at most take: from every seat, as much as s itself put in.
Cover(s) == Lesser(total_contrib[0], total_contrib[s])
            + Lesser(total_contrib[1], total_contrib[s])
            + Lesser(total_contrib[2], total_contrib[s])

\* A finished hand pays whom it should: a short all-in never wins more from a
\* seat than it put in itself, a seat that folded takes nothing, and some pot is
\* won, so that log_hand_result never falls back to naming the hero.
PayoutsAreCovered ==
  hand_over =>
    /\ \E s \in Seat : hand_result.awards[s] > 0
    /\ \A s \in Seat :
         LET paid == hand_result.awards[s] + hand_result.returns[s]
         IN paid <= Cover(s) /\ (folded[s] => paid = 0)

\* A seat that is out stays out: it never gets chips again.
BustedStayOut ==
  [][\A s \in Seat : eliminated[s] => eliminated'[s] /\ stacks'[s] = 0]_vars

\* Every hand comes to an end, whatever the seats do.
HandsEnd == InHand ~> hand_over

-----------------------------------------------------------------------------
(***************************************************************************)
(* The inductive invariant behind these properties.                        *)
(*                                                                         *)
(* Base(s) is what seat s brought into the current street.  The seats that *)
(* can still bet all brought the most, and so did the seat that holds the  *)
(* current bet: that is why a fold, which needs a bet to face, never       *)
(* removes the last claimant of a pot.                                     *)
(***************************************************************************)
Base(s) == total_contrib[s] - street_contrib[s]

Deepest(s) == \A t \in Seat : Base(t) <= Base(s)

Able == AbleToBet(folded, all_in)

\* The seats that still have to act before the street closes.
Pending == {s \in Able : street_contrib[s] # current_bet \/ ~acted[s]}

HandInv ==
  /\ ~hand_over
  /\ board = CardsAfter(street)
  /\ \E s, t \in active_players : s # t
  /\ \A s \in Seat : /\ street_contrib[s] <= total_contrib[s]
                     /\ street_contrib[s] <= current_bet
  /\ \A s \in Able : Deepest(s)
  /\ \E s \in active_players : street_contrib[s] = current_bet /\ Deepest(s)
  /\ \A s \in Seat : /\ stacks[s] = 0 <=> all_in[s] \/ eliminated[s]
                     /\ eliminated[s] => ~all_in[s] /\ total_contrib[s] = 0

\* The pending seats sit in acting order right behind the actor: no settled
\* seat that can bet lies between it and a pending one.
TurnInv ==
  /\ outcome = "Continue" =>
       /\ to_act \in Pending
       /\ Left(to_act) \in Able /\ Left(Left(to_act)) \in Pending
            => Left(to_act) \in Pending
  /\ outcome = "StreetEnded" => Pending = {}

BetweenHandsInv ==
  /\ \A s \in Seat : eliminated[s] <=> stacks[s] = 0
  /\ hand_over <=> outcome = "HandEnded"
  /\ outcome = "Undealt" => ~eliminated[button]

IInv ==
  /\ TypeOK
  /\ ChipsConserved
  /\ InHand => HandInv
  /\ TurnInv
  /\ ~InHand => BetweenHandsInv

=============================================================================
