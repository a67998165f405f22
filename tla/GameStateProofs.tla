--------------------------- MODULE GameStateProofs ---------------------------
(***************************************************************************)
(* Proofs about the engine of module GameState, for every starting stack   *)
(* and every blind level that ChipsAssumption allows.                      *)
(***************************************************************************)
EXTENDS GameState, FiniteSetTheorems, TLAPS

(***************************************************************************)
(* Arithmetic of the three seats.                                          *)
(***************************************************************************)

\* Going left visits the three seats in turn.
LEMMA LeftFacts ==
  ASSUME NEW s \in Seat
  PROVE  /\ Left(s) \in Seat
         /\ Left(Left(s)) \in Seat
         /\ Left(s) # s
         /\ Left(Left(s)) # s
         /\ Left(Left(s)) # Left(s)
         /\ Left(Left(Left(s))) = s
         /\ \A t \in Seat : t \in {s, Left(s), Left(Left(s))}
BY DEF Seat, Left

\* A set of seats is finite.
LEMMA SeatSetsAreFinite ==
  ASSUME NEW S \in SUBSET Seat
  PROVE  IsFiniteSet(S) /\ Cardinality(S) \in Nat
<1>0. 0 \in Int /\ 2 \in Int
  OBVIOUS
<1>1. IsFiniteSet(Seat)
  BY <1>0, FS_Interval, Zenon DEF Seat
<1>2. IsFiniteSet(S)
  BY <1>1, FS_Subset
<1>. QED
  BY <1>2, FS_CardinalityType

\* At least two seats: two different ones.
LEMMA TwoSeats ==
  ASSUME NEW S \in SUBSET Seat
  PROVE  Cardinality(S) >= 2 <=> \E s, t \in S : s # t
<1>1. IsFiniteSet(S) /\ Cardinality(S) \in Nat
  BY SeatSetsAreFinite
<1>2. Cardinality(S) = 0 <=> S = {}
  BY <1>1, FS_EmptySet
<1>3. Cardinality(S) = 1 <=> \E x : S = {x}
  BY <1>1, FS_Singleton
<1>4. (\E s, t \in S : s # t) <=> S # {} /\ ~\E x : S = {x}
  OBVIOUS
<1>. QED
  BY <1>1, <1>2, <1>3, <1>4

\* Exactly one seat.
LEMMA OneSeat ==
  ASSUME NEW S \in SUBSET Seat
  PROVE  Cardinality(S) = 1 <=> \E x \in Seat : S = {x}
<1>1. IsFiniteSet(S)
  BY SeatSetsAreFinite
<1>. QED
  BY <1>1, FS_Singleton

(***************************************************************************)
(* The chips an action moves.                                              *)
(***************************************************************************)

\* What a legal action pays, and what it leaves the bet at: it never pays
\* more than the stack; an action that raises pays up to the new bet; one
\* that does not either matches the bet, takes the last chip, or is a fold
\* in the face of a higher bet.
LEMMA LegalActionPays ==
  ASSUME IInv, outcome = "Continue", NEW a \in Action, allows(a)
  PROVE  /\ Paid(a) \in 0..stacks[to_act]
         /\ BetAfter(a) \in Nat
         /\ BetAfter(a) >= current_bet
         /\ street_contrib[to_act] + Paid(a) <= BetAfter(a)
         /\ BetAfter(a) > current_bet => street_contrib[to_act] + Paid(a) = BetAfter(a)
         /\ a.kind \in {"Fold", "Check"} => Paid(a) = 0 /\ BetAfter(a) = current_bet
         /\ a.kind = "Fold" => street_contrib[to_act] < current_bet
         /\ a.kind = "Fold" \/ Paid(a) = stacks[to_act]
              \/ street_contrib[to_act] + Paid(a) = BetAfter(a)
<1>1. /\ to_act \in Seat
      /\ stacks[to_act] \in Nat
      /\ street_contrib[to_act] \in Nat
      /\ current_bet \in Nat
      /\ min_raise \in Nat \ {0}
      /\ street_contrib[to_act] <= current_bet
      /\ BIG_BLIND \in Nat
  BY ChipsAssumption DEF IInv, TypeOK, HandInv, InHand, Chips, ChipsInPlay
<1>2. /\ a.kind \in {"Fold", "Check", "Call", "Bet", "Raise", "AllIn"}
      /\ a.amount \in Nat
  BY ChipsAssumption DEF Action, Plain, Sized, ChipsInPlay
<1>3. CASE a.kind \in {"Fold", "Check"}
  BY <1>1, <1>3 DEF allows, Paid, BetAfter, can_fold, can_check, to_call, Greater
<1>4. CASE a.kind = "Call"
  BY <1>1, <1>4 DEF allows, Paid, BetAfter, can_call, to_call, call_amount,
                    stack_to_act, Greater, Lesser
<1>5. CASE a.kind = "Bet"
  BY <1>1, <1>2, <1>5 DEF allows, Paid, BetAfter, can_bet, to_call, min_bet, max_bet,
                    stack_to_act, Greater, Lesser
<1>6. CASE a.kind = "Raise"
  BY <1>1, <1>2, <1>6 DEF allows, Paid, BetAfter, can_raise, to_call, min_raise_to, max_bet,
                    stack_to_act, Greater, Lesser
<1>7. CASE a.kind = "AllIn"
  BY <1>1, <1>7 DEF allows, Paid, BetAfter, can_all_in, can_raise, to_call, max_bet,
                    stack_to_act, Greater, Lesser
<1>. QED
  BY <1>2, <1>3, <1>4, <1>5, <1>6, <1>7

(***************************************************************************)
(* Positions.                                                              *)
(***************************************************************************)

\* With two active seats left, the next active seat is another one.
LEMMA NextActiveFacts ==
  ASSUME eliminated \in [Seat -> BOOLEAN], Cardinality(active_seats) >= 2,
         NEW s \in Seat
  PROVE  /\ next_active(s) \in Seat
         /\ next_active(s) # s
         /\ ~eliminated[next_active(s)]
<1>1. \E t, u \in active_seats : t # u
  BY TwoSeats DEF active_seats
<1>2. PICK t \in Seat : t # s /\ ~eliminated[t]
  BY <1>1 DEF active_seats
<1>. QED
  BY <1>2, LeftFacts DEF next_active

\* The acting order holds every seat, so the first to act can bet if any can.
LEMMA FirstToActCanBet ==
  ASSUME NEW btn \in Seat, NEW bb \in Seat, btn # bb, NEW st,
         NEW able \in SUBSET Seat, able # {}
  PROVE  first_to_act(action_order(btn, bb, st), able) \in able
<1>. DEFINE third == CHOOSE s \in Seat : s \notin {btn, bb}
<1>1. \E s \in Seat : s \notin {btn, bb}
  BY LeftFacts
<1>2. third \in Seat /\ third \notin {btn, bb}
  BY <1>1
<1>3. \A s \in Seat : s \in {btn, bb, third}
  BY <1>2 DEF Seat
<1>4. action_order(btn, bb, st) = IF st = Preflop THEN <<third, btn, bb>>
                                  ELSE <<bb, third, btn>>
  BY <1>1 DEF action_order
<1>5. ASSUME NEW a \in Seat, NEW b \in Seat, NEW c \in Seat,
             \A s \in Seat : s \in {a, b, c}
      PROVE  first_to_act(<<a, b, c>>, able) \in able
  BY <1>5 DEF first_to_act
<1>6. first_to_act(<<third, btn, bb>>, able) \in able
  BY <1>2, <1>3, <1>5
<1>7. first_to_act(<<bb, third, btn>>, able) \in able
  BY <1>2, <1>3, <1>5
<1>. QED
  BY <1>4, <1>6, <1>7

(***************************************************************************)
(* Type correctness and conservation, and the structure of the betting     *)
(* round they rest on: one lemma per action of the engine.                 *)
(***************************************************************************)

LEMMA InitIInv == Init => IInv
<1>. SUFFICES ASSUME Init PROVE IInv
  OBVIOUS
<1>1. TypeOK
  <2>1. /\ STARTING_STACK \in Chips /\ 0 \in Chips
        /\ BIG_BLIND \in 1..ChipsInPlay
    BY ChipsAssumption DEF Chips, ChipsInPlay
  <2>2. hand_result \in ResultType
    BY <2>1 DEF Init, ResultType, NoResult, Reasons, NoChips
  <2>3. /\ stacks \in [Seat -> Chips]
        /\ street_contrib \in [Seat -> Chips]
        /\ total_contrib \in [Seat -> Chips]
    BY <2>1 DEF Init, NoChips
  <2>4. /\ acted \in [Seat -> BOOLEAN] /\ folded \in [Seat -> BOOLEAN]
        /\ all_in \in [Seat -> BOOLEAN] /\ eliminated \in [Seat -> BOOLEAN]
    BY DEF Init, NoSeat
  <2>5. /\ button \in Seat /\ to_act \in Seat /\ street \in Street /\ board \in 0..5
        /\ last_full_raise \in Seat \cup {None}
        /\ outcome \in Outcomes
    BY DEF Init, Hero, Seat, Street, Preflop, None, Outcomes
  <2>6. current_bet \in Chips /\ min_raise \in 1..ChipsInPlay
    BY <2>1 DEF Init
  <2>7. hand_over \in BOOLEAN
    BY DEF Init
  <2>. QED
    BY <2>2, <2>3, <2>4, <2>5, <2>6, <2>7 DEF TypeOK
<1>2. ChipsConserved
  BY ChipsAssumption DEF Init, ChipsConserved, InHand, Total, ChipsInPlay, Seat
<1>3. BetweenHandsInv
  BY ChipsAssumption DEF Init, BetweenHandsInv, NoSeat, Seat, Hero
<1>. QED
  BY <1>1, <1>2, <1>3 DEF Init, IInv, InHand, TurnInv

\* A hand dealt between the hands of the tournament.
LEMMA StartHandStep ==
  ASSUME IInv, ~InHand, NEW btn \in Seat, NEW bb \in Seat, btn # bb,
         ~eliminated[btn], ~eliminated[bb], start_hand(btn, bb)
  PROVE  IInv'
<1>. DEFINE posted == [s \in Seat |-> Posted(btn, bb, s)]
<1>1. /\ stacks \in [Seat -> Nat] /\ eliminated \in [Seat -> BOOLEAN]
      /\ \A s \in Seat : eliminated[s] <=> stacks[s] = 0
      /\ Total(stacks) = ChipsInPlay
      /\ \A s \in Seat : stacks[s] \in Chips
  <2>1. stacks \in [Seat -> Chips] /\ eliminated \in [Seat -> BOOLEAN]
    BY DEF IInv, TypeOK
  <2>2. stacks \in [Seat -> Nat]
    BY <2>1 DEF Chips
  <2>3. Total(stacks) \in Nat
    BY <2>2 DEF Total, Seat
  <2>4. Total(stacks) = ChipsInPlay
    BY <2>3 DEF IInv, ChipsConserved
  <2>5. \A s \in Seat : eliminated[s] <=> stacks[s] = 0
    BY DEF IInv, BetweenHandsInv
  <2>. QED
    BY <2>1, <2>2, <2>4, <2>5
<1>2. /\ posted \in [Seat -> Nat]
      /\ \A s \in Seat : posted[s] <= stacks[s]
      /\ \A s \in Seat : s \notin {btn, bb} => posted[s] = 0
      /\ \A s \in Seat : posted[s] > 0 => s \in {btn, bb}
      /\ \A s \in Seat : s \in {btn, bb} => posted[s] > 0
      /\ posted[btn] <= SMALL_BLIND /\ posted[bb] <= BIG_BLIND
  <2>1. ASSUME NEW s \in Seat
        PROVE  /\ Posted(btn, bb, s) \in Nat /\ Posted(btn, bb, s) <= stacks[s]
               /\ s \notin {btn, bb} => Posted(btn, bb, s) = 0
               /\ s \in {btn, bb} => Posted(btn, bb, s) > 0
               /\ s = btn => Posted(btn, bb, s) <= SMALL_BLIND
               /\ s = bb => Posted(btn, bb, s) <= BIG_BLIND
    BY <1>1, ChipsAssumption DEF Posted, Lesser
  <2>. QED
    BY <2>1
<1>. HIDE DEF posted
<1>3. /\ button' = btn /\ street' = Preflop /\ board' = 0
      /\ stacks' = [s \in Seat |-> stacks[s] - posted[s]]
      /\ street_contrib' = posted /\ total_contrib' = posted
      /\ current_bet' = Greater(posted[btn], posted[bb])
      /\ min_raise' = BIG_BLIND /\ last_full_raise' = None
      /\ acted' = NoSeat /\ folded' = NoSeat
      /\ all_in' = [s \in Seat |-> s \in {btn, bb} /\ posted[s] = stacks[s]]
      /\ to_act' = first_to_act(action_order(btn, bb, Preflop), AbleToBet(folded', all_in'))
      /\ hand_over' = FALSE /\ hand_result' = NoResult
      /\ outcome' = "Continue" /\ eliminated' = eliminated
  BY DEF start_hand, posted
<1>4. InHand' /\ current_bet' \in Nat /\ current_bet' <= BIG_BLIND
  BY <1>2, <1>3, ChipsAssumption DEF InHand, Greater
<1>5. \A s \in Seat : stacks'[s] = 0 <=> all_in'[s] \/ eliminated[s]
  <2>. SUFFICES ASSUME NEW s \in Seat
                PROVE  stacks'[s] = 0 <=> all_in'[s] \/ eliminated[s]
    OBVIOUS
  <2>1. /\ stacks'[s] = stacks[s] - posted[s]
        /\ all_in'[s] <=> s \in {btn, bb} /\ posted[s] = stacks[s]
        /\ stacks[s] \in Nat /\ posted[s] \in Nat
    BY <1>1, <1>2, <1>3
  <2>2. CASE s \in {btn, bb}
    BY <2>1, <2>2, <1>1
  <2>3. CASE s \notin {btn, bb}
    BY <2>1, <2>3, <1>1, <1>2
  <2>. QED
    BY <2>2, <2>3
<1>6. AbleToBet(folded', all_in') = {s \in Seat : ~eliminated[s] /\ ~all_in'[s]}
  BY <1>3 DEF AbleToBet, Live, NoSeat
<1>7. Able' = AbleToBet(folded', all_in')
  BY <1>3 DEF Able, AbleToBet, Live
<1>8. \E s \in Seat : ~eliminated[s] /\ ~all_in'[s]
  <2>. SUFFICES ASSUME \A s \in Seat : stacks'[s] = 0
                PROVE  FALSE
    BY <1>5
  <2>1. \A s \in Seat : stacks[s] = posted[s]
    BY <1>1, <1>2, <1>3
  <2>2. Total(stacks) = Total(posted)
    BY <2>1 DEF Total, Seat
  <2>3. Total(posted) <= SMALL_BLIND + BIG_BLIND
    BY <1>2, ChipsAssumption DEF Total, Seat
  <2>. QED
    BY <1>1, <2>2, <2>3, ChipsAssumption DEF ChipsInPlay
<1>9. to_act' \in Able'
  BY <1>3, <1>6, <1>7, <1>8, FirstToActCanBet
<1>10. TypeOK'
  <2>1. stacks' \in [Seat -> Chips] /\ street_contrib' \in [Seat -> Chips]
    BY <1>1, <1>2, <1>3, ChipsAssumption DEF Chips, ChipsInPlay
  <2>2. current_bet' \in Chips /\ min_raise' \in 1..ChipsInPlay
    BY <1>3, <1>4, ChipsAssumption DEF Chips, ChipsInPlay
  <2>3. to_act' \in Seat
    BY <1>6, <1>7, <1>9
  <2>4. hand_result' \in ResultType
    BY <1>3, ChipsAssumption DEF ResultType, NoResult, Reasons, NoChips, Chips, ChipsInPlay
  <2>5. /\ all_in' \in [Seat -> BOOLEAN] /\ eliminated' \in [Seat -> BOOLEAN]
        /\ acted' \in [Seat -> BOOLEAN] /\ folded' \in [Seat -> BOOLEAN]
    BY <1>1, <1>3 DEF NoSeat
  <2>6. total_contrib' \in [Seat -> Chips]
    BY <1>3, <2>1
  <2>7. /\ button' \in Seat /\ street' \in Street /\ board' \in 0..5
        /\ last_full_raise' \in Seat \cup {None}
        /\ outcome' \in Outcomes
    BY <1>3 DEF Street, Preflop, Outcomes
  <2>8. hand_over' \in BOOLEAN
    BY <1>3
  <2>. QED
    BY <2>1, <2>2, <2>3, <2>4, <2>5, <2>6, <2>7, <2>8 DEF TypeOK
<1>11. ChipsConserved'
  BY <1>1, <1>2, <1>3, <1>4 DEF ChipsConserved, Total, Seat
<1>12. HandInv'
  <2>1. active_players' = {s \in Seat : ~eliminated[s]}
    BY <1>3 DEF active_players, Live, NoSeat
  <2>2. \E s, t \in active_players' : s # t
    BY <2>1
  <2>3. \A s \in Seat : street_contrib'[s] <= total_contrib'[s] /\ street_contrib'[s] <= current_bet'
    BY <1>2, <1>3 DEF Greater
  <2>4. \A s, t \in Seat : Base(s)' = 0 /\ Base(s)' <= Base(t)'
    BY <1>2, <1>3 DEF Base
  <2>5. \A s \in Seat : Deepest(s)'
    BY <2>4 DEF Deepest
  <2>6. \E s \in active_players' : street_contrib'[s] = current_bet'
    BY <1>2, <1>3, <2>1 DEF Greater
  <2>7. \A s \in Seat : eliminated[s] => ~all_in'[s] /\ total_contrib'[s] = 0
    BY <1>1, <1>2, <1>3
  <2>8. Able' \subseteq Seat
    BY <1>6, <1>7
  <2>9. \E s \in active_players' : street_contrib'[s] = current_bet' /\ Deepest(s)'
    BY <2>1, <2>5, <2>6
  <2>10. board' = CardsAfter(street')
    BY <1>3 DEF CardsAfter, Preflop, Flop, Turn, River
  <2>. QED
    BY <1>3, <1>5, <2>1, <2>2, <2>3, <2>5, <2>7, <2>8, <2>9, <2>10 DEF HandInv
<1>13. TurnInv'
  <2>1. Able' \subseteq Pending'
    BY <1>3, <1>6, <1>7 DEF Pending, NoSeat
  <2>. QED
    BY <1>3, <1>9, <2>1 DEF TurnInv
<1>. QED
  BY <1>4, <1>10, <1>11, <1>12, <1>13 DEF IInv

\* The betting action of the seat to act: what it does to the amounts and to
\* who can bet, before it is settled who acts next.
LEMMA ApplyFacts ==
  ASSUME IInv, NEW a \in Action, apply_action(a)
  PROVE  LET behind == [stacks EXCEPT ![to_act] = @ - Paid(a)]
             fold   == [folded EXCEPT ![to_act] = @ \/ a.kind = "Fold"]
         IN /\ to_act \in Able /\ to_act \in Seat
            /\ folded' = fold /\ folded' \in [Seat -> BOOLEAN]
            /\ acted' = [acted EXCEPT ![to_act] = TRUE]
            /\ behind \in [Seat -> Nat]
            /\ street_contrib' \in [Seat -> Nat] /\ total_contrib' \in [Seat -> Nat]
            /\ all_in' \in [Seat -> BOOLEAN]
            /\ current_bet' = BetAfter(a)
            /\ Total(behind) + Total(total_contrib') = ChipsInPlay
            /\ \A s \in Seat : Base(s)' = Base(s)
            /\ \A s \in Seat : /\ street_contrib'[s] <= total_contrib'[s]
                               /\ street_contrib'[s] <= current_bet'
            /\ \A s \in Seat : s # to_act =>
                 /\ behind[s] = stacks[s]
                 /\ street_contrib'[s] = street_contrib[s]
                 /\ total_contrib'[s] = total_contrib[s]
                 /\ all_in'[s] = all_in[s]
            /\ \A s \in Seat : behind[s] = 0 <=> all_in'[s] \/ eliminated[s]
            /\ AbleToBet(fold, all_in') \subseteq Able
            /\ \A s \in Seat \ {to_act} : s \in AbleToBet(fold, all_in') <=> s \in Able
            /\ to_act \in AbleToBet(fold, all_in') => street_contrib'[to_act] = current_bet'
<1>. DEFINE behind == [stacks EXCEPT ![to_act] = @ - Paid(a)]
            fold   == [folded EXCEPT ![to_act] = @ \/ a.kind = "Fold"]
<1>1. outcome = "Continue" /\ allows(a)
  BY DEF apply_action
<1>2. /\ to_act \in Able /\ to_act \in Seat /\ Able \subseteq Seat
      /\ HandInv /\ InHand
  BY <1>1 DEF IInv, InHand, TurnInv, Pending, Able, AbleToBet, Live
<1>3. /\ stacks \in [Seat -> Nat]
      /\ street_contrib \in [Seat -> Nat]
      /\ total_contrib \in [Seat -> Nat]
      /\ current_bet \in Nat
      /\ folded \in [Seat -> BOOLEAN] /\ all_in \in [Seat -> BOOLEAN]
      /\ eliminated \in [Seat -> BOOLEAN]
      /\ Total(stacks) + Total(total_contrib) = ChipsInPlay
  BY <1>2 DEF IInv, TypeOK, Chips, ChipsConserved
<1>4. /\ Paid(a) \in 0..stacks[to_act]
      /\ BetAfter(a) \in Nat
      /\ BetAfter(a) >= current_bet
      /\ street_contrib[to_act] + Paid(a) <= BetAfter(a)
      /\ a.kind \in {"Fold", "Check"} => Paid(a) = 0 /\ BetAfter(a) = current_bet
      /\ a.kind = "Fold" \/ Paid(a) = stacks[to_act]
           \/ street_contrib[to_act] + Paid(a) = BetAfter(a)
  BY <1>1, LegalActionPays
<1>5. /\ folded' = fold
      /\ acted' = [acted EXCEPT ![to_act] = TRUE]
      /\ street_contrib' = [street_contrib EXCEPT ![to_act] = @ + Paid(a)]
      /\ total_contrib' = [total_contrib EXCEPT ![to_act] = @ + Paid(a)]
      /\ all_in' = [all_in EXCEPT ![to_act] =
                      @ \/ (a.kind \notin {"Fold", "Check"} /\ behind[to_act] = 0)]
      /\ current_bet' = BetAfter(a)
  BY DEF apply_action
<1>6. /\ behind \in [Seat -> Nat]
      /\ street_contrib' \in [Seat -> Nat] /\ total_contrib' \in [Seat -> Nat]
      /\ behind[to_act] = stacks[to_act] - Paid(a)
      /\ street_contrib'[to_act] = street_contrib[to_act] + Paid(a)
      /\ total_contrib'[to_act] = total_contrib[to_act] + Paid(a)
  BY <1>2, <1>3, <1>4, <1>5
<1>7. all_in' \in [Seat -> BOOLEAN] /\ folded' \in [Seat -> BOOLEAN]
  BY <1>3, <1>5
<1>8. \A s \in Seat : s # to_act =>
        /\ behind[s] = stacks[s]
        /\ street_contrib'[s] = street_contrib[s]
        /\ total_contrib'[s] = total_contrib[s]
        /\ all_in'[s] = all_in[s]
        /\ fold[s] = folded[s]
  BY <1>2, <1>3, <1>5
<1>9. Total(behind) + Total(total_contrib') = ChipsInPlay
  BY <1>2, <1>3, <1>4, <1>6, <1>8 DEF Total, Seat
<1>10. \A s \in Seat : Base(s)' = Base(s)
  BY <1>3, <1>4, <1>6, <1>8 DEF Base
<1>11. \A s \in Seat : /\ street_contrib'[s] <= total_contrib'[s]
                       /\ street_contrib'[s] <= current_bet'
  BY <1>2, <1>3, <1>4, <1>5, <1>6, <1>8 DEF HandInv
<1>12. all_in'[to_act] <=> (a.kind \notin {"Fold", "Check"} /\ behind[to_act] = 0)
  BY <1>2, <1>3, <1>5 DEF Able, AbleToBet
<1>13. /\ ~eliminated[to_act] /\ ~all_in[to_act] /\ ~folded[to_act]
       /\ stacks[to_act] > 0
  BY <1>2, <1>3 DEF Able, AbleToBet, Live, HandInv
<1>14. \A s \in Seat : behind[s] = 0 <=> all_in'[s] \/ eliminated[s]
  <2>1. behind[to_act] = 0 <=> all_in'[to_act] \/ eliminated[to_act]
    <3>1. CASE a.kind \in {"Fold", "Check"}
      <4>1. behind[to_act] > 0
        BY <1>3, <1>4, <1>6, <1>13, <3>1
      <4>. QED
        BY <1>12, <1>13, <3>1, <4>1
    <3>2. CASE a.kind \notin {"Fold", "Check"}
      BY <1>12, <1>13, <3>2
    <3>. QED
      BY <3>1, <3>2
  <2>2. ASSUME NEW s \in Seat, s # to_act
        PROVE  behind[s] = 0 <=> all_in'[s] \/ eliminated[s]
    BY <1>2, <1>8, <2>2 DEF HandInv
  <2>. QED
    BY <2>1, <2>2
<1>15. fold[to_act] <=> a.kind = "Fold"
  BY <1>2, <1>3, <1>13
<1>16. \A s \in Seat \ {to_act} : s \in AbleToBet(fold, all_in') <=> s \in Able
  BY <1>8 DEF Able, AbleToBet, Live
<1>17. AbleToBet(fold, all_in') \subseteq Able
  BY <1>2, <1>16 DEF AbleToBet, Live
<1>18. to_act \in AbleToBet(fold, all_in') => street_contrib'[to_act] = current_bet'
  <2>. SUFFICES ASSUME to_act \in AbleToBet(fold, all_in')
                PROVE  street_contrib'[to_act] = current_bet'
    OBVIOUS
  <2>1. a.kind # "Fold" /\ ~all_in'[to_act]
    BY <1>15 DEF AbleToBet, Live
  <2>2. Paid(a) # stacks[to_act]
    BY <1>2, <1>3, <1>4, <1>6, <1>12, <1>13, <2>1
  <2>. QED
    BY <1>4, <1>5, <1>6, <2>1, <2>2
<1>. QED
  BY <1>2, <1>5, <1>6, <1>7, <1>8, <1>9, <1>10, <1>11, <1>14, <1>16, <1>17, <1>18

\* What apply_action leaves of the betting structure when the hand goes on.
LEMMA HandGoesOn ==
  ASSUME IInv, NEW a \in Action, apply_action(a), Cardinality(Live(folded')) # 1
  PROVE  HandInv'
<1>. DEFINE behind == [stacks EXCEPT ![to_act] = @ - Paid(a)]
            fold   == [folded EXCEPT ![to_act] = @ \/ a.kind = "Fold"]
<1>1. /\ to_act \in Able /\ to_act \in Seat
      /\ folded' = fold
      /\ current_bet' = BetAfter(a)
      /\ street_contrib' \in [Seat -> Nat]
      /\ \A s \in Seat : Base(s)' = Base(s)
      /\ \A s \in Seat : /\ street_contrib'[s] <= total_contrib'[s]
                         /\ street_contrib'[s] <= current_bet'
      /\ \A s \in Seat : s # to_act =>
           /\ street_contrib'[s] = street_contrib[s]
           /\ total_contrib'[s] = total_contrib[s]
           /\ all_in'[s] = all_in[s]
      /\ \A s \in Seat : behind[s] = 0 <=> all_in'[s] \/ eliminated[s]
      /\ AbleToBet(fold, all_in') \subseteq Able
  BY ApplyFacts
<1>2. outcome = "Continue" /\ allows(a)
  BY DEF apply_action
<1>3. /\ HandInv /\ InHand
      /\ street_contrib \in [Seat -> Nat] /\ current_bet \in Nat
      /\ folded \in [Seat -> BOOLEAN]
  BY <1>2 DEF IInv, InHand, TypeOK, Chips
<1>4. stacks' = behind /\ eliminated' = eliminated /\ hand_over' = hand_over
  BY <1>1 DEF apply_action
<1>5. /\ BetAfter(a) >= current_bet /\ BetAfter(a) \in Nat
      /\ Paid(a) \in Nat
      /\ street_contrib[to_act] + Paid(a) <= BetAfter(a)
      /\ BetAfter(a) > current_bet => street_contrib[to_act] + Paid(a) = BetAfter(a)
      /\ a.kind \in {"Fold", "Check"} => BetAfter(a) = current_bet
      /\ a.kind = "Fold" => street_contrib[to_act] < current_bet
  BY <1>2, LegalActionPays
<1>6. street_contrib'[to_act] = street_contrib[to_act] + Paid(a)
  BY <1>1, <1>3 DEF apply_action
<1>7. \A s \in Seat : Deepest(s) => Deepest(s)'
  BY <1>1 DEF Deepest
<1>8. active_players' = Live(fold) /\ Able' = AbleToBet(fold, all_in')
  BY <1>1, <1>4 DEF active_players, Able, AbleToBet, Live
<1>9. \E s, t \in active_players' : s # t
  <2>1. Live(fold) \in SUBSET Seat
    BY DEF Live
  <2>2. PICK s \in active_players : s # to_act
    BY <1>3 DEF HandInv
  <2>3. s \in Live(fold) /\ s \in Seat
    BY <1>1, <1>3, <2>2 DEF active_players, Live
  <2>4. ~\E x \in Seat : Live(fold) = {x}
    BY <1>1, <2>1, OneSeat
  <2>. QED
    BY <1>8, <2>1, <2>3, <2>4
<1>10. \A s \in Able' : Deepest(s)'
  BY <1>1, <1>3, <1>7, <1>8 DEF HandInv, Able, AbleToBet, Live
<1>11. \A s \in active_players : s # to_act \/ a.kind # "Fold" => s \in active_players'
  BY <1>1, <1>3, <1>8 DEF active_players, Live
<1>12. \E s \in active_players' : street_contrib'[s] = current_bet' /\ Deepest(s)'
  <2>1. CASE BetAfter(a) > current_bet
    <3>1. to_act \in active_players /\ a.kind # "Fold"
      BY <1>1, <1>3, <1>5, <2>1 DEF Able, AbleToBet, active_players
    <3>2. Deepest(to_act)
      BY <1>1, <1>3 DEF HandInv
    <3>. QED
      BY <1>1, <1>5, <1>6, <1>7, <1>11, <2>1, <3>1, <3>2
  <2>2. CASE BetAfter(a) = current_bet
    <3>1. PICK s \in active_players : street_contrib[s] = current_bet /\ Deepest(s)
      BY <1>3 DEF HandInv
    <3>2. s \in Seat
      BY DEF active_players, Live
    <3>3. CASE s = to_act
      BY <1>1, <1>3, <1>5, <1>6, <1>7, <1>11, <2>2, <3>1, <3>2, <3>3
    <3>4. CASE s # to_act
      BY <1>1, <1>7, <1>11, <2>2, <3>1, <3>2, <3>4
    <3>. QED
      BY <3>3, <3>4
  <2>. QED
    BY <1>3, <1>5, <2>1, <2>2
<1>13. \A s \in Seat : /\ stacks'[s] = 0 <=> all_in'[s] \/ eliminated'[s]
                       /\ eliminated'[s] => ~all_in'[s] /\ total_contrib'[s] = 0
  <2>1. ~eliminated[to_act]
    BY <1>1 DEF Able, AbleToBet, Live
  <2>2. \A s \in Seat : eliminated[s] => ~all_in'[s] /\ total_contrib'[s] = 0
    BY <1>1, <1>3, <2>1 DEF HandInv
  <2>. QED
    BY <1>1, <1>4, <2>2
<1>14. board' = CardsAfter(street')
  BY <1>3 DEF HandInv, apply_action
<1>. QED
  BY <1>1, <1>3, <1>4, <1>9, <1>10, <1>12, <1>13, <1>14 DEF HandInv

\* The turn passes to the next seat that still has to act, or the street
\* closes because there is none.
LEMMA TurnPasses ==
  ASSUME IInv, NEW a \in Action, apply_action(a), Cardinality(Live(folded')) # 1
  PROVE  TurnInv' /\ InHand' /\ to_act' \in Seat
<1>. DEFINE fold == [folded EXCEPT ![to_act] = @ \/ a.kind = "Fold"]
            able == AbleToBet(fold, all_in')
            next == Left(to_act)
            last == Left(Left(to_act))
<1>1. /\ to_act \in Able /\ to_act \in Seat
      /\ folded' = fold
      /\ acted' = [acted EXCEPT ![to_act] = TRUE]
      /\ current_bet' = BetAfter(a)
      /\ \A s \in Seat : s # to_act => street_contrib'[s] = street_contrib[s]
      /\ able \subseteq Able
      /\ \A s \in Seat \ {to_act} : s \in able <=> s \in Able
      /\ to_act \in able => street_contrib'[to_act] = current_bet'
  BY ApplyFacts
<1>2. outcome = "Continue" /\ allows(a)
  BY DEF apply_action
<1>3. /\ HandInv
      /\ street_contrib \in [Seat -> Nat] /\ current_bet \in Nat
      /\ acted \in [Seat -> BOOLEAN]
  BY <1>2 DEF IInv, InHand, TypeOK, Chips
<1>4. BetAfter(a) >= current_bet /\ BetAfter(a) \in Nat
  BY <1>2, LegalActionPays
<1>5. /\ eliminated' = eliminated
      /\ to_act' = advance_to_act(able)
      /\ outcome' = IF round_complete(able, street_contrib', current_bet', acted')
                    THEN "StreetEnded" ELSE "Continue"
  BY <1>1 DEF apply_action
<1>6. /\ next \in Seat /\ last \in Seat /\ next # to_act /\ last # to_act /\ last # next
      /\ Left(next) = last /\ Left(last) = to_act
      /\ \A s \in Seat : s \in {to_act, next, last}
  BY <1>1, LeftFacts
<1>7. Able' = able
  BY <1>1, <1>5 DEF Able, AbleToBet, Live
<1>8. able \subseteq Seat
  BY DEF AbleToBet, Live
<1>9. to_act \notin Pending'
  BY <1>1, <1>3, <1>7 DEF Pending
<1>10. ASSUME NEW s \in Seat, s # to_act
       PROVE  /\ BetAfter(a) > current_bet => (s \in Pending' <=> s \in Able)
              /\ BetAfter(a) = current_bet => (s \in Pending' <=> s \in Pending)
  <2>1. /\ street_contrib'[s] = street_contrib[s] /\ acted'[s] = acted[s]
        /\ s \in able <=> s \in Able
        /\ street_contrib[s] <= current_bet /\ street_contrib[s] \in Nat
    BY <1>1, <1>3, <1>10 DEF HandInv
  <2>2. s \in Pending' <=> s \in able /\ (street_contrib[s] # BetAfter(a) \/ ~acted[s])
    BY <1>1, <1>7, <2>1 DEF Pending
  <2>3. s \in Pending <=> s \in Able /\ (street_contrib[s] # current_bet \/ ~acted[s])
    BY DEF Pending
  <2>4. BetAfter(a) > current_bet => street_contrib[s] # BetAfter(a)
    BY <1>3, <1>4, <2>1
  <2>. QED
    BY <2>1, <2>2, <2>3, <2>4
<1>11. next \in Able /\ last \in Pending => next \in Pending
  BY <1>2 DEF IInv, TurnInv
<1>12. next \in Able /\ last \in Pending' => next \in Pending'
  <2>1. CASE BetAfter(a) > current_bet
    BY <1>6, <1>10, <2>1
  <2>2. CASE BetAfter(a) = current_bet
    BY <1>6, <1>10, <1>11, <2>2
  <2>. QED
    BY <1>3, <1>4, <2>1, <2>2
<1>13. round_complete(able, street_contrib', current_bet', acted')
         <=> Pending' = {}
  BY <1>7 DEF round_complete, Pending
<1>14. CASE round_complete(able, street_contrib', current_bet', acted')
  <2>1. outcome' = "StreetEnded"
    BY <1>5, <1>14
  <2>2. to_act' \in Seat
    BY <1>1, <1>5, <1>6 DEF advance_to_act
  <2>. QED
    BY <1>13, <1>14, <2>1, <2>2 DEF TurnInv, InHand
<1>15. CASE ~round_complete(able, street_contrib', current_bet', acted')
  <2>1. outcome' = "Continue"
    BY <1>5, <1>15
  <2>2. PICK s \in Able' : s \in Pending'
    BY <1>13, <1>15 DEF Pending
  <2>3. next \in Pending' \/ last \in Pending'
    BY <1>6, <1>7, <1>8, <1>9, <2>2
  <2>4. CASE next \in able
    <3>1. to_act' = next
      BY <1>5, <2>4 DEF advance_to_act
    <3>2. next \in Pending'
      BY <1>1, <1>12, <2>3, <2>4
    <3>3. /\ to_act' \in Pending' /\ to_act' \in Seat
          /\ Left(Left(to_act')) \notin Pending'
      BY <1>6, <1>9, <3>1, <3>2
    <3>. QED
      BY <2>1, <3>3 DEF TurnInv, InHand
  <2>5. CASE next \notin able
    <3>1. last \in Pending' /\ next \notin Pending'
      BY <1>7, <2>3, <2>5 DEF Pending
    <3>2. to_act' = last
      BY <1>5, <1>7, <2>5, <3>1 DEF advance_to_act, Pending
    <3>3. /\ to_act' \in Pending' /\ to_act' \in Seat
          /\ Left(Left(to_act')) \notin Pending'
      BY <1>6, <3>1, <3>2
    <3>. QED
      BY <2>1, <3>3 DEF TurnInv, InHand
  <2>. QED
    BY <2>4, <2>5
<1>. QED
  BY <1>14, <1>15

\* Chips that add up to those in play are each within the chips in play.
LEMMA PartsOfTheChips ==
  ASSUME NEW f, f \in [Seat -> Nat], NEW n \in Nat, Total(f) <= n
  PROVE  /\ f \in [Seat -> 0..n]
         /\ Total(f) \in Nat
<1>1. /\ f[0] \in Nat /\ f[1] \in Nat /\ f[2] \in Nat
      /\ f[0] + f[1] + f[2] <= n
  BY DEF Seat, Total
<1>2. f[0] \in 0..n /\ f[1] \in 0..n /\ f[2] \in 0..n
  BY <1>1
<1>3. \A s \in Seat : s = 0 \/ s = 1 \/ s = 2
  BY DEF Seat
<1>4. \A s \in Seat : f[s] \in 0..n
  BY <1>2, <1>3
<1>. QED
  BY <1>1, <1>4 DEF Total

\* A hand ends with all chips behind and the seats without any out.
LEMMA FinishHandFacts ==
  ASSUME eliminated \in [Seat -> BOOLEAN],
         NEW paid, paid \in [Seat -> Nat], Total(paid) = ChipsInPlay,
         \A s \in Seat : eliminated[s] => paid[s] = 0,
         NEW result, finish_hand(paid, result)
  PROVE  /\ stacks' \in [Seat -> Chips]
         /\ eliminated' \in [Seat -> BOOLEAN]
         /\ hand_over' = TRUE
         /\ hand_result' = result
         /\ outcome' = "HandEnded"
         /\ ~InHand'
         /\ ChipsConserved'
         /\ BetweenHandsInv'
         /\ TurnInv'
<1>1. /\ stacks' = paid
      /\ eliminated' = [s \in Seat |-> eliminated[s] \/ paid[s] = 0]
      /\ hand_over' = TRUE
      /\ hand_result' = result
      /\ outcome' = "HandEnded"
  BY DEF finish_hand, mark_eliminated
<1>2. ChipsInPlay \in Nat
  BY ChipsAssumption DEF ChipsInPlay
<1>3. stacks' \in [Seat -> Chips] /\ Total(paid) \in Nat
  BY <1>1, <1>2, PartsOfTheChips DEF Chips
<1>4. eliminated' \in [Seat -> BOOLEAN]
  BY <1>1
<1>5. ~InHand'
  BY <1>1 DEF InHand
<1>6. ChipsConserved'
  <2>1. Total(stacks') + 0 = ChipsInPlay
    BY <1>1, <1>3
  <2>. QED
    BY <1>5, <2>1 DEF ChipsConserved, Total
<1>7. \A s \in Seat : eliminated'[s] <=> stacks'[s] = 0
  BY <1>1
<1>8. BetweenHandsInv'
  BY <1>1, <1>7 DEF BetweenHandsInv
<1>9. TurnInv'
  BY <1>1 DEF TurnInv
<1>. QED
  BY <1>1, <1>3, <1>4, <1>5, <1>6, <1>8, <1>9

\* No bet or raise exceeds the chips in play.
LEMMA RaisesStayInPlay ==
  ASSUME IInv, NEW a \in Action, apply_action(a)
  PROVE  /\ street_contrib' \in [Seat -> Chips]
         /\ total_contrib' \in [Seat -> Chips]
         /\ current_bet' \in Chips
         /\ min_raise' \in 1..ChipsInPlay
<1>. DEFINE behind == [stacks EXCEPT ![to_act] = @ - Paid(a)]
<1>1. /\ to_act \in Seat
      /\ behind \in [Seat -> Nat]
      /\ street_contrib' \in [Seat -> Nat] /\ total_contrib' \in [Seat -> Nat]
      /\ current_bet' = BetAfter(a)
      /\ Total(behind) + Total(total_contrib') = ChipsInPlay
      /\ \A s \in Seat : street_contrib'[s] <= total_contrib'[s]
  BY ApplyFacts
<1>2. outcome = "Continue" /\ allows(a)
  BY DEF apply_action
<1>3. /\ BetAfter(a) >= current_bet /\ BetAfter(a) \in Nat
      /\ BetAfter(a) > current_bet => street_contrib[to_act] + Paid(a) = BetAfter(a)
  BY <1>2, LegalActionPays
<1>4. /\ current_bet \in 0..ChipsInPlay
      /\ min_raise \in 1..ChipsInPlay
      /\ street_contrib \in [Seat -> Nat]
      /\ ChipsInPlay \in Nat
  BY ChipsAssumption DEF IInv, TypeOK, Chips, ChipsInPlay
<1>5. Total(behind) \in Nat /\ Total(total_contrib') \in Nat
  BY <1>1 DEF Total, Seat
<1>6. total_contrib' \in [Seat -> 0..ChipsInPlay]
  <2>1. Total(total_contrib') <= ChipsInPlay
    BY <1>1, <1>4, <1>5
  <2>. HIDE DEF behind
  <2>. QED
    BY <1>1, <1>4, <2>1, PartsOfTheChips
<1>7. street_contrib' \in [Seat -> 0..ChipsInPlay]
  BY <1>1, <1>4, <1>6
<1>8. street_contrib'[to_act] = street_contrib[to_act] + Paid(a)
  BY <1>1, <1>4 DEF apply_action
<1>9. BetAfter(a) \in 0..ChipsInPlay
  <2>1. CASE BetAfter(a) > current_bet
    BY <1>1, <1>3, <1>7, <1>8, <2>1
  <2>2. CASE BetAfter(a) = current_bet
    BY <1>4, <2>2
  <2>. QED
    BY <1>3, <1>4, <2>1, <2>2
<1>10. min_raise' \in 1..ChipsInPlay
  <2>1. min_raise' = IF FullRaise(a) THEN BetAfter(a) - current_bet ELSE min_raise
    BY DEF apply_action
  <2>2. FullRaise(a) => BetAfter(a) > current_bet
    BY DEF FullRaise
  <2>. QED
    BY <1>4, <1>9, <2>1, <2>2
<1>. QED
  BY <1>1, <1>6, <1>7, <1>9, <1>10 DEF Chips

\* A betting action preserves the inductive invariant.
LEMMA ApplyStep ==
  ASSUME IInv, NEW a \in Action, apply_action(a)
  PROVE  IInv'
<1>. DEFINE behind == [stacks EXCEPT ![to_act] = @ - Paid(a)]
            fold   == [folded EXCEPT ![to_act] = @ \/ a.kind = "Fold"]
<1>1. /\ to_act \in Seat /\ to_act \in Able
      /\ folded' = fold /\ folded' \in [Seat -> BOOLEAN]
      /\ acted' = [acted EXCEPT ![to_act] = TRUE]
      /\ behind \in [Seat -> Nat]
      /\ all_in' \in [Seat -> BOOLEAN]
      /\ total_contrib' \in [Seat -> Nat]
      /\ Total(behind) + Total(total_contrib') = ChipsInPlay
      /\ \A s \in Seat : behind[s] = 0 <=> all_in'[s] \/ eliminated[s]
  BY ApplyFacts
<1>2. /\ street_contrib' \in [Seat -> Chips]
      /\ total_contrib' \in [Seat -> Chips]
      /\ current_bet' \in Chips
      /\ min_raise' \in 1..ChipsInPlay
  BY RaisesStayInPlay
<1>3. /\ TypeOK /\ outcome = "Continue" /\ InHand
      /\ ChipsInPlay \in Nat
      /\ acted \in [Seat -> BOOLEAN]
      /\ eliminated \in [Seat -> BOOLEAN]
  BY ChipsAssumption DEF apply_action, IInv, InHand, ChipsInPlay, TypeOK
<1>4. /\ button' = button /\ street' = street /\ board' = board
      /\ last_full_raise' = IF FullRaise(a) THEN to_act ELSE last_full_raise
  BY DEF apply_action
<1>5. /\ button' \in Seat /\ street' \in Street /\ board' \in 0..5
      /\ last_full_raise' \in Seat \cup {None}
  BY <1>1, <1>3, <1>4 DEF TypeOK
<1>6. acted' \in [Seat -> BOOLEAN]
  BY <1>1, <1>3
<1>7. CASE Cardinality(Live(fold)) = 1
  <2>1. /\ to_act' = to_act
        /\ \E w \in Live(fold) : award_fold_win(w, behind, total_contrib')
    BY <1>1, <1>7 DEF apply_action
  <2>2. PICK w \in Live(fold) : award_fold_win(w, behind, total_contrib')
    BY <2>1
  <2>. DEFINE paid   == [behind EXCEPT ![w] = @ + Total(total_contrib')]
              result == [reason  |-> "Fold",
                         awards  |-> [NoChips EXCEPT ![w] = Total(total_contrib')],
                         returns |-> NoChips]
  <2>3. w \in Seat /\ ~eliminated[w]
    BY DEF Live
  <2>4. finish_hand(paid, result)
    BY <2>2 DEF award_fold_win
  <2>. HIDE DEF behind
  <2>5. Total(total_contrib') \in 0..ChipsInPlay /\ Total(behind) \in Nat
    BY <1>1, <1>3 DEF Total, Seat
  <2>6. paid \in [Seat -> Nat]
    BY <1>1, <2>3, <2>5
  <2>7. Total(paid) = ChipsInPlay
    <3>1. /\ behind[0] \in Nat /\ behind[1] \in Nat /\ behind[2] \in Nat
          /\ w = 0 \/ w = 1 \/ w = 2
      BY <1>1, <2>3 DEF Seat
    <3>2. \A s \in Seat : paid[s] = IF s = w THEN behind[s] + Total(total_contrib') ELSE behind[s]
      BY <1>1
    <3>3. /\ paid[0] = IF 0 = w THEN behind[0] + Total(total_contrib') ELSE behind[0]
          /\ paid[1] = IF 1 = w THEN behind[1] + Total(total_contrib') ELSE behind[1]
          /\ paid[2] = IF 2 = w THEN behind[2] + Total(total_contrib') ELSE behind[2]
      BY <3>2 DEF Seat
    <3>4. Total(paid) = paid[0] + paid[1] + paid[2]
      BY DEF Total
    <3>5. behind[0] + behind[1] + behind[2] + Total(total_contrib') = ChipsInPlay
      BY <1>1 DEF Total
    <3>6. Total(total_contrib') \in Nat
      BY <2>5
    <3>. HIDE DEF paid
    <3>. QED
      BY <3>1, <3>3, <3>4, <3>5, <3>6
  <2>8. \A s \in Seat : eliminated[s] => paid[s] = 0
    BY <1>1, <2>3
  <2>9. result \in ResultType
    <3>1. 0 \in Chips /\ Total(total_contrib') \in Chips
      BY <1>3, <2>5 DEF Chips
    <3>2. /\ NoChips \in [Seat -> Chips]
          /\ [NoChips EXCEPT ![w] = Total(total_contrib')] \in [Seat -> Chips]
      BY <2>3, <3>1 DEF NoChips
    <3>. QED
      BY <3>2 DEF ResultType, Reasons
  <2>. HIDE DEF paid, result
  <2>10. /\ stacks' \in [Seat -> Chips]
         /\ eliminated' \in [Seat -> BOOLEAN]
         /\ hand_over' = TRUE
         /\ hand_result' = result
         /\ outcome' = "HandEnded"
         /\ ~InHand' /\ ChipsConserved' /\ BetweenHandsInv' /\ TurnInv'
    BY <1>3, <2>4, <2>6, <2>7, <2>8, FinishHandFacts
  <2>11. hand_over' \in BOOLEAN
    BY <2>10
  <2>12. /\ to_act' \in Seat /\ outcome' \in Outcomes
         /\ hand_result' \in ResultType
    BY <1>1, <2>1, <2>9, <2>10 DEF Outcomes
  <2>13. TypeOK'
    BY <1>1, <1>2, <1>5, <1>6, <2>10, <2>11, <2>12 DEF TypeOK
  <2>. QED
    BY <2>10, <2>13 DEF IInv
<1>8. CASE Cardinality(Live(fold)) # 1
  <2>1. HandInv' /\ TurnInv' /\ InHand' /\ to_act' \in Seat
    BY <1>1, <1>8, HandGoesOn, TurnPasses
  <2>2. /\ stacks' = behind
        /\ eliminated' = eliminated /\ hand_over' = hand_over
        /\ hand_result' = hand_result
        /\ outcome' \in Outcomes
    BY <1>1, <1>8 DEF apply_action, Outcomes
  <2>. HIDE DEF behind
  <2>3. Total(total_contrib') \in Nat /\ Total(behind) \in Nat
    BY <1>1 DEF Total, Seat
  <2>4. stacks' \in [Seat -> Chips]
    BY <1>1, <1>3, <2>2, <2>3, PartsOfTheChips DEF Chips
  <2>5. ChipsConserved'
    BY <1>1, <2>1, <2>2 DEF ChipsConserved, Total
  <2>6. /\ eliminated' \in [Seat -> BOOLEAN] /\ hand_result' \in ResultType
    BY <1>3, <2>2 DEF TypeOK
  <2>7. hand_over' \in BOOLEAN
    BY <1>3, <2>2 DEF TypeOK
  <2>8. TypeOK'
    BY <1>1, <1>2, <1>5, <1>6, <2>1, <2>2, <2>4, <2>6, <2>7 DEF TypeOK
  <2>. QED
    BY <2>1, <2>5, <2>8 DEF IInv
<1>. QED
  BY <1>7, <1>8

\* The next street opens with every seat that can bet still to act.
LEMMA AdvanceStreetStep ==
  ASSUME IInv, AdvanceStreet
  PROVE  IInv'
<1>1. /\ TypeOK /\ ChipsConserved /\ HandInv /\ InHand /\ Pending = {}
      /\ street # River
      /\ Cardinality(Able) >= 2
  BY DEF IInv, AdvanceStreet, InHand, TurnInv, can_continue_betting, Able
<1>2. /\ street' = street + 1
      /\ board' = board + CardsAfter(street') - CardsAfter(street)
      /\ street_contrib' = NoChips /\ current_bet' = 0 /\ min_raise' = BIG_BLIND
      /\ last_full_raise' = None /\ acted' = NoSeat
      /\ to_act' = first_to_act(action_order(button, next_active(button), street'), Able)
      /\ outcome' = "Continue"
      /\ stacks' = stacks /\ button' = button /\ total_contrib' = total_contrib
      /\ folded' = folded /\ all_in' = all_in /\ eliminated' = eliminated
      /\ hand_over' = hand_over /\ hand_result' = hand_result
  BY DEF AdvanceStreet, Able
<1>3. /\ street_contrib \in [Seat -> Nat] /\ total_contrib \in [Seat -> Nat]
      /\ current_bet \in Nat /\ acted \in [Seat -> BOOLEAN]
      /\ eliminated \in [Seat -> BOOLEAN] /\ button \in Seat
      /\ street \in 0..3 /\ board \in 0..5
  BY <1>1 DEF TypeOK, Chips, Street
<1>4. Able \subseteq Seat
  BY DEF Able, AbleToBet, Live
<1>5. \E s, t \in Able : s # t
  BY <1>1, <1>4, TwoSeats
<1>6. Able' = Able /\ active_players' = active_players
  BY <1>2 DEF Able, AbleToBet, Live, active_players
<1>7. InHand'
  BY <1>2 DEF InHand
<1>8. to_act' \in Able
  <2>1. Cardinality(active_seats) >= 2
    <3>1. active_seats \in SUBSET Seat
      BY DEF active_seats
    <3>2. \E s, t \in active_seats : s # t
      BY <1>5 DEF Able, AbleToBet, Live, active_seats
    <3>. QED
      BY <3>1, <3>2, TwoSeats
  <2>2. next_active(button) \in Seat /\ next_active(button) # button
    BY <1>3, <2>1, NextActiveFacts
  <2>. QED
    BY <1>2, <1>3, <1>4, <1>5, <2>2, FirstToActCanBet
<1>9. TypeOK'
  <2>1. /\ 0 \in Chips /\ BIG_BLIND \in 1..ChipsInPlay
    BY ChipsAssumption DEF Chips, ChipsInPlay
  <2>2. street' \in Street /\ board' \in 0..5
    BY <1>1, <1>2, <1>3 DEF HandInv, Street, CardsAfter, River, Turn, Flop
  <2>3. street_contrib' \in [Seat -> Chips] /\ acted' \in [Seat -> BOOLEAN]
    BY <1>2, <2>1 DEF NoChips, NoSeat
  <2>4. hand_over' \in BOOLEAN
    BY <1>1, <1>2 DEF TypeOK
  <2>5. /\ to_act' \in Seat /\ outcome' \in Outcomes /\ current_bet' \in Chips
        /\ min_raise' \in 1..ChipsInPlay /\ last_full_raise' \in Seat \cup {None}
    BY <1>2, <1>4, <1>8, <2>1 DEF Outcomes
  <2>6. /\ stacks' \in [Seat -> Chips] /\ total_contrib' \in [Seat -> Chips]
        /\ button' \in Seat /\ hand_result' \in ResultType
        /\ folded' \in [Seat -> BOOLEAN] /\ all_in' \in [Seat -> BOOLEAN]
        /\ eliminated' \in [Seat -> BOOLEAN]
    BY <1>1, <1>2 DEF TypeOK
  <2>. QED
    BY <2>2, <2>3, <2>4, <2>5, <2>6 DEF TypeOK
<1>10. ChipsConserved'
  BY <1>1, <1>2, <1>7 DEF ChipsConserved, Total
<1>11. HandInv'
  <2>1. \A s \in Able : street_contrib[s] = current_bet
    BY <1>1 DEF Pending
  <2>2. \A s \in Seat : Base(s)' = total_contrib[s]
    BY <1>2, <1>3 DEF Base, NoChips
  <2>3. \A s \in Able : Deepest(s)'
    <3>. SUFFICES ASSUME NEW s \in Able, NEW t \in Seat
                  PROVE  total_contrib[t] <= total_contrib[s]
      BY <1>4, <2>2 DEF Deepest
    <3>1. /\ s \in Seat /\ street_contrib[s] = current_bet
          /\ Base(t) <= Base(s)
          /\ street_contrib[t] <= current_bet
      BY <1>1, <1>4, <2>1 DEF HandInv, Deepest
    <3>. QED
      BY <1>3, <3>1 DEF Base
  <2>4. \A s \in Seat : street_contrib'[s] = 0
    BY <1>2 DEF NoChips
  <2>5. \A s \in Seat : /\ street_contrib'[s] <= total_contrib'[s]
                        /\ street_contrib'[s] <= current_bet'
    BY <1>2, <1>3, <2>4
  <2>6. \E s \in active_players' : street_contrib'[s] = current_bet' /\ Deepest(s)'
    BY <1>2, <1>4, <1>5, <1>6, <2>3, <2>4 DEF Able, AbleToBet, active_players
  <2>7. board' = CardsAfter(street')
    BY <1>1, <1>2, <1>3 DEF HandInv, CardsAfter, Flop, Turn, River
  <2>8. \A s \in Seat : /\ stacks'[s] = 0 <=> all_in'[s] \/ eliminated'[s]
                        /\ eliminated'[s] => ~all_in'[s] /\ total_contrib'[s] = 0
    BY <1>1, <1>2 DEF HandInv
  <2>9. ~hand_over' /\ \E s, t \in active_players' : s # t
    BY <1>1, <1>2, <1>6 DEF HandInv
  <2>. QED
    BY <1>6, <2>3, <2>5, <2>6, <2>7, <2>8, <2>9 DEF HandInv
<1>12. TurnInv'
  <2>1. Pending' = Able'
    BY <1>2, <1>4, <1>6 DEF Pending, NoSeat
  <2>. QED
    BY <1>2, <1>6, <1>8, <2>1 DEF TurnInv
<1>. QED
  BY <1>7, <1>9, <1>10, <1>11, <1>12 DEF IInv

(***************************************************************************)
(* The pots of a showdown.                                                 *)
(***************************************************************************)

\* The pots hold the chips contributed, no more and no less.
LEMMA PotsHoldTheContributions ==
  ASSUME total_contrib \in [Seat -> Nat]
  PROVE  /\ PotAmount(1) \in Nat /\ PotAmount(2) \in Nat /\ PotAmount(3) \in Nat
         /\ PotAmount(1) + PotAmount(2) + PotAmount(3) = Total(total_contrib)
         /\ \A k \in Pots, s \in Seat : Level(k) \in Nat /\ Level(k) <= HighestOf(total_contrib)
<1>. DEFINE c == total_contrib
<1>1. c[0] \in Nat /\ c[1] \in Nat /\ c[2] \in Nat
  BY DEF Seat
<1>2. /\ Level(0) = 0
      /\ Level(1) = LowestOf(c)
      /\ Level(2) = Total(c) - LowestOf(c) - HighestOf(c)
      /\ Level(3) = HighestOf(c)
  <2>1. Level(0) = 0
    BY DEF Level
  <2>2. Level(1) = LowestOf(c)
    BY DEF Level
  <2>3. Level(2) = Total(c) - LowestOf(c) - HighestOf(c)
    BY DEF Level
  <2>4. Level(3) = HighestOf(c)
    BY DEF Level
  <2>. QED
    BY <2>1, <2>2, <2>3, <2>4
<1>3. /\ Level(1) \in Nat /\ Level(2) \in Nat /\ Level(3) \in Nat
      /\ Level(1) <= Level(2) /\ Level(2) <= Level(3)
      /\ c[0] = Level(1) \/ c[0] = Level(2) \/ c[0] = Level(3)
      /\ c[1] = Level(1) \/ c[1] = Level(2) \/ c[1] = Level(3)
      /\ c[2] = Level(1) \/ c[2] = Level(2) \/ c[2] = Level(3)
  BY <1>1, <1>2 DEF LowestOf, HighestOf, Lesser, Greater, Total
<1>4. ASSUME NEW s \in {0, 1, 2}
      PROVE  /\ Slice(1, s) \in Nat /\ Slice(2, s) \in Nat /\ Slice(3, s) \in Nat
             /\ Slice(1, s) + Slice(2, s) + Slice(3, s) = c[s]
  <2>1. /\ Slice(1, s) = IF c[s] >= Level(1) THEN Level(1) - Level(0) ELSE 0
        /\ Slice(2, s) = IF c[s] >= Level(2) THEN Level(2) - Level(1) ELSE 0
        /\ Slice(3, s) = IF c[s] >= Level(3) THEN Level(3) - Level(2) ELSE 0
    BY DEF Slice
  <2>2. c[s] = Level(1) \/ c[s] = Level(2) \/ c[s] = Level(3)
    BY <1>3
  <2>. QED
    BY <1>2, <1>3, <2>1, <2>2
<1>5. \A k \in Pots : Level(k) \in Nat /\ Level(k) <= HighestOf(total_contrib)
  <2>1. Level(3) = HighestOf(total_contrib)
    BY <1>2
  <2>2. \A k \in Pots : k = 1 \/ k = 2 \/ k = 3
    BY DEF Pots
  <2>. QED
    BY <1>3, <2>1, <2>2
<1>. QED
  BY <1>4, <1>5 DEF PotAmount, Total

\* Some live seat reaches every level, and so can claim every pot.
LEMMA EveryPotIsEligible ==
  ASSUME IInv, InHand
  PROVE  /\ EveryPotHasAClaimant
         /\ \A k \in Pots : Eligible(k) # {}
<1>1. /\ HandInv
      /\ street_contrib \in [Seat -> Nat] /\ total_contrib \in [Seat -> Nat]
      /\ current_bet \in Nat
  BY DEF IInv, TypeOK, Chips
<1>2. PICK s \in active_players : street_contrib[s] = current_bet /\ Deepest(s)
  BY <1>1 DEF HandInv
<1>3. s \in Seat
  BY DEF active_players, Live
<1>4. \A t \in Seat : total_contrib[t] <= total_contrib[s]
  <2>. SUFFICES ASSUME NEW t \in Seat PROVE total_contrib[t] <= total_contrib[s]
    OBVIOUS
  <2>1. Base(t) <= Base(s) /\ street_contrib[t] <= current_bet
    BY <1>1, <1>2 DEF HandInv, Deepest
  <2>. QED
    BY <1>1, <1>2, <1>3, <2>1 DEF Base
<1>5. HighestOf(total_contrib) <= total_contrib[s]
  <2>1. /\ total_contrib[0] <= total_contrib[s] /\ total_contrib[1] <= total_contrib[s]
        /\ total_contrib[2] <= total_contrib[s]
    BY <1>4 DEF Seat
  <2>. QED
    BY <2>1 DEF HighestOf, Greater
<1>6. \A k \in Pots : s \in Eligible(k)
  <2>. SUFFICES ASSUME NEW k \in Pots PROVE s \in Eligible(k)
    OBVIOUS
  <2>1. /\ Level(k) \in Nat /\ Level(k) <= HighestOf(total_contrib)
        /\ HighestOf(total_contrib) \in Nat /\ total_contrib[s] \in Nat
    BY <1>1, <1>3, PotsHoldTheContributions DEF HighestOf, Greater, Seat
  <2>2. Level(k) <= total_contrib[s]
    BY <1>5, <2>1
  <2>. QED
    BY <1>2, <2>2 DEF Eligible
<1>7. EveryPotHasAClaimant
  BY <1>2, <1>4 DEF EveryPotHasAClaimant
<1>. QED
  BY <1>6, <1>7

\* A pot somebody is eligible for has a winner, and only eligible seats win.
LEMMA EveryPotHasAWinner ==
  ASSUME NEW k, NEW rank \in Ranking, Eligible(k) # {}
  PROVE  Winners(k, rank) # {} /\ Winners(k, rank) \subseteq Eligible(k)
<1>1. Eligible(k) \subseteq Seat
  BY DEF Eligible, active_players, Live
<1>2. \A s \in Seat : rank[s] \in 1..3
  BY DEF Ranking
<1>3. \E s \in Eligible(k) : \A t \in Eligible(k) : rank[t] <= rank[s]
  <2>1. CASE \E s \in Eligible(k) : rank[s] = 3
    BY <1>1, <1>2, <2>1
  <2>2. CASE /\ ~\E s \in Eligible(k) : rank[s] = 3
             /\ \E s \in Eligible(k) : rank[s] = 2
    BY <1>1, <1>2, <2>2
  <2>3. CASE \A s \in Eligible(k) : rank[s] # 3 /\ rank[s] # 2
    <3>1. \A s \in Eligible(k) : rank[s] = 1
      BY <1>1, <1>2, <2>3
    <3>. QED
      BY <3>1
  <2>. QED
    BY <2>1, <2>2, <2>3
<1>. QED
  BY <1>3 DEF Winners

\* A set of seats other than the empty one has one to three members.
LEMMA SeatSetSizes ==
  ASSUME NEW W \in SUBSET Seat, W # {}
  PROVE  \/ \E s \in Seat : W = {s} /\ Cardinality(W) = 1
         \/ \E s, t \in Seat : s < t /\ W = {s, t} /\ Cardinality(W) = 2
         \/ W = {0, 1, 2} /\ Cardinality(W) = 3
<1>1. \A x : IsFiniteSet({x}) /\ Cardinality({x}) = 1
  BY FS_Singleton
<1>2. ASSUME NEW x, NEW y, x # y
      PROVE  IsFiniteSet({x, y}) /\ Cardinality({x, y}) = 2
  <2>1. {x, y} = {x} \cup {y}
    OBVIOUS
  <2>2. y \notin {x}
    BY <1>2
  <2>3. /\ IsFiniteSet({x} \cup {y})
        /\ Cardinality({x} \cup {y}) = Cardinality({x}) + 1
    BY <1>1, <2>2, FS_AddElement, Zenon
  <2>. QED
    BY <1>1, <2>1, <2>3
<1>3. Cardinality({0, 1, 2}) = 3
  <2>1. {0, 1, 2} = {0, 1} \cup {2} /\ 2 \notin {0, 1} /\ 0 # 1
    OBVIOUS
  <2>2. IsFiniteSet({0, 1}) /\ Cardinality({0, 1}) = 2
    BY <1>2, <2>1
  <2>3. Cardinality({0, 1} \cup {2}) = Cardinality({0, 1}) + 1
    BY <2>1, <2>2, FS_AddElement, Zenon
  <2>. QED
    BY <2>1, <2>2, <2>3
<1>4. \/ \E s \in Seat : W = {s}
      \/ \E s, t \in Seat : s < t /\ W = {s, t}
      \/ W = {0, 1, 2}
  <2>1. Seat = {0, 1, 2} /\ 0 < 1 /\ 0 < 2 /\ 1 < 2
    BY DEF Seat
  <2>2. W \in {{0}, {1}, {2}, {0, 1}, {0, 2}, {1, 2}, {0, 1, 2}}
    BY <2>1
  <2>. QED
    BY <2>1, <2>2
<1>5. ASSUME NEW s \in Seat, NEW t \in Seat, s < t, W = {s, t}
      PROVE  Cardinality(W) = 2
  <2>1. s # t
    BY <1>5 DEF Seat
  <2>. QED
    BY <1>2, <1>5, <2>1
<1>. QED
  BY <1>1, <1>3, <1>4, <1>5

\* The shares of a pot add up to the pot: the odd chips are not lost.
LEMMA SharesAddUp ==
  ASSUME NEW k, NEW rank \in Ranking, PotAmount(k) \in Nat, Eligible(k) # {}
  PROVE  /\ \A s \in Seat : Share(k, rank, s) \in Nat
         /\ Share(k, rank, 0) + Share(k, rank, 1) + Share(k, rank, 2) = PotAmount(k)
<1>. DEFINE W == Winners(k, rank)
            n == PotAmount(k)
            sh(s) == Share(k, rank, s)
<1>1. W \in SUBSET Seat /\ W # {}
  BY EveryPotHasAWinner DEF Eligible, active_players, Live
<1>2. \A s \in Seat : sh(s) = IF s \notin W THEN 0
                              ELSE n \div Cardinality(W)
                                   + IF \A t \in W : s <= t THEN n % Cardinality(W) ELSE 0
  BY DEF Share
<1>3. n \in Nat
  OBVIOUS
<1>. HIDE DEF W, n, sh
<1>4. /\ n \div 1 \in Nat /\ n % 1 = 0 /\ n = n \div 1
      /\ n \div 2 \in Nat /\ n % 2 \in Nat /\ n = 2 * (n \div 2) + (n % 2)
      /\ n \div 3 \in Nat /\ n % 3 \in Nat /\ n = 3 * (n \div 3) + (n % 3)
  BY <1>3
<1>5. CASE \E s \in Seat : W = {s} /\ Cardinality(W) = 1
  <2>1. PICK s \in Seat : W = {s} /\ Cardinality(W) = 1
    BY <1>5
  <2>2. sh(s) = n
    <3>1. s \in W /\ \A t \in W : s <= t
      BY <2>1 DEF Seat
    <3>2. sh(s) = n \div 1 + (n % 1)
      BY <1>2, <2>1, <3>1
    <3>. QED
      BY <1>3, <1>4, <3>2
  <2>3. \A t \in Seat : t # s => sh(t) = 0
    BY <1>2, <2>1
  <2>4. /\ \A t \in Seat : sh(t) \in Nat
        /\ sh(0) + sh(1) + sh(2) = n
    BY <1>3, <2>2, <2>3 DEF Seat
  <2>. QED
    BY <2>4 DEF sh, n
<1>6. CASE \E s, t \in Seat : s < t /\ W = {s, t} /\ Cardinality(W) = 2
  <2>1. PICK s \in Seat, t \in Seat : s < t /\ W = {s, t} /\ Cardinality(W) = 2
    BY <1>6
  <2>2. sh(s) = n \div 2 + (n % 2) /\ sh(t) = n \div 2
    <3>1. /\ s \in W /\ \A u \in W : s <= u
          /\ t \in W /\ ~\A u \in W : t <= u
      BY <2>1 DEF Seat
    <3>2. sh(s) = n \div 2 + (n % 2)
      BY <1>2, <2>1, <3>1
    <3>3. sh(t) = n \div 2 + 0
      BY <1>2, <2>1, <3>1
    <3>. QED
      BY <1>4, <3>2, <3>3
  <2>3. \A u \in Seat : u \notin {s, t} => sh(u) = 0
    BY <1>2, <2>1
  <2>4. /\ \A u \in Seat : sh(u) \in Nat
        /\ sh(0) + sh(1) + sh(2) = n
    BY <1>3, <1>4, <2>1, <2>2, <2>3 DEF Seat
  <2>. QED
    BY <2>4 DEF sh, n
<1>7. CASE W = {0, 1, 2} /\ Cardinality(W) = 3
  <2>1. sh(0) = n \div 3 + (n % 3) /\ sh(1) = n \div 3 /\ sh(2) = n \div 3
    BY <1>2, <1>4, <1>7 DEF Seat
  <2>2. /\ \A u \in Seat : sh(u) \in Nat
        /\ sh(0) + sh(1) + sh(2) = n
    BY <1>3, <1>4, <2>1 DEF Seat
  <2>. QED
    BY <2>2 DEF sh, n
<1>. QED
  BY <1>1, <1>5, <1>6, <1>7, SeatSetSizes

\* A showdown pays out exactly the pot, and ends the hand.
LEMMA ShowdownStep ==
  ASSUME IInv, NEW rank \in Ranking, showdown(rank)
  PROVE  IInv'
<1>. DEFINE awards  == [s \in Seat |-> Awarded(1, rank, s) + Awarded(2, rank, s) + Awarded(3, rank, s)]
            returns == [s \in Seat |-> Returned(1, rank, s) + Returned(2, rank, s) + Returned(3, rank, s)]
            paid    == [s \in Seat |-> stacks[s] + awards[s] + returns[s]]
            result  == [reason |-> "Showdown", awards |-> awards, returns |-> returns]
            shares(s) == Share(1, rank, s) + Share(2, rank, s) + Share(3, rank, s)
<1>1. /\ InHand /\ TypeOK /\ HandInv
      /\ Total(stacks) + Total(total_contrib) = ChipsInPlay
      /\ ChipsInPlay \in Nat
  BY ChipsAssumption DEF showdown, InHand, IInv, ChipsConserved, ChipsInPlay
<1>2. /\ stacks \in [Seat -> Nat] /\ total_contrib \in [Seat -> Nat]
      /\ eliminated \in [Seat -> BOOLEAN]
  BY <1>1 DEF TypeOK, Chips
<1>3. /\ finish_hand(paid, result)
      /\ board' = 5 /\ button' = button /\ street' = street /\ to_act' = to_act
      /\ street_contrib' = street_contrib /\ total_contrib' = total_contrib
      /\ current_bet' = current_bet /\ min_raise' = min_raise
      /\ last_full_raise' = last_full_raise /\ acted' = acted
      /\ folded' = folded /\ all_in' = all_in
  BY DEF showdown, betting
<1>4. \A k \in {1, 2, 3} : Eligible(k) # {}
  BY <1>1, EveryPotIsEligible DEF Pots
<1>5. /\ PotAmount(1) \in Nat /\ PotAmount(2) \in Nat /\ PotAmount(3) \in Nat
      /\ PotAmount(1) + PotAmount(2) + PotAmount(3) = Total(total_contrib)
  BY <1>2, PotsHoldTheContributions
<1>6. \A k \in {1, 2, 3} :
        /\ \A s \in Seat : Share(k, rank, s) \in Nat
        /\ Share(k, rank, 0) + Share(k, rank, 1) + Share(k, rank, 2) = PotAmount(k)
  <2>1. \A k \in {1, 2, 3} : PotAmount(k) \in Nat
    BY <1>5
  <2>. QED
    BY <1>4, <2>1, SharesAddUp
<1>7. \A s \in Seat : shares(s) \in Nat
  BY <1>6
<1>8. shares(0) + shares(1) + shares(2) = Total(total_contrib)
  <2>1. /\ Share(1, rank, 0) \in Nat /\ Share(1, rank, 1) \in Nat /\ Share(1, rank, 2) \in Nat
        /\ Share(2, rank, 0) \in Nat /\ Share(2, rank, 1) \in Nat /\ Share(2, rank, 2) \in Nat
        /\ Share(3, rank, 0) \in Nat /\ Share(3, rank, 1) \in Nat /\ Share(3, rank, 2) \in Nat
    BY <1>6 DEF Seat
  <2>2. /\ Share(1, rank, 0) + Share(1, rank, 1) + Share(1, rank, 2) = PotAmount(1)
        /\ Share(2, rank, 0) + Share(2, rank, 1) + Share(2, rank, 2) = PotAmount(2)
        /\ Share(3, rank, 0) + Share(3, rank, 1) + Share(3, rank, 2) = PotAmount(3)
    BY <1>6
  <2>. QED
    BY <1>5, <2>1, <2>2
<1>9. \A s \in Seat : /\ awards[s] \in Nat /\ returns[s] \in Nat
                      /\ awards[s] + returns[s] = shares(s)
  <2>. SUFFICES ASSUME NEW s \in Seat
                PROVE  /\ awards[s] \in Nat /\ returns[s] \in Nat
                       /\ awards[s] + returns[s] = shares(s)
    OBVIOUS
  <2>1. \A k \in {1, 2, 3} : /\ Awarded(k, rank, s) \in Nat /\ Returned(k, rank, s) \in Nat
                             /\ Awarded(k, rank, s) + Returned(k, rank, s) = Share(k, rank, s)
    BY <1>6 DEF Awarded, Returned
  <2>. QED
    BY <2>1
<1>10. \A s \in Seat : eliminated[s] => paid[s] = 0
  <2>. SUFFICES ASSUME NEW s \in Seat, eliminated[s]
                PROVE  paid[s] = 0
    OBVIOUS
  <2>1. stacks[s] = 0
    BY <1>1 DEF HandInv
  <2>2. \A k \in {1, 2, 3} : s \notin Winners(k, rank)
    BY <1>4, EveryPotHasAWinner DEF Eligible, active_players, Live
  <2>3. \A k \in {1, 2, 3} : Share(k, rank, s) = 0
    BY <2>2 DEF Share
  <2>4. shares(s) = 0
    BY <2>3
  <2>5. awards[s] = 0 /\ returns[s] = 0
    BY <1>9, <2>4
  <2>. QED
    BY <2>1, <2>5
<1>. HIDE DEF awards, returns, shares
<1>11. /\ paid \in [Seat -> Nat]
       /\ \A s \in Seat : paid[s] = stacks[s] + shares(s)
       /\ \A s \in Seat : awards[s] <= paid[s] /\ returns[s] <= paid[s]
  <2>1. \A s \in Seat : stacks[s] \in Nat /\ awards[s] \in Nat /\ returns[s] \in Nat
    BY <1>2, <1>9
  <2>. QED
    BY <1>9, <2>1
<1>. HIDE DEF paid
<1>12. Total(paid) = ChipsInPlay
  <2>1. /\ paid[0] = stacks[0] + shares(0) /\ paid[1] = stacks[1] + shares(1)
        /\ paid[2] = stacks[2] + shares(2)
        /\ shares(0) \in Nat /\ shares(1) \in Nat /\ shares(2) \in Nat
        /\ stacks[0] \in Nat /\ stacks[1] \in Nat /\ stacks[2] \in Nat
    BY <1>2, <1>7, <1>11 DEF Seat
  <2>2. stacks[0] + stacks[1] + stacks[2] + Total(total_contrib) = ChipsInPlay
    BY <1>1 DEF Total
  <2>. QED
    BY <1>8, <2>1, <2>2 DEF Total
<1>13. result \in ResultType
  <2>1. paid \in [Seat -> 0..ChipsInPlay]
    BY <1>1, <1>11, <1>12, PartsOfTheChips
  <2>2. \A s \in Seat : awards[s] \in Chips /\ returns[s] \in Chips
    BY <1>1, <1>9, <1>11, <2>1 DEF Chips
  <2>3. awards \in [Seat -> Chips] /\ returns \in [Seat -> Chips]
    BY <2>2 DEF awards, returns
  <2>. QED
    BY <2>3 DEF ResultType, Reasons
<1>. HIDE DEF result
<1>14. /\ stacks' \in [Seat -> Chips]
       /\ eliminated' \in [Seat -> BOOLEAN]
       /\ hand_over' = TRUE
       /\ hand_result' = result
       /\ outcome' = "HandEnded"
       /\ ~InHand' /\ ChipsConserved' /\ BetweenHandsInv' /\ TurnInv'
  BY <1>2, <1>3, <1>10, <1>11, <1>12, FinishHandFacts
<1>15. hand_over' \in BOOLEAN
  BY <1>14
<1>16. /\ board' \in 0..5 /\ outcome' \in Outcomes /\ hand_result' \in ResultType
  BY <1>3, <1>13, <1>14 DEF Outcomes
<1>17. TypeOK'
  BY <1>1, <1>3, <1>14, <1>15, <1>16 DEF TypeOK
<1>. QED
  BY <1>14, <1>17 DEF IInv

\* Every step of the engine preserves the inductive invariant.
LEMMA NextIInv == IInv /\ [Next]_vars => IInv'
<1>. SUFFICES ASSUME IInv, [Next]_vars PROVE IInv'
  OBVIOUS
<1>1. eliminated \in [Seat -> BOOLEAN] /\ button \in Seat
  BY DEF IInv, TypeOK
<1>2. CASE FirstHand
  <2>1. outcome = "Undealt" /\ ~InHand /\ start_hand(button, next_active(button))
    BY <1>2 DEF FirstHand, InHand
  <2>2. Cardinality(active_seats) >= 2
    BY <2>1 DEF start_hand
  <2>3. /\ next_active(button) \in Seat /\ next_active(button) # button
        /\ ~eliminated[next_active(button)]
    BY <1>1, <2>2, NextActiveFacts
  <2>4. ~eliminated[button]
    BY <2>1 DEF IInv, BetweenHandsInv
  <2>. QED
    BY <1>1, <2>1, <2>3, <2>4, StartHandStep
<1>3. CASE NextHand
  <2>. DEFINE btn == next_active(button)
  <2>1. ~InHand /\ start_hand(btn, next_active(btn))
    BY <1>3 DEF NextHand, IInv, HandInv
  <2>2. Cardinality(active_seats) >= 2
    BY <2>1 DEF start_hand
  <2>3. btn \in Seat /\ ~eliminated[btn]
    BY <1>1, <2>2, NextActiveFacts
  <2>. HIDE DEF btn
  <2>4. /\ next_active(btn) \in Seat /\ next_active(btn) # btn
        /\ ~eliminated[next_active(btn)]
    BY <1>1, <2>2, <2>3, NextActiveFacts
  <2>. QED
    BY <2>1, <2>3, <2>4, StartHandStep
<1>4. CASE ApplyAction
  BY <1>4, ApplyStep DEF ApplyAction
<1>5. CASE AdvanceStreet
  BY <1>5, AdvanceStreetStep
<1>6. CASE Showdown
  BY <1>6, ShowdownStep DEF Showdown
<1>7. CASE TournamentOver \/ UNCHANGED vars
  <2>1. UNCHANGED vars
    BY <1>7 DEF TournamentOver
  <2>2. /\ stacks' = stacks /\ button' = button /\ street' = street /\ board' = board
        /\ street_contrib' = street_contrib /\ total_contrib' = total_contrib
        /\ current_bet' = current_bet /\ min_raise' = min_raise
        /\ last_full_raise' = last_full_raise /\ acted' = acted
        /\ folded' = folded /\ all_in' = all_in /\ eliminated' = eliminated
        /\ to_act' = to_act /\ hand_over' = hand_over
        /\ hand_result' = hand_result /\ outcome' = outcome
    BY <2>1 DEF vars, betting
  <2>3. InHand' = InHand
    BY <2>2 DEF InHand
  <2>4. hand_over' \in BOOLEAN
    BY <2>2 DEF IInv, TypeOK
  <2>5. TypeOK'
    BY <2>2, <2>4 DEF IInv, TypeOK
  <2>6. ChipsConserved'
    BY <2>2, <2>3 DEF IInv, ChipsConserved, Total
  <2>7. Able' = Able /\ Pending' = Pending /\ active_players' = active_players
    BY <2>2 DEF Able, AbleToBet, Live, Pending, active_players
  <2>8. TurnInv'
    BY <2>2, <2>7 DEF IInv, TurnInv
  <2>9. InHand' => HandInv'
    BY <2>2, <2>3, <2>7 DEF IInv, HandInv, Deepest, Base
  <2>10. ~InHand' => BetweenHandsInv'
    BY <2>2, <2>3 DEF IInv, BetweenHandsInv
  <2>. QED
    BY <2>5, <2>6, <2>8, <2>9, <2>10 DEF IInv
<1>. QED
  BY <1>2, <1>3, <1>4, <1>5, <1>6, <1>7 DEF Next

\* The inductive invariant holds throughout a tournament.
THEOREM Invariance == Spec => []IInv
BY InitIInv, NextIInv, PTL DEF Spec

-----------------------------------------------------------------------------
(***************************************************************************)
(* The safety properties of the engine.                                    *)
(***************************************************************************)

\* Type correctness for every starting stack and blind level: no amount
\* falls below zero or exceeds the chips in play, so none of the u32
\* arithmetic of state.rs wraps around.
THEOREM TypeCorrect == Spec => []TypeOK
<1>1. IInv => TypeOK
  BY DEF IInv
<1>. QED
  BY <1>1, Invariance, PTL

\* Chips are neither created nor lost, by any split, side pot or blind.
THEOREM ChipConservation == Spec => []ChipsConserved
<1>1. IInv => ChipsConserved
  BY DEF IInv
<1>. QED
  BY <1>1, Invariance, PTL

\* Every pot cut by compute_pots has an eligible seat.
THEOREM PotsHaveClaimants == Spec => []EveryPotHasAClaimant
<1>1. IInv => EveryPotHasAClaimant
  BY EveryPotIsEligible DEF EveryPotHasAClaimant
<1>. QED
  BY <1>1, Invariance, PTL

\* The seat asked to act can act and has to.
THEOREM TheActorIsPending == Spec => []ActorIsPending
<1>1. IInv => ActorIsPending
  BY DEF IInv, TurnInv, Pending, Able, ActorIsPending
<1>. QED
  BY <1>1, Invariance, PTL

\* The bet to match is the highest street contribution.
THEOREM TheBetIsTheHighest == Spec => []BetIsTheHighest
<1>1. IInv => BetIsTheHighest
  <2>. SUFFICES ASSUME IInv, InHand
                PROVE  current_bet = HighestOf(street_contrib)
    BY DEF BetIsTheHighest
  <2>1. /\ street_contrib \in [Seat -> Nat] /\ current_bet \in Nat
        /\ \A s \in Seat : street_contrib[s] <= current_bet
        /\ \E s \in Seat : street_contrib[s] = current_bet
    BY DEF IInv, TypeOK, Chips, HandInv, active_players, Live
  <2>2. /\ street_contrib[0] \in Nat /\ street_contrib[1] \in Nat /\ street_contrib[2] \in Nat
        /\ street_contrib[0] <= current_bet /\ street_contrib[1] <= current_bet
        /\ street_contrib[2] <= current_bet
        /\ \/ street_contrib[0] = current_bet \/ street_contrib[1] = current_bet
           \/ street_contrib[2] = current_bet
    BY <2>1 DEF Seat
  <2>. QED
    BY <2>1, <2>2 DEF HighestOf, Greater
<1>. QED
  BY <1>1, Invariance, PTL

\* A street closes with the seats that can still bet level at the top.
THEOREM StreetsCloseLevel == Spec => []StreetClosesLevel
<1>1. IInv => StreetClosesLevel
  <2>. SUFFICES ASSUME IInv, outcome = "StreetEnded", NEW s \in Able, NEW t \in active_players
                PROVE  total_contrib[t] <= total_contrib[s]
    BY DEF StreetClosesLevel, Able
  <2>1. /\ HandInv /\ Pending = {}
        /\ street_contrib \in [Seat -> Nat] /\ total_contrib \in [Seat -> Nat]
        /\ current_bet \in Nat
    BY DEF IInv, InHand, TurnInv, TypeOK, Chips
  <2>2. s \in Seat /\ t \in Seat /\ street_contrib[s] = current_bet
    BY <2>1 DEF Pending, Able, AbleToBet, Live, active_players
  <2>3. Base(t) <= Base(s) /\ street_contrib[t] <= current_bet
    BY <2>1, <2>2 DEF HandInv, Deepest
  <2>. QED
    BY <2>1, <2>2, <2>3 DEF Base
<1>. QED
  BY <1>1, Invariance, PTL

\* All in, and nothing else, is having no chips behind in a hand.
THEOREM AllInIsNoChips == Spec => []AllInMeansNoChips
<1>1. IInv => AllInMeansNoChips
  BY DEF IInv, HandInv, AllInMeansNoChips
<1>. QED
  BY <1>1, Invariance, PTL

\* Busted, and nothing else, is having no chips between hands; and somebody
\* always has some.
THEOREM BustedIsNoChips == Spec => []BustedMeansNoChips
<1>1. IInv => BustedMeansNoChips
  <2>. SUFFICES ASSUME IInv, hand_over PROVE BustedMeansNoChips
    BY DEF BustedMeansNoChips
  <2>1. ~InHand /\ BetweenHandsInv
    BY DEF IInv, HandInv
  <2>2. Total(stacks) + 0 = ChipsInPlay /\ stacks \in [Seat -> Nat]
    BY <2>1 DEF IInv, ChipsConserved, TypeOK, Chips
  <2>3. \E s \in Seat : stacks[s] # 0
    <3>. SUFFICES ASSUME stacks[0] = 0, stacks[1] = 0, stacks[2] = 0 PROVE FALSE
      BY DEF Seat
    <3>. QED
      BY <2>2, ChipsAssumption DEF Total, ChipsInPlay
  <2>. QED
    BY <2>1, <2>3 DEF BetweenHandsInv, BustedMeansNoChips, active_seats
<1>. QED
  BY <1>1, Invariance, PTL

\* Everything legal_actions offers can be paid, and every raise raises.
THEOREM LegalActionsPay == Spec => []LegalActionsArePayable
<1>1. IInv => LegalActionsArePayable
  <2>. SUFFICES ASSUME IInv, outcome = "Continue", NEW a \in Action, allows(a)
                PROVE  /\ Paid(a) \in 0..stack_to_act
                       /\ a.kind \in {"Bet", "Raise"} => a.amount > current_bet
    BY DEF LegalActionsArePayable
  <2>1. Paid(a) \in 0..stacks[to_act]
    BY LegalActionPays
  <2>2. /\ to_act \in Seat /\ stacks[to_act] \in Nat /\ street_contrib[to_act] \in Nat
        /\ current_bet \in Nat /\ min_raise \in Nat \ {0}
        /\ street_contrib[to_act] <= current_bet
        /\ BIG_BLIND \in Nat
    BY ChipsAssumption DEF IInv, TypeOK, Chips, ChipsInPlay, InHand, HandInv
  <2>3. a.amount \in Nat
    BY ChipsAssumption DEF Action, Plain, Sized, ChipsInPlay
  <2>4. a.kind = "Bet" => a.amount > current_bet
    BY <2>2, <2>3 DEF allows, can_bet, min_bet, max_bet, to_call, stack_to_act,
                      Greater, Lesser
  <2>5. a.kind = "Raise" => a.amount > current_bet
    BY <2>2, <2>3 DEF allows, can_raise, min_raise_to, max_bet, to_call, stack_to_act,
                      Greater, Lesser
  <2>. QED
    BY <2>1, <2>4, <2>5 DEF stack_to_act
<1>. QED
  BY <1>1, Invariance, PTL

\* A seat that busted never comes back.
THEOREM BustedSeatsStayOut == Spec => BustedStayOut
<1>. DEFINE Out == \A s \in Seat : eliminated[s] => eliminated'[s] /\ stacks'[s] = 0
<1>1. IInv' => \A s \in Seat : eliminated'[s] => stacks'[s] = 0
  BY DEF IInv, HandInv, BetweenHandsInv
<1>2. IInv /\ Next => \A s \in Seat : eliminated[s] => eliminated'[s]
  <2>. SUFFICES ASSUME IInv, Next PROVE \A s \in Seat : eliminated[s] => eliminated'[s]
    OBVIOUS
  <2>1. CASE FirstHand \/ NextHand
    BY <2>1 DEF FirstHand, NextHand, start_hand
  <2>2. CASE ApplyAction
    BY <2>2 DEF ApplyAction, apply_action, award_fold_win, finish_hand, mark_eliminated
  <2>3. CASE AdvanceStreet
    BY <2>3 DEF AdvanceStreet
  <2>4. CASE Showdown
    BY <2>4 DEF Showdown, showdown, finish_hand, mark_eliminated
  <2>5. CASE TournamentOver
    BY <2>5 DEF TournamentOver, vars
  <2>. QED
    BY <2>1, <2>2, <2>3, <2>4, <2>5 DEF Next
<1>3. IInv /\ IInv' /\ [Next]_vars => [Out]_vars
  BY <1>1, <1>2
<1>. QED
  BY <1>3, Invariance, PTL DEF Spec, BustedStayOut

-----------------------------------------------------------------------------
(***************************************************************************)
(* While a hand is played there is a pot to win, and a seat that is all in *)
(* has chips in it; once it is over, it was paid out as covered.           *)
(***************************************************************************)
PotInv ==
  InHand => /\ \E s \in Seat : total_contrib[s] > 0
            /\ \A s \in Seat : all_in[s] => total_contrib[s] > 0

PayInv == PotInv /\ PayoutsAreCovered

(***************************************************************************)
(* The slices of a pot.                                                    *)
(***************************************************************************)
\* The levels rise, and every contribution is one of them.
LEMMA LevelFacts ==
  ASSUME total_contrib \in [Seat -> Nat]
  PROVE  /\ Level(0) = 0
         /\ Level(1) \in Nat /\ Level(2) \in Nat /\ Level(3) \in Nat
         /\ Level(1) <= Level(2) /\ Level(2) <= Level(3)
         /\ \A s \in Seat : \/ total_contrib[s] = Level(1)
                            \/ total_contrib[s] = Level(2)
                            \/ total_contrib[s] = Level(3)
<1>. DEFINE c == total_contrib
<1>1. c[0] \in Nat /\ c[1] \in Nat /\ c[2] \in Nat
  BY DEF Seat
<1>2. Level(0) = 0
  BY DEF Level
<1>3. Level(1) = LowestOf(c)
  BY DEF Level
<1>4. Level(2) = Total(c) - LowestOf(c) - HighestOf(c)
  BY DEF Level
<1>5. Level(3) = HighestOf(c)
  BY DEF Level
<1>6. /\ Level(1) \in Nat /\ Level(2) \in Nat /\ Level(3) \in Nat
      /\ Level(1) <= Level(2) /\ Level(2) <= Level(3)
      /\ c[0] = Level(1) \/ c[0] = Level(2) \/ c[0] = Level(3)
      /\ c[1] = Level(1) \/ c[1] = Level(2) \/ c[1] = Level(3)
      /\ c[2] = Level(1) \/ c[2] = Level(2) \/ c[2] = Level(3)
  BY <1>1, <1>3, <1>4, <1>5 DEF LowestOf, HighestOf, Lesser, Greater, Total
<1>. QED
  BY <1>2, <1>6 DEF Seat

\* What the pots that seat s is eligible for hold of the chips of seat t.
Reached(s, t) ==
  (IF total_contrib[s] >= Level(1) THEN Slice(1, t) ELSE 0)
  + (IF total_contrib[s] >= Level(2) THEN Slice(2, t) ELSE 0)
  + (IF total_contrib[s] >= Level(3) THEN Slice(3, t) ELSE 0)

\* Of the chips of seat t, the pots of seat s hold as much as s put in itself.
LEMMA ReachedIsTheLesser ==
  ASSUME total_contrib \in [Seat -> Nat], NEW s \in Seat, NEW t \in Seat
  PROVE  /\ Slice(1, t) \in Nat /\ Slice(2, t) \in Nat /\ Slice(3, t) \in Nat
         /\ Reached(s, t) = Lesser(total_contrib[t], total_contrib[s])
<1>1. /\ Slice(1, t) = IF total_contrib[t] >= Level(1) THEN Level(1) - Level(0) ELSE 0
      /\ Slice(2, t) = IF total_contrib[t] >= Level(2) THEN Level(2) - Level(1) ELSE 0
      /\ Slice(3, t) = IF total_contrib[t] >= Level(3) THEN Level(3) - Level(2) ELSE 0
  BY DEF Slice
<1>2. total_contrib[s] \in Nat /\ total_contrib[t] \in Nat
  OBVIOUS
<1>3. /\ Slice(1, t) \in Nat /\ Slice(2, t) \in Nat /\ Slice(3, t) \in Nat
  BY <1>1, <1>2, LevelFacts
<1>4. Reached(s, t) = Lesser(total_contrib[t], total_contrib[s])
  <2>1. CASE total_contrib[s] = Level(1)
    BY <1>1, <1>2, <2>1, LevelFacts DEF Reached, Lesser
  <2>2. CASE total_contrib[s] = Level(2)
    BY <1>1, <1>2, <2>2, LevelFacts DEF Reached, Lesser
  <2>3. CASE total_contrib[s] = Level(3)
    BY <1>1, <1>2, <2>3, LevelFacts DEF Reached, Lesser
  <2>. QED
    BY <2>1, <2>2, <2>3, LevelFacts
<1>. QED
  BY <1>3, <1>4

\* The share of a pot is at most the pot, and goes to an eligible seat.
LEMMA ShareIsBounded ==
  ASSUME NEW k, NEW rank \in Ranking, PotAmount(k) \in Nat, Eligible(k) # {}, NEW s \in Seat
  PROVE  /\ Share(k, rank, s) \in 0..PotAmount(k)
         /\ s \notin Eligible(k) => Share(k, rank, s) = 0
<1>1. /\ \A t \in Seat : Share(k, rank, t) \in Nat
      /\ Share(k, rank, 0) + Share(k, rank, 1) + Share(k, rank, 2) = PotAmount(k)
  BY SharesAddUp
<1>2. /\ Share(k, rank, 0) \in Nat /\ Share(k, rank, 1) \in Nat /\ Share(k, rank, 2) \in Nat
      /\ s = 0 \/ s = 1 \/ s = 2
  BY <1>1 DEF Seat
<1>3. Share(k, rank, s) \in 0..PotAmount(k)
  BY <1>1, <1>2
<1>4. s \notin Eligible(k) => Share(k, rank, s) = 0
  BY EveryPotHasAWinner DEF Share
<1>. QED
  BY <1>3, <1>4

\* Nobody is paid more than the pots it is eligible for hold, which is what it
\* covered.
LEMMA SharesAreCovered ==
  ASSUME total_contrib \in [Seat -> Nat], NEW rank \in Ranking, NEW s \in Seat,
         \A k \in {1, 2, 3} : Eligible(k) # {}
  PROVE  /\ \A k \in {1, 2, 3} : Share(k, rank, s) \in Nat
         /\ Share(1, rank, s) + Share(2, rank, s) + Share(3, rank, s) <= Cover(s)
         /\ folded[s] => \A k \in {1, 2, 3} : Share(k, rank, s) = 0
<1>1. \A k \in {1, 2, 3} : PotAmount(k) \in Nat
  BY PotsHoldTheContributions
<1>2. \A k \in {1, 2, 3} : /\ Share(k, rank, s) \in 0..PotAmount(k)
                           /\ s \notin Eligible(k) => Share(k, rank, s) = 0
  BY <1>1, ShareIsBounded
<1>3. \A k \in {1, 2, 3} : s \in Eligible(k) => ~folded[s] /\ total_contrib[s] >= Level(k)
  BY DEF Eligible, active_players, Live
<1>4. \A k \in {1, 2, 3} :
        /\ PotAmount(k) = Slice(k, 0) + Slice(k, 1) + Slice(k, 2)
        /\ Slice(k, 0) \in Nat /\ Slice(k, 1) \in Nat /\ Slice(k, 2) \in Nat
  <2>1. 0 \in Seat /\ 1 \in Seat /\ 2 \in Seat
    BY DEF Seat
  <2>2. \A t \in Seat : Slice(1, t) \in Nat /\ Slice(2, t) \in Nat /\ Slice(3, t) \in Nat
    BY ReachedIsTheLesser
  <2>. QED
    BY <2>1, <2>2 DEF PotAmount
<1>5. Cover(s) = Reached(s, 0) + Reached(s, 1) + Reached(s, 2)
  <2>1. 0 \in Seat /\ 1 \in Seat /\ 2 \in Seat
    BY DEF Seat
  <2>. QED
    BY <2>1, ReachedIsTheLesser DEF Cover
<1>6. Share(1, rank, s) + Share(2, rank, s) + Share(3, rank, s) <= Cover(s)
  <2>. DEFINE R(k, t) == IF total_contrib[s] >= Level(k) THEN Slice(k, t) ELSE 0
  <2>1. ASSUME NEW k \in {1, 2, 3}
        PROVE  /\ R(k, 0) \in Nat /\ R(k, 1) \in Nat /\ R(k, 2) \in Nat
               /\ Share(k, rank, s) \in Nat
               /\ Share(k, rank, s) <= R(k, 0) + R(k, 1) + R(k, 2)
    BY <1>1, <1>2, <1>3, <1>4
  <2>2. \A t : Reached(s, t) = R(1, t) + R(2, t) + R(3, t)
    BY DEF Reached
  <2>. HIDE DEF R
  <2>. QED
    BY <1>5, <2>1, <2>2
<1>7. folded[s] => \A k \in {1, 2, 3} : Share(k, rank, s) = 0
  BY <1>2, <1>3
<1>. QED
  BY <1>2, <1>6, <1>7

\* At the showdown every live seat has chips in the pot, ...
LEMMA LiveSeatsHaveChipsIn ==
  ASSUME IInv, PotInv, outcome = "StreetEnded", NEW s \in active_players
  PROVE  s \in Seat /\ total_contrib[s] > 0
<1>1. /\ InHand /\ HandInv /\ Pending = {}
      /\ street_contrib \in [Seat -> Nat] /\ total_contrib \in [Seat -> Nat]
      /\ current_bet \in Nat
  BY DEF IInv, InHand, TurnInv, TypeOK, Chips
<1>2. s \in Seat
  BY DEF active_players, Live
<1>3. CASE all_in[s]
  BY <1>1, <1>2, <1>3 DEF PotInv
<1>4. CASE ~all_in[s]
  <2>1. s \in Able
    BY <1>4 DEF Able, AbleToBet, active_players
  <2>2. street_contrib[s] = current_bet
    BY <1>1, <2>1 DEF Pending
  <2>3. PICK t \in Seat : total_contrib[t] > 0
    BY <1>1 DEF PotInv
  <2>4. Base(t) <= Base(s) /\ street_contrib[t] <= current_bet
    BY <1>1, <2>1 DEF HandInv, Deepest
  <2>. QED
    BY <1>1, <1>2, <2>2, <2>3, <2>4 DEF Base
<1>. QED
  BY <1>2, <1>3, <1>4

\* ... and so the lowest pot with chips in it is contested by two of them.
LEMMA SomePotIsContested ==
  ASSUME IInv, PotInv, outcome = "StreetEnded"
  PROVE  \E k \in {1, 2, 3} : PotAmount(k) > 0 /\ Cardinality(Eligible(k)) # 1
<1>1. /\ InHand /\ HandInv /\ total_contrib \in [Seat -> Nat]
  BY DEF IInv, InHand, TypeOK, Chips
<1>2. PICK s \in active_players, t \in active_players : s # t
  BY <1>1 DEF HandInv
<1>3. /\ s \in Seat /\ total_contrib[s] > 0 /\ total_contrib[s] \in Nat
      /\ t \in Seat /\ total_contrib[t] > 0 /\ total_contrib[t] \in Nat
  BY <1>1, LiveSeatsHaveChipsIn
<1>4. ASSUME NEW k \in {1, 2, 3}, Level(k) > Level(k - 1),
             Level(k) \in Nat, Level(k - 1) \in Nat,
             total_contrib[s] >= Level(k), total_contrib[t] >= Level(k)
      PROVE  PotAmount(k) > 0 /\ Cardinality(Eligible(k)) # 1
  <2>1. Slice(k, s) > 0
    BY <1>4 DEF Slice
  <2>2. \A u \in Seat : Slice(k, u) \in Nat
    BY <1>4 DEF Slice
  <2>3. PotAmount(k) > 0
    BY <1>3, <2>1, <2>2 DEF PotAmount, Seat
  <2>4. Eligible(k) \in SUBSET Seat
    BY DEF Eligible, active_players, Live
  <2>5. s \in Eligible(k) /\ t \in Eligible(k)
    BY <1>2, <1>4 DEF Eligible
  <2>6. Cardinality(Eligible(k)) # 1
    BY <1>2, <2>4, <2>5, OneSeat
  <2>. QED
    BY <2>3, <2>6
<1>5. /\ Level(0) = 0
      /\ Level(1) \in Nat /\ Level(2) \in Nat /\ Level(3) \in Nat
      /\ Level(1) <= Level(2) /\ Level(2) <= Level(3)
      /\ \/ total_contrib[s] = Level(1) \/ total_contrib[s] = Level(2)
         \/ total_contrib[s] = Level(3)
      /\ \/ total_contrib[t] = Level(1) \/ total_contrib[t] = Level(2)
         \/ total_contrib[t] = Level(3)
  BY <1>1, <1>3, LevelFacts
<1>6. CASE Level(1) > 0
  <2>1. Level(1) > Level(1 - 1) /\ Level(1 - 1) \in Nat
    BY <1>5, <1>6
  <2>2. total_contrib[s] >= Level(1) /\ total_contrib[t] >= Level(1)
    BY <1>5
  <2>. QED
    BY <1>4, <1>5, <2>1, <2>2
<1>7. CASE Level(1) = 0 /\ Level(2) > 0
  <2>1. Level(2) > Level(2 - 1) /\ Level(2 - 1) \in Nat
    BY <1>5, <1>7
  <2>2. total_contrib[s] >= Level(2) /\ total_contrib[t] >= Level(2)
    BY <1>3, <1>5, <1>7
  <2>. QED
    BY <1>4, <1>5, <2>1, <2>2
<1>8. CASE Level(1) = 0 /\ Level(2) = 0
  <2>1. total_contrib[s] = Level(3) /\ total_contrib[t] = Level(3) /\ Level(3) > 0
    BY <1>3, <1>5, <1>8
  <2>2. Level(3) > Level(3 - 1) /\ Level(3 - 1) \in Nat
    BY <1>5, <1>8, <2>1
  <2>. QED
    BY <1>4, <1>5, <2>1, <2>2
<1>. QED
  BY <1>5, <1>6, <1>7, <1>8

-----------------------------------------------------------------------------
(***************************************************************************)
(* What each action of a hand pays.                                        *)
(***************************************************************************)

\* A showdown pays every seat its shares of the pots: what is awarded and what
\* is returned, no more than it covered, and to somebody more than a return.
LEMMA ShowdownPays ==
  ASSUME IInv, PotInv, NEW rank \in Ranking, showdown(rank)
  PROVE  /\ hand_over' /\ ~InHand'
         /\ total_contrib' = total_contrib /\ folded' = folded
         /\ \E s \in Seat : hand_result.awards[s]' > 0
         /\ \A s \in Seat :
              /\ hand_result.awards[s]' \in Nat /\ hand_result.returns[s]' \in Nat
              /\ stacks'[s] = stacks[s] + (hand_result.awards[s]' + hand_result.returns[s]')
              /\ hand_result.awards[s]' + hand_result.returns[s]' <= Cover(s)
              /\ folded[s] => hand_result.awards[s]' + hand_result.returns[s]' = 0
<1>. DEFINE awards  == [s \in Seat |-> Awarded(1, rank, s) + Awarded(2, rank, s) + Awarded(3, rank, s)]
            returns == [s \in Seat |-> Returned(1, rank, s) + Returned(2, rank, s) + Returned(3, rank, s)]
<1>1. /\ outcome = "StreetEnded" /\ InHand
      /\ total_contrib \in [Seat -> Nat] /\ stacks \in [Seat -> Nat]
  BY DEF showdown, IInv, TypeOK, Chips, InHand
<1>2. /\ stacks' = [s \in Seat |-> stacks[s] + awards[s] + returns[s]]
      /\ hand_over' /\ outcome' = "HandEnded"
      /\ hand_result' = [reason |-> "Showdown", awards |-> awards, returns |-> returns]
      /\ total_contrib' = total_contrib /\ folded' = folded
  BY DEF showdown, finish_hand, betting
<1>3. \A k \in {1, 2, 3} : Eligible(k) # {}
  BY <1>1, EveryPotIsEligible DEF Pots
<1>4. \A s \in Seat :
        /\ \A k \in {1, 2, 3} : Share(k, rank, s) \in Nat
        /\ Share(1, rank, s) + Share(2, rank, s) + Share(3, rank, s) <= Cover(s)
        /\ folded[s] => \A k \in {1, 2, 3} : Share(k, rank, s) = 0
  BY <1>1, <1>3, SharesAreCovered
<1>5. \A s \in Seat, k \in {1, 2, 3} :
        /\ Awarded(k, rank, s) \in Nat /\ Returned(k, rank, s) \in Nat
        /\ Awarded(k, rank, s) + Returned(k, rank, s) = Share(k, rank, s)
  BY <1>4 DEF Awarded, Returned
<1>6. \A s \in Seat :
        /\ awards[s] \in Nat /\ returns[s] \in Nat
        /\ awards[s] + returns[s] = Share(1, rank, s) + Share(2, rank, s) + Share(3, rank, s)
  <2>. SUFFICES ASSUME NEW s \in Seat
                PROVE  /\ awards[s] \in Nat /\ returns[s] \in Nat
                       /\ awards[s] + returns[s]
                            = Share(1, rank, s) + Share(2, rank, s) + Share(3, rank, s)
    OBVIOUS
  <2>1. /\ awards[s] = Awarded(1, rank, s) + Awarded(2, rank, s) + Awarded(3, rank, s)
        /\ returns[s] = Returned(1, rank, s) + Returned(2, rank, s) + Returned(3, rank, s)
    OBVIOUS
  <2>2. \A k \in {1, 2, 3} :
          /\ Awarded(k, rank, s) \in Nat /\ Returned(k, rank, s) \in Nat
          /\ Awarded(k, rank, s) + Returned(k, rank, s) = Share(k, rank, s)
    BY <1>5
  <2>. HIDE DEF awards, returns
  <2>. QED
    BY <2>1, <2>2
<1>7. \E s \in Seat : awards[s] > 0
  <2>1. PICK k \in {1, 2, 3} : PotAmount(k) > 0 /\ Cardinality(Eligible(k)) # 1
    BY <1>1, SomePotIsContested
  <2>2. PotAmount(k) \in Nat /\ Eligible(k) # {}
    BY <1>1, <1>3, PotsHoldTheContributions
  <2>3. /\ Share(k, rank, 0) + Share(k, rank, 1) + Share(k, rank, 2) = PotAmount(k)
        /\ \A s \in Seat : Share(k, rank, s) \in Nat
    BY <2>2, SharesAddUp
  <2>4. \E s \in Seat : Share(k, rank, s) > 0
    <3>1. /\ Share(k, rank, 0) \in Nat /\ Share(k, rank, 1) \in Nat /\ Share(k, rank, 2) \in Nat
          /\ 0 \in Seat /\ 1 \in Seat /\ 2 \in Seat
      BY <2>3 DEF Seat
    <3>2. Share(k, rank, 0) > 0 \/ Share(k, rank, 1) > 0 \/ Share(k, rank, 2) > 0
      BY <2>1, <2>2, <2>3, <3>1
    <3>. QED
      BY <3>1, <3>2
  <2>5. PICK s \in Seat : Share(k, rank, s) > 0
    BY <2>4
  <2>6. Awarded(k, rank, s) > 0
    BY <2>1, <2>5 DEF Awarded
  <2>7. /\ Awarded(1, rank, s) \in Nat /\ Awarded(2, rank, s) \in Nat
        /\ Awarded(3, rank, s) \in Nat
        /\ k = 1 \/ k = 2 \/ k = 3
        /\ awards[s] = Awarded(1, rank, s) + Awarded(2, rank, s) + Awarded(3, rank, s)
    BY <1>5
  <2>. HIDE DEF awards, returns
  <2>8. awards[s] > 0
    BY <2>6, <2>7
  <2>. QED
    BY <2>8
<1>. HIDE DEF awards, returns
<1>8. /\ hand_result.awards' = awards /\ hand_result.returns' = returns
  BY <1>2
<1>9. ~InHand'
  BY <1>2 DEF InHand
<1>10. \A s \in Seat : stacks'[s] = stacks[s] + (awards[s] + returns[s])
  BY <1>1, <1>2, <1>6
<1>11. ASSUME NEW s \in Seat
       PROVE  /\ awards[s] + returns[s] <= Cover(s)
              /\ folded[s] => awards[s] + returns[s] = 0
  BY <1>4, <1>6
<1>. QED
  BY <1>2, <1>6, <1>7, <1>8, <1>9, <1>10, <1>11

\* The last live seat is one that reaches every pot, so it covers all of them.
LEMMA FoldWinPays ==
  ASSUME IInv, PotInv, NEW a \in Action, apply_action(a),
         Cardinality(Live([folded EXCEPT ![to_act] = @ \/ a.kind = "Fold"])) = 1
  PROVE  /\ hand_over' /\ ~InHand'
         /\ total_contrib' = total_contrib
         /\ folded' \in [Seat -> BOOLEAN]
         /\ Total(total_contrib) \in Nat /\ Total(total_contrib) > 0
         /\ \E w \in Seat :
              /\ ~folded'[w]
              /\ hand_result' = [reason  |-> "Fold",
                                 awards  |-> [NoChips EXCEPT ![w] = Total(total_contrib)],
                                 returns |-> NoChips]
              /\ stacks' = [stacks EXCEPT ![w] = @ + Total(total_contrib)]
              /\ Cover(w) = Total(total_contrib)
<1>. DEFINE fold   == [folded EXCEPT ![to_act] = @ \/ a.kind = "Fold"]
            behind == [stacks EXCEPT ![to_act] = @ - Paid(a)]
<1>1. /\ outcome = "Continue" /\ allows(a) /\ InHand
      /\ total_contrib' = [total_contrib EXCEPT ![to_act] = @ + Paid(a)]
      /\ folded' = fold
      /\ \E w \in Live(fold) : award_fold_win(w, behind, total_contrib')
  BY DEF apply_action, InHand
<1>2. /\ HandInv /\ to_act \in Seat
      /\ total_contrib \in [Seat -> Nat] /\ stacks \in [Seat -> Nat]
      /\ street_contrib \in [Seat -> Nat] /\ current_bet \in Nat
      /\ folded \in [Seat -> BOOLEAN]
  BY <1>1 DEF IInv, TypeOK, Chips
<1>3. /\ active_players \in SUBSET Seat /\ Live(fold) \in SUBSET Seat
      /\ active_players = Live(folded)
  BY DEF active_players, Live
<1>4. a.kind = "Fold"
  <2>. SUFFICES ASSUME a.kind # "Fold" PROVE FALSE
    OBVIOUS
  <2>1. fold = folded
    BY <1>2
  <2>2. Cardinality(active_players) = 1
    BY <1>3, <2>1
  <2>. QED
    BY <1>2, <1>3, <2>2, OneSeat DEF HandInv
<1>5. Paid(a) = 0 /\ street_contrib[to_act] < current_bet
  BY <1>1, <1>4, LegalActionPays
<1>6. total_contrib' = total_contrib /\ behind = stacks
  BY <1>1, <1>2, <1>5
<1>7. PICK w \in Live(fold) : award_fold_win(w, stacks, total_contrib)
  BY <1>1, <1>6
<1>8. w \in Seat /\ ~fold[w]
  BY DEF Live
<1>9. PICK top \in active_players : street_contrib[top] = current_bet /\ Deepest(top)
  BY <1>2 DEF HandInv
<1>10. top = w
  <2>1. top # to_act
    BY <1>2, <1>5, <1>9
  <2>2. top \in Live(fold)
    BY <1>2, <1>3, <2>1 DEF Live
  <2>3. \E x \in Seat : Live(fold) = {x}
    BY <1>3, OneSeat
  <2>. QED
    BY <2>2, <2>3
<1>11. \A t \in Seat : total_contrib[t] <= total_contrib[w]
  <2>. SUFFICES ASSUME NEW t \in Seat PROVE total_contrib[t] <= total_contrib[w]
    OBVIOUS
  <2>1. Base(t) <= Base(w) /\ street_contrib[t] <= current_bet
    BY <1>2, <1>9, <1>10 DEF HandInv, Deepest
  <2>. QED
    BY <1>2, <1>8, <1>9, <1>10, <2>1 DEF Base
<1>12. /\ total_contrib[0] \in Nat /\ total_contrib[1] \in Nat /\ total_contrib[2] \in Nat
       /\ total_contrib[0] <= total_contrib[w] /\ total_contrib[1] <= total_contrib[w]
       /\ total_contrib[2] <= total_contrib[w]
       /\ total_contrib[0] > 0 \/ total_contrib[1] > 0 \/ total_contrib[2] > 0
  BY <1>1, <1>2, <1>11 DEF PotInv, Seat
<1>13. Cover(w) = Total(total_contrib)
  BY <1>12 DEF Cover, Lesser, Total
<1>14. Total(total_contrib) \in Nat /\ Total(total_contrib) > 0
  BY <1>12 DEF Total
<1>15. /\ hand_over' /\ outcome' = "HandEnded"
       /\ hand_result' = [reason  |-> "Fold",
                          awards  |-> [NoChips EXCEPT ![w] = Total(total_contrib)],
                          returns |-> NoChips]
       /\ stacks' = [stacks EXCEPT ![w] = @ + Total(total_contrib)]
  BY <1>7 DEF award_fold_win, finish_hand
<1>16. ~InHand'
  BY <1>15 DEF InHand
<1>17. fold \in [Seat -> BOOLEAN]
  BY <1>2
<1>. QED
  BY <1>1, <1>6, <1>8, <1>13, <1>14, <1>15, <1>16, <1>17

\* A step that ends a hand: everybody keeps what it had behind, nobody is paid
\* more than it covered, or anything once it folded, and some pot is won.
LEMMA HandPays ==
  ASSUME IInv, PotInv, Next, InHand, ~InHand'
  PROVE  /\ hand_over' /\ total_contrib' = total_contrib
         /\ \E s \in Seat : hand_result.awards[s]' > 0
         /\ \A s \in Seat :
              /\ stacks'[s] \in stacks[s] .. stacks[s] + Cover(s)
              /\ hand_result.awards[s]' + hand_result.returns[s]' <= Cover(s)
              /\ folded'[s] => hand_result.awards[s]' + hand_result.returns[s]' = 0
<1>1. /\ ~hand_over /\ stacks \in [Seat -> Nat] /\ total_contrib \in [Seat -> Nat]
  BY DEF IInv, HandInv, TypeOK, Chips
<1>2. \A s \in Seat : Cover(s) \in Nat
  <2>1. total_contrib[0] \in Nat /\ total_contrib[1] \in Nat /\ total_contrib[2] \in Nat
    BY <1>1 DEF Seat
  <2>. QED
    BY <1>1, <2>1 DEF Cover, Lesser
<1>3. CASE Showdown
  <2>1. PICK rank \in Ranking : showdown(rank)
    BY <1>3 DEF Showdown
  <2>2. /\ hand_over' /\ ~InHand'
        /\ total_contrib' = total_contrib /\ folded' = folded
        /\ \E s \in Seat : hand_result.awards[s]' > 0
        /\ \A s \in Seat :
             /\ hand_result.awards[s]' \in Nat /\ hand_result.returns[s]' \in Nat
             /\ stacks'[s] = stacks[s] + (hand_result.awards[s]' + hand_result.returns[s]')
             /\ hand_result.awards[s]' + hand_result.returns[s]' <= Cover(s)
             /\ folded[s] => hand_result.awards[s]' + hand_result.returns[s]' = 0
    BY <2>1, ShowdownPays
  <2>3. \A s \in Seat : stacks'[s] \in stacks[s] .. stacks[s] + Cover(s)
    BY <1>1, <1>2, <2>2
  <2>. QED
    BY <2>2, <2>3
<1>4. ASSUME NEW a \in Action, apply_action(a)
      PROVE  /\ hand_over' /\ total_contrib' = total_contrib
             /\ \E s \in Seat : hand_result.awards[s]' > 0
             /\ \A s \in Seat :
                  /\ stacks'[s] \in stacks[s] .. stacks[s] + Cover(s)
                  /\ hand_result.awards[s]' + hand_result.returns[s]' <= Cover(s)
                  /\ folded'[s] => hand_result.awards[s]' + hand_result.returns[s]' = 0
  <2>1. Cardinality(Live([folded EXCEPT ![to_act] = @ \/ a.kind = "Fold"])) = 1
    BY <1>4 DEF apply_action, InHand
  <2>2. /\ hand_over' /\ total_contrib' = total_contrib
        /\ Total(total_contrib) \in Nat /\ Total(total_contrib) > 0
        /\ \E w \in Seat :
             /\ ~folded'[w]
             /\ hand_result' = [reason  |-> "Fold",
                                awards  |-> [NoChips EXCEPT ![w] = Total(total_contrib)],
                                returns |-> NoChips]
             /\ stacks' = [stacks EXCEPT ![w] = @ + Total(total_contrib)]
             /\ Cover(w) = Total(total_contrib)
    BY <1>4, <2>1, FoldWinPays
  <2>3. PICK w \in Seat :
             /\ ~folded'[w]
             /\ hand_result' = [reason  |-> "Fold",
                                awards  |-> [NoChips EXCEPT ![w] = Total(total_contrib)],
                                returns |-> NoChips]
             /\ stacks' = [stacks EXCEPT ![w] = @ + Total(total_contrib)]
             /\ Cover(w) = Total(total_contrib)
    BY <2>2
  <2>4. \A s \in Seat :
          /\ hand_result.awards[s]' = IF s = w THEN Total(total_contrib) ELSE 0
          /\ hand_result.returns[s]' = 0
          /\ stacks'[s] = IF s = w THEN stacks[s] + Total(total_contrib) ELSE stacks[s]
    BY <1>1, <2>3 DEF NoChips
  <2>5. ASSUME NEW s \in Seat
        PROVE  /\ stacks'[s] \in stacks[s] .. stacks[s] + Cover(s)
               /\ hand_result.awards[s]' + hand_result.returns[s]' <= Cover(s)
               /\ folded'[s] => hand_result.awards[s]' + hand_result.returns[s]' = 0
    BY <1>1, <1>2, <2>2, <2>3, <2>4
  <2>6. hand_result.awards[w]' > 0
    BY <2>2, <2>4
  <2>. QED
    BY <2>2, <2>5, <2>6
<1>5. Showdown \/ ApplyAction
  <2>1. ~NextHand /\ ~FirstHand /\ ~TournamentOver
    BY <1>1 DEF NextHand, FirstHand, TournamentOver, InHand
  <2>2. ~AdvanceStreet
    BY DEF AdvanceStreet, InHand
  <2>. QED
    BY <2>1, <2>2 DEF Next
<1>. QED
  BY <1>3, <1>4, <1>5 DEF ApplyAction

\* A step that deals a hand: at least two seats have chips, the blinds come from
\* what the seats have, and whoever posted the last chip has it in the pot.
LEMMA DealPosts ==
  ASSUME IInv, Next, ~InHand, InHand'
  PROVE  /\ PotInv'
         /\ \E s, t \in Seat : s # t /\ stacks[s] > 0 /\ stacks[t] > 0
         /\ \A s \in Seat : /\ total_contrib'[s] \in 0..stacks[s]
                            /\ stacks'[s] = stacks[s] - total_contrib'[s]
<1>1. /\ stacks \in [Seat -> Nat] /\ eliminated \in [Seat -> BOOLEAN] /\ button \in Seat
      /\ \A s \in Seat : eliminated[s] <=> stacks[s] = 0
  BY DEF IInv, TypeOK, Chips, BetweenHandsInv
<1>2. FirstHand \/ NextHand
  <2>1. ~ApplyAction /\ ~AdvanceStreet /\ ~Showdown
    BY DEF ApplyAction, apply_action, AdvanceStreet, Showdown, showdown, InHand
  <2>2. ~TournamentOver
    BY DEF TournamentOver, vars, InHand
  <2>. QED
    BY <2>1, <2>2 DEF Next
<1>3. Cardinality(active_seats) >= 2
  BY <1>2 DEF FirstHand, NextHand, start_hand
<1>4. \E btn, bb \in Seat : btn # bb /\ ~eliminated[btn] /\ ~eliminated[bb]
                                       /\ start_hand(btn, bb)
  <2>1. CASE FirstHand
    <3>1. ~eliminated[button] /\ start_hand(button, next_active(button))
      BY <2>1 DEF FirstHand, IInv, BetweenHandsInv
    <3>. QED
      BY <1>1, <1>3, <3>1, NextActiveFacts
  <2>2. CASE NextHand
    <3>. DEFINE b == next_active(button)
    <3>1. start_hand(b, next_active(b))
      BY <2>2 DEF NextHand
    <3>2. b \in Seat /\ ~eliminated[b]
      BY <1>1, <1>3, NextActiveFacts
    <3>. HIDE DEF b
    <3>3. /\ next_active(b) \in Seat /\ next_active(b) # b
          /\ ~eliminated[next_active(b)]
      BY <1>1, <1>3, <3>2, NextActiveFacts
    <3>. QED
      BY <3>1, <3>2, <3>3
  <2>. QED
    BY <1>2, <2>1, <2>2
<1>5. PICK btn \in Seat, bb \in Seat : btn # bb /\ ~eliminated[btn] /\ ~eliminated[bb]
                                       /\ start_hand(btn, bb)
  BY <1>4
<1>. DEFINE posted == [s \in Seat |-> Posted(btn, bb, s)]
<1>6. /\ total_contrib' = posted
      /\ stacks' = [s \in Seat |-> stacks[s] - posted[s]]
      /\ all_in' = [s \in Seat |-> s \in {btn, bb} /\ posted[s] = stacks[s]]
  BY <1>5 DEF start_hand
<1>7. ASSUME NEW s \in Seat
      PROVE  /\ posted[s] \in 0..stacks[s]
             /\ s \in {btn, bb} /\ stacks[s] > 0 => posted[s] > 0
  BY <1>1, ChipsAssumption DEF Posted, Lesser
<1>. HIDE DEF posted
<1>8. \E s, t \in Seat : s # t /\ stacks[s] > 0 /\ stacks[t] > 0
  <2>1. active_seats \in SUBSET Seat
    BY DEF active_seats
  <2>2. PICK s \in active_seats, t \in active_seats : s # t
    BY <1>3, <2>1, TwoSeats
  <2>3. stacks[s] > 0 /\ stacks[t] > 0 /\ s \in Seat /\ t \in Seat
    BY <1>1 DEF active_seats
  <2>. QED
    BY <2>2, <2>3
<1>9. PotInv'
  <2>1. total_contrib'[btn] > 0
    BY <1>1, <1>5, <1>6, <1>7
  <2>2. ASSUME NEW s \in Seat, all_in'[s]
        PROVE  total_contrib'[s] > 0
    <3>1. s \in {btn, bb} /\ posted[s] = stacks[s]
      BY <1>6, <2>2
    <3>2. stacks[s] > 0
      BY <1>1, <1>5, <3>1
    <3>. QED
      BY <1>6, <3>1, <3>2
  <2>. QED
    BY <2>1, <2>2 DEF PotInv
<1>10. \A s \in Seat : /\ total_contrib'[s] \in 0..stacks[s]
                       /\ stacks'[s] = stacks[s] - total_contrib'[s]
  BY <1>6, <1>7
<1>. QED
  BY <1>8, <1>9, <1>10

\* Seat s moves n of its chips into the pot.
Stakes(s, n) ==
  /\ n <= stacks[s]
  /\ total_contrib' = [total_contrib EXCEPT ![s] = @ + n]
  /\ stacks' = [stacks EXCEPT ![s] = @ - n]

\* Any other step of a hand moves the chips of one seat at most into the pot.
LEMMA BetsPay ==
  ASSUME IInv, PotInv, Next, InHand, InHand'
  PROVE  /\ PotInv'
         /\ \E s \in Seat, n \in Nat : Stakes(s, n)
<1>1. /\ HandInv /\ ~hand_over /\ to_act \in Seat
      /\ stacks \in [Seat -> Nat] /\ total_contrib \in [Seat -> Nat]
      /\ all_in \in [Seat -> BOOLEAN]
      /\ \E s \in Seat : total_contrib[s] > 0
      /\ \A s \in Seat : all_in[s] => total_contrib[s] > 0
  BY DEF IInv, HandInv, TypeOK, Chips, PotInv
<1>2. CASE AdvanceStreet
  <2>1. stacks' = stacks /\ total_contrib' = total_contrib /\ all_in' = all_in
    BY <1>2 DEF AdvanceStreet
  <2>2. Stakes(to_act, 0)
    BY <1>1, <2>1 DEF Stakes
  <2>3. PotInv'
    BY <1>1, <2>1 DEF PotInv
  <2>. QED
    BY <1>1, <2>2, <2>3
<1>3. ASSUME NEW a \in Action, apply_action(a)
      PROVE  /\ PotInv'
             /\ \E s \in Seat, n \in Nat : Stakes(s, n)
  <2>1. outcome = "Continue" /\ allows(a)
    BY <1>3 DEF apply_action
  <2>2. Paid(a) \in 0..stacks[to_act]
    BY <2>1, LegalActionPays
  <2>3. Cardinality(Live([folded EXCEPT ![to_act] = @ \/ a.kind = "Fold"])) # 1
    BY <1>3 DEF apply_action, award_fold_win, finish_hand, InHand
  <2>4. /\ total_contrib' = [total_contrib EXCEPT ![to_act] = @ + Paid(a)]
        /\ stacks' = [stacks EXCEPT ![to_act] = @ - Paid(a)]
        /\ all_in' = [all_in EXCEPT ![to_act] =
                        @ \/ (a.kind \notin {"Fold", "Check"}
                              /\ [stacks EXCEPT ![to_act] = @ - Paid(a)][to_act] = 0)]
    BY <1>3, <2>3 DEF apply_action
  <2>5. stacks[to_act] > 0
    BY <1>1, <2>1 DEF IInv, TurnInv, Pending, Able, AbleToBet, Live, HandInv
  <2>6. /\ \A s \in Seat : total_contrib'[s] \in Nat /\ total_contrib'[s] >= total_contrib[s]
        /\ total_contrib'[to_act] = total_contrib[to_act] + Paid(a)
        /\ stacks'[to_act] = stacks[to_act] - Paid(a)
    BY <1>1, <2>2, <2>4
  <2>7. \A s \in Seat : all_in'[s] => all_in[s] \/ (s = to_act /\ stacks'[to_act] = 0)
    BY <1>1, <2>4
  <2>8. ASSUME NEW s \in Seat, all_in'[s]
        PROVE  total_contrib'[s] > 0
    <3>1. CASE all_in[s]
      BY <1>1, <2>6, <3>1
    <3>2. CASE s = to_act /\ stacks'[to_act] = 0
      BY <1>1, <2>2, <2>5, <2>6, <3>2
    <3>. QED
      BY <2>7, <2>8, <3>1, <3>2
  <2>9. PotInv'
    BY <1>1, <2>6, <2>8 DEF PotInv
  <2>10. Stakes(to_act, Paid(a)) /\ Paid(a) \in Nat
    BY <1>1, <2>2, <2>4 DEF Stakes
  <2>. QED
    BY <1>1, <2>9, <2>10
<1>4. AdvanceStreet \/ ApplyAction \/ TournamentOver
  <2>1. ~FirstHand /\ ~NextHand
    BY <1>1 DEF FirstHand, NextHand, InHand
  <2>2. ~Showdown
    BY DEF Showdown, showdown, finish_hand, InHand
  <2>. QED
    BY <2>1, <2>2 DEF Next
<1>5. ~TournamentOver
  BY <1>1 DEF TournamentOver
<1>. QED
  BY <1>2, <1>3, <1>4, <1>5 DEF ApplyAction

\* Between hands nothing moves.
LEMMA NothingMovesBetweenHands ==
  ASSUME IInv, Next, ~InHand, ~InHand'
  PROVE  UNCHANGED vars
<1>1. ~ApplyAction /\ ~AdvanceStreet /\ ~Showdown
  BY DEF ApplyAction, apply_action, AdvanceStreet, Showdown, showdown, InHand
<1>2. ~FirstHand /\ ~NextHand
  BY DEF FirstHand, NextHand, start_hand, InHand
<1>. QED
  BY <1>1, <1>2 DEF Next, TournamentOver

-----------------------------------------------------------------------------
(***************************************************************************)
(* The payouts of finished hands.                                          *)
(***************************************************************************)

LEMMA InitPayInv == Init => PayInv
BY DEF Init, PayInv, PotInv, PayoutsAreCovered, InHand

\* What a finished hand pays is settled by the step that ends it.
LEMMA NextPayInv == IInv /\ IInv' /\ PayInv /\ [Next]_vars => PayInv'
<1>. SUFFICES ASSUME IInv, IInv', PayInv, [Next]_vars PROVE PayInv'
  OBVIOUS
<1>1. PotInv /\ PayoutsAreCovered
  BY DEF PayInv
<1>2. CASE Next /\ InHand'
  <2>1. PotInv'
    BY <1>1, <1>2, DealPosts, BetsPay
  <2>2. ~hand_over'
    BY <1>2 DEF IInv, HandInv
  <2>. QED
    BY <2>1, <2>2 DEF PayInv, PayoutsAreCovered
<1>3. CASE Next /\ InHand /\ ~InHand'
  <2>1. /\ total_contrib' = total_contrib
        /\ \E s \in Seat : hand_result.awards[s]' > 0
        /\ \A s \in Seat :
             /\ hand_result.awards[s]' + hand_result.returns[s]' <= Cover(s)
             /\ folded'[s] => hand_result.awards[s]' + hand_result.returns[s]' = 0
    BY <1>1, <1>3, HandPays
  <2>2. \A s \in Seat : Cover(s)' = Cover(s)
    BY <2>1 DEF Cover
  <2>3. PayoutsAreCovered'
    BY <2>1, <2>2 DEF PayoutsAreCovered
  <2>. QED
    BY <1>3, <2>3 DEF PayInv, PotInv
<1>4. CASE UNCHANGED vars
  <2>1. /\ total_contrib' = total_contrib /\ folded' = folded /\ all_in' = all_in
        /\ hand_over' = hand_over /\ hand_result' = hand_result /\ outcome' = outcome
    BY <1>4 DEF vars, betting
  <2>. QED
    BY <1>1, <2>1 DEF PayInv, PotInv, PayoutsAreCovered, InHand, Cover
<1>5. CASE Next /\ ~InHand /\ ~InHand'
  BY <1>4, <1>5, NothingMovesBetweenHands
<1>. QED
  BY <1>2, <1>3, <1>4, <1>5

LEMMA PayInvariance == Spec => [](IInv /\ PayInv)
<1>1. Init => IInv /\ PayInv
  BY InitIInv, InitPayInv
<1>2. (IInv /\ PayInv) /\ [Next]_vars => (IInv /\ PayInv)'
  BY NextIInv, NextPayInv
<1>. QED
  BY <1>1, <1>2, PTL DEF Spec

\* Whatever the stacks and the bets: a finished hand pays no seat more than it
\* covered, pays no seat that folded, and awards some pot.
THEOREM PayoutsCovered == Spec => []PayoutsAreCovered
<1>1. PayInv => PayoutsAreCovered
  BY DEF PayInv
<1>. QED
  BY <1>1, PayInvariance, PTL

=============================================================================
