------------------------------ MODULE TableProofs ------------------------------
(***************************************************************************)
(* Proofs about a hand as the table sees it, for every starting stack and  *)
(* blind level: its chips move as the ledger says, a full raise reopens    *)
(* the betting, whatever amounts the sizes of a pot come to, what the      *)
(* solver values, what an opponent draws and what the page offers is       *)
(* legal, and the page shows and names what the hand is at.  And proofs    *)
(* about the session of module Session that plays the hands, for any       *)
(* number of them: what the table is like between two calls, where the     *)
(* tournament ends, and what is recorded.                                  *)
(***************************************************************************)
EXTENDS MCGameState, MCSession, GameStateProofs

\* The sizes that candidates are made of.
SizeNames == {"MIN", "4BB", "2X", "1/3POT", "1/2POT", "3/4POT", "POT", "OVERBET"}

(***************************************************************************)
(* What the invariant of the engine says of a decision.                    *)
(***************************************************************************)

\* The seat to act has chips, and no amount it may name exceeds the chips in
\* play.
LEMMA DecisionFacts ==
  ASSUME IInv, outcome = "Continue"
  PROVE  /\ to_act \in Seat /\ ~hand_over
         /\ stack_to_act \in Nat \ {0}
         /\ street_contrib[to_act] \in Nat
         /\ ChipsInPlay \in Nat
         /\ max_bet \in Nat /\ max_bet <= ChipsInPlay
         /\ max_bet = street_contrib[to_act] + stack_to_act
         /\ current_bet \in Nat /\ street_contrib[to_act] <= current_bet
         /\ min_raise \in Nat
         /\ to_call \in Nat
         /\ to_call = current_bet - street_contrib[to_act]
         /\ call_amount \in Nat /\ pot \in Nat
<1>1. /\ to_act \in Seat
      /\ stacks \in [Seat -> Chips] /\ street_contrib \in [Seat -> Chips]
      /\ total_contrib \in [Seat -> Chips]
      /\ current_bet \in Nat /\ min_raise \in Nat
      /\ street_contrib[to_act] <= current_bet
      /\ street_contrib[to_act] <= total_contrib[to_act]
      /\ InHand /\ ~hand_over
  BY DEF IInv, TypeOK, HandInv, TurnInv, InHand, Chips, ChipsInPlay
<1>2. stacks[to_act] # 0
  BY <1>1 DEF IInv, TypeOK, HandInv, TurnInv, InHand, Pending, Able, AbleToBet, Live
<1>3. /\ ChipsInPlay \in Nat
      /\ \A s \in Seat : stacks[s] \in Nat /\ total_contrib[s] \in Nat
                         /\ street_contrib[s] \in Nat
  BY <1>1, ChipsAssumption DEF Chips, ChipsInPlay
<1>4. stacks[0] + stacks[1] + stacks[2]
        + total_contrib[0] + total_contrib[1] + total_contrib[2] = ChipsInPlay
  BY <1>1, <1>3 DEF IInv, ChipsConserved, Total, Seat
<1>5. stacks[to_act] + total_contrib[to_act] <= ChipsInPlay
  BY <1>1, <1>3, <1>4 DEF Seat
<1>6. pot \in Nat
  BY <1>3 DEF pot, Total, Seat
<1>. QED
  BY <1>1, <1>2, <1>3, <1>5, <1>6 DEF stack_to_act, max_bet, to_call, call_amount, Greater, Lesser

(***************************************************************************)
(* Sizes.                                                                  *)
(***************************************************************************)

\* Every size stands for an amount between the least one, or the stack if that
\* is less, and the stack.
LEMMA EverySizeIsBounded ==
  ASSUME IInv, outcome = "Continue", NEW size \in BetSize,
         NEW owed \in Nat, NEW least \in Nat
  PROVE  to_raise_to(size, owed, least) \in Lesser(least, stack_to_act)..stack_to_act
<1>1. /\ pot \in Nat /\ stack_to_act \in Nat /\ BIG_BLIND \in Nat
      /\ Lesser(least, stack_to_act) \in Nat
      /\ Lesser(least, stack_to_act) <= stack_to_act
  BY DecisionFacts, ChipsAssumption DEF Lesser
<1>2. \A n \in Nat : n \div 3 \in Int /\ n \div 2 \in Int /\ n \div 4 \in Int
  OBVIOUS
<1>. DEFINE all == pot + owed
            amount == CASE size = "MIN" -> least
                        [] size = "3BB" -> 3 * BIG_BLIND
                        [] size = "4BB" -> 4 * BIG_BLIND
                        [] size = "2X" -> 2 * owed
                        [] size = "1/3POT" -> owed + all \div 3
                        [] size = "1/2POT" -> owed + all \div 2
                        [] size = "3/4POT" -> owed + (3 * all) \div 4
                        [] size = "POT" -> owed + all
                        [] size = "OVERBET" -> owed + 2 * all
                        [] size = "ALLIN" -> stack_to_act
<1>3. all \in Nat
  BY <1>1
<1>4. 3 * all \in Nat /\ 2 * all \in Nat
  BY <1>3
<1>5. all \div 3 \in Int /\ all \div 2 \in Int /\ (3 * all) \div 4 \in Int
  BY <1>2, <1>3, <1>4
<1>. HIDE DEF all
<1>6. amount \in Int
  BY <1>1, <1>3, <1>4, <1>5 DEF BetSize
<1>. HIDE DEF amount
<1>7. Clamp(amount, Lesser(least, stack_to_act), stack_to_act)
        \in Lesser(least, stack_to_act)..stack_to_act
  BY <1>1, <1>6 DEF Clamp, Greater, Lesser
<1>. QED
  BY <1>7 DEF to_raise_to, amount, all

LEMMA SizesAreBounded ==
  ASSUME IInv, outcome = "Continue", NEW size \in SizeNames,
         NEW owed \in Nat, NEW least \in Nat
  PROVE  to_raise_to(size, owed, least) \in Lesser(least, stack_to_act)..stack_to_act
<1>1. size \in BetSize
  BY DEF SizeNames, BetSize
<1>. QED
  BY <1>1, EverySizeIsBounded

(***************************************************************************)
(* The candidates.                                                         *)
(***************************************************************************)

\* The least bet and the least raise are at most all the chips of the actor.
LEMMA LeastAmounts ==
  ASSUME IInv, outcome = "Continue"
  PROVE  /\ min_bet \in Nat /\ min_bet <= max_bet
         /\ min_raise_to \in Nat /\ min_raise_to <= max_bet
BY DecisionFacts, ChipsAssumption DEF min_bet, min_raise_to, Greater, Lesser

\* The sized candidates of any list of sizes are actions.
LEMMA SizedCandidatesAreActions ==
  ASSUME IInv, outcome = "Continue",
         NEW kind \in {"Bet", "Raise"}, NEW sizes \in Seq(SizeNames),
         NEW least \in Nat, least <= max_bet,
         NEW c \in SizedCandidates(kind, sizes, least)
  PROVE  c.action \in Action
<1>. DEFINE amount(i) == Clamp(to_raise_to(sizes[i], call_amount, least), least, max_bet)
            first == {i \in DOMAIN sizes : \A j \in 1..(i - 1) : amount(j) # amount(i)}
            label(i) == IF kind = "Bet" \/ (street = Preflop /\ ~facing_raise_preflop)
                        THEN classify(amount(i), least) ELSE sizes[i]
<1>1. PICK i \in first : c = IF amount(i) >= max_bet THEN Candidate(Plain("AllIn"), "ALLIN")
                             ELSE Candidate(Sized(kind, amount(i)), label(i))
  BY DEF SizedCandidates
<1>2. sizes[i] \in SizeNames
  OBVIOUS
<1>3. to_raise_to(sizes[i], call_amount, least) \in Int
  BY <1>2, SizesAreBounded, DecisionFacts DEF Lesser
<1>4. amount(i) \in 0..ChipsInPlay
  BY <1>3, DecisionFacts DEF Clamp, Greater, Lesser
<1>. HIDE DEF amount, label, first
<1>5. c.action \in {Plain("AllIn"), Sized(kind, amount(i))}
  BY <1>1 DEF Candidate
<1>. QED
  BY <1>4, <1>5 DEF Action

\* The lists of sizes are lists of sizes.
LEMMA BucketsAreSizes == size_buckets \in Seq(SizeNames) /\ raise_buckets \in Seq(SizeNames)
<1>1. /\ <<"MIN", "4BB">> \in Seq(SizeNames)
      /\ <<"MIN", "1/2POT", "POT", "OVERBET">> \in Seq(SizeNames)
      /\ <<"2X", "1/2POT", "POT">> \in Seq(SizeNames)
      /\ <<"MIN", "2X", "1/2POT", "POT", "OVERBET">> \in Seq(SizeNames)
  BY DEF SizeNames
<1>. QED
  BY <1>1 DEF size_buckets, raise_buckets

\* Every candidate is a legal action.
LEMMA CandidatesAreLegal ==
  ASSUME IInv, outcome = "Continue", NEW c \in candidates
  PROVE  c.action \in Action /\ allows(c.action)
<1>1. allows(c.action)
  BY DEF candidates
<1>3. CASE c \in {Candidate(Plain(k), "None") : k \in {"Fold", "Check", "Call"}}
  BY <1>1, <1>3 DEF Candidate, Action
<1>4. CASE c \in SizedCandidates("Bet", size_buckets, min_bet)
  BY <1>1, <1>4, BucketsAreSizes, LeastAmounts, SizedCandidatesAreActions
<1>5. CASE c \in SizedCandidates("Raise", raise_buckets, min_raise_to)
  BY <1>1, <1>5, BucketsAreSizes, LeastAmounts, SizedCandidatesAreActions
<1>6. CASE c = Candidate(Plain("AllIn"), "ALLIN")
  BY <1>1, <1>6 DEF Candidate, Action
<1>. QED
  BY <1>3, <1>4, <1>5, <1>6 DEF candidates

(***************************************************************************)
(* The candidates are real alternatives.                                   *)
(***************************************************************************)

\* A sized candidate leaves chips behind: with all of them it is an all-in.
LEMMA SizedCandidatesLeaveChips ==
  ASSUME IInv, outcome = "Continue", NEW a \in CandidateActions, a.kind \in {"Bet", "Raise"}
  PROVE  a.amount < max_bet
<1>1. PICK c \in candidates : a = c.action
  BY DEF CandidateActions
<1>2. ASSUME NEW kind \in {"Bet", "Raise"}, NEW sizes \in Seq(SizeNames), NEW least \in Nat,
             least <= max_bet, c \in SizedCandidates(kind, sizes, least)
      PROVE  a.amount < max_bet
  <2>. DEFINE amount(i) == Clamp(to_raise_to(sizes[i], call_amount, least), least, max_bet)
              first == {i \in DOMAIN sizes : \A j \in 1..(i - 1) : amount(j) # amount(i)}
              label(i) == IF kind = "Bet" \/ (street = Preflop /\ ~facing_raise_preflop)
                          THEN classify(amount(i), least) ELSE sizes[i]
  <2>1. PICK i \in first : c = IF amount(i) >= max_bet THEN Candidate(Plain("AllIn"), "ALLIN")
                               ELSE Candidate(Sized(kind, amount(i)), label(i))
    BY <1>2 DEF SizedCandidates
  <2>2. sizes[i] \in SizeNames
    OBVIOUS
  <2>3. to_raise_to(sizes[i], call_amount, least) \in Int
    BY <2>2, SizesAreBounded, DecisionFacts DEF Lesser
  <2>4. amount(i) \in Int
    BY <2>3, DecisionFacts DEF Clamp, Greater, Lesser
  <2>. HIDE DEF amount, label, first
  <2>5. ~(amount(i) >= max_bet)
    BY <1>1, <2>1 DEF Candidate, Plain
  <2>6. a = Sized(kind, amount(i))
    BY <1>1, <2>1, <2>5 DEF Candidate
  <2>. QED
    BY <2>4, <2>5, <2>6, DecisionFacts DEF Sized
<1>3. c \notin {Candidate(Plain(k), "None") : k \in {"Fold", "Check", "Call"}}
      /\ c # Candidate(Plain("AllIn"), "ALLIN")
  BY <1>1 DEF Candidate, Plain
<1>4. c \in SizedCandidates("Bet", size_buckets, min_bet)
      \/ c \in SizedCandidates("Raise", raise_buckets, min_raise_to)
  BY <1>3 DEF candidates
<1>. QED
  BY <1>2, <1>4, LeastAmounts, BucketsAreSizes

\* The plain candidates.
LEMMA PlainCandidates ==
  ASSUME IInv, outcome = "Continue"
  PROVE  /\ can_check => Plain("Check") \in CandidateActions
         /\ can_call => Plain("Call") \in CandidateActions
         /\ can_all_in /\ ~facing_dead_raise => Plain("AllIn") \in CandidateActions
<1>1. \A k \in {"Check", "Call"} :
         allows(Plain(k)) => Candidate(Plain(k), "None") \in candidates
  BY DEF candidates, Candidate
<1>2. allows(Plain("AllIn")) /\ ~facing_dead_raise
         => Candidate(Plain("AllIn"), "ALLIN") \in candidates
  BY DEF candidates, Candidate
<1>. QED
  BY <1>1, <1>2 DEF CandidateActions, Candidate, allows, Plain

\* A seat can always stay in the hand.
LEMMA SomeCandidateStays ==
  ASSUME IInv, outcome = "Continue"
  PROVE  \E a \in CandidateActions : a.kind # "Fold"
<1>1. can_check \/ can_call \/ (can_all_in /\ ~facing_dead_raise)
  BY DecisionFacts DEF can_check, can_call, can_all_in, facing_dead_raise
<1>. QED
  BY <1>1, PlainCandidates DEF Plain

\* No two candidates put in the same chips.
LEMMA CandidatesPayDifferently ==
  ASSUME IInv, outcome = "Continue", NEW a \in CandidateActions, NEW b \in CandidateActions,
         Paid(a) = Paid(b)
  PROVE  a = b
<1>1. /\ a \in Action /\ allows(a)
      /\ b \in Action /\ allows(b)
  BY CandidatesAreLegal DEF CandidateActions
<1>2. /\ a.kind \in {"Bet", "Raise"} => a.amount < max_bet
      /\ b.kind \in {"Bet", "Raise"} => b.amount < max_bet
  BY SizedCandidatesLeaveChips
<1>3. min_raise \in Nat \ {0}
  BY ChipsAssumption DEF IInv, TypeOK
<1>. DEFINE Shape(x) ==
        \/ x = Plain("Fold") /\ to_call > 0 /\ Paid(x) = 0
        \/ x = Plain("Check") /\ to_call = 0 /\ Paid(x) = 0
        \/ x = Plain("Call") /\ to_call > 0 /\ to_call < stack_to_act /\ Paid(x) = to_call
        \/ x = Plain("AllIn") /\ Paid(x) = stack_to_act
        \/ /\ x = Sized(IF to_call = 0 THEN "Bet" ELSE "Raise", x.amount)
           /\ x.amount \in Nat
           /\ Paid(x) = x.amount - street_contrib[to_act]
           /\ Paid(x) > to_call /\ Paid(x) < stack_to_act
<1>4. ASSUME NEW x \in Action, allows(x), x.kind \in {"Bet", "Raise"} => x.amount < max_bet
      PROVE  Shape(x)
  <2>1. CASE x \in {Plain(k) : k \in {"Fold", "Check", "Call", "AllIn"}}
    BY <1>4, <2>1, DecisionFacts
       DEF Plain, allows, Paid, can_fold, can_check, can_call, call_amount, Lesser
  <2>2. CASE x \in {Sized(k, n) : k \in {"Bet", "Raise"}, n \in 0..ChipsInPlay}
    <3>1. PICK k \in {"Bet", "Raise"}, n \in 0..ChipsInPlay : x = Sized(k, n)
      BY <2>2
    <3>2. x.kind = k /\ x.amount = n /\ n \in Nat /\ n < max_bet
      BY <1>4, <3>1, DecisionFacts DEF Sized
    <3>3. k = (IF to_call = 0 THEN "Bet" ELSE "Raise")
      BY <1>4, <3>2, DecisionFacts DEF allows, can_bet, can_raise
    <3>4. n > current_bet
      BY <1>3, <1>4, <3>2, DecisionFacts, ChipsAssumption
         DEF allows, min_bet, min_raise_to, Greater, Lesser
    <3>5. Paid(x) = n - street_contrib[to_act]
      BY <3>2 DEF Paid
    <3>. QED
      BY <3>1, <3>2, <3>3, <3>4, <3>5, DecisionFacts
  <2>. QED
    BY <2>1, <2>2 DEF Action
<1>5. Shape(a) /\ Shape(b)
  BY <1>1, <1>2, <1>4
<1>. QED
  BY <1>5, DecisionFacts DEF Plain, Sized

\* A bet that nobody is left to match is not raised.
LEMMA NoDeadRaise ==
  ASSUME IInv, outcome = "Continue", to_call > 0, AbleToBet(folded, all_in) = {to_act},
         NEW a \in CandidateActions
  PROVE  BetAfter(a) = current_bet
<1>1. a \in Action /\ allows(a)
  BY CandidatesAreLegal DEF CandidateActions
<1>2. ~opponents_can_still_respond
  BY DEF opponents_can_still_respond
<1>3. CASE can_call
  <2>1. facing_dead_raise
    BY <1>2, <1>3 DEF facing_dead_raise
  <2>2. ~can_bet
    BY DecisionFacts DEF can_bet
  <2>3. a \in {Plain("Fold"), Plain("Check"), Plain("Call")}
    BY <2>1, <2>2 DEF CandidateActions, candidates, Candidate
  <2>. QED
    BY <2>3 DEF BetAfter, Plain
<1>4. CASE ~can_call
  <2>1. stack_to_act <= to_call /\ max_bet <= current_bet
    BY <1>4, DecisionFacts DEF can_call
  <2>2. a.kind \notin {"Bet", "Raise"}
    BY <1>1, <2>1, DecisionFacts DEF allows, can_bet, can_raise
  <2>. QED
    BY <2>1, <2>2, DecisionFacts DEF BetAfter, Greater
<1>. QED
  BY <1>3, <1>4

\* The parts together.
LEMMA OffersAreAlternatives ==
  ASSUME IInv, outcome = "Continue"
  PROVE  CandidatesAreAlternatives
<1>1. opponents_can_still_respond /\ can_all_in => Plain("AllIn") \in CandidateActions
  BY PlainCandidates DEF facing_dead_raise
<1>. QED
  BY <1>1, SomeCandidateStays, CandidatesPayDifferently, NoDeadRaise
     DEF CandidatesAreAlternatives

\* The two lists of a playout leave no candidate out.
LEMMA PlayoutsDrawAllCandidates ==
  ASSUME IInv, outcome = "Continue"
  PROVE  action_probs = CandidateActions /\ PlayoutsGoOn
<1>1. ASSUME NEW a \in CandidateActions PROVE a \in action_probs /\ allows(a)
  <2>1. a \in Action /\ allows(a)
    BY CandidatesAreLegal DEF CandidateActions
  <2>2. call_amount > 0 <=> to_call > 0
    BY DecisionFacts DEF call_amount, Lesser
  <2>3. a.kind \in {"Fold", "Check", "Call", "Bet", "Raise", "AllIn"}
    BY <2>1 DEF allows
  <2>4. a.kind \in IF call_amount > 0 THEN {"Fold", "Call", "Raise", "Bet", "AllIn"}
                   ELSE {"Check", "Bet", "AllIn"}
    BY <2>1, <2>2, <2>3, DecisionFacts
       DEF allows, can_fold, can_check, can_call, can_bet, can_raise
  <2>. QED
    BY <2>1, <2>4 DEF action_probs
<1>2. action_probs = CandidateActions
  BY <1>1 DEF action_probs
<1>. QED
  BY <1>1, <1>2, SomeCandidateStays DEF PlayoutsGoOn

(***************************************************************************)
(* The labels.                                                             *)
(***************************************************************************)

\* From the flop on a seat that has not acted has put nothing in, so that a bet
\* may be as high as the stack and no higher.
QuietInv == street # Preflop => \A s \in Seat : ~acted[s] => street_contrib[s] = 0

LEMMA QuietInvariance == Spec => []QuietInv
<1>1. Init => QuietInv
  BY DEF Init, QuietInv
<1>2. IInv /\ QuietInv /\ [Next]_vars => QuietInv'
  <2>. SUFFICES ASSUME IInv, QuietInv, [Next]_vars PROVE QuietInv'
    OBVIOUS
  <2>1. /\ acted \in [Seat -> BOOLEAN] /\ street_contrib \in [Seat -> Chips]
        /\ to_act \in Seat
    BY DEF IInv, TypeOK
  <2>2. CASE FirstHand \/ NextHand
    BY <2>2 DEF FirstHand, NextHand, start_hand, QuietInv
  <2>3. CASE ApplyAction
    BY <2>1, <2>3 DEF ApplyAction, apply_action, QuietInv
  <2>4. CASE AdvanceStreet
    BY <2>4 DEF AdvanceStreet, NoChips, QuietInv
  <2>5. CASE Showdown
    BY <2>5 DEF Showdown, showdown, betting, QuietInv
  <2>6. CASE TournamentOver \/ UNCHANGED vars
    BY <2>6 DEF TournamentOver, vars, betting, QuietInv
  <2>. QED
    BY <2>2, <2>3, <2>4, <2>5, <2>6 DEF Next
<1>. QED
  BY <1>1, <1>2, Invariance, PTL DEF Spec

LEMMA BetsAreTheStack ==
  ASSUME IInv, QuietInv, outcome = "Continue", street # Preflop, can_bet
  PROVE  max_bet = stack_to_act /\ call_amount = 0 /\ min_bet \in Nat \ {0}
<1>1. to_call = 0 /\ to_act \in Pending /\ stack_to_act \in Nat \ {0}
  BY DecisionFacts DEF can_bet, IInv, TurnInv
<1>2. street_contrib[to_act] = current_bet
  BY <1>1, DecisionFacts
<1>3. street_contrib[to_act] = 0
  BY <1>1, <1>2, DecisionFacts DEF Pending, QuietInv
<1>4. min_raise \in Nat \ {0}
  BY ChipsAssumption DEF IInv, TypeOK
<1>. QED
  BY <1>1, <1>3, <1>4, DecisionFacts, ChipsAssumption
     DEF call_amount, min_bet, Greater, Lesser

\* The amount a label of a bet stands for.
BetOf(label) ==
  CASE label = "MIN" -> min_bet
    [] label \in {"1/3POT", "1/2POT"} -> pot \div 2
    [] label = "POT" -> pot
    [] OTHER -> 2 * pot

\* What a size of a bet comes to, short of the stack, is what its label stands
\* for.
LEMMA BetLabels ==
  ASSUME IInv, QuietInv, outcome = "Continue", street # Preflop, can_bet,
         NEW size \in {"MIN", "1/2POT", "POT", "OVERBET"}, NEW n \in Int,
         n = Clamp(to_raise_to(size, call_amount, min_bet), min_bet, max_bet),
         n < max_bet
  PROVE  /\ classify(n, min_bet) \in {"MIN", "1/3POT", "1/2POT", "POT", "OVERBET"}
         /\ n = BetOf(classify(n, min_bet))
         /\ n >= min_bet
<1>1. /\ max_bet = stack_to_act /\ call_amount = 0 /\ min_bet \in Nat \ {0}
      /\ min_bet <= max_bet /\ pot \in Nat /\ stack_to_act \in Nat
  BY BetsAreTheStack, LeastAmounts, DecisionFacts
<1>. DEFINE raw == CASE size = "MIN" -> min_bet
                     [] size = "1/2POT" -> pot \div 2
                     [] size = "POT" -> pot
                     [] OTHER -> 2 * pot
<1>2. pot \div 2 \in Int /\ 2 * (pot \div 2) <= pot /\ pot < 2 * (pot \div 2) + 2
  BY <1>1
<1>3. raw \in Int
  BY <1>1, <1>2
<1>4. to_raise_to(size, call_amount, min_bet)
        = Clamp(raw, Lesser(min_bet, stack_to_act), stack_to_act)
  <2>1. pot + call_amount = pot /\ 2 * call_amount = 0
        /\ call_amount + pot = pot /\ call_amount + 2 * pot = 2 * pot
        /\ call_amount + pot \div 2 = pot \div 2
    BY <1>1, <1>2
  <2>. QED
    BY <2>1 DEF to_raise_to
<1>. HIDE DEF raw
<1>5. n = Greater(min_bet, raw) /\ n < stack_to_act
  BY <1>1, <1>3, <1>4 DEF Clamp, Greater, Lesser
<1>6. n >= min_bet
  BY <1>1, <1>3, <1>5 DEF Greater
<1>7. CASE n <= min_bet
  <2>1. n = min_bet
    BY <1>1, <1>6, <1>7
  <2>2. classify(n, min_bet) = "MIN"
    BY <1>1, <1>5, <1>7 DEF classify
  <2>. QED
    BY <1>6, <2>1, <2>2 DEF BetOf
<1>8. CASE ~(n <= min_bet)
  <2>1. n = raw /\ n > 1
    BY <1>1, <1>3, <1>5, <1>8 DEF Greater
  <2>2. size # "MIN" /\ pot >= 1
    BY <1>1, <1>2, <1>8, <2>1 DEF raw
  <2>3. Greater(n - call_amount, 0) = n /\ Greater(pot + call_amount, 1) = pot
    BY <1>1, <2>1, <2>2 DEF Greater
  <2>4. classify(n, min_bet) =
          IF 1000 * n <= 416 * pot THEN "1/3POT"
          ELSE IF 1000 * n <= 625 * pot THEN "1/2POT"
          ELSE IF 1000 * n <= 875 * pot THEN "3/4POT"
          ELSE IF 1000 * n <= 1250 * pot THEN "POT" ELSE "OVERBET"
    BY <1>1, <1>5, <1>8, <2>3 DEF classify
  <2>5. CASE size = "1/2POT"
    <3>1. n = pot \div 2
      BY <2>1, <2>5 DEF raw
    <3>2. 1000 * n <= 625 * pot
      BY <1>1, <1>2, <3>1
    <3>3. classify(n, min_bet) \in {"1/3POT", "1/2POT"}
      BY <2>4, <3>2
    <3>. QED
      BY <1>6, <3>1, <3>3 DEF BetOf
  <2>6. CASE size = "POT"
    <3>1. n = pot
      BY <2>1, <2>6 DEF raw
    <3>2. /\ ~(1000 * n <= 416 * pot) /\ ~(1000 * n <= 625 * pot)
          /\ ~(1000 * n <= 875 * pot) /\ 1000 * n <= 1250 * pot
      BY <1>1, <2>2, <3>1
    <3>3. classify(n, min_bet) = "POT"
      BY <2>4, <3>2
    <3>. QED
      BY <1>6, <3>1, <3>3 DEF BetOf
  <2>7. CASE size = "OVERBET"
    <3>1. n = 2 * pot
      BY <2>1, <2>7 DEF raw
    <3>2. /\ ~(1000 * n <= 416 * pot) /\ ~(1000 * n <= 625 * pot)
          /\ ~(1000 * n <= 875 * pot) /\ ~(1000 * n <= 1250 * pot)
      BY <1>1, <2>2, <3>1
    <3>3. classify(n, min_bet) = "OVERBET"
      BY <2>4, <3>2
    <3>. QED
      BY <1>6, <3>1, <3>3 DEF BetOf
  <2>. QED
    BY <2>2, <2>5, <2>6, <2>7
<1>. QED
  BY <1>7, <1>8

\* The amount a label of a raise stands for.
RaiseOf(label) ==
  Clamp(to_raise_to(label, call_amount, min_raise_to), min_raise_to, max_bet)

\* A label is the label of one action only.
LabelOf(a, label) ==
  \/ label = "None"
  \/ label = "ALLIN" /\ a = Plain("AllIn")
  \/ can_bet /\ label \in SizeNames \cup {"1/3POT"} /\ a = Sized("Bet", BetOf(label))
  \/ can_raise /\ label \in SizeNames /\ a = Sized("Raise", RaiseOf(label))

LEMMA CandidatesAreLabelled ==
  ASSUME IInv, QuietInv, outcome = "Continue", street # Preflop, NEW c \in candidates
  PROVE  /\ LabelOf(c.action, c.bucket)
         /\ c = Candidate(c.action, c.bucket)
<1>1. CASE c \in {Candidate(Plain(k), "None") : k \in {"Fold", "Check", "Call"}}
  BY <1>1 DEF Candidate, LabelOf
<1>2. CASE can_bet /\ c \in SizedCandidates("Bet", size_buckets, min_bet)
  <2>. DEFINE amount(i) == Clamp(to_raise_to(size_buckets[i], call_amount, min_bet), min_bet, max_bet)
              first == {i \in DOMAIN size_buckets : \A j \in 1..(i - 1) : amount(j) # amount(i)}
  <2>1. PICK i \in first : c = IF amount(i) >= max_bet THEN Candidate(Plain("AllIn"), "ALLIN")
                               ELSE Candidate(Sized("Bet", amount(i)), classify(amount(i), min_bet))
    BY <1>2 DEF SizedCandidates
  <2>2. size_buckets = <<"MIN", "1/2POT", "POT", "OVERBET">>
    BY DEF size_buckets
  <2>3. size_buckets[i] \in {"MIN", "1/2POT", "POT", "OVERBET"}
    BY <2>2
  <2>4. to_raise_to(size_buckets[i], call_amount, min_bet) \in Int
    <3>1. size_buckets[i] \in SizeNames
      BY <2>3 DEF SizeNames
    <3>2. /\ call_amount \in Nat /\ min_bet \in Nat
          /\ Lesser(min_bet, stack_to_act) \in Int /\ stack_to_act \in Int
      BY LeastAmounts, DecisionFacts DEF Lesser
    <3>3. to_raise_to(size_buckets[i], call_amount, min_bet)
            \in Lesser(min_bet, stack_to_act)..stack_to_act
      BY <3>1, <3>2, SizesAreBounded
    <3>. QED
      BY <3>2, <3>3
  <2>5. amount(i) \in Int
    BY <2>4, LeastAmounts, DecisionFacts DEF Clamp, Greater, Lesser
  <2>6. CASE amount(i) >= max_bet
    BY <2>1, <2>6 DEF Candidate, LabelOf
  <2>7. CASE ~(amount(i) >= max_bet)
    <3>1. amount(i) < max_bet
      BY <2>5, <2>7, DecisionFacts
    <3>2. /\ classify(amount(i), min_bet) \in SizeNames
          /\ amount(i) = BetOf(classify(amount(i), min_bet))
      BY <1>2, <2>3, <2>5, <3>1, BetLabels DEF SizeNames
    <3>3. c = Candidate(Sized("Bet", amount(i)), classify(amount(i), min_bet))
      BY <2>1, <2>7
    <3>. HIDE DEF amount, first
    <3>. QED
      BY <1>2, <3>2, <3>3 DEF Candidate, LabelOf
  <2>. QED
    BY <2>6, <2>7
<1>3. CASE can_raise /\ c \in SizedCandidates("Raise", raise_buckets, min_raise_to)
  <2>. DEFINE amount(i) == RaiseOf(raise_buckets[i])
              first == {i \in DOMAIN raise_buckets : \A j \in 1..(i - 1) : amount(j) # amount(i)}
  <2>1. PICK i \in first : c = IF amount(i) >= max_bet THEN Candidate(Plain("AllIn"), "ALLIN")
                               ELSE Candidate(Sized("Raise", amount(i)), raise_buckets[i])
    BY <1>3 DEF SizedCandidates, RaiseOf
  <2>2. raise_buckets[i] \in SizeNames
    BY BucketsAreSizes
  <2>. HIDE DEF first
  <2>. QED
    BY <1>3, <2>1, <2>2 DEF Candidate, LabelOf
<1>4. CASE c = Candidate(Plain("AllIn"), "ALLIN")
  BY <1>4 DEF Candidate, LabelOf
<1>. QED
  BY <1>1, <1>2, <1>3, <1>4 DEF candidates

LEMMA LabelsNameOneCandidate ==
  ASSUME IInv, QuietInv, outcome = "Continue"
  PROVE  LabelsAreDistinct
<1>. SUFFICES ASSUME street # Preflop, NEW c \in candidates, NEW d \in candidates
              PROVE  /\ c.bucket = d.bucket /\ c.bucket # "None" => c = d
                     /\ c.bucket = "MIN" /\ d.action.kind = c.action.kind
                          => c.action.amount <= d.action.amount
  BY DEF LabelsAreDistinct
<1>1. /\ LabelOf(c.action, c.bucket) /\ c = Candidate(c.action, c.bucket)
      /\ LabelOf(d.action, d.bucket) /\ d = Candidate(d.action, d.bucket)
  BY CandidatesAreLabelled
<1>2. ~(can_bet /\ can_raise)
  BY DecisionFacts DEF can_bet, can_raise
<1>3. ASSUME c.bucket = d.bucket, c.bucket # "None" PROVE c = d
  <2>1. c.action = d.action
    BY <1>1, <1>2, <1>3 DEF LabelOf, SizeNames
  <2>. QED
    BY <1>1, <1>3, <2>1
<1>4. ASSUME c.bucket = "MIN", d.action.kind = c.action.kind
      PROVE  c.action.amount <= d.action.amount
  <2>1. d.action \in Action /\ allows(d.action)
    BY CandidatesAreLegal
  <2>2. CASE can_bet /\ c.action = Sized("Bet", BetOf("MIN"))
    <3>1. c.action.kind = "Bet" /\ c.action.amount = min_bet
      BY <2>2 DEF Sized, BetOf
    <3>. QED
      BY <1>4, <2>1, <3>1 DEF allows
  <2>3. CASE can_raise /\ c.action = Sized("Raise", RaiseOf("MIN"))
    <3>1. RaiseOf("MIN") = min_raise_to
      BY LeastAmounts, DecisionFacts DEF RaiseOf, to_raise_to, Clamp, Greater, Lesser
    <3>2. c.action.kind = "Raise" /\ c.action.amount = min_raise_to
      BY <2>3, <3>1 DEF Sized
    <3>. QED
      BY <1>4, <2>1, <3>2 DEF allows
  <2>. QED
    BY <1>1, <1>4, <2>2, <2>3 DEF LabelOf, SizeNames
<1>. QED
  BY <1>3, <1>4

(***************************************************************************)
(* The opponents.                                                          *)
(***************************************************************************)

\* What an opponent does without a solve is legal by the way it is built.
LEMMA PlaceholderIsLegal ==
  ASSUME IInv, outcome = "Continue", NEW a \in placeholder_action
  PROVE  a \in Action /\ allows(a)
<1>. DEFINE half == to_raise_to("1/2POT", 0, min_bet)
            Bets(n) == IF n >= stack_to_act THEN Plain("AllIn") ELSE Sized("Bet", n)
<1>1. half \in Lesser(min_bet, stack_to_act)..stack_to_act
  BY SizesAreBounded, LeastAmounts, DecisionFacts DEF SizeNames
<1>. HIDE DEF half
<1>2. CASE can_check
  <2>1. a = Plain("Check") \/ (can_bet /\ a \in {Bets(min_bet), Bets(half)})
    BY <1>2 DEF placeholder_action, half
  <2>2. CASE a = Plain("Check")
    BY <1>2, <2>2 DEF Action, Plain, allows
  <2>3. ASSUME NEW n \in {min_bet, half}, a = Bets(n), can_bet
        PROVE  a \in Action /\ allows(a)
    <3>1. CASE n >= stack_to_act
      BY <2>3, <3>1, DecisionFacts DEF Action, Plain, allows, can_all_in, can_bet
    <3>2. CASE ~(n >= stack_to_act)
      <4>1. n \in 0..ChipsInPlay /\ n >= min_bet /\ n <= max_bet
        BY <1>1, <2>3, <3>2, LeastAmounts, DecisionFacts DEF Lesser
      <4>. QED
        BY <2>3, <3>2, <4>1 DEF Action, Sized, allows
    <3>. QED
      BY <3>1, <3>2
  <2>. QED
    BY <2>1, <2>2, <2>3
<1>3. CASE ~can_check
  <2>1. \/ a = Plain("Fold")
        \/ can_call /\ a = Plain("Call")
        \/ ~can_call /\ a = Plain("AllIn")
        \/ can_raise /\ a = Sized("Raise", min_raise_to)
    BY <1>3 DEF placeholder_action
  <2>2. to_call > 0 /\ to_call \in Nat /\ stack_to_act \in Nat \ {0}
    BY <1>3, DecisionFacts DEF can_check
  <2>3. CASE a = Plain("Fold")
    BY <2>2, <2>3 DEF Action, Plain, allows, can_fold
  <2>4. CASE can_call /\ a = Plain("Call")
    BY <2>4 DEF Action, Plain, allows
  <2>5. CASE ~can_call /\ a = Plain("AllIn")
    BY <2>2, <2>5 DEF Action, Plain, allows, can_call, can_all_in
  <2>6. CASE can_raise /\ a = Sized("Raise", min_raise_to)
    BY <2>6, LeastAmounts, DecisionFacts DEF Action, Sized, allows
  <2>. QED
    BY <2>1, <2>3, <2>4, <2>5, <2>6
<1>. QED
  BY <1>2, <1>3

\* What an opponent may answer is legal: a candidate, or the placeholder's.
LEMMA OpponentsPlayLegally ==
  ASSUME IInv, outcome = "Continue", NEW a \in template_action
  PROVE  a \in Action /\ allows(a)
<1>1. a \in placeholder_action \/ a \in CandidateActions
  BY DEF template_action, frequency_selection
<1>2. a \in CandidateActions => \E c \in candidates : a = c.action
  BY DEF CandidateActions
<1>. QED
  BY <1>1, <1>2, PlaceholderIsLegal, CandidatesAreLegal

(***************************************************************************)
(* The dock.                                                               *)
(***************************************************************************)

\* The amounts the page offers lie between the least and all the chips.
LEMMA DockAmountsAreBounded ==
  ASSUME IInv, outcome = "Continue"
  PROVE  LET least == IF can_bet THEN min_bet ELSE min_raise_to
         IN Sizing.chips \cup Sizing.slider \cup {Sizing.initial} = least..max_bet
<1>. DEFINE least == IF can_bet THEN min_bet ELSE min_raise_to
            owed == IF can_bet THEN 0 ELSE call_amount
            facing_raise == can_raise /\ owed > 0 /\ (street # Preflop \/ current_bet > BIG_BLIND)
            sizes == IF facing_raise \/ street # Preflop
                     THEN {"1/3POT", "1/2POT", "3/4POT", "POT"} ELSE {"MIN", "4BB"}
            default == IF facing_raise /\ street = Preflop THEN "2X" ELSE "MIN"
            amount(size) == Clamp(to_raise_to(size, owed, least), least, max_bet)
<1>1. least \in Nat /\ least <= max_bet /\ owed \in Nat /\ max_bet \in Nat
  BY LeastAmounts, DecisionFacts
<1>2. sizes \subseteq SizeNames /\ default \in SizeNames
  BY DEF SizeNames
<1>3. Sizing = [chips |-> {n \in {amount(size) : size \in sizes} : n < stack_to_act},
                slider |-> least..max_bet,
                initial |-> amount(default)]
  BY DEF Sizing
<1>. HIDE DEF least, owed, sizes, default
<1>4. \A size \in SizeNames : amount(size) \in least..max_bet
  <2>. TAKE size \in SizeNames
  <2>1. to_raise_to(size, owed, least) \in Int
    BY <1>1, SizesAreBounded, DecisionFacts DEF Lesser
  <2>. QED
    BY <1>1, <2>1 DEF Clamp, Greater, Lesser
<1>. HIDE DEF amount
<1>5. Sizing.chips \subseteq least..max_bet /\ Sizing.slider = least..max_bet
      /\ Sizing.initial \in least..max_bet
  BY <1>2, <1>3, <1>4
<1>6. Sizing.chips \cup Sizing.slider \cup {Sizing.initial} = least..max_bet
  BY <1>5
<1>. QED
  BY <1>6 DEF least

\* The hero can click the legal actions and nothing else.
LEMMA TheDockIsTheLegalActions ==
  ASSUME IInv, outcome = "Continue", to_act = Hero
  PROVE  ActionPanel = {a \in Action : validate_action(a)}
<1>. DEFINE least == IF can_bet THEN min_bet ELSE min_raise_to
            Named == {k \in {"Fold", "Check", "Call", "AllIn"} :
                        \/ k = "Fold" /\ can_fold
                        \/ k = "Check" /\ can_check
                        \/ k = "Call" /\ can_call
                        \/ k = "AllIn" /\ can_all_in}
            Amounts == Sizing.chips \cup Sizing.slider \cup {Sizing.initial}
            SizedKind == IF can_bet THEN "Bet" ELSE "Raise"
<1>1. \A a \in Action : validate_action(a) <=> allows(a)
  BY DecisionFacts DEF validate_action
<1>2. Amounts = least..max_bet
  BY DockAmountsAreBounded
<1>3. least..max_bet \subseteq 0..ChipsInPlay /\ ~(can_bet /\ can_raise)
  BY LeastAmounts, DecisionFacts DEF can_bet, can_raise
<1>4. ActionPanel = {Plain(k) : k \in Named}
        \cup (IF can_bet \/ can_raise THEN {Sized(SizedKind, n) : n \in Amounts} ELSE {})
  BY DEF ActionPanel
<1>. HIDE DEF Amounts
<1>5. ASSUME NEW a \in ActionPanel PROVE a \in Action /\ allows(a)
  <2>1. CASE \E k \in Named : a = Plain(k)
    BY <2>1 DEF Action, Plain, allows
  <2>2. CASE (can_bet \/ can_raise) /\ \E n \in Amounts : a = Sized(SizedKind, n)
    <3>1. PICK n \in least..max_bet : a = Sized(SizedKind, n)
      BY <1>2, <2>2
    <3>2. n \in 0..ChipsInPlay /\ n >= least /\ n <= max_bet
      BY <1>3, LeastAmounts, DecisionFacts
    <3>. QED
      BY <2>2, <3>1, <3>2 DEF Action, Sized, allows
  <2>. QED
    BY <1>4, <1>5, <2>1, <2>2
<1>6. ASSUME NEW a \in Action, allows(a) PROVE a \in ActionPanel
  <2>1. CASE \E k \in {"Fold", "Check", "Call", "AllIn"} : a = Plain(k)
    <3>1. PICK k \in {"Fold", "Check", "Call", "AllIn"} : a = Plain(k)
      BY <2>1
    <3>2. k \in Named
      BY <1>6, <3>1 DEF Plain, allows
    <3>. QED
      BY <1>4, <3>1, <3>2
  <2>2. CASE \E k \in {"Bet", "Raise"}, n \in 0..ChipsInPlay : a = Sized(k, n)
    <3>1. PICK k \in {"Bet", "Raise"}, n \in 0..ChipsInPlay : a = Sized(k, n)
      BY <2>2
    <3>2. k = SizedKind /\ (can_bet \/ can_raise) /\ n >= least /\ n <= max_bet
      BY <1>3, <1>6, <3>1 DEF Sized, allows
    <3>3. n \in Amounts
      BY <1>2, <3>1, <3>2, LeastAmounts, DecisionFacts
    <3>. QED
      BY <1>4, <3>1, <3>2, <3>3
  <2>. QED
    BY <2>1, <2>2 DEF Action
<1>. QED
  BY <1>1, <1>5, <1>6

(***************************************************************************)
(* From the click to the action.                                           *)
(***************************************************************************)

\* Whatever amount a bet or raise is submitted with, what it is taken for is
\* legal.
LEMMA SizedSubmissionsAreLegal ==
  ASSUME IInv, outcome = "Continue", NEW kind \in {"Bet", "Raise"}, NEW n \in Int,
         NEW b \in resolve_sized(kind, n)
  PROVE  allows(b)
<1>. DEFINE least == IF kind = "Bet" THEN min_bet ELSE min_raise_to
            meant == IF n >= stack_to_act THEN Plain("AllIn") ELSE Sized(kind, n)
            available == CASE meant.kind = "AllIn" -> can_all_in
                           [] meant.kind = "Bet" -> can_bet
                           [] OTHER -> can_raise
<1>1. n \in least..max_bet /\ available /\ b = meant
  BY DEF resolve_sized
<1>2. n >= least /\ n <= max_bet
  BY <1>1, LeastAmounts, DecisionFacts
<1>3. CASE n >= stack_to_act
  BY <1>1, <1>3 DEF Plain, allows
<1>4. CASE ~(n >= stack_to_act)
  BY <1>1, <1>2, <1>4 DEF Sized, allows
<1>. QED
  BY <1>3, <1>4

\* A bet or raise that is clicked is played, with the chips it says unless it is
\* as high as the stack.
LEMMA SizedClicksAreTaken ==
  ASSUME IInv, outcome = "Continue", NEW kind \in {"Bet", "Raise"}, NEW n \in 0..ChipsInPlay,
         allows(Sized(kind, n))
  PROVE  \E b \in resolve_action(WireAction(Sized(kind, n))) :
           Paid(b) = IF n >= stack_to_act THEN stack_to_act ELSE Paid(Sized(kind, n))
<1>. DEFINE a == Sized(kind, n)
            least == IF kind = "Bet" THEN min_bet ELSE min_raise_to
<1>1. a.kind = kind /\ a.amount = n
  BY DEF Sized
<1>2. /\ n >= least /\ n <= max_bet /\ n \in Nat
      /\ IF kind = "Bet" THEN can_bet ELSE can_raise
  BY DecisionFacts DEF Sized, allows
<1>3. can_all_in /\ max_bet >= stack_to_act
  BY <1>2, DecisionFacts DEF can_all_in, can_bet, can_raise
<1>4. CASE n >= max_bet
  <2>1. WireAction(a) = Plain("AllIn") /\ n >= stack_to_act
    BY <1>1, <1>2, <1>3, <1>4, DecisionFacts DEF WireAction
  <2>2. Plain("AllIn") \in resolve_action(Plain("AllIn"))
    BY <1>3 DEF resolve_action, Plain, allows
  <2>3. Paid(Plain("AllIn")) = stack_to_act
    BY DEF Paid, Plain
  <2>. QED
    BY <2>1, <2>2, <2>3
<1>5. CASE ~(n >= max_bet)
  <2>1. WireAction(a) = a
    BY <1>1, <1>5 DEF WireAction
  <2>2. resolve_action(a) = resolve_sized(kind, n)
    BY <1>1 DEF resolve_action
  <2>3. n \in least..max_bet
    BY <1>2, LeastAmounts, DecisionFacts
  <2>4. CASE n >= stack_to_act
    <3>1. resolve_sized(kind, n) = {Plain("AllIn")}
      BY <1>3, <2>3, <2>4 DEF resolve_sized, Plain
    <3>2. Paid(Plain("AllIn")) = stack_to_act
      BY DEF Paid, Plain
    <3>. QED
      BY <2>1, <2>2, <2>4, <3>1, <3>2
  <2>5. CASE ~(n >= stack_to_act)
    <3>1. resolve_sized(kind, n) = {a}
      BY <1>2, <2>3, <2>5 DEF resolve_sized, Sized
    <3>. QED
      BY <2>1, <2>2, <2>5, <3>1
  <2>. QED
    BY <2>4, <2>5
<1>. QED
  BY <1>4, <1>5

\* Every submission is rejected or taken for a legal action, and every click for
\* the one it shows.
LEMMA SubmissionsAreTaken ==
  ASSUME IInv, outcome = "Continue"
  PROVE  ClicksAreTaken
<1>. DEFINE Behind(a) == a.kind \in {"Bet", "Raise"} /\ a.amount >= stack_to_act
<1>. SUFFICES ASSUME to_act = Hero PROVE ClicksAreTaken
  BY DEF ClicksAreTaken
<1>1. \A b : allows(b) => validate_action(b)
  BY DecisionFacts DEF validate_action
<1>2. \A a \in Action : a.kind \in {"Bet", "Raise"} => a.amount \in 0..ChipsInPlay /\ a = Sized(a.kind, a.amount)
  BY DEF Action, Plain, Sized
<1>3. \A a \in Action : \A b \in resolve_action(a) : allows(b)
  <2>. SUFFICES ASSUME NEW a \in Action, NEW b \in resolve_action(a) PROVE allows(b)
    OBVIOUS
  <2>1. CASE a.kind \in {"Bet", "Raise"}
    <3>1. b \in resolve_sized(a.kind, a.amount)
      BY <2>1 DEF resolve_action
    <3>2. a.amount \in Int
      BY <1>2, <2>1, DecisionFacts
    <3>. QED
      BY <2>1, <3>1, <3>2, SizedSubmissionsAreLegal
  <2>2. CASE a.kind \notin {"Bet", "Raise"}
    BY <2>2 DEF resolve_action
  <2>. QED
    BY <2>1, <2>2
<1>4. \A kind \in {"Bet", "Raise"}, size \in BetSize :
         \A b \in resolve_bucket(kind, size) : allows(b)
  <2>. SUFFICES ASSUME NEW kind \in {"Bet", "Raise"}, NEW size \in BetSize,
                       NEW b \in resolve_bucket(kind, size)
                PROVE  allows(b)
    OBVIOUS
  <2>. DEFINE amount == IF kind = "Bet" THEN to_raise_to(size, 0, min_bet)
                        ELSE to_raise_to(size, call_amount, min_raise_to)
  <2>1. amount \in Int
    BY EverySizeIsBounded, LeastAmounts, DecisionFacts DEF Lesser
  <2>2. b \in resolve_sized(kind, amount)
    BY DEF resolve_bucket
  <2>. HIDE DEF amount
  <2>. QED
    BY <2>1, <2>2, SizedSubmissionsAreLegal
<1>5. \A a \in ActionPanel : \E b \in resolve_action(WireAction(a)) :
         Paid(b) = IF Behind(a) THEN stack_to_act ELSE Paid(a)
  <2>. SUFFICES ASSUME NEW a \in ActionPanel
                PROVE  \E b \in resolve_action(WireAction(a)) :
                         Paid(b) = IF Behind(a) THEN stack_to_act ELSE Paid(a)
    OBVIOUS
  <2>1. a \in Action /\ allows(a)
    BY TheDockIsTheLegalActions DEF validate_action
  <2>2. CASE a.kind \in {"Bet", "Raise"}
    BY <1>2, <2>1, <2>2, SizedClicksAreTaken
  <2>3. CASE a.kind \notin {"Bet", "Raise"}
    <3>1. WireAction(a) = a /\ resolve_action(a) = {a}
      BY <2>1, <2>3 DEF WireAction, resolve_action
    <3>. QED
      BY <2>3, <3>1
  <2>. QED
    BY <2>2, <2>3
<1>6. \A a \in ActionPanel : WireAction(a) \in Action
  BY TheDockIsTheLegalActions DEF WireAction, Action
<1>. HIDE DEF Behind
<1>7. \A a \in ActionPanel : \E b \in resolve_action(WireAction(a)) :
         (Paid(b) = IF Behind(a) THEN stack_to_act ELSE Paid(a)) /\ validate_action(b)
  BY <1>1, <1>3, <1>5, <1>6
<1>. QED
  BY <1>1, <1>3, <1>4, <1>7 DEF ClicksAreTaken, Behind

(***************************************************************************)
(* The theorem.                                                            *)
(***************************************************************************)

\* Every offer is sound: the candidates cost different chips, one of them stays in
\* the hand, all chips are among them where somebody could answer, no dead bet is
\* raised, a label names one of them, what the hero clicks is played, and a
\* playout draws from all of them.
THEOREM OffersStaySound == Spec => []EveryOfferIsSound
<1>1. IInv /\ outcome = "Continue" => OffersAreLegal
  BY CandidatesAreLegal, OpponentsPlayLegally, TheDockIsTheLegalActions
     DEF OffersAreLegal, CandidateActions
<1>2. IInv /\ QuietInv => EveryOfferIsSound
  BY <1>1, OffersAreAlternatives, LabelsNameOneCandidate, SubmissionsAreTaken,
     PlayoutsDrawAllCandidates DEF EveryOfferIsSound
<1>. QED
  BY <1>2, Invariance, QuietInvariance, PTL

-----------------------------------------------------------------------------
(***************************************************************************)
(* The refinement of the chip ledger.                                      *)
(***************************************************************************)

LEMMA InitRefinesLedger == Init => Ledger!Init
BY DEF Init, Ledger!Init, Ledger!Seat, Seat, InHand, NoChips, active_seats, NoSeat

\* Nobody is retired before the end of a hand.
LEMMA NobodyIsOutInAHand == Next /\ InHand' => eliminated' = eliminated
<1>. SUFFICES ASSUME Next, InHand' PROVE eliminated' = eliminated
  OBVIOUS
<1>1. CASE FirstHand \/ NextHand
  BY <1>1 DEF FirstHand, NextHand, start_hand
<1>2. CASE ApplyAction
  BY <1>2 DEF ApplyAction, apply_action, award_fold_win, finish_hand, InHand
<1>3. CASE AdvanceStreet
  BY <1>3 DEF AdvanceStreet
<1>4. CASE Showdown
  BY <1>4 DEF Showdown, showdown, finish_hand, InHand
<1>5. CASE TournamentOver
  BY <1>5 DEF TournamentOver, vars
<1>. QED
  BY <1>1, <1>2, <1>3, <1>4, <1>5 DEF Next

\* Every step of the engine is a step of the ledger or leaves it alone: a deal
\* opens a hand, a paid action bets, the end of a hand settles it.  That the
\* chipless seats are those out is kept between hands, and that a seat that is
\* out has no stake during one.
LEMMA NextRefinesLedger ==
  IInv /\ IInv' /\ PotInv /\ [Next]_vars => [Ledger!Next]_(Ledger!vars)
<1>. SUFFICES ASSUME IInv, IInv', PotInv, [Next]_vars
              PROVE  [Ledger!Next]_(Ledger!vars)
  OBVIOUS
<1>1. stacks \in [Seat -> Nat] /\ total_contrib \in [Seat -> Nat]
  BY DEF IInv, TypeOK, Chips
<1>2. CASE Next /\ ~InHand /\ InHand'
  <2>1. /\ \E s, t \in Seat : s # t /\ stacks[s] > 0 /\ stacks[t] > 0
        /\ \A s \in Seat : /\ total_contrib'[s] \in 0..stacks[s]
                           /\ stacks'[s] = stacks[s] - total_contrib'[s]
    BY <1>2, DealPosts
  <2>2. eliminated' = eliminated
    BY <1>2, NobodyIsOutInAHand
  <2>3. \A s \in Seat : eliminated[s] <=> stacks[s] = 0
    BY <1>2 DEF IInv, BetweenHandsInv
  <2>4. /\ \E s, t \in active_seats : s # t
        /\ \A s \in active_seats : stacks[s] > 0
        /\ \A s \in Seat \ active_seats : total_contrib'[s] = 0
    BY <1>1, <2>1, <2>3 DEF active_seats
  <2>5. active_seats' = active_seats
    BY <2>2 DEF active_seats
  <2>6. Seat \ (Seat \ active_seats) = active_seats
    BY DEF active_seats
  <2>7. Ledger!Open
    BY <1>2, <2>1, <2>4, <2>5, <2>6 DEF Ledger!Open, Ledger!Seat, Seat
  <2>. QED
    BY <2>7 DEF Ledger!Next
<1>3. CASE Next /\ InHand /\ InHand'
  <2>0. eliminated' = eliminated /\ active_seats' = active_seats
    BY <1>3, NobodyIsOutInAHand DEF active_seats
  <2>1. PICK s \in Seat, n \in Nat : Stakes(s, n)
    BY <1>3, BetsPay
  <2>2. CASE n = 0
    <3>1. total_contrib' = total_contrib /\ stacks' = stacks
      BY <1>1, <2>1, <2>2 DEF Stakes
    <3>. QED
      BY <1>3, <2>0, <3>1 DEF Ledger!vars
  <2>3. CASE n > 0
    <3>1. /\ total_contrib'[s] \in total_contrib[s] + 1 .. total_contrib[s] + stacks[s]
          /\ stacks'[s] = stacks[s] - (total_contrib'[s] - total_contrib[s])
          /\ \A t \in Seat \ {s} : stacks'[t] = stacks[t] /\ total_contrib'[t] = total_contrib[t]
      BY <1>1, <2>1, <2>3 DEF Stakes
    <3>2. s \in active_seats
      <4>1. total_contrib'[s] # 0
        BY <1>1, <3>1
      <4> QED
        BY <1>3, <2>0, <4>1 DEF IInv, HandInv, active_seats
    <3>3. Ledger!Bet
      BY <1>3, <2>0, <3>1, <3>2 DEF Ledger!Bet, Ledger!Seat, Seat
    <3>. QED
      BY <3>3 DEF Ledger!Next
  <2>. QED
    BY <2>2, <2>3
<1>4. CASE Next /\ InHand /\ ~InHand'
  <2>1. \A s \in Seat : stacks'[s] \in stacks[s] .. stacks[s] + Cover(s)
    BY <1>4, HandPays
  <2>2. Total(stacks') + 0 = Total(stacks) + Total(total_contrib)
    BY <1>4 DEF IInv, ChipsConserved, Total
  <2>3. Total(stacks') \in Nat
    <3>1. stacks' \in [Seat -> Nat]
      BY DEF IInv, TypeOK, Chips
    <3>. QED
      BY <3>1 DEF Total, Seat
  <2>5. Seat \ active_seats' = {s \in Seat : stacks'[s] = 0}
    BY <1>4 DEF IInv, BetweenHandsInv, active_seats
  <2>4. Ledger!Settle
    BY <1>4, <2>1, <2>2, <2>3, <2>5
       DEF Ledger!Settle, Ledger!Seat, Ledger!Sum, Ledger!Covered, Ledger!Smaller,
           Seat, Total, Cover, Lesser, NoChips
  <2>. QED
    BY <2>4 DEF Ledger!Next
<1>5. CASE UNCHANGED vars
  BY <1>5 DEF vars, betting, Ledger!vars, InHand, active_seats
<1>6. CASE Next /\ ~InHand /\ ~InHand'
  BY <1>5, <1>6, NothingMovesBetweenHands
<1>. QED
  BY <1>2, <1>3, <1>4, <1>5, <1>6

\* The history variable only watches.
LEMMA HistoryIsATournament == HistorySpec => Spec
<1>1. HistoryInit => Init
  BY DEF HistoryInit
<1>2. [HistoryNext]_historyVars => [Next]_vars
  BY DEF HistoryNext, historyVars, vars, betting
<1>. QED
  BY <1>1, <1>2, PTL DEF HistorySpec, Spec

\* The engine implements the ledger: chips move only as bets, one seat at a
\* time, and every hand pays all of them out to seats that covered them.
THEOREM EngineImplementsLedger == HistorySpec => ImplementsLedger
<1>1. Init => Ledger!Init
  BY InitRefinesLedger
<1>2. IInv /\ IInv' /\ PayInv /\ [Next]_vars => [Ledger!Next]_(Ledger!vars)
  BY NextRefinesLedger DEF PayInv
<1>3. Spec => Ledger!Spec
  BY <1>1, <1>2, PayInvariance, PTL DEF Spec, Ledger!Spec
<1>. QED
  BY <1>3, HistoryIsATournament, PTL DEF ImplementsLedger

-----------------------------------------------------------------------------
(***************************************************************************)
(* Who may raise again.  The seat that made the last full raise faces none *)
(* since, which is the only seat legal_actions keeps from raising.         *)
(***************************************************************************)
ReopenInv ==
  /\ reopened \in [Seat -> BOOLEAN]
  /\ InHand => \A s \in Seat : reopened[s] => last_full_raise # s

LEMMA InitReopenInv == HistoryInit => ReopenInv
BY DEF HistoryInit, Init, ReopenInv, InHand

LEMMA NextReopenInv ==
  IInv /\ IInv' /\ ReopenInv /\ [HistoryNext]_historyVars => ReopenInv'
<1>. SUFFICES ASSUME IInv, IInv', ReopenInv, [HistoryNext]_historyVars
              PROVE  ReopenInv'
  OBVIOUS
<1>1. reopened \in [Seat -> BOOLEAN]
  BY DEF ReopenInv
<1>2. CASE HistoryNext
  <2>1. /\ reopened' = IF ~InHand' \/ outcome = "StreetEnded" \/ ~InHand
                       THEN [s \in Seat |-> TRUE]
                       ELSE [s \in Seat |-> s # to_act /\ (reopened[s] \/ FullRaiseMade)]
        /\ Next
    BY <1>2 DEF HistoryNext, TrackReopened
  <2>2. \A s \in Seat : s # None
    BY DEF Seat, None
  <2>3. CASE FirstHand \/ NextHand \/ AdvanceStreet
    <3>1. last_full_raise' = None
      BY <2>3 DEF FirstHand, NextHand, start_hand, AdvanceStreet
    <3>2. reopened' \in [Seat -> BOOLEAN]
      <4>1. outcome = "StreetEnded" \/ ~InHand
        BY <2>3 DEF FirstHand, NextHand, AdvanceStreet, InHand, IInv, HandInv
      <4>. QED
        BY <2>1, <4>1
    <3>. QED
      BY <2>2, <3>1, <3>2 DEF ReopenInv
  <2>4. ASSUME NEW a \in Action, apply_action(a) PROVE ReopenInv'
    <3>1. CASE ~InHand'
      BY <2>1, <3>1 DEF ReopenInv
    <3>2. CASE InHand'
      <4>1. /\ outcome = "Continue" /\ allows(a)
            /\ current_bet' = BetAfter(a)
            /\ last_full_raise' = IF FullRaise(a) THEN to_act ELSE last_full_raise
        BY <2>4 DEF apply_action
      <4>2. InHand /\ outcome # "StreetEnded"
        BY <4>1 DEF InHand
      <4>3. /\ BetAfter(a) \in Nat /\ current_bet \in Nat /\ min_raise \in Nat \ {0}
            /\ BetAfter(a) >= current_bet
        BY <4>1, LegalActionPays DEF IInv, TypeOK, Chips
      <4>4. FullRaise(a) <=> FullRaiseMade
        BY <4>1, <4>3 DEF FullRaise, FullRaiseMade
      <4>5. \A s \in Seat : reopened'[s] <=> s # to_act /\ (reopened[s] \/ FullRaise(a))
        <5>1. reopened' = [s \in Seat |-> s # to_act /\ (reopened[s] \/ FullRaiseMade)]
          BY <2>1, <3>2, <4>2
        <5>. QED
          BY <4>4, <5>1, Zenon
      <4>6. reopened' \in [Seat -> BOOLEAN]
        <5>1. reopened' = [s \in Seat |-> s # to_act /\ (reopened[s] \/ FullRaiseMade)]
          BY <2>1, <3>2, <4>2
        <5>. QED
          BY <5>1
      <4>7. \A s \in Seat : reopened'[s] => last_full_raise' # s
        BY <4>1, <4>2, <4>5 DEF ReopenInv
      <4>. QED
        BY <4>6, <4>7 DEF ReopenInv
    <3>. QED
      BY <3>1, <3>2
  <2>5. CASE Showdown \/ TournamentOver
    <3>1. ~InHand'
      BY <2>5 DEF Showdown, showdown, finish_hand, InHand, TournamentOver, vars, IInv, HandInv
    <3>. QED
      BY <2>1, <3>1 DEF ReopenInv
  <2>. QED
    BY <2>1, <2>3, <2>4, <2>5 DEF Next, ApplyAction
<1>3. CASE UNCHANGED historyVars
  BY <1>3 DEF historyVars, vars, betting, ReopenInv, InHand
<1>. QED
  BY <1>2, <1>3

\* A seat that faces a full raise and has chips beyond the call may go all in,
\* for more than the bet.
LEMMA ReopenedMayRaise == IInv /\ ReopenInv => FullRaiseReopens
<1>. SUFFICES ASSUME IInv, ReopenInv, outcome = "Continue", reopened[to_act],
                     stack_to_act > to_call
              PROVE  Raises # {}
  BY DEF FullRaiseReopens
<1>1. /\ to_act \in Seat /\ InHand
      /\ stacks[to_act] \in Nat /\ street_contrib[to_act] \in Nat /\ current_bet \in Nat
      /\ street_contrib[to_act] <= current_bet
  BY DEF IInv, TypeOK, Chips, HandInv, InHand
<1>2. last_full_raise # to_act
  BY <1>1 DEF ReopenInv
<1>3. Plain("AllIn") \in Action /\ Plain("AllIn").kind = "AllIn"
  BY DEF Action, Plain
<1>4. allows(Plain("AllIn"))
  BY <1>1, <1>2, <1>3 DEF allows, can_all_in, can_raise, to_call, stack_to_act, Greater
<1>5. BetAfter(Plain("AllIn")) > current_bet
  <2>1. BetAfter(Plain("AllIn")) = Greater(max_bet, current_bet)
    BY <1>3 DEF BetAfter
  <2>. QED
    BY <1>1, <2>1 DEF max_bet, stack_to_act, to_call, Greater
<1>. QED
  BY <1>3, <1>4, <1>5 DEF Raises

\* For every stack and blind level: after a full raise a seat with chips beyond
\* the call may raise, however often it raised before.
THEOREM FullRaisesReopen == HistorySpec => []FullRaiseReopens
<1>1. HistoryInit => IInv /\ ReopenInv
  BY InitIInv, InitReopenInv DEF HistoryInit
<1>2. (IInv /\ ReopenInv) /\ [HistoryNext]_historyVars => (IInv /\ ReopenInv)'
  <2>1. [HistoryNext]_historyVars => [Next]_vars
    BY DEF HistoryNext, historyVars, vars, betting
  <2>. QED
    BY <2>1, NextIInv, NextReopenInv
<1>. QED
  BY <1>1, <1>2, ReopenedMayRaise, PTL DEF HistorySpec

-----------------------------------------------------------------------------
(***************************************************************************)
(* The page.  There is no result before the hand has one, nobody folds     *)
(* without cards, and the pot of a finished hand is what it paid.          *)
(***************************************************************************)
PageInv ==
  /\ ~hand_over => hand_result = NoResult
  /\ InHand => \A s \in Seat : folded[s] => ~eliminated[s]
  /\ hand_over =>
       /\ Total(total_contrib) = Total(hand_result.awards) + Total(hand_result.returns)
       /\ hand_result.reason = "Showdown" => board = 5

LEMMA InitPageInv == Init => PageInv
BY DEF Init, PageInv, InHand

\* A showdown pays what the pot held.
LEMMA ShowdownEmptiesThePot ==
  ASSUME IInv, IInv', PotInv, NEW rank \in Ranking, showdown(rank)
  PROVE  Total(total_contrib)' = Total(hand_result.awards)' + Total(hand_result.returns)'
<1>1. /\ total_contrib' = total_contrib /\ ~InHand'
      /\ \A s \in Seat :
           /\ hand_result.awards[s]' \in Nat /\ hand_result.returns[s]' \in Nat
           /\ stacks'[s] = stacks[s] + (hand_result.awards[s]' + hand_result.returns[s]')
  BY ShowdownPays
<1>2. InHand /\ stacks \in [Seat -> Nat] /\ total_contrib \in [Seat -> Nat]
  BY DEF showdown, InHand, IInv, TypeOK, Chips
<1>3. Total(stacks') + 0 = Total(stacks) + Total(total_contrib)
  BY <1>1, <1>2 DEF IInv, ChipsConserved, Total
<1>4. /\ stacks[0] \in Nat /\ stacks[1] \in Nat /\ stacks[2] \in Nat
      /\ total_contrib[0] \in Nat /\ total_contrib[1] \in Nat /\ total_contrib[2] \in Nat
      /\ hand_result.awards[0]' \in Nat /\ hand_result.returns[0]' \in Nat
      /\ hand_result.awards[1]' \in Nat /\ hand_result.returns[1]' \in Nat
      /\ hand_result.awards[2]' \in Nat /\ hand_result.returns[2]' \in Nat
      /\ stacks'[0] = stacks[0] + (hand_result.awards[0]' + hand_result.returns[0]')
      /\ stacks'[1] = stacks[1] + (hand_result.awards[1]' + hand_result.returns[1]')
      /\ stacks'[2] = stacks[2] + (hand_result.awards[2]' + hand_result.returns[2]')
  BY <1>1, <1>2 DEF Seat
<1>5. Total(total_contrib)' = Total(total_contrib)
  BY <1>1 DEF Total
<1>6. stacks'[0] + stacks'[1] + stacks'[2]
        = stacks[0] + stacks[1] + stacks[2]
            + (total_contrib[0] + total_contrib[1] + total_contrib[2])
  BY <1>3, <1>4 DEF Total
<1>7. total_contrib[0] + total_contrib[1] + total_contrib[2]
        = hand_result.awards[0]' + hand_result.awards[1]' + hand_result.awards[2]'
            + (hand_result.returns[0]' + hand_result.returns[1]' + hand_result.returns[2]')
  BY <1>4, <1>6
<1>. QED
  BY <1>5, <1>7 DEF Total

LEMMA NextPageInv == IInv /\ IInv' /\ PotInv /\ PageInv /\ [Next]_vars => PageInv'
<1>. SUFFICES ASSUME IInv, IInv', PotInv, PageInv, [Next]_vars PROVE PageInv'
  OBVIOUS
<1>1. CASE FirstHand \/ NextHand
  <2>1. hand_over' = FALSE /\ hand_result' = NoResult /\ folded' = NoSeat
    BY <1>1 DEF FirstHand, NextHand, start_hand
  <2>. QED
    BY <2>1 DEF PageInv, NoSeat
<1>2. ASSUME NEW a \in Action, apply_action(a) PROVE PageInv'
  <2>1. ~hand_over /\ outcome = "Continue" /\ InHand
    BY <1>2 DEF apply_action, InHand
  <2>2. CASE InHand'
    <3>1. Cardinality(Live([folded EXCEPT ![to_act] = @ \/ a.kind = "Fold"])) # 1
      BY <1>2, <2>2 DEF apply_action, award_fold_win, finish_hand, InHand
    <3>2. /\ hand_over' = hand_over /\ hand_result' = hand_result
          /\ eliminated' = eliminated
          /\ folded' = [folded EXCEPT ![to_act] = @ \/ a.kind = "Fold"]
      BY <1>2, <3>1 DEF apply_action
    <3>3. ~eliminated[to_act] /\ to_act \in Seat /\ folded \in [Seat -> BOOLEAN]
      BY <2>1 DEF IInv, TurnInv, Pending, Able, AbleToBet, Live, TypeOK
    <3>4. \A s \in Seat : folded'[s] => folded[s] \/ s = to_act
      BY <3>2, <3>3
    <3>. QED
      BY <2>1, <3>2, <3>3, <3>4 DEF PageInv
  <2>3. CASE ~InHand'
    <3>1. Cardinality(Live([folded EXCEPT ![to_act] = @ \/ a.kind = "Fold"])) = 1
      BY <1>2, <2>3 DEF apply_action, InHand
    <3>2. /\ hand_over' /\ total_contrib' = total_contrib
          /\ Total(total_contrib) \in Nat
          /\ \E w \in Seat :
               hand_result' = [reason  |-> "Fold",
                               awards  |-> [NoChips EXCEPT ![w] = Total(total_contrib)],
                               returns |-> NoChips]
      BY <1>2, <3>1, FoldWinPays
    <3>3. PICK w \in Seat :
               hand_result' = [reason  |-> "Fold",
                               awards  |-> [NoChips EXCEPT ![w] = Total(total_contrib)],
                               returns |-> NoChips]
      BY <3>2
    <3>. DEFINE n == Total(total_contrib)
                won == [NoChips EXCEPT ![w] = n]
    <3>4. /\ hand_result'.reason = "Fold"
          /\ hand_result'.awards = won /\ hand_result'.returns = NoChips
      BY <3>3
    <3>5. n \in Nat
      BY <3>2
    <3>. HIDE DEF n
    <3>6. Total(won) = n /\ Total(NoChips) = 0
      <4>1. \A s \in Seat : won[s] = IF s = w THEN n ELSE 0
        BY DEF NoChips
      <4>2. /\ won[0] = IF 0 = w THEN n ELSE 0
            /\ won[1] = IF 1 = w THEN n ELSE 0
            /\ won[2] = IF 2 = w THEN n ELSE 0
            /\ w = 0 \/ w = 1 \/ w = 2
        BY <4>1 DEF Seat
      <4>3. Total(won) = won[0] + won[1] + won[2]
        BY DEF Total
      <4>4. Total(NoChips) = 0
        BY DEF Total, NoChips, Seat
      <4>. HIDE DEF won
      <4>. QED
        BY <3>5, <4>2, <4>3, <4>4
    <3>7. Total(total_contrib') = n
      BY <3>2 DEF n
    <3>8. n = Total(hand_result'.awards) + Total(hand_result'.returns)
      BY <3>4, <3>5, <3>6
    <3>. QED
      BY <2>3, <3>2, <3>4, <3>7, <3>8 DEF PageInv, Total
  <2>. QED
    BY <2>2, <2>3
<1>3. CASE AdvanceStreet
  <2>1. /\ hand_over' = hand_over /\ hand_result' = hand_result /\ ~hand_over
        /\ folded' = folded /\ eliminated' = eliminated /\ InHand
    BY <1>3 DEF AdvanceStreet, InHand
  <2>. QED
    BY <2>1 DEF PageInv
<1>4. ASSUME NEW rank \in Ranking, showdown(rank) PROVE PageInv'
  <2>1. board' = 5 /\ hand_over' /\ ~InHand'
    BY <1>4 DEF showdown, finish_hand, InHand
  <2>. QED
    BY <1>4, <2>1, ShowdownEmptiesThePot DEF PageInv
<1>5. CASE UNCHANGED vars
  <2>1. /\ hand_over' = hand_over /\ hand_result' = hand_result /\ outcome' = outcome
        /\ folded' = folded /\ eliminated' = eliminated /\ board' = board
        /\ total_contrib' = total_contrib
    BY <1>5 DEF vars, betting
  <2>. QED
    BY <2>1 DEF PageInv, InHand, Total
<1>. QED
  BY <1>1, <1>2, <1>3, <1>4, <1>5 DEF Next, ApplyAction, Showdown, TournamentOver

\* What the page shows of a hand in which the engine waits for an action.
LEMMA TheActorIsShown ==
  ASSUME IInv, PageInv, outcome = "Continue"
  PROVE  /\ ~folded[to_act] /\ ~all_in[to_act] /\ ~eliminated[to_act] /\ stacks[to_act] > 0
         /\ \A s \in Seat : folded[s] \/ all_in[s] => ~eliminated[s]
         /\ \A s \in Seat : eliminated[s] => street_contrib[s] = 0
         /\ next_active(button) # button
         /\ button \in Seat
<1>1. /\ InHand /\ HandInv /\ to_act \in Able /\ to_act \in Seat
      /\ stacks \in [Seat -> Nat] /\ button \in Seat
      /\ street_contrib \in [Seat -> Nat] /\ total_contrib \in [Seat -> Nat]
      /\ eliminated \in [Seat -> BOOLEAN] /\ folded \in [Seat -> BOOLEAN]
      /\ all_in \in [Seat -> BOOLEAN]
  BY DEF InHand, IInv, TurnInv, Pending, TypeOK, Chips
<1>2. ~folded[to_act] /\ ~all_in[to_act] /\ ~eliminated[to_act]
  BY <1>1 DEF Able, AbleToBet, Live
<1>3. stacks[to_act] > 0
  BY <1>1, <1>2 DEF HandInv
<1>4. \A s \in Seat : folded[s] \/ all_in[s] => ~eliminated[s]
  BY <1>1 DEF PageInv, HandInv
<1>5. \A s \in Seat : eliminated[s] => street_contrib[s] = 0
  <2>1. \A s \in Seat : /\ street_contrib[s] <= total_contrib[s]
                        /\ eliminated[s] => total_contrib[s] = 0
    BY <1>1 DEF HandInv
  <2>. QED
    BY <1>1, <2>1
<1>6. next_active(button) # button
  <2>1. active_seats \in SUBSET Seat
    BY DEF active_seats
  <2>2. \E s, t \in active_seats : s # t
    BY <1>1 DEF HandInv, active_players, Live, active_seats
  <2>. QED
    BY <1>1, <2>1, <2>2, TwoSeats, NextActiveFacts
<1>. QED
  BY <1>1, <1>2, <1>3, <1>4, <1>5, <1>6

\* The page shows what the hand is at.
LEMMA ThePageShowsTheHand ==
  ASSUME IInv, PayInv, PageInv
  PROVE  TheHandIsShown
<1>. DEFINE seats == [s \in Seat |-> SeatFragment(s)]
<1>1. /\ TableFragment.seats = seats
      /\ TableFragment.pot = Total(total_contrib)
      /\ TableFragment.board = board
      /\ TableFragment.waiting_for = IF OnTheClock /\ to_act # Hero THEN {to_act} ELSE {}
      /\ TableFragment.dock <=> OnTheClock /\ to_act = Hero
  BY DEF TableFragment, pot
<1>2. ASSUME NEW s \in Seat
      PROVE  /\ seats[s].class = "active" <=> OnTheClock /\ to_act = s
             /\ seats[s].class = "winner" <=>
                  hand_result.awards[s] > 0 /\ ~(OnTheClock /\ to_act = s)
             /\ seats[s].small_blind <=> s = button
             /\ seats[s].big_blind <=> s = next_active(button)
             /\ seats[s].cards = "shown" <=> revealed(s)
             /\ seats[s].flag = "OUT" <=> eliminated[s] /\ ~folded[s] /\ ~all_in[s]
             /\ seats[s].flag = "" <=> ~eliminated[s] /\ ~folded[s] /\ ~all_in[s]
             /\ seats[s].stack = stacks[s]
             /\ seats[s].bet = street_contrib[s]
             /\ seats[s].win = hand_result.awards[s]
  <2>. DEFINE active == OnTheClock /\ to_act = s
              win == hand_result.awards[s]
  <2>1. /\ seats[s].class = CASE active -> "active" [] win > 0 /\ ~active -> "winner" [] OTHER -> "seat"
        /\ seats[s].small_blind = (s = button)
        /\ seats[s].big_blind = (s = big_blind_seat)
        /\ seats[s].cards = CASE revealed(s) -> "shown"
                              [] eliminated[s] /\ ~revealed(s) -> "none"
                              [] OTHER -> "backs"
        /\ seats[s].flag = CASE folded[s] -> "Fold"
                   [] all_in[s] /\ ~folded[s] -> "All-in"
                   [] eliminated[s] /\ ~folded[s] /\ ~all_in[s] -> "OUT"
                   [] OTHER -> ""
        /\ seats[s].stack = stacks[s] /\ seats[s].bet = street_contrib[s]
        /\ seats[s].win = hand_result.awards[s]
    BY DEF SeatFragment
  <2>. HIDE DEF seats
  <2>2. /\ seats[s].class = "active" <=> active
        /\ seats[s].class = "winner" <=> win > 0 /\ ~active
    BY <2>1
  <2>3. seats[s].cards = "shown" <=> revealed(s)
    BY <2>1
  <2>4. /\ seats[s].flag = "OUT" <=> eliminated[s] /\ ~folded[s] /\ ~all_in[s]
        /\ seats[s].flag = "" <=> ~eliminated[s] /\ ~folded[s] /\ ~all_in[s]
    <3>1. CASE folded[s]
      BY <2>1, <3>1
    <3>2. CASE all_in[s] /\ ~folded[s]
      BY <2>1, <3>2
    <3>3. CASE eliminated[s] /\ ~folded[s] /\ ~all_in[s]
      BY <2>1, <3>3
    <3>4. CASE ~eliminated[s] /\ ~folded[s] /\ ~all_in[s]
      BY <2>1, <3>4
    <3>. QED
      BY <3>1, <3>2, <3>3, <3>4
  <2>. QED
    BY <2>1, <2>2, <2>3, <2>4 DEF big_blind_seat
<1>. HIDE DEF seats
<1>3. /\ to_act \in Seat /\ Hero \in Seat /\ hand_over \in BOOLEAN
      /\ total_contrib \in [Seat -> Nat] /\ hand_result.awards \in [Seat -> Nat]
      /\ hand_result.returns \in [Seat -> Nat]
  BY DEF IInv, TypeOK, Hero, Seat, ResultType, Chips
<1>4. ASSUME hand_over
      PROVE  /\ \E s \in Seat : seats[s].class = "winner"
             /\ hand_result.reason = "Showdown" =>
                  \A s \in Seat : seats[s].win > 0 => seats[s].cards = "shown"
             /\ Total(total_contrib)
                  = hand_result.returns[0] + hand_result.returns[1] + hand_result.returns[2]
                      + (seats[0].win + seats[1].win + seats[2].win)
  <2>1. \E s \in Seat : seats[s].class = "winner"
    BY <1>2, <1>4 DEF PayInv, PayoutsAreCovered, OnTheClock
  <2>2. ASSUME NEW s \in Seat, hand_result.reason = "Showdown", seats[s].win > 0
        PROVE  seats[s].cards = "shown"
    <3>1. Cover(s) > 0
      <4>1. hand_result.awards[s] + hand_result.returns[s] <= Cover(s)
        BY <1>4 DEF PayInv, PayoutsAreCovered
      <4>2. Cover(s) \in Int
        BY <1>3 DEF Cover, Lesser, Seat
      <4>3. hand_result.awards[s] > 0
        BY <1>2, <2>2
      <4>4. hand_result.awards[s] \in Nat /\ hand_result.returns[s] \in Nat
        BY <1>3
      <4>. QED
        BY <4>1, <4>2, <4>3, <4>4
    <3>2. total_contrib[s] > 0
      BY <1>3, <3>1 DEF Cover, Lesser, Seat
    <3>. QED
      BY <1>2, <2>2, <3>2 DEF revealed, DealtIn
  <2>3. /\ seats[0].win = hand_result.awards[0]
        /\ seats[1].win = hand_result.awards[1]
        /\ seats[2].win = hand_result.awards[2]
    <3>1. \A s \in Seat : seats[s].win = hand_result.awards[s]
      BY <1>2
    <3>. QED
      BY <3>1 DEF Seat
  <2>4. /\ hand_result.awards[0] \in Nat /\ hand_result.awards[1] \in Nat
        /\ hand_result.awards[2] \in Nat
        /\ hand_result.returns[0] \in Nat /\ hand_result.returns[1] \in Nat
        /\ hand_result.returns[2] \in Nat
    BY <1>3 DEF Seat
  <2>5. Total(total_contrib) = Total(hand_result.awards) + Total(hand_result.returns)
    BY <1>4 DEF PageInv
  <2>6. /\ Total(hand_result.awards)
             = hand_result.awards[0] + hand_result.awards[1] + hand_result.awards[2]
        /\ Total(hand_result.returns)
             = hand_result.returns[0] + hand_result.returns[1] + hand_result.returns[2]
    BY DEF Total
  <2>7. Total(total_contrib)
          = hand_result.returns[0] + hand_result.returns[1] + hand_result.returns[2]
              + (hand_result.awards[0] + hand_result.awards[1] + hand_result.awards[2])
    BY <2>4, <2>5, <2>6
  <2>8. Total(total_contrib)
          = hand_result.returns[0] + hand_result.returns[1] + hand_result.returns[2]
              + (seats[0].win + seats[1].win + seats[2].win)
    BY <2>3, <2>7
  <2>. QED
    BY <2>1, <2>2, <2>8
<1>5. \A s \in Seat \ {Hero} : seats[s].cards = "shown" => board = 5 /\ hand_over
  <2>1. hand_result.reason = "Showdown" => hand_over /\ board = 5
    BY <1>3 DEF PageInv, NoResult
  <2>. QED
    BY <1>2, <2>1 DEF revealed
<1>6. ASSUME outcome \in {"Continue", "HandEnded"}, ~hand_over
      PROVE  /\ \A s \in Seat : seats[s].class = "active" => seats[s].flag = "" /\ seats[s].stack > 0
             /\ \A s \in Seat : seats[s].flag = "OUT" <=> eliminated[s]
             /\ \A s \in Seat : seats[s].flag = "OUT" => seats[s].bet = 0
             /\ \A s \in Seat : seats[s].small_blind => ~seats[s].big_blind
  <2>1. outcome = "Continue"
    BY <1>6 DEF IInv, BetweenHandsInv, InHand
  <2>2. /\ ~folded[to_act] /\ ~all_in[to_act] /\ ~eliminated[to_act] /\ stacks[to_act] > 0
        /\ \A s \in Seat : folded[s] \/ all_in[s] => ~eliminated[s]
        /\ \A s \in Seat : eliminated[s] => street_contrib[s] = 0
        /\ next_active(button) # button
    BY <2>1, TheActorIsShown
  <2>3. ASSUME NEW s \in Seat, seats[s].class = "active"
        PROVE  seats[s].flag = "" /\ seats[s].stack > 0
    <3>1. to_act = s
      BY <1>2, <2>3
    <3>. QED
      BY <1>2, <2>2, <3>1
  <2>4. \A s \in Seat : seats[s].flag = "OUT" <=> eliminated[s]
    BY <1>2, <2>2
  <2>5. \A s \in Seat : seats[s].flag = "OUT" => seats[s].bet = 0
    BY <1>2, <2>2, <2>4
  <2>6. \A s \in Seat : seats[s].small_blind => ~seats[s].big_blind
    BY <1>2, <2>2
  <2>. QED
    BY <2>3, <2>4, <2>5, <2>6
<1>7. ~hand_over \/ \A s \in Seat : seats[s].class # "active"
  BY <1>2 DEF OnTheClock
<1>8. {s \in Seat : seats[s].class = "active"}
        = IF TableFragment.dock THEN {Hero} ELSE TableFragment.waiting_for
  <2>1. {s \in Seat : seats[s].class = "active"} = IF OnTheClock THEN {to_act} ELSE {}
    <3>1. \A s \in Seat : seats[s].class = "active" <=> OnTheClock /\ to_act = s
      BY <1>2
    <3>. QED
      BY <1>3, <3>1
  <2>. QED
    BY <1>1, <2>1
<1>9. TableFragment.dock <=> seats[Hero].class = "active"
  BY <1>1, <1>2, <1>3
<1>10. hand_over => TableFragment.waiting_for = {}
  BY <1>1 DEF OnTheClock
<1>11. ASSUME outcome \in {"Continue", "HandEnded"}
       PROVE  \A s \in Seat : seats[s].class = "active" => seats[s].flag = "" /\ seats[s].stack > 0
  BY <1>6, <1>7, <1>11
<1>12. hand_over => Total(total_contrib)
         = hand_result.returns[0] + hand_result.returns[1] + hand_result.returns[2]
             + ([s \in Seat |-> seats[s].win][0] + [s \in Seat |-> seats[s].win][1]
                  + [s \in Seat |-> seats[s].win][2])
  <2>1. /\ [s \in Seat |-> seats[s].win][0] = seats[0].win
        /\ [s \in Seat |-> seats[s].win][1] = seats[1].win
        /\ [s \in Seat |-> seats[s].win][2] = seats[2].win
    BY DEF Seat
  <2>. QED
    BY <1>4, <2>1
<1>13. /\ hand_over => \E s \in Seat : seats[s].class = "winner"
       /\ hand_over /\ hand_result.reason = "Showdown" =>
            \A s \in Seat : seats[s].win > 0 => seats[s].cards = "shown"
  BY <1>4
<1>14. TheHandIsShown <=>
         (outcome \in {"Continue", "HandEnded"} =>
           /\ TableFragment.dock <=> seats[Hero].class = "active"
           /\ {s \in Seat : seats[s].class = "active"}
                = IF TableFragment.dock THEN {Hero} ELSE TableFragment.waiting_for
           /\ hand_over => TableFragment.waiting_for = {} /\ \E s \in Seat : seats[s].class = "winner"
           /\ \A s \in Seat \ {Hero} : seats[s].cards = "shown" => board = 5 /\ hand_over
           /\ hand_over /\ board = 5 /\ hand_result.reason = "Showdown" =>
                \A s \in Seat : seats[s].win > 0 => seats[s].cards = "shown"
           /\ \A s \in Seat : seats[s].class = "active" => seats[s].flag = "" /\ seats[s].stack > 0
           /\ ~hand_over => /\ \A s \in Seat : seats[s].flag = "OUT" <=> eliminated[s]
                            /\ \A s \in Seat : seats[s].flag = "OUT" => seats[s].bet = 0
                            /\ \A s \in Seat : seats[s].small_blind => ~seats[s].big_blind
           /\ hand_over => Total(total_contrib)
                 = hand_result.returns[0] + hand_result.returns[1] + hand_result.returns[2]
                     + ([s \in Seat |-> seats[s].win][0] + [s \in Seat |-> seats[s].win][1]
                          + [s \in Seat |-> seats[s].win][2]))
  BY <1>1, Zenon DEF TheHandIsShown
<1>. QED
  BY <1>5, <1>6, <1>8, <1>9, <1>10, <1>11, <1>12, <1>13, <1>14

(***************************************************************************)
(* What the log and the coach call the actions.                            *)
(***************************************************************************)

\* A size has one of these names.
Labels == {"ALLIN", "MIN", "3BB", "4BB", "2X", "1/3POT", "1/2POT", "3/4POT", "POT", "OVERBET"}

LEMMA ClassifyNames ==
  ASSUME NEW n \in Int, NEW least \in Int, stack_to_act \in Int
  PROVE  /\ classify(n, least) \in Labels
         /\ n < stack_to_act /\ n <= least => classify(n, least) = "MIN"
         /\ n > least => classify(n, least) # "MIN"
<1>1. CASE n >= stack_to_act
  BY <1>1 DEF classify, Labels
<1>2. CASE n < stack_to_act /\ n <= least
  <2>1. classify(n, least) = "MIN"
    BY <1>2 DEF classify
  <2>. QED
    BY <1>2, <2>1 DEF Labels
<1>3. CASE ~(n >= stack_to_act) /\ n > least
  <2>. DEFINE added == 1000 * Greater(n - call_amount, 0)
              over == Greater(pot + call_amount, 1)
  <2>1. classify(n, least) =
          IF street = Preflop
          THEN IF 2 * n <= 7 * BIG_BLIND THEN "3BB"
               ELSE IF 2 * n <= 9 * BIG_BLIND THEN "4BB" ELSE "POT"
          ELSE IF added <= 416 * over THEN "1/3POT"
               ELSE IF added <= 625 * over THEN "1/2POT"
               ELSE IF added <= 875 * over THEN "3/4POT"
               ELSE IF added <= 1250 * over THEN "POT" ELSE "OVERBET"
    BY <1>3 DEF classify
  <2>. HIDE DEF added, over
  <2>. QED
    BY <1>3, <2>1 DEF Labels
<1>. QED
  BY <1>1, <1>2, <1>3

\* A sized candidate comes from the list of its kind, and is named.
LEMMA SizedCandidatesAreListed ==
  ASSUME IInv, outcome = "Continue", NEW c \in candidates, c.action.kind \in {"Bet", "Raise"}
  PROVE  \/ /\ c.action.kind = "Bet" /\ can_bet
            /\ c \in SizedCandidates("Bet", size_buckets, min_bet)
         \/ /\ c.action.kind = "Raise" /\ can_raise
            /\ c \in SizedCandidates("Raise", raise_buckets, min_raise_to)
<1>1. CASE c \in {Candidate(Plain(k), "None") : k \in {"Fold", "Check", "Call"}}
  BY <1>1 DEF Candidate, Plain
<1>2. CASE c = Candidate(Plain("AllIn"), "ALLIN")
  BY <1>2 DEF Candidate, Plain
<1>3. ASSUME NEW kind \in {"Bet", "Raise"}, NEW sizes, NEW least,
             c \in SizedCandidates(kind, sizes, least)
      PROVE  c.action.kind = kind
  BY <1>3 DEF SizedCandidates, Candidate, Plain, Sized
<1>. QED
  BY <1>1, <1>2, <1>3 DEF candidates

\* The other candidates are the plain actions, once each.
LEMMA PlainCandidatesAreUnique ==
  ASSUME NEW c \in candidates, c.action.kind \notin {"Bet", "Raise"}
  PROVE  /\ c.action = Plain(c.action.kind)
         /\ c.bucket = IF c.action.kind = "AllIn" THEN "ALLIN" ELSE "None"
         /\ c = Candidate(c.action, c.bucket)
<1>1. CASE c \in {Candidate(Plain(k), "None") : k \in {"Fold", "Check", "Call"}}
  BY <1>1 DEF Candidate, Plain
<1>2. CASE c = Candidate(Plain("AllIn"), "ALLIN")
  BY <1>2 DEF Candidate, Plain
<1>3. ASSUME NEW kind \in {"Bet", "Raise"}, NEW sizes, NEW least,
             c \in SizedCandidates(kind, sizes, least)
      PROVE  c = Candidate(Plain("AllIn"), "ALLIN")
  <2>1. PICK n, label : c = Candidate(Plain("AllIn"), "ALLIN") \/ c = Candidate(Sized(kind, n), label)
    BY <1>3 DEF SizedCandidates
  <2>. QED
    BY <2>1 DEF Candidate, Plain, Sized
<1>. QED
  BY <1>1, <1>2, <1>3 DEF candidates

\* A list of sizes names each of its candidates, before the flop as well: there
\* the two sizes of an opening are the smallest and a larger one.
LEMMA SizesNameOneCandidate ==
  ASSUME IInv, outcome = "Continue", street = Preflop,
         NEW kind \in {"Bet", "Raise"}, NEW sizes, NEW least \in Nat, least <= max_bet,
         sizes = (IF kind = "Bet" THEN size_buckets ELSE raise_buckets),
         NEW c \in SizedCandidates(kind, sizes, least),
         NEW d \in SizedCandidates(kind, sizes, least),
         c.action.kind = kind, d.action.kind = kind, c.bucket = d.bucket
  PROVE  c = d
<1>. DEFINE amount(i) == Clamp(to_raise_to(sizes[i], call_amount, least), least, max_bet)
            first == {i \in DOMAIN sizes : \A j \in 1..(i - 1) : amount(j) # amount(i)}
            named(i) == IF kind = "Bet" \/ (street = Preflop /\ ~facing_raise_preflop)
                        THEN classify(amount(i), least) ELSE sizes[i]
<1>1. PICK i \in first : c = IF amount(i) >= max_bet THEN Candidate(Plain("AllIn"), "ALLIN")
                             ELSE Candidate(Sized(kind, amount(i)), named(i))
  BY DEF SizedCandidates
<1>2. PICK j \in first : d = IF amount(j) >= max_bet THEN Candidate(Plain("AllIn"), "ALLIN")
                             ELSE Candidate(Sized(kind, amount(j)), named(j))
  BY DEF SizedCandidates
<1>. HIDE DEF amount, named, first
<1>3. /\ c = Candidate(Sized(kind, amount(i)), named(i))
      /\ d = Candidate(Sized(kind, amount(j)), named(j))
  BY <1>1, <1>2 DEF Candidate, Plain
<1>4. named(i) = named(j)
  BY <1>3 DEF Candidate
<1>5. i \in DOMAIN sizes /\ j \in DOMAIN sizes
  BY DEF first
<1>6. CASE ~(kind = "Bet" \/ ~facing_raise_preflop)
  <2>1. sizes = <<"2X", "1/2POT", "POT">>
    BY <1>6 DEF raise_buckets
  <2>2. sizes[i] = sizes[j]
    BY <1>4, <1>6 DEF named
  <2>3. i = j
    BY <1>5, <2>1, <2>2
  <2>. QED
    BY <1>3, <2>3
<1>7. CASE kind = "Bet" \/ ~facing_raise_preflop
  <2>1. sizes = <<"MIN", "4BB">>
    BY <1>7 DEF raise_buckets, size_buckets
  <2>2. i \in {1, 2} /\ j \in {1, 2}
    BY <1>5, <2>1
  <2>3. /\ stack_to_act \in Nat /\ max_bet \in Nat /\ max_bet >= stack_to_act
        /\ call_amount \in Nat
    BY DecisionFacts
  <2>4. amount(1) = least
    <3>1. to_raise_to(sizes[1], call_amount, least)
            = Clamp(least, Lesser(least, stack_to_act), stack_to_act)
      BY <2>1 DEF to_raise_to
    <3>. QED
      BY <2>3, <3>1 DEF amount, Clamp, Greater, Lesser
  <2>5. /\ amount(2) \in Nat /\ amount(2) >= least
        /\ least >= stack_to_act => amount(2) = least
    <3>1. to_raise_to(sizes[2], call_amount, least) \in Lesser(least, stack_to_act)..stack_to_act
      <4>1. sizes[2] = "4BB" /\ "4BB" \in SizeNames
        BY <2>1 DEF SizeNames
      <4>. QED
        BY <2>3, <4>1, SizesAreBounded
    <3>2. Lesser(least, stack_to_act) \in Nat
      BY <2>3 DEF Lesser
    <3>3. PICK n \in Nat : n <= stack_to_act /\ to_raise_to(sizes[2], call_amount, least) = n
      BY <2>3, <3>1, <3>2
    <3>4. amount(2) = Clamp(n, least, max_bet)
      BY <3>3 DEF amount
    <3>. QED
      BY <2>3, <3>3, <3>4 DEF Clamp, Greater, Lesser
  <2>6. /\ named(1) = classify(amount(1), least)
        /\ named(2) = classify(amount(2), least)
    BY <1>7 DEF named
  <2>7. i = 2 \/ j = 2 => amount(2) # amount(1)
    BY <2>2 DEF first
  <2>8. i = 2 \/ j = 2 => named(1) = "MIN" /\ named(2) # "MIN"
    <3>1. SUFFICES ASSUME amount(2) # amount(1)
                   PROVE  named(1) = "MIN" /\ named(2) # "MIN"
      BY <2>7
    <3>2. least < stack_to_act /\ amount(2) > least
      BY <2>3, <2>4, <2>5, <3>1
    <3>. QED
      BY <2>3, <2>4, <2>5, <2>6, <3>2, ClassifyNames
  <2>9. i = j
    BY <1>4, <2>2, <2>8
  <2>. QED
    BY <1>3, <2>9
<1>. QED
  BY <1>6, <1>7

\* The name of a sized candidate is its size, and never that of another size.
LEMMA SizedCandidatesAreNamed ==
  ASSUME IInv, outcome = "Continue", NEW c \in candidates, c.action.kind \in {"Bet", "Raise"}
  PROVE  /\ c.bucket \in Labels
         /\ coach_action_label(c) = <<c.action.kind, bucket_size_label(c.bucket)>>
<1>1. ASSUME NEW kind \in {"Bet", "Raise"}, NEW sizes \in Seq(SizeNames),
             NEW least \in Nat, least <= max_bet,
             c \in SizedCandidates(kind, sizes, least)
      PROVE  c.bucket \in Labels
  <2>. DEFINE amount(i) == Clamp(to_raise_to(sizes[i], call_amount, least), least, max_bet)
              first == {i \in DOMAIN sizes : \A j \in 1..(i - 1) : amount(j) # amount(i)}
              named(i) == IF kind = "Bet" \/ (street = Preflop /\ ~facing_raise_preflop)
                          THEN classify(amount(i), least) ELSE sizes[i]
  <2>1. PICK i \in first : c = IF amount(i) >= max_bet THEN Candidate(Plain("AllIn"), "ALLIN")
                               ELSE Candidate(Sized(kind, amount(i)), named(i))
    BY <1>1 DEF SizedCandidates
  <2>2. sizes[i] \in SizeNames
    OBVIOUS
  <2>3. /\ stack_to_act \in Nat /\ max_bet \in Nat /\ call_amount \in Nat
        /\ Lesser(least, stack_to_act) \in Nat
    BY DecisionFacts DEF Lesser
  <2>4. to_raise_to(sizes[i], call_amount, least) \in Lesser(least, stack_to_act)..stack_to_act
    BY <2>2, <2>3, SizesAreBounded
  <2>5. to_raise_to(sizes[i], call_amount, least) \in Int
    BY <2>3, <2>4
  <2>6. amount(i) \in Int
    BY <2>3, <2>5 DEF Clamp, Greater, Lesser
  <2>. HIDE DEF amount, first
  <2>7. classify(amount(i), least) \in Labels
    BY <2>3, <2>6, ClassifyNames
  <2>8. named(i) \in Labels
    BY <2>2, <2>7 DEF Labels, SizeNames
  <2>. HIDE DEF named
  <2>. QED
    BY <2>1, <2>8 DEF Candidate, Labels
<1>2. c.bucket \in Labels
  BY <1>1, SizedCandidatesAreListed, BucketsAreSizes, LeastAmounts
<1>3. c.bucket # "None"
  BY <1>2 DEF Labels
<1>. QED
  BY <1>2, <1>3 DEF coach_action_label

\* Two candidates have two names.
LEMMA CoachNamesOneCandidate ==
  ASSUME IInv, QuietInv, outcome = "Continue", NEW c \in candidates, NEW d \in candidates,
         coach_action_label(c) = coach_action_label(d)
  PROVE  c = d
<1>1. c.action.kind = d.action.kind
  BY DEF coach_action_label
<1>2. CASE c.action.kind \notin {"Bet", "Raise"}
  BY <1>1, <1>2, PlainCandidatesAreUnique
<1>3. CASE c.action.kind \in {"Bet", "Raise"}
  <2>1. /\ c.bucket \in Labels /\ d.bucket \in Labels
        /\ bucket_size_label(c.bucket) = bucket_size_label(d.bucket)
    BY <1>1, <1>3, SizedCandidatesAreNamed
  <2>2. c.bucket = d.bucket /\ c.bucket # "None"
    BY <2>1 DEF bucket_size_label, Labels
  <2>3. CASE street # Preflop
    BY <2>2, <2>3, LabelsNameOneCandidate DEF LabelsAreDistinct
  <2>4. CASE street = Preflop
    <3>1. CASE c.action.kind = "Bet"
      <4>1. /\ c \in SizedCandidates("Bet", size_buckets, min_bet)
            /\ d \in SizedCandidates("Bet", size_buckets, min_bet)
        BY <1>1, <3>1, SizedCandidatesAreListed
      <4>. QED
        BY <1>1, <2>2, <2>4, <3>1, <4>1, LeastAmounts, SizesNameOneCandidate
    <3>2. CASE c.action.kind = "Raise"
      <4>1. /\ c \in SizedCandidates("Raise", raise_buckets, min_raise_to)
            /\ d \in SizedCandidates("Raise", raise_buckets, min_raise_to)
        BY <1>1, <3>2, SizedCandidatesAreListed
      <4>. QED
        BY <1>1, <2>2, <2>4, <3>2, <4>1, LeastAmounts, SizesNameOneCandidate
    <3>. QED
      BY <1>3, <3>1, <3>2
  <2>. QED
    BY <2>3, <2>4
<1>. QED
  BY <1>2, <1>3

LEMMA ThePageNamesTheActions ==
  ASSUME IInv, QuietInv
  PROVE  TheActionsAreNamed
<1>. SUFFICES ASSUME outcome = "Continue" PROVE TheActionsAreNamed
  BY DEF TheActionsAreNamed
<1>1. ASSUME NEW a \in Action, allows(a)
      PROVE  LoggedAmount(a) = Paid(a) + IF a.kind \in {"Bet", "Raise", "AllIn"}
                                         THEN street_contrib[to_act] ELSE 0
  <2>1. /\ a.kind \in {"Fold", "Check", "Call", "Bet", "Raise", "AllIn"}
        /\ a.amount \in Nat
        /\ a.kind \in {"Fold", "Check"} => a.amount = 0
    BY ChipsAssumption DEF Action, Plain, Sized, ChipsInPlay
  <2>2. /\ stack_to_act \in Nat /\ street_contrib[to_act] \in Nat /\ call_amount \in Nat
    BY DecisionFacts
  <2>3. CASE a.kind \in {"Fold", "Check"}
    BY <2>1, <2>3 DEF LoggedAmount, Paid
  <2>4. CASE a.kind = "Call"
    BY <2>2, <2>4 DEF LoggedAmount, Paid
  <2>5. CASE a.kind \in {"Bet", "Raise"}
    BY <2>1, <2>2, <2>5 DEF LoggedAmount, Paid
  <2>6. CASE a.kind = "AllIn"
    BY <2>2, <2>6 DEF LoggedAmount, Paid
  <2>. QED
    BY <2>1, <2>3, <2>4, <2>5, <2>6
<1>2. \A c, d \in candidates : coach_action_label(c) = coach_action_label(d) => c = d
  BY CoachNamesOneCandidate
<1>3. ASSUME NEW c \in candidates, street_contrib[to_act] = 0
      PROVE  chip_cost(c.action) <= chip_cost(Plain("AllIn"))
  <2>1. chip_cost(Plain("AllIn")) = stack_to_act
    BY DEF chip_cost, Plain
  <2>2. c.action \in Action /\ allows(c.action) /\ c.action \in CandidateActions
    BY CandidatesAreLegal DEF CandidateActions
  <2>3. /\ c.action.kind \in {"Fold", "Check", "Call", "Bet", "Raise", "AllIn"}
        /\ c.action.amount \in Nat
    BY <2>2, ChipsAssumption DEF Action, Plain, Sized, ChipsInPlay
  <2>4. /\ stack_to_act \in Nat /\ max_bet = 0 + stack_to_act
        /\ call_amount \in Nat /\ call_amount <= stack_to_act
    BY <1>3, DecisionFacts DEF call_amount, Lesser
  <2>5. CASE c.action.kind \in {"Fold", "Check"}
    <3>1. chip_cost(c.action) = 0
      BY <2>5 DEF chip_cost
    <3>. QED
      BY <2>1, <2>4, <3>1
  <2>6. CASE c.action.kind = "Call"
    <3>1. chip_cost(c.action) = call_amount
      BY <2>6 DEF chip_cost
    <3>. QED
      BY <2>1, <2>4, <3>1
  <2>7. CASE c.action.kind \in {"Bet", "Raise"}
    <3>1. c.action.amount < max_bet
      BY <2>2, <2>7, SizedCandidatesLeaveChips
    <3>2. chip_cost(c.action) = c.action.amount
      BY <2>7 DEF chip_cost
    <3>. QED
      BY <2>1, <2>3, <2>4, <3>1, <3>2
  <2>8. CASE c.action.kind = "AllIn"
    <3>1. chip_cost(c.action) = stack_to_act
      BY <2>8 DEF chip_cost
    <3>. QED
      BY <2>1, <2>4, <3>1
  <2>. QED
    BY <2>3, <2>5, <2>6, <2>7, <2>8
<1>. QED
  BY <1>1, <1>2, <1>3 DEF TheActionsAreNamed

\* Whatever the stacks: the page shows one seat on the clock and the dock for the
\* hero alone, no hidden card, the winners and where the pot went; and the log
\* and the coach name every action by what it is, no two alike.
THEOREM ThePageStaysTrue == Spec => []ThePageIsTrue
<1>1. IInv /\ PayInv /\ PageInv /\ QuietInv => ThePageIsTrue
  BY ThePageShowsTheHand, ThePageNamesTheActions DEF ThePageIsTrue
<1>2. Init => IInv /\ PayInv /\ PageInv
  BY InitIInv, InitPayInv, InitPageInv
<1>3. (IInv /\ PayInv /\ PageInv) /\ [Next]_vars => (IInv /\ PayInv /\ PageInv)'
  BY NextIInv, NextPayInv, NextPageInv DEF PayInv
<1>4. Spec => [](IInv /\ PayInv /\ PageInv)
  BY <1>2, <1>3, PTL DEF Spec
<1>. QED
  BY <1>1, <1>4, QuietInvariance, PTL

-----------------------------------------------------------------------------
(***************************************************************************)
(* The inductive invariant.                                                *)
(***************************************************************************)

\* Between calls the table waits for the hero or shows a finished hand, which
\* is the only one with a result; and the hero is in every hand.
RestInv ==
  /\ hand_no \in Nat
  /\ hand_no = 0 <=> outcome = "Undealt"
  /\ hand_no = 0 => Idle
  /\ Idle /\ hand_no > 0 => hand_over \/ (outcome = "Continue" /\ to_act = Hero)
  /\ ~hand_over => hand_result = NoResult
  /\ InHand => ~eliminated[Hero]

\* The decision a review holds back is the one on the table, and it is the only
\* one accepted and not recorded.
Review ==
  \E a, o \in Action : /\ a # o
                       /\ accepts(a)
                       /\ accepts(o)
                       /\ pending = {[action |-> a, optimal |-> o]}

ReviewInv ==
  /\ (pending = {} /\ unrecorded = 0) \/ (Review /\ unrecorded = 1)
  /\ pending # {} => Idle

HudType == [vpip : [Opponents -> Nat], pfr : [Opponents -> Nat],
            vpip_seen : SUBSET Opponents, pfr_seen : SUBSET Opponents]

\* What the current hand has added to a counter that counts a seat once a hand.
Once(s, seen) == IF s \in seen THEN 1 ELSE 0

\* Before this hand a seat had entered as many hands as there were at most, and
\* raised in no more than it had entered.
HudInv ==
  /\ hud \in HudType
  /\ hud.pfr_seen \subseteq hud.vpip_seen
  /\ hand_no = 0 => hud.vpip = Uncounted /\ hud.pfr = Uncounted /\ hud.vpip_seen = {}
  /\ \A s \in Opponents :
       /\ hud.pfr[s] + Once(s, hud.vpip_seen) <= hud.vpip[s] + Once(s, hud.pfr_seen)
       /\ hand_no > 0 => hud.vpip[s] + 1 <= hand_no + Once(s, hud.vpip_seen)
       /\ s \in hud.vpip_seen => total_contrib[s] > 0

SessionInv == RestInv /\ ReviewInv /\ HudInv

(***************************************************************************)
(* What the steps of a call are to the engine.                             *)
(***************************************************************************)

\* A validated action stays so while nothing moves on the table.
LEMMA ValidStays ==
  ASSUME NEW a, accepts(a), UNCHANGED vars
  PROVE  accepts(a)'
BY DEF accepts, allows, vars, betting, can_fold, can_check, can_call,
       can_bet, can_raise, can_all_in, to_call, stack_to_act, max_bet, min_bet,
       min_raise_to

\* In a hand that is not over, and only in one, an action can be applied.
LEMMA OverOrInHand ==
  ASSUME IInv
  PROVE  /\ InHand => ~hand_over
         /\ ~InHand => (hand_over <=> outcome = "HandEnded")
         /\ hand_over <=> outcome = "HandEnded"
BY DEF IInv, HandInv, BetweenHandsInv, InHand

\* The three things a step of a hand leaves behind: the end of the hand, or the
\* hand as it was with no result and nobody out.
LEMMA HandStepKeeps ==
  ASSUME IInv, RestInv, InHand, ApplyAction \/ AdvanceStreet \/ Showdown
  PROVE  /\ outcome' # "Undealt" /\ ~hand_over
         /\ \/ hand_over' /\ outcome' = "HandEnded"
            \/ InHand' /\ ~hand_over' /\ hand_result' = NoResult /\ ~eliminated'[Hero]
<1>0. ~hand_over /\ hand_result = NoResult /\ ~eliminated[Hero]
  BY OverOrInHand DEF RestInv
<1>1. CASE AdvanceStreet
  BY <1>0, <1>1 DEF AdvanceStreet, InHand
<1>2. CASE Showdown
  BY <1>0, <1>2 DEF Showdown, showdown, finish_hand, InHand
<1>3. ASSUME NEW a \in Action, apply_action(a)
      PROVE  \/ hand_over' /\ outcome' = "HandEnded"
             \/ InHand' /\ ~hand_over' /\ hand_result' = NoResult /\ ~eliminated'[Hero]
  <2>1. \/ hand_over' /\ outcome' = "HandEnded"
        \/ /\ outcome' \in {"StreetEnded", "Continue"}
           /\ UNCHANGED <<eliminated, hand_over, hand_result>>
    BY <1>3 DEF apply_action, award_fold_win, finish_hand
  <2>. QED
    BY <1>0, <2>1 DEF InHand
<1>4. CASE ApplyAction
  BY <1>0, <1>3, <1>4 DEF ApplyAction, InHand
<1>. QED
  BY <1>1, <1>2, <1>4

\* A seat's chips in the pot only grow within a hand.
LEMMA PotsGrow ==
  ASSUME IInv, InHand, ApplyAction \/ AdvanceStreet \/ Showdown, NEW s \in Seat
  PROVE  total_contrib[s] \in Nat /\ total_contrib'[s] \in Nat
         /\ total_contrib'[s] >= total_contrib[s]
<1>0. total_contrib \in [Seat -> Nat] /\ to_act \in Seat
  BY DEF IInv, TypeOK, Chips
<1>1. CASE AdvanceStreet
  BY <1>0, <1>1 DEF AdvanceStreet
<1>2. CASE Showdown
  BY <1>0, <1>2 DEF Showdown, showdown, betting
<1>3. ASSUME NEW a \in Action, apply_action(a)
      PROVE  total_contrib'[s] \in Nat /\ total_contrib'[s] >= total_contrib[s]
  <2>1. Paid(a) \in Nat
    BY <1>3, LegalActionPays DEF apply_action, IInv, TypeOK, Chips
  <2>2. total_contrib' = [total_contrib EXCEPT ![to_act] = @ + Paid(a)]
    BY <1>3 DEF apply_action
  <2>. QED
    BY <1>0, <2>1, <2>2
<1>. QED
  BY <1>0, <1>1, <1>2, <1>3 DEF ApplyAction

\* A call, a raise and an all-in put chips into the pot.
LEMMA EntryPays ==
  ASSUME IInv, NEW a \in Action, apply_action(a), a.kind \in {"Call", "Raise", "AllIn"}
  PROVE  total_contrib'[to_act] > 0
<1>1. /\ outcome = "Continue" /\ allows(a)
      /\ total_contrib' = [total_contrib EXCEPT ![to_act] = @ + Paid(a)]
  BY DEF apply_action
<1>2. /\ to_act \in Seat /\ total_contrib \in [Seat -> Nat] /\ stacks[to_act] \in Nat
      /\ street_contrib[to_act] \in Nat /\ current_bet \in Nat /\ min_raise \in Nat \ {0}
      /\ a.amount \in Nat
      /\ street_contrib[to_act] <= current_bet
  BY <1>1, ChipsAssumption
     DEF IInv, TypeOK, HandInv, InHand, Chips, ChipsInPlay, Action, Plain, Sized
<1>3. Paid(a) \in Nat /\ Paid(a) > 0
  <2>1. CASE a.kind = "Call"
    <3>1. Paid(a) = call_amount
      BY <2>1 DEF Paid
    <3>2. can_call
      BY <1>1, <2>1 DEF allows
    <3>. QED
      BY <1>2, <3>1, <3>2 DEF can_call, call_amount, to_call, stack_to_act, Lesser, Greater
  <2>2. CASE a.kind = "Raise"
    <3>1. Paid(a) = a.amount - street_contrib[to_act]
      BY <2>2 DEF Paid
    <3>2. can_raise /\ a.amount >= min_raise_to
      BY <1>1, <2>2 DEF allows
    <3>. QED
      BY <1>2, <3>1, <3>2
         DEF can_raise, min_raise_to, max_bet, to_call, stack_to_act, Lesser, Greater
  <2>3. CASE a.kind = "AllIn"
    <3>1. Paid(a) = stack_to_act
      BY <2>3 DEF Paid
    <3>2. can_all_in
      BY <1>1, <2>3 DEF allows
    <3>. QED
      BY <1>2, <3>1, <3>2 DEF can_all_in, stack_to_act
  <2>. QED
    BY <2>1, <2>2, <2>3
<1>. QED
  BY <1>1, <1>2, <1>3

(***************************************************************************)
(* The counters of the HUD.                                                *)
(***************************************************************************)

\* The HUD counts on while the hand does, whatever the hero does.
LEMMA HudStays ==
  ASSUME HudInv, UNCHANGED <<hand_no, hud>>,
         \A s \in Seat : total_contrib[s] > 0 => total_contrib'[s] > 0
  PROVE  HudInv'
<1>1. Opponents \subseteq Seat
  BY DEF Opponents, Opponent1, Opponent2, Seat
<1>2. hud' = hud /\ hand_no' = hand_no
  OBVIOUS
<1>3. /\ hud' \in HudType
      /\ hud'.pfr_seen \subseteq hud'.vpip_seen
      /\ hand_no' = 0 => hud'.vpip = Uncounted /\ hud'.pfr = Uncounted /\ hud'.vpip_seen = {}
  BY <1>2 DEF HudInv
<1>4. ASSUME NEW s \in Opponents
      PROVE  /\ hud'.pfr[s] + Once(s, hud'.vpip_seen) <= hud'.vpip[s] + Once(s, hud'.pfr_seen)
             /\ hand_no' > 0 => hud'.vpip[s] + 1 <= hand_no' + Once(s, hud'.vpip_seen)
             /\ s \in hud'.vpip_seen => total_contrib'[s] > 0
  BY <1>1, <1>2 DEF HudInv
<1>. QED
  BY <1>3, <1>4 DEF HudInv

\* The chips of a finished hand stay in the pot of the record, as they do while
\* it is played.
LEMMA HandKeepsChipsIn ==
  ASSUME IInv, InHand, ApplyAction \/ AdvanceStreet \/ Showdown
  PROVE  \A s \in Seat : total_contrib[s] > 0 => total_contrib'[s] > 0
<1>1. ASSUME NEW s \in Seat, total_contrib[s] > 0
      PROVE  total_contrib'[s] > 0
  <2>1. total_contrib[s] \in Nat /\ total_contrib'[s] \in Nat
        /\ total_contrib'[s] >= total_contrib[s]
    BY PotsGrow
  <2>. QED
    BY <1>1, <2>1
<1>. QED
  BY <1>1

\* begin_hand: nobody has entered the new hand.
LEMMA BeginHandCounts ==
  ASSUME HudInv, hand_no \in Nat, hand_no' = hand_no + 1, begin_hand
  PROVE  HudInv'
<1>1. /\ hud \in HudType /\ hud' = [hud EXCEPT !.vpip_seen = {}, !.pfr_seen = {}]
      /\ hud.pfr_seen \subseteq hud.vpip_seen
  BY DEF HudInv, begin_hand
<1>2. /\ hud'.vpip = hud.vpip /\ hud'.pfr = hud.pfr
      /\ hud'.vpip_seen = {} /\ hud'.pfr_seen = {}
      /\ hud' \in HudType
      /\ hud.vpip \in [Opponents -> Nat] /\ hud.pfr \in [Opponents -> Nat]
  BY <1>1 DEF HudType
<1>3. ASSUME NEW s \in Opponents
      PROVE  hud.pfr[s] <= hud.vpip[s] /\ hud.vpip[s] <= hand_no
  <2>1. /\ hud.pfr[s] \in Nat /\ hud.vpip[s] \in Nat
        /\ hud.pfr[s] + Once(s, hud.vpip_seen) <= hud.vpip[s] + Once(s, hud.pfr_seen)
        /\ hand_no > 0 => hud.vpip[s] + 1 <= hand_no + Once(s, hud.vpip_seen)
    BY <1>2 DEF HudInv
  <2>2. /\ Once(s, hud.vpip_seen) \in 0..1 /\ Once(s, hud.pfr_seen) \in 0..1
        /\ Once(s, hud.pfr_seen) <= Once(s, hud.vpip_seen)
    BY <1>1 DEF Once
  <2>3. hand_no = 0 => hud.vpip[s] = 0
    BY DEF HudInv, Uncounted
  <2>. QED
    BY <2>1, <2>2, <2>3
<1>4. ASSUME NEW s \in Opponents
      PROVE  /\ hud'.pfr[s] + Once(s, hud'.vpip_seen) <= hud'.vpip[s] + Once(s, hud'.pfr_seen)
             /\ hud'.vpip[s] + 1 <= hand_no' + Once(s, hud'.vpip_seen)
             /\ s \notin hud'.vpip_seen
  <2>1. hud.pfr[s] \in Nat /\ hud.vpip[s] \in Nat
    BY <1>2
  <2>2. Once(s, hud'.vpip_seen) = 0 /\ Once(s, hud'.pfr_seen) = 0 /\ s \notin hud'.vpip_seen
    BY <1>2 DEF Once
  <2>. QED
    BY <1>2, <1>3, <2>1, <2>2
<1>. QED
  BY <1>2, <1>4 DEF HudInv

\* record: an opponent who raises has entered the hand, now or before.
LEMMA RecordCounts ==
  ASSUME IInv, HudInv, hand_no \in Nat, hand_no > 0, UNCHANGED hand_no, InHand,
         to_act \in Opponents,
         NEW a \in Action, record(to_act, a), apply_action(a)
  PROVE  HudInv'
<1>. DEFINE me == to_act
            enters == street = Preflop /\ a.kind \in {"Call", "Raise", "AllIn"}
                      /\ me \notin hud.vpip_seen
            raises == street = Preflop /\ me \notin hud.pfr_seen
                      /\ (a.kind = "Raise" \/ (a.kind = "AllIn" /\ call_amount = 0))
<1>1. /\ hud'.vpip = [hud.vpip EXCEPT ![me] = IF enters THEN @ + 1 ELSE @]
      /\ hud'.pfr = [hud.pfr EXCEPT ![me] = IF raises THEN @ + 1 ELSE @]
      /\ hud'.vpip_seen = IF enters THEN hud.vpip_seen \cup {me} ELSE hud.vpip_seen
      /\ hud'.pfr_seen = IF raises THEN hud.pfr_seen \cup {me} ELSE hud.pfr_seen
      /\ hud' = [vpip |-> hud'.vpip, pfr |-> hud'.pfr,
                 vpip_seen |-> hud'.vpip_seen, pfr_seen |-> hud'.pfr_seen]
  BY DEF record
<1>2. raises => enters \/ me \in hud.vpip_seen
  OBVIOUS
<1>3. enters => total_contrib'[me] > 0
  BY EntryPays
<1>4. \A s \in Seat : total_contrib[s] > 0 => total_contrib'[s] > 0
  BY HandKeepsChipsIn DEF ApplyAction
<1>5. enters => me \notin hud.vpip_seen
  OBVIOUS
<1>6. raises => me \notin hud.pfr_seen
  OBVIOUS
<1>7. me \in Opponents
  OBVIOUS
<1>8. enters \in BOOLEAN /\ raises \in BOOLEAN
  OBVIOUS
<1>. HIDE DEF enters, raises, me
<1>9. /\ hud.vpip \in [Opponents -> Nat] /\ hud.pfr \in [Opponents -> Nat]
      /\ hud.vpip_seen \subseteq Opponents /\ hud.pfr_seen \subseteq Opponents
      /\ hud.pfr_seen \subseteq hud.vpip_seen
  BY DEF HudInv, HudType
<1>10. hud' \in HudType
  <2>1. /\ hud'.vpip \in [Opponents -> Nat] /\ hud'.pfr \in [Opponents -> Nat]
        /\ hud'.vpip_seen \subseteq Opponents /\ hud'.pfr_seen \subseteq Opponents
    BY <1>1, <1>7, <1>9
  <2>. QED
    BY <1>1, <2>1 DEF HudType
<1>11. hud'.pfr_seen \subseteq hud'.vpip_seen
  BY <1>1, <1>2, <1>9
<1>12. ASSUME NEW s \in Opponents
       PROVE  /\ hud'.pfr[s] + Once(s, hud'.vpip_seen) <= hud'.vpip[s] + Once(s, hud'.pfr_seen)
              /\ hud'.vpip[s] + 1 <= hand_no' + Once(s, hud'.vpip_seen)
              /\ s \in hud'.vpip_seen => total_contrib'[s] > 0
  <2>1. /\ hud.pfr[s] \in Nat /\ hud.vpip[s] \in Nat
        /\ hud.pfr[s] + Once(s, hud.vpip_seen) <= hud.vpip[s] + Once(s, hud.pfr_seen)
        /\ hud.vpip[s] + 1 <= hand_no + Once(s, hud.vpip_seen)
        /\ s \in hud.vpip_seen => total_contrib[s] > 0
    BY <1>9 DEF HudInv
  <2>2. s \in Seat
    BY DEF Opponents, Opponent1, Opponent2, Seat
  <2>3. /\ hud'.vpip[s] = IF s = me /\ enters THEN hud.vpip[s] + 1 ELSE hud.vpip[s]
        /\ hud'.pfr[s] = IF s = me /\ raises THEN hud.pfr[s] + 1 ELSE hud.pfr[s]
    BY <1>1, <1>9
  <2>4. /\ s \in hud'.vpip_seen <=> s \in hud.vpip_seen \/ (s = me /\ enters)
        /\ s \in hud'.pfr_seen <=> s \in hud.pfr_seen \/ (s = me /\ raises)
    BY <1>1
  <2>5. s \in hud'.vpip_seen => total_contrib'[s] > 0
    BY <1>3, <1>4, <2>1, <2>2, <2>4
  <2>6. Once(s, hud'.vpip_seen) = IF s = me /\ enters THEN Once(s, hud.vpip_seen) + 1
                                  ELSE Once(s, hud.vpip_seen)
    BY <1>5, <2>4 DEF Once
  <2>7. Once(s, hud'.pfr_seen) = IF s = me /\ raises THEN Once(s, hud.pfr_seen) + 1
                                 ELSE Once(s, hud.pfr_seen)
    BY <1>6, <2>4 DEF Once
  <2>8. Once(s, hud.vpip_seen) \in 0..1 /\ Once(s, hud.pfr_seen) \in 0..1
    BY DEF Once
  <2>. QED
    BY <2>1, <2>3, <2>5, <2>6, <2>7, <2>8
<1>. QED
  BY <1>10, <1>11, <1>12 DEF HudInv


(***************************************************************************)
(* The steps of the calls.                                                 *)
(***************************************************************************)

\* Nobody is out of the tournament's hands but those who are out of it.
LEMMA DealHasTheHero ==
  ASSUME tournament_result = None
  PROVE  ~eliminated[Hero]
<1>1. chip_leader # None
  BY DEF chip_leader, Opponent1, Opponent2, None
<1>. QED
  BY <1>1 DEF tournament_result

LEMMA InitSessionInv == SessionInit => SessionInv
<1>. SUFFICES ASSUME SessionInit PROVE SessionInv
  OBVIOUS
<1>1. /\ hand_no = 0 /\ outcome = "Undealt" /\ call = "None" /\ hand_result = NoResult
      /\ pending = {} /\ unrecorded = 0
      /\ hud = [vpip |-> Uncounted, pfr |-> Uncounted, vpip_seen |-> {}, pfr_seen |-> {}]
  BY DEF SessionInit, Init
<1>2. RestInv
  BY <1>1 DEF RestInv, Idle, InHand
<1>3. ReviewInv
  BY <1>1 DEF ReviewInv
<1>4. Uncounted \in [Opponents -> Nat] /\ \A s \in Opponents : Uncounted[s] = 0
  BY DEF Uncounted
<1>5. HudInv
  BY <1>1, <1>4 DEF HudInv, HudType, Once
<1>. QED
  BY <1>2, <1>3, <1>5 DEF SessionInv

\* A hand is dealt.
LEMMA DealStep ==
  ASSUME IInv, SessionInv, DealNextHand
  PROVE  SessionInv' /\ Next
<1>1. /\ Idle /\ hand_no' = hand_no + 1 /\ begin_hand /\ call' = "Deal"
      /\ UNCHANGED <<pending, unrecorded>>
      /\ ~eliminated[Hero]
  BY DealHasTheHero DEF DealNextHand
<1>2. FirstHand \/ NextHand
  BY DEF DealNextHand
<1>3. /\ outcome # "Continue"
      /\ outcome' = "Continue" /\ ~hand_over' /\ hand_result' = NoResult
      /\ eliminated' = eliminated
  BY <1>2, OverOrInHand DEF FirstHand, NextHand, start_hand
<1>4. hand_no \in Nat
  BY DEF SessionInv, RestInv
<1>5. RestInv'
  BY <1>1, <1>3, <1>4 DEF RestInv, Idle, InHand
<1>6. pending = {} /\ unrecorded = 0
  BY <1>3 DEF SessionInv, ReviewInv, Review, accepts
<1>7. ReviewInv'
  BY <1>1, <1>6 DEF ReviewInv
<1>8. HudInv'
  BY <1>1, <1>4, BeginHandCounts DEF SessionInv
<1>. QED
  BY <1>2, <1>5, <1>7, <1>8 DEF SessionInv, Next

\* A step of a hand within a call keeps the invariant when it owes no record.
LEMMA HandStep ==
  ASSUME IInv, SessionInv, InHand, ApplyAction \/ AdvanceStreet \/ Showdown,
         hand_no > 0, UNCHANGED hand_no, ~Idle', HudInv',
         pending' = {}, unrecorded' = 0
  PROVE  SessionInv' /\ Next
<1>1. /\ outcome' # "Undealt"
      /\ \/ hand_over' /\ outcome' = "HandEnded"
         \/ InHand' /\ ~hand_over' /\ hand_result' = NoResult /\ ~eliminated'[Hero]
  BY HandStepKeeps DEF SessionInv
<1>2. hand_no \in Nat /\ hand_no' = hand_no
  BY DEF SessionInv, RestInv
<1>3. RestInv'
  BY <1>1, <1>2 DEF RestInv, InHand
<1>4. ReviewInv'
  BY DEF ReviewInv
<1>. QED
  BY <1>3, <1>4 DEF SessionInv, Next

\* A hand is played only when one was dealt.
LEMMA HandsAreNumbered ==
  ASSUME SessionInv, outcome # "Undealt"
  PROVE  hand_no \in Nat /\ hand_no > 0
BY DEF SessionInv, RestInv

\* An action settled by a submission.
LEMMA SubmissionStep ==
  ASSUME IInv, SessionInv, NEW a \in Action, apply_action(a),
         UNCHANGED <<hand_no, hud>>, call' = "Submission" \/ (~Idle /\ UNCHANGED call),
         pending' = {}, unrecorded' = 0
  PROVE  SessionInv' /\ Next
<1>1. outcome = "Continue" /\ InHand
  BY DEF apply_action, InHand
<1>2. hand_no > 0
  BY <1>1, HandsAreNumbered
<1>3. HudInv'
  BY <1>1, HudStays, HandKeepsChipsIn DEF SessionInv, ApplyAction
<1>4. ~Idle'
  BY DEF Idle
<1>. QED
  BY <1>1, <1>2, <1>3, <1>4, HandStep DEF ApplyAction

\* An action held back: the hero is asked, and nothing moves.
LEMMA InterceptStep ==
  ASSUME IInv, SessionInv, NEW a \in Action, accepts(a), pending = {},
         intercept(a), UNCHANGED <<hand_no, hud>>, Idle'
  PROVE  SessionInv' /\ [Next]_vars
<1>1. UNCHANGED vars /\ unrecorded' = unrecorded + 1
  BY DEF intercept
<1>2. UNCHANGED <<outcome, to_act, hand_over, hand_result, eliminated, total_contrib>>
  BY <1>1 DEF vars, betting
<1>3. outcome = "Continue" /\ to_act = Hero
  BY DEF accepts
<1>4. RestInv'
  BY <1>2, <1>3 DEF SessionInv, RestInv, InHand
<1>5. unrecorded = 0
  BY DEF SessionInv, ReviewInv, Review
<1>6. PICK o \in Action \ {a} : allows(o) /\ pending' = {[action |-> a, optimal |-> o]}
  BY DEF intercept
<1>7. accepts(o)
  BY <1>3, <1>6 DEF accepts
<1>8. accepts(a)' /\ accepts(o)'
  BY <1>1, <1>7, ValidStays
<1>9. Review'
  BY <1>6, <1>8 DEF Review
<1>10. ReviewInv'
  BY <1>1, <1>5, <1>9 DEF ReviewInv
<1>11. HudInv'
  BY <1>2, HudStays DEF SessionInv
<1>. QED
  BY <1>1, <1>4, <1>10, <1>11 DEF SessionInv

\* Nothing moves on the table, and no review is opened.
LEMMA QuietSessionStep ==
  ASSUME SessionInv, UNCHANGED <<vars, hand_no, hud>>,
         Idle' => Idle \/ hand_over \/ (outcome = "Continue" /\ to_act = Hero),
         Idle => Idle',
         \/ UNCHANGED <<pending, unrecorded>>
         \/ pending' = {} /\ unrecorded' = 0
  PROVE  SessionInv'
<1>1. UNCHANGED <<outcome, to_act, hand_over, hand_result, eliminated, total_contrib>>
  BY DEF vars, betting
<1>2. RestInv'
  BY <1>1 DEF SessionInv, RestInv, InHand
<1>3. ReviewInv'
  <2>1. CASE pending' = {} /\ unrecorded' = 0
    BY <2>1 DEF ReviewInv
  <2>2. CASE UNCHANGED <<pending, unrecorded>>
    <3>1. pending' = {} <=> pending = {}
      BY <2>2
    <3>2. pending' # {} => Idle'
      BY <3>1 DEF SessionInv, ReviewInv
    <3>3. ASSUME Review PROVE Review'
      <4>1. PICK a \in Action, o \in Action :
                   /\ a # o /\ accepts(a) /\ accepts(o)
                   /\ pending = {[action |-> a, optimal |-> o]}
        BY <3>3 DEF Review
      <4>2. accepts(a)' /\ accepts(o)'
        BY <4>1, ValidStays
      <4>. QED
        BY <2>2, <4>1, <4>2 DEF Review
    <3>. QED
      BY <2>2, <3>1, <3>2, <3>3 DEF SessionInv, ReviewInv
  <2>. QED
    BY <2>1, <2>2
<1>4. HudInv'
  BY <1>1, HudStays DEF SessionInv
<1>. QED
  BY <1>2, <1>3, <1>4 DEF SessionInv


\* submit and submit_check_fold.
LEMMA SubmitStep ==
  ASSUME IInv, SessionInv, NEW a \in Action, NEW wanted \in BOOLEAN, Submit(a, wanted)
  PROVE  SessionInv' /\ [Next]_vars
<1>1. Idle /\ accepts(a) /\ pending = {} /\ UNCHANGED <<hand_no, hud>>
  BY DEF Submit
<1>2. unrecorded = 0
  BY <1>1 DEF SessionInv, ReviewInv, Review
<1>3. \/ intercept(a) /\ UNCHANGED call
      \/ apply_action(a) /\ call' = "Submission" /\ UNCHANGED <<pending, unrecorded>>
  BY DEF Submit, apply_submission
<1>4. CASE intercept(a) /\ UNCHANGED call
  BY <1>1, <1>4, InterceptStep DEF Idle
<1>5. CASE apply_action(a) /\ call' = "Submission" /\ UNCHANGED <<pending, unrecorded>>
  BY <1>1, <1>2, <1>5, SubmissionStep
<1>. QED
  BY <1>3, <1>4, <1>5

LEMMA ConfirmStep ==
  ASSUME IInv, SessionInv, ConfirmReview
  PROVE  SessionInv' /\ Next
<1>1. PICK held \in pending : confirm_review(held)
  BY DEF ConfirmReview
<1>2. PICK a \in Action, o \in Action : pending = {[action |-> a, optimal |-> o]}
  BY <1>1 DEF SessionInv, ReviewInv, Review
<1>3. unrecorded = 1
  BY <1>1 DEF SessionInv, ReviewInv
<1>4. held.optimal = o
  BY <1>1, <1>2
<1>5. apply_action(o) /\ unrecorded' = 0 /\ pending' = {}
      /\ call' = "Submission" /\ UNCHANGED <<hand_no, hud>>
  BY <1>1, <1>3, <1>4 DEF ConfirmReview, confirm_review, apply_submission
<1>. QED
  BY <1>5, SubmissionStep

\* The pump plays an opponent, a street or a showdown, folds for the hero, or
\* returns where the hero decides.
LEMMA PumpStep ==
  ASSUME IInv, SessionInv, Pump
  PROVE  SessionInv' /\ [Next]_vars
<1>1. ~Idle /\ pending = {} /\ unrecorded = 0
  BY DEF SessionInv, ReviewInv, Review, Pump, OpponentActs, SettleStreet, AutoFold, PumpReturns
<1>2. hand_no \in Nat /\ hand_no > 0
  BY <1>1 DEF SessionInv, RestInv
<1>3. CASE OpponentActs
  <2>1. PICK a \in Action : record(to_act, a) /\ apply_action(a)
    BY <1>3 DEF OpponentActs
  <2>2. to_act \in Opponents
    BY <1>3 DEF OpponentActs, IInv, TypeOK, Seat, Opponents, Hero, Opponent1, Opponent2
  <2>3. UNCHANGED <<hand_no, pending, unrecorded, call>>
    BY <1>3 DEF OpponentActs
  <2>4. InHand
    BY <2>1 DEF apply_action, InHand
  <2>5. HudInv'
    BY <1>2, <2>1, <2>2, <2>3, <2>4, RecordCounts DEF SessionInv
  <2>. QED
    BY <1>1, <1>2, <2>1, <2>3, <2>4, <2>5, HandStep DEF ApplyAction, Idle
<1>4. CASE SettleStreet
  <2>1. /\ AdvanceStreet \/ Showdown
        /\ UNCHANGED <<hand_no, pending, unrecorded, hud, call>>
    BY <1>4 DEF SettleStreet
  <2>2. InHand
    BY <2>1 DEF AdvanceStreet, Showdown, showdown, InHand
  <2>3. HudInv'
    BY <2>1, <2>2, HudStays, HandKeepsChipsIn DEF SessionInv
  <2>. QED
    BY <1>1, <1>2, <2>1, <2>2, <2>3, HandStep DEF Idle
<1>5. CASE AutoFold
  <2>. DEFINE fold == Plain("Fold")
  <2>1. outcome = "Continue" /\ to_act = Hero /\ call_amount > 0
        /\ UNCHANGED <<hand_no, hud>>
    BY <1>5 DEF AutoFold, AutoFoldDue
  <2>2. fold \in Action /\ fold.kind = "Fold"
    BY DEF Action, Plain
  <2>3. to_call > 0
    BY <2>1 DEF call_amount, to_call, stack_to_act, Lesser, Greater, IInv, TypeOK, Chips
  <2>4. accepts(fold)
    BY <2>1, <2>2, <2>3 DEF accepts, allows, can_fold
  <2>5. \/ intercept(fold) /\ call' = "None"
        \/ apply_action(fold) /\ UNCHANGED <<pending, unrecorded, call>>
    BY <1>5 DEF AutoFold, apply_submission
  <2>. HIDE DEF fold
  <2>6. CASE intercept(fold) /\ call' = "None"
    BY <1>1, <2>1, <2>2, <2>4, <2>6, InterceptStep DEF Idle
  <2>7. CASE apply_action(fold) /\ UNCHANGED <<pending, unrecorded, call>>
    BY <1>1, <2>1, <2>2, <2>7, SubmissionStep
  <2>. QED
    BY <2>5, <2>6, <2>7
<1>6. CASE PumpReturns
  <2>1. PumpIsDone /\ UNCHANGED <<vars, hand_no, pending, unrecorded, hud>>
    BY <1>6 DEF PumpReturns
  <2>2. hand_over \/ (outcome = "Continue" /\ to_act = Hero)
    BY <2>1, OverOrInHand DEF PumpIsDone
  <2>. QED
    BY <1>1, <2>1, <2>2, QuietSessionStep
<1>. QED
  BY <1>3, <1>4, <1>5, <1>6 DEF Pump

\* Resuming brings the table back as it was left, short of what the last call
\* returned; at rest that can be read off the rest.
LEMMA ResumeStep ==
  ASSUME IInv, SessionInv, Resume
  PROVE  SessionInv' /\ UNCHANGED vars
<1>1. /\ Idle /\ hand_no > 0 /\ UNCHANGED call
      /\ restore_state(state_snapshot)
      /\ hand_no' = hand_no /\ hud' = hud /\ pending' = {} /\ unrecorded' = 0
  BY DEF Resume, from_snapshot, to_snapshot
<1>2. /\ UNCHANGED <<stacks, button, street, board, betting, eliminated, to_act,
                     hand_over, hand_result>>
      /\ outcome' = IF hand_over THEN "HandEnded" ELSE "Continue"
  BY <1>1 DEF restore_state, state_snapshot, betting
<1>3. outcome' = outcome
  BY <1>1, <1>2, OverOrInHand DEF SessionInv, RestInv
<1>4. UNCHANGED vars
  BY <1>2, <1>3 DEF vars
<1>. QED
  BY <1>1, <1>4, QuietSessionStep DEF Idle

\* Every step of the session is a step of the engine or leaves it alone, and
\* keeps the invariant.
LEMMA NextSessionInv ==
  IInv /\ SessionInv /\ [SessionNext]_sessionVars => SessionInv' /\ [Next]_vars
<1>. SUFFICES ASSUME IInv, SessionInv, [SessionNext]_sessionVars
              PROVE  SessionInv' /\ [Next]_vars
  OBVIOUS
<1>1. CASE DealNextHand
  BY <1>1, DealStep
<1>2. CASE HeroSubmits
  BY <1>2, SubmitStep DEF HeroSubmits
<1>3. CASE HeroCheckFolds
  <2>1. Plain("Check") \in Action
    BY DEF Action
  <2>. QED
    BY <1>3, <2>1, SubmitStep DEF HeroCheckFolds
<1>4. CASE RejectedCheckFold
  BY <1>4, QuietSessionStep DEF RejectedCheckFold, Idle
<1>5. CASE ConfirmReview
  BY <1>5, ConfirmStep
<1>6. CASE Pump
  BY <1>6, PumpStep
<1>7. CASE Resume
  BY <1>7, ResumeStep
<1>8. CASE UNCHANGED sessionVars
  BY <1>8, QuietSessionStep DEF sessionVars, sessionOwn, Idle
<1>9. CASE SessionOver
  BY <1>8, <1>9 DEF SessionOver
<1>. QED
  BY <1>1, <1>2, <1>3, <1>4, <1>5, <1>6, <1>7, <1>8, <1>9 DEF SessionNext

\* The invariants of the engine and of the session, together.
LEMMA SessionInvariance == SessionSpec => [](IInv /\ PayInv /\ SessionInv)
<1>1. SessionInit => IInv /\ PayInv /\ SessionInv
  BY InitIInv, InitPayInv, InitSessionInv DEF SessionInit
<1>2. (IInv /\ PayInv /\ SessionInv) /\ [SessionNext]_sessionVars
        => (IInv /\ PayInv /\ SessionInv)'
  BY NextSessionInv, NextIInv, NextPayInv
<1>. QED
  BY <1>1, <1>2, PTL DEF SessionSpec

\* The session plays the engine: whatever the hero submits, holds back, folds in
\* advance or resumes, the table only ever moves by the engine's rules.
THEOREM SessionPlaysTheEngine == SessionSpec => Spec
<1>1. SessionInit => Init
  BY DEF SessionInit
<1>2. IInv /\ SessionInv /\ [SessionNext]_sessionVars => [Next]_vars
  BY NextSessionInv
<1>. QED
  BY <1>1, <1>2, SessionInvariance, PTL DEF SessionSpec, Spec

\* Between calls the hero decides or the hand is over, a blunder held back can
\* still be played, and the table can be resumed.
THEOREM TheHeroDecidesAtRest == SessionSpec => []AtRestTheHeroDecides
<1>1. IInv /\ PayInv /\ SessionInv => AtRestTheHeroDecides
  <2>. SUFFICES ASSUME IInv, PayInv, SessionInv PROVE AtRestTheHeroDecides
    OBVIOUS
  <2>1. ASSUME Idle, hand_no > 0, ~hand_over
        PROVE  outcome = "Continue" /\ to_act = Hero /\ Hero \in AbleToBet(folded, all_in)
    <3>1. outcome = "Continue" /\ to_act = Hero
      BY <2>1 DEF SessionInv, RestInv
    <3>. QED
      BY <3>1 DEF IInv, TurnInv, Pending, Able
  <2>2. ASSUME NEW held \in pending
        PROVE  /\ accepts(held.action)
               /\ accepts(held.optimal)
               /\ held.action # held.optimal
    <3>1. PICK a \in Action, o \in Action :
                 /\ a # o /\ accepts(a) /\ accepts(o)
                 /\ pending = {[action |-> a, optimal |-> o]}
      BY <2>2 DEF SessionInv, ReviewInv, Review
    <3>2. held = [action |-> a, optimal |-> o]
      BY <3>1
    <3>3. held.action = a /\ held.optimal = o
      BY <3>2
    <3>. QED
      BY <3>1, <3>3
  <2>3. can_reconstruct(hand_result)
    BY DEF PayInv, PayoutsAreCovered, SessionInv, RestInv, can_reconstruct, NoResult
  <2>. QED
    BY <2>1, <2>2, <2>3 DEF AtRestTheHeroDecides
<1>. QED
  BY <1>1, SessionInvariance, PTL

\* The tournament ends with the hero, and names a winner that is in it and leads.
THEOREM TheHerosEndIsTheEnd == SessionSpec => []TheEndIsTheHerosEnd
<1>1. IInv /\ SessionInv => TheEndIsTheHerosEnd
  <2>. SUFFICES ASSUME IInv, SessionInv PROVE TheEndIsTheHerosEnd
    OBVIOUS
  <2>1. InHand => ~eliminated[Hero]
    BY DEF SessionInv, RestInv
  <2>2. ASSUME tournament_result # None
        PROVE  /\ ~eliminated[tournament_result]
               /\ \A s \in Seat : stacks[s] <= stacks[tournament_result]
    <3>1. active_seats \in SUBSET Seat
      BY DEF active_seats
    <3>2. ~InHand
      <4>1. ASSUME InHand PROVE Cardinality(active_seats) # 1
        <5>1. PICK s \in active_players, t \in active_players : s # t
          BY <4>1 DEF IInv, HandInv
        <5>2. s \in active_seats /\ t \in active_seats
          BY DEF active_players, Live, active_seats
        <5>. QED
          BY <3>1, <5>1, <5>2, OneSeat
      <4>. QED
        BY <2>1, <2>2, <4>1 DEF tournament_result, tournament_winner
    <3>3. /\ stacks \in [Seat -> Nat]
          /\ \A s \in Seat : eliminated[s] <=> stacks[s] = 0
      BY <3>2 DEF IInv, TypeOK, Chips, BetweenHandsInv
    <3>4. CASE Cardinality(active_seats) = 1
      <4>1. PICK w \in Seat : active_seats = {w}
        BY <3>1, <3>4, OneSeat
      <4>2. \A s \in Seat : ~eliminated[s] <=> s = w
        BY <4>1 DEF active_seats
      <4>3. tournament_winner = w
        BY <3>4, <4>2 DEF tournament_winner
      <4>4. tournament_result = w
        BY <4>3 DEF tournament_result, Seat, None
      <4>5. \A s \in Seat : stacks[s] <= stacks[w]
        BY <3>3, <4>2
      <4>. QED
        BY <4>2, <4>4, <4>5
    <3>5. CASE Cardinality(active_seats) # 1
      <4>1. tournament_winner = None
        BY <3>5 DEF tournament_winner
      <4>2. eliminated[Hero] /\ tournament_result = chip_leader
        BY <2>2, <4>1 DEF tournament_result
      <4>3. stacks[0] = 0 /\ stacks[1] \in Nat /\ stacks[2] \in Nat
        BY <3>3, <4>2 DEF Hero, Seat
      <4>4. stacks[0] + stacks[1] + stacks[2] > 0
        <5>1. Total(stacks) + 0 = ChipsInPlay
          BY <3>2 DEF IInv, ChipsConserved
        <5>2. ChipsInPlay > 0
          BY ChipsAssumption DEF ChipsInPlay
        <5>. QED
          BY <4>3, <5>1, <5>2 DEF Total
      <4>5. /\ chip_leader \in {1, 2}
            /\ stacks[chip_leader] > 0
            /\ stacks[1] <= stacks[chip_leader] /\ stacks[2] <= stacks[chip_leader]
        BY <4>3, <4>4 DEF chip_leader, Opponent1, Opponent2
      <4>6. ~eliminated[chip_leader]
        BY <3>3, <4>5 DEF Seat
      <4>7. \A s \in Seat : stacks[s] <= stacks[chip_leader]
        BY <4>3, <4>5 DEF Seat
      <4>. QED
        BY <4>2, <4>6, <4>7
    <3>. QED
      BY <3>4, <3>5
  <2>. QED
    BY <2>1, <2>2 DEF TheEndIsTheHerosEnd
<1>. QED
  BY <1>1, SessionInvariance, PTL

-----------------------------------------------------------------------------
(***************************************************************************)
(* The records of a connection.                                            *)
(***************************************************************************)

\* A hand result is queued by the step that ends a hand, and by no other.
LEMMA ResultsFollowHands ==
  ASSUME IInv, SessionInv, [MCNext]_mcVars, hand_results = finished
  PROVE  hand_results' = finished'
<1>1. CASE DealNextHand /\ Track(FALSE)
  BY <1>1 DEF DealNextHand, FirstHand, NextHand, start_hand, Track
<1>2. ASSUME NEW a, NEW w, NEW r, apply_submission(a, w, r), NEW armed, Track(armed)
      PROVE  hand_results' = finished'
  BY <1>2 DEF apply_submission, apply_action, log_hand_result, Track
<1>3. ASSUME NEW a, intercept(a), NEW armed, Track(armed)
      PROVE  hand_results' = finished'
  BY <1>3 DEF intercept, Track, vars
<1>4. CASE HeroSubmits /\ Track(FALSE)
  BY <1>2, <1>3, <1>4 DEF HeroSubmits, Submit
<1>5. CASE HeroCheckFolds /\ Track(~Idle')
  BY <1>2, <1>3, <1>5 DEF HeroCheckFolds, Submit
<1>6. CASE ConfirmReview /\ Track(FALSE)
  BY <1>2, <1>6 DEF ConfirmReview, confirm_review
<1>7. CASE Pump /\ Track(FALSE)
  <2>1. CASE OpponentActs
    BY <1>7, <2>1 DEF OpponentActs, apply_action, log_hand_result, Track
  <2>2. CASE SettleStreet
    BY <1>7, <2>2 DEF SettleStreet, AdvanceStreet, Showdown, showdown, log_hand_result, Track
  <2>3. CASE AutoFold
    BY <1>2, <1>3, <1>7, <2>3 DEF AutoFold
  <2>4. CASE PumpReturns
    BY <1>7, <2>4 DEF PumpReturns, Track, vars
  <2>. QED
    BY <1>7, <2>1, <2>2, <2>3, <2>4 DEF Pump
<1>8. CASE (RejectedCheckFold \/ SessionOver) /\ Track(FALSE)
  BY <1>8 DEF RejectedCheckFold, SessionOver, sessionVars, sessionOwn, Track, vars
<1>9. CASE Resume /\ Forget
  BY <1>9 DEF Resume, from_snapshot, Forget
<1>10. CASE UNCHANGED mcVars
  BY <1>10 DEF mcVars, sessionVars, sessionOwn
<1>. QED
  BY <1>1, <1>4, <1>5, <1>6, <1>7, <1>8, <1>9, <1>10 DEF MCNext

\* Everything is recorded once: decisions, hands, and the opponents' entries.
THEOREM RecordedOnce == MCSpec => []EverythingIsRecordedOnce
<1>1. MCInit => IInv /\ SessionInv /\ hand_results = finished
  BY InitIInv, InitSessionInv DEF MCInit, SessionInit
<1>2. [MCNext]_mcVars => [SessionNext]_sessionVars
  BY DEF MCNext, SessionNext, mcVars
<1>3. (IInv /\ SessionInv /\ hand_results = finished) /\ [MCNext]_mcVars
        => (IInv /\ SessionInv /\ hand_results = finished)'
  BY <1>2, NextSessionInv, NextIInv, ResultsFollowHands
<1>4. IInv /\ SessionInv /\ hand_results = finished => EverythingIsRecordedOnce
  <2>. SUFFICES ASSUME IInv, SessionInv, hand_results = finished
                PROVE  EverythingIsRecordedOnce
    OBVIOUS
  <2>1. unrecorded = Cardinality(pending)
    <3>1. Cardinality({}) = 0
      BY FS_EmptySet
    <3>2. ASSUME NEW x PROVE Cardinality({x}) = 1
      BY FS_Singleton
    <3>. QED
      BY <3>1, <3>2 DEF SessionInv, ReviewInv, Review
  <2>2. ASSUME NEW s \in Opponents
        PROVE  /\ hud.pfr[s] <= hud.vpip[s]
               /\ hud.vpip[s] <= hand_no
               /\ s \in hud.vpip_seen => total_contrib[s] > 0
    <3>1. /\ hud.pfr[s] \in Nat /\ hud.vpip[s] \in Nat /\ hand_no \in Nat
          /\ hud.pfr[s] + Once(s, hud.vpip_seen) <= hud.vpip[s] + Once(s, hud.pfr_seen)
          /\ hand_no > 0 => hud.vpip[s] + 1 <= hand_no + Once(s, hud.vpip_seen)
          /\ s \in hud.vpip_seen => total_contrib[s] > 0
      BY DEF SessionInv, RestInv, HudInv, HudType
    <3>2. /\ Once(s, hud.vpip_seen) \in 0..1 /\ Once(s, hud.pfr_seen) \in 0..1
          /\ Once(s, hud.pfr_seen) <= Once(s, hud.vpip_seen)
      BY DEF Once, SessionInv, HudInv
    <3>3. hand_no = 0 => hud.vpip[s] = 0
      BY DEF SessionInv, HudInv, Uncounted
    <3>. QED
      BY <3>1, <3>2, <3>3
  <2>. QED
    BY <2>1, <2>2 DEF EverythingIsRecordedOnce
<1>. QED
  BY <1>1, <1>3, <1>4, PTL DEF MCSpec

=============================================================================
