-------------------------------- MODULE Policy --------------------------------
(***************************************************************************)
(* What the seats are offered at a decision of GameState: the candidates   *)
(* the solver values (src/src/mcts/actions.rs), the sizes of               *)
(* src/src/range/bet_size.rs, what an opponent may answer                  *)
(* (src/src/opponent.rs), the dock the hero's page shows                   *)
(* (src/src/server/views.rs), and the node a decision is filed under       *)
(* (src/src/opponent_history.rs).  All of them are functions of the state  *)
(* of the hand; the dice and the values that pick one of them are not      *)
(* modelled.                                                               *)
(***************************************************************************)
EXTENDS GameState, Sequences

(***************************************************************************)
(* Sizes.                                                                  *)
(***************************************************************************)
Clamp(n, low, high) == Greater(low, Lesser(n, high))

pot == Total(total_contrib)

\* The sizes a candidate or a submission may name.
BetSize == {"MIN", "3BB", "4BB", "2X", "1/3POT", "1/2POT", "3/4POT", "POT", "OVERBET", "ALLIN"}

\* to_raise_to: the amount a size stands for.
to_raise_to(size, call, least) ==
  LET all == pot + call
      amount == CASE size = "MIN" -> least
                  [] size = "3BB" -> 3 * BIG_BLIND
                  [] size = "4BB" -> 4 * BIG_BLIND
                  [] size = "2X" -> 2 * call
                  [] size = "1/3POT" -> call + all \div 3
                  [] size = "1/2POT" -> call + all \div 2
                  [] size = "3/4POT" -> call + (3 * all) \div 4
                  [] size = "POT" -> call + all
                  [] size = "OVERBET" -> call + 2 * all
                  [] size = "ALLIN" -> stack_to_act
  IN Clamp(amount, Lesser(least, stack_to_act), stack_to_act)

\* classify: the size an amount is called.  The fractions are those of the
\* code, in thousandths.
classify(amount, least) ==
  LET added == 1000 * Greater(amount - call_amount, 0)
      over == Greater(pot + call_amount, 1)
  IN CASE amount >= stack_to_act -> "ALLIN"
       [] amount < stack_to_act /\ amount <= least -> "MIN"
       [] OTHER ->
            IF street = Preflop
            THEN IF 2 * amount <= 7 * BIG_BLIND THEN "3BB"
                 ELSE IF 2 * amount <= 9 * BIG_BLIND THEN "4BB" ELSE "POT"
            ELSE IF added <= 416 * over THEN "1/3POT"
                 ELSE IF added <= 625 * over THEN "1/2POT"
                 ELSE IF added <= 875 * over THEN "3/4POT"
                 ELSE IF added <= 1250 * over THEN "POT" ELSE "OVERBET"

(***************************************************************************)
(* candidates: the actions the solver values, each with its label.         *)
(***************************************************************************)
\* Mutant: a seat that is all in counts as one that can answer.
opponents_can_still_respond_all_in == active_players \ {to_act} # {}

opponents_can_still_respond == AbleToBet(folded, all_in) \ {to_act} # {}

\* A raise of a bet that nobody is left to match.
facing_dead_raise == to_call > 0 /\ can_call /\ ~opponents_can_still_respond

size_buckets ==
  IF street = Preflop THEN <<"MIN", "4BB">> ELSE <<"MIN", "1/2POT", "POT", "OVERBET">>

facing_raise_preflop == street = Preflop /\ current_bet > BIG_BLIND

raise_buckets ==
  CASE facing_raise_preflop -> <<"2X", "1/2POT", "POT">>
    [] street = Preflop /\ ~facing_raise_preflop -> size_buckets
    [] OTHER -> <<"MIN", "2X", "1/2POT", "POT", "OVERBET">>

Candidate(a, label) == [action |-> a, bucket |-> label]

\* The sized candidates of a list of sizes: two that come to the same amount
\* are one, under the first label, and one that takes all chips is an all-in.
SizedCandidates(kind, sizes, least) ==
  LET amount(i) == Clamp(to_raise_to(sizes[i], call_amount, least), least, max_bet)
      first == {i \in DOMAIN sizes : \A j \in 1..(i - 1) : amount(j) # amount(i)}
      label(i) == IF kind = "Bet" \/ (street = Preflop /\ ~facing_raise_preflop)
                  THEN classify(amount(i), least) ELSE sizes[i]
  IN {IF amount(i) >= max_bet THEN Candidate(Plain("AllIn"), "ALLIN")
      ELSE Candidate(Sized(kind, amount(i)), label(i)) : i \in first}

candidates ==
  {c \in {Candidate(Plain(k), "None") : k \in {"Fold", "Check", "Call"}}
         \cup (IF can_bet THEN SizedCandidates("Bet", size_buckets, min_bet) ELSE {})
         \cup (IF can_raise /\ ~facing_dead_raise
               THEN SizedCandidates("Raise", raise_buckets, min_raise_to) ELSE {})
         \cup (IF facing_dead_raise THEN {} ELSE {Candidate(Plain("AllIn"), "ALLIN")})
     : allows(c.action)}

CandidateActions == {c.action : c \in candidates}

(***************************************************************************)
(* The opponents.                                                          *)
(***************************************************************************)
\* placeholder_action, for every roll of the dice.
placeholder_action ==
  LET half == to_raise_to("1/2POT", 0, min_bet)
      Bets(n) == IF n >= stack_to_act THEN Plain("AllIn") ELSE Sized("Bet", n)
  IN IF can_check
     THEN {Plain("Check")} \cup (IF can_bet THEN {Bets(min_bet), Bets(half)} ELSE {})
     ELSE {Plain("Fold"), IF can_call THEN Plain("Call") ELSE Plain("AllIn")}
          \cup (IF can_raise THEN {Sized("Raise", min_raise_to)} ELSE {})

ActionCategory(a) ==
  CASE a.kind = "Fold" -> "Fold"
    [] a.kind \in {"Check", "Call"} -> "CallCheck"
    [] a.kind \in {"Bet", "Raise"} -> "BetRaise"
    [] OTHER -> "Shove"

\* frequency_selection: the candidates of the category drawn, or all of them
\* if it has none.
frequency_selection(category) ==
  LET filtered == {a \in CandidateActions : ActionCategory(a) = category}
  IN IF filtered = {} THEN CandidateActions ELSE filtered

\* template_action: a candidate of the solve, by its frequency or its value, or
\* the placeholder's action where the solve fails.
template_action ==
  placeholder_action
    \cup UNION {frequency_selection(c) : c \in {"Fold", "CallCheck", "BetRaise", "Shove"}}

\* action_probs, as the candidates a playout may draw: every one but those its
\* two lists leave out.  The hero's playouts take one of them as well.
action_probs ==
  {a \in CandidateActions :
     a.kind \in IF call_amount > 0 THEN {"Fold", "Call", "Raise", "Bet", "AllIn"}
               ELSE {"Check", "Bet", "AllIn"}}

(***************************************************************************)
(* The dock: what the page lets the hero click.                            *)
(***************************************************************************)
\* The amounts on the chips and the slider of ActionPanelFragment.
Sizing ==
  LET least == IF can_bet THEN min_bet ELSE min_raise_to
      call == IF can_bet THEN 0 ELSE call_amount
      facing_raise == can_raise /\ call > 0 /\ (street # Preflop \/ current_bet > BIG_BLIND)
      sizes == IF facing_raise \/ street # Preflop
               THEN {"1/3POT", "1/2POT", "3/4POT", "POT"} ELSE {"MIN", "4BB"}
      default == IF facing_raise /\ street = Preflop THEN "2X" ELSE "MIN"
      amount(size) == Clamp(to_raise_to(size, call, least), least, max_bet)
  IN [chips |-> {n \in {amount(size) : size \in sizes} : n < stack_to_act},
      slider |-> least..max_bet,
      initial |-> amount(default)]

ActionPanel ==
  {Plain(k) : k \in {x \in {"Fold", "Check", "Call", "AllIn"} :
                        \/ x = "Fold" /\ can_fold
                        \/ x = "Check" /\ can_check
                        \/ x = "Call" /\ can_call
                        \/ x = "AllIn" /\ can_all_in}}
    \cup (IF can_bet \/ can_raise
          THEN {Sized(IF can_bet THEN "Bet" ELSE "Raise", n)
                  : n \in Sizing.chips \cup Sizing.slider \cup {Sizing.initial}}
          ELSE {})

(***************************************************************************)
(* From the click to the action: what the page sends and what the server   *)
(* takes it for.  A rejected submission is the empty set.                  *)
(***************************************************************************)
\* bindDock: a slider at its end sends an all-in.
WireAction(a) ==
  IF a.kind \in {"Bet", "Raise"} /\ a.amount >= max_bet THEN Plain("AllIn") ELSE a

\* resolve_sized.
resolve_sized(kind, amount) ==
  LET least == IF kind = "Bet" THEN min_bet ELSE min_raise_to
      meant == IF amount >= stack_to_act THEN Plain("AllIn") ELSE Sized(kind, amount)
      available == CASE meant.kind = "AllIn" -> can_all_in
                     [] meant.kind = "Bet" -> can_bet
                     [] OTHER -> can_raise
  IN IF amount \in least..max_bet /\ available THEN {meant} ELSE {}

\* resolve_action: an action with its amount, ...
resolve_action(submitted) ==
  IF submitted.kind \in {"Bet", "Raise"}
  THEN resolve_sized(submitted.kind, submitted.amount)
  ELSE {a \in {submitted} : allows(a)}

\* ... or a bet or raise by the name of its size.
resolve_bucket(kind, size) ==
  resolve_sized(kind, IF kind = "Bet" THEN to_raise_to(size, 0, min_bet)
                      ELSE to_raise_to(size, call_amount, min_raise_to))

\* validate_action.
validate_action(a) == ~hand_over /\ to_act = Hero /\ allows(a)

(***************************************************************************)
(* Where a decision is filed.                                              *)
(***************************************************************************)
decision_node ==
  [street |-> street,
   faced |-> IF street = Preflop THEN current_bet > BIG_BLIND ELSE ~can_check]

decision_position ==
  CASE to_act = button -> "BUTTON"
    [] to_act # button /\ to_act = next_active(button) -> "BIG_BLIND"
    [] OTHER -> "THIRD"

aggressor_context(node, was_aggressor, faces_cbet) ==
  IF node.street # Flop THEN "NOT_APPLICABLE"
  ELSE IF (IF node.faced THEN faces_cbet ELSE was_aggressor)
       THEN "AGGRESSOR" ELSE "NOT_AGGRESSOR"

-----------------------------------------------------------------------------
(***************************************************************************)
(* Properties.                                                             *)
(***************************************************************************)
\* Whatever the stacks, the bets and the sizes come to, the solver values and
\* the opponents draw nothing but legal actions, and the hero can click
\* exactly the legal ones.
OffersAreLegal ==
  /\ CandidateActions \cup template_action \subseteq {a \in Action : allows(a)}
  /\ to_act = Hero => ActionPanel = {a \in Action : validate_action(a)}

\* The candidates are real alternatives: no two of them are the same chips, a
\* seat can always stay in the hand and, where an opponent could answer, put
\* in all it has; and no bet is raised that nobody can match any more.
CandidatesAreAlternatives ==
  LET Plays(kind) == Plain(kind) \in CandidateActions
  IN /\ \A a, b \in CandidateActions : Paid(a) = Paid(b) => a = b
     /\ \E a \in CandidateActions : a.kind # "Fold"
     /\ opponents_can_still_respond => (can_all_in => Plays("AllIn"))
     /\ to_call > 0 /\ AbleToBet(folded, all_in) = {to_act} =>
          \A a \in CandidateActions : BetAfter(a) = current_bet

\* After the flop, where a size is a share of the pot, one label names one
\* candidate, and the smallest raise is called the smallest.
LabelsAreDistinct ==
  street # Preflop =>
    \A c, d \in candidates :
      /\ c.bucket = d.bucket /\ c.bucket # "None" => c = d
      /\ c.bucket = "MIN" /\ d.action.kind = c.action.kind
           => c.action.amount <= d.action.amount

\* What the hero clicks is what the server plays, chip for chip, but for a
\* raise that leaves chips behind and is as high as the stack, which is taken
\* for an all-in; and no submission, with an amount or the name of a size,
\* comes to an action that is not legal.
ClicksAreTaken ==
  LET Behind(a) == a.kind \in {"Bet", "Raise"} /\ a.amount >= stack_to_act
  IN to_act = Hero =>
       /\ \A a \in ActionPanel :
            \E b \in resolve_action(WireAction(a)) :
              Paid(b) = (IF Behind(a) THEN stack_to_act ELSE Paid(a)) /\ validate_action(b)
       /\ \A a \in Action : \A b \in resolve_action(a) : validate_action(b)
       /\ \A kind \in {"Bet", "Raise"}, size \in BetSize :
            \A b \in resolve_bucket(kind, size) : validate_action(b)

\* A playout of the solver is never without an action to draw, and its hero can
\* fold, stay or bet wherever the real one can.
PlayoutsGoOn ==
  /\ {a.kind : a \in action_probs} = {a.kind : a \in CandidateActions}
  /\ \E a \in action_probs : allows(a) /\ a.kind # "Fold"

\* The page, the solver and the opponents never come to a decision without a
\* sound choice.
EveryOfferIsSound ==
  outcome = "Continue" =>
    /\ OffersAreLegal
    /\ CandidatesAreAlternatives
    /\ LabelsAreDistinct
    /\ ClicksAreTaken
    /\ PlayoutsGoOn

=============================================================================
