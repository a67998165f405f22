------------------------------ MODULE TableView ------------------------------
(***************************************************************************)
(* What the page shows of a hand: the seats, the pot and the dock of       *)
(* table_fragment, and the words and costs of the coach's list, in         *)
(* src/src/server/views.rs.  Functions of the state of the hand; cards are *)
(* shown, face down or absent.                                             *)
(***************************************************************************)
EXTENDS Policy

\* A seat that has cards: it was not out before this hand.
DealtIn(s) == ~eliminated[s] \/ total_contrib[s] > 0

\* Mutant: the cards are turned over at the end of any hand.
revealed_at_the_end(s) == s = Hero \/ (hand_over /\ DealtIn(s))

\* The revealed flags: a showdown turns all hands over, the folded ones as well.
revealed(s) == s = Hero \/ (hand_result.reason = "Showdown" /\ DealtIn(s))

OnTheClock == ~hand_over

big_blind_seat == next_active(button)

SeatFragment(s) ==
  LET active == OnTheClock /\ to_act = s
      win == hand_result.awards[s]
  IN [class  |-> CASE active -> "active" [] win > 0 /\ ~active -> "winner" [] OTHER -> "seat",
      small_blind |-> s = button,
      big_blind   |-> s = big_blind_seat,
      cards  |-> CASE revealed(s) -> "shown"
                   [] eliminated[s] /\ ~revealed(s) -> "none"
                   [] OTHER -> "backs",
      flag   |-> CASE folded[s] -> "Fold"
                   [] all_in[s] /\ ~folded[s] -> "All-in"
                   [] eliminated[s] /\ ~folded[s] /\ ~all_in[s] -> "OUT"
                   [] OTHER -> "",
      stack  |-> stacks[s],
      bet    |-> street_contrib[s],
      win    |-> win]

TableFragment ==
  [seats       |-> [s \in Seat |-> SeatFragment(s)],
   pot         |-> pot,
   board       |-> board,
   waiting_for |-> IF OnTheClock /\ to_act # Hero THEN {to_act} ELSE {},
   dock        |-> OnTheClock /\ to_act = Hero]

\* describe_action: the amount a line of the log names.
LoggedAmount(a) ==
  CASE a.kind = "Call" -> call_amount
    [] a.kind = "AllIn" -> stack_to_act + street_contrib[to_act]
    [] OTHER -> a.amount

\* The words of the coach for a candidate, by which the hero knows the action.
bucket_size_label(bucket) == IF bucket = "POT" /\ street # Preflop THEN "100%" ELSE bucket

coach_action_label(c) ==
  CASE c.action.kind \in {"Bet", "Raise"} /\ c.bucket # "None" ->
         <<c.action.kind, bucket_size_label(c.bucket)>>
    [] OTHER -> <<c.action.kind, c.action.amount>>

\* By which the list of candidates is sorted.  The cost of a raise is all it
\* raises to.
chip_cost(a) ==
  CASE a.kind \in {"Fold", "Check"} -> 0
    [] a.kind = "Call" -> call_amount
    [] a.kind \in {"Bet", "Raise"} -> a.amount
    [] a.kind = "AllIn" -> stack_to_act

-----------------------------------------------------------------------------
\* What the page shows is what the hand is at, between any two steps of it: one
\* seat on the clock, the dock only for the hero; nobody's cards before a
\* showdown, and those of the winners after one; every chip of the pot at its
\* winner or back where it came from; the seat that is out marked as out.
TheHandIsShown ==
  LET shown == TableFragment
      seats == shown.seats
      Total3(f) == f[0] + f[1] + f[2]
  IN outcome \in {"Continue", "HandEnded"} =>
     /\ shown.dock <=> seats[Hero].class = "active"
     /\ {s \in Seat : seats[s].class = "active"}
          = IF shown.dock THEN {Hero} ELSE shown.waiting_for
     /\ hand_over => shown.waiting_for = {} /\ \E s \in Seat : seats[s].class = "winner"
     /\ \A s \in Seat \ {Hero} : seats[s].cards = "shown" => shown.board = 5 /\ hand_over
     /\ hand_over /\ shown.board = 5 /\ hand_result.reason = "Showdown" =>
          \A s \in Seat : seats[s].win > 0 => seats[s].cards = "shown"
     /\ \A s \in Seat : seats[s].class = "active" => seats[s].flag = "" /\ seats[s].stack > 0
     /\ ~hand_over => /\ \A s \in Seat : seats[s].flag = "OUT" <=> eliminated[s]
                      /\ \A s \in Seat : seats[s].flag = "OUT" => seats[s].bet = 0
                      /\ \A s \in Seat : seats[s].small_blind => ~seats[s].big_blind
     /\ hand_over => shown.pot = Total3(hand_result.returns)
                                   + Total3([s \in Seat |-> seats[s].win])

\* What the log and the coach say of the actions: a line of the log names what
\* the seat then has in the street, or what it calls; two candidates have two
\* names, and where the seat has no chips in the street yet, nothing is listed
\* after the all-in.
TheActionsAreNamed ==
  outcome = "Continue" =>
    /\ \A a \in Action : allows(a) =>
         LoggedAmount(a) = Paid(a) + IF a.kind \in {"Bet", "Raise", "AllIn"}
                                     THEN street_contrib[to_act] ELSE 0
    /\ \A c, d \in candidates : coach_action_label(c) = coach_action_label(d) => c = d
    /\ \A c \in candidates :
         Plain("AllIn") \in CandidateActions /\ street_contrib[to_act] = 0 =>
           chip_cost(c.action) <= chip_cost(Plain("AllIn"))

\* What the page shows and says of a hand is what the hand is at.
ThePageIsTrue == TheHandIsShown /\ TheActionsAreNamed

=============================================================================
