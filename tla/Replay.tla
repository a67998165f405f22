-------------------------------- MODULE Replay --------------------------------
(***************************************************************************)
(* The replay of an imported hand: walk_hand of                            *)
(* src/src/opponent_analysis.rs takes the action lines parse_episode of    *)
(* src/src/hh.rs read, one by one, through the engine of GameState, and    *)
(* freezes every decision for the grader; parse_hand adds up what the hero *)
(* put in.                                                                 *)
(*                                                                         *)
(* The hand itself was played elsewhere, by the rules of a real table,     *)
(* which differ from the engine's: three-handed the small blind sits left  *)
(* of the button, and a seat nobody can answer is not asked.  `real` is    *)
(* that table.  It plays one line at a time, and the walk follows: the     *)
(* walk looks ahead by one line only, to find who acts first on a street.  *)
(*                                                                         *)
(* A line is its verb, seat and amounts; the cards are left out, except    *)
(* that the engine deals as many as the real board shows.                  *)
(***************************************************************************)
EXTENDS Policy

CONSTANT
  SeatStacks \* bound: the stacks the seats of an imported hand may declare

ASSUME SeatStacksAssumption == SeatStacks \subseteq 0..STARTING_STACK

VARIABLES
  real, \* the real table
  walk, \* where walk_hand is, its line, and the aggressors it tracks
  hero  \* the hero's seat, and what parse_hand counts as invested

walkVars == <<vars, real, walk, hero>>

(***************************************************************************)
(* The real table.                                                         *)
(***************************************************************************)
Playing(r) == {s \in Seat : r.seated[s] /\ ~r.folded[s]}
CanAct(r)  == {s \in Playing(r) : r.stack[s] > 0}
Others(r, s) == CanAct(r) \ {s}

NextSeated(seated, s) == IF seated[Left(s)] THEN Left(s) ELSE Left(Left(s))

SmallBlindSeat(r) ==
  IF \A s \in Seat : r.seated[s] THEN Left(r.button) ELSE r.button
BigBlindSeat(r) == NextSeated(r.seated, SmallBlindSeat(r))

\* What a seat has to match: nothing more than is in, if nobody can answer.
Faces(r, s) == IF Others(r, s) # {} THEN r.bet
               ELSE Lesser(r.bet, HighestOf([r.contrib EXCEPT ![s] = 0]))

MustAct(r, s) ==
  /\ s \in CanAct(r)
  /\ r.contrib[s] < Faces(r, s) \/ (~r.acted[s] /\ Others(r, s) # {})

\* The first seat from s on, clockwise, that has to act; None if none has.
FirstFrom(r, s) ==
  IF Cardinality(Playing(r)) = 1 THEN None
  ELSE IF MustAct(r, s) THEN s
  ELSE IF MustAct(r, Left(s)) THEN Left(s)
  ELSE IF MustAct(r, Left(Left(s))) THEN Left(Left(s))
  ELSE None

\* With nobody left to act, the next street is opened or the hand is over.
Settled(r) ==
  LET next == [r EXCEPT !.street = @ + 1, !.contrib = NoChips, !.bet = 0,
                        !.min = BIG_BLIND, !.acted = NoSeat, !.raiser = None]
  IN IF r.at # None THEN r
     ELSE IF r.street = River \/ Cardinality(CanAct(r)) < 2 \/ Cardinality(Playing(r)) = 1
     THEN r
     ELSE [next EXCEPT !.at = FirstFrom(next, Left(r.button))]

Put(r, s, n) ==
  [r EXCEPT !.stack[s] = @ - n, !.contrib[s] = @ + n, !.total[s] = @ + n]

Blind(r, s, n) == Put(r, s, Lesser(n, r.stack[s]))

\* A hand with the blinds posted.  The bet is the big blind, posted or not.
Dealt(stack, btn) ==
  LET r == [seated |-> [s \in Seat |-> stack[s] > 0], button |-> btn,
            stack |-> stack, contrib |-> NoChips, total |-> NoChips,
            bet |-> BIG_BLIND, min |-> BIG_BLIND, acted |-> NoSeat,
            reopened |-> [s \in Seat |-> TRUE], folded |-> NoSeat,
            street |-> Preflop, at |-> None, raiser |-> None, aggressor |-> None,
            calledAllIn |-> FALSE]
      posted == Blind(Blind(r, SmallBlindSeat(r), SMALL_BLIND), BigBlindSeat(r), BIG_BLIND)
  IN [posted EXCEPT !.at = FirstFrom(posted, Left(BigBlindSeat(r)))]

Line(verb, s, amount, to, allIn) ==
  [verb |-> verb, seat |-> s, amount |-> amount, to |-> to, all_in |-> allIn]

NoLine == Line("Fold", None, 0, 0, FALSE)

\* The lines the seat to act may produce.  A seat that has acted since the
\* last full raise may not raise, and nobody raises who cannot be answered.
Lines(r) ==
  LET s == r.at
      toCall == r.bet - r.contrib[s]
      all == r.contrib[s] + r.stack[s]
      call == Lesser(toCall, r.stack[s])
      mayRaise == Others(r, s) # {} /\ (~r.acted[s] \/ r.reopened[s])
      Sizes(low) == {m \in (r.bet + 1)..all : m >= low \/ m = all}
  IN (IF toCall = 0 THEN {Line("Check", s, 0, 0, FALSE)}
      ELSE {Line("Fold", s, 0, 0, FALSE), Line("Call", s, call, 0, call = r.stack[s])})
     \cup {Line(IF r.bet = 0 THEN "Bet" ELSE "Raise", s,
                m - r.bet, IF r.bet = 0 THEN 0 ELSE m, m = all)
             : m \in IF mayRaise THEN Sizes(r.bet + r.min) ELSE {}}

\* The real table after a line.
Played(r, l) ==
  LET s == l.seat
      n == CASE l.verb \in {"Call", "Bet"} -> l.amount
             [] l.verb = "Raise" -> l.to - r.contrib[s]
             [] OTHER -> 0
      paid == Put(r, s, n)
      raised == paid.contrib[s] > r.bet
      full == paid.contrib[s] - r.bet >= r.min
      after == [paid EXCEPT
        !.acted[s] = TRUE,
        !.folded[s] = l.verb = "Fold",
        !.bet = Greater(@, paid.contrib[s]),
        !.min = IF raised /\ full THEN paid.contrib[s] - r.bet ELSE @,
        !.reopened = [t \in Seat |-> t # s /\ (@[t] \/ (raised /\ full))],
        !.raiser = IF raised THEN s ELSE @,
        !.aggressor = IF raised /\ r.street = Preflop THEN s ELSE @,
        !.calledAllIn = @ \/ (l.verb = "Call" /\ l.all_in)]
  IN Settled([after EXCEPT !.at = FirstFrom(after, Left(s))])

\* The big blind was posted in full.
FullBlind == real.total[BigBlindSeat(real)] >= BIG_BLIND

-----------------------------------------------------------------------------
(***************************************************************************)
(* walk_hand.                                                              *)
(***************************************************************************)
\* The button: as declared, or the first seat that posts when it is not.
ButtonSlot(r, declared) == IF declared THEN r.button ELSE SmallBlindSeat(r)

\* The initial state of the engine: the blind posts folded into the stacks the
\* seats declare, a seat that is not listed eliminated.
StartWalk(r, declared) ==
  /\ stacks = r.stack
  /\ button = ButtonSlot(r, declared)
  /\ street = Preflop
  /\ board = 0
  /\ street_contrib = r.contrib
  /\ total_contrib = r.contrib
  /\ current_bet = HighestOf(r.contrib)
  /\ min_raise = BIG_BLIND
  /\ last_full_raise = None
  /\ acted = NoSeat
  /\ folded = NoSeat
  /\ all_in = [s \in Seat |-> r.contrib[s] > 0 /\ r.stack[s] = 0]
  /\ eliminated = [s \in Seat |-> ~r.seated[s]]
  /\ to_act = r.at
  /\ hand_over = FALSE
  /\ hand_result = NoResult
  /\ outcome = "Continue"

\* A hand whose lines end with the blinds has nothing to walk.
WalkInit ==
  \E stack \in [Seat -> SeatStacks], btn, seat \in Seat, declared \in BOOLEAN :
    /\ Cardinality({s \in Seat : stack[s] > 0}) >= 2
    /\ stack[btn] > 0 /\ stack[seat] > 0
    /\ real = Dealt(stack, btn)
    /\ real.at # None
    /\ StartWalk(real, declared)
    /\ walk = [at |-> "Read", line |-> NoLine, entered |-> FALSE,
               preflop_aggressor |-> None, flop_bettor |-> None]
    /\ hero = [seat |-> seat, invested |-> real.contrib[seat], late |-> FALSE]

\* Mutant: the actor of a new street is the engine's.
first_on_street_kept(l) == to_act

\* The first line of a street names its actor, whatever the engine's order.
first_on_street(l) == IF walk.entered THEN l.seat ELSE to_act

\* The next line is read.
ReadLine ==
  /\ walk.at = "Read"
  /\ real.at # None
  /\ \E l \in Lines(real) : walk' = [walk EXCEPT !.at = "Walk", !.line = l]
  /\ to_act' = first_on_street(walk'.line)
  /\ UNCHANGED <<stacks, button, street, board, betting, eliminated, hand_over,
                 hand_result, outcome, real, hero>>

Wrong == Plain("Wrong")

\* Mutant: a raise is converted with the amount it raises by.
convert_raise_by(l) ==
  CASE l.verb = "Fold" -> Plain("Fold")
    [] l.verb = "Check" -> Plain("Check")
    [] l.verb = "Call" -> IF l.all_in THEN Plain("AllIn") ELSE Plain("Call")
    [] l.all_in -> Plain("AllIn")
    [] OTHER -> Sized(IF to_call = 0 THEN "Bet" ELSE "Raise", l.amount)

\* convert_action.  The big blind's option is a raise in the text and a bet in
\* the engine; an all-in line is an all-in only if it takes the whole stack.
convert_action(l) ==
  LET stack == stacks[l.seat]
      commits == l.to - street_contrib[l.seat]
  IN CASE l.verb = "Fold" -> Plain("Fold")
       [] l.verb = "Check" -> IF to_call > 0 THEN Wrong ELSE Plain("Check")
       [] l.verb = "Call" ->
            IF l.all_in /\ l.amount >= stack THEN Plain("AllIn") ELSE Plain("Call")
       [] l.verb = "Bet" ->
            IF l.all_in /\ l.amount >= stack THEN Plain("AllIn") ELSE Sized("Bet", l.amount)
       [] OTHER ->
            IF l.all_in /\ commits >= stack THEN Plain("AllIn")
            ELSE Sized(IF call_amount = 0 THEN "Bet" ELSE "Raise", l.to)

\* The line is one the engine can follow.
Follows(l) ==
  LET played == convert_action(l)
  IN /\ ~hand_over
     /\ to_act = l.seat
     /\ played # Wrong
     /\ allows(played)
     /\ played.kind = "Call" => l.amount = call_amount

(***************************************************************************)
(* The context of a continuation bet: the last seat to bet, raise or go    *)
(* all in before the flop, and on it, as they were before the line.        *)
(***************************************************************************)
was_preflop_aggressor == walk.preflop_aggressor = walk.line.seat

\* Mutant: any bet on the flop is taken for the raiser's.
facing_flop_bet == street = Flop /\ walk.flop_bettor # None

facing_cbet ==
  /\ street = Flop
  /\ walk.flop_bettor # None
  /\ walk.flop_bettor = walk.preflop_aggressor

IsAggressive(a) == a.kind \in {"Bet", "Raise", "AllIn"}

Tracked(a) ==
  [walk EXCEPT
    !.preflop_aggressor = IF street = Preflop /\ IsAggressive(a) THEN walk.line.seat ELSE @,
    !.flop_bettor = IF street = Flop /\ IsAggressive(a) THEN walk.line.seat ELSE @,
    !.entered = FALSE]

\* Mutant: a raise commits all it raises to.
hero_commitment_to(l, invested) ==
  CASE l.verb \in {"Call", "Bet"} -> l.amount
    [] l.verb = "Raise" -> l.to
    [] OTHER -> 0

\* hero_commitment: a raise commits what is missing to the amount it goes to.
hero_commitment(l, invested) ==
  CASE l.verb \in {"Call", "Bet"} -> l.amount
    [] l.verb = "Raise" -> Greater(l.to - invested, 0)
    [] OTHER -> 0

\* parse_hand's share of the line.
CountHero ==
  hero' = IF walk.line.seat # hero.seat THEN hero
          ELSE [hero EXCEPT
                 !.invested = @ + hero_commitment(walk.line, @),
                 !.late = @ \/ (walk.line.verb = "Raise" /\ real.street # Preflop)]

\* The decision is frozen and the line applied.
WalkLine ==
  /\ walk.at = "Walk"
  /\ Follows(walk.line)
  /\ LET played == convert_action(walk.line)
     IN /\ apply_action(played)
        /\ walk' = [Tracked(played) EXCEPT
             !.at = IF outcome' = "StreetEnded" THEN "Settle" ELSE "Read"]
  /\ real' = Played(real, walk.line)
  /\ CountHero

\* The walk gives up, and the hand counts as failed.
RejectLine ==
  /\ walk.at = "Walk"
  /\ ~Follows(walk.line)
  /\ walk' = [walk EXCEPT !.at = "Rejected"]
  /\ UNCHANGED <<vars, real, hero>>

\* apply_settled: the next street, or the showdown, whoever wins it.
Settle ==
  /\ walk.at = "Settle"
  /\ \/ AdvanceStreet /\ walk' = [walk EXCEPT !.at = "Read", !.entered = TRUE]
     \/ showdown([s \in Seat |-> 1]) /\ walk' = [walk EXCEPT !.at = "Read"]
  /\ UNCHANGED <<real, hero>>

\* There are no more lines, or the walk gave up.
WalkEnds ==
  /\ walk.at = "Rejected" \/ (walk.at = "Read" /\ real.at = None)
  /\ UNCHANGED walkVars

-----------------------------------------------------------------------------
(***************************************************************************)
(* rotated: the acting seat in the hero's place, as the grader sees it.    *)
(***************************************************************************)
rotated(chips) == [s \in Seat |-> chips[(s + to_act) % 3]]
hero_rotated == (hero.seat + 3 - to_act) % 3

\* What a seat has to match at the real table, the actor's share taken off.
Owed(r, s) == Lesser(r.bet - r.contrib[s], r.stack[s])

\* The walk is about to freeze the decision of walk.line.
Freezing == walk.at = "Walk" /\ FullBlind /\ Follows(walk.line)

\* A hand whose big blind was posted in full is walked to its last line, and
\* every decision is frozen as the seat faced it: the chips behind and in the
\* pot, the price, who is out, and the actor and the hero at the places the
\* rotation gives them.  Otherwise the opponents would be graded on a
\* reconstruction they never sat at.
ReplayIsFaithful ==
  /\ FullBlind => walk.at # "Rejected"
  /\ Freezing =>
       /\ to_act = real.at
       /\ street = real.street
       /\ rotated(stacks)[0] = real.stack[real.at]
       /\ rotated(stacks)[hero_rotated] = real.stack[hero.seat]
       /\ \A s \in Seat : /\ stacks[s] = real.stack[s]
                          /\ total_contrib[s] = real.total[s]
                          /\ folded[s] = real.folded[s]
       /\ call_amount = Owed(real, real.at)

\* What the line answers at the real table, before the flop a raise of the big
\* blind, after it any bet.
RealNode ==
  [street |-> real.street,
   faced |-> IF real.street = Preflop THEN real.bet > BIG_BLIND ELSE real.bet > 0]

\* A decision is filed under the node the seat was at, heads-up never under
\* the third position, and, unless somebody called all in, which the walk takes
\* for a raise, under the aggressor context of that table: on the flop, whether
\* the actor leads as the last raiser before the flop or faces that raiser's
\* bet.
DecisionsAreFiledAsPlayed ==
  walk.at = "Walk" /\ FullBlind =>
    /\ decision_node = RealNode
    /\ decision_position = "THIRD" => active_seats = Seat
    /\ ~real.calledAllIn =>
         aggressor_context(decision_node, was_preflop_aggressor, facing_cbet) =
           IF real.street # Flop THEN "NOT_APPLICABLE"
           ELSE IF real.aggressor # None
                   /\ real.aggressor = IF RealNode.faced THEN real.raiser ELSE walk.line.seat
                THEN "AGGRESSOR" ELSE "NOT_AGGRESSOR"

\* What parse_hand counts as the hero's investment is what the hero put in,
\* as long as the hero never raised after the flop came: hero_commitment takes
\* the chips of the earlier streets off such a raise as well.
InvestedIsExact == ~hero.late => hero.invested = real.total[hero.seat]

=============================================================================
