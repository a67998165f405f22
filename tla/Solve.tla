-------------------------------- MODULE Solve --------------------------------
(***************************************************************************)
(* A solve of one decision, src/src/mcts/mod.rs, with what is decided by   *)
(* it: worlds are sampled, each is searched, their values are combined,    *)
(* and the action that was played is judged, by the solver's snapshot or,  *)
(* if it was not among the candidates, by a solve of its own.              *)
(*                                                                         *)
(* The tree of WorldSearch does not look at cards and is the same for      *)
(* every world, so it runs beside the rest: a behaviour is that of a tree, *)
(* or of a decision whose trees end with any values.                       *)
(***************************************************************************)
EXTENDS WorldSearch, Worlds

CONSTANTS
  Decisions,    \* the decisions that are solved: hero, board, eliminated, ranges, pins
  CandidateList,\* the actions the solver offers
  Played,       \* the actions that may be played
  Value,        \* the values of an action in a world: ev, variance, bust, visits
  Decks         \* the sets of cards the evaluator is checked on

\* The hand classes, and two cards that may be held.
Classes == {h \in [high : Rank, low : Rank, suited : BOOLEAN] :
              h.low <= h.high /\ (h.suited => h.low < h.high)}

Holding == {cards \in Card \X Card : cards[1] # cards[2]}

ASSUME DecisionsAssumption ==
  \A d \in Decisions :
    /\ d.board \subseteq Card
    /\ d.eliminated \subseteq Seats
    /\ \A s \in Seats : /\ DOMAIN d.ranges[s] \subseteq Classes
                        /\ \A h \in DOMAIN d.ranges[s] : d.ranges[s][h] \in Nat
    /\ \A s \in DOMAIN d.pins : s \in Seats /\ d.pins[s] \in Holding
    /\ d.perspective = "hero" =>
         0 \notin d.eliminated /\ d.hero \in Holding /\ ToSet(d.hero) \cap d.board = {}

VARIABLES
  stage,      \* "tree", "asked", "sampled", "solved", "again", "judged", "failed"
  decision,   \* the decision
  worlds,     \* the sampled worlds
  per_world,  \* what they reported
  played,     \* the action that was played
  verdict     \* its judgement

solveVars == <<stage, decision, worlds, per_world, played, verdict>>

NoDecision == [board |-> {}]

SolveInit ==
  /\ Init
  /\ \/ stage = "tree" /\ decision = NoDecision
     \/ stage = "asked" /\ phase = "Fresh" /\ decision \in Decisions
  /\ worlds = <<>>
  /\ per_world = <<>>
  /\ played = "none"
  /\ verdict = NoVerdict

\* What the two samplers draw from: the opponents' ranges with the hero's cards
\* as they are, or the ranges of all seats but those that are pinned.
DrawsFor(d) ==
  IF d.perspective = "hero"
  THEN draw_opponents(d.hero, d.board, d.eliminated, d.ranges)
  ELSE draw_seats(d.pins, d.board, d.eliminated, d.ranges)

\* sample and sample_with_pins, for two worlds.
Sample ==
  /\ stage = "asked"
  /\ LET draws == DrawsFor(decision)
         world(d) == [holes |-> d.holes, weight |-> d.weight,
                      runout |-> runout(d, decision.board, decision.eliminated)]
     IN \/ draws = {} /\ stage' = "failed" /\ UNCHANGED worlds
        \/ \E d, e \in draws : worlds' = <<world(d), world(e)>> /\ stage' = "sampled"
  /\ UNCHANGED <<decision, per_world, played, verdict>>

\* What a world may report of the actions it was searched for.  Only the values of
\* the candidates matter beyond one figure.
Reported_values(actions) ==
  {[i \in DOMAIN actions |-> [action |-> actions[i]] @@ v[i]] :
     v \in [DOMAIN actions ->
              IF Len(actions) = Len(CandidateList) THEN Value
              ELSE {u \in Value : u.bust = 0 /\ u.variance = 0}]}

\* search_worlds.  The cards are not looked at again.
SearchWorlds ==
  /\ stage \in {"sampled", "again"}
  /\ LET weights == IF stage = "again" THEN <<1, 2>> ELSE
                    Relative([i \in DOMAIN worlds |-> worlds[i].weight])
         actions == IF stage = "again" THEN root_candidates(CandidateList, played)
                    ELSE CandidateList
     IN \E v, w \in Reported_values(actions) :
          per_world' = <<[weight |-> weights[1], values |-> v],
                         [weight |-> weights[2], values |-> w]>>
  /\ stage' = "solved"
  /\ decision' = NoDecision
  /\ worlds' = <<>>
  /\ UNCHANGED <<played, verdict>>

\* The submission: by the snapshot, or by a solve that includes it.
Judge ==
  /\ stage = "solved"
  /\ played' \in IF played = "none" THEN Played ELSE {played}
  /\ LET judged == analyze_snapshot(finish_solve(per_world), played') IN
     \/ judged # NoVerdict /\ verdict' = judged /\ stage' = "judged" /\ UNCHANGED per_world
     \/ judged = NoVerdict /\ stage' = "again" /\ per_world' = <<>> /\ UNCHANGED verdict
  /\ UNCHANGED <<decision, worlds>>

SolveNext ==
  \/ Sample /\ UNCHANGED vars
  \/ SearchWorlds /\ UNCHANGED vars
  \/ Judge /\ UNCHANGED vars
  \/ stage = "tree" /\ Next /\ UNCHANGED solveVars

SolveSpec == SolveInit /\ [][SolveNext]_<<vars, solveVars>>

-----------------------------------------------------------------------------
(***************************************************************************)
(* Properties.                                                             *)
(***************************************************************************)
\* The rules of poker for five cards: the class by how often its ranks occur, and
\* the ranks that decide, the more frequent ones first.
RuledValue(five) ==
  LET count(r) == Cardinality({c \in five : rank(c) = r})
      ranks == {rank(c) : c \in five}
      named == SetToSortSeq(ranks, LAMBDA a, b : 16 * count(a) + a > 16 * count(b) + b)
      shape == [i \in DOMAIN named |-> count(named[i])]
      flush == Cardinality({suit(c) : c \in five}) = 1
      straight == Cardinality(ranks) = 5 /\ (Max(ranks) - Min(ranks) = 4 \/ ranks = WHEEL)
      top == IF ranks = WHEEL THEN 3 ELSE Max(ranks)
  IN CASE straight /\ flush      -> pack(8, <<top>>)
       [] straight /\ ~flush     -> pack(4, <<top>>)
       [] flush /\ ~straight     -> pack(5, named)
       [] shape = <<4, 1>>       -> pack(7, named)
       [] shape = <<3, 2>>       -> pack(6, named)
       [] shape = <<3, 1, 1>>    -> pack(3, named)
       [] shape = <<2, 2, 1>>    -> pack(2, named)
       [] shape = <<2, 1, 1, 1>> -> pack(1, named)
       [] OTHER                  -> pack(0, named)

\* A hand is worth the best five of its cards, for five to seven of them.
EvaluatorFollowsTheRules ==
  \A deck \in Decks : \A n \in 5 .. 7 : \A cards \in kSubset(n, deck) :
    evaluate(cards) = Max({RuledValue(five) : five \in kSubset(5, cards)})

\* Every two cards are a holding of one class, and of no other: a range gives no
\* holding a weight twice, and none is forgotten (hands.rs:106-116).
EveryHoldingHasOneClass ==
  /\ \A i \in 0 .. HAND_COUNT - 1 :
       LET hand == from_index(i) IN
       /\ index(hand) = i
       /\ chen_prior[i] > 0
       /\ Cardinality({ToSet(c) : c \in combos_of(hand)}) = combos(hand)
       /\ \A c \in combos_of(hand) : from_cards(c[1], c[2]) = hand /\ from_cards(c[2], c[1]) = hand
  /\ MapThenSumSet(LAMBDA i : combos(from_index(i)), 0 .. HAND_COUNT - 1) * 2
       = Cardinality(Card) * (Cardinality(Card) - 1)

\* The draws of a seat have the whole of its range between them.
DrawsAreWeighed ==
  stage = "asked" =>
    \A s \in DOMAIN decision.ranges :
      LET draws == draw_holding(decision.ranges[s], decision.board)
      IN \A d \in draws : d.prob.den = MapThenSumSet(LAMBDA e : e.prob.num, draws)

\* No world holds a card twice or loses one: the hands of the seats that play, the
\* board and what is still dealt are the whole deck.  What is known is kept
\* (world.rs:98-103), a seat that is out has no cards, and no
\* world is drawn that could not be.
WorldsAreDealable ==
  \A w \in ToSet(worlds) :
    LET playing == Seats \ decision.eliminated
        held == UNION {ToSet(w.holes[s]) : s \in playing}
    IN /\ Cardinality(held \cup decision.board)
            = 2 * Cardinality(playing) + Cardinality(decision.board)
       /\ w.runout = Card \ (held \cup decision.board)
       /\ w.weight.num > 0
       /\ \A s \in decision.eliminated : w.holes[s] = Nothing
       /\ IF decision.perspective = "hero" THEN w.holes[0] = decision.hero
          ELSE \A s \in DOMAIN decision.pins \ decision.eliminated : w.holes[s] = decision.pins[s]

\* Playouts play for what a hand would win here: what one seat is ahead of another
\* by, that one is behind by, and a tie is half for each (rollout.rs:102-106).
PlayoutsAreEven ==
  \A w \in ToSet(worlds) : \A s, t \in Seats \ decision.eliminated :
    LET strength(a, b) == relative_strength(w.holes[a], {w.holes[b]}, decision.board) IN
    /\ s # t => strength(s, t) + strength(t, s) = 40
    /\ tier_for(w.holes[s], decision.board) \in 0 .. 40

\* What was played is judged by what the worlds reported: the value of an action is
\* an average of theirs, its variance includes what they differ by, the optimal
\* action is one that nothing beats, and a loss is reported exactly for what
\* something beats.
VerdictsAreRanked ==
  stage = "judged" =>
    LET total == Summed(per_world, LAMBDA w : w.weight)
        ranked == ToSet(verdict.ranking)
        reports(a) == {u \in UNION {ToSet(w.values) : w \in ToSet(per_world)} : u.action = a.action}
        within(a) == Summed(per_world, LAMBDA w :
                       w.weight * Summed(w.values, LAMBDA u :
                         IF u.action = a.action THEN u.variance ELSE 0))
    IN /\ {a.action : a \in ranked} = {u.action : u \in ToSet(per_world[1].values)}
       /\ Cardinality(ranked) = Len(per_world[1].values)
       /\ \A a \in ranked :
            /\ a.ev \in total * Min({u.ev : u \in reports(a)}) .. total * Max({u.ev : u \in reports(a)})
            /\ a.variance >= total * within(a)
            /\ a.ev <= verdict.optimal.ev
            /\ a.ev = verdict.optimal.ev => a.bust >= verdict.optimal.bust
       /\ verdict.played.action = played
       /\ verdict.ev_loss = verdict.optimal.ev - verdict.played.ev
       /\ verdict.ev_loss > 0 <=> \E a \in ranked : a.ev > verdict.played.ev
       /\ verdict.is_optimal => verdict.ev_loss = 0

\* A solve is right at both of its ends, whatever its trees find.
SolvesAreSound ==
  /\ EvaluatorFollowsTheRules
  /\ EveryHoldingHasOneClass
  /\ DrawsAreWeighed
  /\ WorldsAreDealable
  /\ PlayoutsAreEven
  /\ VerdictsAreRanked

\* What is reported has something behind it, and a fair share of the search.
EveryCandidateHasItsShare == EveryCandidateIsValued /\ RootIsBalanced

=============================================================================
