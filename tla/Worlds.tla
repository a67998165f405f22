-------------------------------- MODULE Worlds --------------------------------
(***************************************************************************)
(* What goes into a solve and what comes out of it, beside the tree of     *)
(* WorldSearch: the hands the opponents may hold (src/src/mcts/world.rs),  *)
(* the combination of the worlds' values (src/src/mcts/mod.rs) and the     *)
(* judgement of what was played (src/src/decision/mod.rs).                 *)
(*                                                                         *)
(* Seat 0 is the hero, or the seat that was rotated into its place.  A     *)
(* range gives every hand class a weight; classes left out weigh nothing.  *)
(* Probabilities are kept as fractions, values as whole chips.             *)
(***************************************************************************)
EXTENDS Evaluator

Seats == 0 .. 2
Opponents == {1, 2}

\* The holding of a seat that is out: never dealt, and never dead.
Nothing == <<Placeholder, Placeholder>>

Times(a, b) == [num |-> a.num * b.num, den |-> a.den * b.den]
One == [num |-> 1, den |-> 1]

(***************************************************************************)
(* WorldSampler.                                                           *)
(***************************************************************************)
live_combos(hand, dead) == {c \in combos_of(hand) : ToSet(c) \cap dead = {}}

\* The holdings that may be drawn, each with the probability of the draw: a
\* class by its weight times its live combos, and one of these combos.
draw_holding(range, dead) ==
  LET live == [h \in DOMAIN range |-> live_combos(h, dead)]
      total == MapThenSumSet(LAMBDA h : range[h] * Cardinality(live[h]), DOMAIN range)
  IN UNION {{[combo |-> c, prob |-> [num |-> range[h], den |-> total]] : c \in live[h]} :
              h \in {g \in DOMAIN range : range[g] > 0}}

\* The draws of a seat, from what the others left.
Drawn(so_far, seat, range) ==
  UNION {{[holes |-> [d.holes EXCEPT ![seat] = new.combo],
           dead  |-> d.dead \cup ToSet(new.combo),
           weight |-> Times(d.weight, new.prob)] :
            new \in draw_holding(range, d.dead)} : d \in so_far}

\* A draw for each of some seats, one after the other; the empty set is a solver
\* error: some seat is left without a hand.
Draws(seats, ranges, hands, dead) ==
  LET draw(so_far, seat) == IF seat \in seats THEN Drawn(so_far, seat, ranges[seat]) ELSE so_far
  IN draw(draw(draw({[holes |-> hands, dead |-> dead, weight |-> One]}, 0), 1), 2)

draw_opponents(hero, board, eliminated, ranges) ==
  Draws(Opponents \ eliminated, ranges,
        [s \in Seats |-> IF s = 0 THEN hero ELSE Nothing], ToSet(hero) \cup board)

\* Mutant: pins are placed when it is their seat's turn.
draw_seats_in_order(pins, board, eliminated, ranges) ==
  LET pinned == DOMAIN pins \ eliminated
      hands == [s \in Seats |-> IF s \in pinned THEN pins[s] ELSE Nothing]
  IN Draws(Seats \ (eliminated \cup pinned), ranges, hands, board)

\* Pins first, so that no draw can take their cards.
draw_seats(pins, board, eliminated, ranges) ==
  LET pinned == DOMAIN pins \ eliminated
      hands == [s \in Seats |-> IF s \in pinned THEN pins[s] ELSE Nothing]
      dead == board \cup UNION {ToSet(pins[s]) : s \in pinned}
      clash == Cardinality(dead) < Cardinality(board) + 2 * Cardinality(pinned)
  IN IF clash THEN {}
     ELSE Draws(Seats \ (eliminated \cup pinned), ranges, hands, dead)

\* The cards a world deals from, in an order of its own.
runout(draw, board, eliminated) ==
  Card \ (board \cup UNION {ToSet(draw.holes[s]) : s \in Seats \ eliminated})

(***************************************************************************)
(* combine_world_values and finish_solve.                                  *)
(***************************************************************************)
\* The weights of a sample over one denominator.
Relative(worlds) ==
  [i \in DOMAIN worlds |->
     FoldSeq(LAMBDA w, v : v * w.den, worlds[i].num, RemoveAt(worlds, i))]

Summed(seq, op(_)) == FoldSeq(LAMBDA v, s : s + op(v), 0, seq)

\* per_world is a sequence of [weight, values]; a value is one of an action: what
\* a solve says of it.  Second moments are what is averaged.  All results
\* are times the weights' sum, variances times its square.
combine_world_values(per_world) ==
  LET total == Summed(per_world, LAMBDA w : w.weight)
      actions == [i \in DOMAIN per_world[1].values |-> per_world[1].values[i].action]
  IN [i \in DOMAIN actions |->
        LET mean == Summed(per_world, LAMBDA w : w.weight * w.values[i].ev)
            second == Summed(per_world, LAMBDA w :
                        w.weight * (w.values[i].variance + w.values[i].ev * w.values[i].ev))
        IN [action   |-> actions[i],
            ev       |-> mean,
            variance |-> Max({0, total * second - mean * mean}),
            bust     |-> Summed(per_world, LAMBDA w : w.weight * w.values[i].bust),
            visits   |-> Summed(per_world, LAMBDA w : w.values[i].visits)]]

\* Best first; equal ones stay in the order of the candidates (a stable sort).
Sorted(analyses, before(_, _)) ==
  LET order == SetToSortSeq(DOMAIN analyses, LAMBDA i, j :
                 \/ before(analyses[i], analyses[j])
                 \/ ~before(analyses[j], analyses[i]) /\ i < j)
  IN [i \in DOMAIN order |-> analyses[order[i]]]

finish_solve(per_world) ==
  Sorted(combine_world_values(per_world), LAMBDA a, b : a.ev > b.ev)

(***************************************************************************)
(* analyze and analyze_snapshot.                                           *)
(***************************************************************************)
rank_desc(a, b) ==
  \/ a.ev > b.ev
  \/ a.ev = b.ev /\ a.bust < b.bust
  \/ a.ev = b.ev /\ a.bust = b.bust /\ a.variance < b.variance

NoVerdict == [ranking |-> <<>>]

\* The judgement of a played action; NoVerdict is an error: it was not solved.
analyze_snapshot(solved, played) ==
  LET ranking == Sorted(solved, rank_desc)
      found == SelectSeq(ranking, LAMBDA a : a.action = played)
  IN IF found = <<>> THEN NoVerdict
     ELSE [ranking |-> ranking, optimal |-> ranking[1], played |-> found[1],
           ev_loss |-> Max({0, ranking[1].ev - found[1].ev}),
           is_optimal |-> played = ranking[1].action]

\* analyze adds what was played to the candidates and solves them all.
root_candidates(candidates, played) ==
  IF played \in ToSet(candidates) THEN candidates ELSE Append(candidates, played)

=============================================================================
