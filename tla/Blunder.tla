------------------------------- MODULE Blunder -------------------------------
(***************************************************************************)
(* The blunder tracker of src/src/blunder.rs: the rolling history of the   *)
(* hero's losses from which a table decides whether to hold a decision for *)
(* review.  The losses live in the table; what a reconnect or a new        *)
(* tournament starts from is read back from the decisions stored in        *)
(* hero_decisions.                                                         *)
(*                                                                         *)
(* A loss is a whole number and the arithmetic is exact.  A decision that  *)
(* counts is stored at once: what crashes and failed statements do to it   *)
(* is in LiveTable.                                                        *)
(***************************************************************************)
EXTENDS Integers, Sequences, SequencesExt

CONSTANTS
  target_hands,    \* BlunderConfig
  history_actions,
  history_hands,
  Loss,            \* what a decision may lose
  MaxSessions,     \* bound: tournaments
  MaxHands,        \* bound: hands of a tournament
  MaxDecisions     \* bound: decisions of the hero

\* BlunderConfig::validate.
ASSUME BlunderAssumption ==
  /\ target_hands \in Nat \ {0}
  /\ {history_actions, history_hands} \subseteq Nat \ {0, 1}
  /\ Loss \subseteq Nat

VARIABLES
  tracker,   \* Tracker: losses, actions per hand, actions of this hand
  playing,   \* the tournament and its hand
  held,      \* the loss under review, or None
  decisions  \* hero_decisions: the hand and the loss of each, oldest first

trackerVars == <<tracker, playing, held, decisions>>

None == -1

Hand(session, number) == [session |-> session, number |-> number]
NoHand == Hand(0, 0)

(***************************************************************************)
(* The tracker.                                                            *)
(***************************************************************************)
NewTracker == [losses |-> <<>>, hand_actions |-> <<>>, current |-> 0]

\* The last n of a sequence.
Recent(seq, n) == IF Len(seq) <= n THEN seq ELSE SubSeq(seq, Len(seq) - n + 1, Len(seq))

record_action(t, loss) ==
  [t EXCEPT !.losses = Recent(Append(@, loss), history_actions), !.current = @ + 1]

end_hand(t) ==
  [t EXCEPT !.hand_actions = Recent(Append(@, t.current), history_hands), !.current = 0]

\* Mutant: the query is ordered from the first decision on.
load_recent_losses_oldest(stored) ==
  SubSeq(stored, 1, IF Len(stored) < history_actions THEN Len(stored) ELSE history_actions)

\* load_recent_losses.
load_recent_losses(stored) == Recent(stored, history_actions)

\* hydrate: a hand ends where the next decision is of another one, and after
\* the last decision, though the hand may go on.
hydrate(t, history) ==
  LET Replay(u, d) ==
        [hand |-> d.hand,
         tracker |-> record_action(IF u.hand \in {NoHand, d.hand} THEN u.tracker
                                   ELSE end_hand(u.tracker), d.loss)]
  IN IF history = <<>> THEN t
     ELSE end_hand(FoldLeft(Replay, [hand |-> NoHand, tracker |-> t], history).tracker)

Total(seq) == FoldLeft(LAMBDA a, b : a + b, 0, seq)

\* trigger_ratio: one decision in target_hands hands of actions_per_hand
\* decisions, at most every second one and at least every hundredth.
trigger_ratio(t) ==
  LET hands == Len(t.hand_actions)
      actions == Total(t.hand_actions) + (IF t.current > 0 THEN 1 ELSE 0)
      num == IF hands = 0 THEN 1 ELSE hands
      den == target_hands * (IF actions < num \/ hands = 0 THEN num ELSE actions)
  IN CASE 2 * num > den -> [num |-> 1, den |-> 2]
       [] 100 * num < den -> [num |-> 1, den |-> 100]
       [] OTHER -> [num |-> num, den |-> den]

\* The k-th largest loss counts as a blunder, k = ceil(p * n).
trigger_rank(t) ==
  LET p == trigger_ratio(t)
  IN (Len(t.losses) * p.num + p.den - 1) \div p.den

\* Mutant: the losses are sorted the wrong way.
kth_largest_reversed(losses, k) ==
  Min({x \in ToSet(losses) : Cardinality({i \in DOMAIN losses : losses[i] <= x}) >= k})

\* The largest loss that k of them reach.
kth_largest(losses, k) ==
  Max({x \in ToSet(losses) : Cardinality({i \in DOMAIN losses : losses[i] >= x}) >= k})

should_intercept(t, loss) ==
  /\ loss > 0
  /\ t.losses # <<>>
  /\ loss >= kth_largest(t.losses, trigger_rank(t))

(***************************************************************************)
(* The table.                                                              *)
(***************************************************************************)
TrackerInit ==
  /\ tracker = NewTracker
  /\ playing = Hand(1, 0)
  /\ held = None
  /\ decisions = <<>>

insert_decision(stored, loss) == Append(stored, [hand |-> playing, loss |-> loss])

Stored(loss) == decisions' = insert_decision(decisions, loss)

\* deal_next_hand ends the hand before, if there is one.
EndHand ==
  /\ held = None
  /\ playing.number < MaxHands
  /\ playing' = [playing EXCEPT !.number = @ + 1]
  /\ tracker' = IF playing.number = 0 THEN tracker ELSE end_hand(tracker)
  /\ UNCHANGED <<held, decisions>>

\* finish_submission: the loss is judged by the history before it.  It is held
\* or stored.
Decide ==
  /\ playing.number > 0
  /\ held = None
  /\ Len(decisions) < MaxDecisions
  /\ \E loss \in Loss :
       /\ tracker' = record_action(tracker, loss)
       /\ \/ /\ should_intercept(tracker, loss)
             /\ held' = loss
             /\ UNCHANGED decisions
          \/ /\ ~should_intercept(tracker, loss)
             /\ Stored(loss)
             /\ UNCHANGED held
  /\ UNCHANGED playing

\* confirm_review: the held decision is stored.
ConfirmReview ==
  /\ held # None
  /\ Stored(held)
  /\ held' = None
  /\ UNCHANGED <<tracker, playing>>

\* hydrate_blunder: a table that is resumed, or new, starts from the decisions
\* that are stored, and without a review.
Hydrate ==
  /\ tracker' = hydrate(NewTracker, load_recent_losses(decisions))
  /\ held' = None
  /\ UNCHANGED decisions

\* A tournament ends and another one begins.
NewTournament ==
  /\ playing.session < MaxSessions
  /\ playing.number > 0
  /\ playing' = Hand(playing.session + 1, 0)
  /\ Hydrate

-----------------------------------------------------------------------------
\* What the table knows of the hero is what is stored, and the loss under
\* review, for any order of reviews, reconnects and tournaments: the losses are
\* the latest ones, and no decision counts for two hands.  Until the window of
\* hands overflows none of these losses is missing from the hands.
TrackerMatchesTheRecord ==
  LET known == [i \in DOMAIN decisions |-> decisions[i].loss]
                 \o (IF held = None THEN <<>> ELSE <<held>>)
      counted == Total(tracker.hand_actions) + tracker.current
  IN /\ tracker.losses = Recent(known, history_actions)
     /\ counted <= Len(known)
     /\ Len(tracker.hand_actions) < history_hands => counted >= Len(tracker.losses)

\* A review is asked only for a decision among the worse half of the latest
\* ones, and never for the first one there is to compare with nothing.
OnlyTheWorseHalfIsHeld ==
  held # None =>
    LET Worse == {i \in DOMAIN tracker.losses : tracker.losses[i] > held}
    IN /\ held > 0
       /\ Len(tracker.losses) > 1
       /\ 2 * Cardinality(Worse) < Len(tracker.losses)

\* The tracker knows what is stored, and holds back only what is worth it, after
\* any order of reviews, reconnects and tournaments.
TrackerIsSound == TrackerMatchesTheRecord /\ OnlyTheWorseHalfIsHeld

=============================================================================
