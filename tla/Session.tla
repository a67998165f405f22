------------------------------- MODULE Session -------------------------------
(***************************************************************************)
(* The table session of src/src/server/session.rs: it plays one tournament *)
(* on the engine, taking the hero's submissions, holding blunders back for *)
(* review, playing the opponents, and folding for a hero who asked for     *)
(* check-fold.                                                             *)
(*                                                                         *)
(* A call into the session (a submission, a review confirmation, a deal)   *)
(* runs to its end before the next one begins.  `call` names the one that  *)
(* runs; its first step is an action of its own, and the loop of pump is   *)
(* played one seat at a time by the steps after it.                        *)
(*                                                                         *)
(* The solver is abstract: it may judge any action a blunder and prefer    *)
(* any other legal one.  That what it scored is the decision on the table  *)
(* is the business of the socket, not of the session.                      *)
(***************************************************************************)
EXTENDS GameState

CONSTANT MaxHands \* bound: no more hands are dealt than this

ASSUME MaxHandsAssumption == MaxHands \in Nat \ {0}

NoStreet == 4 \* Option::None where a street is optional

VARIABLES
  hand_no,              \* hands dealt
  pending,              \* the interception under review: at most one element,
                        \* the action held back and the coach's optimal one
  check_fold_requested, \* the submission being made is a check-fold
  pending_check_fold,   \* street whose next decision folds to a bet, or NoStreet
  unrecorded,           \* submissions accepted and not queued as records, since
                        \* the client connected: action_no less the records
  hand_results,         \* hand results queued since the client connected
  hud,                  \* the opponents' counters: hands entered and raised
  call                  \* "None", "Submission" or "Deal": the call that runs

sessionOwn == <<hand_no, pending, check_fold_requested,
                pending_check_fold, unrecorded, hand_results, hud, call>>

sessionVars == <<vars, sessionOwn>>

Idle == call = "None"

(***************************************************************************)
(* tournament_result: over once one seat has all the chips, or the hero    *)
(* has none; then the opponent with more chips has won.                    *)
(***************************************************************************)
tournament_winner ==
  IF Cardinality(active_seats) = 1 THEN CHOOSE s \in Seat : ~eliminated[s] ELSE None

chip_leader == IF stacks[Opponent2] > stacks[Opponent1] THEN Opponent2 ELSE Opponent1

\* Mutant: the opponents play on without the hero.
tournament_result_played_out == tournament_winner

tournament_result ==
  IF tournament_winner # None THEN tournament_winner
  ELSE IF eliminated[Hero] THEN chip_leader
  ELSE None

(***************************************************************************)
(* OpponentTracker.  Its hands are hand_no: begin_hand adds one for both   *)
(* seats, busted or not.  The flags count a seat once per hand.            *)
(***************************************************************************)
Opponents == {Opponent1, Opponent2}

Uncounted == [s \in Opponents |-> 0]

begin_hand == hud' = [hud EXCEPT !.vpip_seen = {}, !.pfr_seen = {}]

\* record, before the action is applied.  The option of the big blind is a
\* bet in the engine and counts for nothing.
record(s, a) ==
  LET enters == street = Preflop /\ a.kind \in {"Call", "Raise", "AllIn"}
                /\ s \notin hud.vpip_seen
      raises == street = Preflop /\ s \notin hud.pfr_seen
                /\ (a.kind = "Raise" \/ (a.kind = "AllIn" /\ call_amount = 0))
  IN hud' = [vpip |-> [hud.vpip EXCEPT ![s] = IF enters THEN @ + 1 ELSE @],
             pfr |-> [hud.pfr EXCEPT ![s] = IF raises THEN @ + 1 ELSE @],
             vpip_seen |-> IF enters THEN hud.vpip_seen \cup {s} ELSE hud.vpip_seen,
             pfr_seen |-> IF raises THEN hud.pfr_seen \cup {s} ELSE hud.pfr_seen]

(***************************************************************************)
(* Steps shared by the calls.                                              *)
(***************************************************************************)
\* validate_action: the hand is live, it is the hero's turn, and the action
\* is legal.
accepts(a) ==
  /\ outcome = "Continue"
  /\ to_act = Hero
  /\ allows(a)

\* log_hand_result, which every step that can end the hand calls when it did.
log_hand_result ==
  hand_results' = IF hand_over' THEN hand_results + 1 ELSE hand_results

\* should_intercept fires: only an action that loses against another one.
\* Nothing moves on the table.
intercept(a) ==
  /\ \E optimal \in Action \ {a} :
       allows(optimal) /\ pending' = {[action |-> a, optimal |-> optimal]}
  /\ unrecorded' = unrecorded + 1
  /\ UNCHANGED <<vars, hand_results>>

\* apply_submission up to its pump: the action is settled, and a check of a
\* check-fold arms the auto-fold for this street.
apply_submission(a, wanted, armed) ==
  /\ apply_action(a)
  /\ log_hand_result
  /\ check_fold_requested' = FALSE
  /\ pending_check_fold' = IF a = Plain("Check") /\ wanted THEN street ELSE armed

(***************************************************************************)
(* Calls.                                                                  *)
(***************************************************************************)
SessionInit ==
  /\ Init
  /\ hand_no = 0
  /\ pending = {}
  /\ check_fold_requested = FALSE
  /\ pending_check_fold = NoStreet
  /\ unrecorded = 0
  /\ hand_results = 0
  /\ hud = [vpip |-> Uncounted, pfr |-> Uncounted, vpip_seen |-> {}, pfr_seen |-> {}]
  /\ call = "None"

\* bootstrap and advance_after_result: deal a hand, then pump.
DealNextHand ==
  /\ Idle
  /\ hand_no < MaxHands
  /\ tournament_result = None
  /\ IF hand_no = 0 THEN FirstHand ELSE NextHand
  /\ hand_no' = hand_no + 1
  /\ begin_hand
  /\ call' = "Deal"
  /\ UNCHANGED <<pending, check_fold_requested, pending_check_fold,
                 unrecorded, hand_results>>

\* submit and submit_check_fold (wanted): the action is held back, or
\* recorded and applied.
Submit(a, wanted) ==
  LET requested == wanted \/ check_fold_requested IN
  /\ Idle
  /\ accepts(a)
  /\ pending = {}
  /\ UNCHANGED <<hand_no, hud>>
  /\ \/ /\ intercept(a)
        /\ check_fold_requested' = requested
        /\ UNCHANGED <<pending_check_fold, call>>
     \/ /\ apply_submission(a, requested, pending_check_fold)
        /\ call' = "Submission"
        /\ UNCHANGED <<pending, unrecorded>>

HeroSubmits == \E a \in Action : Submit(a, FALSE)

HeroCheckFolds == Submit(Plain("Check"), TRUE)

\* submit_check_fold refused because a review is pending.
RejectedCheckFold ==
  /\ Idle
  /\ pending # {}
  /\ check_fold_requested' = FALSE
  /\ UNCHANGED <<vars, hand_no, pending, pending_check_fold, unrecorded,
                 hand_results, hud, call>>

\* Mutant: the decision is taken for recorded when it was intercepted.
confirm_review_unrecorded(held) ==
  /\ apply_submission(held.optimal, check_fold_requested, pending_check_fold)
  /\ UNCHANGED unrecorded

\* confirm_review: the blunder is recorded, the optimal action applied.
confirm_review(held) ==
  /\ apply_submission(held.optimal, check_fold_requested, pending_check_fold)
  /\ unrecorded' = unrecorded - 1

ConfirmReview ==
  /\ Idle
  /\ \E held \in pending : confirm_review(held)
  /\ pending' = {}
  /\ call' = "Submission"
  /\ UNCHANGED <<hand_no, hud>>

(***************************************************************************)
(* pump: plays the opponents until the hero must act or the hand is over.  *)
(***************************************************************************)
\* settle_action: one opponent's action.
OpponentActs ==
  /\ ~Idle
  /\ to_act # Hero
  /\ \E a \in Action : record(to_act, a) /\ apply_action(a)
  /\ log_hand_result
  /\ UNCHANGED <<hand_no, pending, check_fold_requested,
                 pending_check_fold, unrecorded, call>>

\* settle_action: the street or the showdown that the last action brought on.
SettleStreet ==
  /\ ~Idle
  /\ AdvanceStreet \/ Showdown
  /\ log_hand_result
  /\ UNCHANGED <<hand_no, pending, check_fold_requested,
                 pending_check_fold, unrecorded, hud, call>>

AutoFoldDue ==
  /\ outcome = "Continue"
  /\ to_act = Hero
  /\ pending_check_fold = street
  /\ call_amount > 0

\* The hero's check-fold folds to a bet: a submission within the pump.
AutoFold ==
  /\ ~Idle
  /\ AutoFoldDue
  /\ pending = {}
  /\ UNCHANGED <<hand_no, hud>>
  /\ \/ /\ intercept(Plain("Fold"))
        /\ pending_check_fold' = NoStreet
        /\ call' = "None"
        /\ UNCHANGED check_fold_requested
     \/ /\ apply_submission(Plain("Fold"), check_fold_requested, NoStreet)
        /\ UNCHANGED <<pending, unrecorded, call>>

\* Mutant: the pump stops as soon as the hero has folded.
PumpIsDone_hero_out == outcome = "HandEnded" \/ folded[Hero] \/ to_act = Hero

PumpIsDone ==
  \/ outcome = "HandEnded"
  \/ outcome = "Continue" /\ to_act = Hero /\ ~AutoFoldDue

PumpReturns ==
  /\ ~Idle
  /\ PumpIsDone
  /\ call' = "None"
  /\ UNCHANGED <<vars, hand_no, pending, check_fold_requested,
                 pending_check_fold, unrecorded, hand_results, hud>>

Pump == OpponentActs \/ SettleStreet \/ AutoFold \/ PumpReturns

(***************************************************************************)
(* The client disconnects and resumes on the snapshot saved.               *)
(***************************************************************************)
\* GameState::to_snapshot: everything but what the last call returned.
state_snapshot ==
  [stacks |-> stacks, button |-> button, street |-> street, board |-> board,
   street_contrib |-> street_contrib, total_contrib |-> total_contrib,
   current_bet |-> current_bet, min_raise |-> min_raise,
   last_full_raise |-> last_full_raise, acted |-> acted, folded |-> folded,
   all_in |-> all_in, eliminated |-> eliminated, to_act |-> to_act,
   hand_over |-> hand_over, hand_result |-> hand_result]

to_snapshot == [state |-> state_snapshot, hand_no |-> hand_no, opponents |-> hud]

\* GameState::from_snapshot.  Every call had returned, so a hand that is not
\* over waits for an action.
restore_state(s) ==
  /\ stacks' = s.stacks /\ button' = s.button /\ street' = s.street /\ board' = s.board
  /\ street_contrib' = s.street_contrib /\ total_contrib' = s.total_contrib
  /\ current_bet' = s.current_bet /\ min_raise' = s.min_raise
  /\ last_full_raise' = s.last_full_raise /\ acted' = s.acted /\ folded' = s.folded
  /\ all_in' = s.all_in /\ eliminated' = s.eliminated /\ to_act' = s.to_act
  /\ hand_over' = s.hand_over /\ hand_result' = s.hand_result
  /\ outcome' = IF s.hand_over THEN "HandEnded" ELSE "Continue"

\* reconstruct_hand_result: the seat that won by a fold is the first seat
\* awarded anything, and there must be one.
can_reconstruct(result) ==
  result.reason = "Fold" => \E s \in Seat : result.awards[s] > 0

\* A decision under review is lost: it is neither recorded nor played.
from_snapshot(s) ==
  /\ can_reconstruct(s.state.hand_result)
  /\ restore_state(s.state)
  /\ hand_no' = s.hand_no
  /\ hud' = s.opponents
  /\ pending' = {}
  /\ check_fold_requested' = FALSE
  /\ pending_check_fold' = NoStreet
  /\ unrecorded' = 0
  /\ hand_results' = 0

Resume ==
  /\ Idle
  /\ hand_no > 0
  /\ from_snapshot(to_snapshot)
  /\ UNCHANGED call

\* The table closes with the tournament, or the bound on hands is reached.
SessionOver ==
  /\ Idle
  /\ hand_over
  /\ tournament_result # None \/ hand_no = MaxHands
  /\ UNCHANGED sessionVars

SessionNext ==
  \/ DealNextHand
  \/ HeroSubmits
  \/ HeroCheckFolds
  \/ RejectedCheckFold
  \/ ConfirmReview
  \/ Pump
  \/ Resume
  \/ SessionOver

\* A call runs to its end in its task; nothing obliges the hero to submit.
SessionSpec ==
  /\ SessionInit
  /\ [][SessionNext]_sessionVars
  /\ WF_sessionVars(Pump)

-----------------------------------------------------------------------------
(***************************************************************************)
(* Properties.                                                             *)
(***************************************************************************)
\* Between calls the table waits for the hero, who can act, or shows a
\* finished hand: pump never leaves an opponent on turn, an unsettled street,
\* or a hero who is all in or folded but asked to act.  A blunder held back can
\* still be played then, and so can the action that is to replace it: nothing
\* moves the table until the review is confirmed.  And the table can be resumed
\* from there: a hand that ended by a fold awards chips to its winner
\* (snapshot.rs, reconstruct_hand_result), so it is not all returned as uncalled.
AtRestTheHeroDecides ==
  /\ Idle /\ hand_no > 0 =>
       \/ hand_over
       \/ outcome = "Continue" /\ to_act = Hero /\ Hero \in AbleToBet(folded, all_in)
  /\ \A held \in pending :
       /\ accepts(held.action)
       /\ accepts(held.optimal)
       /\ held.action # held.optimal
  /\ Idle => can_reconstruct(hand_result)

\* The tournament ends with the hero: no hand is dealt or played once the hero is
\* out (session.rs:479-481: "The opponents never play on after the hero busts"),
\* and whoever is then named winner is still in and leads.
TheEndIsTheHerosEnd ==
  /\ InHand => ~eliminated[Hero]
  /\ tournament_result # None =>
       /\ ~eliminated[tournament_result]
       /\ \A s \in Seat : stacks[s] <= stacks[tournament_result]

\* Every call into the session returns: the opponents always bring the hand
\* back to the hero or to its end.
EveryCallReturns == ~Idle ~> Idle

=============================================================================
