------------------------------ MODULE MCSession ------------------------------
(***************************************************************************)
(* Model-checking instance of Session, with a history of what happened on  *)
(* the connection.                                                         *)
(***************************************************************************)
EXTENDS Session

VARIABLES
  armed_hand, \* the hand whose check armed the pending check-fold, or 0
  finished    \* hands finished since the client connected

mcVars == <<sessionVars, armed_hand, finished>>

MCInit == SessionInit /\ armed_hand = 0 /\ finished = 0

Track(arming) ==
  /\ armed_hand' = IF pending_check_fold' = NoStreet THEN 0
                   ELSE IF arming THEN hand_no ELSE armed_hand
  /\ finished' = IF hand_over' /\ ~hand_over THEN finished + 1 ELSE finished

\* A resumed session counts from zero.
Forget == armed_hand' = 0 /\ finished' = 0

MCNext ==
  \/ DealNextHand /\ Track(FALSE)
  \/ HeroSubmits /\ Track(FALSE)
  \/ HeroCheckFolds /\ Track(~Idle')
  \/ RejectedCheckFold /\ Track(FALSE)
  \/ ConfirmReview /\ Track(FALSE)
  \/ Pump /\ Track(FALSE)
  \/ SessionOver /\ Track(FALSE)
  \/ Resume /\ Forget

MCSpec == MCInit /\ [][MCNext]_mcVars /\ WF_mcVars(Pump /\ Track(FALSE))

\* Everything is recorded once: a decision of the hero when it is applied or when
\* its review is confirmed, so that only a review still pending is owed; a hand
\* when it ends, whichever call or nested call ended it; and an opponent's entry
\* into a hand, which its HUD counts in percent of the hands, on whichever
\* connection of the hand it raises again.
EverythingIsRecordedOnce ==
  /\ unrecorded = Cardinality(pending)
  /\ hand_results = finished
  /\ \A s \in Opponents :
       /\ hud.pfr[s] <= hud.vpip[s]
       /\ hud.vpip[s] <= hand_no
       /\ s \in hud.vpip_seen => total_contrib[s] > 0

\* src/src/server/session.rs:128-130: a check-fold is armed until the hero's next
\* decision on the street whose check armed it, and no longer.
AutoFoldAnswersItsOwnCheck == AutoFoldDue => armed_hand = hand_no

=============================================================================
