----------------------------- MODULE TableResume -----------------------------
(***************************************************************************)
(* What a table that is resumed rebuilds instead of reading it back: its   *)
(* deck, of which only the cards to come are saved, and its blunder        *)
(* tracker, which is filled from the stored decisions; and what is stored  *)
(* and shown of it.  A call may touch the deck and the record both, but    *)
(* neither reads the other: a behaviour follows one half of the table      *)
(* through all its calls.                                                  *)
(***************************************************************************)
EXTENDS Deck, Analytics

VARIABLE half   \* bound: the half that is followed

tableVars == <<vars, trackerVars, recordVars, half>>

TableInit ==
  /\ Init /\ TrackerInit /\ RecordInit
  /\ half \in {"deck", "record"}
  /\ half = "record" => cards = [i \in Card |-> i]

\* TableSession::new shuffles a deck of its own.
new_deck ==
  /\ cards' \in Orders
  /\ top' = 0
  /\ dealt' = <<>>
  /\ undealt' = 0
  /\ rebuilt' = "no"

DeckStep == DealHand \/ DealBoardCard \/ Resume \/ new_deck

\* The hero decides, and what is stored is charted.
Decision ==
  /\ table = "played"
  /\ Decide \/ ConfirmReview
  /\ IF decisions' = decisions THEN UNCHANGED recordVars ELSE Charted

RecordStep ==
  \/ EndHand /\ HandRecord                                          \* deal_next_hand
  \/ Decision
  \/ held = None /\ log_hand_result /\ UNCHANGED trackerVars
  \/ (tournament_over_frame \/ finish_table) /\ UNCHANGED trackerVars
  \/ Hydrate /\ ResumeRecord /\ UNCHANGED playing                   \* from_snapshot
  \/ NewTournament /\ start_session                                 \* new

TableNext ==
  /\ \/ half = "deck" /\ DeckStep /\ UNCHANGED <<trackerVars, recordVars>>
     \/ half = "record" /\ RecordStep /\ UNCHANGED vars
  /\ UNCHANGED half

TableSpec == TableInit /\ [][TableNext]_tableVars

=============================================================================
