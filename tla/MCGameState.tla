----------------------------- MODULE MCGameState -----------------------------
(***************************************************************************)
(* Model-checking instance of GameState: the chip ledger it implements and *)
(* a history variable that remembers who may still raise.                  *)
(***************************************************************************)
EXTENDS TableView

VARIABLE
  reopened \* seats that face a full raise made since they last acted, or
           \* that have not acted on this street at all

historyVars == <<vars, reopened>>

\* A bet or raise by the minimum raise or more, as apply_action counts it.
FullRaiseMade == current_bet' - current_bet >= min_raise

TrackReopened ==
  reopened' =
    IF ~InHand' \/ outcome = "StreetEnded" \/ ~InHand THEN [s \in Seat |-> TRUE]
    ELSE [s \in Seat |-> s # to_act /\ (reopened[s] \/ FullRaiseMade)]

HistoryInit == Init /\ reopened = [s \in Seat |-> TRUE]
HistoryNext == Next /\ TrackReopened

\* Inside a hand the pump plays the opponents without pause and the hero is
\* assumed to answer, so those steps are weakly fair.  Nothing obliges
\* anybody to deal the next hand.
HistorySpec ==
  /\ HistoryInit
  /\ [][HistoryNext]_historyVars
  /\ WF_historyVars((ApplyAction \/ AdvanceStreet \/ Showdown) /\ TrackReopened)

\* GameState implements the ledger: once a hand is over its contributions
\* have been paid out.
Ledger == INSTANCE ChipLedger WITH
  chips   <- stacks,
  stake   <- IF InHand THEN total_contrib ELSE NoChips,
  playing <- InHand,
  out     <- Seat \ active_seats

\* Chips only move the way the ledger allows: stakes are added one seat at a
\* time, and a hand pays out all of them, to nobody more than it covered.  Out
\* of the tournament is who a hand, won by folds or at a showdown, leaves
\* without chips, and nobody else; and who is out is dealt in no more.
ImplementsLedger == Ledger!Spec

\* The legal actions that raise the bet.
Raises == {a \in Action : a.kind \in {"Bet", "Raise", "AllIn"} /\ allows(a)
                          /\ BetAfter(a) > current_bet}

\* Once a full raise was made after its last action, a seat with chips beyond
\* the call may raise again, however often it has raised on this street.
FullRaiseReopens ==
  outcome = "Continue" /\ reopened[to_act] /\ stack_to_act > to_call => Raises # {}

=============================================================================
