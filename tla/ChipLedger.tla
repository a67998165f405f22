------------------------------ MODULE ChipLedger ------------------------------
(***************************************************************************)
(* What the engine promises about chips, whatever the betting rules: a     *)
(* hand moves chips from stacks to stakes, one seat at a time, and then    *)
(* pays all the stakes out, to nobody more than it could cover.  Whoever   *)
(* is left without chips then is out: nobody else ever is, and no seat     *)
(* that is out plays on.                                                   *)
(*                                                                         *)
(* GameState implements this module: see Ledger in MCGameState.            *)
(***************************************************************************)
EXTENDS Integers

CONSTANT STARTING_STACK \* chips every seat starts the tournament with

VARIABLES
  chips,   \* what each seat owns outside the hand
  stake,   \* what each seat has put in the hand being played
  playing, \* whether a hand is being played
  out      \* the seats out of the tournament

vars == <<chips, stake, playing, out>>

Seat == 0..2

Sum(f) == f[0] + f[1] + f[2]

Smaller(m, n) == IF m <= n THEN m ELSE n

\* The most seat s can take: from each seat as much as s staked itself.
Covered(s) == Smaller(stake[0], stake[s]) + Smaller(stake[1], stake[s])
              + Smaller(stake[2], stake[s])

Init ==
  /\ chips = [s \in Seat |-> STARTING_STACK]
  /\ stake = [s \in Seat |-> 0]
  /\ playing = FALSE
  /\ out = {}

\* A hand starts between the seats that are not out, at least two and all of
\* them with chips; each may post some.
Open ==
  /\ ~playing
  /\ \E s, t \in Seat \ out : s # t
  /\ \A s \in Seat \ out : chips[s] > 0
  /\ playing'
  /\ UNCHANGED out
  /\ \A s \in Seat :
       /\ stake'[s] \in IF s \in out THEN {0} ELSE 0..chips[s]
       /\ chips'[s] = chips[s] - stake'[s]

\* One seat adds chips to its stake.
Bet ==
  /\ playing
  /\ UNCHANGED <<playing, out>>
  /\ \E s \in Seat \ out :
       /\ stake'[s] \in stake[s] + 1 .. stake[s] + chips[s]
       /\ chips'[s] = chips[s] - (stake'[s] - stake[s])
       /\ \A t \in Seat \ {s} : chips'[t] = chips[t] /\ stake'[t] = stake[t]

\* The hand ends and the stakes are paid out, to the last chip; the seats with
\* none are out.
Settle ==
  /\ playing
  /\ ~playing'
  /\ \A s \in Seat : chips'[s] \in chips[s] .. chips[s] + Covered(s)
  /\ Sum(chips') = Sum(chips) + Sum(stake)
  /\ stake' = [s \in Seat |-> 0]
  /\ out' = {s \in Seat : chips'[s] = 0}

Next == Open \/ Bet \/ Settle

Spec == Init /\ [][Next]_vars

=============================================================================
