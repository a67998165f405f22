--------------------------- MODULE OpponentHistory ---------------------------
(***************************************************************************)
(* The model of the field of src/src/opponent_history.rs: the decisions    *)
(* the replay freezes, counted into the ranges and the action frequencies  *)
(* the opponents of a table play by, and into what the coach's panel says  *)
(* of the field and of the hero.                                           *)
(*                                                                         *)
(* The window is one imported hand: the counts of several hands add up.  A *)
(* hand class is the seat it was dealt to, so no two seats hold the same.  *)
(* A range is its counts; smoothing adds a fixed prior to them.            *)
(*                                                                         *)
(* The hand is taken to have been played at a table of this program too:   *)
(* there the session records what the hero did, as a row of its own.       *)
(***************************************************************************)
EXTENDS Replay, SequencesExt

CONSTANTS
  Short,  \* the last stack, in big blinds, of the lowest bucket
  Middle, \* and of the one above it
  MIN_SAMPLE_HANDS, \* decisions a spot must have to be played by
  MIN_HAND_SAMPLES, \* decisions a cell of the panel must have to be graded
  MIN_HANDS_FOR_READ, \* decisions there must be to profile somebody
  TIGHT_VPIP,       \* percent of decisions before the flop
  LOOSE_VPIP

ASSUME HistoryAssumption ==
  /\ {Short, Middle, MIN_SAMPLE_HANDS, MIN_HAND_SAMPLES, MIN_HANDS_FOR_READ} \subseteq Nat
  /\ Short < Middle
  /\ 0 <= TIGHT_VPIP /\ TIGHT_VPIP < LOOSE_VPIP

VARIABLES
  walked, \* WalkedHand: the decisions frozen so far, of all seats
  moves,  \* what the seats did at the real table
  local_hero_actions, \* the rows of the hero's decisions at a table of this program
  shown   \* the seats whose cards the hand shows, once it is read to its end

historyVars == <<walkVars, walked, moves, local_hero_actions, shown>>

Categories == {"Fold", "CallCheck", "BetRaise", "Shove"}
IsRaise(category) == category \in {"BetRaise", "Shove"}
Unread == {None}

(***************************************************************************)
(* The window.                                                             *)
(***************************************************************************)
Buckets == {"Bb10", "Bb15", "Bb25"}

\* Mutant: the bounds belong to the deeper bucket.
from_bb_below(blinds) ==
  IF blinds < Short THEN "Bb10" ELSE IF blinds < Middle THEN "Bb15" ELSE "Bb25"

from_bb(blinds) ==
  IF blinds <= Short THEN "Bb10" ELSE IF blinds <= Middle THEN "Bb15" ELSE "Bb25"

\* What is stored of a bucket: a number of big blinds in it.
as_i16(bucket) ==
  CASE bucket = "Bb10" -> Short [] bucket = "Bb15" -> Middle [] OTHER -> Middle + 1

decision_stack_bucket == from_bb(stack_to_act \div BIG_BLIND)

\* The keys of the nodes.
Node ==
  [PF_OPEN    |-> [street |-> Preflop, faced |-> FALSE],
   PF_VS_RAISE |-> [street |-> Preflop, faced |-> TRUE],
   FLOP_LEAD  |-> [street |-> Flop, faced |-> FALSE],
   FLOP_VS_BET |-> [street |-> Flop, faced |-> TRUE],
   TURN_LEAD  |-> [street |-> Turn, faced |-> FALSE],
   TURN_VS_BET |-> [street |-> Turn, faced |-> TRUE],
   RIVER_LEAD |-> [street |-> River, faced |-> FALSE],
   RIVER_VS_BET |-> [street |-> River, faced |-> TRUE]]

node_key(node) == CHOOSE k \in DOMAIN Node : Node[k] = node

\* A DecisionPoint, as far as the window and the grader read it.
DecisionPoint(l) ==
  [no |-> Len(walked) + 1,
   seat |-> l.seat,
   ready |-> ~hand_over /\ to_act = l.seat,
   offered |-> convert_action(l) \in CandidateActions,
   node |-> decision_node,
   bucket |-> decision_stack_bucket,
   position |-> decision_position,
   category |-> ActionCategory(convert_action(l)),
   ctx |-> aggressor_context(decision_node, was_preflop_aggressor, facing_cbet)]

\* shown_hand, and the hero's own cards.
HandOf(s) == IF s \in shown \cup {hero.seat} THEN s ELSE None

\* Mutant: a decision whose hand is not known is dropped.
load_gg_actions_known ==
  SelectSeq(walked, LAMBDA p : p.seat # hero.seat /\ HandOf(p.seat) # None)

\* load_gg_actions: a hand that cannot be walked gives nothing.
load_gg_actions ==
  IF walk.at = "Rejected" THEN <<>>
  ELSE SelectSeq(walked, LAMBDA p : p.seat # hero.seat)

load_hero_gg_actions ==
  IF walk.at = "Rejected" THEN <<>>
  ELSE SelectSeq(walked, LAMBDA p : p.seat = hero.seat)

\* note_aggressor of the session, which was told of every decision before this one:
\* who bet, raised or went all in last on a street.
note_aggressor(st) ==
  LET aggressive == SelectSeq(walked, LAMBDA p : p.node.street = st /\ IsRaise(p.category))
  IN IF aggressive = <<>> THEN None ELSE Last(aggressive).seat

\* was_preflop_aggressor and facing_cbet of the session.
local_was_preflop_aggressor(s) == note_aggressor(Preflop) = s

local_facing_cbet ==
  /\ street = Flop
  /\ note_aggressor(Flop) # None
  /\ note_aggressor(Flop) = note_aggressor(Preflop)

\* record_decision of the session: the row of a decision of the hero.
LocalHeroAction(l) ==
  [node |-> node_key(decision_node),
   stack_bucket |-> as_i16(decision_stack_bucket),
   hole_cards |-> l.seat,
   action |-> ActionCategory(convert_action(l)),
   position |-> decision_position,
   was_preflop_aggressor |-> local_was_preflop_aggressor(l.seat),
   facing_cbet |-> local_facing_cbet]

\* persist_local_hero_actions: what is queued is inserted; no insert fails here.
persist_local_hero_actions(queued) == local_hero_actions' = local_hero_actions \o queued

\* The newest rows first; the limit is not reached.
load_recent_local_hero_actions == Reverse(local_hero_actions)

\* from_local_hero: the row read back.
from_local_hero(row) ==
  [seat |-> row.hole_cards,
   node |-> Node[row.node],
   bucket |-> from_bb(row.stack_bucket),
   position |-> row.position,
   category |-> row.action,
   ctx |-> aggressor_context(Node[row.node], row.was_preflop_aggressor, row.facing_cbet)]

\* load_hero_action_window: the imported decisions, and the local ones.
load_hero_action_window ==
  LET local == load_recent_local_hero_actions
  IN load_hero_gg_actions \o [i \in DOMAIN local |-> from_local_hero(local[i])]

(***************************************************************************)
(* What is counted.                                                        *)
(***************************************************************************)
Count(seq, P(_)) == Cardinality({i \in DOMAIN seq : P(seq[i])})

is_preflop(node) == node.street = Preflop

\* A range: how often each hand class was seen, at the decisions of a kind.
RangeOf(actions, P(_)) ==
  [h \in Seat |-> Count(actions, LAMBDA p : P(p) /\ HandOf(p.seat) = h)]

\* build_range_model.
build_range_model(actions) ==
  [spot \in {[node |-> p.node, bucket |-> p.bucket]
               : p \in {q \in Range(actions) : HandOf(q.seat) # None}}
     |-> RangeOf(actions, LAMBDA p : p.node = spot.node /\ p.bucket = spot.bucket)]

\* build_preflop_raise_range_model.
build_preflop_raise_range_model(actions) ==
  LET Raised(p) == is_preflop(p.node) /\ IsRaise(p.category)
  IN [b \in {p.bucket : p \in {q \in Range(actions) : Raised(q) /\ HandOf(q.seat) # None}}
        |-> RangeOf(actions, LAMBDA p : Raised(p) /\ p.bucket = b)]

\* build_action_frequency_model.
Spot(p) == [node |-> p.node, bucket |-> p.bucket, position |-> p.position, ctx |-> p.ctx]

build_action_frequency_model(actions) ==
  [spot \in {Spot(p) : p \in Range(actions)}
     |-> [c \in Categories |->
            Count(actions, LAMBDA p : Spot(p) = spot /\ p.category = c)]]

\* build_starting_hand_table: the raises and the shoves are one column.
build_starting_hand_table(actions) ==
  [h \in Seat |->
     LET Column(cs) == Count(actions, LAMBDA p : /\ is_preflop(p.node)
                                                 /\ HandOf(p.seat) = h
                                                 /\ p.category \in cs)
     IN [fold |-> Column({"Fold"}), call |-> Column({"CallCheck"}),
         raise |-> Column({"BetRaise", "Shove"})]]

\* build_historic_read.
build_historic_read(actions) ==
  [actions |-> Len(actions),
   preflop |-> Count(actions, LAMBDA p : is_preflop(p.node)),
   voluntary |-> Count(actions, LAMBDA p : is_preflop(p.node) /\ p.category # "Fold"),
   raised |-> Count(actions, LAMBDA p : is_preflop(p.node) /\ IsRaise(p.category)),
   faced |-> Count(actions, LAMBDA p : p.node.faced),
   folded |-> Count(actions, LAMBDA p : p.node.faced /\ p.category = "Fold"),
   bets |-> Count(actions, LAMBDA p : ~is_preflop(p.node) /\ IsRaise(p.category)),
   calls |-> Count(actions, LAMBDA p : /\ ~is_preflop(p.node)
                                       /\ p.node.faced
                                       /\ p.category = "CallCheck")]

SumOf(f) == FoldFunction(LAMBDA a, b : a + b, 0, f)

(***************************************************************************)
(* The rows a refresh leaves, and what a table makes of them.              *)
(***************************************************************************)
NoRows == [ranges |-> <<>>, raisers |-> <<>>, frequencies |-> <<>>]

\* Mutant: rows that are there are kept.
upserted_ignored(rows, model) == rows @@ model

\* One statement a row; those the window has nothing for stay.
upserted(rows, model) == model @@ rows

save_range_model(rows, actions) ==
  [rows EXCEPT !.ranges = upserted(@, build_range_model(actions))]

save_preflop_raise_range_model(rows, actions) ==
  [rows EXCEPT !.raisers = upserted(@, build_preflop_raise_range_model(actions))]

save_action_frequency_model(rows, actions) ==
  [rows EXCEPT !.frequencies = upserted(@, build_action_frequency_model(actions))]

refresh(rows, actions) ==
  save_action_frequency_model(
    save_preflop_raise_range_model(save_range_model(rows, actions), actions), actions)

\* The population's range.
Fallback == <<>>

\* Mutant: any row will do.
trusted_any(row) == TRUE

\* Too thin a row is not played by.
trusted(row) == SumOf(row) >= MIN_SAMPLE_HANDS

resolve(rows, spot) ==
  IF spot \in DOMAIN rows /\ trusted(rows[spot]) THEN rows[spot] ELSE Fallback

\* Every spot has a range, of the field or of the population.
load_range_model(rows) ==
  [ranges |-> [spot \in [node : Range(Node), bucket : Buckets] |-> resolve(rows.ranges, spot)],
   raisers |-> [b \in Buckets |-> resolve(rows.raisers, b)]]

\* A spot that is too thin is left out, and the opponent's skill picks.
load_action_frequency_model(rows) ==
  [spot \in {s \in DOMAIN rows.frequencies : trusted(rows.frequencies[s])}
     |-> rows.frequencies[spot]]

\* The panel's summary of a window.
HistorySummary(actions) ==
  [read |-> build_historic_read(actions), table |-> build_starting_hand_table(actions)]

NoRanges == [ranges |-> <<>>, raisers |-> <<>>]
NoHistory == "none"

\* Mutant: a table whose refresh failed plays by the rows as they are.
after_failed_refresh_kept(rows) ==
  [ranges |-> load_range_model(rows), frequencies |-> load_action_frequency_model(rows),
   historic |-> NoHistory, hero_historic |-> NoHistory]

\* A table whose refresh failed knows nothing of the field.
after_failed_refresh(rows) ==
  [ranges |-> NoRanges, frequencies |-> <<>>,
   historic |-> NoHistory, hero_historic |-> NoHistory]

Step == {"none", "refresh", "refresh_hero", "profile", "ranges", "frequencies"}

\* load_opponent_model, where one step fails, or none.
load_opponent_model(before, failed) ==
  LET rows == refresh(before, load_gg_actions)
  IN IF failed = "refresh" THEN after_failed_refresh(before)
     ELSE [ranges |-> IF failed \in {"profile", "ranges"} THEN NoRanges
                      ELSE load_range_model(rows),
           frequencies |-> IF failed \in {"profile", "frequencies"} THEN <<>>
                           ELSE load_action_frequency_model(rows),
           historic |-> HistorySummary(load_gg_actions),
           hero_historic |-> IF failed = "refresh_hero" THEN NoHistory
                             ELSE HistorySummary(load_hero_action_window)]

\* The uniform range, where the table has none.
OrUniform(ranges, x) == IF x \in DOMAIN ranges THEN ranges[x] ELSE Fallback

Here == [node |-> decision_node, bucket |-> decision_stack_bucket]

\* Mutant: the raiser keeps its range after the flop.
range_for_seat_kept(model, s) ==
  IF local_was_preflop_aggressor(s) /\ Here.bucket \in DOMAIN model.raisers
  THEN model.raisers[Here.bucket]
  ELSE OrUniform(model.ranges, Here)

\* range_for_seat of the session: what the coach takes a seat to hold, at the
\* decision of the seat to act.
range_for_seat(model, s) ==
  IF street = Preflop /\ local_was_preflop_aggressor(s) /\ Here.bucket \in DOMAIN model.raisers
  THEN model.raisers[Here.bucket]
  ELSE OrUniform(model.ranges, Here)

\* ranges_for_solve of the opponents: the pooled range, and the raiser's over it.
ranges_for_solve(model) ==
  LET pooled == [s \in Seat \ {to_act} |-> OrUniform(model.ranges, Here)]
      raiser == note_aggressor(Preflop)
  IN IF street = Preflop /\ raiser \in DOMAIN pooled /\ Here.bucket \in DOMAIN model.raisers
     THEN [pooled EXCEPT ![raiser] = model.raisers[Here.bucket]]
     ELSE pooled

(***************************************************************************)
(* What the coach's panel makes of the two summaries.                      *)
(***************************************************************************)
\* A cell of the table of starting hands: its bars, if it has any.
RangeTableCell(columns) ==
  IF SumOf(columns) >= MIN_HAND_SAMPLES THEN columns ELSE <<>>

starting_hands_fragment(bot, own) ==
  [hero |-> [h \in Seat |-> RangeTableCell(own.table[h])],
   bot  |-> [h \in Seat |-> RangeTableCell(bot.table[h])]]

\* Mutant: few actions are profiled as well.
read_early(r) ==
  [hands |-> CASE 100 * r.voluntary < TIGHT_VPIP * r.preflop -> "tight"
               [] 100 * r.voluntary > LOOSE_VPIP * r.preflop -> "loose"
               [] OTHER -> "average",
   streets |-> IF r.bets < r.calls THEN "passive" ELSE "aggressive"]

\* read: the words for the hands that are played and for the play after the flop,
\* where a bet that was never called makes for any aggression.  Nothing before the
\* flop is no percent.
read(r) ==
  IF r.actions < MIN_HANDS_FOR_READ THEN [hands |-> "early", streets |-> "early"]
  ELSE [hands |-> CASE r.preflop = 0 \/ 100 * r.voluntary < TIGHT_VPIP * r.preflop -> "tight"
                    [] r.preflop > 0 /\ 100 * r.voluntary > LOOSE_VPIP * r.preflop -> "loose"
                    [] OTHER -> "average",
        streets |-> CASE r.bets + r.calls = 0 -> "unmarked"
                      [] r.bets + r.calls > 0 /\ r.bets >= 2 * r.calls -> "aggressive"
                      [] r.bets < r.calls -> "passive"
                      [] OTHER -> "measured"]

\* A share in whole percent, as it is shown: halves go to the even one.
Percent(n, of) ==
  IF of = 0 THEN 0
  ELSE LET q == (100 * n) \div of
           rest == (100 * n) % of
       IN IF 2 * rest > of \/ (2 * rest = of /\ q % 2 = 1) THEN q + 1 ELSE q

\* OpponentsFragment: what the panel's card says of the window.
OpponentsFragment(r) ==
  [historic_actions |-> r.actions,
   historic_vpip |-> Percent(r.voluntary, r.preflop),
   historic_pfr |-> Percent(r.raised, r.preflop),
   historic_fold_to_bet |-> Percent(r.folded, r.faced),
   historic_aggression |-> CASE r.bets = 0 /\ r.calls = 0 -> "none"
                             [] r.bets > 0 /\ r.calls = 0 -> "unbounded"
                             [] OTHER -> "ratio",
   historic_read |-> read(r)]

(***************************************************************************)
(* Grading.                                                                *)
(***************************************************************************)
\* Mutant: only what the dock offers is searched.
searched_candidates(p) == p.offered

\* The played action is searched with the candidates, one of them or not.
searched(p) == TRUE

\* grade_points, where the solver gives up on one decision, or on none.
grade_points(points, unsolved) ==
  LET graded == SelectSeq(points, LAMBDA p : p.ready /\ searched(p) /\ p.no # unsolved)
  IN [decisions |-> Len(graded),
      players |-> [s \in {p.seat : p \in Range(graded)} |->
                     Count(graded, LAMBDA p : p.seat = s)],
      problems |-> Len(points) - Len(graded)]

\* walk_and_grade: the opponents, and the hero apart from them.  A hand that
\* cannot be walked is a problem of both.
walk_and_grade(unsolved) ==
  LET Score(points) == IF walk.at = "Rejected"
                       THEN [decisions |-> 0, players |-> <<>>, problems |-> 1]
                       ELSE grade_points(points, unsolved)
  IN [opponent |-> Score(load_gg_actions), hero |-> Score(load_hero_gg_actions)]

(***************************************************************************)
(* The hand is walked, and at its end the seats that are left show their   *)
(* cards, or do not.                                                       *)
(***************************************************************************)
\* What a line is at the real table: its verb, and whether it takes all chips.
RealMove(l) ==
  [seat |-> l.seat,
   node |-> RealNode,
   raises |-> l.verb \in {"Bet", "Raise"},
   category |-> CASE l.verb = "Fold" -> "Fold"
                  [] l.verb \in {"Check", "Call"} -> "CallCheck"
                  [] OTHER -> IF l.all_in THEN "Shove" ELSE "BetRaise"]

HistoryInit ==
  /\ WalkInit
  /\ walked = <<>>
  /\ moves = <<>>
  /\ local_hero_actions = <<>>
  /\ shown = Unread

FreezeDecision ==
  /\ WalkLine
  /\ walked' = Append(walked, DecisionPoint(walk.line))
  /\ moves' = Append(moves, RealMove(walk.line))
  /\ IF walk.line.seat = hero.seat
     THEN persist_local_hero_actions(<<LocalHeroAction(walk.line)>>)
     ELSE UNCHANGED local_hero_actions
  /\ UNCHANGED shown

\* The seats still in show their cards; losers may not.
ReadShown ==
  /\ walk.at = "Rejected" \/ (walk.at = "Read" /\ real.at = None)
  /\ shown = Unread
  /\ shown' \in IF Cardinality(Playing(real)) < 2 THEN {{}}
               ELSE {s \in SUBSET Playing(real) : s # {}}
  /\ UNCHANGED <<walkVars, walked, moves, local_hero_actions>>

HistoryNext ==
  \/ (ReadLine \/ RejectLine \/ Settle) /\ UNCHANGED <<walked, moves, local_hero_actions, shown>>
  \/ FreezeDecision
  \/ ReadShown
  \/ WalkEnds /\ shown # Unread /\ UNCHANGED <<walked, moves, local_hero_actions, shown>>

HistorySpec == HistoryInit /\ [][HistoryNext]_historyVars

-----------------------------------------------------------------------------
\* A hand that could be walked is graded to the last decision: each decision of
\* the real table counts once, for the seat that took it, and the hero's in the
\* hero's score only, whatever was played and whichever one decision the solver
\* gives up on.
EveryDecisionIsGraded ==
  shown # Unread /\ walk.at # "Rejected" =>
    \A unsolved \in {0, Len(walked)} :
      LET grades == walk_and_grade(unsolved)
          Taken(s) == Cardinality({i \in DOMAIN moves : moves[i].seat = s /\ i # unsolved})
          Graded(score, s) == IF s \in DOMAIN score.players THEN score.players[s] ELSE 0
      IN /\ \A s \in Seat :
              /\ Graded(grades.opponent, s) = IF s = hero.seat THEN 0 ELSE Taken(s)
              /\ Graded(grades.hero, s) = IF s = hero.seat THEN Taken(s) ELSE 0
         /\ grades.opponent.decisions + grades.hero.decisions
              + grades.opponent.problems + grades.hero.problems = Len(moves)

Complete == shown # Unread /\ FullBlind /\ ~real.calledAllIn

\* How often a seat of a set did something at the real table.
Did(seats, P(_)) == Count(moves, LAMBDA m : m.seat \in seats /\ P(m))

\* Rows an earlier refresh left: those of another window, here of the decisions
\* of all three seats.
EarlierRows == refresh(NoRows, walked)

\* A table plays by what the field did often enough, whichever step of loading
\* fails: a row that is resolved has
\* that many decisions of the window behind it, never the counts an earlier
\* refresh left for the same spot.  Spots the window has nothing for stay as they
\* were left.
TablesPlayByTheField ==
  LET before == EarlierRows
      actions == load_gg_actions
      field == Seat \ {hero.seat}
      Often(seats, node) == Did(seats, LAMBDA m : m.node = node) >= MIN_SAMPLE_HANDS
  IN \A failed \in Step :
       LET model == load_opponent_model(before, failed)
           ranges == model.ranges.ranges
       IN /\ \A s \in DOMAIN model.frequencies :
               IF s \in DOMAIN build_action_frequency_model(actions)
               THEN Often(field, s.node) ELSE s \in DOMAIN before.frequencies
          /\ \A s \in DOMAIN ranges :
               ranges[s] # Fallback =>
                 IF s \in DOMAIN build_range_model(actions)
                 THEN Often(shown \cap field, s.node) ELSE s \in DOMAIN before.ranges

\* At every decision the coach and the opponents, each in code of its own, take a
\* seat to hold the same; and the range of raisers is what the last seat that
\* raised before the flop is taken to hold there, and no other.
RaisersAreTakenForRaisers ==
  LET named == [ranges |-> [spot \in [node : Range(Node), bucket : Buckets] |-> <<"field", spot>>],
                raisers |-> [b \in Buckets |-> <<"raisers", b>>]]
      Raises == SelectSeq(moves, LAMBDA m : m.node.street = Preflop /\ m.raises)
      LastRaised(s) == Raises # <<>> /\ Last(Raises).seat = s
  IN \A s \in Seat \ {to_act} :
       /\ \A model \in {named, NoRanges} : range_for_seat(model, s) = ranges_for_solve(model)[s]
       /\ ~real.calledAllIn =>
            (range_for_seat(named, s) \in Range(named.raisers) <=> street = Preflop /\ LastRaised(s))

\* The hero's own window pools what it did here and elsewhere: a hand played at
\* both kinds of table counts twice in the same places, as its decisions are filed
\* here as they are there, and read back as they were written.
HeroIsReadAlike ==
  LET once == HistorySummary(load_hero_gg_actions)
      both == HistorySummary(load_hero_action_window)
      table == both.table[hero.seat]
      own == once.table[hero.seat]
      Cells(actions) == build_action_frequency_model(actions)
  IN /\ \A count \in DOMAIN once.read : both.read[count] = 2 * once.read[count]
     /\ \A column \in DOMAIN own : table[column] = 2 * own[column]
     /\ \A spot \in DOMAIN Cells(load_hero_action_window) :
          Count(load_hero_gg_actions, LAMBDA p : Spot(p) = spot)
            = Count(local_hero_actions, LAMBDA row : Spot(from_local_hero(row)) = spot)

\* The panel shows the coach no hand that nobody turned over, and every one that
\* was; and what it says of the field is true of the real table: who is called
\* tight or loose entered that many pots, a field called aggressive bet more often
\* than it called, and nothing is said of it after a few actions.  The figures beside
\* the words do not belie them: nobody raises more pots than it enters, and the play
\* after the flop is unbounded exactly when bets were never mixed with calls.
ThePanelSpeaksOfTheField ==
  LET field == Seat \ {hero.seat}
      cells == starting_hands_fragment(HistorySummary(load_gg_actions),
                                       HistorySummary(load_hero_action_window))
      card == OpponentsFragment(build_historic_read(load_gg_actions))
      said == card.historic_read
      Early(s) == Did({s}, LAMBDA m : m.node.street = Preflop)
      Opened == Did(field, LAMBDA m : m.node.street = Preflop)
      Entered == Did(field, LAMBDA m : m.node.street = Preflop /\ m.category # "Fold")
      Bets == Did(field, LAMBDA m : m.node.street # Preflop /\ m.raises)
      Calls == Did(field, LAMBDA m : /\ m.node.street # Preflop
                                     /\ m.node.faced /\ m.category = "CallCheck")
  IN /\ \A s \in Seat :
          /\ cells.bot[s] # <<>> <=>
               s \in shown \cap field /\ Early(s) >= MIN_HAND_SAMPLES
          /\ cells.hero[s] # <<>> <=> s = hero.seat /\ 2 * Early(s) >= MIN_HAND_SAMPLES
     /\ said.hands = "tight" => 100 * Entered <= TIGHT_VPIP * Opened
     /\ said.hands = "loose" => 100 * Entered > LOOSE_VPIP * Opened
     /\ said.streets = "aggressive" => Bets > Calls
     /\ said.streets = "passive" => Calls > Bets
     /\ said.streets = "unmarked" => Bets = 0 /\ Calls = 0
     /\ Did(field, LAMBDA m : TRUE) < MIN_HANDS_FOR_READ => said.hands = "early"
     /\ card.historic_pfr <= card.historic_vpip /\ card.historic_vpip <= 100
     /\ card.historic_aggression = "unbounded" <=> Bets > 0 /\ Calls = 0
     /\ card.historic_aggression = "none" => said.streets \in {"unmarked", "early"}

\* What the walk froze is what was done: a point for each decision of the real
\* table, in its order, of the seat that took it, under the node it was at and as
\* what it was, but for a call for all its chips, which the walk takes for a
\* shove; and the engine was on turn for it, so that it can be graded.
EveryPointIsAMove ==
  /\ Len(walked) = Len(moves)
  /\ \A i \in DOMAIN moves :
       /\ walked[i].no = i
       /\ walked[i].seat = moves[i].seat
       /\ walked[i].ready
       /\ FullBlind =>
            /\ walked[i].node = moves[i].node
            /\ walked[i].category = moves[i].category
               \/ /\ real.calledAllIn
                  /\ moves[i].category = "CallCheck"
                  /\ walked[i].category = "Shove"
            /\ moves[i].raises <=>
                 moves[i].category \in {"BetRaise", "Shove"}

\* The field is counted as it played, unless somebody called all in, which the
\* walk takes for a shove: every decision of an opponent, its cards known or
\* not, is in exactly one frequency of its node, so that the folds are not
\* lost with the cards nobody saw; a range counts the decisions of those who
\* showed and no others, and the raisers' range their raises before the flop;
\* and the read has the folds to a bet, the calls and the raises.  The hero is
\* in none of them, and its own table has all it did.  Tables play by those
\* counts, the panel speaks of them, and every decision is graded once.
TheFieldIsCountedAsItPlayed ==
  /\ EveryPointIsAMove
  /\ EveryDecisionIsGraded
  /\ walk.at # "Rejected" => RaisersAreTakenForRaisers
  /\ Complete => TablesPlayByTheField
  /\ Complete /\ walk.at # "Rejected" => HeroIsReadAlike /\ ThePanelSpeaksOfTheField
  /\ Complete =>
    LET field == Seat \ {hero.seat}
        actions == load_gg_actions
        frequencies == build_action_frequency_model(actions)
        ranges == build_range_model(actions)
        raisers == build_preflop_raise_range_model(actions)
        counts == build_historic_read(actions)
        own == build_starting_hand_table(load_hero_gg_actions)[hero.seat]
        Cells(node) == {spot \in DOMAIN frequencies : spot.node = node}
        Sum(S, f(_)) == SumOf([x \in S |-> f(x)])
    IN /\ \A node \in {m.node : m \in Range(moves)} :
            /\ \A c \in Categories :
                 Sum(Cells(node), LAMBDA x : frequencies[x][c])
                   = Did(field, LAMBDA m : m.node = node /\ m.category = c)
            /\ \A s \in Seat :
                 Sum({x \in DOMAIN ranges : x.node = node}, LAMBDA x : ranges[x][s])
                   = Did((shown \cap field) \cap {s}, LAMBDA m : m.node = node)
       /\ \A s \in Seat :
            Sum(DOMAIN raisers, LAMBDA b : raisers[b][s])
              = Did((shown \cap field) \cap {s},
                    LAMBDA m : m.node.street = Preflop /\ m.raises)
       /\ counts.folded = Did(field, LAMBDA m : m.node.faced /\ m.category = "Fold")
       /\ counts.calls = Did(field, LAMBDA m : m.node.street # Preflop /\ m.node.faced
                                              /\ m.category = "CallCheck")
       /\ counts.bets = Did(field, LAMBDA m : m.node.street # Preflop /\ m.raises)
       /\ counts.raised = Did(field, LAMBDA m : m.node.street = Preflop /\ m.raises)
       /\ own.fold + own.call + own.raise
            = Did({hero.seat}, LAMBDA m : m.node.street = Preflop)

=============================================================================
