------------------------------ MODULE Analytics ------------------------------
(***************************************************************************)
(* What is kept of the tournaments and shown of them: the sessions, the    *)
(* decisions and the results of hands of src/src/analytics.rs, its         *)
(* queries, the pages of src/src/server/views.rs that render them, and the *)
(* chart beside the table.                                                 *)
(*                                                                         *)
(* The losses in big blinds that the pages show and the losses by pot that *)
(* the tracker judges are one number here; averages are their sum and      *)
(* their count.                                                            *)
(***************************************************************************)
EXTENDS Blunder, FiniteSetsExt

CONSTANTS
  CHART_WINDOW,           \* 1000 in the code
  DECIMATED_POINTS,       \* 100
  TOURNAMENTS_PAGE_SIZE,  \* 25
  snapshot_interval,      \* ticks of the chart until it is sent anew
  Outcomes                \* bound: the ways a hand ends for the hero, of the four there are

ASSUME AnalyticsAssumption ==
  /\ {CHART_WINDOW, DECIMATED_POINTS, TOURNAMENTS_PAGE_SIZE, snapshot_interval}
       \subseteq Nat \ {0}
  /\ Outcomes \subseteq {"won", "won_all_in", "lost", "lost_all_in"}

VARIABLES
  table,          \* the table: a hand is "played", "over", or the table is "closed"
  resumed,        \* history: whether the results of earlier hands went with a connection
  sessions,       \* hero_sessions: end, result and stack by id
  queued,         \* the session's hand_results, not yet stored
  hand_results,   \* hero_hand_results, oldest first
  chart,          \* chartData of the page
  ticks           \* ticks_since_snapshot

recordVars == <<table, resumed, sessions, queued, hand_results, chart, ticks>>

Open == [end |-> 0, result |-> "none", final_stack |-> 0]

RecordInit ==
  /\ table = "over"
  /\ resumed = FALSE
  /\ sessions = <<Open>>
  /\ queued = <<>>
  /\ hand_results = <<>>
  /\ chart = <<>>
  /\ ticks = 0

(***************************************************************************)
(* Queries.                                                                *)
(***************************************************************************)
Ended(s) == sessions[s].end > 0

DecisionsOf(ids) == SelectSeq(decisions, LAMBDA d : d.hand.session \in ids)

ResultsOf(ids) == SelectSeq(hand_results, LAMBDA r : r.session \in ids)

Losses(ds) == [i \in DOMAIN ds |-> ds[i].loss]

Count(rs, test(_)) == Len(SelectSeq(rs, test))

HeroWon(r) == r.hero_won

AllIn(r) == r.hero_all_in

ended == {s \in DOMAIN sessions : Ended(s)}

\* Mutant: a tournament being played is listed as well.
finished_open == {s \in DOMAIN sessions : DecisionsOf({s}) # <<>>}

\* The sessions the pages count and list.
finished == {s \in ended : DecisionsOf({s}) # <<>>}

overall_drill_stats ==
  [drills        |-> Cardinality(finished),
   drills_won    |-> Cardinality({s \in finished : sessions[s].result = "WIN"}),
   hands         |-> Len(ResultsOf(ended)),
   hands_won     |-> Count(ResultsOf(ended), HeroWon),
   decisions     |-> Len(DecisionsOf(ended)),
   total_ev_loss |-> Total(Losses(DecisionsOf(ended)))]

\* The order of the listing, oldest first.
EndedBefore(s, t) ==
  \/ sessions[s].end < sessions[t].end
  \/ sessions[s].end = sessions[t].end /\ s < t

\* A row of list_finished_sessions.
SessionSummary(s) ==
  LET ds == DecisionsOf({s})
      upto == {t \in finished : ~EndedBefore(s, t)}
      Among(results) == Cardinality({t \in upto : sessions[t].result \in results})
  IN [id              |-> s,
      actions         |-> Len(ds),
      hands           |-> Max({ds[i].hand.number : i \in DOMAIN ds}),
      hands_won       |-> Count(ResultsOf({s}), HeroWon),
      total_ev_loss   |-> Total(Losses(ds)),
      result          |-> sessions[s].result,
      final_stack     |-> sessions[s].final_stack,
      running_wins    |-> Among({"WIN"}),
      running_decided |-> Among({"WIN", "LOSS"})]

list_finished_sessions(limit, offset) ==
  LET newest == SetToSortSeq(finished, LAMBDA s, t : EndedBefore(t, s))
      page == SubSeq(newest, offset + 1, Min({offset + limit, Len(newest)}))
  IN [i \in DOMAIN page |-> SessionSummary(page[i])]

\* One page of the listing.
render_tournaments(page) ==
  LET size == TOURNAMENTS_PAGE_SIZE
  IN [sessions |-> list_finished_sessions(size, (page - 1) * size),
      page     |-> page,
      pages    |-> Max({1, (Cardinality(finished) + size - 1) \div size}),
      stats    |-> overall_drill_stats]

\* A rate as it is shown: how many of how many, or <<>> for a dash.
Rate(some, all) == IF all = 0 THEN <<>> ELSE <<some, all>>

Outcome(summary) == IF summary.result = "none" THEN "dash" ELSE summary.result

DrillRow(summary, highlight) ==
  [id               |-> summary.id,
   badge            |-> Outcome(summary),
   running_win_rate |-> Rate(summary.running_wins, summary.running_decided),
   is_highlighted   |-> summary.id = highlight]

\* pct and round1: in tenths of a percent.
pct(won, total) == IF total = 0 THEN 0 ELSE (2000 * won + total) \div (2 * total)

tournaments_page(view, highlight) ==
  [drills_won |-> pct(view.stats.drills_won, view.stats.drills),
   hands_won  |-> pct(view.stats.hands_won, view.stats.hands),
   rows       |-> [i \in DOMAIN view.sessions |-> DrillRow(view.sessions[i], highlight)],
   page       |-> view.page,
   pages      |-> view.pages]

\* The request: there is no page before the first.
tournaments(page, highlight) == tournaments_page(render_tournaments(Max({1, page})), highlight)

\* Points of a chart: an ordinal and a loss.
Points(losses, skipped) ==
  [i \in DOMAIN losses |-> [x |-> skipped + i, loss |-> losses[i]]]

load_recent ==
  LET recent == Recent(Losses(decisions), CHART_WINDOW)
  IN Points(recent, Len(decisions) - Len(recent))

\* The play page's average: what was lost in how many decisions.
hero_avg_ev_loss ==
  LET recent == Recent(Losses(decisions), CHART_WINDOW) IN Rate(Total(recent), Len(recent))

\* The ordinals start at one, whatever the window left out.
load_session(s) == Points(Recent(Losses(DecisionsOf({s})), CHART_WINDOW), 0)

\* Mutant: the first point of each bin is kept.
decimate_first(points, target) ==
  IF Len(points) <= target THEN points
  ELSE [b \in 1..target |-> points[((b - 1) * Len(points)) \div target + 1]]

decimate(points, target) ==
  IF Len(points) <= target THEN points
  ELSE [b \in 1..target |-> points[(b * Len(points) + target - 1) \div target]]

\* The aggregates of a session that has ended and has decisions.
load_tournament_detail(s) ==
  LET results == ResultsOf({s})
      ds == DecisionsOf({s})
      hands == IF results # <<>> THEN Len(results)
               ELSE Max({ds[i].hand.number : i \in DOMAIN ds})
  IN [result        |-> sessions[s].result,
      hands         |-> hands,
      hands_won     |-> Count(results, HeroWon),
      hands_lost    |-> hands - Count(results, HeroWon),
      all_ins       |-> Count(results, AllIn),
      total_ev_loss |-> Total(Losses(ds)),
      max_ev_loss   |-> Max(ToSet(Losses(ds))),
      points        |-> decimate(load_session(s), DECIMATED_POINTS)]

tournament_detail_page(detail) ==
  [badge    |-> Outcome(detail),
   win_rate |-> Rate(detail.hands_won, detail.hands),
   lost     |-> Rate(detail.hands_lost, detail.hands),
   all_in   |-> Rate(detail.all_ins, detail.hands),
   ev_loss  |-> detail.total_ev_loss,
   dataset  |-> detail.points]

NotFound == <<>>

Failed == <<"error">>

\* The request: of a session without a decision there is no page, and the row of
\* one that has not ended cannot be read, as its end is not a time.
tournament_detail(s) ==
  IF s \notin DOMAIN sessions THEN NotFound
  ELSE IF ~Ended(s) THEN Failed
  ELSE IF DecisionsOf({s}) = <<>> THEN NotFound
  ELSE tournament_detail_page(load_tournament_detail(s))

(***************************************************************************)
(* What is written.                                                        *)
(***************************************************************************)
\* now(): two ends may fall on the same instant.
Now == {1 + Cardinality(ended), Max({1, Cardinality(ended)})}

Write(s, ending) == sessions' = [sessions EXCEPT ![s] = IF Ended(s) THEN @ ELSE ending]

finalize_session(s, result, final_stack) ==
  \E now \in Now : Write(s, [end |-> now, result |-> result, final_stack |-> final_stack])

finish_session(s) == \E now \in Now : Write(s, [Open EXCEPT !.end = now])

\* persist_hand_results: all of them or, if it fails, none.
persist_hand_results == hand_results' \in {hand_results \o queued, hand_results}

\* log_hand_result: the hand ends.
log_hand_result ==
  /\ table = "played"
  /\ table' = "over"
  /\ \E outcome \in Outcomes :
       queued' = Append(queued, [session |-> playing.session, number |-> playing.number,
                                 hero_won |-> outcome \in {"won", "won_all_in"},
                                 hero_all_in |-> outcome \in {"won_all_in", "lost_all_in"}])
  /\ UNCHANGED <<resumed, sessions, hand_results, chart, ticks>>

\* tournament_over_frame: the results are stored, the session gets its outcome,
\* and is closed without one if that failed.  Who won the last hand has won.
\* Of these statements one fails, or the last two.
tournament_over_frame ==
  /\ table = "over"
  /\ playing.number > 0
  /\ table' = "closed"
  /\ queued' = <<>>
  /\ LET s == playing.session
         Finalize == \E won \in BOOLEAN :
           /\ queued # <<>> => won = Last(queued).hero_won
           /\ IF won THEN finalize_session(s, "WIN", 3) ELSE finalize_session(s, "LOSS", 0)
     IN \/ Finalize /\ persist_hand_results
        \/ /\ finish_session(s) \/ UNCHANGED sessions
           /\ hand_results' = hand_results \o queued
  /\ UNCHANGED <<resumed, chart, ticks>>

\* finish_table: the hero gives up, with the stack there is.
finish_table ==
  /\ table # "closed"
  /\ playing.number > 0
  /\ table' = "closed"
  /\ queued' = <<>>
  /\ finalize_session(playing.session, "LOSS", 1) \/ UNCHANGED sessions
  /\ UNCHANGED <<resumed, hand_results, chart, ticks>>

\* A decision is stored: the page draws its tick, and is sent the chart anew
\* after snapshot_interval of them.
Charted ==
  LET drawn == Append(chart, Last(decisions').loss)
      due == ticks + 1 >= snapshot_interval
  IN /\ chart' = IF due THEN [i \in DOMAIN load_recent' |-> load_recent'[i].loss] ELSE drawn
     /\ ticks' = IF due THEN 0 ELSE ticks + 1
     /\ UNCHANGED <<table, resumed, sessions, queued, hand_results>>

\* snapshot_frame, to a page that connects.
ChartSnapshot ==
  /\ chart' = [i \in DOMAIN load_recent |-> load_recent[i].loss]
  /\ ticks' = 0

\* A connection resumes the table: the results queued so far are lost.
ResumeRecord ==
  /\ table # "closed"
  /\ resumed' = (resumed \/ queued # <<>>)
  /\ queued' = <<>>
  /\ ChartSnapshot
  /\ UNCHANGED <<table, sessions, hand_results>>

\* start_session.
start_session ==
  /\ table = "closed"
  /\ table' = "over"
  /\ resumed' = FALSE
  /\ sessions' = Append(sessions, Open)
  /\ ChartSnapshot
  /\ UNCHANGED <<queued, hand_results>>

\* deal_next_hand.
HandRecord ==
  /\ table = "over"
  /\ table' = "played"
  /\ UNCHANGED <<resumed, sessions, queued, hand_results, chart, ticks>>

-----------------------------------------------------------------------------
\* The pages of the history hold every finished session once, the latest first,
\* their rows agree with the statistics above them and with the page of each
\* session, in whatever order and way the sessions ended, and a session has a page
\* of its own if and only if it is listed.
PagesMatchTheRecord ==
  LET first == render_tournaments(1)
      summaries == FlattenSeq([p \in 1..first.pages |-> render_tournaments(p).sessions])
      rows == [i \in DOMAIN summaries |-> DrillRow(summaries[i], Len(sessions))]
      Sum(column(_)) == Total([i \in DOMAIN summaries |-> column(summaries[i])])
      NoRow == [running_wins |-> 0, running_decided |-> 0]
  IN /\ Len(rows) = Cardinality(finished)
     /\ {rows[i].id : i \in DOMAIN rows} = finished
     /\ {s \in DOMAIN sessions : tournament_detail(s) \notin {NotFound, Failed}} = finished
     /\ first.stats.total_ev_loss = Sum(LAMBDA r : r.total_ev_loss)
     /\ first.stats.decisions = Sum(LAMBDA r : r.actions)
     /\ first.stats.hands_won >= Sum(LAMBDA r : r.hands_won)
     /\ LET page == tournaments(0, Len(sessions))
        IN /\ page.rows = SubSeq(rows, 1, Len(page.rows))
           /\ {page.drills_won, page.hands_won} \subseteq 0..1000
     /\ rows # <<>> => summaries[1].running_wins = first.stats.drills_won
     /\ \A i \in DOMAIN rows :
          LET before == IF i = Len(rows) THEN NoRow ELSE summaries[i + 1]
              won == rows[i].badge = "WIN"
          IN /\ i < Len(rows) => sessions[rows[i].id].end >= sessions[rows[i + 1].id].end
             /\ rows[i].is_highlighted => \A k \in DOMAIN rows : rows[k].is_highlighted => k = i
             /\ summaries[i].running_wins - before.running_wins = IF won THEN 1 ELSE 0
             /\ summaries[i].running_decided - before.running_decided
                  = IF rows[i].badge = "dash" THEN 0 ELSE 1
             /\ won => rows[i].running_win_rate[1] > 0
     /\ \A i \in DOMAIN rows :
          LET detail == tournament_detail(rows[i].id)
              points == detail.dataset
          IN /\ detail.badge = rows[i].badge
             /\ detail.ev_loss = summaries[i].total_ev_loss
             /\ detail.win_rate[1] = summaries[i].hands_won
             /\ {detail.lost[1], detail.lost[2] - detail.all_in[1]} \subseteq Nat
             /\ Len(points) <= DECIMATED_POINTS
             /\ Last(points).loss = Last(DecisionsOf({rows[i].id})).loss
             /\ \A k \in 2..Len(points) : points[k - 1].x < points[k].x

\* No hand has two results, and a session has one of every hand if one connection
\* played it to its end and stored them.
EveryHandHasItsResult ==
  LET stored == {i \in DOMAIN hand_results : hand_results[i].session = playing.session}
  IN /\ \A i, j \in DOMAIN hand_results :
          /\ hand_results[i].session = hand_results[j].session
          /\ hand_results[i].number = hand_results[j].number
          => i = j
     /\ stored # {} /\ ~resumed =>
          {hand_results[i].number : i \in stored} = 1..playing.number

\* The chart of the page is the latest of what is stored, by ticks as by
\* snapshots, over reconnects and tournaments, and the average beside it is the
\* chart's.
ChartShowsTheRecord ==
  LET shown == Recent(chart, CHART_WINDOW) IN
  /\ shown = Recent(Losses(decisions), CHART_WINDOW)
  /\ hero_avg_ev_loss = Rate(Total(shown), Len(shown))
  /\ decisions # <<>> => Last(load_recent).x = Len(decisions)

\* What is stored of the tournaments, and everything the pages and the chart
\* show of it, agree.
RecordsAgree == PagesMatchTheRecord /\ EveryHandHasItsResult /\ ChartShowsTheRecord

=============================================================================
