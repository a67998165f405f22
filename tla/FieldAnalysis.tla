---------------------------- MODULE FieldAnalysis ----------------------------
(***************************************************************************)
(* The opponent analysis, src/src/opponent_analysis.rs, behind the pages   *)
(* of src/src/server/http.rs: one background job grades the decisions of   *)
(* the imported hands, keeps each hand's score in gg_hand_analysis, and    *)
(* leaves a report, from which the drill template is saved.                *)
(*                                                                         *)
(* The job shares its state with the requests over a mutex and reads what  *)
(* the imports of HistoryImport commit while it runs.  Grading a hand is   *)
(* free: some decisions, none, or a failure.  The score of a hand is how   *)
(* many decisions its opponents and the hero made and what they lost, in   *)
(* whole big blinds; a skill is in hundredths.                             *)
(***************************************************************************)
EXTENDS HistoryImport

CONSTANTS
  Task,              \* the jobs the server may spawn
  ANALYSIS_WINDOW,   \* newest hands that are graded
  EV_ROLLING_WINDOW, \* newest decisions that are reported
  SKILL_ZERO_LOSS_BB, \* the average loss that is no skill
  Grades             \* bound: what grading a hand with decisions may find

Side == {"opponent", "hero"}

ASSUME AnalysisAssumption ==
  /\ Task \subseteq Nat
  /\ {ANALYSIS_WINDOW, EV_ROLLING_WINDOW, SKILL_ZERO_LOSS_BB} \subseteq Nat \ {0}
  /\ Grades \subseteq [Side -> [decisions : Nat, loss : Nat]]
  /\ \A g \in Grades : \E side \in Side : g[side].decisions > 0

VARIABLES
  job,      \* JobState: Idle, Running with its progress, or Done with a report
  tasks,    \* per job spawned: where run_job is and what it has counted
  scores,   \* gg_hand_analysis: the grades of a hand
  template, \* drill_template, the row the bots are made from
  solved    \* history: the job has solved a hand that had a score already

analysisVars == <<job, tasks, scores, template, solved>>
vars == <<importVars, analysisVars>>

\* The grades of no decision.
Nothing == [decisions |-> 0, loss |-> 0]
Ungraded == [side \in Side |-> Nothing]

Idle == [state |-> "Idle", done |-> 0, total |-> 0, graded |-> 0, failed |-> 0,
         stats |-> Ungraded]
Running(done, total) == [Idle EXCEPT !.state = "Running", !.done = done, !.total = total]
Done(total, graded, failed, stats) ==
  [state |-> "Done", done |-> total, total |-> total, graded |-> graded,
   failed |-> failed, stats |-> stats]

\* No row in drill_template.
NoTemplate == [skill |-> None, decisions |-> 0]

NoTask == [at |-> "Off", window |-> {}, left |-> {}, stored |-> {}, graded |-> 0, failed |-> 0]

AnalysisInit ==
  /\ job = Idle
  /\ tasks = [j \in Task |-> NoTask]
  /\ scores = <<>>
  /\ template = NoTemplate
  /\ solved = FALSE

Init == ImportInit /\ AnalysisInit

\* load_recent_hands: the newest of the committed hands, up to a limit.
Newer(h, g) == h.at > g.at \/ (h.at = g.at /\ h.of > g.of)

load_recent_hands(limit) == {h \in hands : Cardinality({g \in hands : Newer(g, h)}) < limit}

Newest(hs) == SetToSortSeq(hs, Newer)

Plus(a, b) == [decisions |-> a.decisions + b.decisions, loss |-> a.loss + b.loss]

\* COALESCE over the LEFT JOIN: a hand without a score has no decision.
Grade(h, side) == IF h \in DOMAIN scores THEN scores[h][side] ELSE Nothing

\* Mutant: a side stops once either of the two has enough.
rolling_field_stats_either ==
  LET Enough(stats) == \E side \in Side : stats[side].decisions >= EV_ROLLING_WINDOW
      Take(stats, h) ==
        IF Enough(stats) THEN stats
        ELSE [side \in Side |-> Plus(stats[side], Grade(h, side))]
  IN FoldLeft(Take, Ungraded, Newest(load_recent_hands(ANALYSIS_WINDOW)))

\* The decisions of the newest hands, for either side until it has enough.  The
\* cut falls on a hand.
rolling_field_stats ==
  LET Take(stats, h) ==
        [side \in Side |-> IF stats[side].decisions < EV_ROLLING_WINDOW
                           THEN Plus(stats[side], Grade(h, side)) ELSE stats[side]]
  IN FoldLeft(Take, Ungraded, Newest(load_recent_hands(ANALYSIS_WINDOW)))

\* The average loss as a skill between 0 and 100; 0 without a decision.
skill_from(stat) ==
  IF stat.decisions = 0 THEN 0
  ELSE Later(0, 100 - (100 * stat.loss) \div (SKILL_ZERO_LOSS_BB * stat.decisions))

\* Of a tournament, whatever the windows are.
tournament_ev_totals(t) ==
  LET Sum(side) == FoldSet(LAMBDA h, sum : Plus(sum, scores[h][side]), Nothing, HandsOf(t) \cap DOMAIN scores)
  IN [opponent |-> Sum("opponent"), hero |-> Sum("hero")]

(***************************************************************************)
(* The request.  Another one, while may_start fails, changes nothing.      *)
(***************************************************************************)
\* Mutant: only a finished analysis is not started again.
may_start_unless_done == job.state # "Done"

may_start == job.state = "Idle"

\* history_analyze_opponents: the state is tested and set under the lock.
AnalyzeOpponents ==
  /\ may_start
  /\ \E j \in Task : tasks[j].at = "Off"
  /\ LET j == Min({i \in Task : tasks[i].at = "Off"})
     IN tasks' = [tasks EXCEPT ![j].at = "Load"]
  /\ job' = Running(0, 0)
  /\ UNCHANGED <<importVars, scores, template, solved>>

(***************************************************************************)
(* run_job.                                                                *)
(***************************************************************************)
\* The hands of the window are read, and the progress is published.
LoadHands(j) ==
  /\ tasks[j].at = "Load"
  /\ LET window == load_recent_hands(ANALYSIS_WINDOW)
     IN /\ tasks' = [tasks EXCEPT ![j] = [NoTask EXCEPT !.at = "LoadScores", !.window = window]]
        /\ job' = Running(0, Cardinality(window))
  /\ UNCHANGED <<importVars, scores, template, solved>>

\* load_stored_scores for the hands of the window.
LoadScores(j) ==
  /\ tasks[j].at = "LoadScores"
  /\ LET stored == DOMAIN scores \cap tasks[j].window
     IN tasks' = [tasks EXCEPT ![j].at = "Grade", ![j].stored = stored,
                               ![j].left = tasks[j].window, ![j].graded = Cardinality(stored)]
  /\ UNCHANGED <<importVars, job, scores, template, solved>>

\* Mutant: hands with a score are graded again.
is_stored_never(j, h) == FALSE

is_stored(j, h) == h \in tasks[j].stored

Without(task, h) == [task EXCEPT !.left = @ \ {h}]

SkipHand(j, h) ==
  /\ tasks' = [tasks EXCEPT ![j] = Without(@, h)]
  /\ UNCHANGED <<job, scores, solved>>

\* A hand counts as graded unless it has problems and no decision.
Counted(task, failed) ==
  [task EXCEPT !.graded = IF failed THEN @ ELSE @ + 1,
               !.failed = IF failed THEN @ + 1 ELSE @]

\* score_hand: the grades of its decisions, or that there are none, or a problem.
score_hand ==
  [problem : {FALSE}, grade : Grades \cup {Ungraded}] \cup [problem : {TRUE}, grade : {Ungraded}]

\* store_hand_score, when there is anything to store.  A score that cannot be
\* stored is still counted; one that is there stays.
GradeHand(j, h) ==
  /\ \E result \in score_hand :
       /\ tasks' = [tasks EXCEPT ![j] = Without(Counted(@, result.problem), h)]
       /\ \/ scores' = scores
          \/ /\ result.grade # Ungraded
             /\ h \notin DOMAIN scores
             /\ scores' = [g \in DOMAIN scores \cup {h} |->
                            IF g = h THEN result.grade ELSE scores[g]]
  /\ job' = Running(Cardinality(tasks[j].window \ tasks[j].left) + 1,
                    Cardinality(tasks[j].window))
  /\ solved' = (solved \/ h \in DOMAIN scores)

\* The hands of the window are taken in turn, newest first.
ScoreHand(j) ==
  /\ tasks[j].at = "Grade"
  /\ \E h \in tasks[j].left :
       /\ \A g \in tasks[j].left : ~Newer(g, h)
       /\ IF is_stored(j, h) THEN SkipHand(j, h) ELSE GradeHand(j, h)
  /\ UNCHANGED <<importVars, template>>

\* The rolling figures are read and the report is published.
Report(j) ==
  /\ tasks[j].at = "Grade"
  /\ tasks[j].left = {}
  /\ job' = Done(Cardinality(tasks[j].window), tasks[j].graded, tasks[j].failed, rolling_field_stats)
  /\ tasks' = [tasks EXCEPT ![j] = NoTask]
  /\ UNCHANGED <<importVars, scores, template, solved>>

\* Mutant: a failed job leaves its progress behind.
state_after_failure_kept == job

state_after_failure == Idle

\* A query fails or a grader panics: the task resets the state and ends.
JobFails(j) ==
  /\ tasks[j].at # "Off"
  /\ tasks' = [tasks EXCEPT ![j] = NoTask]
  /\ job' = state_after_failure
  /\ UNCHANGED <<importVars, scores, template, solved>>

(***************************************************************************)
(* The template of the bots.                                               *)
(***************************************************************************)
\* save_template: what the report says of the opponents.
template_of(report) ==
  [skill |-> skill_from(report.stats["opponent"]),
   decisions |-> report.stats["opponent"].decisions]

\* analysis_status_html offers to save a report that counts a decision, and a page
\* asks for the job only until it has ended: one that shows an older report
\* offers it still.
save_offered == \E h \in DOMAIN scores : scores[h]["opponent"].decisions > 0

\* history_save_template: the report of now, whichever the page shows; without
\* one the request is refused.
SaveTemplate ==
  /\ save_offered
  /\ job.state = "Done"
  /\ template' = template_of(job)
  /\ UNCHANGED <<importVars, job, tasks, scores, solved>>

\* history_clear_template.
ClearTemplate ==
  /\ template # NoTemplate
  /\ template' = NoTemplate
  /\ UNCHANGED <<importVars, job, tasks, scores, solved>>

JobStep(j) == LoadHands(j) \/ LoadScores(j) \/ ScoreHand(j) \/ Report(j)

\* The server stops and starts again: what was not committed is gone.
Restart ==
  /\ job' = Idle
  /\ tasks' = [j \in Task |-> NoTask]
  /\ scans' = [s \in Scan |-> Finished]
  /\ locks' = [t \in Tournament |-> None]
  /\ UNCHANGED <<directory, rows, hands, reported, scores, template, solved>>

Next ==
  \/ ImportNext /\ UNCHANGED analysisVars
  \/ AnalyzeOpponents
  \/ \E j \in Task : JobStep(j) \/ JobFails(j)
  \/ SaveTemplate
  \/ ClearTemplate
  \/ Restart

\* A request and a job that have begun go on by themselves, and the database
\* serves those that wait for a row in the order they came, so nobody is passed
\* over for ever.  Nothing makes anybody export, scan or analyze.
Spec ==
  /\ Init
  /\ [][Next]_vars
  /\ \A s \in Scan : SF_vars(Proceed(s) /\ UNCHANGED analysisVars)

(***************************************************************************)
(* The pages of the imported field, functions of the tables.               *)
(***************************************************************************)
\* TournamentRow: the result, the hands, and what a decision cost either side.
Badge(t) == IF rows[t].place = 1 THEN "WIN" ELSE IF rows[t].place = None THEN "none" ELSE "LOSS"

TournamentRow(listing, highlight) ==
  [of |-> listing.of, badge |-> Badge(listing.of), hands |-> listing.hands,
   ev |-> tournament_ev_totals(listing.of), is_highlighted |-> listing.of \in highlight]

\* Bound: the page is read at one moment.  The code runs five queries one after
\* the other, and what is committed between two of them is in the later ones only.
history_page_data ==
  [stats |-> overall_stats, tournaments |-> list_tournaments, template |-> template,
   rolling |-> rolling_field_stats]

\* history: the cards, the chip of the template, and the rows.
history_page(data, highlight) ==
  [stats |-> data.stats, rolling |-> data.rolling, chip |-> data.template,
   rows |-> {TournamentRow(listing, highlight) : listing \in Range(data.tournaments)}]

\* history_scan answers with the page of the listing that marks the tournaments
\* of the new hands.
affected_tournaments(new) == {h.of : h \in new}

\* The row of the listing, and its hands.
history_tournament_detail_page(t) ==
  [badge |-> Badge(t), cards |-> listing_hands(t), hands |-> Newest(HandsOf(t))]

NotFound == <<>>

history_tournament_detail(t) ==
  IF t \in Stored THEN history_tournament_detail_page(t) ELSE NotFound

\* analysis_status_html, as far as a number is worked out in it.
progress(status) ==
  CASE status.state = "Idle" -> 0
    [] status.state = "Running" -> IF status.total = 0 THEN 0 ELSE (100 * status.done) \div status.total
    [] OTHER -> 100

\* What the page of the job polls.
history_analyze_status == [state |-> job.state, progress |-> progress(job)]

-----------------------------------------------------------------------------
\* A job shown as running has exactly one task behind it, and no other state
\* has any: two requests never start two jobs, and a job that failed does not
\* keep the page waiting for it and the next one from starting.
JobIsOwned ==
  Cardinality({j \in Task : tasks[j].at # "Off"}) = IF job.state = "Running" THEN 1 ELSE 0

\* A hand is solved again only while it has no score: failures and restarts
\* of the job cost the hands that were not stored, and imports never reset one.
ScoredHandsAreNotSolvedAgain == ~solved

\* A report accounts for every hand of its window, as graded or as skipped, and
\* progress never runs ahead of the window.
ReportsCountEveryHand ==
  /\ job.state = "Done" => job.graded + job.failed = job.total
  /\ LET status == history_analyze_status
     IN /\ status.progress \in 0..100
        /\ status.state = "Done" => status.progress = 100

\* The figures of the pages tell the same story: the rolling figure of a side
\* leaves a decision out only when it has enough or more hands than it looks at,
\* and is otherwise what the tournaments add up to; the wins of the list and of
\* the lifetime statistics are the same; and the bots are made from a field no
\* better than the best and no worse than the worst of what was graded in it, the
\* hero's own play not among it.  A report without a decision is left out: a page
\* left open over a restart can save one, and its skill is 0.  And nothing is
\* committed while the page is read.
TheFieldIsToldAsGraded ==
  LET page == history_page(history_page_data, {})
      Total(side) == FoldSet(LAMBDA row, sum : Plus(sum, row.ev[side]), Nothing, page.rows)
      Skills == {skill_from(scores[h]["opponent"]) :
                   h \in {g \in DOMAIN scores : scores[g]["opponent"].decisions > 0}}
  IN /\ \A side \in Side :
          \/ page.rolling[side] = Total(side)
          \/ page.rolling[side].decisions >= EV_ROLLING_WINDOW
          \/ Cardinality(hands) > ANALYSIS_WINDOW
     /\ Cardinality({row \in page.rows : row.badge = "WIN"})
          = page.stats.tournaments_won
     /\ \A row \in page.rows :
          LET detail == history_tournament_detail(row.of)
          IN /\ detail # NotFound
             /\ detail.badge = row.badge
             /\ Len(detail.hands) = row.hands.hands
     /\ page.chip.decisions > 0 =>
          Min(Skills) <= page.chip.skill /\ page.chip.skill <= Max(Skills)

\* What a request is about to announce as new is its own: the tournaments it
\* marks are those whose rows it writes, and no other request has the same hands
\* for new.
ScansAnnounceTheirOwn ==
  \A s \in Scan : scans[s].at = "Commit" =>
    /\ affected_tournaments(scans[s].new) \subseteq DOMAIN scans[s].written
    /\ \A r \in Scan \ {s} : scans[r].new \cap scans[s].new = {}

\* And it is found on the page it leads to: the row has seen the hand.
ScansLeadToTheirHands ==
  /\ ScansAnnounceTheirOwn
  /\ \A s \in Scan : scans[s].at = "Commit" =>
       \A h \in scans[s].new : scans[s].written[h.of].finished >= h.at

\* The job is run once at a time, solves no hand twice, and accounts for all of
\* its window, whatever fails, restarts, and is imported meanwhile.
TheJobIsTrue ==
  /\ JobIsOwned
  /\ ScoredHandsAreNotSolvedAgain
  /\ ReportsCountEveryHand

\* What the pages show of the imports and of the grades is what is stored.
PagesShowTheField ==
  /\ RowsSummariseHands
  /\ TheFieldIsToldAsGraded
  /\ ScansLeadToTheirHands

=============================================================================
