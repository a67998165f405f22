# Formal model of pokertrainer

TLA+ modules that model the poker trainer in `src/`, TLC configurations that
check them on small instances, and proofs about the engine, the table session, the
offered actions and the page, the store, the deck, the blunder tracker, the searcher, the
search tree, the imports and the analysis job, for every value of their constants. Paths below are relative
to the directory that holds `src/`; the program's own sources are under `src/src/`.

## The system

The program is one server with one live tournament: a hero against two bots,
three seats, no-limit, played over a WebSocket and coached by a solver. Beside it,
requests of the pages import hand histories and grade the opponents in them.

| Part | State it keeps | Operations | Talks to |
|---|---|---|---|
| Engine, `game/` | stacks, contributions, bet, folds, all-ins, eliminations, button, actor, result | deal, apply action, advance street, showdown, next hand | called by the session, the solver and the replay |
| Deck, `card.rs` | 52 cards and a position | deal, shuffle, rebuild from the rest | owned by the session |
| Session, `server/session.rs` | the engine, the decision under review, the check-fold, the HUD, queued records and hand results | submit, check-fold, confirm review, pump, deal on, snapshot | called by the socket task, one call at a time |
| Blunder tracker, `blunder.rs` | the latest losses, and actions per hand | judge a loss, hydrate from stored decisions | owned by the session |
| Policies, `mcts/actions.rs`, `opponent.rs`, the dock | none: functions of the hand | candidates, an opponent's answer, the dock, resolve a submission | the solver, the session, the page |
| Store, `live.rs` | one row: session, snapshot, `connected` | claim or resume, save, clear, release | called by every connection, over SQL |
| Connection, `server/ws.rs` | a session it drives, the solver's last snapshot | claim, play, deal on, give up, finish, leave | browser, store, searcher |
| Searcher, `server/ws.rs`, `mcts/` | the search tree of the current decision and its label | reshape, publish a status, stop | two channels to the connection |
| Page, `assets/app.js` | the state on screen, the dock's lock | show frames, send clicks | the connection |
| Import, `hh.rs` | tournaments and hands, in the database | scan the directory, one transaction a request | browser, database |
| Analysis job, `opponent_analysis.rs` | one job, stored scores | walk hands through the engine, grade, report | browser, database, solver |
| Field model, `opponent_history.rs` | counts per node, stack and position | build from the window of decisions | the solver's priors, the policies, the coach's panel |

What is hard in it, and what makes each part correct:

- *Engine.* Folds, short all-ins and short blinds over several streets and
  hands: chips must be conserved, every pot must have an owner, the acting
  order must neither skip nor repeat, and a hand must end.
- *Offers.* Sizes are clamped to stacks, minima and one another: what the
  solver values, the bots draw and the dock shows must be legal and distinct.
- *Session.* Calls nest (a pump may submit the auto-fold, which may be held
  back): the pump must come to rest on a decision of the hero or a result,
  everything must be recorded once, the tournament must end with the right winner.
- *Store and connection.* Tasks interleave at every SQL statement, statements
  fail, clients leave at any time and the process may die: one driver per
  table, no table locked, no outcome rewritten, nothing shown lost.
- *Resumed tables.* The deck's past and the tracker are rebuilt, not read back.
- *Searcher and page.* Statuses and commands race with moves: the dock may open,
  and a submission be scored, only for the decision on the table.
- *Search tree.* Warm starts, promotions and rebuilds must keep the counts true.
- *Import and job.* Concurrent transactions over the same rows, aborts, restarts.
- *Replay.* A real table's order of acting and its amounts, against the engine's.

`PROJECT.json` lists every component, modelled or not, and every hazard at the
line where it bites.

## Modules

| Module | Models |
|---|---|
| `GameState` | the engine: `state.rs`, `pot.rs`, `action.rs`, `seat.rs` |
| `ChipLedger` | what the engine promises: chips are bet into a pot, a hand pays all of it out, and who is left with none is out |
| `Policy` | what is offered at a decision: candidates, sizes, answers of the bots, playouts, the dock, submissions, nodes |
| `TableView` | what the table page shows of a hand, and the words of the log and the coach's list |
| `MCGameState` | the engine and its offers, with a history of full raises; the mapping to `ChipLedger` |
| `Session`, `MCSession` | the table session on top of the engine; the history its checks need |
| `Deck`, `Blunder`, `Analytics` | the deck; the blunder tracker; what is stored of tournaments and shown of it |
| `TableResume` | the three of them on a table that deals, resumes and starts anew |
| `LiveTable`, `MCLiveTable` | the store, the stored decisions and the connections; the history its checks need |
| `Searcher` | the socket loop, the solver's worker, the channels between them, and the page |
| `Evaluator`, `Worlds` | the hand evaluator and the classes of holdings; the worlds a solve samples, their runouts, and the ranking of what they found |
| `WorldSearch` | the search tree of one sampled world |
| `Solve`, `MCSolve` | a solve from its question to the judgement of what was played, around the tree |
| `HistoryImport` | scans of a growing directory of exports, as transactions |
| `FieldAnalysis`, `MCFieldAnalysis` | the analysis job over what the imports store |
| `Replay` | an imported hand at the real table, walked line by line through `GameState` |
| `OpponentHistory` | what the walk freezes, counted into the model of the field |
| `GameStateProofs`, `LiveTableProofs`, `SearcherProofs` | the proofs about the module each is named for |
| `TableProofs` | the proofs about `MCGameState`, `Policy`, `TableView` and `Session` |
| `ReplayProofs` | the proofs about `Replay` inside `OpponentHistory` |
| `ResumeProofs` | the proofs about `Deck`, `Blunder` and `Analytics` inside `TableResume` |
| `SolveProofs` | the proofs about `WorldSearch` and `Worlds` inside `Solve` |
| `ImportProofs` | the proofs about `HistoryImport` and `FieldAnalysis` |

`Session` and `Replay` extend `GameState` and take its actions as their own steps;
`Policy` and `TableView` extend it with operators only; `FieldAnalysis` extends
`HistoryImport`, `OpponentHistory` extends `Replay`, `Analytics` extends `Blunder`.
Operators named like a definition with a suffix, marked *Mutant*, are plausible bugs
used to see that each property can fail.

**GameState.** Each variable is a field of `GameState`, except `outcome`, the
`ActionOutcome` of the last call, by which `apply_settled` chooses what follows.
Chips are exact. Cards are not: the engine looks at the number of cards on the
board and at the order of the hands at a showdown, and the model takes any order,
ties included. The solver and the replay drive copies of the same engine.

**Policy.** Functions of a state of the engine. A random choice is the set of what
it may draw: `placeholder_action` and `template_action` for the bots,
`action_probs` for playouts. Fractions of the pot are in thousandths. From the
click to the action: `ActionPanel` is what the dock offers, `WireAction` what the
page sends for it, `resolve_action` and `resolve_bucket` what the server makes of
it (the empty set is a rejection).

**TableView.** Functions of a state of the engine: the class, the markers, the cards,
the flag and the amounts of each seat's fragment, the pot, the board, who is waited
for, and whether there is a dock; what a line of the log names; and the costs and
words by which the coach lists the candidates.

**Session.** `call` names the public method that is running; its first step is an
action of its own and the loop of `pump` is played a seat at a time. Whether a
submission is intercepted, and which action the coach prefers, is free. `unrecorded`
is the decisions less the records queued, `hud` the counters of the HUD before the
flop. `Resume` is a snapshot round trip (`to_snapshot`, `from_snapshot`), which keeps
the engine and the counters and loses the rest.

**Deck, Blunder, Analytics, TableResume.** `Deck` is the array and the position, with
the cards of the hand being dealt; `Resume` rebuilds it with `try_from_remaining`.
`Blunder` computes the window, the trigger ratio and the threshold exactly, over
whole-number losses. `Analytics` keeps the sessions, the decisions and the results of
hands, the queries over them, the pages that render them, and the chart beside the
table with its snapshots and ticks. In `TableResume` a behaviour follows one half of
the table through its calls, the deck or the record, since neither reads the other.

**LiveTable.** Each connection has a program counter, and each SQL statement is a
step, so two claims interleave as PostgreSQL's default isolation allows: a
statement sees what others have committed. Any statement, a restore included, may
fail, `MaxFaults` times: the connection goes on as the code does. `Restart` is a
killed process that boots again and clears the flag. After a move the connection
stores the decisions, then saves, then sends; after the result pause it deals and
sends before it saves. A connection that opens shows the table first, then deals on
where it rests on a finished hand and shows that, and saves last, before it listens to
its client (`Show`, `DealOnOpening`, `ShowDealt`, `Start`). A session is the number of its
moves and decisions, and a result.

**Searcher.** The socket loop handles one message, status or pause at a time, so a
handler is one step; commands, statuses, frames and clicks are queues. The worker
takes all waiting commands and keeps the last, reshapes its tree along the path
(`Follow`: the node is there and is the state commanded, or the tree is rebuilt),
runs chunks until its budget is used, and sleeps. A phase may be reached at any
chunk. `decision_token` is hand, action count and street, and the model lets it
repeat where the code does. `shown`, `solved` and `reused` record what the properties
speak of. Stopping and aborting the worker is part of `Leave`.

**WorldSearch.** The arena of nodes with visits, sums, depths and children. What an
action leads to, which branch is sampled and what a playout returns is free; what is
counted where is not. `final` and `head` record what a node's playouts ended with
and what it had when it came under the root.

**Evaluator, Worlds, Solve.** `Evaluator` computes the value of a hand as `evaluate7`
does, by counts of ranks and masks of suits, and states the rules of poker beside it as
the best of the hands of five. `Worlds` draws the opponents' holdings one seat after
the other, by weights, without the cards that are known or drawn; builds the runout of
a playout, and compares its tiers; combines what the worlds report into one ranked list.
`Solve` puts them at both ends of the tree: the question is asked of a set of
candidates, worlds are sampled or the solve fails, the worlds' reports are combined,
and the action played is judged. Values and weights are small whole numbers.

**HistoryImport, FieldAnalysis.** A request scans the directory as it is, upserts its
tournaments in the order of `next_rows`, each holding its row to the end of the
transaction, inserts its hands where they are not yet stored, and commits; it may be
aborted at any step, and its answer marks the tournaments of its new hands. The pages
are functions of what is committed: the hands a page selects, their aggregates, the
listing of the tournaments before a given one, the overall statistics, and the modal
starting stack a new table begins with. The job loads a window and the stored scores,
grades hand by hand, newest first, stores each score by side, and may fail or be
restarted at any step. Its report gives the template of the bots when it is saved; the
pages of the field add rolling figures, the totals of each tournament and the progress
of the job. A score is some decisions of the opponents and of the hero and what they
lost.

**Replay, OpponentHistory.** The real table is written out from the rules of poker and
chooses the lines of a hand; `WalkLine` is the loop body of `walk_hand`.
`OpponentHistory` collects its decisions in a window of one hand (the counts of
several hands add up; the hero's rows of a live table are pooled with them), reveals
any of the hands still in at the end, and builds the ranges, the frequencies and the
read. A hand class is the seat it was dealt to. A refresh upserts the rows over those
an earlier window left (`EarlierRows`), a table loads them and trusts a row of at
least `MIN_SAMPLE_HANDS` samples, and plays by `Fallback` otherwise; a step of loading
that fails leaves its part empty. The coach takes the seats to hold what the solve of
an opponent takes them to hold, and its panel shows the hands, the card and the read of the
field beside the hero's. On a live table the session keeps its own c-bet tracker
(`note_aggressor`): here it is played over the same decisions, and what it says goes into
the hero's rows and the ranges that are looked up. The job's grading walks the same decisions: `searched` names
those it solves, and every decision of the hero must be graded, or counted as left
out, once.

## Runs

| Run | Bounds | Shows |
|---|---|---|
| `engine` | 4 chips a seat, blinds 1/2 | whole tournaments: chips, order, pots, payouts; refinement of `ChipLedger`; full raises reopen; every offer is sound; the page shows the hand as it is; every hand ends |
| `session` | 2 chips, blinds 1/1, 2 hands | rest states, reviews, records, results, HUD, the winner; every call returns |
| `session_check_fold` | as `session` | *violated*: a check-fold ends with its street |
| `resume` | deck of 4, hole cards 1 or 2, 1 board card; 2 tournaments of 2 hands, 3 decisions of loss 0 to 2, windows of 2 and a chart of 2 points | no hand runs out of cards or deals one twice before a resumed deck is shuffled; the tracker knows the stored decisions and no others, and holds the worse half only; sessions, results, pages and chart agree with what was stored |
| `deck_resume` | 5 cards, 1 or 2 hole cards, 1 board card | *violated*: a hand deals no card twice |
| `live_table` | 2 connections, 2 tournaments, 2 moves, 1 decision, 1 failing statement | no locked table, no rewritten outcome, no mixed snapshots, nothing shown lost, no decision lost or stored twice |
| `live_table_claim` | as `live_table`, no failure | *violated*: one driver per table |
| `searcher` | 3 decisions on 2 streets, 2 clicks and 2 frames under way, 1 waiting status, 2 chunks | the dock opens, only by a finished search of its decision; submissions are scored by it; labels are true |
| `world_search` | depth 3, 2 candidates a node, 2 sweeps, 1 move; 5 decisions over decks of 12 to 14 cards, 2 worlds, 2 reported candidates | counts and depths agree, every candidate is valued, none is starved; hands rank by the rules, worlds hold no card twice, playouts are even, verdicts are ranked |
| `world_search_rebase` | depth 3, 1 candidate, 1 sweep, 1 move, stack 2 | *violated*: a report is relative to the stack at the root |
| `field_analysis` | 2 requests, 2 jobs, 3 exports, windows of 2 hands and 1 decision | rows, pages, figures and template agree with the hands and scores; each hand announced once, and by the page that shows it; one job, no hand solved twice, reports complete; every scan ends |
| `replay` | stacks of 0, 1 and 7, blinds 1/2, a minimum of 2 samples, one failing step of loading | decisions frozen as they were faced, filed, counted and graded as they were played, the hero's own too; tables play by what the window counted, and the panel tells it |

Why the bounds are enough. Four chips with blinds 1/2 give room for a full
raise, a short all-in, a blind that puts a seat all in, three levels of side
pots, a split pot with an odd chip, and, over the hands, stacks of every size
from 0 to 12; more chips only add amounts, and the proofs cover every amount. For
the session, two chips reach all-in blinds and two hands the deal after a hand,
unequal stacks, an elimination, and the state a hand leaves to the next. Two
connections, each of which may come back, are one that leaves or dies and one that
takes its place, in every order of their statements; two tournaments tell an old
row from a new one; all six properties are proved for any number of both. In
`resume` the windows and the chart overflow, a page of the listing ends, and the deck
is reshuffled. Three decisions are one
on the table, the one before, whose statuses are still under way, and the one after; a
second street makes the tree be rebuilt. A depth of three has a chance node
below a chance node and a decision to move to. Two requests over three exports
make two scans write the same two rows, of different states of the directory. Seven
chips give the replay a full raise and a short one after a bet; the seats without
chips make it two-handed.

The deadlock check is off where the model stops at a bound: `live_table`,
`searcher`, `world_search`, `resume`. It is on for the engine, the session (a
tournament that is over, or has used its hands, stutters in `SessionOver`), the
imports and the replay (`WalkEnds`).

What the properties leave out is written in them: claims that were contested
(the violated run shows what those do), the windows in which the code shows or
stores before it saves, tokens that a confirmed review uses again, hands whose big blind
was short or in which somebody called all in, raises after the flop in `InvestedIsExact`,
clicks on a raise as high as the stack in `ClicksAreTaken`, and commits while a page is
read in `PagesShowTheField`.

## Fairness

Only where the code runs by itself. `MCSession` assumes weak fairness of the pump:
a call is synchronous and its loop takes the next step as long as there is one.
`HandsEnd` of the engine, with weak fairness of the steps of a hand, says that no
sequence of legal actions keeps a hand going for ever, whoever chooses them.
`Searcher` assumes it of each task that has something to do (the page showing a
frame, the loop handling a message, a pause, a status or the worker's end, the
worker) and nothing of the hero's clicks. `FieldAnalysis` assumes strong fairness of
a request's steps, and none of the job's: PostgreSQL serves the waiters of a row in the
order they came. The other modules state safety only.

## What is proved

Every theorem is for every value of the constants, and for any number of connections,
requests, jobs, hands, lines or decisions, under the assumptions named in the modules:
`ChipsAssumption` for the engine, the offers, the page, the session and the replay
(`0 < small <= big` and `small + big < 3 * stack`; the imports decide the stack, which
may be below a blind), `SeatStacksAssumption` (a seat of an imported hand declares at most
a starting stack), `DeckAssumption` (the hole cards and the board fit the threshold;
in the code 6 + 5 cards, a threshold of 11 and 52 cards), `BlunderAssumption` and
`AnalyticsAssumption` (windows of at least two losses and hands), `ExportAssumption`,
`HandAssumption` and `AnalysisAssumption` (finitely many exports of finitely many hands),
and `DecisionsAssumption` (a decision has cards on the board, whole weights of classes of
hands, and two different cards wherever a seat's are known; of a coach's decision the hero
is in, with cards that are not on the board).

**The engine** (`GameStateProofs`). `IInv` is an invariant, and with it type
correctness (so no unsigned subtraction wraps), `ChipsConserved`,
`EveryPotHasAClaimant`, `ActorIsPending`, `BetIsTheHighest`, `StreetClosesLevel`,
`AllInMeansNoChips`, `BustedMeansNoChips`, `LegalActionsArePayable`,
`PayoutsAreCovered` and, as an action property, `BustedStayOut`.

The properties are not inductive: that a pot keeps an owner when a seat folds
depends on who brought what into the street. `IInv` therefore speaks of
`Base(s)`, what a seat had put in before this street. Every seat that can still
bet has the highest base, and some live seat with the highest base holds the
current bet; a fold needs a bet to face, so it never removes the last such seat.
For the acting order, `TurnInv` says that the actor is pending and that no settled
seat which can bet lies between it and a pending one, so the next actor found by
walking left is pending again or nobody is, and the street closes level.
Conservation at a showdown is proved from the pots: the three slices add up to
the contributions, every nonempty pot has an eligible seat, and the shares of a
pot, odd chips included, add up to it whatever the order of the hands. `PayoutsAreCovered`
adds `PotInv`, that a hand in progress has chips in the pot and its all-in seats have put
some in: a share is bounded slice by slice, and only an eligible seat has one.

**The table** (`TableProofs`). `ImplementsLedger` is proved step by step: dealing opens a
hand of the ledger, an action that leaves the hand going on bets, one that ends it
settles, a showdown settles, and the rest stutters. Out of the ledger's tournament are the
engine's eliminated seats: at the end of a hand they are those without chips
(`mark_eliminated`), no seat out is dealt in, and none goes out within a hand
(`NobodyIsOutInAHand`). `FullRaiseReopens` needs that the
seat of the last full raise, the only one `legal_actions` keeps from raising, is one no
full raise was made against since. `ThePageIsTrue` needs that a hand in progress has no
result, that nobody folds without cards, and that what a finished hand paid is what its
pot held.

**The session** (`TableProofs`). `SessionPlaysTheEngine` maps every step of a session
to a step of the engine or a stutter, so `IInv` holds at every table. On top of it
`RestInv` says where a call may come to rest, `ReviewInv` that the action held back, and
its replacement, are legal at the decision on the table and alone unrecorded, `HudInv`
what the HUD counted before the current hand and in it. With them `AtRestTheHeroDecides`,
`TheEndIsTheHerosEnd` and `EverythingIsRecordedOnce` hold for any number of hands.

**The offers** (`TableProofs`). `OffersStaySound` is the whole of `EveryOfferIsSound`, for
all stacks and blinds. Every size, clamped as the code clamps it, lies between the
smallest and the largest legal amount, or is the whole stack: so candidates and
answers are legal, the dock is exactly the set of legal actions, and a sized click is
taken. That candidates pay differently follows from the clamp too, as amounts at the
maximum become the one all-in and equal ones are dropped. That a label names one
candidate needs a second invariant, `QuietInv`: from the flop on a seat that has not
acted has put nothing in, so a bet's label determines its amount.

**The store** (`LiveTableProofs`). For any set of connections and any bounds, failures
included: type correctness, `NoTableIsLocked`, `SnapshotsStayInTheirTournament`,
`OutcomeWrittenOnce`, `DecisionsAreRecorded`, `NothingIsUndone` and
`NoTournamentIsOrphaned`. The invariant adds that a connection
past its claim has a table, and that a row marked connected is owed a release by some
connection that is neither off nor closing, or by a failed one until the restart:
that is why it does not matter whose flag a release clears. `RecordInv` bounds what each
table on its way to the row has over the stored decisions. While no claim was
contested, `Alone` says that at most one connection is past its claim, and `Keeps` what it
owes: the row, the page and the stored decisions may be ahead of one another only by
what this connection is about to write, or by a loss that was named when it happened.

**The deck** (`ResumeProofs`). `HandNeverRunsOut` and `NoCardTwiceUntilReshuffled` for any
deck, hole cards and board. A table never resumed has a permutation of the deck before
it, so a shuffle is harmless; of a resumed one only the hand and the rest of the deck are
known to be apart (`Apart`), which is why the invariant ends with the next shuffle. A new
table's deck is an initial state again (`TableKeepsDeck`).

**The tracker** (`ResumeProofs`). `TrackerIsSound`, for any windows, target and losses
(`BlunderAssumption`). `Matches` couples a tracker with the losses it was told, and is kept
by each of its operations: what falls out of a window does not come back
(`RecentOfAppend`), and the totals of the hands neither lose nor gain a decision until
their window overflows (`TotalAppend`, `TotalOfRecent`). What `hydrate` computes is a fold
of any length over records; `ReplayRuns` unfolds it into the replays of the beginnings of
the history, and induction over its length gives `MatchesHydrate`: reading back the latest
decisions of all tournaments is enough. That a review asks for the worse half only is
arithmetic: the ratio is at most a half (`TriggerRatio`), so the rank k has 2k <= n + 1
(`TriggerRank`), fewer than k losses exceed the k-th largest (`FewExceed`), and the
decision that is held joins them as one more.

**The record** (`ResumeProofs`). Two of the three parts of `RecordsAgree`.
`TheChartShowsTheRecord`: the chart and the average beside it. `EveryHandKeepsItsResult`:
`QueueInv` says that the results queued are those of the last hands of the tournament,
in order and without a gap, and of all of them where no connection was lost; `StoredInv` that nothing
is stored of a tournament that is still open. So what is stored at its end repeats
nothing, and an end that fails to store leaves none of them.

**The searcher** (`SearcherProofs`). `OpenDockIsSolved`, `LabelsAreTruthful` and
`ScoredByItsOwnSearch`, for any number of decisions, clicks and queued messages. The
invariant has two halves. `NamesInv`: everything under way that carries a decision and a
token, in whichever queue, got them from the table, and a token no review has used again
stands for one decision. `OrderInv`: along the line from the table through the commands,
the search and the statuses to the page and its clicks, decisions never increase, so
what the page answers was searched before.

**The imports and the job** (`ImportProofs`). `NewHandsReportedOnce`: a request holds the
rows it has written, and by the time it inserts hands it has written the rows of all the
hands it parsed (`KnowsItsHands`), so two requests never have the same hand for new,
whatever aborts and whatever commits first. `TheJobIsTrue`: the state says running
exactly while one task is behind it (`OwnerInv`); what a task has counted and what is
left for it, less what had a score, make up its window, and what is left and has a score
is known to the task (`TaskCounts`), since no other task stores any.

**The replay** (`ReplayProofs`). `TheReplayIsFaithful`, `DecisionsFiledAsPlayed` and
`InvestmentIsExact`, for all stacks and blinds and hands of two and three seats. The real
table and the engine are two machines with different rules for whose turn it is: the table
asks the next seat that has to answer, the engine searches its seats in order and takes
the first that is pending. `ReplayInv` has a part for each and one for both.
`Sound`: at the real table the actor has to act, somebody is left to play with, and no settled
seat sits between the actor and one that still waits; so the engine's search finds the
seat the table asks. `Mirrored`: after a big blind posted in full, chips, bets, folds,
raises, the street and the seat to act are the same in both while the real hand goes on,
one street apart while the walk settles, and so are the aggressors unless somebody called
all in. It ends with the real hand, when the engine may still ask a seat that nobody can
answer, and nothing is read from it any more. `GivenUp` says that only a short big blind
makes the walk reject a line, and `InvestedIsExact` is kept beside them. `ReplayInvariance`
states all of it. `PointsAreMoves` is its use for the model of the field, the first part of
`TheFieldIsCountedAsItPlayed`: what is counted and graded is, decision by decision, what
was done, whatever is later made of it.

**The search tree** (`SolveProofs`). `EveryCandidateHasItsShare` of `Solve`, for any horizon,
number of candidates and sweeps, payoffs, prices and moves, whichever branch UCB1 or the
policy takes. The property speaks of the root only, but a promotion makes another node
the root, so its invariant speaks of the arena. `ArenaInv`: a tree, in which a child comes
after its one parent; `PathInv`: the path goes down from the root through one branch;
`FreshInv`: what is still to be expanded has no children yet and is no settled branch of
the root; `PlayedInv`: every node was played out but the last one of the path, so a
promoted node has no untried candidate with visits; `ShareInv`: while branches are being
opened none has more than its head start, afterwards an iteration goes through one that had
the least. `TreeInvariance` states the five for every reachable state.

`TheTreeIsConsistent` rests on those and on `CountedInv`. Between two iterations a node
counts what its children passed on; while one runs it does not, so `CountInv` adds the
playout owed to the node just opened, and claims nothing above the root, where the counts
stop. A playout then adds one to a node of the path and to exactly one of its children,
since none is listed twice (`OnceInv`) and the path goes from child to child
(`StepsDown`). `DepthInv` allows what a promotion leaves behind, whose depths stop at 0; that
the nodes of the tree are not among those follows from the least counterexample. The sums
are over finite sets, and what is needed of them (`SumRemove`, `SumEqual`, `SumGrows`)
is proved by induction over the subsets of a finite set (`FiniteInduction`), from the
library's theorem that proper inclusion is well-founded there.

**The worlds** (`SolveProofs`). `WorldsCanBeDealt`, a part of `SolvesAreSound`. `Fits` is
what a draw keeps, seat by seat: the hands that were known and those drawn so far share no
card with one another or with the board, which is a matter of counting (`TwoMore`): two
cards more for every hand. Pins are counted before anything is drawn, so that the test for
a clash is exact (`RoomForPins`).

What is only model-checked, and why:

- All liveness (`HandsEnd`, `EveryCallReturns`, `EveryDecisionOpens`, `EveryScanEnds`):
  fairness and `ENABLED` are outside of what the proof system handles.
- The first part of `RecordsAgree`, the pages (`PagesMatchTheRecord`: sessions sorted and
  decisions selected from sequences), `PagesShowTheField` (rows and totals folded over sets and
  sequences of hands), the other parts of `TheFieldIsCountedAsItPlayed` (counts of selected
  decisions) and of `SolvesAreSound` (weights summed over draws, the evaluator over the
  hands of a set, the ranking): folds and selections whose step is an operator of their own,
  which the library's theorems take as a parameter and the provers cannot instantiate.

## Findings

Four runs show the code doing other than its comments, tests or README say, and
`PROJECT.json` quotes the lines: a check-fold that outlives its street and hand
(`session.rs:669`); two connections claiming the table at once (`live.rs:63`); a
resumed deck that deals a card twice after a reshuffle (`card.rs:215`); playouts after
a promotion reported from the wrong stack (`mcts/tree.rs:222`).

Met while modelling, modelled as the code is, and without a run of their own:

- `server/protocol.rs:185`: a raise to a total as high as the stack, which leaves chips
  behind because some are in already, is played as an all-in; the amount is the
  exact total to raise to (lines 17-18). The sizes of `bet_size.rs` and of the dock
  are clamped to the stack in the same way, and `classify` calls such a raise ALLIN.
- `game/state.rs:377`: a return may contain chips others called with (lines 44-46).
- `game/state.rs:204`: a short all-in reopens the betting for all but the last raiser.
- `server/session.rs:347`: a token used again opens the dock before its own solve.
- `server/ws.rs:167`, and a release or clear that fails: the table is taken until a restart.
- `server/http.rs:418`: a finished job is never started again (lines 410-411).
- `hh.rs:930`: a later scan of a summary without a start sets a tournament's start back
  to 1970.
- `hh.rs:393`: a raise after the flop is counted short in the hero's investment.
- `opponent_analysis.rs:332`, `server/session.rs:981`, `opponent_history.rs:210`: an all-in
  that calls is taken for aggression, and counted in the raisers' range.
- `opponent_analysis.rs`: a hand with a short big blind cannot be walked.
- `opponent_history.rs:158`: a seat of an imported three-handed hand may be filed
  under another's position; the big blind's check counts as voluntary (`:915`).
- `opponent.rs:378`: a raise of the big blind's option is not counted by the HUD;
  hands are counted for busted seats too (`:359`).
- `blunder.rs:130`: hydrating closes the hand in progress, and hands without a
  decision count live but not after a reconnect.
- `opponent_history.rs:1031`: rows of spots that left the window stay and are played by.
- `server/views.rs:938`: the check-fold button is offered before the flop as well.
- `mcts/rollout.rs:107`: heads-up, the eliminated seat still counts as an opponent to
  beat; the mass of a call is lost where the call is an all-in (`:173`).
- `server/ws.rs:193`: the modal stack of the imports need only be positive; with no
  more chips in play than the two blinds, both blinds of a two-handed hand are all-in
  and the engine asks one of them to act. `ChipsAssumption` leaves this out.
- `mcts/config.rs:25`: the depth counts the actions of all seats.
- `game/state.rs:903`: before the river the board is padded with the two of clubs, so a
  playout's tier on flop and turn counts a deuce nobody holds (lines 533-534 call it safe
  at any point).
- `analytics.rs:301`: the points of a session are numbered from 1 though the window left
  earlier ones out; `:320` counts the hands of sessions that have no decision.
- `analytics.rs:465`: the page of a tournament that has not ended is an error of the server,
  as a missing end is read as a string; lines 455-456 name `None` for a missing session or one
  without decisions only.
- `server/session.rs:288`: the results of hands live in the connection's session until
  the table ends: a give-up stores none, and a reconnect loses those of earlier hands.
- `server/session.rs:650`: `pending_check_fold` need not be `None` after a fresh deal.
- `server/session.rs:386`, `opponent.rs:94`: the raiser's range is looked up by the stack
  of the seat to act.
- `server/views.rs:1436`: the coach's list tells the cost of a raise as its total.
- `game/state.rs:353`: a showdown turns folded hands over too; `:489`: the big blind's
  marker moves on when the big blind has just busted.
- `server/http.rs:453`: a report without decisions can be saved as a template, of skill 0.
- `opponent_analysis.rs:915`: the players of a report are those of the hands graded in
  this run, its decisions those of all stored scores.
- `mcts/world.rs:189`: seats are drawn one after the other; a first draw that takes the
  only holdings of a later seat fails the solve, though another draw of both exists. Worlds
  are drawn in proportion to their probability and weighted by it again.

## Not modelled, and why

- What a playout is worth and the probabilities its actions are drawn with, the Bayesian
  update of ranges: floating point. Worlds are combined with whole numbers.
- The smoothing of the field's ranges and frequencies, and the rows a refresh has upserted
  before it fails: the next one writes them again.
- A commit between the five queries of the history page (`server/http.rs:326-330`), or between
  the queries of a tournament's: a page is read at one moment. In the code the later
  queries may know of an import, a score or a template the earlier ones do not, until the page
  is loaded again.
- Text: reading a line of an export, JSON, templates, drawing and sounds.
- The blind schedule (nothing raises the level during a tournament), configuration.
- The session's c-bet tracker as state of `Session`: it multiplies the states beyond what
  can be checked. `OpponentHistory` has it as a function of the decisions walked.

## Plan

1. The sums of `TheFieldIsCountedAsItPlayed` over the points `PointsAreMoves` speaks of, and
   of the pages in `RecordsAgree`, with recursive functions in place of `SelectSeq`.
2. The c-bet tracker of the session over an abstract engine.
3. What a playout returns, with the engine's payouts for the value of a leaf.
