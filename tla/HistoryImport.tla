---------------------------- MODULE HistoryImport ----------------------------
(***************************************************************************)
(* The import of hand histories, src/src/hh.rs: a request scans the        *)
(* directory of PokerCraft exports and merges what it parsed into the      *)
(* tables gg_tournaments and gg_hands, in one transaction.                 *)
(*                                                                         *)
(* Requests run side by side, and exports are added at any time, so a      *)
(* request may commit a scan older than the one before it.  A tournament   *)
(* it upserts stays locked until its transaction ends, and a second one    *)
(* that reaches the row waits, then sees what the first one committed      *)
(* (PostgreSQL's default isolation).  A transaction may end at any         *)
(* statement: the statement fails, or the client leaves and the request is *)
(* dropped; then nothing of it is kept.                                    *)
(*                                                                         *)
(* A hand is its tournament and the time it was played at.  Reading and    *)
(* parsing the texts is the set of exports the directory may hold: a file  *)
(* of hands, a summary with or without a start time, or neither.           *)
(***************************************************************************)
EXTENDS Integers, Sequences, SequencesExt

CONSTANTS
  Scan,       \* the requests
  Export,     \* the entries PokerCraft may have exported
  HeroWon,    \* the hands the hero won; what else is summed is left out
  HeroStack,  \* per hand, the hero's stack, or None if it could not be read
  STARTING_STACK_WINDOW, \* newest tournaments a drill's stack is taken from
  MaxExports  \* bound: entries in the directory

None  == -1 \* Option::None, NULL
Epoch == 0  \* '1970-01-01 00:00:00', for a tournament whose start is unknown

\* One entry of a zip: the hands of a tournament, or its summary, or nothing.
HandFile(t, times)  == [of |-> t, times |-> times, started |-> None, place |-> None]
Summary(t, started) == [of |-> t, times |-> {}, started |-> started, place |-> 1]
Unreadable          == [of |-> None, times |-> {}, started |-> None, place |-> None]

ASSUME ExportAssumption ==
  /\ None \notin Scan
  /\ IsFiniteSet(Export)
  /\ \A e \in Export : /\ e.of \in Nat \cup {None}
                       /\ IsFiniteSet(e.times)
                       /\ e.times \subseteq Nat \ {Epoch}
                       /\ e.of = None => e.times = {}
                       /\ e.started \in (Nat \ {Epoch}) \cup {None}

Tournament == {e.of : e \in Export} \ {None}
Hand == UNION {{[of |-> e.of, at |-> at] : at \in e.times} : e \in Export}

ASSUME HandAssumption ==
  /\ HeroWon \subseteq Hand
  /\ HeroStack \in [Hand -> Nat \cup {None}]
  /\ STARTING_STACK_WINDOW \in Nat \ {0}

VARIABLES
  directory, \* the entries of the history directory, in scan order
  scans,     \* per request: where it is, and what its transaction holds
  locks,     \* per tournament: the request whose transaction holds the row
  rows,      \* gg_tournaments, as committed
  hands,     \* gg_hands, as committed
  reported   \* history: how often a request reported a hand as new, per hand

importVars == <<directory, scans, locks, rows, hands, reported>>

NoRow == [started |-> None, finished |-> None, place |-> None]

\* A request that is not running.
Finished ==
  [at |-> "Off", builds |-> <<>>, parsed |-> {}, written |-> <<>>, new |-> {}]

ImportInit ==
  /\ directory = <<>>
  /\ scans = [s \in Scan |-> Finished]
  /\ locks = [t \in Tournament |-> None]
  /\ rows = [t \in Tournament |-> NoRow]
  /\ hands = {}
  /\ reported = [h \in Hand |-> 0]

(***************************************************************************)
(* TournamentBuild: what one scan knows of a tournament, merged entry by   *)
(* entry in scan order.                                                    *)
(***************************************************************************)
Earlier(a, b) == IF a <= b THEN a ELSE b
Later(a, b)   == IF a >= b THEN a ELSE b

\* merge_hand for each hand of a file.  No hand is earlier than the Epoch.
MergeHands(b, e) ==
  [b EXCEPT !.started  = Earlier(@, Min(e.times)),
            !.finished = Later(@, Max(e.times))]

FromHands(e) == [started |-> Min(e.times), finished |-> Max(e.times), place |-> None]

MergeSummary(b, e) ==
  [b EXCEPT !.started = IF e.started # None /\ (e.started < @ \/ @ = Epoch)
                        THEN e.started ELSE @,
            !.place   = IF e.place # None THEN e.place ELSE @]

FromSummary(e) ==
  [started |-> IF e.started # None THEN e.started ELSE Epoch,
   finished |-> None, place |-> e.place]

Merge(b, e) ==
  CASE b = NoRow /\ e.times # {} -> FromHands(e)
    [] b = NoRow /\ e.times = {} -> FromSummary(e)
    [] b # NoRow /\ e.times # {} -> MergeHands(b, e)
    [] OTHER -> MergeSummary(b, e)

TournamentBuild(dir, t) ==
  FoldLeft(Merge, NoRow, SelectSeq(dir, LAMBDA e : e.of = t))

\* The tournaments of a scan.
Scanned(dir) == {e.of : e \in Range(dir)} \ {None}

\* Mutant: the rows are written in any order, as those of a HashMap.
next_rows_any(due) == due

\* The rows are written in the order of the BTreeMap.
next_rows(due) == {t \in due : \A u \in due : t <= u}

(***************************************************************************)
(* The statements of the transaction.                                      *)
(***************************************************************************)
\* Mutant: the values of this scan replace the row's.
upsert_latest(row, build) == build

\* INSERT INTO gg_tournaments ... ON CONFLICT (id) DO UPDATE.
upsert(row, build) ==
  IF row = NoRow THEN build
  ELSE [started  |-> IF row.started = Epoch THEN build.started
                     ELSE Earlier(row.started, build.started),
        finished |-> Later(row.finished, build.finished),
        place    |-> IF build.place # None THEN build.place ELSE row.place]

\* Mutant: the hands that were there already are returned as well.
new_hands_all(parsed) == parsed

\* INSERT INTO gg_hands ... ON CONFLICT (hand_id) DO NOTHING RETURNING hand_id.
new_hands(parsed) == parsed \ hands

\* An export is saved to the directory; its name sorts it anywhere.
AddExport ==
  /\ Len(directory) < MaxExports
  /\ \E e \in Export \ Range(directory), i \in 1..(Len(directory) + 1) :
       directory' = InsertAt(directory, i, e)
  /\ UNCHANGED <<scans, locks, rows, hands, reported>>

\* history_scan: scan_directory, and import_scan up to its first statement.
BeginScan(s) ==
  /\ scans[s].at = "Off"
  /\ scans' = [scans EXCEPT ![s] =
       [at      |-> "Tournaments",
        builds  |-> [t \in Scanned(directory) |-> TournamentBuild(directory, t)],
        parsed  |-> {h \in Hand : \E e \in Range(directory) : h.of = e.of /\ h.at \in e.times},
        written |-> <<>>,
        new     |-> {}]]
  /\ UNCHANGED <<directory, locks, rows, hands, reported>>

\* The tournaments still to be written.
Due(s) == DOMAIN scans[s].builds \ DOMAIN scans[s].written

\* One tournament is upserted, as soon as no other transaction holds its row.
UpsertTournament(s) ==
  /\ scans[s].at = "Tournaments"
  /\ \E t \in next_rows(Due(s)) :
       /\ locks[t] = None
       /\ locks' = [locks EXCEPT ![t] = s]
       /\ scans' = [scans EXCEPT ![s].written =
                     [u \in DOMAIN @ \cup {t} |->
                        IF u = t THEN upsert(rows[t], scans[s].builds[t]) ELSE @[u]]]
  /\ UNCHANGED <<directory, rows, hands, reported>>

\* The hands follow their tournaments.  They wait for nobody: another
\* transaction that inserts one of them would hold its tournament.
InsertHands(s) ==
  /\ scans[s].at = "Tournaments"
  /\ Due(s) = {}
  /\ scans' = [scans EXCEPT ![s].at = "Commit", ![s].new = new_hands(scans[s].parsed)]
  /\ UNCHANGED <<directory, locks, rows, hands, reported>>

Unlock(s) == [t \in Tournament |-> IF locks[t] = s THEN None ELSE locks[t]]

Commit(s) ==
  /\ scans[s].at = "Commit"
  /\ rows' = [t \in Tournament |->
       IF t \in DOMAIN scans[s].written THEN scans[s].written[t] ELSE rows[t]]
  /\ hands' = hands \cup scans[s].new
  /\ reported' = [h \in Hand |->
       IF h \in scans[s].new THEN reported[h] + 1 ELSE reported[h]]
  /\ locks' = Unlock(s)
  /\ scans' = [scans EXCEPT ![s] = Finished]
  /\ UNCHANGED directory

\* A statement fails or the request is dropped: the transaction is rolled back.
Abort(s) ==
  /\ scans[s].at # "Off"
  /\ locks' = Unlock(s)
  /\ scans' = [scans EXCEPT ![s] = Finished]
  /\ UNCHANGED <<directory, rows, hands, reported>>

Proceed(s) == UpsertTournament(s) \/ InsertHands(s) \/ Commit(s)

ImportNext == AddExport \/ \E s \in Scan : BeginScan(s) \/ Proceed(s) \/ Abort(s)

ImportSpec == ImportInit /\ [][ImportNext]_importVars

(***************************************************************************)
(* What the pages read of the tables.                                      *)
(***************************************************************************)
HandsOf(t) == {h \in hands : h.of = t}

Stored == {t \in Tournament : rows[t] # NoRow}

\* aggregate_hands, and what the queries below count and sum of hands.
aggregate_hands(hs) == [hands |-> Cardinality(hs), won |-> Cardinality(hs \cap HeroWon)]

overall_stats ==
  [tournaments |-> Cardinality(Stored),
   tournaments_won |-> Cardinality({t \in Stored : rows[t].place = 1}),
   hands |-> aggregate_hands(hands)]

\* By the last hand, or by the start without one; the newest first.
ListedBefore(t, u) ==
  LET End(x) == IF rows[x].finished # None THEN rows[x].finished ELSE rows[x].started
  IN \/ End(t) > End(u)
     \/ End(t) = End(u) /\ rows[t].started > rows[u].started
     \/ End(t) = End(u) /\ rows[t].started = rows[u].started /\ t > u

\* Mutant: the hands are not joined on their tournament.
listing_hands_inner(t) == aggregate_hands(hands)

\* The hands that are joined to a tournament.
listing_hands(t) == aggregate_hands(HandsOf(t))

list_tournaments ==
  LET listed == SetToSortSeq(Stored, ListedBefore)
  IN [i \in DOMAIN listed |-> [of |-> listed[i], hands |-> listing_hands(listed[i])]]

\* The tournaments that started last.  Which of two that started together is
\* among them is left to the database.
Recent ==
  {r \in SUBSET Stored :
     /\ Cardinality(r) = Earlier(STARTING_STACK_WINDOW, Cardinality(Stored))
     /\ \A t \in r, u \in Stored \ r : rows[t].started >= rows[u].started}

\* The earliest hand of each, where its stack is known.
StartingHands(r) ==
  {h \in hands : /\ h.of \in r
                 /\ \A g \in HandsOf(h.of) : h.at <= g.at
                 /\ HeroStack[h] >= 1}

\* The commonest stack; of several, that of the newest tournament.
pick_modal_starting_stack(candidates) ==
  LET Votes(h) == Cardinality({g \in candidates : HeroStack[g] = HeroStack[h]})
      Commonest == {h \in candidates : \A g \in candidates : Votes(g) <= Votes(h)}
      Newest(h, g) == h.at > g.at \/ (h.at = g.at /\ h.of < g.of)
  IN IF candidates = {} THEN None ELSE HeroStack[SetToSortSeq(Commonest, Newest)[1]]

\* What it may return.
modal_starting_stack == {pick_modal_starting_stack(StartingHands(r)) : r \in Recent}

-----------------------------------------------------------------------------

StartlessSummary(t) ==
  \E e \in Range(directory) : e.of = t /\ e.times = {} /\ e.started = None

\* The pages agree with each other and with the rows: every stored hand is
\* counted in exactly one tournament of the list; of two tournaments with hands
\* the one whose last hand came later is listed first; and a drill
\* starts with what the hero had at the first stored hand of a tournament, unless
\* no hand of those that started last can be used.
PagesAgree ==
  LET list == list_tournaments
      Sum(F(_)) == FoldLeft(LAMBDA n, x : n + F(x), 0, list)
      Ends(i) == {h.at : h \in HandsOf(list[i].of)}
  IN /\ Sum(LAMBDA x : x.hands.hands) = overall_stats.hands.hands
     /\ Sum(LAMBDA x : x.hands.won) = overall_stats.hands.won
     /\ \A i, j \in DOMAIN list :
          /\ i # j => list[i].of # list[j].of
          /\ i < j /\ Ends(i) # {} /\ Ends(j) # {} => Max(Ends(i)) >= Max(Ends(j))
     /\ \A stack \in modal_starting_stack :
          \/ \E t \in Stored : /\ HandsOf(t) # {}
                              /\ stack = HeroStack[[of |-> t, at |-> Min({h.at : h \in HandsOf(t)})]]
          \/ stack = None /\ \E r \in Recent : StartingHands(r) = {}

\* The row of a tournament agrees with its hands, whichever requests stored
\* them and in whatever order they committed: it exists, it ends with the last
\* hand, and it does not start after the first.  The start is not to be relied
\* on once a summary without one was scanned: LEAST keeps the Epoch of a later
\* scan, although src/migrations/0006_hand_history.sql:13 has the start be that
\* of the first hand or the one the summary states.
\* The pages, which read both, agree as well.
RowsSummariseHands ==
  /\ \A t \in Tournament :
       LET times == {h.at : h \in HandsOf(t)}
       IN /\ rows[t].finished = IF times = {} THEN None ELSE Max(times)
          /\ times # {} /\ ~StartlessSummary(t) => rows[t].started \in 1..Min(times)
  /\ PagesAgree

\* Every stored hand was announced as new exactly once, by the request whose
\* transaction stored it; the others that had parsed it skipped it.
NewHandsReportedOnce ==
  \A h \in Hand : reported[h] = IF h \in hands THEN 1 ELSE 0

\* Requests do not wait for each other in a circle.
EveryScanEnds == \A s \in Scan : scans[s].at # "Off" ~> scans[s].at = "Off"

=============================================================================
