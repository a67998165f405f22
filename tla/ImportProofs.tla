---------------------------- MODULE ImportProofs ----------------------------
(***************************************************************************)
(* Proofs about the imports of module HistoryImport and the analysis job   *)
(* of module FieldAnalysis, for any requests, exports and jobs: what       *)
(* requests that run side by side announce, and who owns the job.          *)
(***************************************************************************)
EXTENDS FieldAnalysis, FiniteSetTheorems, SequenceTheorems, WellFoundedInduction, TLAPS

(***************************************************************************)
(* The inductive invariant of the imports.  A request holds the rows it    *)
(* has written.  By the time it inserts hands it has written the rows of   *)
(* all the hands it parsed, so two requests never have a hand for new.     *)
(***************************************************************************)
ScanFields(s) ==
  scans[s] = [at |-> scans[s].at, builds |-> scans[s].builds, parsed |-> scans[s].parsed,
              written |-> scans[s].written, new |-> scans[s].new]

\* The rows a request has written are those it holds.
HoldsItsRows(s) ==
  /\ DOMAIN scans[s].builds \subseteq Tournament
  /\ DOMAIN scans[s].written \subseteq DOMAIN scans[s].builds
  /\ scans[s].at = "Off" => DOMAIN scans[s].written = {}
  /\ \A t \in Tournament : locks[t] = s <=> t \in DOMAIN scans[s].written

\* What it has for new is missing, and it holds the rows of all of it.
KnowsItsHands(s) ==
  /\ scans[s].parsed \subseteq Hand
  /\ \A h \in scans[s].parsed : h.of \in DOMAIN scans[s].builds
  /\ scans[s].at # "Commit" => scans[s].new = {}
  /\ scans[s].at = "Commit" => /\ scans[s].new \subseteq scans[s].parsed \ hands
                               /\ DOMAIN scans[s].builds \subseteq DOMAIN scans[s].written

ScanInv(s) == ScanFields(s) /\ HoldsItsRows(s) /\ KnowsItsHands(s)

ImportInv ==
  /\ directory \in Seq(Export)
  /\ locks \in [Tournament -> Scan \cup {None}]
  /\ scans = [s \in Scan |-> scans[s]]
  /\ \A s \in Scan : ScanInv(s)
  /\ hands \subseteq Hand
  /\ reported = [h \in Hand |-> IF h \in hands THEN 1 ELSE 0]

(***************************************************************************)
(* The steps of a request.                                                 *)
(***************************************************************************)

\* A request of which nothing changes but what others hold or have stored.
LEMMA OtherScan ==
  ASSUME NEW r \in Scan, ScanInv(r), scans'[r] = scans[r],
         \A t \in Tournament : locks'[t] = r <=> locks[t] = r,
         hands' \cap scans[r].new = {}
  PROVE  ScanInv(r)'
<1>1. ScanFields(r)'
  BY DEF ScanInv, ScanFields
<1>2. HoldsItsRows(r)'
  BY DEF ScanInv, HoldsItsRows
<1>3. KnowsItsHands(r)'
  BY DEF ScanInv, KnowsItsHands
<1>. QED
  BY <1>1, <1>2, <1>3 DEF ScanInv

\* A request that is not running, or not any more.
LEMMA NoScan ==
  ASSUME NEW r \in Scan, scans'[r] = Finished,
         \A t \in Tournament : locks'[t] # r
  PROVE  ScanInv(r)'
<1>1. /\ Finished.at = "Off" /\ Finished.builds = <<>> /\ Finished.parsed = {}
      /\ Finished.written = <<>> /\ Finished.new = {}
  BY DEF Finished
<1>2. ScanFields(r)'
  BY <1>1 DEF ScanFields, Finished
<1>3. DOMAIN Finished.builds = {} /\ DOMAIN Finished.written = {}
  BY <1>1
<1>4. HoldsItsRows(r)'
  BY <1>1, <1>3 DEF HoldsItsRows
<1>5. KnowsItsHands(r)'
  BY <1>1, <1>3 DEF KnowsItsHands
<1>. QED
  BY <1>2, <1>4, <1>5 DEF ScanInv

\* What two requests have for new at the same time is not the same.
LEMMA NewHandsAreApart ==
  ASSUME ImportInv, NEW r \in Scan, NEW s \in Scan, r # s
  PROVE  scans[r].new \cap scans[s].new = {}
<1>1. ScanInv(r) /\ ScanInv(s)
  BY DEF ImportInv
<1>2. ASSUME NEW h \in scans[r].new, h \in scans[s].new
      PROVE  FALSE
  <2>1. /\ h \in scans[r].parsed /\ DOMAIN scans[r].builds \subseteq DOMAIN scans[r].written
        /\ h \in scans[s].parsed /\ DOMAIN scans[s].builds \subseteq DOMAIN scans[s].written
    BY <1>1, <1>2 DEF ScanInv, KnowsItsHands
  <2>2. h.of \in DOMAIN scans[r].written /\ h.of \in DOMAIN scans[s].written
    BY <1>1, <2>1 DEF ScanInv, KnowsItsHands
  <2>3. h.of \in Tournament
    BY <1>1, <2>2 DEF ScanInv, HoldsItsRows
  <2>. QED
    BY <1>1, <2>2, <2>3 DEF ScanInv, HoldsItsRows
<1>. QED
  BY <1>2

\* A tournament is a number, and not the one that stands for none.
LEMMA ScannedAreTournaments ==
  ASSUME directory \in Seq(Export)
  PROVE  /\ Scanned(directory) \subseteq Tournament
         /\ \A h, e : e \in Range(directory) /\ h.of = e.of /\ h.at \in e.times
                        => h.of \in Scanned(directory)
<1>1. Range(directory) \subseteq Export
  BY ElementOfSeq DEF Range
<1>2. ASSUME NEW e \in Range(directory), e.times # {}
      PROVE  e.of \in Scanned(directory)
  BY <1>1, <1>2, ExportAssumption DEF Scanned
<1>. QED
  BY <1>1, <1>2 DEF Scanned, Tournament

LEMMA AddExportStep ==
  ASSUME ImportInv, AddExport
  PROVE  ImportInv'
<1>1. PICK e \in Export \ Range(directory), i \in 1..(Len(directory) + 1) :
             directory' = InsertAt(directory, i, e)
  BY DEF AddExport
<1>2. directory \in Seq(Export) /\ Len(directory) \in Nat
  BY DEF ImportInv
<1>3. SubSeq(directory, 1, i - 1) \in Seq(Export)
  BY <1>1, <1>2, SubSeqProperties
<1>4. SubSeq(directory, i, Len(directory)) \in Seq(Export)
  BY <1>1, <1>2, SubSeqProperties
<1>5. <<e>> \in Seq(Export)
  BY <1>1
<1>6. directory' \in Seq(Export)
  BY <1>1, <1>3, <1>4, <1>5, ConcatProperties DEF InsertAt
<1>7. /\ scans' = scans /\ locks' = locks /\ hands' = hands /\ reported' = reported
  BY DEF AddExport
<1>8. \A r \in Scan : ScanInv(r)'
  BY <1>7 DEF ImportInv, ScanInv, ScanFields, HoldsItsRows, KnowsItsHands
<1>. QED
  BY <1>6, <1>7, <1>8 DEF ImportInv

LEMMA BeginScanStep ==
  ASSUME ImportInv, NEW s \in Scan, BeginScan(s)
  PROVE  ImportInv'
<1>. DEFINE parsed == {h \in Hand : \E e \in Range(directory) : h.of = e.of /\ h.at \in e.times}
            builds == [t \in Scanned(directory) |-> TournamentBuild(directory, t)]
<1>1. /\ scans[s].at = "Off"
      /\ scans' = [scans EXCEPT ![s] =
                     [at |-> "Tournaments", builds |-> builds, parsed |-> parsed,
                      written |-> <<>>, new |-> {}]]
      /\ UNCHANGED <<directory, locks, rows, hands, reported>>
  BY DEF BeginScan
<1>2. /\ directory \in Seq(Export) /\ scans = [r \in Scan |-> scans[r]]
      /\ \A r \in Scan : ScanInv(r)
  BY DEF ImportInv
<1>3. DOMAIN builds = Scanned(directory) /\ Scanned(directory) \subseteq Tournament
  BY <1>2, ScannedAreTournaments
<1>4. parsed \subseteq Hand /\ \A h \in parsed : h.of \in DOMAIN builds
  BY <1>2, <1>3, ScannedAreTournaments
<1>. HIDE DEF parsed, builds
<1>5. scans'[s] = [at |-> "Tournaments", builds |-> builds, parsed |-> parsed,
                   written |-> <<>>, new |-> {}]
  BY <1>1, <1>2
<1>6. DOMAIN scans'[s].written = {}
  BY <1>5
<1>7. ScanInv(s)'
  <2>1. ScanFields(s)'
    BY <1>5 DEF ScanFields
  <2>2. \A t \in Tournament : locks'[t] # s
    BY <1>1, <1>2 DEF ScanInv, HoldsItsRows
  <2>3. HoldsItsRows(s)'
    BY <1>3, <1>5, <1>6, <2>2 DEF HoldsItsRows
  <2>4. KnowsItsHands(s)'
    BY <1>4, <1>5 DEF KnowsItsHands
  <2>. QED
    BY <2>1, <2>3, <2>4 DEF ScanInv
<1>8. ASSUME NEW r \in Scan, r # s PROVE ScanInv(r)'
  <2>1. scans'[r] = scans[r]
    BY <1>1, <1>2, <1>8
  <2>2. hands' \cap scans[r].new = {}
    BY <1>1, <1>2 DEF ScanInv, KnowsItsHands
  <2>. QED
    BY <1>1, <1>2, <2>1, <2>2, OtherScan
<1>9. scans' = [r \in Scan |-> scans'[r]]
  BY <1>1, <1>2
<1>. QED
  BY <1>1, <1>7, <1>8, <1>9 DEF ImportInv

LEMMA UpsertStep ==
  ASSUME ImportInv, NEW s \in Scan, UpsertTournament(s)
  PROVE  ImportInv'
<1>1. /\ locks \in [Tournament -> Scan \cup {None}] /\ scans = [r \in Scan |-> scans[r]]
      /\ \A r \in Scan : ScanInv(r)
  BY DEF ImportInv
<1>2. PICK t \in next_rows(Due(s)) :
             /\ locks[t] = None
             /\ locks' = [locks EXCEPT ![t] = s]
             /\ scans' = [scans EXCEPT ![s].written =
                            [u \in DOMAIN @ \cup {t} |->
                               IF u = t THEN upsert(rows[t], scans[s].builds[t]) ELSE @[u]]]
  BY DEF UpsertTournament
<1>. DEFINE written == [u \in DOMAIN scans[s].written \cup {t} |->
                          IF u = t THEN upsert(rows[t], scans[s].builds[t])
                          ELSE scans[s].written[u]]
<1>3. DOMAIN written = DOMAIN scans[s].written \cup {t}
  OBVIOUS
<1>4. scans' = [scans EXCEPT ![s].written = written]
  BY <1>2
<1>. HIDE DEF written
<1>5. scans'[s] = [scans[s] EXCEPT !.written = written]
  BY <1>1, <1>4
<1>6. /\ scans'[s].at = scans[s].at /\ scans'[s].builds = scans[s].builds
      /\ scans'[s].parsed = scans[s].parsed /\ scans'[s].new = scans[s].new
      /\ scans'[s].written = written
      /\ ScanFields(s)'
  BY <1>1, <1>5 DEF ScanInv, ScanFields
<1>7. /\ scans[s].at = "Tournaments"
      /\ t \in DOMAIN scans[s].builds /\ t \in Tournament
      /\ UNCHANGED <<directory, rows, hands, reported>>
  BY <1>1, <1>2 DEF UpsertTournament, next_rows, Due, ScanInv, HoldsItsRows
<1>8. ScanInv(s)'
  <2>1. \A u \in Tournament : locks'[u] = s <=> u \in DOMAIN written
    BY <1>1, <1>2, <1>3 DEF ScanInv, HoldsItsRows
  <2>2. HoldsItsRows(s)'
    BY <1>1, <1>3, <1>6, <1>7, <2>1 DEF ScanInv, HoldsItsRows
  <2>3. KnowsItsHands(s)'
    BY <1>1, <1>6, <1>7 DEF ScanInv, KnowsItsHands
  <2>. QED
    BY <1>6, <2>2, <2>3 DEF ScanInv
<1>9. ASSUME NEW r \in Scan, r # s PROVE ScanInv(r)'
  <2>1. scans'[r] = scans[r]
    BY <1>1, <1>4, <1>9
  <2>2. \A u \in Tournament : locks'[u] = r <=> locks[u] = r
    BY <1>1, <1>2, <1>9, ExportAssumption
  <2>3. hands' \cap scans[r].new = {}
    BY <1>1, <1>7 DEF ScanInv, KnowsItsHands
  <2>. QED
    BY <1>1, <2>1, <2>2, <2>3, OtherScan
<1>10. /\ scans' = [r \in Scan |-> scans'[r]]
       /\ locks' \in [Tournament -> Scan \cup {None}]
  BY <1>1, <1>2, <1>4
<1>. QED
  BY <1>7, <1>8, <1>9, <1>10 DEF ImportInv

\* By the time the hands are inserted, all rows are written.
LEMMA InsertStep ==
  ASSUME ImportInv, NEW s \in Scan, InsertHands(s)
  PROVE  ImportInv'
<1>1. /\ scans = [r \in Scan |-> scans[r]]
      /\ \A r \in Scan : ScanInv(r)
  BY DEF ImportInv
<1>2. /\ Due(s) = {}
      /\ scans' = [scans EXCEPT ![s].at = "Commit", ![s].new = new_hands(scans[s].parsed)]
      /\ UNCHANGED <<directory, locks, rows, hands, reported>>
  BY DEF InsertHands
<1>3. scans'[s] = [[scans[s] EXCEPT !.at = "Commit"]
                     EXCEPT !.new = new_hands(scans[s].parsed)]
  BY <1>1, <1>2
<1>4. /\ scans'[s].at = "Commit" /\ scans'[s].builds = scans[s].builds
      /\ scans'[s].parsed = scans[s].parsed /\ scans'[s].written = scans[s].written
      /\ scans'[s].new = scans[s].parsed \ hands
      /\ ScanFields(s)'
  BY <1>1, <1>3 DEF ScanInv, ScanFields, new_hands
<1>5. ScanInv(s)'
  <2>1. HoldsItsRows(s)'
    BY <1>1, <1>2, <1>4 DEF ScanInv, HoldsItsRows
  <2>2. KnowsItsHands(s)'
    BY <1>1, <1>2, <1>4 DEF ScanInv, KnowsItsHands, Due
  <2>. QED
    BY <1>4, <2>1, <2>2 DEF ScanInv
<1>6. ASSUME NEW r \in Scan, r # s PROVE ScanInv(r)'
  <2>1. scans'[r] = scans[r]
    BY <1>1, <1>2, <1>6
  <2>2. hands' \cap scans[r].new = {}
    BY <1>1, <1>2 DEF ScanInv, KnowsItsHands
  <2>. QED
    BY <1>1, <1>2, <2>1, <2>2, OtherScan
<1>7. scans' = [r \in Scan |-> scans'[r]]
  BY <1>1, <1>2
<1>. QED
  BY <1>2, <1>5, <1>6, <1>7 DEF ImportInv

\* A transaction ends and gives its rows free.
LEMMA UnlockLeavesOthers ==
  ASSUME ImportInv, NEW s \in Scan
  PROVE  /\ Unlock(s) \in [Tournament -> Scan \cup {None}]
         /\ \A t \in Tournament : Unlock(s)[t] # s
         /\ \A r \in Scan \ {s}, t \in Tournament : Unlock(s)[t] = r <=> locks[t] = r
BY ExportAssumption DEF ImportInv, Unlock

LEMMA CommitStep ==
  ASSUME ImportInv, NEW s \in Scan, Commit(s)
  PROVE  ImportInv'
<1>1. /\ scans = [r \in Scan |-> scans[r]] /\ hands \subseteq Hand
      /\ reported = [h \in Hand |-> IF h \in hands THEN 1 ELSE 0]
      /\ \A r \in Scan : ScanInv(r)
  BY DEF ImportInv
<1>2. /\ hands' = hands \cup scans[s].new
      /\ reported' = [h \in Hand |-> IF h \in scans[s].new THEN reported[h] + 1 ELSE reported[h]]
      /\ locks' = Unlock(s)
      /\ scans' = [scans EXCEPT ![s] = Finished]
      /\ directory' = directory /\ scans[s].at = "Commit"
  BY DEF Commit
<1>3. scans[s].new \subseteq Hand /\ scans[s].new \cap hands = {}
  BY <1>1, <1>2 DEF ScanInv, KnowsItsHands
<1>4. ScanInv(s)'
  <2>1. scans'[s] = Finished /\ \A t \in Tournament : locks'[t] # s
    BY <1>1, <1>2, UnlockLeavesOthers
  <2>. QED
    BY <2>1, NoScan
<1>5. ASSUME NEW r \in Scan, r # s PROVE ScanInv(r)'
  <2>1. scans'[r] = scans[r]
    BY <1>1, <1>2, <1>5
  <2>2. \A t \in Tournament : locks'[t] = r <=> locks[t] = r
    BY <1>2, <1>5, UnlockLeavesOthers
  <2>3. scans[r].new \cap scans[s].new = {}
    BY <1>5, NewHandsAreApart
  <2>4. hands \cap scans[r].new = {}
    BY <1>1 DEF ScanInv, KnowsItsHands
  <2>5. hands' \cap scans[r].new = {}
    BY <1>2, <2>3, <2>4
  <2>. QED
    BY <1>1, <2>1, <2>2, <2>5, OtherScan
<1>6. reported' = [h \in Hand |-> IF h \in hands' THEN 1 ELSE 0]
  <2>1. ASSUME NEW h \in Hand
        PROVE  (IF h \in scans[s].new THEN reported[h] + 1 ELSE reported[h])
                 = (IF h \in hands' THEN 1 ELSE 0)
    BY <1>1, <1>2, <1>3
  <2>. QED
    BY <1>2, <2>1
<1>7. /\ scans' = [r \in Scan |-> scans'[r]]
      /\ locks' \in [Tournament -> Scan \cup {None}]
      /\ hands' \subseteq Hand
      /\ directory' \in Seq(Export)
  BY <1>1, <1>2, <1>3, UnlockLeavesOthers DEF ImportInv
<1>. QED
  BY <1>4, <1>5, <1>6, <1>7 DEF ImportInv

LEMMA AbortStep ==
  ASSUME ImportInv, NEW s \in Scan, Abort(s)
  PROVE  ImportInv'
<1>1. /\ scans = [r \in Scan |-> scans[r]]
      /\ \A r \in Scan : ScanInv(r)
  BY DEF ImportInv
<1>2. /\ locks' = Unlock(s)
      /\ scans' = [scans EXCEPT ![s] = Finished]
      /\ UNCHANGED <<directory, rows, hands, reported>>
  BY DEF Abort
<1>3. ScanInv(s)'
  <2>1. scans'[s] = Finished /\ \A t \in Tournament : locks'[t] # s
    BY <1>1, <1>2, UnlockLeavesOthers
  <2>. QED
    BY <2>1, NoScan
<1>4. ASSUME NEW r \in Scan, r # s PROVE ScanInv(r)'
  <2>1. scans'[r] = scans[r]
    BY <1>1, <1>2, <1>4
  <2>2. \A t \in Tournament : locks'[t] = r <=> locks[t] = r
    BY <1>2, <1>4, UnlockLeavesOthers
  <2>3. hands' \cap scans[r].new = {}
    BY <1>1, <1>2 DEF ScanInv, KnowsItsHands
  <2>. QED
    BY <1>1, <2>1, <2>2, <2>3, OtherScan
<1>5. /\ scans' = [r \in Scan |-> scans'[r]]
      /\ locks' \in [Tournament -> Scan \cup {None}]
  BY <1>1, <1>2, UnlockLeavesOthers
<1>. QED
  BY <1>2, <1>3, <1>4, <1>5 DEF ImportInv

\* The server restarts: no request and no transaction outlives it.
LEMMA RestartStep ==
  ASSUME ImportInv, Restart
  PROVE  ImportInv'
<1>1. /\ scans' = [s \in Scan |-> Finished]
      /\ locks' = [t \in Tournament |-> None]
      /\ UNCHANGED <<directory, hands, reported>>
  BY DEF Restart
<1>2. ASSUME NEW r \in Scan PROVE ScanInv(r)'
  <2>1. scans'[r] = Finished /\ \A t \in Tournament : locks'[t] # r
    BY <1>1, ExportAssumption
  <2>. QED
    BY <2>1, NoScan
<1>3. scans' = [r \in Scan |-> scans'[r]] /\ locks' \in [Tournament -> Scan \cup {None}]
  BY <1>1
<1>. QED
  BY <1>1, <1>2, <1>3 DEF ImportInv

LEMMA ImportStays ==
  ASSUME ImportInv, UNCHANGED importVars
  PROVE  ImportInv'
BY DEF ImportInv, importVars, ScanInv, ScanFields, HoldsItsRows, KnowsItsHands

LEMMA InitImportInv == ImportInit => ImportInv
<1>. SUFFICES ASSUME ImportInit PROVE ImportInv
  OBVIOUS
<1>1. /\ directory = <<>>
      /\ scans = [s \in Scan |-> Finished]
      /\ locks = [t \in Tournament |-> None]
      /\ hands = {} /\ reported = [h \in Hand |-> 0]
  BY DEF ImportInit
<1>2. /\ Finished.at = "Off" /\ Finished.builds = <<>> /\ Finished.parsed = {}
      /\ Finished.written = <<>> /\ Finished.new = {}
  BY DEF Finished
<1>3. ASSUME NEW s \in Scan PROVE ScanInv(s)
  <2>1. scans[s] = Finished /\ \A t \in Tournament : locks[t] # s
    BY <1>1, ExportAssumption
  <2>2. DOMAIN Finished.builds = {} /\ DOMAIN Finished.written = {}
    BY <1>2
  <2>3. ScanFields(s)
    BY <1>2, <2>1 DEF ScanFields, Finished
  <2>4. HoldsItsRows(s)
    BY <1>2, <2>1, <2>2 DEF HoldsItsRows
  <2>5. KnowsItsHands(s)
    BY <1>2, <2>1, <2>2 DEF KnowsItsHands
  <2>. QED
    BY <2>3, <2>4, <2>5 DEF ScanInv
<1>. QED
  BY <1>1, <1>3 DEF ImportInv

LEMMA NextImportInv == ImportInv /\ [Next]_vars => ImportInv'
<1>. SUFFICES ASSUME ImportInv, [Next]_vars PROVE ImportInv'
  OBVIOUS
<1>1. CASE ImportNext
  BY <1>1, AddExportStep, BeginScanStep, UpsertStep, InsertStep, CommitStep, AbortStep
     DEF ImportNext, Proceed
<1>2. CASE Restart
  BY <1>2, RestartStep
<1>3. CASE AnalyzeOpponents \/ SaveTemplate \/ ClearTemplate
  BY <1>3, ImportStays DEF AnalyzeOpponents, SaveTemplate, ClearTemplate
<1>4. CASE \E j \in Task : JobStep(j) \/ JobFails(j)
  BY <1>4, ImportStays DEF JobStep, JobFails, LoadHands, LoadScores, ScoreHand, Report
<1>5. CASE UNCHANGED vars
  BY <1>5, ImportStays DEF vars
<1>. QED
  BY <1>1, <1>2, <1>3, <1>4, <1>5 DEF Next

\* Whatever requests run side by side, commit in any order, fail or are cut off:
\* every stored hand was announced as new exactly once.
THEOREM HandsAreReportedOnce == Spec => []NewHandsReportedOnce
<1>1. Init => ImportInv
  BY InitImportInv DEF Init
<1>2. ImportInv => NewHandsReportedOnce
  BY DEF ImportInv, NewHandsReportedOnce
<1>. QED
  BY <1>1, <1>2, NextImportInv, PTL DEF Spec

\* A request about to commit has written the rows of all it announces, and no
\* other one is about to announce the same hands.
THEOREM AnnouncementsAreApart == Spec => []ScansAnnounceTheirOwn
<1>1. Init => ImportInv
  BY InitImportInv DEF Init
<1>2. ImportInv => ScansAnnounceTheirOwn
  <2>. SUFFICES ASSUME ImportInv, NEW s \in Scan, scans[s].at = "Commit"
                PROVE  /\ affected_tournaments(scans[s].new) \subseteq DOMAIN scans[s].written
                       /\ \A r \in Scan \ {s} : scans[r].new \cap scans[s].new = {}
    BY DEF ScansAnnounceTheirOwn
  <2>1. /\ scans[s].new \subseteq scans[s].parsed
        /\ DOMAIN scans[s].builds \subseteq DOMAIN scans[s].written
        /\ \A h \in scans[s].parsed : h.of \in DOMAIN scans[s].builds
    BY DEF ImportInv, ScanInv, KnowsItsHands
  <2>. QED
    BY <2>1, NewHandsAreApart DEF affected_tournaments
<1>. QED
  BY <1>1, <1>2, NextImportInv, PTL DEF Spec

-----------------------------------------------------------------------------
(***************************************************************************)
(* The analysis job.  The state says Running while exactly one task is     *)
(* behind it.  What a task has counted, and what is left for it to count,  *)
(* make up its window; what is left and has a score is known to have one,  *)
(* since nobody else stores any.                                           *)
(***************************************************************************)
TaskFields(j) ==
  tasks[j] = [at |-> tasks[j].at, window |-> tasks[j].window, left |-> tasks[j].left,
              stored |-> tasks[j].stored, graded |-> tasks[j].graded,
              failed |-> tasks[j].failed]

TaskCounts(j) ==
  /\ tasks[j].graded \in Nat /\ tasks[j].failed \in Nat
  /\ IsFiniteSet(tasks[j].window)
  /\ tasks[j].at # "Grade" => tasks[j].graded = 0 /\ tasks[j].failed = 0
  /\ tasks[j].at = "Grade" =>
       /\ tasks[j].left \subseteq tasks[j].window
       /\ tasks[j].left \cap DOMAIN scores \subseteq tasks[j].stored
       /\ tasks[j].graded + tasks[j].failed + Cardinality(tasks[j].left \ tasks[j].stored)
            = Cardinality(tasks[j].window)

TaskInv(j) ==
  /\ TaskFields(j)
  /\ tasks[j].at \in {"Off", "Load", "LoadScores", "Grade"}
  /\ TaskCounts(j)

Busy(j) == tasks[j].at # "Off"

StateInv ==
  /\ job.done \in Nat /\ job.total \in Nat /\ job.done <= job.total
  /\ job.state = "Done" => job.graded + job.failed = job.total

OwnerInv ==
  /\ job.state = "Running" => \E j \in Task : \A i \in Task : Busy(i) <=> i = j
  /\ job.state # "Running" => \A i \in Task : ~Busy(i)

JobInv ==
  /\ tasks = [j \in Task |-> tasks[j]]
  /\ \A j \in Task : TaskInv(j)
  /\ StateInv
  /\ OwnerInv
  /\ ~solved

LEMMA StatesOfTheJob ==
  /\ Idle.state = "Idle" /\ Idle.done = 0 /\ Idle.total = 0
  /\ \A d, t : /\ Running(d, t).state = "Running"
               /\ Running(d, t).done = d /\ Running(d, t).total = t
  /\ \A t, g, f, s : /\ Done(t, g, f, s).state = "Done"
                     /\ Done(t, g, f, s).done = t /\ Done(t, g, f, s).total = t
                     /\ Done(t, g, f, s).graded = g /\ Done(t, g, f, s).failed = f
BY DEF Idle, Running, Done

LEMMA FieldsOfNoTask ==
  /\ NoTask.at = "Off" /\ NoTask.window = {} /\ NoTask.left = {} /\ NoTask.stored = {}
  /\ NoTask.graded = 0 /\ NoTask.failed = 0
BY DEF NoTask

\* The least of a set of numbers is one of them.
LEMMA MinIsIn ==
  ASSUME NEW S \in SUBSET Nat, S # {}
  PROVE  Min(S) \in S
<1>. DEFINE R == {ss \in Nat \X Nat : ss[1] < ss[2]}
<1>1. IsWellFoundedOn(R, Nat)
  BY NatLessThanWellFounded DEF OpToRel
<1>2. PICK n \in S : \A m \in S : ~ (<<m, n>> \in R)
  BY <1>1, WFMin
<1>3. \A m \in S : ~ (m < n)
  BY <1>2
<1>4. \A m \in S : n <= m
  BY <1>3
<1>. QED
  BY <1>4 DEF Min

\* There are finitely many hands in the exports.
LEMMA HandsAreFinite == IsFiniteSet(Hand)
<1>. DEFINE HandsIn(e) == {[of |-> e.of, at |-> at] : at \in e.times}
            Files == {HandsIn(e) : e \in Export}
<1>1. IsFiniteSet(Files)
  <2>1. [e \in Export |-> HandsIn(e)] \in Surjection(Export, Files)
    BY DEF Surjection
  <2>. QED
    BY <2>1, FS_Surjection, ExportAssumption
<1>2. ASSUME NEW e \in Export PROVE IsFiniteSet(HandsIn(e))
  <2>1. [at \in e.times |-> [of |-> e.of, at |-> at]] \in Surjection(e.times, HandsIn(e))
    BY DEF Surjection
  <2>2. IsFiniteSet(e.times)
    BY ExportAssumption
  <2>. QED
    BY <2>1, <2>2, FS_Surjection
<1>3. Hand = UNION Files
  BY DEF Hand
<1>. HIDE DEF Files, HandsIn
<1>4. \A T \in Files : IsFiniteSet(T)
  BY <1>2 DEF Files
<1>. QED
  BY <1>1, <1>3, <1>4, FS_UNION

\* A task that is none has counted nothing.
LEMMA NoTaskInv ==
  ASSUME NEW j, tasks'[j] = NoTask
  PROVE  TaskInv(j)' /\ ~Busy(j)'
<1>1. TaskFields(j)'
  BY FieldsOfNoTask DEF TaskFields, NoTask
<1>2. TaskCounts(j)'
  BY FieldsOfNoTask, FS_EmptySet DEF TaskCounts
<1>. QED
  BY <1>1, <1>2, FieldsOfNoTask DEF TaskInv, Busy

\* Of tasks that change with the step, one does at most.
LEMMA OneTaskSteps ==
  ASSUME JobInv, NEW j \in Task, NEW task, tasks' = [tasks EXCEPT ![j] = task]
  PROVE  /\ tasks' = [i \in Task |-> tasks'[i]]
         /\ tasks'[j] = task
         /\ \A i \in Task \ {j} : tasks'[i] = tasks[i] /\ (Busy(i)' <=> Busy(i))
<1>1. tasks = [i \in Task |-> tasks[i]]
  BY DEF JobInv
<1>. QED
  BY <1>1 DEF Busy

\* The busy task is the only one.
LEMMA OwnerIsAlone ==
  ASSUME JobInv, NEW j \in Task, Busy(j)
  PROVE  job.state = "Running" /\ \A i \in Task : Busy(i) <=> i = j
BY DEF JobInv, OwnerInv

\* A task that does nothing keeps its counts, whatever another stores.
LEMMA IdleTaskStays ==
  ASSUME NEW i \in Task, TaskInv(i), ~Busy(i), tasks'[i] = tasks[i]
  PROVE  TaskInv(i)'
BY DEF TaskInv, TaskFields, TaskCounts, Busy

\* The task behind the state steps on, and stays behind it.
LEMMA OwnerSteps ==
  ASSUME JobInv, NEW j \in Task, Busy(j), NEW task,
         tasks' = [tasks EXCEPT ![j] = task], task.at # "Off", TaskInv(j)',
         job'.state = "Running", StateInv', ~solved'
  PROVE  JobInv'
<1>1. /\ tasks' = [i \in Task |-> tasks'[i]]
      /\ tasks'[j] = task
      /\ \A i \in Task \ {j} : tasks'[i] = tasks[i] /\ (Busy(i)' <=> Busy(i))
  BY OneTaskSteps
<1>2. \A i \in Task : Busy(i) <=> i = j
  BY OwnerIsAlone
<1>3. \A i \in Task : TaskInv(i)'
  BY <1>1, <1>2, IdleTaskStays DEF JobInv
<1>4. Busy(j)'
  BY <1>1 DEF Busy
<1>5. \A i \in Task : Busy(i)' <=> i = j
  BY <1>1, <1>2, <1>4
<1>6. OwnerInv'
  BY <1>5 DEF OwnerInv
<1>. QED
  BY <1>1, <1>3, <1>6 DEF JobInv

\* The task behind the state ends, and the state says so.
LEMMA OwnerEnds ==
  ASSUME JobInv, NEW j \in Task, Busy(j),
         tasks' = [tasks EXCEPT ![j] = NoTask],
         job'.state # "Running", StateInv', ~solved'
  PROVE  JobInv'
<1>1. /\ tasks' = [i \in Task |-> tasks'[i]]
      /\ tasks'[j] = NoTask
      /\ \A i \in Task \ {j} : tasks'[i] = tasks[i] /\ (Busy(i)' <=> Busy(i))
  BY OneTaskSteps
<1>2. \A i \in Task : Busy(i) <=> i = j
  BY OwnerIsAlone
<1>3. TaskInv(j)' /\ ~Busy(j)'
  BY <1>1, NoTaskInv
<1>4. \A i \in Task : TaskInv(i)'
  BY <1>1, <1>2, <1>3, IdleTaskStays DEF JobInv
<1>5. OwnerInv'
  BY <1>1, <1>2, <1>3 DEF OwnerInv
<1>. QED
  BY <1>1, <1>4, <1>5 DEF JobInv

LEMMA InitJobInv == AnalysisInit => JobInv
<1>. SUFFICES ASSUME AnalysisInit PROVE JobInv
  OBVIOUS
<1>1. job = Idle /\ tasks = [j \in Task |-> NoTask] /\ solved = FALSE
  BY DEF AnalysisInit
<1>2. ASSUME NEW j \in Task PROVE TaskInv(j) /\ ~Busy(j)
  <2>1. tasks[j] = NoTask
    BY <1>1
  <2>2. TaskFields(j)
    BY <2>1, FieldsOfNoTask DEF TaskFields, NoTask
  <2>3. TaskCounts(j)
    BY <2>1, FieldsOfNoTask, FS_EmptySet DEF TaskCounts
  <2>. QED
    BY <2>1, <2>2, <2>3, FieldsOfNoTask DEF TaskInv, Busy
<1>3. StateInv
  BY <1>1, StatesOfTheJob DEF StateInv
<1>4. OwnerInv
  BY <1>1, <1>2, StatesOfTheJob DEF OwnerInv
<1>. QED
  BY <1>1, <1>2, <1>3, <1>4 DEF JobInv

\* While no job runs, the next one begins.
LEMMA JobBegins ==
  ASSUME JobInv, NEW j \in Task, job.state = "Idle", job' = Running(0, 0),
         tasks' = [tasks EXCEPT ![j].at = "Load"], solved' = solved
  PROVE  JobInv'
<1>1. \A i \in Task : TaskInv(i) /\ ~Busy(i)
  BY DEF JobInv, OwnerInv
<1>2. tasks' = [tasks EXCEPT ![j] = [tasks[j] EXCEPT !.at = "Load"]]
  OBVIOUS
<1>3. /\ tasks' = [i \in Task |-> tasks'[i]]
      /\ tasks'[j] = [tasks[j] EXCEPT !.at = "Load"]
      /\ \A i \in Task \ {j} : tasks'[i] = tasks[i] /\ (Busy(i)' <=> Busy(i))
  BY <1>2, OneTaskSteps
<1>4. tasks[j].at = "Off"
  BY <1>1 DEF Busy
<1>12. tasks'[j] = [at |-> "Load", window |-> tasks[j].window, left |-> tasks[j].left,
                   stored |-> tasks[j].stored, graded |-> tasks[j].graded,
                   failed |-> tasks[j].failed]
  <2>1. ASSUME NEW t, t = [at |-> "Off", window |-> tasks[j].window, left |-> tasks[j].left,
                           stored |-> tasks[j].stored, graded |-> tasks[j].graded,
                           failed |-> tasks[j].failed]
        PROVE  [t EXCEPT !.at = "Load"]
                 = [at |-> "Load", window |-> tasks[j].window, left |-> tasks[j].left,
                    stored |-> tasks[j].stored, graded |-> tasks[j].graded,
                    failed |-> tasks[j].failed]
    BY <2>1
  <2>2. tasks[j] = [at |-> "Off", window |-> tasks[j].window, left |-> tasks[j].left,
                    stored |-> tasks[j].stored, graded |-> tasks[j].graded,
                    failed |-> tasks[j].failed]
    BY <1>1, <1>4 DEF TaskInv, TaskFields
  <2>. QED
    BY <1>3, <2>1, <2>2, Zenon
<1>5. /\ TaskFields(j)' /\ tasks'[j].at = "Load" /\ tasks'[j].window = tasks[j].window
      /\ tasks'[j].graded = tasks[j].graded /\ tasks'[j].failed = tasks[j].failed
  BY <1>12 DEF TaskFields
<1>6. TaskCounts(j)'
  BY <1>1, <1>4, <1>5 DEF TaskInv, TaskCounts
<1>7. TaskInv(j)' /\ Busy(j)'
  BY <1>5, <1>6 DEF TaskInv, Busy
<1>8. \A i \in Task : TaskInv(i)'
  BY <1>1, <1>3, <1>7, IdleTaskStays
<1>9. StateInv' /\ ~solved'
  BY StatesOfTheJob DEF StateInv, JobInv
<1>10. \A i \in Task : Busy(i)' <=> i = j
  BY <1>1, <1>3, <1>7
<1>11. OwnerInv'
  BY <1>10, StatesOfTheJob DEF OwnerInv
<1>. QED
  BY <1>3, <1>8, <1>9, <1>11 DEF JobInv

LEMMA AnalyzeStep ==
  ASSUME JobInv, AnalyzeOpponents
  PROVE  JobInv'
<1>. DEFINE free == {i \in Task : tasks[i].at = "Off"}
<1>1. free \in SUBSET Nat /\ free # {}
  BY AnalysisAssumption DEF AnalyzeOpponents
<1>2. Min(free) \in Task
  BY <1>1, MinIsIn
<1>3. PICK j \in Task : j = Min(free)
  BY <1>2
<1>4. tasks' = [tasks EXCEPT ![j].at = "Load"]
  BY <1>3 DEF AnalyzeOpponents
<1>. QED
  BY <1>4, JobBegins DEF AnalyzeOpponents, may_start

LEMMA LoadHandsStep ==
  ASSUME ImportInv, JobInv, NEW j \in Task, LoadHands(j)
  PROVE  JobInv'
<1>. DEFINE window == load_recent_hands(ANALYSIS_WINDOW)
            task == [NoTask EXCEPT !.at = "LoadScores", !.window = window]
<1>1. /\ tasks[j].at = "Load" /\ tasks' = [tasks EXCEPT ![j] = task]
      /\ job' = Running(0, Cardinality(window)) /\ solved' = solved
  BY DEF LoadHands
<1>2. IsFiniteSet(window)
  BY HandsAreFinite, FS_Subset DEF ImportInv, load_recent_hands
<1>. HIDE DEF window
<1>3. task = [at |-> "LoadScores", window |-> window, left |-> {}, stored |-> {},
              graded |-> 0, failed |-> 0]
  <2>. DEFINE none == [NoTask EXCEPT !.at = "LoadScores"]
  <2>1. NoTask = [at |-> "Off", window |-> {}, left |-> {}, stored |-> {},
                  graded |-> 0, failed |-> 0]
    BY DEF NoTask
  <2>2. none = [at |-> "LoadScores", window |-> {}, left |-> {}, stored |-> {},
                graded |-> 0, failed |-> 0]
    <3>1. ASSUME NEW t, t = [at |-> "Off", window |-> {}, left |-> {}, stored |-> {},
                             graded |-> 0, failed |-> 0]
          PROVE  [t EXCEPT !.at = "LoadScores"]
                   = [at |-> "LoadScores", window |-> {}, left |-> {}, stored |-> {},
                      graded |-> 0, failed |-> 0]
      BY <3>1
    <3>. QED
      BY <2>1, <3>1, Zenon
  <2>3. task = [none EXCEPT !.window = window]
    BY Zenon
  <2>. HIDE DEF none, task
  <2>4. ASSUME NEW t, t = [at |-> "LoadScores", window |-> {}, left |-> {}, stored |-> {},
                           graded |-> 0, failed |-> 0]
        PROVE  [t EXCEPT !.window = window]
                 = [at |-> "LoadScores", window |-> window, left |-> {}, stored |-> {},
                    graded |-> 0, failed |-> 0]
    BY <2>4
  <2>. QED
    BY <2>2, <2>3, <2>4, Zenon
<1>. HIDE DEF task
<1>4. Busy(j) /\ task.at # "Off"
  BY <1>1, <1>3 DEF Busy
<1>5. tasks'[j] = task
  BY <1>1, OneTaskSteps
<1>6. TaskInv(j)'
  BY <1>2, <1>3, <1>5 DEF TaskInv, TaskFields, TaskCounts
<1>7. job'.state = "Running" /\ StateInv' /\ ~solved'
  BY <1>1, <1>2, StatesOfTheJob, FS_CardinalityType DEF StateInv, JobInv
<1>. QED
  BY <1>1, <1>4, <1>6, <1>7, OwnerSteps

\* The hands that have a score count as graded, the others are left to grade.
LEMMA LoadScoresStep ==
  ASSUME JobInv, NEW j \in Task, LoadScores(j)
  PROVE  JobInv'
<1>. DEFINE window == tasks[j].window
            stored == DOMAIN scores \cap window
            task == [at |-> "Grade", window |-> window, left |-> window, stored |-> stored,
                     graded |-> Cardinality(stored), failed |-> tasks[j].failed]
<1>1. /\ tasks[j].at = "LoadScores" /\ scores' = scores /\ job' = job /\ solved' = solved
      /\ tasks' = [tasks EXCEPT ![j].at = "Grade", ![j].stored = stored,
                                ![j].left = tasks[j].window,
                                ![j].graded = Cardinality(stored)]
  BY DEF LoadScores
<1>2. TaskInv(j) /\ tasks = [i \in Task |-> tasks[i]]
  BY DEF JobInv
<1>3. tasks' = [tasks EXCEPT ![j] = task]
  <2>1. tasks[j] = [at |-> tasks[j].at, window |-> tasks[j].window, left |-> tasks[j].left,
                    stored |-> tasks[j].stored, graded |-> tasks[j].graded,
                    failed |-> tasks[j].failed]
    BY <1>2 DEF TaskInv, TaskFields
  <2>2. tasks'[j] = task
    BY <1>1, <1>2, <2>1
  <2>. QED
    BY <1>1, <1>2, <2>2
<1>4. IsFiniteSet(window) /\ tasks[j].failed = 0
  BY <1>1, <1>2 DEF TaskInv, TaskCounts
<1>5. /\ Cardinality(stored) \in Nat
      /\ Cardinality(stored) + Cardinality(window \ stored) = Cardinality(window)
  <2>1. window \cap stored = stored
    OBVIOUS
  <2>. HIDE DEF stored, window
  <2>4. IsFiniteSet(stored)
    BY <1>4, <2>1, FS_Subset
  <2>5. /\ IsFiniteSet(window \ stored)
        /\ Cardinality(window \ stored) = Cardinality(window) - Cardinality(window \cap stored)
    BY <1>4, FS_Difference
  <2>2. /\ IsFiniteSet(stored) /\ IsFiniteSet(window \ stored)
        /\ Cardinality(window \ stored) = Cardinality(window) - Cardinality(stored)
    BY <2>1, <2>4, <2>5
  <2>3. /\ Cardinality(window) \in Nat /\ Cardinality(stored) \in Nat
        /\ Cardinality(window \ stored) \in Nat
    BY <1>4, <2>2, FS_CardinalityType
  <2>. QED
    BY <2>2, <2>3
<1>6. tasks'[j] = task
  BY <1>3, OneTaskSteps
<1>7. TaskInv(j)'
  <2>1. TaskFields(j)'
    BY <1>6 DEF TaskFields
  <2>5. stored = DOMAIN scores \cap window /\ scores' = scores
    BY <1>1
  <2>2. /\ tasks'[j].at = "Grade" /\ tasks'[j].window = window /\ tasks'[j].left = window
        /\ tasks'[j].stored = stored /\ tasks'[j].graded = Cardinality(stored)
        /\ tasks'[j].failed = tasks[j].failed
    BY <1>6
  <2>. HIDE DEF stored, window, task
  <2>4. Cardinality(stored) + 0 + Cardinality(window \ stored) = Cardinality(window)
    BY <1>5
  <2>3. TaskCounts(j)'
    BY <1>4, <1>5, <2>2, <2>4, <2>5 DEF TaskCounts
  <2>. QED
    BY <2>1, <2>2, <2>3 DEF TaskInv
<1>8. Busy(j) /\ task.at # "Off"
  BY <1>1 DEF Busy
<1>9. job'.state = "Running" /\ StateInv' /\ ~solved'
  BY <1>1, <1>8, OwnerIsAlone DEF StateInv, JobInv
<1>. HIDE DEF task
<1>. QED
  BY <1>3, <1>7, <1>8, <1>9, OwnerSteps

\* One more hand of the window is dealt with: the owner of the job goes on.
LEMMA HandIsDone ==
  ASSUME JobInv, NEW j \in Task, tasks[j].at = "Grade", NEW h \in tasks[j].left,
         NEW graded, NEW failed,
         tasks' = [tasks EXCEPT ![j] =
           [at |-> "Grade", window |-> tasks[j].window, left |-> tasks[j].left \ {h},
            stored |-> tasks[j].stored, graded |-> graded, failed |-> failed]],
         \/ h \in tasks[j].stored /\ graded = tasks[j].graded /\ failed = tasks[j].failed
         \/ /\ h \notin tasks[j].stored
            /\ \/ graded = tasks[j].graded + 1 /\ failed = tasks[j].failed
               \/ graded = tasks[j].graded /\ failed = tasks[j].failed + 1,
         (DOMAIN scores)' \subseteq DOMAIN scores \cup {h},
         job'.state = "Running", StateInv', ~solved'
  PROVE  JobInv'
<1>. DEFINE open == tasks[j].left \ tasks[j].stored
            task == [at |-> "Grade", window |-> tasks[j].window, left |-> tasks[j].left \ {h},
                     stored |-> tasks[j].stored, graded |-> graded, failed |-> failed]
<1>1. TaskInv(j)
  BY DEF JobInv
<1>2. /\ tasks[j].graded \in Nat /\ tasks[j].failed \in Nat
      /\ tasks[j].left \subseteq tasks[j].window
      /\ tasks[j].left \cap DOMAIN scores \subseteq tasks[j].stored
      /\ IsFiniteSet(tasks[j].window)
      /\ tasks[j].graded + tasks[j].failed + Cardinality(open) = Cardinality(tasks[j].window)
  BY <1>1 DEF TaskInv, TaskCounts
<1>3. IsFiniteSet(open)
  <2>1. open \in SUBSET tasks[j].window
    BY <1>2
  <2>. HIDE DEF open
  <2>. QED
    BY <1>2, <2>1, FS_Subset
<1>6. (tasks[j].left \ {h}) \ tasks[j].stored = open \ {h}
  OBVIOUS
<1>7. h \in open <=> h \notin tasks[j].stored
  OBVIOUS
<1>. HIDE DEF open
<1>5. /\ IsFiniteSet(open \ {h})
      /\ Cardinality(open \ {h}) = IF h \in open THEN Cardinality(open) - 1 ELSE Cardinality(open)
  BY <1>3, FS_RemoveElement
<1>4. Cardinality(open) \in Nat /\ Cardinality(open \ {h}) \in Nat
  BY <1>3, <1>5, FS_CardinalityType
<1>8. /\ graded \in Nat /\ failed \in Nat
      /\ graded + failed + Cardinality(open \ {h}) = Cardinality(tasks[j].window)
  BY <1>2, <1>4, <1>5, <1>7
<1>9. tasks'[j] = task
  BY OneTaskSteps
<1>10. /\ tasks'[j].at = "Grade" /\ tasks'[j].window = tasks[j].window
       /\ tasks'[j].left = tasks[j].left \ {h} /\ tasks'[j].stored = tasks[j].stored
       /\ tasks'[j].graded = graded /\ tasks'[j].failed = failed
       /\ TaskFields(j)'
  BY <1>9 DEF TaskFields
<1>11. (tasks[j].left \ {h}) \cap (DOMAIN scores)' \subseteq tasks[j].stored
  BY <1>2
<1>12. TaskCounts(j)'
  BY <1>2, <1>6, <1>8, <1>10, <1>11 DEF TaskCounts
<1>13. TaskInv(j)'
  BY <1>10, <1>12 DEF TaskInv
<1>14. Busy(j) /\ task.at # "Off"
  BY DEF Busy
<1>. HIDE DEF task
<1>. QED
  BY <1>13, <1>14, OwnerSteps DEF task

LEMMA SkipHandStep ==
  ASSUME JobInv, NEW j \in Task, tasks[j].at = "Grade", NEW h \in tasks[j].left,
         is_stored(j, h), SkipHand(j, h)
  PROVE  JobInv'
<1>1. TaskFields(j) /\ tasks = [i \in Task |-> tasks[i]]
  BY DEF JobInv, TaskInv
<1>2. tasks' = [tasks EXCEPT ![j] = [tasks[j] EXCEPT !.left = tasks[j].left \ {h}]]
  BY DEF SkipHand, Without
<1>3. [tasks[j] EXCEPT !.left = tasks[j].left \ {h}]
        = [at |-> "Grade", window |-> tasks[j].window, left |-> tasks[j].left \ {h},
           stored |-> tasks[j].stored, graded |-> tasks[j].graded, failed |-> tasks[j].failed]
  <2>1. ASSUME NEW t, t = [at |-> "Grade", window |-> tasks[j].window, left |-> tasks[j].left,
                           stored |-> tasks[j].stored, graded |-> tasks[j].graded,
                           failed |-> tasks[j].failed]
        PROVE  [t EXCEPT !.left = tasks[j].left \ {h}]
                 = [at |-> "Grade", window |-> tasks[j].window, left |-> tasks[j].left \ {h},
                    stored |-> tasks[j].stored, graded |-> tasks[j].graded,
                    failed |-> tasks[j].failed]
    BY <2>1
  <2>2. tasks[j] = [at |-> "Grade", window |-> tasks[j].window, left |-> tasks[j].left,
                    stored |-> tasks[j].stored, graded |-> tasks[j].graded,
                    failed |-> tasks[j].failed]
    BY <1>1 DEF TaskFields
  <2>. QED
    BY <2>1, <2>2, Zenon
<1>4. Busy(j)
  BY DEF Busy
<1>5. job'.state = "Running" /\ StateInv' /\ ~solved' /\ (DOMAIN scores)' = DOMAIN scores
  BY <1>4, OwnerIsAlone DEF SkipHand, StateInv, JobInv
<1>6. tasks' = [tasks EXCEPT ![j] =
        [at |-> "Grade", window |-> tasks[j].window, left |-> tasks[j].left \ {h},
         stored |-> tasks[j].stored, graded |-> tasks[j].graded, failed |-> tasks[j].failed]]
  BY <1>2, <1>3, Zenon
<1>7. h \in tasks[j].stored
  BY DEF is_stored
<1>. QED
  BY <1>5, <1>6, <1>7, HandIsDone

\* The task that has counted a hand.
LEMMA CountedTask ==
  ASSUME NEW window, NEW left, NEW stored, NEW graded, NEW failed, NEW task, NEW h,
         NEW problem \in BOOLEAN,
         task = [at |-> "Grade", window |-> window, left |-> left, stored |-> stored,
                 graded |-> graded, failed |-> failed]
  PROVE  Without(Counted(task, problem), h)
           = [at |-> "Grade", window |-> window, left |-> left \ {h}, stored |-> stored,
              graded |-> IF problem THEN graded ELSE graded + 1,
              failed |-> IF problem THEN failed + 1 ELSE failed]
<1>. DEFINE one == [task EXCEPT !.graded = IF problem THEN graded ELSE graded + 1]
            two == [one EXCEPT !.failed = IF problem THEN failed + 1 ELSE failed]
<1>1. one = [at |-> "Grade", window |-> window, left |-> left, stored |-> stored,
             graded |-> IF problem THEN graded ELSE graded + 1, failed |-> failed]
  OBVIOUS
<1>2. /\ task.graded = graded /\ task.failed = failed
      /\ Counted(task, problem) = [task EXCEPT
           !.graded = IF problem THEN task.graded ELSE task.graded + 1,
           !.failed = IF problem THEN task.failed + 1 ELSE task.failed]
  BY DEF Counted
<1>3. Counted(task, problem) = two
  BY <1>2
<1>. HIDE DEF one
<1>4. two = [at |-> "Grade", window |-> window, left |-> left, stored |-> stored,
             graded |-> IF problem THEN graded ELSE graded + 1,
             failed |-> IF problem THEN failed + 1 ELSE failed]
  BY <1>1
<1>. HIDE DEF two
<1>5. two.left = left
  BY <1>4
<1>6. [two EXCEPT !.left = two.left \ {h}]
        = [at |-> "Grade", window |-> window, left |-> left \ {h}, stored |-> stored,
           graded |-> IF problem THEN graded ELSE graded + 1,
           failed |-> IF problem THEN failed + 1 ELSE failed]
  BY <1>4, <1>5
<1>. QED
  BY <1>3, <1>6 DEF Without

\* A hand of the window is graded, its score stored or not.
LEMMA GradeHandStep ==
  ASSUME JobInv, NEW j \in Task, tasks[j].at = "Grade", NEW h \in tasks[j].left,
         ~ is_stored(j, h), GradeHand(j, h)
  PROVE  JobInv'
<1>. DEFINE window == tasks[j].window
            rest == tasks[j].window \ tasks[j].left
<1>1. TaskInv(j) /\ tasks = [i \in Task |-> tasks[i]] /\ ~solved
  BY DEF JobInv
<1>2. /\ tasks[j].left \subseteq tasks[j].window
      /\ tasks[j].left \cap DOMAIN scores \subseteq tasks[j].stored
      /\ IsFiniteSet(window)
  BY <1>1 DEF TaskInv, TaskCounts
<1>3. PICK result \in score_hand :
             /\ tasks' = [tasks EXCEPT ![j] = Without(Counted(@, result.problem), h)]
             /\ \/ scores' = scores
                \/ /\ result.grade # Ungraded
                   /\ h \notin DOMAIN scores
                   /\ scores' = [g \in DOMAIN scores \cup {h} |->
                                  IF g = h THEN result.grade ELSE scores[g]]
  BY Zenon DEF GradeHand
<1>4. result.problem \in BOOLEAN
  BY DEF score_hand
<1>. DEFINE graded == IF result.problem THEN tasks[j].graded ELSE tasks[j].graded + 1
            failed == IF result.problem THEN tasks[j].failed + 1 ELSE tasks[j].failed
<1>5. tasks' = [tasks EXCEPT ![j] =
        [at |-> "Grade", window |-> tasks[j].window, left |-> tasks[j].left \ {h},
         stored |-> tasks[j].stored, graded |-> graded, failed |-> failed]]
  <2>1. tasks[j] = [at |-> "Grade", window |-> tasks[j].window, left |-> tasks[j].left,
                    stored |-> tasks[j].stored, graded |-> tasks[j].graded,
                    failed |-> tasks[j].failed]
    BY <1>1 DEF TaskInv, TaskFields
  <2>2. Without(Counted(tasks[j], result.problem), h)
          = [at |-> "Grade", window |-> tasks[j].window, left |-> tasks[j].left \ {h},
             stored |-> tasks[j].stored, graded |-> graded, failed |-> failed]
    BY <1>4, <2>1, CountedTask
  <2>. QED
    BY <1>3, <2>2
<1>6. h \notin tasks[j].stored
  BY DEF is_stored
<1>7. \/ graded = tasks[j].graded + 1 /\ failed = tasks[j].failed
      \/ graded = tasks[j].graded /\ failed = tasks[j].failed + 1
  BY <1>4
<1>8. (DOMAIN scores)' \subseteq DOMAIN scores \cup {h}
  BY <1>3
<1>9. ~solved'
  BY <1>1, <1>2, <1>6 DEF GradeHand
<1>10. IsFiniteSet(rest) /\ h \notin rest
  BY <1>2, FS_Difference
<1>11. Cardinality(rest) \in Nat /\ Cardinality(window) \in Nat
       /\ Cardinality(rest) + 1 <= Cardinality(window)
  <2>. HIDE DEF rest
  <2>1. IsFiniteSet(rest \cup {h}) /\ Cardinality(rest \cup {h}) = Cardinality(rest) + 1
    BY <1>10, FS_AddElement
  <2>2. rest \cup {h} \in SUBSET window
    BY <1>2 DEF rest
  <2>3. Cardinality(rest \cup {h}) <= Cardinality(window)
    BY <1>2, <2>2, FS_Subset
  <2>4. Cardinality(rest) \in Nat /\ Cardinality(window) \in Nat
    BY <1>2, <1>10, FS_CardinalityType
  <2>. QED
    BY <2>1, <2>3, <2>4
<1>12. job' = Running(Cardinality(rest) + 1, Cardinality(window))
  BY DEF GradeHand
<1>. HIDE DEF rest, window, graded, failed
<1>13. /\ job'.state = "Running"
       /\ job'.done = Cardinality(rest) + 1 /\ job'.total = Cardinality(window)
  BY <1>12, StatesOfTheJob
<1>14. StateInv'
  BY <1>11, <1>13 DEF StateInv
<1>. QED
  BY <1>5, <1>6, <1>7, <1>8, <1>9, <1>13, <1>14, HandIsDone

LEMMA ScoreHandStep ==
  ASSUME JobInv, NEW j \in Task, ScoreHand(j)
  PROVE  JobInv'
BY SkipHandStep, GradeHandStep DEF ScoreHand

\* With no hand left, all of the window is counted.
LEMMA ReportStep ==
  ASSUME JobInv, NEW j \in Task, Report(j)
  PROVE  JobInv'
<1>1. /\ tasks[j].at = "Grade" /\ tasks[j].left = {} /\ solved' = solved
      /\ tasks' = [tasks EXCEPT ![j] = NoTask]
      /\ job' = Done(Cardinality(tasks[j].window), tasks[j].graded, tasks[j].failed,
                     rolling_field_stats)
  BY DEF Report
<1>2. TaskInv(j) /\ ~solved
  BY DEF JobInv
<1>3. /\ tasks[j].graded \in Nat /\ tasks[j].failed \in Nat
      /\ tasks[j].graded + tasks[j].failed + Cardinality({} \ tasks[j].stored)
           = Cardinality(tasks[j].window)
  BY <1>1, <1>2 DEF TaskInv, TaskCounts
<1>4. {} \ tasks[j].stored = {}
  OBVIOUS
<1>5. tasks[j].graded + tasks[j].failed = Cardinality(tasks[j].window)
  BY <1>3, <1>4, FS_EmptySet
<1>6. /\ job'.state = "Done"
      /\ job'.done = Cardinality(tasks[j].window) /\ job'.total = Cardinality(tasks[j].window)
      /\ job'.graded = tasks[j].graded /\ job'.failed = tasks[j].failed
  BY <1>1, StatesOfTheJob
<1>7. StateInv'
  <2>1. Cardinality(tasks[j].window) \in Nat
    BY <1>3, <1>5
  <2>. QED
    BY <1>5, <1>6, <2>1 DEF StateInv
<1>8. Busy(j)
  BY <1>1 DEF Busy
<1>. QED
  BY <1>1, <1>2, <1>6, <1>7, <1>8, OwnerEnds

LEMMA JobFailsStep ==
  ASSUME JobInv, NEW j \in Task, JobFails(j)
  PROVE  JobInv'
<1>1. /\ Busy(j) /\ tasks' = [tasks EXCEPT ![j] = NoTask]
      /\ job' = Idle /\ solved' = solved
  BY DEF JobFails, state_after_failure, Busy
<1>2. job'.state # "Running" /\ StateInv' /\ ~solved'
  BY <1>1, StatesOfTheJob DEF StateInv, JobInv
<1>. QED
  BY <1>1, <1>2, OwnerEnds

LEMMA JobEndsWithTheServer ==
  ASSUME JobInv, Restart
  PROVE  JobInv'
<1>1. /\ job' = Idle /\ tasks' = [j \in Task |-> NoTask] /\ solved' = solved
  BY DEF Restart
<1>2. \A j \in Task : TaskInv(j)' /\ ~Busy(j)'
  BY <1>1, NoTaskInv
<1>3. StateInv' /\ OwnerInv' /\ ~solved'
  BY <1>1, <1>2, StatesOfTheJob DEF StateInv, OwnerInv, JobInv
<1>. QED
  BY <1>1, <1>2, <1>3 DEF JobInv

LEMMA JobStays ==
  ASSUME JobInv, UNCHANGED <<job, tasks, scores, solved>>
  PROVE  JobInv'
BY DEF JobInv, TaskInv, TaskFields, TaskCounts, StateInv, OwnerInv, Busy

LEMMA NextJobInv == ImportInv /\ JobInv /\ [Next]_vars => JobInv'
<1>. SUFFICES ASSUME ImportInv, JobInv, [Next]_vars PROVE JobInv'
  OBVIOUS
<1>1. CASE ImportNext /\ UNCHANGED analysisVars
  BY <1>1, JobStays DEF analysisVars
<1>2. CASE AnalyzeOpponents
  BY <1>2, AnalyzeStep
<1>3. CASE \E j \in Task : JobStep(j) \/ JobFails(j)
  BY <1>3, LoadHandsStep, LoadScoresStep, ScoreHandStep, ReportStep, JobFailsStep DEF JobStep
<1>4. CASE SaveTemplate \/ ClearTemplate
  BY <1>4, JobStays DEF SaveTemplate, ClearTemplate
<1>5. CASE Restart
  BY <1>5, JobEndsWithTheServer
<1>6. CASE UNCHANGED vars
  BY <1>6, JobStays DEF vars, analysisVars
<1>. QED
  BY <1>1, <1>2, <1>3, <1>4, <1>5, <1>6 DEF Next

(***************************************************************************)
(* What follows.                                                           *)
(***************************************************************************)
LEMMA OwnedJob == JobInv => JobIsOwned
<1>. SUFFICES ASSUME JobInv PROVE JobIsOwned
  OBVIOUS
<1>. DEFINE busy == {j \in Task : tasks[j].at # "Off"}
<1>1. CASE job.state = "Running"
  <2>1. PICK j \in Task : \A i \in Task : Busy(i) <=> i = j
    BY <1>1 DEF JobInv, OwnerInv
  <2>2. busy = {j}
    BY <2>1 DEF Busy
  <2>. QED
    BY <1>1, <2>2, FS_Singleton DEF JobIsOwned
<1>2. CASE job.state # "Running"
  <2>1. busy = {}
    BY <1>2 DEF JobInv, OwnerInv, Busy
  <2>. QED
    BY <1>2, <2>1, FS_EmptySet DEF JobIsOwned
<1>. QED
  BY <1>1, <1>2

LEMMA Percentage ==
  ASSUME NEW done \in Nat, NEW total \in Nat, done <= total, total # 0
  PROVE  (100 * done) \div total \in 0..100
OBVIOUS

LEMMA CountedJob == JobInv => ReportsCountEveryHand
<1>. SUFFICES ASSUME JobInv PROVE ReportsCountEveryHand
  OBVIOUS
<1>1. /\ job.done \in Nat /\ job.total \in Nat /\ job.done <= job.total
      /\ job.state = "Done" => job.graded + job.failed = job.total
  BY DEF JobInv, StateInv
<1>2. progress(job) \in 0..100 /\ (job.state = "Done" => progress(job) = 100)
  <2>1. CASE job.state = "Idle"
    BY <2>1 DEF progress
  <2>2. CASE job.state = "Running"
    BY <1>1, <2>2, Percentage DEF progress
  <2>3. CASE job.state \notin {"Idle", "Running"}
    BY <2>3 DEF progress
  <2>. QED
    BY <2>1, <2>2, <2>3
<1>3. history_analyze_status.state = job.state /\ history_analyze_status.progress = progress(job)
  BY DEF history_analyze_status
<1>. QED
  BY <1>1, <1>2, <1>3 DEF ReportsCountEveryHand

\* Whatever fails, restarts and is imported meanwhile: a job shown as running
\* has exactly one task behind it, no hand is solved while it has a score, and a
\* report accounts for every hand of its window.
THEOREM TheJobStaysTrue == Spec => []TheJobIsTrue
<1>1. Init => ImportInv /\ JobInv
  BY InitImportInv, InitJobInv DEF Init
<1>2. ImportInv /\ JobInv /\ [Next]_vars => (ImportInv /\ JobInv)'
  BY NextImportInv, NextJobInv
<1>3. JobInv => TheJobIsTrue
  BY OwnedJob, CountedJob DEF TheJobIsTrue, ScoredHandsAreNotSolvedAgain, JobInv
<1>. QED
  BY <1>1, <1>2, <1>3, PTL DEF Spec

=============================================================================
