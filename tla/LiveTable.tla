------------------------------ MODULE LiveTable ------------------------------
(***************************************************************************)
(* The single live tournament and the connections that want to play it:    *)
(* the store of src/src/live.rs, the session rows of src/src/analytics.rs, *)
(* and the life of a connection in handle_socket and play_socket of        *)
(* src/src/server/ws.rs.                                                   *)
(*                                                                         *)
(* Each connection is a task of its own, and every SQL statement it waits  *)
(* for is a step.  PostgreSQL runs them at its default isolation, read     *)
(* committed: a statement of claim_or_resume sees what others committed in *)
(* the meantime, and an UPDATE or INSERT waits for a conflicting one.      *)
(* Any statement may fail, a bounded number of times: the connection logs  *)
(* it and goes on.                                                         *)
(*                                                                         *)
(* What is played is abstract: a table is the number of moves made on it,  *)
(* the number of decisions of the hero to be recorded among them, and the  *)
(* result once the tournament has ended.  A deal counts as a move, and so  *)
(* does a message of the hero with all that pump plays after it.  Whether  *)
(* a hand is over, so that the next one is dealt, is left open.            *)
(***************************************************************************)
EXTENDS Integers, FiniteSets

CONSTANTS
  Conn,        \* the connections
  MaxSessions, \* bound: tournaments started
  MaxMoves,    \* bound: moves made on a table
  MaxRecords,  \* bound: decisions stored for a tournament, replayed ones included
  MaxFaults    \* bound: statements that fail

ASSUME BoundsAssumption ==
  /\ MaxSessions \in Nat \ {0} /\ MaxMoves \in Nat \ {0}
  /\ MaxRecords \in Nat /\ MaxFaults \in Nat

Session == 1..MaxSessions
Results == {"WIN", "LOSS"}

\* hero_sessions: "none" while session_end is NULL, "unborn" before there is a
\* row, and "ended" for one that is closed without a result.
Outcomes == Results \cup {"ended", "none", "unborn"}

\* What TournamentSnapshot holds of a table.
Table == [session : Session, moves : 0..MaxMoves, decisions : Nat,
          result : Results \cup {"none"}]

NoTable == [session |-> 0, moves |-> 0, decisions |-> 0, result |-> "none"]

\* bootstrap: the first hand is dealt.
NewTable(s) == [session |-> s, moves |-> 1, decisions |-> 0, result |-> "none"]

\* The active_tournament row, of which there is at most one.
Row   == [session : Session, connected : BOOLEAN, snapshot : Table \cup {NoTable}]
NoRow == [session |-> 0, connected |-> FALSE, snapshot |-> NoTable]

VARIABLES
  row,     \* active_tournament, or NoRow
  result,  \* hero_sessions, the outcome
  records, \* hero_decisions, how many of each tournament
  pc,      \* what each connection waits for
  table,   \* the TableSession each connection drives, or has read the row of
  rendered, \* the last table a client was shown
  faults,  \* statements that have failed
  stuck    \* history: whether the claim was left on the row since the boot

vars == <<row, result, records, pc, table, rendered, faults, stuck>>

\* A table is driven from the claim to the release.
Drives(c) ==
  pc[c] \in {"opening", "resuming", "starting", "storing", "recording", "saving",
             "playing", "dealing", "givingup", "finalizing", "ending", "clearing"}

\* A statement succeeds or fails.
Works == UNCHANGED faults
Fails == faults < MaxFaults /\ faults' = faults + 1

Goto(c, label) == pc' = [pc EXCEPT ![c] = label]

Init ==
  /\ row = NoRow
  /\ result = [s \in Session |-> "unborn"]
  /\ records = [s \in Session |-> 0]
  /\ pc = [c \in Conn |-> "off"]
  /\ table = [c \in Conn |-> NoTable]
  /\ rendered = NoTable
  /\ faults = 0
  /\ stuck = FALSE

(***************************************************************************)
(* claim_or_resume, one transaction: what fails in it is rolled back.      *)
(***************************************************************************)
\* SELECT session_id, snapshot: what a new connection finds.
ReadRow(c) ==
  /\ pc[c] = "off"
  /\ IF row = NoRow
     THEN /\ Goto(c, "inserting")
          /\ UNCHANGED table
     ELSE /\ Goto(c, "checking")
          /\ table' = [table EXCEPT ![c] =
               IF row.snapshot = NoTable THEN NewTable(row.session) ELSE row.snapshot]
  /\ UNCHANGED <<row, result, records, rendered, faults, stuck>>

Reject(c) ==
  /\ Goto(c, "off")
  /\ table' = [table EXCEPT ![c] = NoTable]

\* The claim is committed and the table t restored or dealt; when that fails the
\* connection is rejected and nothing takes the claim back.
Open(c, t) ==
  \/ /\ Works
     /\ Goto(c, "opening")
     /\ table' = [table EXCEPT ![c] = t]
     /\ UNCHANGED stuck
  \/ /\ Fails
     /\ Reject(c)
     /\ stuck' = TRUE

\* INSERT of a session and the row; a second one is refused by the key.
InsertRow(c) ==
  /\ pc[c] = "inserting"
  /\ UNCHANGED <<records, rendered>>
  /\ \/ /\ row # NoRow
        /\ Goto(c, "off")
        /\ UNCHANGED <<row, result, table, faults, stuck>>
     \/ /\ row = NoRow
        /\ \E s \in Session :
             /\ result[s] = "unborn"
             /\ \A t \in Session : t < s => result[t] # "unborn"
             /\ result' = [result EXCEPT ![s] = "none"]
             /\ row' = [session |-> s, connected |-> TRUE, snapshot |-> NoTable]
             /\ Open(c, NewTable(s))

\* SELECT connected: the table is taken, gone, or free.
CheckConnected(c) ==
  /\ pc[c] = "checking"
  /\ IF row = NoRow \/ row.connected THEN Reject(c)
     ELSE Goto(c, "taking") /\ UNCHANGED table
  /\ UNCHANGED <<row, result, records, rendered, faults, stuck>>

SetConnected(c) == [row EXCEPT !.connected = TRUE]

\* UPDATE connected = TRUE and COMMIT.
TakeRow(c) ==
  /\ pc[c] = "taking"
  /\ row' = IF row = NoRow THEN NoRow ELSE SetConnected(c)
  /\ Open(c, table[c])
  /\ UNCHANGED <<result, records, rendered>>

ClaimFails(c) ==
  /\ pc[c] \in {"inserting", "checking", "taking"}
  /\ Fails
  /\ Reject(c)
  /\ UNCHANGED <<row, result, records, rendered, stuck>>

(***************************************************************************)
(* play_socket.                                                            *)
(***************************************************************************)
\* The table moves on, by so many decisions of the hero to be recorded, and the
\* tournament may end.
Move(c, decisions) ==
  /\ table[c].result = "none"
  /\ table[c].moves < MaxMoves
  /\ \E over \in Results \cup {"none"} :
       table' = [table EXCEPT ![c] = [session   |-> @.session,
                                      moves     |-> @.moves + 1,
                                      decisions |-> @.decisions + decisions,
                                      result    |-> over]]

\* The frames of the table as it is are sent.
Send(c) == rendered' = table[c]'

Ended(c) == table[c].result # "none"

\* The table is shown as it was restored or dealt, before anything else.
Show(c) ==
  /\ pc[c] = "opening"
  /\ UNCHANGED <<row, result, records, table, faults, stuck>>
  /\ Send(c)
  /\ Goto(c, "resuming")

\* post_resume_frames: a tournament that is over is finalized, and after a
\* finished hand the next one is dealt, and perhaps another.
DealOnOpening(c) ==
  /\ pc[c] = "resuming"
  /\ \/ Ended(c) /\ UNCHANGED table
     \/ Move(c, 0)
  /\ Goto(c, IF Ended(c)' THEN "finalizing" ELSE "resuming")
  /\ UNCHANGED <<row, result, records, rendered, faults, stuck>>

\* What was dealt is shown once the hero has a decision, and not saved yet.
ShowDealt(c) ==
  /\ pc[c] = "resuming"
  /\ ~Ended(c)
  /\ UNCHANGED <<row, result, records, table, faults, stuck>>
  /\ Send(c)
  /\ Goto(c, "starting")

\* handle_client_message, which may leave a decision to be recorded.
Play(c) ==
  /\ pc[c] = "playing"
  /\ \/ Move(c, 0) /\ Goto(c, "saving")
     \/ /\ records[table[c].session] < MaxRecords
        /\ Move(c, 1)
        /\ Goto(c, "recording")
  /\ UNCHANGED <<row, result, records, rendered, faults, stuck>>

\* persist_records: INSERT of the decision.
Record(c) ==
  /\ pc[c] = "recording"
  /\ \/ Works /\ records' = [records EXCEPT ![table[c].session] = @ + 1]
     \/ Fails /\ UNCHANGED records
  /\ Goto(c, "saving")
  /\ UNCHANGED <<row, result, table, rendered, stuck>>

\* advance_frames: after the result pause the next hand is dealt and shown,
\* and only then saved.
DealNext(c) ==
  /\ pc[c] = "dealing"
  /\ Move(c, 0)
  /\ Send(c)
  /\ Goto(c, "storing")
  /\ UNCHANGED <<row, result, records, faults, stuck>>

\* tournament_over_frame, or the hand is over, or the hero must act.
GoOn(c) ==
  \/ Ended(c) /\ Goto(c, "finalizing")
  \/ ~Ended(c) /\ (Goto(c, "dealing") \/ Goto(c, "playing"))

\* Mutant: the snapshot is written to whatever row there is.
SavedRow_any_session(c) == IF row = NoRow THEN row ELSE [row EXCEPT !.snapshot = table[c]]

\* save_snapshot: UPDATE of the row, if it is that of the session.
SavedRow(c) ==
  IF row # NoRow /\ row.session = table[c].session
  THEN [row EXCEPT !.snapshot = table[c]] ELSE row

\* save_table.
SaveTable(c) ==
  \/ Works /\ row' = SavedRow(c)
  \/ Fails /\ UNCHANGED row

\* Mutant: the frames leave and the table is saved some other time.
Save_late(c) ==
  /\ pc[c] = "saving"
  /\ UNCHANGED <<row, result, records, table, faults, stuck>>
  /\ Send(c)
  /\ GoOn(c)

\* The table is saved, and then the frames are sent.
Save(c) ==
  /\ pc[c] = "saving"
  /\ SaveTable(c)
  /\ UNCHANGED <<result, records, table, stuck>>
  /\ Send(c)
  /\ GoOn(c)

\* A hand whose frames have been sent is saved.
Store(c) ==
  /\ pc[c] = "storing"
  /\ SaveTable(c)
  /\ GoOn(c)
  /\ UNCHANGED <<result, records, table, rendered, stuck>>

\* The first save of the connection, before it listens to its client.
Start(c) ==
  /\ pc[c] = "starting"
  /\ SaveTable(c)
  /\ Goto(c, "playing")
  /\ UNCHANGED <<result, records, table, rendered, stuck>>

\* FinishTable: the hero gives up.
GiveUp(c) ==
  /\ pc[c] = "playing"
  /\ Goto(c, "givingup")
  /\ UNCHANGED <<row, result, records, table, rendered, faults, stuck>>

\* Mutant: the outcome is written without asking whether there is one.
Outcome_unguarded(c) == IF pc[c] = "givingup" THEN "LOSS" ELSE table[c].result

\* UPDATE ... WHERE session_end IS NULL.
Outcome(c) ==
  IF result[table[c].session] # "none" THEN result[table[c].session]
  ELSE IF pc[c] = "givingup" THEN "LOSS"
  ELSE table[c].result

\* finalize_session, with the result of the table or a LOSS.
Finalize(c) ==
  /\ pc[c] \in {"finalizing", "givingup"}
  /\ \/ Works /\ result' = [result EXCEPT ![table[c].session] = Outcome(c)]
     \/ Fails /\ UNCHANGED result
  /\ Goto(c, IF pc[c] = "givingup" THEN "clearing" ELSE "ending")
  /\ UNCHANGED <<row, records, table, rendered, stuck>>

\* Mutant: close_session is left out, as finalize_session has ended the session.
Closed_finalized(s) == result[s]

\* UPDATE session_end ... WHERE session_end IS NULL.
Closed(s) == IF result[s] = "none" THEN "ended" ELSE result[s]

\* close_session: a session that could not be finalized is ended all the same.
CloseSession(c) ==
  /\ pc[c] = "ending"
  /\ \/ Works /\ result' = [result EXCEPT ![table[c].session] = Closed(table[c].session)]
     \/ Fails /\ UNCHANGED result
  /\ Goto(c, "clearing")
  /\ UNCHANGED <<row, records, table, rendered, stuck>>

\* clear_active: DELETE of the row, whichever it is.
Clear(c) ==
  /\ pc[c] = "clearing"
  /\ \/ Works /\ row' = NoRow /\ UNCHANGED stuck
     \/ Fails /\ stuck' = TRUE /\ UNCHANGED row
  /\ Goto(c, "closing")
  /\ UNCHANGED <<result, records, table, rendered>>

\* The last frame is sent: released.
Close(c) ==
  /\ pc[c] = "closing"
  /\ Reject(c)
  /\ UNCHANGED <<row, result, records, rendered, faults, stuck>>

(***************************************************************************)
(* The client goes away: noticed while waiting for it or sending to it.    *)
(***************************************************************************)
\* Mutant: also while its decision is being stored.
AtTheSocket_always ==
  {"opening", "resuming", "starting", "recording", "saving", "storing", "playing",
   "dealing", "closing"}

AtTheSocket ==
  {"opening", "resuming", "starting", "saving", "storing", "playing", "dealing", "closing"}

Disconnect(c) ==
  /\ pc[c] \in AtTheSocket
  /\ Goto(c, "leaving")
  /\ UNCHANGED <<row, result, records, table, rendered, faults, stuck>>

\* handle_socket: the final save.
SaveOnLeaving(c) ==
  /\ pc[c] = "leaving"
  /\ SaveTable(c)
  /\ Goto(c, "releasing")
  /\ UNCHANGED <<result, records, table, rendered, stuck>>

\* Mutant: nothing is released.
Released_never == row

\* mark_disconnected: UPDATE of the row, whichever it is.
Released == IF row = NoRow THEN row ELSE [row EXCEPT !.connected = FALSE]

Release(c) ==
  /\ pc[c] = "releasing"
  /\ \/ Works /\ row' = Released /\ UNCHANGED stuck
     \/ Fails /\ stuck' = TRUE /\ UNCHANGED row
  /\ Reject(c)
  /\ UNCHANGED <<result, records, rendered>>

\* The process dies and boots again, clearing the flag before it listens.
Restart ==
  /\ \E c \in Conn : pc[c] # "off"
  /\ pc' = [c \in Conn |-> "off"]
  /\ table' = [c \in Conn |-> NoTable]
  /\ row' = Released
  /\ stuck' = FALSE
  /\ UNCHANGED <<result, records, rendered, faults>>

Claim(c) ==
  ReadRow(c) \/ InsertRow(c) \/ CheckConnected(c) \/ TakeRow(c) \/ ClaimFails(c)

Drive(c) ==
  \/ Show(c) \/ DealOnOpening(c) \/ ShowDealt(c) \/ Start(c)
  \/ Play(c) \/ Record(c) \/ Save(c) \/ DealNext(c) \/ Store(c)
  \/ GiveUp(c) \/ Finalize(c) \/ CloseSession(c) \/ Clear(c) \/ Close(c)

Leave(c) == Disconnect(c) \/ SaveOnLeaving(c) \/ Release(c)

Next == Restart \/ \E c \in Conn : Claim(c) \/ Drive(c) \/ Leave(c)

Spec == Init /\ [][Next]_vars

-----------------------------------------------------------------------------
(***************************************************************************)
(* Properties.                                                             *)
(***************************************************************************)
Labels ==
  {"off", "inserting", "checking", "taking", "opening", "resuming", "starting",
   "storing", "recording", "saving", "playing", "dealing", "givingup", "finalizing",
   "ending", "clearing", "closing", "leaving", "releasing"}

TypeOK ==
  /\ row \in Row \cup {NoRow}
  /\ result \in [Session -> Outcomes]
  /\ records \in [Session -> Nat]
  /\ pc \in [Conn -> Labels]
  /\ table \in [Conn -> Table \cup {NoTable}]
  /\ rendered \in Table \cup {NoTable}
  /\ faults \in 0..MaxFaults
  /\ stuck \in BOOLEAN

\* The outcome of a tournament is final: whatever connections finish it, give
\* it up or finish it again after a restart, the first outcome stays.
OutcomeWrittenOnce ==
  [][\A s \in Session : result[s] \in Results => result'[s] = result[s]]_vars

\* Nobody is locked out of the table: once no connection is open, the row is
\* free to be claimed, however the connections before it ended and whatever
\* failed on the way.  Only a claim that could not be opened, released or
\* cleared stays on the row, and that until the next boot.
NoTableIsLocked == (\A c \in Conn : pc[c] = "off") /\ ~stuck => ~row.connected

\* The row never carries the snapshot of another tournament, whoever saved
\* last.
SnapshotsStayInTheirTournament ==
  row.snapshot # NoTable => row.snapshot.session = row.session

\* The saved table is never ahead of the decisions stored for it
\* (src/src/server/ws.rs:387-391: the records are inserted, then the table is
\* saved), at whatever step the process dies or the client leaves: a failed
\* statement costs one at most.
DecisionsAreRecorded ==
  row # NoRow => row.snapshot.decisions <= records[row.session] + faults

\* src/src/live.rs:3-4: the flag keeps a second connection from the table
\* while another one drives it.
OneDriver ==
  \A c, d \in Conn :
    Drives(c) /\ Drives(d) /\ table[c].session = table[d].session => c = d

=============================================================================
