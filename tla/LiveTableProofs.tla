--------------------------- MODULE LiveTableProofs ---------------------------
(***************************************************************************)
(* Proofs about LiveTable, for any set of connections and any bounds.      *)
(***************************************************************************)
EXTENDS MCLiveTable, TLAPS

(***************************************************************************)
(* The inductive invariant.  A connection past the claim has a table, and  *)
(* a row marked connected belongs to a connection that has yet to clear or *)
(* release it, or is stuck.  A connection that is closing has cleared the  *)
(* row already.                                                            *)
(***************************************************************************)
\* Where a connection has not read a table yet.
Tableless == {"off", "inserting"}

\* Where a connection still owes the row a release.
Owing == {"opening", "resuming", "starting", "storing", "recording", "saving", "playing",
          "dealing", "givingup", "finalizing", "ending", "clearing", "leaving",
          "releasing"}

HasTable == \A c \in Conn : pc[c] \notin Tableless => table[c] \in Table

FlagIsOwed == row.connected /\ ~stuck => \E c \in Conn : pc[c] \in Owing

IInv ==
  /\ TypeOK
  /\ HasTable
  /\ FlagIsOwed
  /\ SnapshotsStayInTheirTournament

\* The table a connection starts from is one the model's bounds allow.
LEMMA NewTables ==
  ASSUME NEW s \in Session
  PROVE  NewTable(s) \in Table
  BY BoundsAssumption DEF NewTable, Table, Session, Results

\* A record of Row is never the missing row.
LEMMA RowIsThere ==
  ASSUME NEW r \in Row
  PROVE  r # NoRow /\ r.session \in Session /\ r.connected \in BOOLEAN
         /\ r.snapshot \in Table \cup {NoTable}
  BY DEF Row, NoRow, Session

\* IInv holds at the start.
LEMMA InitIInv == Init => IInv
  <1> SUFFICES ASSUME Init
               PROVE  IInv
    OBVIOUS
  <1>1. TypeOK
    <2>1. result \in [Session -> Outcomes] /\ records \in [Session -> Nat]
      BY DEF Init, Outcomes
    <2>2. pc \in [Conn -> Labels]
      BY DEF Init, Labels
    <2>3. row \in Row \cup {NoRow} /\ rendered \in Table \cup {NoTable}
      BY DEF Init
    <2>4. table \in [Conn -> Table \cup {NoTable}]
      BY DEF Init
    <2>5. faults \in 0..MaxFaults
      BY BoundsAssumption DEF Init
    <2>6. stuck \in BOOLEAN
      BY DEF Init
    <2> QED
      BY <2>1, <2>2, <2>3, <2>4, <2>5, <2>6 DEF TypeOK
  <1>2. HasTable
    BY DEF Init, HasTable, Tableless
  <1>3. FlagIsOwed /\ SnapshotsStayInTheirTournament
    BY DEF Init, FlagIsOwed, SnapshotsStayInTheirTournament, NoRow
  <1> QED
    BY <1>1, <1>2, <1>3 DEF IInv

\* Saving a table keeps the row a row, and its session and flag as they are.
LEMMA Saving ==
  ASSUME IInv, NEW c \in Conn, table[c] \in Table
  PROVE  /\ SavedRow(c) \in Row \cup {NoRow}
         /\ SavedRow(c).connected = row.connected
         /\ SavedRow(c).snapshot # NoTable => SavedRow(c).snapshot.session = SavedRow(c).session
  <1>1. CASE row # NoRow /\ row.session = table[c].session
    <2>1. row \in Row
      BY <1>1 DEF IInv, TypeOK
    <2> QED
      BY <1>1, <2>1 DEF SavedRow, Row
  <1>2. CASE ~(row # NoRow /\ row.session = table[c].session)
    BY <1>2 DEF IInv, TypeOK, SavedRow, SnapshotsStayInTheirTournament
  <1> QED
    BY <1>1, <1>2

\* Releasing keeps the row and its snapshot, and clears the flag.
LEMMA Releasing ==
  ASSUME IInv
  PROVE  /\ Released \in Row \cup {NoRow}
         /\ ~Released.connected
         /\ Released.snapshot # NoTable => Released.snapshot.session = Released.session
  <1>1. CASE row = NoRow
    BY <1>1 DEF Released, NoRow, NoTable
  <1>2. CASE row # NoRow
    <2>1. row \in Row
      BY <1>2 DEF IInv, TypeOK
    <2> QED
      BY <1>2, <2>1 DEF Released, Row, IInv, SnapshotsStayInTheirTournament
  <1> QED
    BY <1>1, <1>2

\* What is left to show of a step that moves one connection: the row stays a
\* row, and the flag is owed by somebody afterwards.
LEMMA OneStep ==
  ASSUME IInv,
         NEW c \in Conn, NEW label, Goto(c, label),
         label \in Labels,
         row' \in Row \cup {NoRow},
         row'.snapshot # NoTable => row'.snapshot.session = row'.session,
         row'.connected /\ ~stuck' => (row.connected /\ ~stuck) \/ label \in Owing,
         row'.connected /\ ~stuck' /\ pc[c] \in Owing => label \in Owing,
         \E t \in Table \cup {NoTable} :
           /\ table' = [table EXCEPT ![c] = t]
           /\ label \notin Tableless => t \in Table,
         result' \in [Session -> Outcomes],
         records' \in [Session -> Nat],
         rendered' \in Table \cup {NoTable},
         faults' \in 0..MaxFaults,
         stuck' \in BOOLEAN
  PROVE  IInv'
  <1>1. TypeOK'
    BY DEF IInv, TypeOK, Goto
  <1>2. HasTable'
    BY DEF IInv, TypeOK, HasTable, Goto
  <1>3. FlagIsOwed'
    <2> SUFFICES ASSUME row'.connected, ~stuck'
                 PROVE  \E d \in Conn : pc'[d] \in Owing
      BY DEF FlagIsOwed
    <2>1. CASE label \in Owing
      BY <2>1 DEF IInv, TypeOK, Goto
    <2>2. CASE label \notin Owing
      <3>1. PICK d \in Conn : pc[d] \in Owing
        BY <2>2 DEF IInv, FlagIsOwed
      <3>2. d # c
        BY <2>2, <3>1
      <3> QED
        BY <3>1, <3>2 DEF IInv, TypeOK, Goto
    <2> QED
      BY <2>1, <2>2
  <1>4. SnapshotsStayInTheirTournament'
    BY DEF SnapshotsStayInTheirTournament
  <1> QED
    BY <1>1, <1>2, <1>3, <1>4 DEF IInv

\* What a statement leaves of the bound on faults, whether it fails or not.
LEMMA FaultsCounted ==
  ASSUME faults \in 0..MaxFaults, Works \/ Fails \/ UNCHANGED faults
  PROVE  faults' \in 0..MaxFaults /\ faults' >= faults
  BY BoundsAssumption DEF Works, Fails

\* A claim that is committed opens the table, or leaves the row stuck.
LEMMA Opening ==
  ASSUME IInv, NEW c \in Conn, NEW t \in Table, Open(c, t),
         row' \in Row \cup {NoRow},
         row'.snapshot # NoTable => row'.snapshot.session = row'.session,
         result' \in [Session -> Outcomes],
         UNCHANGED <<records, rendered>>
  PROVE  IInv'
  <1>0. /\ records' \in [Session -> Nat]
        /\ rendered' \in Table \cup {NoTable}
        /\ faults' \in 0..MaxFaults
    BY FaultsCounted DEF IInv, TypeOK, Open
  <1>1. CASE Goto(c, "opening") /\ table' = [table EXCEPT ![c] = t] /\ UNCHANGED stuck
    <2>1. stuck' \in BOOLEAN
      BY <1>1 DEF IInv, TypeOK
    <2> QED
      BY <1>0, <1>1, <2>1, OneStep DEF Owing, Tableless, Labels
  <1>2. CASE Reject(c) /\ stuck' = TRUE
    BY <1>0, <1>2, OneStep DEF Reject, Owing, Tableless, Labels
  <1> QED
    BY <1>1, <1>2 DEF Open

\* The steps of a claim.
LEMMA ClaimKeepsIInv ==
  ASSUME IInv, NEW c \in Conn, Claim(c)
  PROVE  IInv'
  <1>0. /\ row \in Row \cup {NoRow}
        /\ row.snapshot # NoTable => row.snapshot.session = row.session
        /\ result \in [Session -> Outcomes]
        /\ records \in [Session -> Nat]
        /\ rendered \in Table \cup {NoTable}
        /\ table \in [Conn -> Table \cup {NoTable}]
        /\ faults \in 0..MaxFaults
        /\ stuck \in BOOLEAN
    BY DEF IInv, TypeOK, SnapshotsStayInTheirTournament
  <1>1. CASE ReadRow(c)
    <2>0. pc[c] = "off" /\ UNCHANGED <<row, result, records, rendered, faults, stuck>>
      BY <1>1 DEF ReadRow
    <2>1. CASE row = NoRow
      <3>1. Goto(c, "inserting") /\ UNCHANGED table
        BY <1>1, <2>1 DEF ReadRow
      <3>2. table' = [table EXCEPT ![c] = table[c]] /\ table[c] \in Table \cup {NoTable}
        BY <1>0, <3>1
      <3> QED
        BY <1>0, <2>0, <3>1, <3>2, OneStep DEF Owing, Tableless, Labels
    <2>2. CASE row # NoRow
      <3> DEFINE t == IF row.snapshot = NoTable THEN NewTable(row.session) ELSE row.snapshot
      <3>1. Goto(c, "checking") /\ table' = [table EXCEPT ![c] = t]
        BY <1>1, <2>2 DEF ReadRow
      <3>2. t \in Table
        <4>1. row \in Row
          BY <1>0, <2>2
        <4> QED
          BY <4>1, RowIsThere, NewTables
      <3> HIDE DEF t
      <3> QED
        BY <1>0, <2>0, <3>1, <3>2, OneStep DEF Owing, Tableless, Labels
    <2> QED
      BY <2>1, <2>2
  <1>2. CASE InsertRow(c)
    <2>0. pc[c] = "inserting" /\ UNCHANGED <<records, rendered>>
      BY <1>2 DEF InsertRow
    <2>1. CASE row # NoRow
      <3>1. Goto(c, "off") /\ UNCHANGED <<row, result, table, faults, stuck>>
        BY <1>2, <2>1 DEF InsertRow
      <3>2. table' = [table EXCEPT ![c] = table[c]] /\ table[c] \in Table \cup {NoTable}
        BY <1>0, <3>1
      <3> QED
        BY <1>0, <2>0, <3>1, <3>2, OneStep DEF Owing, Tableless, Labels
    <2>2. CASE row = NoRow
      <3>1. PICK s \in Session :
              /\ result' = [result EXCEPT ![s] = "none"]
              /\ row' = [session |-> s, connected |-> TRUE, snapshot |-> NoTable]
              /\ Open(c, NewTable(s))
        BY <1>2, <2>2 DEF InsertRow
      <3>2. NewTable(s) \in Table
        BY NewTables
      <3>3. row' \in Row /\ row'.snapshot = NoTable
        BY <3>1 DEF Row
      <3>4. result' \in [Session -> Outcomes]
        BY <1>0, <3>1 DEF Outcomes
      <3> QED
        BY <2>0, <3>1, <3>2, <3>3, <3>4, Opening
    <2> QED
      BY <2>1, <2>2
  <1>3. CASE CheckConnected(c)
    <2>0. pc[c] = "checking" /\ UNCHANGED <<row, result, records, rendered, faults, stuck>>
      BY <1>3 DEF CheckConnected
    <2>1. CASE Reject(c)
      <3>1. Goto(c, "off") /\ table' = [table EXCEPT ![c] = NoTable]
        BY <2>1 DEF Reject
      <3> QED
        BY <1>0, <2>0, <3>1, OneStep DEF Owing, Tableless, Labels
    <2>2. CASE Goto(c, "taking") /\ UNCHANGED table
      <3>1. table[c] \in Table
        BY <2>0 DEF IInv, HasTable, Tableless
      <3>2. table' = [table EXCEPT ![c] = table[c]]
        BY <1>0, <2>2
      <3> QED
        BY <1>0, <2>0, <2>2, <3>1, <3>2, OneStep DEF Owing, Tableless, Labels
    <2> QED
      BY <1>3, <2>1, <2>2 DEF CheckConnected
  <1>4. CASE TakeRow(c)
    <2>1. /\ pc[c] = "taking"
          /\ row' = IF row = NoRow THEN NoRow ELSE SetConnected(c)
          /\ Open(c, table[c])
          /\ UNCHANGED <<result, records, rendered>>
      BY <1>4 DEF TakeRow
    <2>2. table[c] \in Table
      BY <2>1 DEF IInv, HasTable, Tableless
    <2>3. /\ row' \in Row \cup {NoRow}
          /\ row'.snapshot # NoTable => row'.snapshot.session = row'.session
      <3>1. CASE row = NoRow
        BY <2>1, <3>1 DEF NoRow, NoTable
      <3>2. CASE row # NoRow
        BY <1>0, <2>1, <3>2 DEF SetConnected, Row
      <3> QED
        BY <3>1, <3>2
    <2>4. result' \in [Session -> Outcomes]
      BY <1>0, <2>1
    <2> QED
      BY <2>1, <2>2, <2>3, <2>4, Opening
  <1>5. CASE ClaimFails(c)
    <2>1. /\ pc[c] \in {"inserting", "checking", "taking"}
          /\ Goto(c, "off")
          /\ table' = [table EXCEPT ![c] = NoTable]
          /\ UNCHANGED <<row, result, records, rendered, stuck>>
      BY <1>5 DEF ClaimFails, Reject
    <2>2. faults' \in 0..MaxFaults
      BY <1>0, <1>5, FaultsCounted DEF ClaimFails
    <2> QED
      BY <1>0, <2>1, <2>2, OneStep DEF Owing, Tableless, Labels
  <1> QED
    BY <1>1, <1>2, <1>3, <1>4, <1>5 DEF Claim

\* A move keeps the table a table of its tournament, however it ends, and adds
\* to its decisions what it is to add.
LEMMA Moving ==
  ASSUME NEW c \in Conn, table \in [Conn -> Table \cup {NoTable}], table[c] \in Table,
         NEW d \in Nat, Move(c, d)
  PROVE  \E t \in Table : /\ table' = [table EXCEPT ![c] = t]
                          /\ t.session = table[c].session
                          /\ t.moves >= table[c].moves
                          /\ t.decisions = table[c].decisions + d
  <1>1. PICK over \in Results \cup {"none"} :
          table' = [table EXCEPT ![c] = [session   |-> @.session,
                                         moves     |-> @.moves + 1,
                                         decisions |-> @.decisions + d,
                                         result    |-> over]]
    BY DEF Move
  <1> DEFINE t == [session |-> table[c].session, moves |-> table[c].moves + 1,
                   decisions |-> table[c].decisions + d, result |-> over]
  <1>2. table' = [table EXCEPT ![c] = t]
    BY <1>1
  <1>3. t \in Table
    BY BoundsAssumption DEF Move, Table
  <1>4. t.session = table[c].session /\ t.decisions = table[c].decisions + d
    OBVIOUS
  <1>5. t.moves >= table[c].moves
    BY BoundsAssumption DEF Table
  <1> QED
    BY <1>2, <1>3, <1>4, <1>5

\* A save leaves a row, of the session and with the flag it had.
LEMMA SavingTheTable ==
  ASSUME IInv, NEW c \in Conn, table[c] \in Table, SaveTable(c)
  PROVE  /\ row' \in Row \cup {NoRow}
         /\ row'.connected = row.connected
         /\ row'.snapshot # NoTable => row'.snapshot.session = row'.session
         /\ faults' \in 0..MaxFaults
  <1>1. faults' \in 0..MaxFaults
    BY FaultsCounted DEF IInv, TypeOK, SaveTable
  <1>2. CASE row' = SavedRow(c)
    BY <1>1, <1>2, Saving
  <1>3. CASE UNCHANGED row
    BY <1>1, <1>3 DEF IInv, TypeOK, SnapshotsStayInTheirTournament
  <1> QED
    BY <1>2, <1>3 DEF SaveTable

\* Where a connection goes on to still owes the release.
LEMMA GoingOn ==
  ASSUME NEW c \in Conn, GoOn(c)
  PROVE  \E label \in {"finalizing", "dealing", "playing"} : Goto(c, label)
  BY DEF GoOn

\* The steps of the connection that drives a table.
LEMMA DriveKeepsIInv ==
  ASSUME IInv, NEW c \in Conn, Drive(c)
  PROVE  IInv'
  <1>0. /\ row \in Row \cup {NoRow}
        /\ row.snapshot # NoTable => row.snapshot.session = row.session
        /\ result \in [Session -> Outcomes]
        /\ records \in [Session -> Nat]
        /\ rendered \in Table \cup {NoTable}
        /\ table \in [Conn -> Table \cup {NoTable}]
        /\ faults \in 0..MaxFaults
        /\ stuck \in BOOLEAN
    BY DEF IInv, TypeOK, SnapshotsStayInTheirTournament
  <1>t. pc[c] \notin Tableless => /\ table[c] \in Table
                                 /\ table[c] \in Table \cup {NoTable}
                                 /\ table = [table EXCEPT ![c] = table[c]]
    BY <1>0 DEF IInv, HasTable
  <1>1. CASE DealOnOpening(c)
    <2>1. pc[c] = "resuming" /\ UNCHANGED <<row, result, records, rendered, faults, stuck>>
      BY <1>1 DEF DealOnOpening
    <2>2. PICK label \in {"finalizing", "resuming"} : Goto(c, label)
      BY <1>1 DEF DealOnOpening
    <2>3. \E t \in Table : table' = [table EXCEPT ![c] = t]
      BY <1>0, <1>1, <1>t, <2>1, Moving DEF DealOnOpening, Tableless
    <2> QED
      BY <1>0, <2>1, <2>2, <2>3, OneStep DEF Owing, Tableless, Labels
  <1>2. CASE Show(c)
    <2>1. /\ pc[c] = "opening"
          /\ Goto(c, "resuming")
          /\ UNCHANGED <<row, result, records, table, faults, stuck>>
          /\ rendered' = table'[c]
      BY <1>2 DEF Show, Send
    <2> QED
      BY <1>0, <1>t, <2>1, OneStep DEF Owing, Tableless, Labels
  <1>3. CASE Play(c)
    <2>1. pc[c] = "playing" /\ UNCHANGED <<row, result, records, rendered, faults, stuck>>
      BY <1>3 DEF Play
    <2>2. PICK label \in {"saving", "recording"} : Goto(c, label)
      BY <1>3 DEF Play
    <2>3. \E t \in Table : table' = [table EXCEPT ![c] = t]
      BY <1>0, <1>3, <1>t, <2>1, Moving DEF Play, Tableless
    <2> QED
      BY <1>0, <2>1, <2>2, <2>3, OneStep DEF Owing, Tableless, Labels
  <1>4. CASE Record(c)
    <2>1. /\ pc[c] = "recording"
          /\ Goto(c, "saving")
          /\ UNCHANGED <<row, result, table, rendered, stuck>>
      BY <1>4 DEF Record
    <2>2. records' \in [Session -> Nat]
      BY <1>0, <1>4 DEF Record
    <2>3. faults' \in 0..MaxFaults
      BY <1>0, <1>4, FaultsCounted DEF Record
    <2> QED
      BY <1>0, <1>t, <2>1, <2>2, <2>3, OneStep DEF Owing, Tableless, Labels
  <1>5. CASE Save(c)
    <2>1. /\ pc[c] = "saving"
          /\ SaveTable(c)
          /\ UNCHANGED <<result, records, table, stuck>>
          /\ rendered' = table'[c]
      BY <1>5 DEF Save, Send
    <2>2. PICK label \in {"finalizing", "dealing", "playing"} : Goto(c, label)
      BY <1>5, GoingOn DEF Save
    <2>3. /\ row' \in Row \cup {NoRow}
          /\ row'.connected = row.connected
          /\ row'.snapshot # NoTable => row'.snapshot.session = row'.session
          /\ faults' \in 0..MaxFaults
      BY <1>t, <2>1, SavingTheTable DEF Tableless
    <2> QED
      BY <1>0, <1>t, <2>1, <2>2, <2>3, OneStep DEF Owing, Tableless, Labels
  <1>6. CASE DealNext(c)
    <2>1. /\ pc[c] = "dealing"
          /\ Goto(c, "storing")
          /\ UNCHANGED <<row, result, records, faults, stuck>>
          /\ rendered' = table'[c]
      BY <1>6 DEF DealNext, Send
    <2>2. PICK t \in Table : table' = [table EXCEPT ![c] = t]
      BY <1>0, <1>6, <1>t, <2>1, Moving DEF DealNext, Tableless
    <2>3. rendered' = t
      BY <1>0, <2>1, <2>2
    <2> QED
      BY <1>0, <2>1, <2>2, <2>3, OneStep DEF Owing, Tableless, Labels
  <1>7. CASE Store(c)
    <2>1. /\ pc[c] = "storing"
          /\ SaveTable(c)
          /\ UNCHANGED <<result, records, table, rendered, stuck>>
      BY <1>7 DEF Store
    <2>2. PICK label \in {"finalizing", "dealing", "playing"} : Goto(c, label)
      BY <1>7, GoingOn DEF Store
    <2>3. /\ row' \in Row \cup {NoRow}
          /\ row'.connected = row.connected
          /\ row'.snapshot # NoTable => row'.snapshot.session = row'.session
          /\ faults' \in 0..MaxFaults
      BY <1>t, <2>1, SavingTheTable DEF Tableless
    <2> QED
      BY <1>0, <1>t, <2>1, <2>2, <2>3, OneStep DEF Owing, Tableless, Labels
  <1>8. CASE GiveUp(c)
    <2>1. /\ pc[c] = "playing"
          /\ Goto(c, "givingup")
          /\ UNCHANGED <<row, result, records, table, rendered, faults, stuck>>
      BY <1>8 DEF GiveUp
    <2> QED
      BY <1>0, <1>t, <2>1, OneStep DEF Owing, Tableless, Labels
  <1>9. CASE Finalize(c)
    <2>1. /\ pc[c] \in {"finalizing", "givingup"}
          /\ UNCHANGED <<row, records, table, rendered, stuck>>
      BY <1>9 DEF Finalize
    <2>2. PICK label \in {"clearing", "ending"} : Goto(c, label)
      BY <1>9 DEF Finalize
    <2>3. table[c] \in Table
      BY <1>t, <2>1 DEF Tableless
    <2>4. Outcome(c) \in Outcomes
      BY <1>0, <2>3 DEF Outcome, Outcomes, Table, Results
    <2>5. result' \in [Session -> Outcomes]
      BY <1>0, <1>9, <2>4 DEF Finalize
    <2>6. faults' \in 0..MaxFaults
      BY <1>0, <1>9, FaultsCounted DEF Finalize
    <2> QED
      BY <1>0, <1>t, <2>1, <2>2, <2>5, <2>6, OneStep DEF Owing, Tableless, Labels
  <1>10. CASE CloseSession(c)
    <2>1. /\ pc[c] = "ending"
          /\ Goto(c, "clearing")
          /\ UNCHANGED <<row, records, table, rendered, stuck>>
      BY <1>10 DEF CloseSession
    <2>2. table[c] \in Table
      BY <1>t, <2>1 DEF Tableless
    <2>3. Closed(table[c].session) \in Outcomes
      BY <1>0, <2>2 DEF Closed, Outcomes, Table
    <2>4. result' \in [Session -> Outcomes]
      BY <1>0, <1>10, <2>3 DEF CloseSession
    <2>5. faults' \in 0..MaxFaults
      BY <1>0, <1>10, FaultsCounted DEF CloseSession
    <2> QED
      BY <1>0, <1>t, <2>1, <2>4, <2>5, OneStep DEF Owing, Tableless, Labels
  <1>11. CASE Clear(c)
    <2>1. /\ pc[c] = "clearing"
          /\ Goto(c, "closing")
          /\ UNCHANGED <<result, records, table, rendered>>
      BY <1>11 DEF Clear
    <2>2. faults' \in 0..MaxFaults
      BY <1>0, <1>11, FaultsCounted DEF Clear
    <2>3. CASE row' = NoRow /\ UNCHANGED stuck
      <3>1. ~row'.connected /\ row'.snapshot = NoTable /\ stuck' \in BOOLEAN
        BY <1>0, <2>3 DEF NoRow
      <3> QED
        BY <1>0, <1>t, <2>1, <2>2, <2>3, <3>1, OneStep DEF Owing, Tableless, Labels
    <2>4. CASE stuck' = TRUE /\ UNCHANGED row
      BY <1>0, <1>t, <2>1, <2>2, <2>4, OneStep DEF Owing, Tableless, Labels
    <2> QED
      BY <1>11, <2>3, <2>4 DEF Clear
  <1>12. CASE Close(c)
    <2>1. /\ pc[c] = "closing"
          /\ Goto(c, "off")
          /\ table' = [table EXCEPT ![c] = NoTable]
          /\ UNCHANGED <<row, result, records, rendered, faults, stuck>>
      BY <1>12 DEF Close, Reject
    <2> QED
      BY <1>0, <2>1, OneStep DEF Owing, Tableless, Labels
  <1>13. CASE ShowDealt(c)
    <2>1. /\ pc[c] = "resuming"
          /\ Goto(c, "starting")
          /\ UNCHANGED <<row, result, records, table, faults, stuck>>
          /\ rendered' = table'[c]
      BY <1>13 DEF ShowDealt, Send
    <2> QED
      BY <1>0, <1>t, <2>1, OneStep DEF Owing, Tableless, Labels
  <1>14. CASE Start(c)
    <2>1. /\ pc[c] = "starting"
          /\ SaveTable(c)
          /\ Goto(c, "playing")
          /\ UNCHANGED <<result, records, table, rendered, stuck>>
      BY <1>14 DEF Start
    <2>2. /\ row' \in Row \cup {NoRow}
          /\ row'.connected = row.connected
          /\ row'.snapshot # NoTable => row'.snapshot.session = row'.session
          /\ faults' \in 0..MaxFaults
      BY <1>t, <2>1, SavingTheTable DEF Tableless
    <2> QED
      BY <1>0, <1>t, <2>1, <2>2, OneStep DEF Owing, Tableless, Labels
  <1> QED
    BY <1>1, <1>2, <1>3, <1>4, <1>5, <1>6, <1>7, <1>8, <1>9, <1>10, <1>11, <1>12, <1>13, <1>14
       DEF Drive

\* The steps of a connection whose client has gone away.
LEMMA LeaveKeepsIInv ==
  ASSUME IInv, NEW c \in Conn, Leave(c)
  PROVE  IInv'
  <1>0. /\ row \in Row \cup {NoRow}
        /\ row.snapshot # NoTable => row.snapshot.session = row.session
        /\ result \in [Session -> Outcomes]
        /\ records \in [Session -> Nat]
        /\ rendered \in Table \cup {NoTable}
        /\ table \in [Conn -> Table \cup {NoTable}]
        /\ faults \in 0..MaxFaults
        /\ stuck \in BOOLEAN
    BY DEF IInv, TypeOK, SnapshotsStayInTheirTournament
  <1>t. pc[c] \notin Tableless => /\ table[c] \in Table
                                 /\ table = [table EXCEPT ![c] = table[c]]
    BY <1>0 DEF IInv, HasTable
  <1>1. CASE Disconnect(c)
    <2>1. /\ pc[c] \notin Tableless
          /\ Goto(c, "leaving")
          /\ UNCHANGED <<row, result, records, table, rendered, faults, stuck>>
      BY <1>1 DEF Disconnect, AtTheSocket, Tableless
    <2> QED
      BY <1>0, <1>t, <2>1, OneStep DEF Owing, Labels
  <1>2. CASE SaveOnLeaving(c)
    <2>1. /\ pc[c] = "leaving"
          /\ SaveTable(c)
          /\ Goto(c, "releasing")
          /\ UNCHANGED <<result, records, table, rendered, stuck>>
      BY <1>2 DEF SaveOnLeaving
    <2>2. /\ row' \in Row \cup {NoRow}
          /\ row'.connected = row.connected
          /\ row'.snapshot # NoTable => row'.snapshot.session = row'.session
          /\ faults' \in 0..MaxFaults
      BY <1>t, <2>1, SavingTheTable DEF Tableless
    <2> QED
      BY <1>0, <1>t, <2>1, <2>2, OneStep DEF Owing, Tableless, Labels
  <1>3. CASE Release(c)
    <2>1. /\ Goto(c, "off")
          /\ table' = [table EXCEPT ![c] = NoTable]
          /\ UNCHANGED <<result, records, rendered>>
      BY <1>3 DEF Release, Reject
    <2>2. faults' \in 0..MaxFaults
      BY <1>0, <1>3, FaultsCounted DEF Release
    <2>3. CASE row' = Released /\ UNCHANGED stuck
      BY <1>0, <2>1, <2>2, <2>3, Releasing, OneStep DEF Owing, Tableless, Labels
    <2>4. CASE stuck' = TRUE /\ UNCHANGED row
      BY <1>0, <2>1, <2>2, <2>4, OneStep DEF Owing, Tableless, Labels
    <2> QED
      BY <1>3, <2>3, <2>4 DEF Release
  <1> QED
    BY <1>1, <1>2, <1>3 DEF Leave

\* A restart closes every connection and clears the flag.
LEMMA RestartKeepsIInv ==
  ASSUME IInv, Restart
  PROVE  IInv'
  <1>1. /\ pc' = [c \in Conn |-> "off"]
        /\ table' = [c \in Conn |-> NoTable]
        /\ row' = Released
        /\ stuck' = FALSE
        /\ UNCHANGED <<result, records, rendered, faults>>
    BY DEF Restart
  <1>2. TypeOK'
    BY <1>1, Releasing DEF IInv, TypeOK, Labels
  <1>3. HasTable' /\ FlagIsOwed' /\ SnapshotsStayInTheirTournament'
    BY <1>1, Releasing DEF HasTable, FlagIsOwed, SnapshotsStayInTheirTournament, Tableless
  <1> QED
    BY <1>2, <1>3 DEF IInv

\* Every step keeps the invariant.
LEMMA NextKeepsIInv == IInv /\ [Next]_vars => IInv'
  <1> SUFFICES ASSUME IInv, [Next]_vars
               PROVE  IInv'
    OBVIOUS
  <1>1. CASE UNCHANGED vars
    BY <1>1 DEF vars, IInv, TypeOK, HasTable, FlagIsOwed, SnapshotsStayInTheirTournament
  <1>2. CASE Next
    BY <1>2, ClaimKeepsIInv, DriveKeepsIInv, LeaveKeepsIInv, RestartKeepsIInv DEF Next
  <1> QED
    BY <1>1, <1>2

\* The invariant holds in every reachable state, for any set of connections.
THEOREM LiveInvariance == Spec => []IInv
  <1>1. Init => IInv
    BY InitIInv
  <1>2. IInv /\ [Next]_vars => IInv'
    BY NextKeepsIInv
  <1> QED
    BY <1>1, <1>2, PTL DEF Spec

\* Type correctness: a connection only ever works on a table of its tournament.
THEOREM LiveTypeCorrect == Spec => []TypeOK
  <1>1. IInv => TypeOK
    BY DEF IInv
  <1> QED
    BY <1>1, LiveInvariance, PTL

\* Nobody is locked out: when no connection is open, the row can be claimed.
THEOREM TablesAreReleased == Spec => []NoTableIsLocked
  <1>1. IInv => NoTableIsLocked
    BY DEF IInv, FlagIsOwed, NoTableIsLocked, Owing
  <1> QED
    BY <1>1, LiveInvariance, PTL

\* However claims, saves and clears interleave, the row never carries the
\* snapshot of another tournament.
THEOREM SnapshotsStay == Spec => []SnapshotsStayInTheirTournament
  <1>1. IInv => SnapshotsStayInTheirTournament
    BY DEF IInv
  <1> QED
    BY <1>1, LiveInvariance, PTL

(***************************************************************************)
(* The decisions of a tournament are stored before the table they are on   *)
(* is saved.  The strengthening is that no connection has a table ahead of *)
(* the records either, but for the decision it is about to store.          *)
(***************************************************************************)
Due(label) == IF label = "recording" THEN 1 ELSE 0

TablesAreRecorded ==
  \A c \in Conn :
    pc[c] \notin Tableless =>
      table[c].decisions <= records[table[c].session] + faults + Due(pc[c])

RecordInv == TablesAreRecorded /\ DecisionsAreRecorded

\* Records and failures are only ever added to.
Growing == faults' >= faults /\ \A s \in Session : records'[s] >= records[s]

\* No step takes a record or a failure back.
LEMMA RecordsGrow ==
  ASSUME IInv, Next
  PROVE  Growing
  <1>0. /\ faults \in 0..MaxFaults
        /\ records \in [Session -> Nat]
    BY DEF IInv, TypeOK
  <1>1. faults' >= faults
    <2>1. Works \/ Fails \/ UNCHANGED faults
      BY DEF Next, Restart, Claim, Drive, Leave, ReadRow, InsertRow, Open, CheckConnected,
         TakeRow, ClaimFails, DealOnOpening, Show, ShowDealt, Start, Play, Record, Save, SaveTable, DealNext,
         Store, GiveUp, Finalize, CloseSession, Clear, Close, Disconnect, SaveOnLeaving, Release
    <2> QED
      BY <1>0, <2>1, FaultsCounted
  <1>2. ASSUME NEW s \in Session
        PROVE  records'[s] >= records[s]
    <2>1. CASE UNCHANGED records
      BY <1>0, <2>1
    <2>2. CASE \E c \in Conn : records' = [records EXCEPT ![table[c].session] = @ + 1]
      BY <1>0, <2>2
    <2>3. \/ UNCHANGED records
          \/ \E c \in Conn : records' = [records EXCEPT ![table[c].session] = @ + 1]
      BY DEF Next, Restart, Claim, Drive, Leave, ReadRow, InsertRow, CheckConnected,
         TakeRow, ClaimFails, DealOnOpening, Show, ShowDealt, Start, Play, Record, Save, DealNext,
         Store, GiveUp, Finalize, CloseSession, Clear, Close, Disconnect, SaveOnLeaving, Release
    <2> QED
      BY <2>1, <2>2, <2>3
  <1> QED
    BY <1>1, <1>2 DEF Growing

\* A row that keeps its session and snapshot is still recorded.
LEMMA RowKept ==
  ASSUME IInv, IInv', RecordInv, Growing,
         row' # NoRow => /\ row # NoRow
                         /\ row'.session = row.session
                         /\ row'.snapshot = row.snapshot
  PROVE  DecisionsAreRecorded'
  <1> SUFFICES ASSUME row' # NoRow
               PROVE  row'.snapshot.decisions <= records'[row'.session] + faults'
    BY DEF DecisionsAreRecorded
  <1>1. row \in Row
    BY DEF IInv, TypeOK
  <1>2. row.session \in Session /\ row.snapshot.decisions \in Nat
    BY <1>1, RowIsThere DEF Table, NoTable
  <1>3. row.snapshot.decisions <= records[row.session] + faults
    BY <1>1, RowIsThere DEF RecordInv, DecisionsAreRecorded
  <1>4. /\ records[row.session] \in Nat /\ records'[row.session] \in Nat
        /\ faults \in Nat /\ faults' \in Nat
    BY <1>2 DEF IInv, TypeOK
  <1>5. faults' >= faults /\ records'[row.session] >= records[row.session]
    BY <1>2 DEF Growing
  <1> QED
    BY <1>1, <1>2, <1>3, <1>4, <1>5

\* A save puts a table into the row that has its decisions stored.
LEMMA RowSaved ==
  ASSUME IInv, IInv', RecordInv, Growing, UNCHANGED records,
         NEW c \in Conn, pc[c] \notin Tableless, pc[c] # "recording", SaveTable(c)
  PROVE  DecisionsAreRecorded'
  <1>1. CASE row' = row \/ row' = NoRow
    BY <1>1, RowKept
  <1>2. CASE row' # row /\ row' # NoRow
    <2>1. /\ row' = [row EXCEPT !.snapshot = table[c]]
          /\ row \in Row
          /\ row.session = table[c].session
      BY <1>2 DEF SaveTable, SavedRow, IInv, TypeOK
    <2>2. row'.snapshot = table[c] /\ row'.session = table[c].session
      BY <2>1 DEF Row
    <2>3. table[c] \in Table
      BY DEF IInv, HasTable
    <2>4. table[c].decisions <= records[table[c].session] + faults
      <3>1. table[c].decisions <= records[table[c].session] + faults + 0
        BY DEF RecordInv, TablesAreRecorded, Due
      <3>2. faults \in Nat /\ records[table[c].session] \in Nat
        BY <2>3 DEF IInv, TypeOK, Table
      <3> QED
        BY <3>1, <3>2
    <2>5. /\ faults \in Nat /\ faults' \in Nat /\ faults' >= faults
          /\ records[table[c].session] \in Nat /\ table[c].decisions \in Nat
      BY <2>3 DEF IInv, TypeOK, Table, Growing
    <2> QED
      BY <2>2, <2>4, <2>5 DEF DecisionsAreRecorded
  <1> QED
    BY <1>1, <1>2

\* A step of one connection keeps the tables recorded if it leaves its own so.
LEMMA OneRecorded ==
  ASSUME IInv, IInv', RecordInv, Growing, DecisionsAreRecorded',
         NEW c \in Conn, NEW label, Goto(c, label),
         NEW t, table' = [table EXCEPT ![c] = t],
         label \notin Tableless =>
           t.decisions <= records'[t.session] + faults' + Due(label)
  PROVE  RecordInv'
  <1> SUFFICES ASSUME NEW d \in Conn, pc'[d] \notin Tableless
               PROVE  table'[d].decisions
                        <= records'[table'[d].session] + faults' + Due(pc'[d])
    BY DEF RecordInv, TablesAreRecorded
  <1>0. pc' = [pc EXCEPT ![c] = label] /\ DOMAIN pc = Conn /\ DOMAIN table = Conn
    BY DEF Goto, IInv, TypeOK
  <1>1. CASE d = c
    BY <1>0, <1>1
  <1>2. CASE d # c
    <2>1. pc'[d] = pc[d] /\ table'[d] = table[d]
      BY <1>0, <1>2
    <2>2. table[d] \in Table
      BY <2>1 DEF IInv, HasTable
    <2>3. table[d].decisions <= records[table[d].session] + faults + Due(pc[d])
      BY <2>1 DEF RecordInv, TablesAreRecorded
    <2>4. /\ records[table[d].session] \in Nat /\ records'[table[d].session] \in Nat
          /\ faults \in Nat /\ faults' \in Nat /\ table[d].decisions \in Nat
          /\ Due(pc[d]) \in Nat
      BY <2>2 DEF IInv, TypeOK, Table, Due
    <2>5. faults' >= faults /\ records'[table[d].session] >= records[table[d].session]
      BY <2>2 DEF Growing, Table
    <2> QED
      BY <2>1, <2>3, <2>4, <2>5
  <1> QED
    BY <1>1, <1>2

\* A connection that keeps its table keeps it recorded, unless it has skipped
\* the record that was due.
LEMMA TableKept ==
  ASSUME IInv, IInv', RecordInv, Growing,
         NEW c \in Conn, pc[c] \notin Tableless, pc[c] # "recording", NEW label
  PROVE  /\ table[c].decisions <= records'[table[c].session] + faults' + Due(label)
         /\ table = [table EXCEPT ![c] = table[c]]
  <1>1. table[c] \in Table /\ table \in [Conn -> Table \cup {NoTable}]
    BY DEF IInv, TypeOK, HasTable
  <1>2. table[c].decisions <= records[table[c].session] + faults + 0
    BY DEF RecordInv, TablesAreRecorded, Due
  <1>3. /\ records[table[c].session] \in Nat /\ records'[table[c].session] \in Nat
        /\ faults \in Nat /\ faults' \in Nat /\ table[c].decisions \in Nat
        /\ Due(label) \in Nat
    BY <1>1 DEF IInv, TypeOK, Table, Due
  <1>4. faults' >= faults /\ records'[table[c].session] >= records[table[c].session]
    BY <1>1 DEF Growing, Table
  <1> QED
    BY <1>1, <1>2, <1>3, <1>4

\* The steps of a claim: the table that is read has its decisions stored.
LEMMA ClaimKeepsRecords ==
  ASSUME IInv, IInv', RecordInv, Growing, NEW c \in Conn, Claim(c)
  PROVE  RecordInv'
  <1>0. /\ row \in Row \cup {NoRow}
        /\ table \in [Conn -> Table \cup {NoTable}]
        /\ records' \in [Session -> Nat]
        /\ faults' \in Nat
    BY DEF IInv, TypeOK
  <1>1. CASE ReadRow(c)
    <2>0. DecisionsAreRecorded' /\ pc[c] = "off" /\ UNCHANGED <<row, records, faults>>
      BY <1>1, RowKept DEF ReadRow
    <2>1. CASE row = NoRow
      <3>1. Goto(c, "inserting") /\ table' = [table EXCEPT ![c] = table[c]]
        BY <1>0, <1>1, <2>1 DEF ReadRow
      <3> QED
        BY <2>0, <3>1, OneRecorded DEF Tableless
    <2>2. CASE row # NoRow
      <3> DEFINE t == IF row.snapshot = NoTable THEN NewTable(row.session) ELSE row.snapshot
      <3>1. Goto(c, "checking") /\ table' = [table EXCEPT ![c] = t]
        BY <1>1, <2>2 DEF ReadRow
      <3>2. row \in Row /\ row.session \in Session /\ row.snapshot \in Table \cup {NoTable}
        BY <1>0, <2>2, RowIsThere
      <3>3. t.decisions <= records'[t.session] + faults' + Due("checking")
        <4>1. CASE row.snapshot = NoTable
          <5>1. t.decisions = 0 /\ t.session = row.session
            BY <4>1 DEF NewTable
          <5>2. records'[t.session] \in Nat
            BY <1>0, <3>2, <5>1
          <5> HIDE DEF t
          <5> QED
            BY <1>0, <5>1, <5>2 DEF Due
        <4>2. CASE row.snapshot # NoTable
          <5>1. t = row.snapshot /\ t.session = row.session /\ t \in Table
            BY <3>2, <4>2 DEF IInv, SnapshotsStayInTheirTournament
          <5>2. t.decisions <= records'[row.session] + faults'
            BY <2>0, <2>2, <5>1 DEF DecisionsAreRecorded
          <5>3. records'[row.session] \in Nat /\ t.decisions \in Nat
            BY <1>0, <3>2, <5>1 DEF Table
          <5> HIDE DEF t
          <5> QED
            BY <1>0, <5>1, <5>2, <5>3 DEF Due
        <4> QED
          BY <4>1, <4>2
      <3> HIDE DEF t
      <3> QED
        BY <2>0, <3>1, <3>3, OneRecorded
    <2> QED
      BY <2>1, <2>2
  <1>2. CASE InsertRow(c)
    <2>1. CASE row # NoRow
      <3>1. /\ Goto(c, "off")
            /\ table' = [table EXCEPT ![c] = table[c]]
            /\ UNCHANGED row
        BY <1>0, <1>2, <2>1 DEF InsertRow
      <3>2. DecisionsAreRecorded'
        BY <3>1, RowKept
      <3> QED
        BY <3>1, <3>2, OneRecorded DEF Tableless
    <2>2. CASE row = NoRow
      <3>1. PICK s \in Session :
              /\ row' = [session |-> s, connected |-> TRUE, snapshot |-> NoTable]
              /\ Open(c, NewTable(s))
        BY <1>2, <2>2 DEF InsertRow
      <3>2. records'[s] \in Nat
        BY <1>0
      <3>3. DecisionsAreRecorded'
        BY <1>0, <3>1, <3>2 DEF DecisionsAreRecorded, NoTable
      <3>4. NewTable(s).decisions = 0 /\ NewTable(s).session = s
        BY DEF NewTable
      <3>5. CASE Goto(c, "opening") /\ table' = [table EXCEPT ![c] = NewTable(s)]
        <4>1. NewTable(s).decisions <= records'[NewTable(s).session] + faults' + Due("opening")
          BY <1>0, <3>2, <3>4 DEF Due
        <4> QED
          BY <3>3, <3>5, <4>1, OneRecorded
      <3>6. CASE Goto(c, "off") /\ table' = [table EXCEPT ![c] = NoTable]
        BY <3>3, <3>6, OneRecorded DEF Tableless
      <3> QED
        BY <3>1, <3>5, <3>6 DEF Open, Reject
    <2> QED
      BY <2>1, <2>2
  <1>3. CASE CheckConnected(c)
    <2>1. DecisionsAreRecorded'
      BY <1>3, RowKept DEF CheckConnected
    <2>2. CASE Goto(c, "off") /\ table' = [table EXCEPT ![c] = NoTable]
      BY <2>1, <2>2, OneRecorded DEF Tableless
    <2>3. CASE Goto(c, "taking") /\ UNCHANGED table
      <3>1. pc[c] \notin Tableless /\ pc[c] # "recording"
        BY <1>3 DEF CheckConnected, Tableless
      <3>2. /\ table[c].decisions <= records'[table[c].session] + faults' + Due("taking")
            /\ table = [table EXCEPT ![c] = table[c]]
        BY <3>1, TableKept
      <3>3. table' = [table EXCEPT ![c] = table[c]]
        BY <2>3, <3>2
      <3> QED
        BY <2>1, <2>3, <3>2, <3>3, OneRecorded
    <2> QED
      BY <1>3, <2>2, <2>3 DEF CheckConnected, Reject
  <1>4. CASE TakeRow(c)
    <2>1. DecisionsAreRecorded'
      <3>1. CASE row = NoRow
        BY <1>4, <3>1, RowKept DEF TakeRow
      <3>2. CASE row # NoRow
        BY <1>0, <1>4, <3>2, RowKept DEF TakeRow, SetConnected, Row
      <3> QED
        BY <3>1, <3>2
    <2>2. pc[c] \notin Tableless /\ pc[c] # "recording"
      BY <1>4 DEF TakeRow, Tableless
    <2>3. CASE Goto(c, "opening") /\ table' = [table EXCEPT ![c] = table[c]]
      BY <2>1, <2>2, <2>3, TableKept, OneRecorded
    <2>4. CASE Goto(c, "off") /\ table' = [table EXCEPT ![c] = NoTable]
      BY <2>1, <2>4, OneRecorded DEF Tableless
    <2> QED
      BY <1>4, <2>3, <2>4 DEF TakeRow, Open, Reject
  <1>5. CASE ClaimFails(c)
    <2>1. DecisionsAreRecorded'
      BY <1>5, RowKept DEF ClaimFails
    <2> QED
      BY <1>5, <2>1, OneRecorded DEF ClaimFails, Reject, Tableless
  <1> QED
    BY <1>1, <1>2, <1>3, <1>4, <1>5 DEF Claim

\* A move adds to the table what the connection goes on to store.
LEMMA MoveKeepsRecords ==
  ASSUME IInv, IInv', RecordInv, Growing, NEW c \in Conn,
         pc[c] \notin Tableless, pc[c] # "recording", UNCHANGED row,
         NEW label, NEW d \in Nat, Move(c, d), Goto(c, label), d = Due(label)
  PROVE  RecordInv'
  <1>1. table \in [Conn -> Table \cup {NoTable}] /\ table[c] \in Table
    BY DEF IInv, TypeOK, HasTable
  <1>2. PICK t \in Table : /\ table' = [table EXCEPT ![c] = t]
                           /\ t.session = table[c].session
                           /\ t.decisions = table[c].decisions + d
    BY <1>1, Moving
  <1>3. table[c].decisions <= records'[table[c].session] + faults' + Due("off")
    BY TableKept
  <1>4. /\ records'[table[c].session] \in Nat /\ faults' \in Nat
        /\ table[c].decisions \in Nat
    BY <1>1 DEF IInv, TypeOK, Table
  <1>5. t.decisions <= records'[t.session] + faults' + Due(label)
    BY <1>2, <1>3, <1>4 DEF Due
  <1>6. DecisionsAreRecorded'
    BY RowKept
  <1> QED
    BY <1>2, <1>5, <1>6, OneRecorded

\* A connection that keeps its table and goes on keeps the records.
LEMMA StayKeepsRecords ==
  ASSUME IInv, IInv', RecordInv, Growing, DecisionsAreRecorded',
         NEW c \in Conn, pc[c] \notin Tableless, pc[c] # "recording",
         NEW label, Goto(c, label), UNCHANGED table
  PROVE  RecordInv'
  <1>1. /\ table[c].decisions <= records'[table[c].session] + faults' + Due(label)
        /\ table' = [table EXCEPT ![c] = table[c]]
    BY TableKept
  <1> QED
    BY <1>1, OneRecorded

\* The steps of the connection that drives a table.
LEMMA DriveKeepsRecords ==
  ASSUME IInv, IInv', RecordInv, Growing, NEW c \in Conn, Drive(c)
  PROVE  RecordInv'
  <1>1. CASE DealOnOpening(c)
    <2>1. pc[c] \notin Tableless /\ pc[c] # "recording" /\ UNCHANGED row
      BY <1>1 DEF DealOnOpening, Tableless
    <2>2. PICK label \in {"finalizing", "resuming"} : Goto(c, label)
      BY <1>1 DEF DealOnOpening
    <2>3. CASE UNCHANGED table
      BY <2>1, <2>2, <2>3, RowKept, StayKeepsRecords
    <2>4. CASE Move(c, 0)
      BY <2>1, <2>2, <2>4, MoveKeepsRecords DEF Due
    <2> QED
      BY <1>1, <2>3, <2>4 DEF DealOnOpening
  <1>2. CASE Show(c)
    BY <1>2, RowKept, StayKeepsRecords DEF Show, Tableless
  <1>3. CASE Play(c)
    <2>1. pc[c] \notin Tableless /\ pc[c] # "recording" /\ UNCHANGED row
      BY <1>3 DEF Play, Tableless
    <2>2. CASE Move(c, 0) /\ Goto(c, "saving")
      BY <2>1, <2>2, MoveKeepsRecords DEF Due
    <2>3. CASE Move(c, 1) /\ Goto(c, "recording")
      BY <2>1, <2>3, MoveKeepsRecords DEF Due
    <2> QED
      BY <1>3, <2>2, <2>3 DEF Play
  <1>4. CASE Record(c)
    <2>0. /\ pc[c] = "recording" /\ Goto(c, "saving")
          /\ UNCHANGED <<row, table>>
      BY <1>4 DEF Record
    <2>1. /\ table[c] \in Table /\ table \in [Conn -> Table \cup {NoTable}]
          /\ records \in [Session -> Nat] /\ faults \in Nat
      BY <2>0 DEF IInv, TypeOK, HasTable, Tableless
    <2>2. table[c].decisions <= records[table[c].session] + faults + 1
      BY <2>0 DEF RecordInv, TablesAreRecorded, Due, Tableless
    <2>3. table[c].session \in Session /\ table[c].decisions \in Nat
      BY <2>1 DEF Table
    <2>4. table[c].decisions <= records'[table[c].session] + faults' + Due("saving")
      <3>1. CASE Works /\ records' = [records EXCEPT ![table[c].session] = @ + 1]
        BY <2>1, <2>2, <2>3, <3>1 DEF Works, Due
      <3>2. CASE Fails /\ UNCHANGED records
        BY <2>1, <2>2, <2>3, <3>2 DEF Fails, Due
      <3> QED
        BY <1>4, <3>1, <3>2 DEF Record
    <2>5. table' = [table EXCEPT ![c] = table[c]]
      BY <2>0, <2>1
    <2> QED
      BY <2>0, <2>4, <2>5, RowKept, OneRecorded
  <1>5. CASE Save(c)
    <2>1. /\ pc[c] \notin Tableless /\ pc[c] # "recording"
          /\ SaveTable(c) /\ UNCHANGED <<records, table>>
      BY <1>5 DEF Save, Tableless
    <2> QED
      BY <1>5, <2>1, GoingOn, RowSaved, StayKeepsRecords DEF Save
  <1>6. CASE DealNext(c)
    <2>1. /\ pc[c] \notin Tableless /\ pc[c] # "recording" /\ UNCHANGED row
          /\ Move(c, 0) /\ Goto(c, "storing")
      BY <1>6 DEF DealNext, Tableless
    <2> QED
      BY <2>1, MoveKeepsRecords DEF Due
  <1>7. CASE Store(c)
    <2>1. /\ pc[c] \notin Tableless /\ pc[c] # "recording"
          /\ SaveTable(c) /\ UNCHANGED <<records, table>>
      BY <1>7 DEF Store, Tableless
    <2> QED
      BY <1>7, <2>1, GoingOn, RowSaved, StayKeepsRecords DEF Store
  <1>8. CASE GiveUp(c)
    BY <1>8, RowKept, StayKeepsRecords DEF GiveUp, Tableless
  <1>9. CASE Finalize(c)
    BY <1>9, RowKept, StayKeepsRecords DEF Finalize, Tableless
  <1>10. CASE CloseSession(c)
    BY <1>10, RowKept, StayKeepsRecords DEF CloseSession, Tableless
  <1>11. CASE Clear(c)
    BY <1>11, RowKept, StayKeepsRecords DEF Clear, Tableless
  <1>12. CASE Close(c)
    <2>1. /\ UNCHANGED row /\ Goto(c, "off")
          /\ table' = [table EXCEPT ![c] = NoTable]
      BY <1>12 DEF Close, Reject
    <2> QED
      BY <2>1, RowKept, OneRecorded DEF Tableless
  <1>13. CASE ShowDealt(c)
    BY <1>13, RowKept, StayKeepsRecords DEF ShowDealt, Tableless
  <1>14. CASE Start(c)
    <2>1. /\ pc[c] \notin Tableless /\ pc[c] # "recording"
          /\ SaveTable(c) /\ UNCHANGED <<records, table>>
      BY <1>14 DEF Start, Tableless
    <2> QED
      BY <1>14, <2>1, RowSaved, StayKeepsRecords DEF Start
  <1> QED
    BY <1>1, <1>2, <1>3, <1>4, <1>5, <1>6, <1>7, <1>8, <1>9, <1>10, <1>11, <1>12, <1>13, <1>14
       DEF Drive

\* The steps of a connection whose client has gone away: it never leaves while
\* a record is due.
LEMMA LeaveKeepsRecords ==
  ASSUME IInv, IInv', RecordInv, Growing, NEW c \in Conn, Leave(c)
  PROVE  RecordInv'
  <1>1. CASE Disconnect(c)
    <2>1. /\ pc[c] \notin Tableless /\ pc[c] # "recording"
          /\ Goto(c, "leaving") /\ UNCHANGED <<row, table>>
      BY <1>1 DEF Disconnect, AtTheSocket, Tableless
    <2> QED
      BY <2>1, RowKept, StayKeepsRecords
  <1>2. CASE SaveOnLeaving(c)
    <2>1. /\ pc[c] \notin Tableless /\ pc[c] # "recording"
          /\ SaveTable(c) /\ Goto(c, "releasing") /\ UNCHANGED <<records, table>>
      BY <1>2 DEF SaveOnLeaving, Tableless
    <2> QED
      BY <2>1, RowSaved, StayKeepsRecords
  <1>3. CASE Release(c)
    <2>1. Goto(c, "off") /\ table' = [table EXCEPT ![c] = NoTable]
      BY <1>3 DEF Release, Reject
    <2>2. DecisionsAreRecorded'
      <3>1. CASE row' = row
        BY <3>1, RowKept
      <3>2. CASE row' = Released /\ row # NoRow
        BY <3>2, RowKept DEF Released, IInv, TypeOK, Row
      <3> QED
        BY <1>3, <3>1, <3>2 DEF Release, Released
    <2> QED
      BY <2>1, <2>2, OneRecorded DEF Tableless
  <1> QED
    BY <1>1, <1>2, <1>3 DEF Leave

\* Whenever the process dies, the saved table is recorded.
LEMMA RestartKeepsRecords ==
  ASSUME IInv, IInv', RecordInv, Growing, Restart
  PROVE  RecordInv'
  <1>1. DecisionsAreRecorded'
    <2>1. CASE row = NoRow
      BY <2>1, RowKept DEF Restart, Released
    <2>2. CASE row # NoRow
      BY <2>2, RowKept DEF Restart, Released, IInv, TypeOK, Row
    <2> QED
      BY <2>1, <2>2
  <1>2. TablesAreRecorded'
    BY DEF Restart, TablesAreRecorded, Tableless
  <1> QED
    BY <1>1, <1>2 DEF RecordInv

\* The saved table is never ahead of the records, for any number of connections
\* and failures.
THEOREM DecisionsStayRecorded == Spec => []DecisionsAreRecorded
  <1>1. Init => RecordInv
    BY DEF Init, RecordInv, TablesAreRecorded, DecisionsAreRecorded, Tableless
  <1>2. IInv /\ IInv' /\ RecordInv /\ [Next]_vars => RecordInv'
    <2> SUFFICES ASSUME IInv, IInv', RecordInv, [Next]_vars
                 PROVE  RecordInv'
      OBVIOUS
    <2>1. CASE UNCHANGED vars
      BY <2>1 DEF vars, RecordInv, TablesAreRecorded, DecisionsAreRecorded
    <2>2. CASE Next
      <3>1. Growing
        BY <2>2, RecordsGrow
      <3> QED
        BY <2>2, <3>1, ClaimKeepsRecords, DriveKeepsRecords, LeaveKeepsRecords,
           RestartKeepsRecords DEF Next
    <2> QED
      BY <2>1, <2>2
  <1>3. RecordInv => DecisionsAreRecorded
    BY DEF RecordInv
  <1> QED
    BY <1>1, <1>2, <1>3, LiveInvariance, PTL DEF Spec

\* The first outcome of a tournament is final, however often connections
\* that both claimed it, or a resume after a restart, finish it again.
THEOREM OutcomesAreFinal == Spec => OutcomeWrittenOnce
  <1> DEFINE Final == \A s \in Session : result[s] \in Results => result'[s] = result[s]
  <1>1. ASSUME IInv, [Next]_vars
        PROVE  Final
    <2> SUFFICES ASSUME NEW s \in Session, result[s] \in Results
                 PROVE  result'[s] = result[s]
      BY DEF Final
    <2>0. result \in [Session -> Outcomes]
      BY <1>1 DEF IInv, TypeOK
    <2>1. result[s] # "none" /\ result[s] # "unborn"
      BY DEF Results
    <2>2. CASE UNCHANGED result
      BY <2>2
    <2>3. CASE \E c \in Conn : InsertRow(c)
      BY <2>0, <2>1, <2>3 DEF InsertRow
    <2>4. CASE \E c \in Conn : Finalize(c)
      BY <2>0, <2>1, <2>4 DEF Finalize, Outcome
    <2>5. CASE \E c \in Conn : CloseSession(c)
      BY <2>0, <2>1, <2>5 DEF CloseSession, Closed
    <2>6. \/ UNCHANGED result
          \/ \E c \in Conn : InsertRow(c) \/ Finalize(c) \/ CloseSession(c)
      BY <1>1 DEF vars, Next, Restart, Claim, Drive, Leave, ReadRow, CheckConnected,
         TakeRow, ClaimFails, DealOnOpening, Show, ShowDealt, Start, Play, Record, Save, DealNext, Store,
         GiveUp, Clear, Close, Disconnect, SaveOnLeaving, Release
    <2> QED
      BY <2>2, <2>3, <2>4, <2>5, <2>6
  <1>2. IInv /\ [Next]_vars => [Final]_vars
    BY <1>1
  <1> QED
    BY <1>2, LiveInvariance, PTL DEF Spec, OutcomeWrittenOnce

-----------------------------------------------------------------------------
(***************************************************************************)
(* Nothing is undone, and no tournament is orphaned: MCLiveTable with its  *)
(* history.  As long as no claim was contested, one connection at most is  *)
(* past its claim, and the row is its own.  So it is enough to follow one  *)
(* table: it is ahead of the page and of the records, and the row is ahead *)
(* of both wherever the process may die without a loss.                    *)
(***************************************************************************)
\* A connection past its claim.
Active(c) == pc[c] \notin {"off", "inserting", "checking", "taking"}

HistoryTyped == company \in [Conn -> BOOLEAN] /\ contested \in BOOLEAN

\* Whatever a row, a page or a connection names has been started, and what has
\* not has no decisions.
Born ==
  /\ row # NoRow => result[row.session] # "unborn"
  /\ rendered # NoTable => result[rendered.session] # "unborn"
  /\ \A c \in Conn : pc[c] \notin Tableless => result[table[c].session] # "unborn"
  /\ \A s \in Session : result[s] = "unborn" => records[s] = 0

\* A claim without company is the only connection, and so is the one it opens.
Alone ==
  \A c, d \in Conn : c # d =>
    /\ Claiming(c) /\ ~company[c] => pc[d] = "off"
    /\ ~(Active(c) /\ Active(d))

ClaimsAreFresh ==
  \A c \in Conn :
    pc[c] \in {"checking", "taking"} /\ ~company[c] =>
      /\ row # NoRow
      /\ table[c] = IF row.snapshot = NoTable THEN NewTable(row.session) ELSE row.snapshot

OwnRow(c) == Drives(c) => row.session = table[c].session

\* Where the table of a new tournament has been shown and may not be saved yet.
Unsaved == {"resuming", "finalizing", "ending", "clearing"}

\* The row is behind the page only until the table that was shown is saved.
FramesSaved(c) ==
  "frames" \notin lost /\ row.session = rendered.session =>
    \/ row.snapshot.moves >= rendered.moves
    \/ pc[c] \in {"starting", "storing", "leaving"} /\ table[c].session = row.session
    \/ pc[c] \in Unsaved /\ row.snapshot = NoTable

\* What a connection is about to show first is what the row has, if anything.
OpenedAsSaved(c) ==
  pc[c] = "opening" /\ row.snapshot # NoTable => row.snapshot.moves >= table[c].moves

RecordsSaved(c) ==
  "records" \notin lost /\ row # NoRow =>
    \/ row.snapshot.decisions >= records[row.session]
    \/ pc[c] \in {"saving", "leaving"} /\ table[c].session = row.session

\* A table that will be saved is ahead of the page and of the records.
TableAhead(c) ==
  Holds(c) /\ table[c].session = row.session =>
    /\ "frames" \notin lost /\ row.session = rendered.session =>
         table[c].moves >= rendered.moves
    /\ "records" \notin lost =>
         table[c].decisions >= records[row.session] + Due(pc[c])

ClearedIsOver(c) ==
  "outcome" \notin lost /\ pc[c] = "clearing" => result[table[c].session] # "none"

OpenIsResumable ==
  "outcome" \notin lost => \A s \in Session : result[s] = "none" => row.session = s

\* What the only connection past its claim owes, or, when there is none, any.
Keeps(c) ==
  /\ OwnRow(c) /\ OpenedAsSaved(c) /\ FramesSaved(c) /\ RecordsSaved(c)
  /\ TableAhead(c) /\ ClearedIsOver(c) /\ OpenIsResumable

Kept ==
  /\ Alone
  /\ ClaimsAreFresh
  /\ \A c \in Conn : (\A d \in Conn \ {c} : ~Active(d)) => Keeps(c)

\* With no connections there is nothing.
Unused == row = NoRow /\ rendered = NoTable /\ \A s \in Session : result[s] = "unborn"

MCInv == HistoryTyped /\ Born /\ (Conn = {} => Unused) /\ (~contested => Kept)

\* The numbers a table holds.
LEMMA TableFields ==
  ASSUME NEW t \in Table \cup {NoTable}
  PROVE  t.moves \in Nat /\ t.decisions \in Nat /\ t.session \in Nat
  BY BoundsAssumption DEF Table, NoTable, Session

\* The numbers a row holds.
LEMMA RowFields ==
  ASSUME NEW r \in Row \cup {NoRow}
  PROVE  /\ r.session \in Nat /\ r.snapshot \in Table \cup {NoTable}
         /\ r # NoRow <=> r.session \in Session
  BY BoundsAssumption DEF Row, NoRow, Session, NoTable

\* What is lost stays lost, and nothing is lost again once claims were contested.
LEMMA LossesStay ==
  ASSUME MCNext, ~contested'
  PROVE  ~contested /\ lost' = lost \cup Lost
  BY DEF MCNext

\* A connection that goes off at one of these labels loses what it showed.
LEMMA OneOff ==
  ASSUME IInv, MCNext, ~contested', NEW c \in Conn, pc'[c] = "off"
  PROVE  /\ pc[c] \in {"starting", "storing", "leaving"} => "frames" \in lost'
         /\ pc[c] \in Unsaved /\ row.snapshot = NoTable => "frames" \in lost'
         /\ pc[c] \in {"saving", "leaving"} => "records" \in lost'
  BY LossesStay DEF Lost, NeverSaved, Unsaved, Dies

\* A statement of a connection that fails costs what it was to store.
LEMMA OneFailed ==
  ASSUME IInv, MCNext, ~contested', Fails, NEW c \in Conn, NEW label, Goto(c, label),
         pc[c] # label
  PROVE  /\ pc[c] \in {"starting", "saving", "storing", "leaving"} => "frames" \in lost'
         /\ pc[c] = "clearing" /\ row.snapshot = NoTable => "frames" \in lost'
         /\ pc[c] \in {"saving", "leaving"} => "records" \in lost'
         /\ pc[c] \in {"givingup", "ending"} => "outcome" \in lost'
  <1>1. faults' # faults
    BY DEF Fails, IInv, TypeOK
  <1>2. pc'[c] # pc[c]
    BY DEF Goto, IInv, TypeOK
  <1> QED
    BY <1>1, <1>2, LossesStay DEF Lost, NeverSaved, Failed

(***************************************************************************)
(* The claims.                                                             *)
(***************************************************************************)
\* Every claim that goes on while another connection is there has company.
LEMMA ClaimsStayFresh ==
  ASSUME IInv, MCNext, ~contested', NEW c \in Conn, NEW label, Goto(c, label),
         pc[c] # "off" \/ label # "off",
         label \in {"checking", "taking"} /\ ~company'[c] =>
           /\ row' # NoRow
           /\ table'[c] = IF row'.snapshot = NoTable THEN NewTable(row'.session)
                          ELSE row'.snapshot
  PROVE  ClaimsAreFresh'
  <1> SUFFICES ASSUME NEW d \in Conn, pc'[d] \in {"checking", "taking"}, ~company'[d]
               PROVE  /\ row' # NoRow
                      /\ table'[d] = IF row'.snapshot = NoTable THEN NewTable(row'.session)
                                     ELSE row'.snapshot
    BY DEF ClaimsAreFresh
  <1>0. pc'[c] = label
    BY DEF Goto, IInv, TypeOK
  <1>1. CASE d = c
    BY <1>0, <1>1
  <1>2. CASE d # c
    <2>1. Others(d) \/ Others(d)'
      BY <1>0, <1>2 DEF Others
    <2>2. Claiming(d)'
      BY DEF Claiming
    <2>3. company'[d]
      BY <2>1, <2>2 DEF MCNext
    <2> QED
      BY <2>3
  <1> QED
    BY <1>1, <1>2

\* A step of one connection keeps the open one alone, if it opens no table on
\* the quiet.
LEMMA StaysAlone ==
  ASSUME IInv, MCInv, MCNext, ~contested', NEW c \in Conn, NEW label, Goto(c, label),
         label \notin {"off", "inserting", "checking", "taking"} =>
           Active(c) \/ (Claiming(c) /\ label = "opening")
  PROVE  Alone'
  <1>0. ~contested /\ Alone
    BY LossesStay DEF MCInv, Kept
  <1>1. ASSUME NEW d \in Conn, NEW e \in Conn, d # e, Claiming(d)', ~company'[d]
        PROVE  pc'[e] = "off"
    <2>1. ~Others(d)'
      BY <1>1 DEF MCNext
    <2> QED
      BY <1>1, <2>1 DEF Others
  <1>2. ASSUME NEW d \in Conn, d # c, Active(d), label \notin {"off", "inserting", "checking", "taking"}
        PROVE  FALSE
    <2>1. ~Active(c)
      BY <1>0, <1>2 DEF Alone
    <2>2. Claiming(c) /\ label = "opening"
      BY <1>2, <2>1
    <2>3. pc[d] # "off"
      BY <1>2 DEF Active
    <2>4. company[c]
      BY <1>0, <1>2, <2>2, <2>3 DEF Alone
    <2>5. Drives(c)'
      BY <2>2 DEF Goto, Drives, IInv, TypeOK
    <2> QED
      BY <2>2, <2>4, <2>5 DEF MCNext
  <1>3. ASSUME NEW d \in Conn, NEW e \in Conn, d # e, Active(d)', Active(e)'
        PROVE  FALSE
    <2>1. \A f \in Conn : pc'[f] = IF f = c THEN label ELSE pc[f]
      BY DEF Goto, IInv, TypeOK
    <2>2. CASE d = c
      BY <1>2, <1>3, <2>1, <2>2 DEF Active
    <2>3. CASE e = c
      BY <1>2, <1>3, <2>1, <2>3 DEF Active
    <2>4. CASE d # c /\ e # c
      BY <1>0, <1>3, <2>1, <2>4 DEF Active, Alone
    <2> QED
      BY <2>2, <2>3, <2>4
  <1> QED
    BY <1>1, <1>3 DEF Alone

\* The one connection past its claim keeps what is to be kept, and so does
\* whoever is left when it goes.
LEMMA OneKeepsAll ==
  ASSUME IInv, MCInv, ~contested, NEW c \in Conn, Active(c), NEW label, Goto(c, label),
         Alone', Keeps(c)'
  PROVE  \A d \in Conn : (\A e \in Conn \ {d} : ~Active(e)') => Keeps(d)'
  <1> SUFFICES ASSUME NEW d \in Conn, \A e \in Conn \ {d} : ~Active(e)', d # c
               PROVE  Keeps(d)'
    OBVIOUS
  <1>1. ~Active(c)'
    OBVIOUS
  <1>2. pc'[d] = pc[d]
    BY DEF Goto, IInv, TypeOK
  <1>3. ~Active(d)'
    <2>1. ~Active(d)
      BY DEF MCInv, Kept, Alone
    <2> QED
      BY <1>2, <2>1 DEF Active
  <1>4. /\ ~Drives(d)' /\ ~Holds(d)' /\ pc'[d] \notin {"opening", "clearing"}
        /\ pc'[c] \notin {"starting", "storing", "leaving", "saving"} \cup Unsaved
    BY <1>1, <1>3 DEF Active, Drives, Holds, Unsaved
  <1>5. /\ FramesSaved(c)' /\ RecordsSaved(c)' /\ OpenIsResumable'
    BY DEF Keeps
  <1>6. FramesSaved(d)'
    BY <1>4, <1>5 DEF FramesSaved
  <1>7. RecordsSaved(d)'
    BY <1>4, <1>5 DEF RecordsSaved
  <1> QED
    BY <1>4, <1>5, <1>6, <1>7 DEF Keeps, OwnRow, OpenedAsSaved, TableAhead, ClearedIsOver

\* A claim that has not opened a table changes nothing that is kept.
LEMMA QuietClaim ==
  ASSUME IInv, MCInv, MCNext, ~contested', NEW c \in Conn, ~Active(c),
         NEW label, Goto(c, label), label \in {"off", "inserting", "checking", "taking"},
         NEW t, table' = [table EXCEPT ![c] = t],
         row'.session = row.session, row'.snapshot = row.snapshot,
         row' # NoRow => row # NoRow,
         UNCHANGED <<rendered, result, records>>
  PROVE  \A d \in Conn : (\A e \in Conn \ {d} : ~Active(e)') => Keeps(d)'
  <1> SUFFICES ASSUME NEW d \in Conn, \A e \in Conn \ {d} : ~Active(e)'
               PROVE  Keeps(d)'
    OBVIOUS
  <1>0. lost \subseteq lost' /\ ~contested
    BY LossesStay
  <1>1. \A e \in Conn : pc'[e] = IF e = c THEN label ELSE pc[e]
    BY DEF Goto, IInv, TypeOK
  <1>2. \A e \in Conn \ {d} : ~Active(e)
    BY <1>1 DEF Active
  <1>3. Keeps(d)
    BY <1>0, <1>2 DEF MCInv, Kept
  <1>4. CASE d = c
    <2>1. /\ ~Drives(d)' /\ ~Holds(d)' /\ pc'[d] \notin {"opening", "clearing"}
          /\ pc[d] \notin {"starting", "storing", "leaving", "saving"} \cup Unsaved
      BY <1>1, <1>4 DEF Drives, Holds, Active, Unsaved
    <2> QED
      BY <1>0, <1>3, <2>1 DEF Keeps, OwnRow, OpenedAsSaved, TableAhead, ClearedIsOver,
         FramesSaved, RecordsSaved, OpenIsResumable
  <1>5. CASE d # c
    <2>1. pc'[d] = pc[d] /\ table'[d] = table[d]
      BY <1>1, <1>5 DEF IInv, TypeOK
    <2> QED
      BY <1>0, <1>3, <2>1 DEF Keeps, OwnRow, OpenedAsSaved, TableAhead, ClearedIsOver,
         FramesSaved, RecordsSaved, OpenIsResumable, Drives, Holds
  <1> QED
    BY <1>4, <1>5

\* A table opened by a claim without company: nobody else is there.
LEMMA OpenedAlone ==
  ASSUME IInv, MCInv, MCNext, ~contested', NEW c \in Conn, Claiming(c),
         Goto(c, "opening")
  PROVE  /\ ~company[c]
         /\ \A d \in Conn \ {c} : pc[d] = "off"
         /\ Active(c)'
  <1>1. Drives(c)' /\ Active(c)'
    BY DEF Goto, Drives, Active, IInv, TypeOK
  <1>2. ~company[c]
    BY <1>1 DEF MCNext
  <1>3. Alone
    BY LossesStay DEF MCInv, Kept
  <1> QED
    BY <1>1, <1>2, <1>3 DEF Alone

\* An opened table is all that is kept.
LEMMA OpenedKeepsAll ==
  ASSUME NEW c \in Conn, Active(c)', Keeps(c)'
  PROVE  \A d \in Conn : (\A e \in Conn \ {d} : ~Active(e)') => Keeps(d)'
  <1> SUFFICES ASSUME NEW d \in Conn, \A e \in Conn \ {d} : ~Active(e)'
               PROVE  Keeps(d)'
    OBVIOUS
  <1>1. d = c
    OBVIOUS
  <1> QED
    BY <1>1

\* Reading the row of the only tournament, or finding none.
LEMMA ReadRowKeeps ==
  ASSUME IInv, MCInv, MCNext, ~contested', NEW c \in Conn, ReadRow(c)
  PROVE  Kept'
  <1>0. table \in [Conn -> Table \cup {NoTable}] /\ pc \in [Conn -> Labels]
    BY DEF IInv, TypeOK
  <1>t. PICK t :
          \E label \in {"inserting", "checking"} :
            /\ Goto(c, label)
            /\ table' = [table EXCEPT ![c] = t]
            /\ label = "checking" =>
                 /\ row # NoRow
                 /\ t = IF row.snapshot = NoTable THEN NewTable(row.session) ELSE row.snapshot
    <2>1. CASE row = NoRow
      BY <1>0, <2>1 DEF ReadRow
    <2>2. CASE row # NoRow
      BY <1>0, <2>2 DEF ReadRow
    <2> QED
      BY <2>1, <2>2
  <1>1. PICK label \in {"inserting", "checking"} :
          /\ Goto(c, label)
          /\ table' = [table EXCEPT ![c] = t]
          /\ label = "checking" =>
               /\ row # NoRow
               /\ t = IF row.snapshot = NoTable THEN NewTable(row.session) ELSE row.snapshot
    BY <1>t
  <1>2. UNCHANGED <<row, result, records, rendered>> /\ ~Active(c)
    BY DEF ReadRow, Active
  <1>3. ClaimsAreFresh'
    <2>1. table'[c] = t
      BY <1>0, <1>1
    <2> QED
      BY <1>1, <1>2, <2>1, ClaimsStayFresh
  <1>4. Alone'
    BY <1>1, StaysAlone
  <1>5. \A d \in Conn : (\A e \in Conn \ {d} : ~Active(e)') => Keeps(d)'
    BY <1>1, <1>2, QuietClaim
  <1> QED
    BY <1>3, <1>4, <1>5 DEF Kept

\* A claim that is turned away, by the row or by a failure.
LEMMA RejectedKeeps ==
  ASSUME IInv, MCInv, MCNext, ~contested', NEW c \in Conn, Claiming(c),
         Goto(c, "off"), NEW t, table' = [table EXCEPT ![c] = t],
         row'.session = row.session, row'.snapshot = row.snapshot,
         row' # NoRow => row # NoRow,
         UNCHANGED <<rendered, result, records>>
  PROVE  Kept'
  <1>1. pc[c] # "off" /\ ~Active(c)
    BY DEF Claiming, Active
  <1>2. ClaimsAreFresh'
    BY <1>1, ClaimsStayFresh
  <1>3. Alone'
    BY StaysAlone
  <1>4. \A d \in Conn : (\A e \in Conn \ {d} : ~Active(e)') => Keeps(d)'
    BY <1>1, QuietClaim
  <1> QED
    BY <1>2, <1>3, <1>4 DEF Kept

\* The row is not marked connected yet.
LEMMA CheckKeeps ==
  ASSUME IInv, MCInv, MCNext, ~contested', NEW c \in Conn, CheckConnected(c)
  PROVE  Kept'
  <1>0. /\ pc[c] = "checking" /\ Claiming(c) /\ ~Active(c)
        /\ UNCHANGED <<row, result, records, rendered>>
        /\ table \in [Conn -> Table \cup {NoTable}]
    BY DEF CheckConnected, Claiming, Active, IInv, TypeOK
  <1>1. CASE Reject(c)
    BY <1>0, <1>1, RejectedKeeps DEF Reject
  <1>2. CASE Goto(c, "taking") /\ UNCHANGED table
    <2>1. table' = [table EXCEPT ![c] = table[c]]
      BY <1>0, <1>2
    <2>2. Claiming(c)'
      BY <1>2 DEF Goto, Claiming, IInv, TypeOK
    <2>3. ~company'[c] => ~company[c]
      BY <1>0, <2>2 DEF MCNext
    <2>4. ~company'[c] =>
            /\ row' # NoRow
            /\ table'[c] = IF row'.snapshot = NoTable THEN NewTable(row'.session)
                           ELSE row'.snapshot
      BY <1>0, <1>2, <2>3, LossesStay DEF MCInv, Kept, ClaimsAreFresh
    <2>5. ClaimsAreFresh'
      BY <1>2, <2>4, ClaimsStayFresh
    <2>6. Alone'
      BY <1>2, StaysAlone
    <2>7. \A d \in Conn : (\A e \in Conn \ {d} : ~Active(e)') => Keeps(d)'
      BY <1>0, <1>2, <2>1, QuietClaim
    <2> QED
      BY <2>5, <2>6, <2>7 DEF Kept
  <1> QED
    BY <1>1, <1>2 DEF CheckConnected

\* A claim is granted, or cannot be opened.
LEMMA TakeKeeps ==
  ASSUME IInv, MCInv, MCNext, ~contested', NEW c \in Conn, TakeRow(c)
  PROVE  Kept'
  <1>0. /\ pc[c] = "taking" /\ Claiming(c) /\ ~Active(c)
        /\ UNCHANGED <<result, records, rendered>>
        /\ table \in [Conn -> Table \cup {NoTable}]
        /\ row \in Row \cup {NoRow}
    BY DEF TakeRow, Claiming, Active, IInv, TypeOK
  <1>1. /\ row'.session = row.session /\ row'.snapshot = row.snapshot
        /\ row' # NoRow => row # NoRow
    <2>1. CASE row = NoRow
      BY <2>1 DEF TakeRow
    <2>2. CASE row # NoRow
      BY <1>0, <2>2 DEF TakeRow, SetConnected, Row
    <2> QED
      BY <2>1, <2>2
  <1>2. CASE Reject(c)
    BY <1>0, <1>1, <1>2, RejectedKeeps DEF Reject
  <1>3. CASE Goto(c, "opening") /\ table' = [table EXCEPT ![c] = table[c]]
    <2>1. /\ ~company[c]
          /\ \A d \in Conn \ {c} : pc[d] = "off"
          /\ Active(c)'
      BY <1>0, <1>3, OpenedAlone
    <2>2. ~contested /\ lost \subseteq lost'
      BY LossesStay
    <2>3. Keeps(c)
      BY <2>1, <2>2 DEF MCInv, Kept, Active
    <2>4. /\ row # NoRow
          /\ table[c] = IF row.snapshot = NoTable THEN NewTable(row.session) ELSE row.snapshot
      BY <1>0, <2>1, <2>2 DEF MCInv, Kept, ClaimsAreFresh
    <2>5. /\ row.session \in Nat /\ row.snapshot.moves \in Nat /\ row.snapshot.decisions \in Nat
      BY <1>0, RowFields, TableFields
    <2>6. /\ table[c].session = row.session
          /\ table[c].moves >= row.snapshot.moves
          /\ table[c].decisions >= row.snapshot.decisions
      <3>1. CASE row.snapshot = NoTable
        BY <2>4, <3>1 DEF NewTable, NoTable
      <3>2. CASE row.snapshot # NoTable
        BY <2>4, <2>5, <3>2 DEF IInv, SnapshotsStayInTheirTournament
      <3> QED
        BY <3>1, <3>2
    <2>7. pc'[c] = "opening" /\ table'[c] = table[c]
      BY <1>0, <1>3 DEF Goto, IInv, TypeOK
    <2>8. /\ "frames" \notin lost' /\ row.session = rendered.session =>
               row.snapshot.moves >= rendered.moves
          /\ "records" \notin lost' =>
               row.snapshot.decisions >= records[row.session]
      BY <1>0, <2>2, <2>3, <2>4 DEF Keeps, FramesSaved, RecordsSaved, Unsaved
    <2>9. /\ rendered.moves \in Nat /\ table[c].moves \in Nat /\ table[c].decisions \in Nat
          /\ records[row.session] \in Nat
      BY <1>0, <2>4, RowFields, TableFields DEF IInv, TypeOK
    <2>10. TableAhead(c)'
      BY <1>0, <1>1, <2>5, <2>6, <2>7, <2>8, <2>9 DEF TableAhead, Due
    <2>o. OpenedAsSaved(c)'
      BY <1>1, <2>4, <2>5, <2>7 DEF OpenedAsSaved
    <2>11. Keeps(c)'
      BY <1>0, <1>1, <2>2, <2>3, <2>4, <2>6, <2>7, <2>8, <2>o, <2>10
      DEF Keeps, OwnRow, FramesSaved, RecordsSaved, ClearedIsOver, OpenIsResumable
    <2>12. ClaimsAreFresh' /\ Alone'
      BY <1>0, <1>3, ClaimsStayFresh, StaysAlone
    <2> QED
      BY <2>1, <2>11, <2>12, OpenedKeepsAll DEF Kept
  <1> QED
    BY <1>2, <1>3 DEF TakeRow, Open

\* A new tournament: no other is open, and nothing of it has been shown.
LEMMA InsertKeeps ==
  ASSUME IInv, MCInv, MCNext, ~contested', NEW c \in Conn, InsertRow(c)
  PROVE  Kept'
  <1>0. /\ pc[c] = "inserting" /\ Claiming(c) /\ ~Active(c)
        /\ UNCHANGED <<records, rendered>>
        /\ table \in [Conn -> Table \cup {NoTable}]
        /\ row \in Row \cup {NoRow}
        /\ result \in [Session -> Outcomes]
        /\ rendered \in Table \cup {NoTable}
        /\ records \in [Session -> Nat]
    BY DEF InsertRow, Claiming, Active, IInv, TypeOK
  <1>1. CASE row # NoRow /\ Goto(c, "off") /\ UNCHANGED <<row, result, table>>
    <2>1. table' = [table EXCEPT ![c] = table[c]]
      BY <1>0, <1>1
    <2> QED
      BY <1>0, <1>1, <2>1, RejectedKeeps
  <1>2. ASSUME row = NoRow, NEW s \in Session, result[s] = "unborn",
               result' = [result EXCEPT ![s] = "none"],
               row' = [session |-> s, connected |-> TRUE, snapshot |-> NoTable],
               Open(c, NewTable(s))
        PROVE  Kept'
    <2>1. ~contested /\ lost \subseteq lost'
      BY LossesStay
    <2>2. row'.session = s /\ row'.snapshot = NoTable /\ row' # NoRow /\ s \in Nat /\ s # 0
      BY <1>2 DEF NoRow, Session
    <2>3. rendered.session # s
      <3>1. CASE rendered = NoTable
        BY <2>2, <3>1 DEF NoTable
      <3>2. CASE rendered # NoTable
        BY <1>2, <3>2 DEF MCInv, Born
      <3> QED
        BY <3>1, <3>2
    <2>4. records[s] = 0
      BY <1>2 DEF MCInv, Born
    <2>5. ASSUME NEW d \in Conn, \A e \in Conn \ {d} : ~Active(e), Keeps(d)
          PROVE  /\ OpenIsResumable'
                 /\ FramesSaved(d)'
                 /\ RecordsSaved(d)'
      <3>1. OpenIsResumable'
        <4> SUFFICES ASSUME "outcome" \notin lost', NEW u \in Session, result'[u] = "none", u # s
                     PROVE  FALSE
          BY <2>2 DEF OpenIsResumable
        <4>1. result[u] = "none"
          BY <1>0, <1>2
        <4>2. row.session = u
          BY <2>1, <2>5, <4>1 DEF Keeps, OpenIsResumable
        <4> QED
          BY <1>2, <4>2 DEF NoRow, Session
      <3>2. FramesSaved(d)'
        BY <1>0, <2>2, <2>3 DEF FramesSaved
      <3>3. RecordsSaved(d)'
        BY <1>0, <2>2, <2>4 DEF RecordsSaved, NoTable
      <3> QED
        BY <3>1, <3>2, <3>3
    <2>6. CASE Goto(c, "opening") /\ table' = [table EXCEPT ![c] = NewTable(s)]
      <3>1. /\ \A d \in Conn \ {c} : pc[d] = "off"
            /\ Active(c)'
        BY <1>0, <2>6, OpenedAlone
      <3>2. Keeps(c) /\ \A e \in Conn \ {c} : ~Active(e)
        BY <2>1, <3>1 DEF MCInv, Kept, Active
      <3>3. OpenIsResumable' /\ FramesSaved(c)' /\ RecordsSaved(c)'
        BY <2>5, <3>2
      <3>4. pc'[c] = "opening" /\ table'[c] = NewTable(s)
        BY <1>0, <2>6 DEF Goto, IInv, TypeOK
      <3>5. TableAhead(c)'
        BY <1>0, <2>2, <2>3, <2>4, <3>4 DEF TableAhead, NewTable, Due
      <3>6. Keeps(c)'
        BY <2>2, <3>3, <3>4, <3>5 DEF Keeps, OwnRow, OpenedAsSaved, ClearedIsOver, NewTable
      <3>7. ClaimsAreFresh' /\ Alone'
        BY <1>0, <2>6, ClaimsStayFresh, StaysAlone
      <3> QED
        BY <3>1, <3>6, <3>7, OpenedKeepsAll DEF Kept
    <2>7. CASE Reject(c)
      <3>1. Goto(c, "off") /\ \A e \in Conn : pc'[e] = IF e = c THEN "off" ELSE pc[e]
        BY <2>7 DEF Reject, Goto, IInv, TypeOK
      <3>2. ASSUME NEW d \in Conn, \A e \in Conn \ {d} : ~Active(e)'
            PROVE  Keeps(d)'
        <4>1. \A e \in Conn \ {d} : ~Active(e)
          BY <1>0, <3>1, <3>2 DEF Active
        <4>2. Keeps(d)
          BY <2>1, <4>1 DEF MCInv, Kept
        <4>3. OpenIsResumable' /\ FramesSaved(d)' /\ RecordsSaved(d)'
          BY <2>5, <4>1, <4>2
        <4>4. ~Drives(d)' /\ pc'[d] # "clearing" /\ (Holds(d)' => table'[d].session # s)
          <5>1. CASE d = c
            BY <3>1, <5>1 DEF Drives, Holds
          <5>2. CASE d # c
            <6>1. pc'[d] = pc[d] /\ table'[d] = table[d]
              BY <1>0, <2>7, <3>1, <5>2 DEF Reject
            <6>2. Drives(d) => table[d] \in Table
              BY DEF IInv, HasTable, Drives, Tableless
            <6>3. ~Drives(d)
              BY <1>2, <4>2, <6>2 DEF Keeps, OwnRow, NoRow, Table, Session
            <6>4. Holds(d) => table[d].session # s
              BY <1>2 DEF MCInv, Born, Holds, Drives, Tableless
            <6> QED
              BY <6>1, <6>3, <6>4 DEF Drives, Holds
          <5> QED
            BY <5>1, <5>2
        <4>5. OwnRow(d)' /\ OpenedAsSaved(d)' /\ TableAhead(d)' /\ ClearedIsOver(d)'
          BY <2>2, <4>4 DEF OwnRow, OpenedAsSaved, TableAhead, ClearedIsOver
        <4> QED
          BY <4>3, <4>5 DEF Keeps
      <3>3. ClaimsAreFresh' /\ Alone'
        BY <1>0, <3>1, ClaimsStayFresh, StaysAlone
      <3> QED
        BY <3>2, <3>3 DEF Kept
    <2> QED
      BY <1>2, <2>6, <2>7 DEF Open
  <1> QED
    BY <1>1, <1>2 DEF InsertRow

(***************************************************************************)
(* The table that is driven.                                               *)
(***************************************************************************)
\* Before a step of the connection past its claim, it keeps what is kept.
LEMMA TheOneKeeps ==
  ASSUME MCInv, ~contested, NEW c \in Conn, Active(c)
  PROVE  Keeps(c)
  BY DEF MCInv, Kept, Alone

\* It is enough that it still does after the step.
LEMMA TheOneIsEnough ==
  ASSUME IInv, MCInv, MCNext, ~contested', NEW c \in Conn, Active(c),
         NEW label, Goto(c, label), label \notin {"inserting", "checking", "taking"},
         Keeps(c)'
  PROVE  Kept'
  <1>1. pc[c] # "off" /\ ~contested
    BY LossesStay DEF Active
  <1>2. ClaimsAreFresh'
    BY <1>1, ClaimsStayFresh
  <1>3. Alone'
    BY StaysAlone
  <1>4. \A d \in Conn : (\A e \in Conn \ {d} : ~Active(e)') => Keeps(d)'
    BY <1>1, <1>3, OneKeepsAll
  <1> QED
    BY <1>2, <1>3, <1>4 DEF Kept

\* A step that shows and saves nothing: the table only moves on, and is not let
\* go of before what it owes is saved or lost.
LEMMA Onwards ==
  ASSUME IInv, MCInv, MCNext, ~contested', NEW c \in Conn, Active(c),
         NEW label, Goto(c, label),
         label \notin {"inserting", "checking", "taking", "opening", "clearing"},
         NEW t \in Table \cup {NoTable}, table' = [table EXCEPT ![c] = t],
         label # "off" =>
           /\ t.session = table[c].session
           /\ t.moves >= table[c].moves
           /\ t.decisions >= table[c].decisions + Due(label),
         pc[c] # "recording",
         row'.session = row.session, row'.snapshot = row.snapshot,
         row' # NoRow => row # NoRow,
         UNCHANGED <<result, records, rendered>>,
         Drives(c)' => Drives(c),
         Holds(c)' => Holds(c),
         \/ pc[c] \notin {"starting", "storing", "leaving"}
         \/ label \in {"starting", "storing", "leaving"}
         \/ "frames" \in lost',
         \/ pc[c] \notin Unsaved
         \/ label \in Unsaved \cup {"starting", "storing", "leaving"}
         \/ row.snapshot = NoTable => "frames" \in lost',
         \/ pc[c] \notin {"saving", "leaving"} \/ label \in {"saving", "leaving"}
         \/ "records" \in lost'
  PROVE  Kept'
  <1>0. lost \subseteq lost' /\ ~contested
    BY LossesStay
  <1>1. Keeps(c)
    BY <1>0, TheOneKeeps
  <1>2. pc'[c] = label /\ table'[c] = t
    BY DEF Goto, IInv, TypeOK
  <1>3. /\ row \in Row \cup {NoRow} /\ row.session \in Nat
        /\ rendered.moves \in Nat
        /\ table[c].moves \in Nat /\ table[c].decisions \in Nat
        /\ t.moves \in Nat /\ t.decisions \in Nat
        /\ Due(label) \in Nat /\ Due(pc[c]) = 0
    BY TableFields, RowFields DEF IInv, TypeOK, Due
  <1>4. OwnRow(c)'
    <2>1. Drives(c)' => label # "off"
      BY <1>2 DEF Drives
    <2> QED
      BY <1>1, <1>2, <2>1 DEF Keeps, OwnRow
  <1>5. FramesSaved(c)'
    <2>1. CASE label = "off"
      BY <1>0, <1>1, <2>1 DEF Keeps, FramesSaved, Unsaved
    <2>2. CASE label # "off"
      <3>1. pc[c] \in Unsaved => row.session = table[c].session
        BY <1>1 DEF Keeps, OwnRow, Unsaved, Drives
      <3> QED
        BY <1>0, <1>1, <1>2, <2>2, <3>1 DEF Keeps, FramesSaved
    <2> QED
      BY <2>1, <2>2
  <1>6. RecordsSaved(c)'
    <2>1. CASE label = "off"
      BY <1>0, <1>1, <2>1 DEF Keeps, RecordsSaved
    <2>2. CASE label # "off"
      BY <1>0, <1>1, <1>2, <2>2 DEF Keeps, RecordsSaved
    <2> QED
      BY <2>1, <2>2
  <1>7. TableAhead(c)'
    <2> SUFFICES ASSUME Holds(c)', t.session = row.session
                 PROVE  /\ "frames" \notin lost' /\ row.session = rendered.session =>
                             t.moves >= rendered.moves
                        /\ "records" \notin lost' => t.decisions >= records[row.session] + Due(label)
      BY <1>2 DEF TableAhead
    <2>1. Holds(c) /\ label # "off"
      BY <1>2 DEF Holds, Drives
    <2>2. /\ "frames" \notin lost /\ row.session = rendered.session =>
               table[c].moves >= rendered.moves
          /\ "records" \notin lost => table[c].decisions >= records[row.session] + 0
      BY <1>1, <1>3, <2>1 DEF Keeps, TableAhead
    <2>3. row.session \in Session
      <3>1. t \in Table
        <4>1. table[c] \in Table
          BY DEF IInv, HasTable, Active, Tableless
        <4>2. t.session \in Session
          BY <2>1, <4>1 DEF Table
        <4> QED
          BY <4>2 DEF NoTable, Session
      <3> QED
        BY <3>1 DEF Table
    <2>4. records[row.session] \in Nat
      BY <2>3 DEF IInv, TypeOK
    <2> QED
      BY <1>0, <1>3, <2>1, <2>2, <2>4
  <1>8. ClearedIsOver(c)' /\ OpenIsResumable'
    BY <1>0, <1>1, <1>2 DEF Keeps, ClearedIsOver, OpenIsResumable
  <1>9. Keeps(c)'
    BY <1>2, <1>4, <1>5, <1>6, <1>7, <1>8 DEF Keeps, OpenedAsSaved
  <1> QED
    BY <1>9, TheOneIsEnough

\* A hand is shown before its save: the row may fall behind the page.
LEMMA Showing ==
  ASSUME IInv, MCInv, MCNext, ~contested', NEW c \in Conn, pc[c] \in {"resuming", "dealing"},
         NEW label \in {"starting", "storing"}, Goto(c, label),
         NEW t \in Table, table' = [table EXCEPT ![c] = t],
         t.session = table[c].session, t.decisions >= table[c].decisions,
         rendered' = t,
         UNCHANGED <<row, result, records>>
  PROVE  Kept'
  <1>0. lost \subseteq lost' /\ ~contested /\ Active(c) /\ Drives(c)
    BY LossesStay DEF Active, Drives
  <1>1. Keeps(c)
    BY <1>0, TheOneKeeps
  <1>2. pc'[c] = label /\ table'[c] = t
    BY DEF Goto, IInv, TypeOK
  <1>3. row.session = t.session
    BY <1>0, <1>1 DEF Keeps, OwnRow
  <1>4. /\ t.moves \in Nat /\ t.decisions \in Nat /\ table[c].decisions \in Nat
        /\ records[row.session] \in Nat
    BY <1>3, TableFields DEF IInv, TypeOK, Table
  <1>5. "records" \notin lost => table[c].decisions >= records[row.session]
    BY <1>0, <1>1, <1>3, <1>4 DEF Keeps, TableAhead, Holds, Due
  <1>6. TableAhead(c)'
    BY <1>0, <1>2, <1>4, <1>5 DEF TableAhead, Due
  <1>7. /\ OwnRow(c)' /\ OpenedAsSaved(c)' /\ FramesSaved(c)' /\ ClearedIsOver(c)'
        /\ OpenIsResumable'
    BY <1>0, <1>1, <1>2, <1>3
    DEF Keeps, OwnRow, OpenedAsSaved, FramesSaved, ClearedIsOver, OpenIsResumable
  <1>8. RecordsSaved(c)'
    BY <1>0, <1>1 DEF Keeps, RecordsSaved
  <1>9. Keeps(c)'
    BY <1>6, <1>7, <1>8 DEF Keeps
  <1> QED
    BY <1>0, <1>9, TheOneIsEnough

\* What a connection shows first is on the row, unless nothing of it is.
LEMMA ShowKeeps ==
  ASSUME IInv, MCInv, MCNext, ~contested', NEW c \in Conn, Show(c)
  PROVE  Kept'
  <1>0. /\ lost \subseteq lost' /\ ~contested
        /\ pc[c] = "opening" /\ Active(c) /\ Drives(c) /\ Holds(c)
    BY LossesStay DEF Show, Active, Drives, Holds
  <1>1. Keeps(c)
    BY <1>0, TheOneKeeps
  <1>2. /\ Goto(c, "resuming") /\ pc'[c] = "resuming"
        /\ rendered' = table[c]
        /\ UNCHANGED <<row, result, records, table>>
    BY DEF Show, Send, Goto, IInv, TypeOK
  <1>3. row.session = table[c].session
    BY <1>0, <1>1 DEF Keeps, OwnRow
  <1>4. table[c].moves \in Nat
    BY TableFields DEF IInv, TypeOK
  <1>5. FramesSaved(c)'
    <2>1. row.snapshot = NoTable \/ row.snapshot.moves >= table[c].moves
      BY <1>0, <1>1 DEF Keeps, OpenedAsSaved
    <2> QED
      BY <1>2, <2>1 DEF FramesSaved, Unsaved
  <1>6. "records" \notin lost' => table[c].decisions >= records[row.session] + Due("resuming")
    BY <1>0, <1>1, <1>3 DEF Keeps, TableAhead, Due
  <1>7. TableAhead(c)'
    BY <1>2, <1>4, <1>6 DEF TableAhead
  <1>8. RecordsSaved(c)'
    BY <1>0, <1>1, <1>2 DEF Keeps, RecordsSaved
  <1>9. OwnRow(c)' /\ OpenedAsSaved(c)' /\ ClearedIsOver(c)' /\ OpenIsResumable'
    BY <1>0, <1>1, <1>2, <1>3 DEF Keeps, OwnRow, OpenedAsSaved, ClearedIsOver, OpenIsResumable
  <1>10. Keeps(c)'
    BY <1>5, <1>7, <1>8, <1>9 DEF Keeps
  <1> QED
    BY <1>0, <1>2, <1>10, TheOneIsEnough

\* The row takes the table as it is, which is ahead of everything.
LEMMA SavedKeeps ==
  ASSUME IInv, MCInv, MCNext, ~contested', NEW c \in Conn,
         pc[c] \in {"starting", "saving", "storing", "leaving"},
         NEW label \in {"finalizing", "dealing", "playing", "releasing"}, Goto(c, label),
         label = "releasing" \/ pc[c] # "leaving",
         row' = SavedRow(c),
         UNCHANGED <<table, result, records>>,
         rendered' \in {rendered, table[c]}
  PROVE  Kept'
  <1>0. lost \subseteq lost' /\ ~contested /\ Active(c) /\ Holds(c)
    BY LossesStay DEF Active, Holds, Drives
  <1>1. Keeps(c)
    BY <1>0, TheOneKeeps
  <1>2. pc'[c] = label /\ Due(label) = 0 /\ Due(pc[c]) = 0
    BY DEF Goto, IInv, TypeOK, Due
  <1>3. table[c] \in Table /\ table[c].session \in Session
    BY <1>0 DEF IInv, HasTable, Active, Tableless, Table
  <1>4. /\ table[c].moves \in Nat /\ table[c].decisions \in Nat /\ rendered.moves \in Nat
        /\ records[table[c].session] \in Nat
    BY <1>3, TableFields DEF IInv, TypeOK
  <1>5. row'.session = row.session /\ (row' # NoRow => row # NoRow)
    <2>1. CASE row = NoRow
      BY <2>1 DEF SavedRow
    <2>2. CASE row # NoRow
      BY <2>2 DEF SavedRow, IInv, TypeOK, Row
    <2> QED
      BY <2>1, <2>2
  <1>6. OwnRow(c)' /\ OpenedAsSaved(c)' /\ ClearedIsOver(c)' /\ OpenIsResumable'
    <2>1. Drives(c)' => Drives(c)
      BY <1>2 DEF Drives
    <2> QED
      BY <1>0, <1>1, <1>2, <1>5, <2>1
      DEF Keeps, OwnRow, OpenedAsSaved, ClearedIsOver, OpenIsResumable
  <1>7. CASE row.session = table[c].session
    <2>1. row # NoRow
      BY <1>3, <1>7 DEF NoRow, Session
    <2>2. row'.snapshot = table[c]
      BY <1>7, <2>1 DEF SavedRow, IInv, TypeOK, Row
    <2>3. /\ "frames" \notin lost /\ row.session = rendered.session =>
               table[c].moves >= rendered.moves
          /\ "records" \notin lost => table[c].decisions >= records[row.session] + 0
      BY <1>0, <1>1, <1>2, <1>7 DEF Keeps, TableAhead
    <2>4. /\ "frames" \notin lost' /\ row.session = rendered'.session =>
               table[c].moves >= rendered'.moves
          /\ "records" \notin lost' => table[c].decisions >= records[row.session]
      BY <1>0, <1>4, <1>7, <2>3
    <2>5. FramesSaved(c)'
      BY <1>5, <2>2, <2>4 DEF FramesSaved
    <2>6. RecordsSaved(c)'
      BY <1>5, <2>2, <2>4 DEF RecordsSaved
    <2>7. TableAhead(c)'
      BY <1>2, <1>4, <1>5, <1>7, <2>4 DEF TableAhead
    <2>8. Keeps(c)'
      BY <1>6, <2>5, <2>6, <2>7 DEF Keeps
    <2> QED
      BY <1>0, <2>8, TheOneIsEnough
  <1>8. CASE row.session # table[c].session
    <2>1. row' = row
      BY <1>8 DEF SavedRow
    <2>2. ~Drives(c)
      BY <1>1, <1>8 DEF Keeps, OwnRow
    <2>3. pc[c] = "leaving" /\ label = "releasing"
      BY <2>2 DEF Drives
    <2>4. FramesSaved(c)'
      <3>1. row.session = rendered'.session => rendered' = rendered
        BY <1>8
      <3> QED
        BY <1>0, <1>1, <1>8, <2>1, <2>3, <3>1 DEF Keeps, FramesSaved, Unsaved
    <2>5. RecordsSaved(c)'
      BY <1>0, <1>1, <1>8, <2>1 DEF Keeps, RecordsSaved
    <2>6. TableAhead(c)'
      BY <1>8, <2>1 DEF TableAhead
    <2>7. Keeps(c)'
      BY <1>6, <2>4, <2>5, <2>6 DEF Keeps
    <2> QED
      BY <1>0, <2>7, TheOneIsEnough
  <1> QED
    BY <1>7, <1>8

\* A save that fails loses both what was shown and what was stored.
LEMMA UnsavedKeeps ==
  ASSUME IInv, MCInv, MCNext, ~contested', NEW c \in Conn, pc[c] = "saving",
         NEW label \in {"finalizing", "dealing", "playing"}, Goto(c, label), Fails,
         UNCHANGED <<row, table, result, records>>
  PROVE  Kept'
  <1>0. lost \subseteq lost' /\ ~contested /\ Active(c) /\ Drives(c)
    BY LossesStay DEF Active, Drives
  <1>1. Keeps(c)
    BY <1>0, TheOneKeeps
  <1>2. pc'[c] = label
    BY DEF Goto, IInv, TypeOK
  <1>3. "frames" \in lost' /\ "records" \in lost'
    BY OneFailed
  <1>4. Keeps(c)'
    BY <1>0, <1>1, <1>2, <1>3
    DEF Keeps, OwnRow, OpenedAsSaved, FramesSaved, RecordsSaved, TableAhead, ClearedIsOver,
        OpenIsResumable
  <1> QED
    BY <1>0, <1>4, TheOneIsEnough

\* The decision is stored, or its failure leaves the table ahead.
LEMMA RecordKeeps ==
  ASSUME IInv, MCInv, MCNext, ~contested', NEW c \in Conn, Record(c)
  PROVE  Kept'
  <1>0. lost \subseteq lost' /\ ~contested /\ Active(c) /\ Drives(c)
    BY LossesStay DEF Active, Drives, Record
  <1>1. Keeps(c)
    BY <1>0, TheOneKeeps
  <1>2. /\ pc[c] = "recording" /\ pc'[c] = "saving" /\ Goto(c, "saving")
        /\ UNCHANGED <<row, result, table, rendered>>
    BY DEF Record, Goto, IInv, TypeOK
  <1>3. /\ table[c] \in Table /\ table[c].session \in Session
        /\ records \in [Session -> Nat] /\ table[c].decisions \in Nat
    BY <1>2 DEF IInv, TypeOK, HasTable, Tableless, Table
  <1>4. row.session = table[c].session
    BY <1>0, <1>1 DEF Keeps, OwnRow
  <1>5. /\ records'[row.session] \in Nat
        /\ records'[row.session] <= records[row.session] + 1
    <2>1. \/ records' = [records EXCEPT ![table[c].session] = @ + 1]
          \/ UNCHANGED records
      BY DEF Record
    <2> QED
      BY <1>3, <1>4, <2>1
  <1>6. /\ "frames" \notin lost /\ row.session = rendered.session =>
             table[c].moves >= rendered.moves
        /\ "records" \notin lost => table[c].decisions >= records[row.session] + 1
    BY <1>0, <1>1, <1>2, <1>4 DEF Keeps, TableAhead, Holds, Due
  <1>7. TableAhead(c)'
    <2>1. "records" \notin lost' => table[c].decisions >= records'[row.session] + 0
      BY <1>0, <1>3, <1>4, <1>5, <1>6
    <2> QED
      BY <1>0, <1>2, <1>6, <2>1 DEF TableAhead, Due
  <1>8. /\ OwnRow(c)' /\ OpenedAsSaved(c)' /\ FramesSaved(c)' /\ RecordsSaved(c)'
        /\ ClearedIsOver(c)' /\ OpenIsResumable'
    BY <1>0, <1>1, <1>2, <1>4
    DEF Keeps, OwnRow, OpenedAsSaved, FramesSaved, Unsaved, RecordsSaved, ClearedIsOver,
        OpenIsResumable
  <1>9. Keeps(c)'
    BY <1>7, <1>8 DEF Keeps
  <1> QED
    BY <1>0, <1>2, <1>9, TheOneIsEnough

\* An outcome is written once and for all, unless its statement fails.
LEMMA OutcomeKeeps ==
  ASSUME IInv, MCInv, MCNext, ~contested', NEW c \in Conn,
         Finalize(c) \/ CloseSession(c)
  PROVE  Kept'
  <1>0. lost \subseteq lost' /\ ~contested /\ Active(c) /\ Drives(c)
    BY LossesStay DEF Active, Drives, Finalize, CloseSession
  <1>1. Keeps(c)
    BY <1>0, TheOneKeeps
  <1>2. /\ UNCHANGED <<row, records, table, rendered>>
        /\ table[c] \in Table /\ table[c].session \in Session
        /\ result \in [Session -> Outcomes]
    BY <1>0 DEF Finalize, CloseSession, IInv, TypeOK, HasTable, Active, Tableless, Table
  <1>3. PICK label \in {"ending", "clearing"} :
          /\ Goto(c, label)
          /\ label = "clearing" <=> pc[c] \in {"givingup", "ending"}
    BY DEF Finalize, CloseSession
  <1>4. pc'[c] = label
    BY <1>3 DEF Goto, IInv, TypeOK
  <1>5. \A s \in Session : result'[s] = "none" => result[s] = "none"
    <2>1. CASE UNCHANGED result
      BY <2>1
    <2>2. CASE result' = [result EXCEPT ![table[c].session] = Outcome(c)]
      BY <1>2, <2>2 DEF Outcome
    <2>3. CASE result' = [result EXCEPT ![table[c].session] = Closed(table[c].session)]
      BY <1>2, <2>3 DEF Closed
    <2> QED
      BY <2>1, <2>2, <2>3 DEF Finalize, CloseSession
  <1>6. label = "clearing" /\ "outcome" \notin lost' => result'[table[c].session] # "none"
    <2>1. CASE Fails
      <3>1. pc[c] # label
        BY <1>3 DEF Finalize, CloseSession
      <3> QED
        BY <1>3, <2>1, <3>1, OneFailed
    <2>2. CASE Finalize(c) /\ result' = [result EXCEPT ![table[c].session] = Outcome(c)]
      BY <1>2, <1>3, <2>2 DEF Outcome, Finalize
    <2>3. CASE result' = [result EXCEPT ![table[c].session] = Closed(table[c].session)]
      BY <1>2, <2>3 DEF Closed
    <2> QED
      BY <2>1, <2>2, <2>3 DEF Finalize, CloseSession
  <1>7. ClearedIsOver(c)' /\ OpenIsResumable'
    BY <1>0, <1>1, <1>2, <1>4, <1>5, <1>6 DEF Keeps, ClearedIsOver, OpenIsResumable
  <1>8. Due(pc[c]) = 0 /\ Due(label) = 0
    BY DEF Due, Finalize, CloseSession
  <1>9. /\ OwnRow(c)' /\ OpenedAsSaved(c)' /\ FramesSaved(c)' /\ RecordsSaved(c)'
        /\ TableAhead(c)'
    <2>1. Holds(c) /\ pc[c] \notin {"starting", "storing", "leaving", "saving"}
      BY <1>0 DEF Holds, Finalize, CloseSession
    <2> QED
      BY <1>0, <1>1, <1>2, <1>4, <1>8, <2>1
      DEF Keeps, OwnRow, OpenedAsSaved, FramesSaved, Unsaved, RecordsSaved, TableAhead
  <1>10. Keeps(c)'
    BY <1>7, <1>9 DEF Keeps
  <1> QED
    BY <1>0, <1>3, <1>10, TheOneIsEnough

\* The row goes once its tournament has an outcome.
LEMMA ClearKeeps ==
  ASSUME IInv, MCInv, MCNext, ~contested', NEW c \in Conn, Clear(c), row' = NoRow
  PROVE  Kept'
  <1>0. lost \subseteq lost' /\ ~contested /\ Active(c) /\ Drives(c)
    BY LossesStay DEF Active, Drives, Clear
  <1>1. Keeps(c)
    BY <1>0, TheOneKeeps
  <1>2. /\ pc[c] = "clearing" /\ Goto(c, "closing") /\ pc'[c] = "closing"
        /\ UNCHANGED <<result, records, table, rendered>>
        /\ rendered \in Table \cup {NoTable}
    BY DEF Clear, Goto, IInv, TypeOK
  <1>3. table[c] \in Table /\ table[c].session \in Session
    BY <1>0 DEF IInv, HasTable, Active, Tableless, Table
  <1>4. OpenIsResumable'
    <2> SUFFICES ASSUME "outcome" \notin lost', NEW s \in Session, result[s] = "none"
                 PROVE  FALSE
      BY <1>2 DEF OpenIsResumable
    <2>1. row.session = s /\ row.session = table[c].session
      BY <1>0, <1>1 DEF Keeps, OpenIsResumable, OwnRow
    <2>2. result[table[c].session] # "none"
      BY <1>0, <1>1, <1>2 DEF Keeps, ClearedIsOver
    <2> QED
      BY <2>1, <2>2
  <1>5. FramesSaved(c)' /\ RecordsSaved(c)'
    <2>1. rendered.session = 0 => rendered = NoTable
      BY <1>2 DEF Table, Session
    <2> QED
      BY <1>2, <2>1 DEF FramesSaved, RecordsSaved, NoRow, NoTable
  <1>6. OwnRow(c)' /\ OpenedAsSaved(c)' /\ TableAhead(c)' /\ ClearedIsOver(c)'
    <2>1. row'.session # table'[c].session
      BY <1>2, <1>3 DEF NoRow, Session
    <2> QED
      BY <1>2, <2>1 DEF OwnRow, OpenedAsSaved, TableAhead, ClearedIsOver, Drives
  <1>7. Keeps(c)'
    BY <1>4, <1>5, <1>6 DEF Keeps
  <1> QED
    BY <1>0, <1>2, <1>7, TheOneIsEnough

\* Every step of the connection that drives a table keeps it.
LEMMA DriveKeeps ==
  ASSUME IInv, MCInv, MCNext, ~contested', NEW c \in Conn, Drive(c)
  PROVE  Kept'
  <1>0. /\ table \in [Conn -> Table \cup {NoTable}]
        /\ ~contested
    BY LossesStay DEF IInv, TypeOK
  <1>1. pc[c] \notin {"off", "inserting", "checking", "taking"} /\ Active(c)
    BY DEF Drive, DealOnOpening, Show, ShowDealt, Start, Play, Record, Save, DealNext,
         Store, GiveUp,
       Finalize, CloseSession, Clear, Close, Active
  <1>2. table[c] \in Table /\ table = [table EXCEPT ![c] = table[c]]
    BY <1>0, <1>1 DEF IInv, HasTable, Tableless
  <1>3. table[c].decisions \in Nat /\ table[c].moves \in Nat
    BY <1>2, TableFields
  <1>4. CASE DealOnOpening(c)
    <2>1. PICK label \in {"finalizing", "resuming"} : Goto(c, label)
      BY <1>4 DEF DealOnOpening
    <2>2. PICK t \in Table : /\ table' = [table EXCEPT ![c] = t]
                             /\ t.session = table[c].session
                             /\ t.moves >= table[c].moves
                             /\ t.decisions = table[c].decisions + 0
      <3>1. CASE UNCHANGED table
        BY <1>2, <1>3, <3>1
      <3>2. CASE Move(c, 0)
        BY <1>0, <1>2, <3>2, Moving
      <3> QED
        BY <1>4, <3>1, <3>2 DEF DealOnOpening
    <2>3. /\ pc[c] = "resuming" /\ Drives(c) /\ Holds(c)
          /\ UNCHANGED <<row, result, records, rendered>>
      BY <1>4 DEF DealOnOpening, Drives, Holds
    <2>4. t.decisions >= table[c].decisions + Due(label)
      BY <1>3, <2>2 DEF Due
    <2> QED
      BY <1>1, <2>1, <2>2, <2>3, <2>4, Onwards DEF Unsaved
  <1>5. CASE Show(c)
    BY <1>5, ShowKeeps
  <1>15. CASE ShowDealt(c)
    <2>1. /\ pc[c] = "resuming" /\ Goto(c, "starting")
          /\ table' = [table EXCEPT ![c] = table[c]]
          /\ rendered' = table[c]
          /\ UNCHANGED <<row, result, records>>
      BY <1>2, <1>15 DEF ShowDealt, Send
    <2>2. table[c].decisions >= table[c].decisions
      BY <1>3
    <2> QED
      BY <1>2, <2>1, <2>2, Showing
  <1>16. CASE Start(c)
    <2>1. /\ pc[c] = "starting" /\ Drives(c) /\ Holds(c) /\ Goto(c, "playing")
          /\ UNCHANGED <<result, records, table, rendered>>
      BY <1>16 DEF Start, Drives, Holds
    <2>2. CASE row' = SavedRow(c)
      BY <2>1, <2>2, SavedKeeps
    <2>3. CASE Fails /\ UNCHANGED row
      <3>1. "frames" \in lost'
        BY <2>1, <2>3, OneFailed
      <3>2. table[c].decisions >= table[c].decisions + Due("playing")
        BY <1>3 DEF Due
      <3>3. table' = [table EXCEPT ![c] = table[c]] /\ table[c].moves >= table[c].moves
        BY <1>2, <1>3, <2>1
      <3> QED
        BY <1>1, <1>2, <2>1, <2>3, <3>1, <3>2, <3>3, Onwards DEF Unsaved
    <2> QED
      BY <1>16, <2>2, <2>3 DEF Start, SaveTable
  <1>6. CASE Play(c)
    <2>1. PICK label \in {"saving", "recording"} :
            Goto(c, label) /\ Move(c, Due(label))
      BY <1>6 DEF Play, Due
    <2>2. Due(label) \in Nat
      BY DEF Due
    <2>3. PICK t \in Table : /\ table' = [table EXCEPT ![c] = t]
                             /\ t.session = table[c].session
                             /\ t.moves >= table[c].moves
                             /\ t.decisions = table[c].decisions + Due(label)
      BY <1>0, <1>2, <2>1, <2>2, Moving
    <2>4. /\ pc[c] = "playing" /\ Drives(c) /\ Holds(c)
          /\ UNCHANGED <<row, result, records, rendered>>
      BY <1>6 DEF Play, Drives, Holds
    <2>5. t.decisions >= table[c].decisions + Due(label)
      BY <1>3, <2>2, <2>3
    <2> QED
      BY <1>1, <2>1, <2>3, <2>4, <2>5, Onwards DEF Unsaved
  <1>7. CASE Record(c)
    BY <1>7, RecordKeeps
  <1>8. CASE Save(c)
    <2>1. PICK label \in {"finalizing", "dealing", "playing"} : Goto(c, label)
      BY <1>8, GoingOn DEF Save
    <2>2. /\ pc[c] = "saving" /\ rendered' = table[c]
          /\ UNCHANGED <<result, records, table>>
      BY <1>8 DEF Save, Send
    <2>3. CASE row' = SavedRow(c)
      BY <2>1, <2>2, <2>3, SavedKeeps
    <2>4. CASE Fails /\ UNCHANGED row
      BY <2>1, <2>2, <2>4, UnsavedKeeps
    <2> QED
      BY <1>8, <2>3, <2>4 DEF Save, SaveTable
  <1>9. CASE DealNext(c)
    <2>1. PICK t \in Table : /\ table' = [table EXCEPT ![c] = t]
                             /\ t.session = table[c].session
                             /\ t.decisions = table[c].decisions + 0
      BY <1>0, <1>2, <1>9, Moving DEF DealNext
    <2>2. /\ pc[c] = "dealing" /\ Goto(c, "storing")
          /\ rendered' = t /\ t.decisions >= table[c].decisions
          /\ UNCHANGED <<row, result, records>>
      BY <1>0, <1>3, <1>9, <2>1 DEF DealNext, Send
    <2> QED
      BY <2>1, <2>2, Showing
  <1>10. CASE Store(c)
    <2>1. PICK label \in {"finalizing", "dealing", "playing"} : Goto(c, label)
      BY <1>10, GoingOn DEF Store
    <2>2. /\ pc[c] = "storing" /\ Drives(c) /\ Holds(c)
          /\ UNCHANGED <<result, records, table, rendered>>
      BY <1>10 DEF Store, Drives, Holds
    <2>3. CASE row' = SavedRow(c)
      BY <2>1, <2>2, <2>3, SavedKeeps
    <2>4. CASE Fails /\ UNCHANGED row
      <3>1. "frames" \in lost'
        BY <2>1, <2>2, <2>4, OneFailed
      <3>2. table[c].decisions >= table[c].decisions + Due(label)
        BY <1>3 DEF Due
      <3>3. table' = [table EXCEPT ![c] = table[c]] /\ table[c].moves >= table[c].moves
        BY <1>2, <1>3, <2>2
      <3> QED
        BY <1>1, <1>2, <2>1, <2>2, <2>4, <3>1, <3>2, <3>3, Onwards DEF Unsaved
    <2> QED
      BY <1>10, <2>3, <2>4 DEF Store, SaveTable
  <1>11. CASE GiveUp(c)
    <2>1. /\ pc[c] = "playing" /\ Drives(c) /\ Holds(c) /\ Goto(c, "givingup")
          /\ UNCHANGED <<row, result, records, table, rendered>>
      BY <1>11 DEF GiveUp, Drives, Holds
    <2>2. table[c].decisions >= table[c].decisions + Due("givingup")
      BY <1>3 DEF Due
    <2>3. table' = [table EXCEPT ![c] = table[c]] /\ table[c].moves >= table[c].moves
      BY <1>2, <1>3, <2>1
    <2> QED
      BY <1>1, <1>2, <2>1, <2>2, <2>3, Onwards DEF Unsaved
  <1>12. CASE Finalize(c) \/ CloseSession(c)
    BY <1>12, OutcomeKeeps
  <1>13. CASE Clear(c)
    <2>1. CASE row' = NoRow
      BY <1>13, <2>1, ClearKeeps
    <2>2. CASE Fails /\ UNCHANGED row
      <3>0. row.snapshot = NoTable => "frames" \in lost'
        BY <1>13, <2>2, OneFailed DEF Clear
      <3>1. /\ pc[c] = "clearing" /\ Drives(c) /\ Holds(c) /\ Goto(c, "closing")
            /\ UNCHANGED <<result, records, table, rendered>>
        BY <1>13 DEF Clear, Drives, Holds
      <3>2. table[c].decisions >= table[c].decisions + Due("closing")
        BY <1>3 DEF Due
      <3>3. table' = [table EXCEPT ![c] = table[c]] /\ table[c].moves >= table[c].moves
        BY <1>2, <1>3, <3>1
      <3> QED
        BY <1>1, <1>2, <2>2, <3>0, <3>1, <3>2, <3>3, Onwards
    <2> QED
      BY <1>13, <2>1, <2>2 DEF Clear
  <1>14. CASE Close(c)
    <2>1. /\ pc[c] = "closing" /\ Goto(c, "off")
          /\ table' = [table EXCEPT ![c] = NoTable]
          /\ UNCHANGED <<row, result, records, rendered>>
      BY <1>14 DEF Close, Reject
    <2>2. ~Drives(c)' /\ ~Holds(c)'
      BY <2>1 DEF Goto, Drives, Holds, IInv, TypeOK
    <2> QED
      BY <1>1, <2>1, <2>2, Onwards DEF Unsaved
  <1> QED
    BY <1>4, <1>5, <1>6, <1>7, <1>8, <1>9, <1>10, <1>11, <1>12, <1>13, <1>14,
       <1>15, <1>16 DEF Drive

\* So does a client that goes away.
LEMMA LeaveKeeps ==
  ASSUME IInv, MCInv, MCNext, ~contested', NEW c \in Conn, Leave(c)
  PROVE  Kept'
  <1>0. table \in [Conn -> Table \cup {NoTable}] /\ row \in Row \cup {NoRow}
    BY DEF IInv, TypeOK
  <1>1. pc[c] \notin {"off", "inserting", "checking", "taking"} /\ Active(c)
    BY DEF Leave, Disconnect, AtTheSocket, SaveOnLeaving, Release, Active
  <1>2. table[c] \in Table /\ table = [table EXCEPT ![c] = table[c]]
    BY <1>0, <1>1 DEF IInv, HasTable, Tableless
  <1>3. table[c].decisions \in Nat /\ table[c].moves \in Nat
    BY <1>2, TableFields
  <1>4. ASSUME NEW label \in {"leaving", "releasing"}
        PROVE  table[c].decisions >= table[c].decisions + Due(label)
    BY <1>3 DEF Due
  <1>5. CASE Disconnect(c)
    <2>1. /\ pc[c] # "recording" /\ Holds(c) /\ Goto(c, "leaving")
          /\ UNCHANGED <<row, result, records, table, rendered>>
      BY <1>5 DEF Disconnect, AtTheSocket, Drives, Holds
    <2>2. ~Drives(c)'
      BY <2>1 DEF Goto, Drives, IInv, TypeOK
    <2>3. table' = [table EXCEPT ![c] = table[c]] /\ table[c].moves >= table[c].moves
      BY <1>2, <1>3, <2>1
    <2> QED
      BY <1>1, <1>2, <1>4, <2>1, <2>2, <2>3, Onwards DEF Unsaved
  <1>6. CASE SaveOnLeaving(c)
    <2>1. /\ pc[c] = "leaving" /\ Holds(c) /\ Goto(c, "releasing")
          /\ UNCHANGED <<result, records, table, rendered>>
      BY <1>6 DEF SaveOnLeaving, Holds
    <2>2. CASE row' = SavedRow(c)
      BY <2>1, <2>2, SavedKeeps
    <2>3. CASE Fails /\ UNCHANGED row
      <3>1. "frames" \in lost' /\ "records" \in lost'
        BY <2>1, <2>3, OneFailed
      <3>2. table' = [table EXCEPT ![c] = table[c]] /\ table[c].moves >= table[c].moves
        BY <1>2, <1>3, <2>1
      <3>3. ~Drives(c)' /\ ~Holds(c)'
        BY <2>1 DEF Goto, Drives, Holds, IInv, TypeOK
      <3> QED
        BY <1>1, <1>2, <1>4, <2>1, <2>3, <3>1, <3>2, <3>3, Onwards DEF Unsaved
    <2> QED
      BY <1>6, <2>2, <2>3 DEF SaveOnLeaving, SaveTable
  <1>7. CASE Release(c)
    <2>1. /\ pc[c] = "releasing" /\ Goto(c, "off")
          /\ table' = [table EXCEPT ![c] = NoTable]
          /\ UNCHANGED <<result, records, rendered>>
      BY <1>7 DEF Release, Reject
    <2>2. ~Drives(c)' /\ ~Holds(c)'
      BY <2>1 DEF Goto, Drives, Holds, IInv, TypeOK
    <2>3. /\ row'.session = row.session /\ row'.snapshot = row.snapshot
          /\ row' # NoRow => row # NoRow
      BY <1>0, <1>7 DEF Release, Released, Row
    <2> QED
      BY <1>1, <2>1, <2>2, <2>3, Onwards DEF Unsaved
  <1> QED
    BY <1>5, <1>6, <1>7 DEF Leave

\* The process dies: what was shown or stored and not saved is lost, and known
\* to be.
LEMMA RestartKeeps ==
  ASSUME IInv, MCInv, MCNext, ~contested', Restart
  PROVE  Kept'
  <1>0. /\ ~contested /\ lost \subseteq lost'
        /\ row \in Row \cup {NoRow}
        /\ \A c \in Conn : pc'[c] = "off"
        /\ UNCHANGED <<result, records, rendered>>
    BY LossesStay DEF Restart, IInv, TypeOK
  <1>1. /\ row'.session = row.session /\ row'.snapshot = row.snapshot
        /\ row' # NoRow => row # NoRow
    BY <1>0 DEF Restart, Released, Row
  <1>2. Alone' /\ ClaimsAreFresh'
    BY <1>0 DEF Alone, ClaimsAreFresh, Claiming, Active
  <1>3. ASSUME NEW d \in Conn
        PROVE  Keeps(d)'
    <2>1. PICK c \in Conn : Keeps(c)
      <3>1. CASE \E c \in Conn : Active(c)
        BY <1>0, <3>1, TheOneKeeps
      <3>2. CASE \A c \in Conn : ~Active(c)
        BY <1>0, <3>2 DEF MCInv, Kept
      <3> QED
        BY <3>1, <3>2
    <2>2. /\ pc[c] \in {"starting", "storing", "leaving"} => "frames" \in lost'
          /\ pc[c] \in Unsaved /\ row.snapshot = NoTable => "frames" \in lost'
          /\ pc[c] \in {"saving", "leaving"} => "records" \in lost'
      BY <1>0, OneOff
    <2>3. FramesSaved(d)'
      BY <1>0, <1>1, <2>1, <2>2 DEF Keeps, FramesSaved
    <2>4. RecordsSaved(d)'
      BY <1>0, <1>1, <2>1, <2>2 DEF Keeps, RecordsSaved
    <2>5. OpenIsResumable'
      BY <1>0, <1>1, <2>1 DEF Keeps, OpenIsResumable
    <2>6. OwnRow(d)' /\ OpenedAsSaved(d)' /\ TableAhead(d)' /\ ClearedIsOver(d)'
      BY <1>0 DEF OwnRow, OpenedAsSaved, TableAhead, ClearedIsOver, Drives, Holds
    <2> QED
      BY <2>3, <2>4, <2>5, <2>6 DEF Keeps
  <1> QED
    BY <1>2, <1>3 DEF Kept

\* No tournament is ever taken back.
LEMMA ResultsStayBorn ==
  ASSUME IInv, Next, NEW s \in Session, result[s] # "unborn"
  PROVE  result'[s] # "unborn"
  <1>0. result \in [Session -> Outcomes]
    BY DEF IInv, TypeOK
  <1>1. CASE UNCHANGED result
    BY <1>1
  <1>2. CASE \E c \in Conn : InsertRow(c)
    BY <1>0, <1>2 DEF InsertRow
  <1>3. ASSUME NEW c \in Conn, Finalize(c)
        PROVE  result'[s] # "unborn"
    <2>1. table[c] \in Table
      BY <1>3 DEF Finalize, IInv, HasTable, Tableless
    <2>2. table[c].result # "unborn"
      BY <2>1 DEF Table, Results
    <2> QED
      BY <1>0, <1>3, <2>2 DEF Finalize, Outcome
  <1>4. CASE \E c \in Conn : CloseSession(c)
    BY <1>0, <1>4 DEF CloseSession, Closed
  <1>5. \/ UNCHANGED result
        \/ \E c \in Conn : InsertRow(c) \/ Finalize(c) \/ CloseSession(c)
    BY DEF Next, Restart, Claim, Drive, Leave, ReadRow, CheckConnected,
       TakeRow, ClaimFails, DealOnOpening, Show, ShowDealt, Start, Play, Record, Save, DealNext, Store,
       GiveUp, Clear, Close, Disconnect, SaveOnLeaving, Release
  <1> QED
    BY <1>1, <1>2, <1>3, <1>4, <1>5

\* A row is the row of before, or that of a tournament just started.
LEMMA RowsAreBorn ==
  ASSUME IInv, MCInv, Next, row' # NoRow
  PROVE  result'[row'.session] # "unborn"
  <1>0. row \in Row \cup {NoRow} /\ result \in [Session -> Outcomes]
    BY DEF IInv, TypeOK
  <1>1. CASE row # NoRow /\ row'.session = row.session
    <2>1. row.session \in Session
      BY <1>0, <1>1, RowFields
    <2> QED
      BY <1>1, <2>1, ResultsStayBorn DEF MCInv, Born
  <1>2. CASE \E s \in Session : /\ row'.session = s
                                /\ result' = [result EXCEPT ![s] = "none"]
    BY <1>0, <1>2
  <1>3. CASE row' = row
    BY <1>1, <1>3
  <1>4. CASE row' = Released
    BY <1>0, <1>1, <1>4 DEF Released, Row
  <1>5. ASSUME NEW c \in Conn, row' = SavedRow(c)
        PROVE  result'[row'.session] # "unborn"
    BY <1>0, <1>1, <1>5 DEF SavedRow, Row
  <1>6. CASE \E c \in Conn : TakeRow(c)
    BY <1>0, <1>1, <1>6 DEF TakeRow, SetConnected, Row
  <1>7. CASE \E c \in Conn : InsertRow(c)
    BY <1>2, <1>3, <1>7 DEF InsertRow
  <1>8. \/ row' = row \/ row' = NoRow \/ row' = Released
        \/ \E c \in Conn : row' = SavedRow(c) \/ TakeRow(c) \/ InsertRow(c)
    BY DEF Next, Restart, Claim, Drive, Leave, ReadRow, CheckConnected, ClaimFails,
       DealOnOpening, Show, ShowDealt, Start, Play, Record, Save, SaveTable, DealNext, Store, GiveUp, Finalize,
       CloseSession, Clear, Close, Disconnect, SaveOnLeaving, Release
  <1> QED
    BY <1>3, <1>4, <1>5, <1>6, <1>7, <1>8

\* A table is of the row it was read from, or of a tournament just started.
LEMMA TablesAreBorn ==
  ASSUME IInv, IInv', MCInv, Next, NEW d \in Conn, pc'[d] \notin Tableless
  PROVE  result'[table'[d].session] # "unborn"
  <1>0. /\ table \in [Conn -> Table \cup {NoTable}] /\ pc \in [Conn -> Labels]
        /\ row \in Row \cup {NoRow} /\ result \in [Session -> Outcomes]
    BY DEF IInv, TypeOK
  <1>1. CASE pc[d] \notin Tableless /\ table'[d].session = table[d].session
    <2>1. table[d].session \in Session
      BY <1>1 DEF IInv, HasTable, Table
    <2> QED
      BY <1>1, <2>1, ResultsStayBorn DEF MCInv, Born
  <1>2. CASE row # NoRow /\ table'[d].session = row.session
    <2>1. row.session \in Session
      BY <1>0, <1>2, RowFields
    <2> QED
      BY <1>2, <2>1, ResultsStayBorn DEF MCInv, Born
  <1>3. CASE \E s \in Session : /\ table'[d].session = s
                                /\ result' = [result EXCEPT ![s] = "none"]
    BY <1>0, <1>3
  <1>4. \E c \in Conn : Claim(c) \/ Drive(c) \/ Leave(c)
    BY DEF Next, Restart, Tableless
  <1>5. PICK c \in Conn : Claim(c) \/ Drive(c) \/ Leave(c)
    BY <1>4
  <1>6. CASE ReadRow(c)
    <2>1. CASE d = c
      <3>1. row # NoRow /\ table'[d] = IF row.snapshot = NoTable THEN NewTable(row.session)
                                       ELSE row.snapshot
        BY <1>0, <1>6, <2>1 DEF ReadRow, Goto, Tableless
      <3>2. table'[d].session = row.session
        BY <3>1 DEF NewTable, IInv, SnapshotsStayInTheirTournament
      <3> QED
        BY <1>2, <3>1, <3>2
    <2>2. CASE d # c
      BY <1>0, <1>1, <1>6, <2>2 DEF ReadRow, Goto
    <2> QED
      BY <2>1, <2>2
  <1>7. CASE InsertRow(c)
    <2>1. CASE d = c
      BY <1>0, <1>3, <1>7, <2>1 DEF InsertRow, Open, Reject, Goto, NewTable, Tableless
    <2>2. CASE d # c
      BY <1>0, <1>1, <1>7, <2>2 DEF InsertRow, Open, Reject, Goto
    <2> QED
      BY <2>1, <2>2
  <1>8. CASE CheckConnected(c) \/ TakeRow(c) \/ ClaimFails(c)
    BY <1>0, <1>1, <1>8 DEF CheckConnected, TakeRow, ClaimFails, Open, Reject, Goto, Tableless
  <1>9. CASE Drive(c)
    <2>1. pc[c] \notin Tableless
      BY <1>9 DEF Drive, DealOnOpening, Show, ShowDealt, Start, Play, Record, Save, DealNext,
         Store, GiveUp,
         Finalize, CloseSession, Clear, Close, Tableless
    <2>2. \E label : Goto(c, label)
      BY <1>9 DEF Drive, DealOnOpening, Show, ShowDealt, Start, Play, Record, Save, DealNext,
         Store, GiveUp,
         GoOn, Finalize, CloseSession, Clear, Close, Reject
    <2>3. \/ UNCHANGED table \/ \E n \in {0, 1} : Move(c, n)
          \/ Goto(c, "off") /\ table' = [table EXCEPT ![c] = NoTable]
      BY <1>9 DEF Drive, DealOnOpening, Show, ShowDealt, Start, Play, Record, Save, DealNext,
         Store, GiveUp,
         Finalize, CloseSession, Clear, Close, Reject
    <2>4. CASE UNCHANGED table
      BY <1>0, <1>1, <2>1, <2>2, <2>4 DEF Goto
    <2>5. CASE \E n \in {0, 1} : Move(c, n)
      <3>1. \E t : table' = [table EXCEPT ![c] = t] /\ t.session = table[c].session
        BY <2>5 DEF Move
      <3> QED
        BY <1>0, <1>1, <2>1, <2>2, <3>1 DEF Goto
    <2>6. CASE Goto(c, "off") /\ table' = [table EXCEPT ![c] = NoTable]
      BY <1>0, <1>1, <2>6 DEF Goto, Tableless
    <2> QED
      BY <2>3, <2>4, <2>5, <2>6
  <1>10. CASE Leave(c)
    BY <1>0, <1>1, <1>10 DEF Leave, Disconnect, AtTheSocket, SaveOnLeaving, Release, Reject,
       Goto, Tableless
  <1> QED
    BY <1>5, <1>6, <1>7, <1>8, <1>9, <1>10 DEF Claim

\* Names stay the names of tournaments that have been started.
LEMMA NextKeepsBorn ==
  ASSUME IInv, IInv', MCInv, Next
  PROVE  Born'
  <1>1. row' # NoRow => result'[row'.session] # "unborn"
    BY RowsAreBorn
  <1>2. \A d \in Conn : pc'[d] \notin Tableless => result'[table'[d].session] # "unborn"
    BY TablesAreBorn
  <1>3. rendered' # NoTable => result'[rendered'.session] # "unborn"
    <2>1. CASE rendered' = rendered
      <3>1. rendered # NoTable => rendered.session \in Session
        BY DEF IInv, TypeOK, Table
      <3> QED
        BY <2>1, <3>1, ResultsStayBorn DEF MCInv, Born
    <2>2. CASE \E c \in Conn : (Save(c) \/ Show(c) \/ ShowDealt(c) \/ DealNext(c))
      <3>1. PICK c \in Conn : Save(c) \/ Show(c) \/ ShowDealt(c) \/ DealNext(c)
        BY <2>2
      <3>2. rendered' = table'[c]
        BY <3>1 DEF Save, Show, ShowDealt, DealNext, Send
      <3>3. pc'[c] \notin Tableless
        BY <3>1 DEF Save, Show, ShowDealt, DealNext, GoOn, Goto, IInv, TypeOK, Tableless
      <3> QED
        BY <1>2, <3>2, <3>3
    <2>3. rendered' = rendered \/ \E c \in Conn : (Save(c) \/ Show(c) \/ ShowDealt(c) \/ DealNext(c))
      BY DEF Next, Restart, Claim, Drive, Leave, ReadRow, InsertRow, CheckConnected, TakeRow,
         ClaimFails, DealOnOpening, Start, Play, Record, Store, GiveUp, Finalize, CloseSession,
         Clear, Close, Disconnect, SaveOnLeaving, Release
    <2> QED
      BY <2>1, <2>2, <2>3
  <1>4. ASSUME NEW s \in Session, result'[s] = "unborn"
        PROVE  records'[s] = 0
    <2>1. result[s] = "unborn"
      BY <1>4, ResultsStayBorn
    <2>2. records[s] = 0
      BY <2>1 DEF MCInv, Born
    <2>3. CASE UNCHANGED records
      BY <2>2, <2>3
    <2>4. CASE \E c \in Conn : Record(c)
      <3>1. PICK c \in Conn : Record(c)
        BY <2>4
      <3>2. table[c].session # s
        BY <2>1, <3>1 DEF Record, MCInv, Born, Tableless
      <3> QED
        BY <2>2, <3>1, <3>2 DEF Record, IInv, TypeOK
    <2>5. UNCHANGED records \/ \E c \in Conn : Record(c)
      BY DEF Next, Restart, Claim, Drive, Leave, ReadRow, InsertRow, CheckConnected, TakeRow,
         ClaimFails, DealOnOpening, Show, ShowDealt, Start, Play, Save, DealNext, Store, GiveUp, Finalize,
         CloseSession, Clear, Close, Disconnect, SaveOnLeaving, Release
    <2> QED
      BY <2>3, <2>4, <2>5
  <1> QED
    BY <1>1, <1>2, <1>3, <1>4 DEF Born

\* The history starts with nothing to keep.
LEMMA InitMCInv == MCInit => MCInv
  <1> SUFFICES ASSUME MCInit
               PROVE  MCInv
    OBVIOUS
  <1>0. /\ row = NoRow /\ rendered = NoTable /\ contested = FALSE
        /\ result = [s \in Session |-> "unborn"] /\ records = [s \in Session |-> 0]
        /\ \A c \in Conn : pc[c] = "off"
        /\ company = [c \in Conn |-> FALSE]
    BY DEF MCInit, Init
  <1>1. HistoryTyped
    BY <1>0 DEF HistoryTyped
  <1>2. Born /\ Unused
    BY <1>0 DEF Born, Tableless, Unused
  <1>3. Alone /\ ClaimsAreFresh
    BY <1>0 DEF Alone, ClaimsAreFresh, Claiming, Active
  <1>4. ASSUME NEW c \in Conn
        PROVE  Keeps(c)
    BY <1>0 DEF Keeps, OwnRow, OpenedAsSaved, FramesSaved, RecordsSaved, TableAhead,
       ClearedIsOver, OpenIsResumable, Drives, Holds, NoRow, NoTable
  <1> QED
    BY <1>1, <1>2, <1>3, <1>4 DEF MCInv, Kept

\* Every step keeps the invariant.
LEMMA NextKeepsMCInv ==
  ASSUME IInv, IInv', MCInv, [MCNext]_mcVars
  PROVE  MCInv'
  <1>1. CASE MCNext
    <2>0. Next
      BY <1>1 DEF MCNext
    <2>1. HistoryTyped'
      BY <1>1 DEF MCNext, MCInv, HistoryTyped, Claiming, Others
    <2>2. Born'
      BY <2>0, NextKeepsBorn
    <2>3. Conn # {}
      BY <2>0 DEF Next, Restart
    <2>4. ASSUME ~contested'
          PROVE  Kept'
      <3>1. CASE Restart
        BY <1>1, <2>4, <3>1, RestartKeeps
      <3>2. ASSUME NEW c \in Conn, Claim(c)
            PROVE  Kept'
        <4>1. CASE ClaimFails(c)
          <5>1. /\ Claiming(c) /\ Goto(c, "off")
                /\ table' = [table EXCEPT ![c] = NoTable]
                /\ UNCHANGED <<row, result, records, rendered>>
            BY <4>1 DEF ClaimFails, Reject, Claiming
          <5> QED
            BY <1>1, <2>4, <5>1, RejectedKeeps
        <4> QED
          BY <1>1, <2>4, <3>2, <4>1, ReadRowKeeps, InsertKeeps, CheckKeeps, TakeKeeps DEF Claim
      <3>3. ASSUME NEW c \in Conn, Drive(c) \/ Leave(c)
            PROVE  Kept'
        BY <1>1, <2>4, <3>3, DriveKeeps, LeaveKeeps
      <3> QED
        BY <2>0, <3>1, <3>2, <3>3 DEF Next
    <2> QED
      BY <2>1, <2>2, <2>3, <2>4 DEF MCInv
  <1>2. CASE UNCHANGED mcVars
    BY <1>2 DEF mcVars, vars, MCInv, HistoryTyped, Born, Unused, Kept, Alone, ClaimsAreFresh,
       Keeps, OwnRow, OpenedAsSaved, FramesSaved, Unsaved, RecordsSaved, TableAhead,
       ClearedIsOver, OpenIsResumable, Active, Claiming, Drives, Holds
  <1> QED
    BY <1>1, <1>2

\* With the history, the store's invariant and that of the history hold.
THEOREM HistoryInvariance == MCSpec => [](IInv /\ MCInv)
  <1>1. MCInit => IInv /\ MCInv
    BY InitIInv, InitMCInv DEF MCInit
  <1>2. IInv /\ MCInv /\ [MCNext]_mcVars => (IInv /\ MCInv)'
    <2> SUFFICES ASSUME IInv, MCInv, [MCNext]_mcVars
                 PROVE  (IInv /\ MCInv)'
      OBVIOUS
    <2>1. [Next]_vars
      BY DEF MCNext, mcVars
    <2>2. IInv'
      BY <2>1, NextKeepsIInv
    <2> QED
      BY <2>2, NextKeepsMCInv
  <1> QED
    BY <1>1, <1>2, PTL DEF MCSpec

\* Some connection keeps what is kept: the one past its claim, or any.
LEMMA SomeoneKeeps ==
  ASSUME MCInv, ~contested, Conn # {}
  PROVE  \E c \in Conn : Keeps(c)
  <1>1. CASE \E c \in Conn : Active(c)
    BY <1>1, TheOneKeeps
  <1>2. CASE \A c \in Conn : ~Active(c)
    BY <1>2 DEF MCInv, Kept
  <1> QED
    BY <1>1, <1>2

\* Whatever was shown of the open tournament survives on the row or with the
\* connection that will save it, and so does what its records were made for.
THEOREM NothingIsLost == MCSpec => []NothingIsUndone
  <1>1. IInv /\ MCInv => NothingIsUndone
    <2> SUFFICES ASSUME IInv, MCInv, ~contested
                 PROVE  /\ "frames" \notin lost /\ row.session = rendered.session =>
                             Survives(LAMBDA t : t.moves >= rendered.moves)
                        /\ "records" \notin lost /\ row # NoRow =>
                             Survives(LAMBDA t : t.decisions >= records[row.session])
      BY DEF NothingIsUndone
    <2>1. CASE Conn = {}
      BY <2>1 DEF MCInv, Unused, Survives, NoRow, NoTable
    <2>2. CASE Conn # {}
      <3>1. PICK c \in Conn : Keeps(c)
        BY <2>2, SomeoneKeeps
      <3>2. ASSUME "frames" \notin lost, row.session = rendered.session
            PROVE  \/ row.snapshot.moves >= rendered.moves
                   \/ \E d \in Conn : /\ Holds(d) /\ table[d].session = row.session
                                      /\ table[d].moves >= rendered.moves
        <4>1. pc[c] \in Unsaved => Holds(c) /\ table[c].session = row.session
          BY <3>1 DEF Keeps, OwnRow, Unsaved, Holds, Drives
        <4> QED
          BY <3>1, <3>2, <4>1 DEF Keeps, FramesSaved, TableAhead, Holds, Drives
      <3>3. ASSUME "records" \notin lost, row # NoRow
            PROVE  \/ row.snapshot.decisions >= records[row.session]
                   \/ \E d \in Conn : /\ Holds(d) /\ table[d].session = row.session
                                      /\ table[d].decisions >= records[row.session]
        <4>1. CASE pc[c] \in {"saving", "leaving"} /\ table[c].session = row.session
          <5>1. Holds(c) /\ Due(pc[c]) = 0
            BY <4>1 DEF Holds, Drives, Due
          <5>2. table[c].decisions >= records[row.session] + 0
            BY <3>1, <3>3, <4>1, <5>1 DEF Keeps, TableAhead
          <5>3. records[row.session] \in Nat
            BY <3>3, RowFields DEF IInv, TypeOK
          <5> QED
            BY <4>1, <5>1, <5>2, <5>3
        <4> QED
          BY <3>1, <3>3, <4>1 DEF Keeps, RecordsSaved
      <3> QED
        BY <3>2, <3>3 DEF Survives
    <2> QED
      BY <2>1, <2>2
  <1> QED
    BY <1>1, HistoryInvariance, PTL

\* An open tournament is the one on the row, whatever finished, left, died or
\* failed: no session stays open that nobody will be given again.
THEOREM OpenTournamentsCanBeResumed == MCSpec => []NoTournamentIsOrphaned
  <1>1. IInv /\ MCInv => NoTournamentIsOrphaned
    <2> SUFFICES ASSUME MCInv, ~contested, "outcome" \notin lost,
                        NEW s \in Session, result[s] = "none"
                 PROVE  row.session = s
      BY DEF NoTournamentIsOrphaned
    <2>1. Conn # {}
      BY DEF MCInv, Unused
    <2> QED
      BY <2>1, SomeoneKeeps DEF Keeps, OpenIsResumable
  <1> QED
    BY <1>1, HistoryInvariance, PTL

=============================================================================
