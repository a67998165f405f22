----------------------------- MODULE MCLiveTable -----------------------------
(***************************************************************************)
(* Model-checking instance of LiveTable, with a history of the claims that *)
(* were made while another connection was open, and of what crashes and    *)
(* failed statements have cost.                                            *)
(***************************************************************************)
EXTENDS LiveTable, TLC

VARIABLES
  company,   \* whether another connection was open during the claim a
             \* connection is making
  contested, \* whether such a claim was ever granted
  lost       \* "frames": what was shown but could not be saved, "records":
             \* a decision stored for a move that could not be saved,
             \* "outcome": an end that could not be written

mcVars == <<vars, company, contested, lost>>

Claiming(c) == pc[c] \in {"inserting", "checking", "taking"}

Others(c) == \E d \in Conn \ {c} : pc[d] # "off"

\* The connection will save the table it has.
Holds(c) == Drives(c) \/ pc[c] \in {"closing", "leaving"}

\* A connection is cut off at one of the labels, by the process dying or by a
\* statement of its that fails.
Dies(labels) == \E c \in Conn : pc[c] \in labels /\ pc'[c] = "off"
Failed(labels) == faults' # faults /\ \E c \in Conn : pc[c] \in labels /\ pc'[c] # pc[c]

\* A new tournament may be played to its end, or the process die, before it is
\* saved at all.
NeverSaved ==
  /\ row.snapshot = NoTable
  /\ Dies({"resuming", "finalizing", "ending", "clearing"}) \/ Failed({"clearing"})

Lost ==
  (IF \/ Dies({"starting", "storing", "leaving"})
      \/ Failed({"starting", "saving", "storing", "leaving"})
      \/ NeverSaved
   THEN {"frames"} ELSE {})
  \cup
  (IF Dies({"saving", "leaving"}) \/ Failed({"saving", "leaving"}) THEN {"records"} ELSE {})
  \cup
  (IF Failed({"givingup", "ending"}) THEN {"outcome"} ELSE {})

MCInit == Init /\ company = [c \in Conn |-> FALSE] /\ contested = FALSE /\ lost = {}

\* Once a claim was contested, nothing more is recorded.
MCNext ==
  /\ Next
  /\ contested' = (contested \/ \E c \in Conn : Claiming(c) /\ Drives(c)' /\ company[c])
  /\ company' = [c \in Conn |->
       ~contested' /\ Claiming(c)' /\ ((Claiming(c) /\ company[c]) \/ Others(c) \/ Others(c)')]
  /\ lost' = IF contested' THEN {} ELSE lost \cup Lost

\* No action tells the connections apart.
AnyConnection == Permutations(Conn)

MCSpec == MCInit /\ [][MCNext]_mcVars

\* A table that is in its row or in the hands of a connection that will save it.
Survives(P(_)) ==
  \/ P(row.snapshot)
  \/ \E c \in Conn : Holds(c) /\ table[c].session = row.session /\ P(table[c])

\* Whatever the hero was shown of the open tournament survives
\* (src/src/server/ws.rs:389-390: "Save before the frames leave, so a disconnect
\* triggered by the rendered state resumes exactly that state"), unless two
\* connections got in each other's way, a save failed, or the process died
\* between the frames of a new hand, or of a new tournament, and its save.  And what is stored of its decisions
\* has been played on a table that survives, so no decision is played and
\* stored again, unless the process died, or the save failed, between the two
\* (ws.rs:387-391).
NothingIsUndone ==
  ~contested =>
    /\ "frames" \notin lost /\ row.session = rendered.session =>
         Survives(LAMBDA t : t.moves >= rendered.moves)
    /\ "records" \notin lost /\ row # NoRow =>
         Survives(LAMBDA t : t.decisions >= records[row.session])

\* A tournament without an outcome is the one that can be resumed: finishing,
\* giving up, losing the connection, restarting or a failed statement never
\* leaves an open session behind that no connection will be given again, but
\* for a LOSS that could not be written.
NoTournamentIsOrphaned ==
  ~contested /\ "outcome" \notin lost =>
    \A s \in Session : result[s] = "none" => row.session = s

=============================================================================
