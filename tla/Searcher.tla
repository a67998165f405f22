------------------------------- MODULE Searcher -------------------------------
(***************************************************************************)
(* The background solver of one connection: the socket loop of             *)
(* src/src/server/ws.rs (play_socket), the worker it spawns (run_searcher) *)
(* with the search it keeps (src/src/mcts/searcher.rs), and the page that  *)
(* opens its action dock by the statuses (src/assets/app.js).              *)
(*                                                                         *)
(* The loop and the worker talk over two unbounded channels, commands that *)
(* move the search to a new decision and statuses back; the loop and the   *)
(* page over the WebSocket, ordered in each direction.  All four are       *)
(* sequences read from the head.  What one handler of the loop does before *)
(* it waits again is one step: the others see of it only what it sends.    *)
(*                                                                         *)
(* A decision of the hero is a number; its token is what the code names it *)
(* by.  What the opponents do after a submission is free (another decision *)
(* on the street or on the next one, or the end of the hand), and so is    *)
(* how far a chunk of work gets; the wall budget is a number of chunks.    *)
(***************************************************************************)
EXTENDS Naturals, Sequences, SequencesExt

CONSTANTS
  LastStreet,   \* the river; fewer streets make a smaller instance
  MaxDecisions, \* bound: decisions put to the hero
  MaxClicks,    \* bound: messages of the page under way
  MaxFrames,    \* bound: frames under way before a status is sent on
  MaxStatuses,  \* bound: statuses under way before the worker runs again
  Budget        \* chunks that use up a decision's wall budget (max_duration)

ASSUME SearcherConstants ==
  /\ LastStreet \in Nat
  /\ {MaxDecisions, MaxClicks, MaxFrames, MaxStatuses, Budget} \subseteq Nat \ {0}

None == 0 \* no decision, no snapshot, no search

NoToken == <<0, 0, 0>>

Phase == {"Searching", "DepthReached", "Ready"}

VARIABLES
  table,    \* the session: the decision it asks, what names it, its review
  loop,     \* "Select", "Pause" on a finished hand, or "Closed"
  snapshot, \* latest_snapshot: the decision whose search it describes
  alive,    \* solver_alive
  commands, \* the channel to the worker
  updates,  \* the channel from the worker
  frames,   \* frames on their way to the page
  clicks,   \* messages on their way from the page
  page,     \* what the page shows and whether its dock is open
  worker,   \* where run_searcher is, and the command it took
  search,   \* the Searcher it keeps
  reused    \* history: tokens that named a reviewed decision and then another

vars == <<table, loop, snapshot, alive, commands, updates, frames, clicks,
          page, worker, search, reused>>

(***************************************************************************)
(* Tokens, commands, statuses and frames.                                  *)
(***************************************************************************)
\* Mutant: the token leaves out the submissions made.
token_of_street(t) ==
  IF t.decision = None THEN NoToken ELSE <<t.hand, 0, t.street>>

\* decision_token: only a live decision of the hero has one.
decision_token(t) ==
  IF t.decision = None THEN NoToken ELSE <<t.hand, t.action_no, t.street>>

\* A Reshape; from is the decision whose branch was played on, or None when
\* the command carries no path.
Reshape(t, from) ==
  [decision |-> t.decision, token |-> decision_token(t), hand |-> t.hand,
   street |-> t.street, from |-> from]

NoReshape ==
  [decision |-> None, token |-> NoToken, hand |-> 0, street |-> 0, from |-> None]

StateFrame(t) ==
  [kind |-> "State", decision |-> t.decision, token |-> decision_token(t), phase |-> "Searching"]

StatusFrame(s) ==
  [kind |-> "Status", decision |-> s.root, token |-> s.token, phase |-> s.phase]

Overlay ==
  [kind |-> "Overlay", decision |-> None, token |-> NoToken, phase |-> "Searching"]

NoSearch ==
  [root |-> None, token |-> NoToken, hand |-> 0, street |-> 0,
   phase |-> "Searching", chunks |-> 0]

NoPage ==
  [decision |-> None, token |-> NoToken, open |-> FALSE, solved |-> None, overlay |-> FALSE]

(***************************************************************************)
(* The connection has sent the table, started the worker and sent it the   *)
(* first Reshape.                                                          *)
(***************************************************************************)
Init ==
  /\ table = [decision |-> 1, asked |-> 1, hand |-> 1, action_no |-> 0,
              street |-> 0, review |-> FALSE]
  /\ loop = "Select"
  /\ snapshot = None
  /\ alive = TRUE
  /\ commands = <<Reshape(table, None)>>
  /\ updates = <<>>
  /\ frames = <<StateFrame(table)>>
  /\ clicks = <<>>
  /\ page = NoPage
  /\ worker = [at |-> "Top", pending |-> NoReshape]
  /\ search = NoSearch
  /\ reused = {}

(***************************************************************************)
(* The page.                                                               *)
(***************************************************************************)
\* TABLE_STATE_UPDATE puts the dock of the new fragment in, locked.
ShowState(f) ==
  page' = [page EXCEPT !.decision = f.decision, !.token = f.token,
                       !.open = FALSE, !.solved = None]

\* Mutant: the page does not compare the status's decision with its own.
ShowAnyStatus(f) ==
  page' = IF f.phase = "Ready" THEN [page EXCEPT !.open = TRUE, !.solved = f.decision]
          ELSE page

\* SEARCH_STATUS: only one of the decision on screen counts, and only a
\* READY one opens the dock.
ShowStatus(f) ==
  page' = IF page.decision # None /\ f.token = page.token /\ f.phase = "Ready"
          THEN [page EXCEPT !.open = TRUE, !.solved = f.decision]
          ELSE page

\* handleMessage.
ShowFrame ==
  /\ loop # "Closed"
  /\ frames # <<>>
  /\ frames' = Tail(frames)
  /\ LET f == Head(frames) IN
     \/ f.kind = "State" /\ ShowState(f)
     \/ f.kind = "Status" /\ ShowStatus(f)
     \/ f.kind = "Overlay" /\ page' = [page EXCEPT !.overlay = TRUE]
  /\ UNCHANGED <<table, loop, snapshot, alive, commands, updates, clicks,
                 worker, search, reused>>

\* A click in the dock or the overlay.  The message does not say which decision
\* was on screen (shown is history), and the dock stays open after a click.
Click ==
  /\ loop # "Closed"
  /\ Len(clicks) < MaxClicks
  /\ \/ /\ page.open
        /\ clicks' = Append(clicks, [kind |-> "ActionSubmit", shown |-> page.decision])
        /\ UNCHANGED page
     \/ /\ page.overlay
        /\ clicks' = Append(clicks, [kind |-> "ReviewDone", shown |-> page.decision])
        /\ page' = [page EXCEPT !.overlay = FALSE]
  /\ UNCHANGED <<table, loop, snapshot, alive, commands, updates, frames,
                 worker, search, reused>>

(***************************************************************************)
(* The socket loop.                                                        *)
(***************************************************************************)
\* The next decision of the hero: on the same street or the next one.
NextDecision(t, n) ==
  {[t EXCEPT !.decision = t.asked + 1, !.asked = t.asked + 1, !.action_no = n,
             !.street = s, !.review = FALSE] :
     s \in IF t.asked < MaxDecisions THEN t.street .. LastStreet \cap {t.street, t.street + 1}
           ELSE {}}

HandOver(t, n) == [t EXCEPT !.decision = None, !.action_no = n, !.review = FALSE]

\* What a submission leaves on the table with n submissions counted: the next
\* decision, the hand's end, or a held check-fold intercepted when its turn
\* came (it counts as a submission too).
Played(t, n) ==
  NextDecision(t, n) \cup {HandOver(t, n)}
    \cup {[u EXCEPT !.action_no = n + 1, !.review = TRUE] :
            u \in {v \in NextDecision(t, n) : v.street = t.street}}

\* The state frame leaves, then the Reshape onto the branch played, unless
\* the hand is over: then the result is shown for a while.
Publish(t) ==
  /\ table' = t
  /\ frames' = frames \o (IF t.review THEN <<Overlay>> ELSE <<>>) \o <<StateFrame(t)>>
  /\ IF t.decision = None
     THEN loop' = "Pause" /\ UNCHANGED commands
     ELSE /\ commands' = Append(commands, Reshape(t, table.decision))
          /\ UNCHANGED loop

\* ACTION_SUBMIT refused: no decision, an action that is not legal there, or
\* a review to be confirmed first.
RejectSubmission ==
  UNCHANGED <<table, loop, snapshot, alive, commands, updates, frames, page,
              worker, search, reused>>

\* A submission taken as a blunder: only the overlay leaves, but the count
\* goes up and the search is moved to the same state under the new token.
Intercept ==
  /\ ~table.review
  /\ LET t == [table EXCEPT !.action_no = table.action_no + 1, !.review = TRUE] IN
     /\ table' = t
     /\ frames' = Append(frames, Overlay)
     /\ commands' = Append(commands, Reshape(t, table.decision))
  /\ UNCHANGED <<loop, snapshot, alive, updates, page, worker, search, reused>>

\* A submission applied to the decision on the table.
Apply ==
  /\ ~table.review
  /\ \E t \in Played(table, table.action_no + 1) : Publish(t)
  /\ UNCHANGED <<snapshot, alive, updates, page, worker, search, reused>>

\* REVIEW_DONE: the optimal action is applied; the submission was counted
\* when it was held back.
ConfirmReview ==
  /\ table.review
  /\ \E t \in Played(table, table.action_no) :
       /\ Publish(t)
       /\ reused' = IF decision_token(t) = decision_token(table)
                    THEN reused \cup {decision_token(t)} ELSE reused
  /\ UNCHANGED <<snapshot, alive, updates, page, worker, search>>

\* The client-message arm of the loop.
HandleMessage ==
  /\ loop = "Select"
  /\ clicks # <<>>
  /\ clicks' = Tail(clicks)
  /\ LET kind == Head(clicks).kind IN
     \/ RejectSubmission
     \/ kind = "ActionSubmit" /\ table.decision # None /\ (Intercept \/ Apply)
     \/ kind = "ReviewDone" /\ ConfirmReview

\* The connection ends: the client is gone or pressed the finish button, or
\* the hand that just ended ended the tournament.  Stop is sent, the worker
\* aborted and everything under way dropped; the page shows no decision.
Leave ==
  /\ loop # "Closed"
  /\ loop' = "Closed"
  /\ page' = NoPage
  /\ worker' = [at |-> "Ended", pending |-> NoReshape]
  /\ search' = NoSearch
  /\ snapshot' = None
  /\ alive' = FALSE
  /\ commands' = <<>> /\ updates' = <<>> /\ frames' = <<>> /\ clicks' = <<>>
  /\ UNCHANGED <<table, reused>>

\* After the result pause: the next hand, which may be over again before the
\* hero decides.  The search starts afresh on its decision.
DealOn ==
  /\ loop = "Pause"
  /\ \E t \in {[table EXCEPT !.hand = table.hand + 1, !.street = 0]} :
       \/ /\ t.asked < MaxDecisions
          /\ LET u == [t EXCEPT !.decision = t.asked + 1, !.asked = t.asked + 1] IN
             /\ table' = u
             /\ frames' = Append(frames, StateFrame(u))
             /\ commands' = Append(commands, Reshape(u, None))
             /\ loop' = "Select"
       \/ /\ t.hand < MaxDecisions
          /\ table' = t
          /\ frames' = Append(frames, StateFrame(t))
          /\ UNCHANGED <<commands, loop>>
  /\ UNCHANGED <<snapshot, alive, updates, clicks, page, worker, search, reused>>

\* The status arm: the snapshot is kept for scoring and the status sent on.
ForwardStatus ==
  /\ loop = "Select"
  /\ updates # <<>>
  /\ Len(frames) < MaxFrames
  /\ snapshot' = Head(updates).root
  /\ frames' = Append(frames, StatusFrame(Head(updates)))
  /\ updates' = Tail(updates)
  /\ UNCHANGED <<table, loop, alive, commands, clicks, page, worker, search, reused>>

\* The status arm once the worker is gone and its channel drained.
NoticeEnded ==
  /\ loop = "Select"
  /\ alive
  /\ worker.at = "Ended"
  /\ updates = <<>>
  /\ snapshot' = None
  /\ alive' = FALSE
  /\ UNCHANGED <<table, loop, commands, updates, frames, clicks, page, worker,
                 search, reused>>

(***************************************************************************)
(* The worker.                                                             *)
(***************************************************************************)
\* needs_work.
needs_work(s) == s.chunks < Budget

\* At the top every command waiting is read and the last one counts; without
\* one, the search goes on until its budget is used up.
Take ==
  /\ \/ /\ commands # <<>>
        /\ worker' = [at |-> "Work", pending |-> Last(commands)]
     \/ /\ commands = <<>> /\ search # NoSearch
        /\ worker' = [at |-> IF needs_work(search) THEN "Work" ELSE "Idle",
                      pending |-> NoReshape]
  /\ commands' = <<>>

TakeCommands ==
  /\ worker.at = "Top"
  /\ Len(updates) < MaxStatuses
  /\ Take
  /\ UNCHANGED <<table, loop, snapshot, alive, updates, frames, clicks, page,
                 search, reused>>

\* With the budget used up the worker waits for one command and works on it,
\* later ones or not.
WakeUp ==
  /\ worker.at = "Idle"
  /\ commands # <<>>
  /\ worker' = [at |-> "Work", pending |-> Head(commands)]
  /\ commands' = Tail(commands)
  /\ UNCHANGED <<table, loop, snapshot, alive, updates, frames, clicks, page,
                 search, reused>>

\* Elsewhere in the tree: a node whose state is not the one commanded.
Elsewhere == MaxDecisions + 1

\* follow_path: the node the path leads to from the search's root, if it was
\* expanded.  A path that starts at another decision than the root's, or
\* whose first action was not the one applied, leads elsewhere.
FollowedNode(s, c) ==
  {None, IF s.root = c.from /\ c.decision # c.from THEN c.decision ELSE Elsewhere}

\* Mutant: a tree that cannot follow the path keeps its root.
FollowOrStay(s, c) == {IF n = c.decision THEN n ELSE s.root : n \in FollowedNode(s, c)}

\* reshape_following: a node is promoted if it is observably the state
\* commanded; the tree is rebuilt from that state otherwise.
Follow(s, c) == {IF n = c.decision THEN n ELSE c.decision : n \in FollowedNode(s, c)}

\* reshape and build: another hand, another street or no path rebuild.
RootAfter(s, c) ==
  IF s.hand # c.hand \/ c.from = None \/ s.street # c.street
  THEN {c.decision} ELSE Follow(s, c)

\* Mutant: the label is left to the next full rebuild.
ReshapedUnlabelled(s, c) ==
  {[root |-> r, token |-> IF s.hand = c.hand THEN s.token ELSE c.token, hand |-> c.hand, street |-> c.street,
    phase |-> "Searching", chunks |-> 0] : r \in RootAfter(s, c)}

\* The search after a command: root and label move together, and the sweeps
\* and the clock start over.
Reshaped(s, c) ==
  {[root |-> r, token |-> c.token, hand |-> c.hand, street |-> c.street,
    phase |-> "Searching", chunks |-> 0] : r \in RootAfter(s, c)}

\* run_chunk: the phases come in order; a budget used up after the target
\* was reached is past the minimum time too.
Chunk(s) ==
  LET n == s.chunks + 1
      later == CASE s.phase = "Searching" -> Phase
                 [] s.phase = "DepthReached" -> {"DepthReached", "Ready"}
                 [] OTHER -> {"Ready"}
  IN {[s EXCEPT !.chunks = n, !.phase = p] :
        p \in IF n = Budget THEN later \ {"DepthReached"} ELSE later}

Status(s) == [root |-> s.root, token |-> s.token, phase |-> s.phase]

\* The blocking task comes back: a first build publishes its startup status,
\* everything later the status after a chunk.
FinishWork ==
  /\ worker.at = "Work"
  /\ LET c == worker.pending IN
     \/ /\ search = NoSearch
        /\ search' \in {[root |-> c.decision, token |-> c.token, hand |-> c.hand,
                         street |-> c.street, phase |-> "Searching", chunks |-> 0]}
     \/ /\ search # NoSearch
        /\ \E s \in IF c = NoReshape THEN {search} ELSE Reshaped(search, c) :
             search' \in Chunk(s)
  /\ updates' = Append(updates, Status(search'))
  /\ worker' = [at |-> "Top", pending |-> NoReshape]
  /\ UNCHANGED <<table, loop, snapshot, alive, commands, frames, clicks, page, reused>>

\* The build, the reshape or the chunk fails or panics: the task ends.
WorkFails ==
  /\ worker.at = "Work"
  /\ worker' = [at |-> "Ended", pending |-> NoReshape]
  /\ UNCHANGED <<table, loop, snapshot, alive, commands, updates, frames, clicks,
                 page, search, reused>>

Next ==
  \/ ShowFrame \/ Click
  \/ HandleMessage \/ Leave \/ DealOn \/ ForwardStatus \/ NoticeEnded
  \/ TakeCommands \/ WakeUp \/ FinishWork \/ WorkFails

Spec == Init /\ [][Next]_vars

(***************************************************************************)
(* Fairness: the tasks are scheduled and the WebSocket delivers.  The      *)
(* player owes nothing, and a failure of the worker may or may not come.   *)
(***************************************************************************)
FairSpec ==
  /\ Spec
  /\ WF_vars(ShowFrame)
  /\ WF_vars(HandleMessage)
  /\ WF_vars(DealOn)
  /\ WF_vars(ForwardStatus)
  /\ WF_vars(NoticeEnded)
  /\ WF_vars(TakeCommands)
  /\ WF_vars(WakeUp)
  /\ WF_vars(FinishWork)

(***************************************************************************)
(* Properties.                                                             *)
(***************************************************************************)
\* The dock opens only by a finished search of the decision on screen,
\* however many statuses of older ones are under way (app.js, SEARCH_STATUS;
\* README.md:72-74) - as long as the decision's token was not a review's.
OpenDockIsSolved ==
  page.open /\ page.token \notin reused => page.solved = page.decision

\* A click made for the decision that is on the table is scored by a search
\* of that decision, or by an inline solve when there is none: never by the
\* snapshot of an earlier one (ws.rs, latest_snapshot).
ScoredByItsOwnSearch ==
  loop = "Select" /\ clicks # <<>> /\ ~table.review =>
    LET m == Head(clicks) IN
    m.kind = "ActionSubmit" /\ m.shown = table.decision /\ m.shown # None
      /\ decision_token(table) \notin reused
    => snapshot \in {None, table.decision}

\* What a search publishes under the name of the table's decision was
\* computed from that decision's state, through coalesced commands, followed
\* branches and rebuilt trees (searcher.rs, reshape).
LabelsAreTruthful ==
  table.decision # None /\ decision_token(table) \notin reused =>
    /\ \A i \in DOMAIN updates :
         updates[i].token = decision_token(table) => updates[i].root = table.decision
    /\ search.token = decision_token(table) => search.root = table.decision

Undecided(d) == loop = "Select" /\ table.decision = d /\ ~table.review

Solved(d) == page.decision = d /\ page.open

OutOfBudget(d) == search.root = d /\ search.chunks = Budget /\ search.phase # "Ready"

\* Every decision put to the hero opens its dock, unless it is taken off the
\* table first (a click under way, a review, the end of the connection), the
\* worker has failed, or the wall budget ends before the target is reached.
EveryDecisionOpens ==
  \A d \in 1 .. MaxDecisions :
    Undecided(d) ~>
      (~Undecided(d) \/ Solved(d) \/ worker.at = "Ended" \/ OutOfBudget(d))

===============================================================================
