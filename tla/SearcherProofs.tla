---------------------------- MODULE SearcherProofs ----------------------------
(***************************************************************************)
(* Proofs about Searcher, for any bounds on the decisions put to the hero  *)
(* and on the messages under way, and any wall budget.                     *)
(***************************************************************************)
EXTENDS Searcher, SequenceTheorems, TLAPS

(***************************************************************************)
(* Types.                                                                  *)
(***************************************************************************)
Token == Nat \X Nat \X Nat

Table == [decision : Nat, asked : Nat, hand : Nat, action_no : Nat, street : Nat, review : BOOLEAN]

Command == [decision : Nat, token : Token, hand : Nat, street : Nat, from : Nat]

StatusSet == [root : Nat, token : Token, phase : Phase]

Frame == [kind : {"State", "Status", "Overlay"}, decision : Nat, token : Token, phase : Phase]

ClickSet == [kind : {"ActionSubmit", "ReviewDone"}, shown : Nat]

Search == [root : Nat, token : Token, hand : Nat, street : Nat, phase : Phase, chunks : Nat]

Page == [decision : Nat, token : Token, open : BOOLEAN, solved : Nat, overlay : BOOLEAN]

TypeOK ==
  /\ table \in Table
  /\ loop \in {"Select", "Pause", "Closed"}
  /\ snapshot \in Nat
  /\ alive \in BOOLEAN
  /\ commands \in Seq(Command)
  /\ updates \in Seq(StatusSet)
  /\ frames \in Seq(Frame)
  /\ clicks \in Seq(ClickSet)
  /\ page \in Page
  /\ worker \in [at : {"Top", "Work", "Idle", "Ended"}, pending : Command]
  /\ search \in Search
  /\ reused \in SUBSET Token

(***************************************************************************)
(* Names.  A decision goes by its token wherever it is under way: on the   *)
(* table, in a command, in the search, in a status, in a frame and on the  *)
(* page.                                                                   *)
(***************************************************************************)
TableName == {<<table.decision, decision_token(table)>>}
CommandNames == {<<commands[i].decision, commands[i].token>> : i \in DOMAIN commands}
WorkerName == {<<worker.pending.decision, worker.pending.token>>}
SearchName == {<<search.root, search.token>>}
UpdateNames == {<<updates[i].root, updates[i].token>> : i \in DOMAIN updates}
FrameNames == {<<frames[i].decision, frames[i].token>> : i \in DOMAIN frames}
PageName == {<<page.decision, page.token>>}

NoName == {<<None, NoToken>>}

Names == NoName \cup TableName \cup CommandNames \cup WorkerName \cup SearchName
           \cup UpdateNames \cup FrameNames \cup PageName

\* The order tokens are given out in.
UpTo(a, b) ==
  \/ a[1] < b[1]
  \/ a[1] = b[1] /\ a[2] < b[2]
  \/ a[1] = b[1] /\ a[2] = b[2] /\ a[3] <= b[3]

\* The token of the table, were it a decision's.
Stamp(t) == <<t.hand, t.action_no, t.street>>

\* The table asks the latest decision or none; a review has one, a result does not.
TableInv ==
  /\ table.hand >= 1
  /\ table.decision \in {None, table.asked}
  /\ table.review => table.decision # None
  /\ loop = "Pause" => table.decision = None

\* A name in use is of the past: its decision was asked, and its token is no
\* later than the table's.
Past(p) ==
  /\ p[1] <= table.asked
  /\ UpTo(p[2], Stamp(table))
  /\ p[2] = NoToken <=> p[1] = None

\* The decision on the table goes by one token as long as no review renames it.
OneName(p) == ~table.review /\ p[1] = table.decision => p[2] = decision_token(table)

\* A token names one decision, unless it was a review's.
NamesAgree == \A p, q \in Names : p[2] = q[2] /\ p[2] \notin reused => p[1] = q[1]

NamesInv == (\A p \in Names : Past(p) /\ OneName(p)) /\ NamesAgree

\* An open dock was opened by a status that bore the page's token.
DockInv == page.open /\ page.token \notin reused => page.solved = page.decision

(***************************************************************************)
(* Order.  Decisions go down the line from the table to the commands, the  *)
(* search, the statuses and the page, and none overtakes another.          *)
(***************************************************************************)
Qualifies(i) ==
  /\ clicks[i].kind = "ActionSubmit"
  /\ clicks[i].shown = table.decision
  /\ clicks[i].shown # None
  /\ ~table.review
  /\ decision_token(table) \notin reused

\* What the page has seen solved, was sent or was answered.
Seen ==
  {None, page.solved}
    \cup {frames[i].decision : i \in {j \in DOMAIN frames : frames[j].kind = "Status"}}
    \cup {clicks[i].shown : i \in {j \in DOMAIN clicks : Qualifies(j)}}

Reported == Seen \cup {snapshot}

ReportsInLine ==
  /\ \A x \in Seen : snapshot = None \/ x <= snapshot
  /\ \A x \in Reported : x <= search.root /\ \A i \in DOMAIN updates : x <= updates[i].root

UpdatesInLine ==
  /\ \A i, j \in DOMAIN updates : i <= j => updates[i].root <= updates[j].root
  /\ \A i \in DOMAIN updates : updates[i].root <= search.root

WorkerInLine ==
  /\ search.root <= table.asked
  /\ worker.pending # NoReshape =>
       search.root <= worker.pending.decision /\ worker.pending.decision <= table.asked

CommandsInLine ==
  /\ \A i \in DOMAIN commands :
       /\ search.root <= commands[i].decision
       /\ commands[i].decision <= table.asked
       /\ worker.pending # NoReshape => worker.pending.decision <= commands[i].decision
  /\ \A i, j \in DOMAIN commands : i <= j => commands[i].decision <= commands[j].decision

OrderInv ==
  /\ ReportsInLine
  /\ UpdatesInLine
  /\ WorkerInLine
  /\ CommandsInLine
  /\ \A i \in DOMAIN clicks : clicks[i].shown <= table.asked

IInv == TypeOK /\ TableInv /\ NamesInv /\ DockInv /\ OrderInv

(***************************************************************************)
(* Sequences.                                                              *)
(***************************************************************************)
\* What a message sent adds to a channel.
LEMMA Sent ==
  ASSUME NEW T, NEW s \in Seq(T), NEW e \in T
  PROVE  /\ Append(s, e) \in Seq(T)
         /\ DOMAIN Append(s, e) = 1 .. Len(s) + 1
         /\ DOMAIN s = 1 .. Len(s) /\ Len(s) \in Nat
         /\ \A i \in DOMAIN s : Append(s, e)[i] = s[i]
         /\ Append(s, e)[Len(s) + 1] = e
  BY AppendProperties, LenProperties

\* What a message received leaves of a channel.
LEMMA Received ==
  ASSUME NEW T, NEW s \in Seq(T), s # <<>>
  PROVE  /\ Tail(s) \in Seq(T) /\ Head(s) \in T /\ Head(s) = s[1]
         /\ 1 \in DOMAIN s /\ DOMAIN s = 1 .. Len(s) /\ Len(s) \in Nat
         /\ \A i \in DOMAIN Tail(s) : i + 1 \in DOMAIN s /\ i \in Nat /\ Tail(s)[i] = s[i + 1]
  <1>1. Len(s) \in Nat \ {0} /\ DOMAIN s = 1 .. Len(s)
    BY EmptySeq, LenProperties
  <1>2. Tail(s) \in Seq(T) /\ Len(Tail(s)) = Len(s) - 1 /\ Head(s) \in T
    BY HeadTailProperties
  <1>3. DOMAIN Tail(s) = 1 .. (Len(s) - 1)
    BY <1>2, LenProperties
  <1>4. \A i \in 1 .. Len(Tail(s)) : Tail(s)[i] = s[i + 1]
    BY HeadTailProperties
  <1> QED
    BY <1>1, <1>2, <1>3, <1>4

\* The last message of a channel.
LEMMA LastOne ==
  ASSUME NEW T, NEW s \in Seq(T), s # <<>>
  PROVE  /\ Last(s) = s[Len(s)] /\ Len(s) \in DOMAIN s /\ Last(s) \in T
         /\ \A i \in DOMAIN s : i <= Len(s)
  <1>1. Len(s) \in Nat \ {0} /\ DOMAIN s = 1 .. Len(s)
    BY EmptySeq, LenProperties
  <1> QED
    BY <1>1, ElementOfSeq DEF Last

(***************************************************************************)
(* Names.                                                                  *)
(***************************************************************************)
LEMMA TokensAreOrdered ==
  ASSUME NEW a \in Token, NEW b \in Token, NEW c \in Token, UpTo(a, b), UpTo(b, c)
  PROVE  UpTo(a, c)
  BY DEF Token, UpTo

LEMMA TokenFacts ==
  ASSUME NEW t \in Table
  PROVE  /\ decision_token(t) \in Token /\ Stamp(t) \in Token
         /\ NoToken \in Token /\ UpTo(NoToken, Stamp(t))
         /\ t.decision = None => decision_token(t) = NoToken
         /\ t.decision # None => decision_token(t) = Stamp(t)
         /\ t.hand >= 1 => Stamp(t) # NoToken
  BY DEF Table, Token, decision_token, Stamp, NoToken, UpTo, None

\* What is named is typed.
LEMMA NamesAreTyped == TypeOK => Names \subseteq Nat \X Token
  <1> SUFFICES ASSUME TypeOK
               PROVE  Names \subseteq Nat \X Token
    OBVIOUS
  <1>1. NoName \cup TableName \cup WorkerName \cup SearchName \cup PageName \subseteq Nat \X Token
    <2>1. table \in Table
      BY DEF TypeOK
    <2>2. decision_token(table) \in Token /\ NoToken \in Token /\ table.decision \in Nat /\ None \in Nat
      BY <2>1, TokenFacts DEF Table, None
    <2>3. worker.pending.decision \in Nat /\ worker.pending.token \in Token
      BY DEF TypeOK, Command
    <2>4. search.root \in Nat /\ search.token \in Token
      BY DEF TypeOK, Search
    <2>5. page.decision \in Nat /\ page.token \in Token
      BY DEF TypeOK, Page
    <2> QED
      BY <2>2, <2>3, <2>4, <2>5 DEF NoName, TableName, WorkerName, SearchName, PageName
  <1>2. CommandNames \subseteq Nat \X Token
    <2> SUFFICES ASSUME NEW i \in DOMAIN commands
                 PROVE  <<commands[i].decision, commands[i].token>> \in Nat \X Token
      BY DEF CommandNames
    <2>1. commands[i] \in Command
      BY LenProperties, ElementOfSeq DEF TypeOK
    <2> QED
      BY <2>1 DEF Command
  <1>3. UpdateNames \subseteq Nat \X Token
    <2> SUFFICES ASSUME NEW i \in DOMAIN updates
                 PROVE  <<updates[i].root, updates[i].token>> \in Nat \X Token
      BY DEF UpdateNames
    <2>1. updates[i] \in StatusSet
      BY LenProperties, ElementOfSeq DEF TypeOK
    <2> QED
      BY <2>1 DEF StatusSet
  <1>4. FrameNames \subseteq Nat \X Token
    <2> SUFFICES ASSUME NEW i \in DOMAIN frames
                 PROVE  <<frames[i].decision, frames[i].token>> \in Nat \X Token
      BY DEF FrameNames
    <2>1. frames[i] \in Frame
      BY LenProperties, ElementOfSeq DEF TypeOK
    <2> QED
      BY <2>1 DEF Frame
  <1> QED
    BY <1>1, <1>2, <1>3, <1>4 DEF Names

\* Passing names on makes no new ones.
LEMMA NamesPassedOn ==
  ASSUME NamesInv, UNCHANGED <<table, reused>>, Names' \subseteq Names
  PROVE  NamesInv'
  BY DEF NamesInv, NamesAgree, Past, OneName

\* A new name of the table: of no decision, with a token not given out yet, or
\* with one that was a review's.
LEMMA TableRenamed ==
  ASSUME TypeOK, TableInv, NamesInv,
         TypeOK', TableInv',
         table.asked <= table'.asked, UpTo(Stamp(table), Stamp(table')),
         reused \subseteq reused',
         Names' \subseteq Names \cup TableName',
         \/ table'.decision = None
         \/ ~UpTo(Stamp(table'), Stamp(table))
         \/ decision_token(table') \in reused',
         \/ table'.review
         \/ table'.decision = None
         \/ table'.decision > table.asked
  PROVE  NamesInv'
  <1> DEFINE new == <<table'.decision, decision_token(table')>>
  <1>1. table \in Table /\ table' \in Table
    BY DEF TypeOK
  <1>2. Names \subseteq Nat \X Token
    BY NamesAreTyped
  <1>3. TableName' = {new} /\ new \in Nat \X Token
    BY <1>1, TokenFacts DEF TableName, Table
  <1>4. /\ table.hand >= 1 /\ table'.hand >= 1
        /\ table'.decision \in {None, table'.asked}
        /\ table'.asked \in Nat /\ table.asked \in Nat
    BY <1>1 DEF TableInv, Table
  <1>5. ASSUME NEW p \in TableName'
        PROVE  Past(p)' /\ OneName(p)'
    <2>1. p = new
      BY <1>3
    <2>2. UpTo(decision_token(table'), Stamp(table'))
      BY <1>1, TokenFacts DEF UpTo, Token
    <2>3. decision_token(table') = NoToken <=> table'.decision = None
      BY <1>1, <1>4, TokenFacts
    <2>4. table'.decision <= table'.asked
      BY <1>1, <1>4 DEF None
    <2>5. Past(p)'
      BY <2>1, <2>2, <2>3, <2>4 DEF Past
    <2>6. OneName(p)'
      BY <2>1 DEF OneName
    <2> QED
      BY <2>5, <2>6
  <1>6. ASSUME NEW p \in Names
        PROVE  Past(p)' /\ OneName(p)'
    <2>1. Past(p) /\ p \in Nat \X Token
      BY <1>2 DEF NamesInv
    <2>2. UpTo(p[2], Stamp(table'))
      BY <2>1, <1>1, TokenFacts, TokensAreOrdered DEF Past
    <2>3. Past(p)'
      BY <2>1, <2>2, <1>4 DEF Past
    <2>4. OneName(p)'
      <3>1. CASE table'.review
        BY <3>1 DEF OneName
      <3>2. CASE table'.decision = None
        BY <3>2, <2>1, <1>1, TokenFacts DEF OneName, Past
      <3>3. CASE table'.decision > table.asked
        BY <3>3, <2>1, <1>4 DEF OneName, Past
      <3> QED
        BY <3>1, <3>2, <3>3
    <2> QED
      BY <2>3, <2>4
  <1>8. ASSUME NEW p \in Names, p[2] = new[2], new[2] \notin reused'
        PROVE  p[1] = new[1]
    <2>1. Past(p) /\ p \in Nat \X Token
      BY <1>2 DEF NamesInv
    <2>2. CASE table'.decision = None
      BY <2>1, <2>2, <1>1, <1>8, TokenFacts DEF Past
    <2>3. CASE table'.decision # None /\ ~UpTo(Stamp(table'), Stamp(table))
      BY <2>1, <2>3, <1>1, <1>8, TokenFacts DEF Past
    <2> QED
      BY <2>2, <2>3, <1>8
  <1>9. NamesAgree'
    <2> SUFFICES ASSUME NEW p \in Names', NEW q \in Names', p[2] = q[2], p[2] \notin reused'
                 PROVE  p[1] = q[1]
      BY DEF NamesAgree
    <2>1. CASE p \in Names /\ q \in Names
      BY <2>1 DEF NamesInv, NamesAgree
    <2>2. CASE p = new /\ q \in Names
      BY <2>2, <1>8
    <2>3. CASE p \in Names /\ q = new
      BY <2>3, <1>8
    <2> QED
      BY <2>1, <2>2, <2>3, <1>3
  <1> QED
    BY <1>5, <1>6, <1>9 DEF NamesInv

(***************************************************************************)
(* Channels.                                                               *)
(***************************************************************************)
\* What a publication adds to the frames.
LEMMA Published ==
  ASSUME NEW s \in Seq(Frame), NEW t \in Table
  PROVE  LET out == s \o (IF t.review THEN <<Overlay>> ELSE <<>>) \o <<StateFrame(t)>> IN
         /\ out \in Seq(Frame)
         /\ \A i \in DOMAIN out : out[i] \in Range(s) \cup {Overlay, StateFrame(t)}
  <1> DEFINE mid == IF t.review THEN <<Overlay>> ELSE <<>>
             end == <<StateFrame(t)>>
             out == (s \o mid) \o end
  <1>1. Overlay \in Frame /\ StateFrame(t) \in Frame
    BY TokenFacts DEF Overlay, StateFrame, Frame, Phase, Table, None
  <1>2. /\ mid \in Seq(Frame) /\ Len(mid) \in Nat
        /\ \A i \in 1 .. Len(mid) : mid[i] = Overlay
    BY <1>1
  <1>3. end \in Seq(Frame) /\ Len(end) = 1 /\ end[1] = StateFrame(t)
    BY <1>1
  <1>4. /\ s \o mid \in Seq(Frame) /\ Len(s \o mid) = Len(s) + Len(mid)
        /\ \A i \in 1 .. Len(s) + Len(mid) :
             (s \o mid)[i] = IF i <= Len(s) THEN s[i] ELSE mid[i - Len(s)]
    BY <1>2, ConcatProperties
  <1>5. /\ out \in Seq(Frame) /\ Len(out) = Len(s \o mid) + 1
        /\ \A i \in 1 .. Len(s \o mid) + 1 :
             out[i] = IF i <= Len(s \o mid) THEN (s \o mid)[i] ELSE end[i - Len(s \o mid)]
    BY <1>3, <1>4, ConcatProperties
  <1>6. Len(s) \in Nat /\ DOMAIN s = 1 .. Len(s) /\ DOMAIN out = 1 .. Len(out)
    BY <1>5, LenProperties
  <1>7. ASSUME NEW i \in DOMAIN out
        PROVE  out[i] \in Range(s) \cup {Overlay, StateFrame(t)}
    <2>1. CASE i <= Len(s)
      BY <2>1, <1>2, <1>4, <1>5, <1>6 DEF Range
    <2>2. CASE i > Len(s) /\ i <= Len(s) + Len(mid)
      <3>1. out[i] = mid[i - Len(s)] /\ i - Len(s) \in 1 .. Len(mid)
        BY <2>2, <1>2, <1>4, <1>5, <1>6
      <3> QED
        BY <3>1, <1>2
    <2>3. CASE i > Len(s) + Len(mid)
      <3>1. i = Len(s \o mid) + 1 /\ out[i] = end[1]
        BY <2>3, <1>2, <1>4, <1>5, <1>6
      <3> QED
        BY <3>1, <1>3
    <2> QED
      BY <2>1, <2>2, <2>3, <1>2, <1>6
  <1> QED
    BY <1>5, <1>7

\* The names in the frames are those of the frames.
LEMMA NamesOfFrames ==
  ASSUME NEW X, \A i \in DOMAIN frames' : frames'[i] \in Range(frames) \cup X
  PROVE  FrameNames' \subseteq FrameNames \cup {<<f.decision, f.token>> : f \in X}
  BY DEF FrameNames, Range

LEMMA NamesOfCommands ==
  ASSUME NEW X, \A i \in DOMAIN commands' : commands'[i] \in Range(commands) \cup X
  PROVE  CommandNames' \subseteq CommandNames \cup {<<c.decision, c.token>> : c \in X}
  BY DEF CommandNames, Range

LEMMA NamesOfUpdates ==
  ASSUME NEW X, \A i \in DOMAIN updates' : updates'[i] \in Range(updates) \cup X
  PROVE  UpdateNames' \subseteq UpdateNames \cup {<<u.root, u.token>> : u \in X}
  BY DEF UpdateNames, Range

\* The initial state.
LEMMA InitIInv == Init => IInv
  <1> SUFFICES ASSUME Init
               PROVE  IInv
    OBVIOUS
  <1>1. /\ table \in Table /\ table.decision = 1 /\ table.asked = 1 /\ table.hand = 1
        /\ ~table.review /\ decision_token(table) = <<1, 0, 0>> /\ Stamp(table) = <<1, 0, 0>>
    BY DEF Init, Table, decision_token, Stamp, None
  <1>2. NoReshape \in Command /\ NoSearch \in Search /\ NoPage \in Page
    BY DEF NoReshape, Command, NoSearch, Search, NoPage, Page, NoToken, Token, None, Phase
  <1>3. /\ Reshape(table, None) \in Command /\ StateFrame(table) \in Frame
        /\ Reshape(table, None).decision = 1 /\ Reshape(table, None).token = <<1, 0, 0>>
        /\ StateFrame(table).decision = 1 /\ StateFrame(table).token = <<1, 0, 0>>
        /\ StateFrame(table).kind = "State"
    BY <1>1 DEF Reshape, Command, StateFrame, Frame, Token, Table, None, Phase
  <1>4. TypeOK
    BY <1>1, <1>2, <1>3 DEF Init, TypeOK, None
  <1>5. /\ commands = <<Reshape(table, None)>> /\ frames = <<StateFrame(table)>>
        /\ updates = <<>> /\ clicks = <<>> /\ page = NoPage /\ search = NoSearch
        /\ worker.pending = NoReshape /\ snapshot = 0
    BY DEF Init, None
  <1>6. Names = {<<0, <<0, 0, 0>>>>, <<1, <<1, 0, 0>>>>}
    <2>1. CommandNames = {<<1, <<1, 0, 0>>>>} /\ FrameNames = {<<1, <<1, 0, 0>>>>} /\ UpdateNames = {}
      <3>1. /\ DOMAIN commands = {1} /\ commands[1] = Reshape(table, None)
            /\ DOMAIN frames = {1} /\ frames[1] = StateFrame(table) /\ DOMAIN updates = {}
        BY <1>5
      <3> QED
        BY <1>3, <3>1 DEF CommandNames, FrameNames, UpdateNames
    <2>2. /\ TableName = {<<1, <<1, 0, 0>>>>} /\ WorkerName = {<<0, <<0, 0, 0>>>>}
          /\ SearchName = {<<0, <<0, 0, 0>>>>} /\ PageName = {<<0, <<0, 0, 0>>>>}
          /\ NoName = {<<0, <<0, 0, 0>>>>}
      BY <1>1, <1>5 DEF TableName, WorkerName, SearchName, PageName, NoName, NoReshape,
         NoSearch, NoPage, NoToken, None
    <2> QED
      BY <2>1, <2>2 DEF Names
  <1>7. TableInv /\ NamesInv
    <2>1. loop = "Select"
      BY DEF Init
    <2> QED
      BY <1>1, <1>6, <2>1 DEF TableInv, NamesInv, NamesAgree, Past, OneName, UpTo, NoToken, None
  <1>8. DockInv
    BY <1>5 DEF DockInv, NoPage
  <1>9. Seen = {0}
    BY <1>3, <1>5 DEF Seen, NoPage, None
  <1>10. OrderInv
    <2>1. search.root = 0 /\ table.asked = 1 /\ DOMAIN updates = {} /\ DOMAIN clicks = {}
      BY <1>1, <1>5 DEF NoSearch, None
    <2>2. DOMAIN commands = {1} /\ commands[1].decision = 1
      BY <1>3, <1>5
    <2> QED
      BY <1>5, <1>9, <2>1, <2>2 DEF OrderInv, ReportsInLine, UpdatesInLine, WorkerInLine,
         CommandsInLine, Reported, None
  <1> QED
    BY <1>4, <1>7, <1>8, <1>10 DEF IInv

(***************************************************************************)
(* Order.                                                                  *)
(***************************************************************************)
\* Where decisions stand, in numbers.
LEMMA OrderIsTyped ==
  ASSUME TypeOK
  PROVE  /\ Seen \subseteq Nat /\ snapshot \in Nat /\ table.asked \in Nat /\ search.root \in Nat
         /\ worker.pending.decision \in Nat
         /\ DOMAIN updates = 1 .. Len(updates) /\ Len(updates) \in Nat
         /\ \A i \in DOMAIN updates : updates[i] \in StatusSet /\ updates[i].root \in Nat
         /\ DOMAIN commands = 1 .. Len(commands) /\ Len(commands) \in Nat
         /\ \A i \in DOMAIN commands : commands[i] \in Command /\ commands[i].decision \in Nat
         /\ \A i \in DOMAIN frames : frames[i] \in Frame /\ frames[i].decision \in Nat
         /\ \A i \in DOMAIN clicks : clicks[i] \in ClickSet /\ clicks[i].shown \in Nat
  <1>1. /\ table \in Table /\ page.solved \in Nat /\ search \in Search /\ snapshot \in Nat
        /\ worker.pending \in Command
    BY DEF TypeOK, Page
  <1>2. /\ DOMAIN updates = 1 .. Len(updates) /\ Len(updates) \in Nat
        /\ \A i \in DOMAIN updates : updates[i] \in StatusSet
    BY LenProperties, ElementOfSeq DEF TypeOK
  <1>3. /\ DOMAIN commands = 1 .. Len(commands) /\ Len(commands) \in Nat
        /\ \A i \in DOMAIN commands : commands[i] \in Command
    BY LenProperties, ElementOfSeq DEF TypeOK
  <1>4. \A i \in DOMAIN frames : frames[i] \in Frame /\ frames[i].decision \in Nat
    <2>1. \A i \in DOMAIN frames : frames[i] \in Frame
      BY LenProperties, ElementOfSeq DEF TypeOK
    <2> QED
      BY <2>1 DEF Frame
  <1>5. \A i \in DOMAIN clicks : clicks[i] \in ClickSet /\ clicks[i].shown \in Nat
    <2>1. \A i \in DOMAIN clicks : clicks[i] \in ClickSet
      BY LenProperties, ElementOfSeq DEF TypeOK
    <2> QED
      BY <2>1 DEF ClickSet
  <1>6. Seen \subseteq Nat
    BY <1>1, <1>4, <1>5 DEF Seen, None
  <1> QED
    BY <1>1, <1>2, <1>3, <1>4, <1>5, <1>6 DEF Table, Search, Command, StatusSet

\* Steps of the page and the socket that leave the line as it is.
LEMMA LineStays ==
  ASSUME OrderInv, UNCHANGED <<table, snapshot, commands, updates, worker, search>>,
         Seen' \subseteq Seen,
         \A i \in DOMAIN clicks' : clicks'[i].shown <= table.asked
  PROVE  OrderInv'
  BY DEF OrderInv, ReportsInLine, UpdatesInLine, WorkerInLine, CommandsInLine, Reported

\* The table moves on, and sends a command for where it is now, or none.
LEMMA LineMovesOn ==
  ASSUME TypeOK, OrderInv, UNCHANGED <<snapshot, updates, worker, search>>,
         table' \in Table, table.asked <= table'.asked,
         Seen' \subseteq Seen,
         \A i \in DOMAIN clicks' : clicks'[i].shown <= table'.asked,
         \/ UNCHANGED commands
         \/ \E c \in Command : /\ commands' = Append(commands, c)
                               /\ table.asked <= c.decision /\ c.decision <= table'.asked
  PROVE  OrderInv'
  <1>1. /\ table'.asked \in Nat /\ table.asked \in Nat /\ search.root \in Nat
        /\ worker.pending.decision \in Nat
        /\ search.root <= table.asked
        /\ worker.pending # NoReshape => worker.pending.decision <= table.asked
    BY OrderIsTyped DEF Table, OrderInv, WorkerInLine
  <1>4. \A i \in DOMAIN commands :
          /\ commands[i].decision \in Nat
          /\ commands[i].decision <= table.asked
          /\ search.root <= commands[i].decision
          /\ worker.pending # NoReshape => worker.pending.decision <= commands[i].decision
    BY OrderIsTyped DEF OrderInv, CommandsInLine
  <1>2. WorkerInLine'
    BY <1>1, OrderIsTyped DEF OrderInv, WorkerInLine
  <1>3. CommandsInLine'
    <2>1. CASE UNCHANGED commands
      BY <1>1, <2>1, OrderIsTyped DEF OrderInv, CommandsInLine
    <2>2. ASSUME NEW c \in Command, commands' = Append(commands, c),
                 table.asked <= c.decision, c.decision <= table'.asked
          PROVE  CommandsInLine'
      <3>1. c.decision \in Nat
        BY DEF Command
      <3>2. /\ DOMAIN commands' = 1 .. Len(commands) + 1
            /\ DOMAIN commands = 1 .. Len(commands) /\ Len(commands) \in Nat
            /\ \A i \in DOMAIN commands : commands'[i] = commands[i]
            /\ commands'[Len(commands) + 1] = c
        BY <2>2, Sent DEF TypeOK
      <3>3. \A i \in DOMAIN commands' : i \in DOMAIN commands \/ i = Len(commands) + 1
        BY <3>2
      <3>4. \A i \in DOMAIN commands : commands[i].decision \in Nat /\ commands[i].decision <= c.decision
        BY <1>1, <1>4, <2>2, <3>1
      <3>5. ASSUME NEW i \in DOMAIN commands'
            PROVE  /\ search.root <= commands'[i].decision
                   /\ commands'[i].decision <= table'.asked
                   /\ worker.pending # NoReshape => worker.pending.decision <= commands'[i].decision
        <4>1. CASE i \in DOMAIN commands
          <5>1. commands'[i] = commands[i]
            BY <3>2, <4>1
          <5>2. /\ commands[i].decision \in Nat
                /\ commands[i].decision <= table.asked
                /\ search.root <= commands[i].decision
                /\ worker.pending # NoReshape => worker.pending.decision <= commands[i].decision
            BY <1>4, <4>1
          <5>3. commands[i].decision <= table'.asked
            BY <1>1, <5>2
          <5> QED
            BY <5>1, <5>2, <5>3
        <4>2. CASE i = Len(commands) + 1
          <5>1. commands'[i] = c
            BY <3>2, <4>2
          <5>2. /\ search.root <= c.decision
                /\ worker.pending # NoReshape => worker.pending.decision <= c.decision
            BY <1>1, <2>2, <3>1
          <5> QED
            BY <5>1, <5>2, <2>2
        <4> QED
          BY <3>3, <4>1, <4>2
      <3>6. ASSUME NEW i \in DOMAIN commands', NEW j \in DOMAIN commands', i <= j
            PROVE  commands'[i].decision <= commands'[j].decision
        <4>1. CASE j \in DOMAIN commands
          <5>1. i \in DOMAIN commands
            BY <3>2, <3>6, <4>1
          <5> QED
            BY <3>2, <3>6, <4>1, <5>1 DEF OrderInv, CommandsInLine
        <4>2. CASE j = Len(commands) + 1
          BY <3>1, <3>2, <3>3, <3>4, <4>2
        <4> QED
          BY <3>3, <4>1, <4>2
      <3> QED
        BY <3>5, <3>6 DEF CommandsInLine
    <2> QED
      BY <2>1, <2>2
  <1> QED
    BY <1>2, <1>3 DEF OrderInv, ReportsInLine, UpdatesInLine, Reported

(***************************************************************************)
(* The page.                                                               *)
(***************************************************************************)
LEMMA ShowFrameKeepsIInv == ASSUME IInv, ShowFrame PROVE IInv'
  <1> DEFINE f == Head(frames)
  <1>0. TypeOK /\ TableInv /\ NamesInv /\ DockInv /\ OrderInv
    BY DEF IInv
  <1>1. /\ UNCHANGED <<table, snapshot, commands, updates, worker, search, reused, clicks>>
        /\ frames # <<>> /\ frames' = Tail(frames)
        /\ \/ f.kind = "State" /\ ShowState(f)
           \/ f.kind = "Status" /\ ShowStatus(f)
           \/ f.kind = "Overlay" /\ page' = [page EXCEPT !.overlay = TRUE]
    BY DEF ShowFrame
  <1>2. /\ frames' \in Seq(Frame) /\ f \in Frame /\ f = frames[1] /\ 1 \in DOMAIN frames
        /\ \A i \in DOMAIN frames' : i + 1 \in DOMAIN frames /\ frames'[i] = frames[i + 1]
    BY <1>0, <1>1, Received DEF TypeOK
  <1>3. page \in Page
    BY <1>0 DEF TypeOK
  <1>4. page' \in Page
    <2>1. f.decision \in Nat /\ f.token \in Token
      BY <1>2 DEF Frame
    <2>2. CASE ShowState(f)
      BY <1>3, <2>1, <2>2 DEF ShowState, Page, None
    <2>3. CASE ShowStatus(f)
      BY <1>3, <2>1, <2>3 DEF ShowStatus, Page
    <2>4. CASE page' = [page EXCEPT !.overlay = TRUE]
      BY <1>3, <2>4 DEF Page
    <2> QED
      BY <1>1, <2>2, <2>3, <2>4
  <1>5. TypeOK' /\ TableInv'
    BY <1>0, <1>1, <1>2, <1>4 DEF ShowFrame, TypeOK, TableInv
  <1>6. <<f.decision, f.token>> \in Names /\ <<page.decision, page.token>> \in Names
    BY <1>2 DEF Names, FrameNames, PageName
  <1>7. Names' \subseteq Names
    <2>1. FrameNames' \subseteq FrameNames
      BY <1>2 DEF FrameNames
    <2>2. PageName' \subseteq Names
      BY <1>1, <1>3, <1>6 DEF PageName, ShowState, ShowStatus, Page
    <2> QED
      BY <1>1, <2>1, <2>2 DEF Names, NoName, TableName, CommandNames, WorkerName, SearchName, UpdateNames
  <1>8. NamesInv'
    BY <1>0, <1>1, <1>7, NamesPassedOn
  <1>9. DockInv'
    <2>1. CASE f.kind = "State" /\ ShowState(f)
      BY <1>3, <2>1 DEF DockInv, ShowState, Page
    <2>2. CASE f.kind = "Status" /\ ShowStatus(f)
      <3>1. f.token = page.token /\ page.token \notin reused => f.decision = page.decision
        BY <1>0, <1>6 DEF NamesInv, NamesAgree
      <3> QED
        BY <1>0, <1>1, <1>3, <2>2, <3>1 DEF DockInv, ShowStatus, Page
    <2>3. CASE page' = [page EXCEPT !.overlay = TRUE]
      BY <1>0, <1>1, <1>3, <2>3 DEF DockInv, Page
    <2> QED
      BY <1>1, <2>1, <2>2, <2>3
  <1>10. Seen' \subseteq Seen
    <2>1. page'.solved \in {None, page.solved} \/ (f.kind = "Status" /\ page'.solved = f.decision)
      BY <1>1, <1>3 DEF ShowState, ShowStatus, Page
    <2>2. page'.solved \in Seen
      BY <1>2, <2>1 DEF Seen
    <2>3. \A i \in DOMAIN frames' : frames'[i].kind = "Status" => frames'[i].decision \in Seen
      BY <1>2 DEF Seen
    <2>4. \A i \in DOMAIN clicks' : Qualifies(i)' => clicks'[i].shown \in Seen
      BY <1>1 DEF Seen, Qualifies
    <2> QED
      BY <2>2, <2>3, <2>4 DEF Seen
  <1>11. OrderInv'
    BY <1>0, <1>1, <1>10, LineStays DEF OrderInv
  <1> QED
    BY <1>5, <1>8, <1>9, <1>11 DEF IInv

LEMMA ClickKeepsIInv == ASSUME IInv, Click PROVE IInv'
  <1>0. TypeOK /\ TableInv /\ NamesInv /\ DockInv /\ OrderInv
    BY DEF IInv
  <1>1. UNCHANGED <<table, snapshot, commands, updates, worker, search, reused, frames>>
    BY DEF Click
  <1>3. page \in Page /\ page' \in Page
    BY <1>0 DEF TypeOK, Click, Page
  <1>4. /\ page'.decision = page.decision /\ page'.token = page.token
        /\ page'.open = page.open /\ page'.solved = page.solved
    BY <1>3 DEF Click, Page
  <1>5. PICK m \in ClickSet : /\ clicks' = Append(clicks, m)
                              /\ m.shown = page.decision
                              /\ m.kind = "ActionSubmit" => page.open
    <2>1. CASE page.open /\ clicks' = Append(clicks, [kind |-> "ActionSubmit", shown |-> page.decision])
      <3>1. [kind |-> "ActionSubmit", shown |-> page.decision] \in ClickSet
        BY <1>3 DEF ClickSet, Page
      <3> QED
        BY <2>1, <3>1
    <2>2. CASE clicks' = Append(clicks, [kind |-> "ReviewDone", shown |-> page.decision])
      <3>1. [kind |-> "ReviewDone", shown |-> page.decision] \in ClickSet
        BY <1>3 DEF ClickSet, Page
      <3> QED
        BY <2>2, <3>1
    <2> QED
      BY <2>1, <2>2 DEF Click
  <1>6. /\ clicks' \in Seq(ClickSet) /\ DOMAIN clicks' = 1 .. Len(clicks) + 1
        /\ DOMAIN clicks = 1 .. Len(clicks) /\ Len(clicks) \in Nat
        /\ \A i \in DOMAIN clicks : clicks'[i] = clicks[i]
        /\ clicks'[Len(clicks) + 1] = m
    BY <1>0, <1>5, Sent DEF TypeOK
  <1>7. TypeOK' /\ TableInv'
    BY <1>0, <1>1, <1>3, <1>6 DEF Click, TypeOK, TableInv
  <1>8. Names' = Names
    BY <1>1, <1>4 DEF Names, NoName, TableName, CommandNames, WorkerName, SearchName,
       UpdateNames, FrameNames, PageName
  <1>9. NamesInv' /\ DockInv'
    BY <1>0, <1>1, <1>4, <1>8, NamesPassedOn DEF DockInv
  <1>10. <<page.decision, page.token>> \in Names
    BY DEF Names, PageName
  <1>11. m.shown <= table.asked
    BY <1>0, <1>5, <1>10 DEF NamesInv, Past
  <1>12. Seen' \subseteq Seen
    <2>1. \A i \in DOMAIN clicks : Qualifies(i)' => clicks'[i].shown \in Seen
      BY <1>1, <1>6 DEF Seen, Qualifies
    <2>2. ASSUME NEW i \in DOMAIN clicks', i = Len(clicks) + 1, Qualifies(i)'
          PROVE  clicks'[i].shown \in Seen
      <3>0. SUFFICES ASSUME m.kind = "ActionSubmit", m.shown = table.decision, ~table.review,
                          decision_token(table) \notin reused
                   PROVE  m.shown \in Seen
        BY <1>1, <1>6, <2>2 DEF Qualifies
      <3>1. page.token = decision_token(table)
        BY <1>0, <1>5, <1>10, <3>0 DEF NamesInv, OneName
      <3>2. page.solved = page.decision
        BY <1>0, <1>5, <3>0, <3>1 DEF DockInv
      <3> QED
        BY <1>5, <3>2 DEF Seen
    <2>3. \A i \in DOMAIN clicks' : Qualifies(i)' => clicks'[i].shown \in Seen
      BY <1>6, <2>1, <2>2
    <2> QED
      BY <1>1, <1>4, <2>3 DEF Seen
  <1>13. \A i \in DOMAIN clicks' : clicks'[i].shown <= table.asked
    BY <1>0, <1>6, <1>11 DEF OrderInv
  <1>14. OrderInv'
    BY <1>0, <1>1, <1>12, <1>13, LineStays
  <1> QED
    BY <1>7, <1>9, <1>14 DEF IInv

(***************************************************************************)
(* The table moves on: a submission, a review confirmed, a new hand.       *)
(***************************************************************************)
LEMMA TableMovesOn ==
  ASSUME IInv, UNCHANGED <<snapshot, alive, updates, page, worker, search>>,
         table' \in Table, TableInv', loop' \in {"Select", "Pause", "Closed"},
         reused' \in SUBSET Token, reused \subseteq reused',
         table.asked <= table'.asked, UpTo(Stamp(table), Stamp(table')),
         UNCHANGED clicks \/ (clicks # <<>> /\ clicks' = Tail(clicks)),
         frames' \in Seq(Frame),
         \A i \in DOMAIN frames' : frames'[i] \in Range(frames) \cup {Overlay, StateFrame(table')},
         \/ UNCHANGED commands
         \/ /\ table'.decision # None
            /\ \E from \in Nat : commands' = Append(commands, Reshape(table', from)),
         \/ table'.decision = None
         \/ ~UpTo(Stamp(table'), Stamp(table))
         \/ decision_token(table') \in reused',
         \/ table'.review
         \/ table'.decision = None
         \/ table'.decision > table.asked
  PROVE  IInv'
  <1>0. TypeOK /\ TableInv /\ NamesInv /\ DockInv /\ OrderInv
    BY DEF IInv
  <1>1. /\ table'.decision \in Nat /\ table'.asked \in Nat /\ table.asked \in Nat
        /\ table'.decision \in {None, table'.asked}
        /\ table'.hand \in Nat /\ table'.street \in Nat
        /\ decision_token(table') \in Token
    BY <1>0, OrderIsTyped, TokenFacts DEF Table, TableInv
  <1>2. /\ clicks' \in Seq(ClickSet)
        /\ \A i \in DOMAIN clicks' : \E j \in DOMAIN clicks : clicks'[i] = clicks[j]
    <2>1. CASE UNCHANGED clicks
      BY <1>0, <2>1 DEF TypeOK
    <2>2. CASE clicks # <<>> /\ clicks' = Tail(clicks)
      BY <1>0, <2>2, Received DEF TypeOK
    <2> QED
      BY <2>1, <2>2
  <1>3. \A from \in Nat : /\ Reshape(table', from) \in Command
                          /\ Reshape(table', from).decision = table'.decision
                          /\ Reshape(table', from).token = decision_token(table')
    BY <1>1 DEF Reshape, Command
  <1>4. /\ commands' \in Seq(Command)
        /\ CommandNames' \subseteq CommandNames \cup TableName'
    <2>1. CASE UNCHANGED commands
      BY <1>0, <2>1 DEF TypeOK, CommandNames
    <2>2. ASSUME NEW from \in Nat, commands' = Append(commands, Reshape(table', from))
          PROVE  <1>4
      <3>1. /\ commands' \in Seq(Command) /\ DOMAIN commands' = 1 .. Len(commands) + 1
            /\ DOMAIN commands = 1 .. Len(commands) /\ Len(commands) \in Nat
            /\ \A i \in DOMAIN commands : commands'[i] = commands[i]
            /\ commands'[Len(commands) + 1] = Reshape(table', from)
        BY <1>0, <1>3, <2>2, Sent DEF TypeOK
      <3>2. \A i \in DOMAIN commands' : i \in DOMAIN commands \/ i = Len(commands) + 1
        BY <3>1
      <3>3. ASSUME NEW i \in DOMAIN commands'
            PROVE  <<commands'[i].decision, commands'[i].token>> \in CommandNames \cup TableName'
        BY <1>3, <3>1, <3>2 DEF CommandNames, TableName
      <3> QED
        BY <3>1, <3>3 DEF CommandNames
    <2> QED
      BY <2>1, <2>2
  <1>5. TypeOK'
    BY <1>0, <1>2, <1>4 DEF TypeOK
  <1>6. Names' \subseteq Names \cup TableName'
    <2>1. FrameNames' \subseteq FrameNames \cup NoName \cup TableName'
      <3>1. /\ Overlay.decision = None /\ Overlay.token = NoToken
            /\ StateFrame(table').decision = table'.decision
            /\ StateFrame(table').token = decision_token(table')
        BY DEF Overlay, StateFrame
      <3> QED
        BY <3>1 DEF FrameNames, NoName, TableName, Range
    <2> QED
      BY <1>4, <2>1 DEF Names, NoName, WorkerName, SearchName, UpdateNames, PageName
  <1>7. NamesInv'
    BY <1>0, <1>5, <1>6, TableRenamed
  <1>8. DockInv'
    BY <1>0 DEF DockInv
  <1>9. \A i \in DOMAIN clicks' : clicks'[i].shown \in Nat /\ clicks'[i].shown <= table.asked
    BY <1>0, <1>2, OrderIsTyped DEF OrderInv
  <1>10. Seen' \subseteq Seen
    <2>1. \A i \in DOMAIN clicks' : ~Qualifies(i)'
      BY <1>1, <1>9 DEF Qualifies
    <2>2. ASSUME NEW i \in DOMAIN frames', frames'[i].kind = "Status"
          PROVE  frames'[i].decision \in Seen
      <3>1. Overlay.kind # "Status" /\ StateFrame(table').kind # "Status"
        BY DEF Overlay, StateFrame
      <3>2. frames'[i] \in Range(frames)
        BY <2>2, <3>1
      <3>3. PICK j \in DOMAIN frames : frames'[i] = frames[j]
        BY <3>2 DEF Range
      <3> QED
        BY <2>2, <3>3 DEF Seen
    <2> QED
      BY <2>1, <2>2 DEF Seen
  <1>11. OrderInv'
    <2>1. \A i \in DOMAIN clicks' : clicks'[i].shown <= table'.asked
      BY <1>1, <1>9
    <2>2. \/ UNCHANGED commands
          \/ \E c \in Command : /\ commands' = Append(commands, c)
                                /\ table.asked <= c.decision /\ c.decision <= table'.asked
      BY <1>1, <1>3
    <2> QED
      BY <1>0, <1>10, <2>1, <2>2, LineMovesOn
  <1> QED
    BY <1>5, <1>7, <1>8, <1>11 DEF IInv

\* A table with other values in it.
LEMMA TableReviewed ==
  ASSUME NEW t \in Table, NEW n \in Nat
  PROVE  [t EXCEPT !.action_no = n, !.review = TRUE] \in Table
  BY DEF Table

LEMMA TableOver ==
  ASSUME NEW t \in Table, NEW n \in Nat
  PROVE  [t EXCEPT !.decision = None, !.action_no = n, !.review = FALSE] \in Table
  BY DEF Table, None

LEMMA TableAsks ==
  ASSUME NEW t \in Table, NEW d \in Nat, NEW n \in Nat, NEW s \in Nat
  PROVE  [t EXCEPT !.decision = d, !.asked = d, !.action_no = n, !.street = s, !.review = FALSE] \in Table
  BY DEF Table

LEMMA TableDeals ==
  ASSUME NEW t \in Table, NEW h \in Nat
  PROVE  [t EXCEPT !.hand = h, !.street = 0] \in Table
  BY DEF Table

LEMMA TableAsksFirst ==
  ASSUME NEW t \in Table, NEW d \in Nat
  PROVE  [t EXCEPT !.decision = d, !.asked = d] \in Table
  BY DEF Table

\* What a submission or a confirmation leaves on the table: no decision, or a
\* new one, whose token is new unless it is asked on the same street with no
\* submission counted since.
LEMMA PlayedFacts ==
  ASSUME NEW t \in Table, NEW n \in {t.action_no, t.action_no + 1}, NEW u \in Played(t, n)
  PROVE  /\ u \in Table /\ u.hand = t.hand /\ t.asked <= u.asked /\ UpTo(Stamp(t), Stamp(u))
         /\ \/ u.decision = None
            \/ u.decision = u.asked /\ u.decision > t.asked
         /\ \/ u.decision = None
            \/ ~UpTo(Stamp(u), Stamp(t))
            \/ n = t.action_no /\ Stamp(u) = Stamp(t)
         /\ u.review => u.decision # None
  <1>0. /\ t.decision \in Nat /\ t.asked \in Nat /\ t.hand \in Nat /\ t.action_no \in Nat
        /\ t.street \in Nat /\ t.review \in BOOLEAN /\ n \in Nat
        /\ n = t.action_no \/ n = t.action_no + 1
    BY DEF Table
  <1> DEFINE Asked(v, m, s, r) ==
               /\ v \in Table /\ v.hand = t.hand /\ v.decision = t.asked + 1 /\ v.asked = t.asked + 1
               /\ v.action_no = m /\ v.street = s /\ (v.review <=> r)
  <1>1. ASSUME NEW v \in NextDecision(t, n)
        PROVE  \E s \in {t.street, t.street + 1} : Asked(v, n, s, FALSE)
    <2>1. PICK s \in {t.street, t.street + 1} :
            v = [t EXCEPT !.decision = t.asked + 1, !.asked = t.asked + 1, !.action_no = n,
                          !.street = s, !.review = FALSE]
      BY DEF NextDecision
    <2>2. s \in Nat
      BY <1>0
    <2>3. v \in Table
      <3>1. t.asked + 1 \in Nat
        BY <1>0
      <3> QED
        BY <1>0, <2>1, <2>2, <3>1, TableAsks
    <2>4. Asked(v, n, s, FALSE)
      BY <1>0, <2>1, <2>3 DEF Table
    <2> QED
      BY <2>4
  <1>2. CASE u = HandOver(t, n)
    <2>0. u \in Table
      BY <1>0, <1>2, TableOver DEF HandOver
    <2>1. /\ u \in Table /\ u.hand = t.hand /\ u.asked = t.asked /\ u.decision = None
          /\ u.action_no = n /\ u.street = t.street /\ u.review = FALSE
      BY <1>0, <1>2, <2>0 DEF HandOver, Table, None
    <2> QED
      BY <1>0, <2>1 DEF UpTo, Stamp
  <1>3. CASE u \in NextDecision(t, n)
    <2>1. PICK s \in {t.street, t.street + 1} : Asked(u, n, s, FALSE)
      BY <1>1, <1>3
    <2> QED
      BY <1>0, <2>1 DEF UpTo, Stamp, None
  <1>4. CASE \E v \in NextDecision(t, n) :
               v.street = t.street /\ u = [v EXCEPT !.action_no = n + 1, !.review = TRUE]
    <2>1. PICK v \in NextDecision(t, n) :
            v.street = t.street /\ u = [v EXCEPT !.action_no = n + 1, !.review = TRUE]
      BY <1>4
    <2>2. Asked(v, n, t.street, FALSE)
      BY <1>1, <2>1
    <2>3. u \in Table
      <3>1. v \in Table /\ n + 1 \in Nat
        BY <1>0, <2>2
      <3> QED
        BY <2>1, <3>1, TableReviewed
    <2>4. Asked(u, n + 1, t.street, TRUE)
      BY <1>0, <2>1, <2>2, <2>3 DEF Table
    <2> QED
      BY <1>0, <2>4 DEF UpTo, Stamp, None
  <1> QED
    BY <1>2, <1>3, <1>4 DEF Played

\* A submission that is refused, held back or applied, and a review confirmed.
LEMMA HandleMessageKeepsIInv == ASSUME IInv, HandleMessage PROVE IInv'
  <1>0. /\ TypeOK /\ TableInv /\ OrderInv /\ table \in Table /\ frames \in Seq(Frame)
        /\ reused \in SUBSET Token /\ clicks # <<>> /\ clicks' = Tail(clicks)
        /\ loop = "Select"
    BY DEF IInv, TypeOK, HandleMessage
  <1>00. /\ table.decision \in Nat /\ table.asked \in Nat /\ table.hand \in Nat
         /\ table.action_no \in Nat /\ table.street \in Nat
         /\ table.decision \in {None, table.asked} /\ table.hand >= 1
    BY <1>0 DEF Table, TableInv
  <1>1. CASE RejectSubmission
    <2>1. UNCHANGED <<table, loop, snapshot, alive, commands, updates, frames, page, worker,
                      search, reused>>
      BY <1>1 DEF RejectSubmission
    <2>2. \A i \in DOMAIN frames : frames[i] \in Range(frames)
      BY DEF Range
    <2>3. /\ clicks' \in Seq(ClickSet)
          /\ \A i \in DOMAIN clicks' : i + 1 \in DOMAIN clicks /\ clicks'[i] = clicks[i + 1]
      BY <1>0, Received DEF TypeOK
    <2>4. TypeOK' /\ TableInv'
      BY <1>0, <2>1, <2>3 DEF TypeOK, TableInv
    <2>5. Names' = Names
      BY <2>1 DEF Names, NoName, TableName, CommandNames, WorkerName, SearchName,
         UpdateNames, FrameNames, PageName
    <2>6. NamesInv' /\ DockInv'
      BY <2>1, <2>5, NamesPassedOn DEF IInv, DockInv
    <2>7. Seen' \subseteq Seen
      <3>1. \A i \in DOMAIN clicks' : Qualifies(i)' => clicks'[i].shown \in Seen
        BY <2>1, <2>3 DEF Seen, Qualifies
      <3> QED
        BY <2>1, <3>1 DEF Seen
    <2>8. \A i \in DOMAIN clicks' : clicks'[i].shown <= table.asked
      BY <1>0, <2>3 DEF OrderInv
    <2>9. OrderInv'
      BY <1>0, <2>1, <2>7, <2>8, LineStays
    <2> QED
      BY <2>4, <2>6, <2>9 DEF IInv
  <1>2. CASE table.decision # None /\ Intercept
    <2>1. /\ table' = [table EXCEPT !.action_no = table.action_no + 1, !.review = TRUE]
          /\ frames' = Append(frames, Overlay)
          /\ commands' = Append(commands, Reshape(table', table.decision))
          /\ UNCHANGED <<loop, snapshot, alive, updates, page, worker, search, reused>>
      BY <1>2 DEF Intercept
    <2>2. /\ table' \in Table /\ table'.decision = table.decision /\ table'.asked = table.asked
          /\ table'.hand = table.hand /\ table'.action_no = table.action_no + 1
          /\ table'.street = table.street /\ table'.review
      <3>1. table' \in Table
        <4>1. table.action_no + 1 \in Nat
          BY <1>00
        <4> QED
          BY <1>0, <2>1, <4>1, TableReviewed
      <3> QED
        BY <1>0, <1>00, <2>1, <3>1 DEF Table
    <2>3. TableInv' /\ UpTo(Stamp(table), Stamp(table')) /\ ~UpTo(Stamp(table'), Stamp(table))
      BY <1>0, <1>00, <1>2, <2>1, <2>2 DEF TableInv, UpTo, Stamp
    <2>4. /\ frames' \in Seq(Frame)
          /\ \A i \in DOMAIN frames' : frames'[i] \in Range(frames) \cup {Overlay, StateFrame(table')}
      <3>1. Overlay \in Frame
        BY <1>0, TokenFacts DEF Overlay, Frame, Phase, None
      <3>2. /\ frames' \in Seq(Frame) /\ DOMAIN frames' = 1 .. Len(frames) + 1
            /\ DOMAIN frames = 1 .. Len(frames) /\ Len(frames) \in Nat
            /\ \A i \in DOMAIN frames : frames'[i] = frames[i]
            /\ frames'[Len(frames) + 1] = Overlay
        BY <1>0, <2>1, <3>1, Sent
      <3>3. \A i \in DOMAIN frames' : i \in DOMAIN frames \/ i = Len(frames) + 1
        BY <3>2
      <3> QED
        BY <3>2, <3>3 DEF Range
    <2>5. table'.asked >= table.asked
      BY <1>00, <2>2
    <2> QED
      BY <1>0, <1>00, <1>2, <2>1, <2>2, <2>3, <2>4, <2>5, TableMovesOn
  <1>3. ASSUME NEW n \in {table.action_no, table.action_no + 1}, NEW t \in Played(table, n), Publish(t),
               UNCHANGED <<snapshot, alive, updates, page, worker, search>>,
               reused' \in SUBSET Token, reused \subseteq reused',
               n = table.action_no /\ Stamp(t) = Stamp(table) /\ t.decision # None
                 => decision_token(t) \in reused'
        PROVE  IInv'
    <2>1. /\ table' = t /\ table' \in Table /\ table'.hand = table.hand /\ table.asked <= table'.asked
          /\ UpTo(Stamp(table), Stamp(table'))
          /\ table'.decision = None \/ (table'.decision = table'.asked /\ table'.decision > table.asked)
          /\ \/ table'.decision = None
             \/ ~UpTo(Stamp(table'), Stamp(table))
             \/ n = table.action_no /\ Stamp(table') = Stamp(table)
          /\ table'.review => table'.decision # None
      BY <1>0, <1>3, PlayedFacts DEF Publish
    <2>2. TableInv' /\ loop' \in {"Select", "Pause", "Closed"}
      BY <1>0, <1>00, <1>3, <2>1 DEF TableInv, Publish
    <2>3. /\ frames' \in Seq(Frame)
          /\ \A i \in DOMAIN frames' : frames'[i] \in Range(frames) \cup {Overlay, StateFrame(table')}
      BY <1>0, <1>3, <2>1, Published DEF Publish
    <2>4. \/ UNCHANGED commands
          \/ /\ table'.decision # None
             /\ \E from \in Nat : commands' = Append(commands, Reshape(table', from))
      BY <1>00, <1>3, <2>1 DEF Publish
    <2>5. \/ table'.decision = None
          \/ ~UpTo(Stamp(table'), Stamp(table))
          \/ decision_token(table') \in reused'
      BY <1>3, <2>1
    <2> QED
      BY <1>0, <1>3, <2>1, <2>2, <2>3, <2>4, <2>5, TableMovesOn
  <1>4. CASE Apply
    <2>1. PICK t \in Played(table, table.action_no + 1) : Publish(t)
      BY <1>4 DEF Apply
    <2>2. UNCHANGED <<snapshot, alive, updates, page, worker, search, reused>>
      BY <1>4 DEF Apply
    <2>3. table.action_no + 1 # table.action_no
      BY <1>00
    <2> QED
      BY <1>0, <1>3, <2>1, <2>2, <2>3
  <1>5. CASE ConfirmReview
    <2>1. PICK t \in Played(table, table.action_no) :
            /\ Publish(t)
            /\ reused' = IF decision_token(t) = decision_token(table)
                         THEN reused \cup {decision_token(t)} ELSE reused
      BY <1>5 DEF ConfirmReview
    <2>2. UNCHANGED <<snapshot, alive, updates, page, worker, search>>
      BY <1>5 DEF ConfirmReview
    <2>3. t \in Table
      BY <1>0, <2>1, PlayedFacts
    <2>4. reused' \in SUBSET Token /\ reused \subseteq reused'
      BY <1>0, <2>1, <2>3, TokenFacts
    <2>5. Stamp(t) = Stamp(table) /\ t.decision # None => decision_token(t) \in reused'
      <3>1. table.decision # None
        BY <1>0, <1>5 DEF ConfirmReview, TableInv
      <3> QED
        BY <1>0, <2>1, <2>3, <3>1, TokenFacts
    <2> QED
      BY <1>3, <2>1, <2>2, <2>4, <2>5
  <1> QED
    BY <1>1, <1>2, <1>4, <1>5 DEF HandleMessage

LEMMA DealOnKeepsIInv == ASSUME IInv, DealOn PROVE IInv'
  <1>0. /\ TypeOK /\ TableInv /\ table \in Table /\ frames \in Seq(Frame)
        /\ reused \in SUBSET Token /\ loop = "Pause"
        /\ UNCHANGED <<snapshot, alive, updates, clicks, page, worker, search, reused>>
    BY DEF IInv, TypeOK, DealOn
  <1>1. /\ table.decision = None /\ ~table.review
        /\ table.asked \in Nat /\ table.hand \in Nat /\ table.hand >= 1
        /\ table.action_no \in Nat /\ table.street \in Nat
    BY <1>0 DEF TableInv, Table
  <1> DEFINE t == [table EXCEPT !.hand = table.hand + 1, !.street = 0]
             u == [t EXCEPT !.decision = t.asked + 1, !.asked = t.asked + 1]
  <1>2. /\ t \in Table /\ t.decision = None /\ t.asked = table.asked /\ t.hand = table.hand + 1
        /\ t.action_no = table.action_no /\ t.street = 0 /\ ~t.review
    <2>1. table.hand + 1 \in Nat
      BY <1>1
    <2>2. t \in Table
      BY <1>0, <2>1, TableDeals
    <2> QED
      BY <1>0, <1>1, <2>2 DEF Table
  <1>3. /\ u \in Table /\ u.decision = table.asked + 1 /\ u.asked = table.asked + 1
        /\ u.hand = table.hand + 1 /\ u.action_no = table.action_no /\ u.street = 0 /\ ~u.review
    <2> HIDE DEF t
    <2>1. t.asked + 1 \in Nat
      BY <1>1, <1>2
    <2>2. u \in Table
      BY <1>2, <2>1, TableAsksFirst
    <2> QED
      BY <1>1, <1>2, <2>2 DEF Table
  <1>4. ASSUME NEW v \in Table, v.hand = table.hand + 1
        PROVE  UpTo(Stamp(table), Stamp(v)) /\ ~UpTo(Stamp(v), Stamp(table))
    BY <1>1, <1>4 DEF UpTo, Stamp
  <1>5. ASSUME NEW v \in Table, table' = v, frames' = Append(frames, StateFrame(v))
        PROVE  /\ frames' \in Seq(Frame)
               /\ \A i \in DOMAIN frames' : frames'[i] \in Range(frames) \cup {Overlay, StateFrame(table')}
    <2>1. StateFrame(v) \in Frame
      BY TokenFacts DEF StateFrame, Frame, Phase, Table
    <2>2. /\ frames' \in Seq(Frame) /\ DOMAIN frames' = 1 .. Len(frames) + 1
          /\ DOMAIN frames = 1 .. Len(frames) /\ Len(frames) \in Nat
          /\ \A i \in DOMAIN frames : frames'[i] = frames[i]
          /\ frames'[Len(frames) + 1] = StateFrame(v)
      BY <1>0, <1>5, <2>1, Sent
    <2>3. \A i \in DOMAIN frames' : i \in DOMAIN frames \/ i = Len(frames) + 1
      BY <2>2
    <2> QED
      BY <1>5, <2>2, <2>3 DEF Range
  <1> HIDE DEF t, u
  <1>6. CASE table' = u /\ frames' = Append(frames, StateFrame(u))
             /\ commands' = Append(commands, Reshape(u, None)) /\ loop' = "Select"
    <2>1. TableInv' /\ table'.decision > table.asked /\ table'.decision # None
      BY <1>1, <1>3, <1>6 DEF TableInv, None
    <2>2. table.asked <= table'.asked /\ \E from \in Nat : commands' = Append(commands, Reshape(table', from))
      BY <1>1, <1>3, <1>6 DEF None
    <2> QED
      BY <1>0, <1>3, <1>4, <1>5, <1>6, <2>1, <2>2, TableMovesOn
  <1>7. CASE table' = t /\ frames' = Append(frames, StateFrame(t)) /\ UNCHANGED <<commands, loop>>
    <2>1. TableInv' /\ table'.decision = None /\ table.asked <= table'.asked
      BY <1>0, <1>1, <1>2, <1>7 DEF TableInv
    <2> QED
      BY <1>0, <1>2, <1>4, <1>5, <1>7, <2>1, TableMovesOn
  <1> QED
    BY <1>6, <1>7 DEF DealOn, t, u

\* The end of the connection leaves nothing under way.
LEMMA LeaveKeepsIInv == ASSUME IInv, Leave PROVE IInv'
  <1>0. /\ TypeOK /\ TableInv /\ NamesInv
        /\ UNCHANGED <<table, reused>> /\ loop' = "Closed" /\ page' = NoPage
        /\ worker' = [at |-> "Ended", pending |-> NoReshape] /\ search' = NoSearch
        /\ snapshot' = None /\ alive' = FALSE
        /\ commands' = <<>> /\ updates' = <<>> /\ frames' = <<>> /\ clicks' = <<>>
    BY DEF IInv, Leave
  <1>1. NoReshape \in Command /\ NoSearch \in Search /\ NoPage \in Page
    BY DEF NoReshape, Command, NoSearch, Search, NoPage, Page, NoToken, Token, None, Phase
  <1>2. TypeOK' /\ TableInv'
    <2>1. worker' \in [at : {"Top", "Work", "Idle", "Ended"}, pending : Command]
      BY <1>0, <1>1
    <2>2. /\ commands' \in Seq(Command) /\ updates' \in Seq(StatusSet)
          /\ frames' \in Seq(Frame) /\ clicks' \in Seq(ClickSet)
      BY <1>0
    <2>3. alive' \in BOOLEAN /\ snapshot' \in Nat /\ loop' \in {"Select", "Pause", "Closed"}
      BY <1>0 DEF None
    <2>4. table' \in Table /\ reused' \in SUBSET Token /\ page' \in Page /\ search' \in Search
      BY <1>0, <1>1 DEF TypeOK
    <2>5. TypeOK'
      BY <2>1, <2>2, <2>3, <2>4 DEF TypeOK
    <2> QED
      BY <1>0, <2>5 DEF TableInv
  <1>3. Names' \subseteq Names
    <2>1. /\ CommandNames' = {} /\ UpdateNames' = {} /\ FrameNames' = {}
      BY <1>0 DEF CommandNames, UpdateNames, FrameNames
    <2>2. WorkerName' = NoName /\ SearchName' = NoName /\ PageName' = NoName
      BY <1>0 DEF WorkerName, SearchName, PageName, NoName, NoReshape, NoSearch, NoPage
    <2> QED
      BY <1>0, <2>1, <2>2 DEF Names, NoName, TableName
  <1>4. NamesInv' /\ DockInv'
    BY <1>0, <1>3, NamesPassedOn DEF DockInv, NoPage
  <1>5. Seen' = {0} /\ Reported' = {0}
    BY <1>0 DEF Seen, Reported, NoPage, None
  <1>6. search'.root = 0 /\ table.asked \in Nat /\ DOMAIN updates' = {} /\ DOMAIN commands' = {}
        /\ DOMAIN clicks' = {} /\ worker'.pending = NoReshape
    BY <1>0, OrderIsTyped DEF NoSearch, None
  <1>7. OrderInv'
    BY <1>0, <1>5, <1>6 DEF OrderInv, ReportsInLine, UpdatesInLine, WorkerInLine, CommandsInLine, None
  <1> QED
    BY <1>2, <1>4, <1>7 DEF IInv

(***************************************************************************)
(* The statuses.                                                           *)
(***************************************************************************)
LEMMA ForwardStatusKeepsIInv == ASSUME IInv, ForwardStatus PROVE IInv'
  <1> DEFINE u == Head(updates)
  <1>0. /\ TypeOK /\ TableInv /\ NamesInv /\ DockInv /\ OrderInv
        /\ UNCHANGED <<table, loop, alive, commands, clicks, page, worker, search, reused>>
        /\ updates # <<>> /\ updates' = Tail(updates)
        /\ snapshot' = u.root /\ frames' = Append(frames, StatusFrame(u))
    BY DEF IInv, ForwardStatus
  <1>1. /\ updates' \in Seq(StatusSet) /\ u \in StatusSet /\ u = updates[1] /\ 1 \in DOMAIN updates
        /\ \A i \in DOMAIN updates' : i \in Nat /\ i + 1 \in DOMAIN updates /\ updates'[i] = updates[i + 1]
    BY <1>0, Received DEF TypeOK
  <1>2. u.root \in Nat /\ StatusFrame(u) \in Frame /\ StatusFrame(u).kind = "Status"
        /\ StatusFrame(u).decision = u.root /\ StatusFrame(u).token = u.token
    BY <1>1 DEF StatusSet, StatusFrame, Frame
  <1>3. /\ frames' \in Seq(Frame) /\ DOMAIN frames' = 1 .. Len(frames) + 1
        /\ DOMAIN frames = 1 .. Len(frames) /\ Len(frames) \in Nat
        /\ \A i \in DOMAIN frames : frames'[i] = frames[i]
        /\ frames'[Len(frames) + 1] = StatusFrame(u)
    BY <1>0, <1>2, Sent DEF TypeOK
  <1>4. \A i \in DOMAIN frames' : i \in DOMAIN frames \/ i = Len(frames) + 1
    BY <1>3
  <1>5. TypeOK' /\ TableInv'
    BY <1>0, <1>1, <1>2, <1>3 DEF TypeOK, TableInv
  <1>6. Names' \subseteq Names
    <2>1. <<u.root, u.token>> \in UpdateNames
      BY <1>1 DEF UpdateNames
    <2>2. UpdateNames' \subseteq UpdateNames
      BY <1>1 DEF UpdateNames
    <2>3. FrameNames' \subseteq FrameNames \cup UpdateNames
      BY <1>2, <1>3, <1>4, <2>1 DEF FrameNames
    <2> QED
      BY <1>0, <2>2, <2>3 DEF Names, NoName, TableName, CommandNames, WorkerName, SearchName, PageName
  <1>7. NamesInv' /\ DockInv'
    BY <1>0, <1>6, NamesPassedOn DEF DockInv
  <1>8. Seen' \subseteq Seen \cup {u.root}
    <2>1. \A i \in DOMAIN clicks' : Qualifies(i)' => clicks'[i].shown \in Seen
      BY <1>0 DEF Seen, Qualifies
    <2>2. \A i \in DOMAIN frames' : frames'[i].kind = "Status" => frames'[i].decision \in Seen \cup {u.root}
      BY <1>2, <1>3, <1>4 DEF Seen
    <2> QED
      BY <1>0, <2>1, <2>2 DEF Seen
  <1>9. \A x \in Seen : x <= u.root
    BY <1>0, <1>1 DEF OrderInv, ReportsInLine, Reported
  <1>10. /\ u.root <= search.root
         /\ \A i \in DOMAIN updates' : u.root <= updates'[i].root
    <2>1. \A i \in DOMAIN updates' : 1 <= i + 1
      BY <1>1
    <2> QED
      BY <1>0, <1>1, <2>1 DEF OrderInv, UpdatesInLine
  <1>11. ReportsInLine'
    <2>1. \A x \in Seen' : x <= snapshot'
      BY <1>0, <1>2, <1>8, <1>9
    <2>2. Reported' \subseteq Reported \cup {u.root}
      BY <1>0, <1>8 DEF Reported
    <2>3. \A x \in Reported : x <= search.root /\ \A i \in DOMAIN updates' : x <= updates'[i].root
      BY <1>0, <1>1 DEF OrderInv, ReportsInLine
    <2> QED
      BY <1>0, <1>10, <2>1, <2>2, <2>3 DEF ReportsInLine
  <1>12. UpdatesInLine'
    <2>1. ASSUME NEW i \in DOMAIN updates', NEW j \in DOMAIN updates', i <= j
          PROVE  updates'[i].root <= updates'[j].root
      <3>1. i + 1 <= j + 1
        BY <1>1, <2>1
      <3> QED
        BY <1>0, <1>1, <3>1 DEF OrderInv, UpdatesInLine
    <2> QED
      BY <1>0, <1>1, <2>1 DEF OrderInv, UpdatesInLine
  <1>13. OrderInv'
    BY <1>0, <1>11, <1>12 DEF OrderInv, WorkerInLine, CommandsInLine
  <1> QED
    BY <1>5, <1>7, <1>13 DEF IInv

\* The solver is noticed to have ended: there is no snapshot any more.
LEMMA NoticeEndedKeepsIInv == ASSUME IInv, NoticeEnded PROVE IInv'
  <1>0. /\ TypeOK /\ TableInv /\ NamesInv /\ DockInv /\ OrderInv
        /\ UNCHANGED <<table, loop, commands, updates, frames, clicks, page, worker, search, reused>>
        /\ snapshot' = None /\ alive' = FALSE
    BY DEF IInv, NoticeEnded
  <1>1. TypeOK' /\ TableInv'
    BY <1>0 DEF TypeOK, TableInv, None
  <1>2. Names' = Names
    BY <1>0 DEF Names, NoName, TableName, CommandNames, WorkerName, SearchName,
       UpdateNames, FrameNames, PageName
  <1>3. NamesInv' /\ DockInv'
    BY <1>0, <1>2, NamesPassedOn DEF DockInv
  <1>4. Seen' = Seen /\ Reported' \subseteq Reported
    <2>1. Seen' = Seen
      BY <1>0 DEF Seen, Qualifies
    <2> QED
      BY <1>0, <2>1 DEF Reported, Seen
  <1>5. OrderInv'
    BY <1>0, <1>4 DEF OrderInv, ReportsInLine, UpdatesInLine, WorkerInLine, CommandsInLine
  <1> QED
    BY <1>1, <1>3, <1>5 DEF IInv

(***************************************************************************)
(* The worker.                                                             *)
(***************************************************************************)
\* The worker takes a command that no later one overtakes, or none, and
\* leaves those after it.
LEMMA WorkerTakes ==
  ASSUME IInv, NEW c \in Command, NEW at \in {"Top", "Work", "Idle", "Ended"},
         UNCHANGED <<table, loop, snapshot, alive, updates, frames, clicks, page, search, reused>>,
         worker' = [at |-> at, pending |-> c],
         c = NoReshape \/ \E i \in DOMAIN commands : c = commands[i],
         commands' \in Seq(Command),
         \A i \in DOMAIN commands' : \E j \in DOMAIN commands :
           commands'[i] = commands[j] /\ (c # NoReshape => c.decision <= commands[j].decision),
         \A i, j \in DOMAIN commands' : i <= j => commands'[i].decision <= commands'[j].decision
  PROVE  IInv'
  <1>0. TypeOK /\ TableInv /\ NamesInv /\ DockInv /\ OrderInv
    BY DEF IInv
  <1>1. TypeOK' /\ TableInv'
    BY <1>0 DEF TypeOK, TableInv
  <1>2. Names' \subseteq Names
    <2>1. CommandNames' \subseteq CommandNames
      BY DEF CommandNames
    <2>2. WorkerName' \subseteq NoName \cup CommandNames
      BY DEF WorkerName, NoName, CommandNames, NoReshape
    <2> QED
      BY <2>1, <2>2 DEF Names, NoName, TableName, SearchName, UpdateNames, FrameNames, PageName
  <1>3. NamesInv' /\ DockInv'
    BY <1>0, <1>2, NamesPassedOn DEF DockInv
  <1>4. Seen' = Seen /\ Reported' = Reported
    BY DEF Seen, Reported, Qualifies
  <1>5. ReportsInLine' /\ UpdatesInLine'
    BY <1>0, <1>4 DEF OrderInv, ReportsInLine, UpdatesInLine
  <1>6. WorkerInLine'
    BY <1>0 DEF OrderInv, WorkerInLine, CommandsInLine
  <1>7. CommandsInLine'
    BY <1>0 DEF OrderInv, CommandsInLine
  <1>8. OrderInv'
    BY <1>0, <1>5, <1>6, <1>7 DEF OrderInv
  <1> QED
    BY <1>1, <1>3, <1>8 DEF IInv

LEMMA TakeCommandsKeepsIInv == ASSUME IInv, TakeCommands PROVE IInv'
  <1>0. /\ commands \in Seq(Command) /\ commands' = <<>>
        /\ UNCHANGED <<table, loop, snapshot, alive, updates, frames, clicks, page, search, reused>>
    BY DEF IInv, TypeOK, TakeCommands, Take
  <1>1. commands' \in Seq(Command) /\ DOMAIN commands' = {}
    BY <1>0
  <1>2. CASE commands # <<>> /\ worker' = [at |-> "Work", pending |-> Last(commands)]
    <2>1. Last(commands) \in Command /\ \E i \in DOMAIN commands : Last(commands) = commands[i]
      BY <1>0, <1>2, LastOne
    <2> QED
      BY <1>0, <1>1, <1>2, <2>1, WorkerTakes
  <1>3. CASE worker' = [at |-> IF needs_work(search) THEN "Work" ELSE "Idle", pending |-> NoReshape]
    <2>1. NoReshape \in Command
      BY DEF NoReshape, Command, NoToken, Token, None
    <2> QED
      BY <1>0, <1>1, <1>3, <2>1, WorkerTakes
  <1> QED
    BY <1>2, <1>3 DEF TakeCommands, Take

LEMMA WakeUpKeepsIInv == ASSUME IInv, WakeUp PROVE IInv'
  <1> DEFINE c == Head(commands)
  <1>0. /\ commands \in Seq(Command) /\ commands # <<>> /\ commands' = Tail(commands)
        /\ worker' = [at |-> "Work", pending |-> c] /\ CommandsInLine
        /\ UNCHANGED <<table, loop, snapshot, alive, updates, frames, clicks, page, search, reused>>
    BY DEF IInv, TypeOK, WakeUp, OrderInv
  <1>1. /\ commands' \in Seq(Command) /\ c \in Command /\ c = commands[1] /\ 1 \in DOMAIN commands
        /\ \A i \in DOMAIN commands' :
             i \in Nat /\ i + 1 \in DOMAIN commands /\ commands'[i] = commands[i + 1]
    BY <1>0, Received
  <1>2. ASSUME NEW i \in DOMAIN commands'
        PROVE  /\ i + 1 \in DOMAIN commands /\ commands'[i] = commands[i + 1]
               /\ c.decision <= commands[i + 1].decision
    <2>1. 1 <= i + 1 /\ i + 1 \in DOMAIN commands
      BY <1>1
    <2> QED
      BY <1>0, <1>1, <2>1 DEF CommandsInLine
  <1>3. ASSUME NEW i \in DOMAIN commands', NEW j \in DOMAIN commands', i <= j
        PROVE  commands'[i].decision <= commands'[j].decision
    <2>1. i + 1 <= j + 1 /\ i + 1 \in DOMAIN commands /\ j + 1 \in DOMAIN commands
      BY <1>1, <1>3
    <2> QED
      BY <1>0, <1>1, <2>1 DEF CommandsInLine
  <1> HIDE DEF c
  <1> QED
    BY <1>0, <1>1, <1>2, <1>3, WorkerTakes

\* A command is worked on by the search of its decision, under its token.
LEMMA ReshapedFacts ==
  ASSUME NEW s \in Search, NEW c \in Command, NEW r \in Reshaped(s, c)
  PROVE  /\ r \in Search /\ r.root = c.decision /\ r.token = c.token
  <1>1. \A n \in RootAfter(s, c) : n = c.decision
    BY DEF RootAfter, Follow
  <1>2. PICK n \in RootAfter(s, c) :
          r = [root |-> n, token |-> c.token, hand |-> c.hand, street |-> c.street,
               phase |-> "Searching", chunks |-> 0]
    BY DEF Reshaped
  <1> QED
    BY <1>1, <1>2 DEF Search, Command, Phase

\* A chunk of work changes neither.
LEMMA ChunkFacts ==
  ASSUME NEW s \in Search, NEW r \in Chunk(s)
  PROVE  r \in Search /\ r.root = s.root /\ r.token = s.token
  <1>1. PICK p \in Phase : r = [s EXCEPT !.chunks = s.chunks + 1, !.phase = p]
    BY DEF Chunk, Phase
  <1>2. s.chunks + 1 \in Nat
    BY DEF Search
  <1> QED
    BY <1>1, <1>2 DEF Search

LEMMA FinishWorkKeepsIInv == ASSUME IInv, FinishWork PROVE IInv'
  <1> DEFINE c == worker.pending
             u == Status(search')
  <1>0. /\ TypeOK /\ TableInv /\ NamesInv /\ DockInv /\ OrderInv
        /\ UNCHANGED <<table, loop, snapshot, alive, commands, frames, clicks, page, reused>>
        /\ updates' = Append(updates, u) /\ worker' = [at |-> "Top", pending |-> NoReshape]
        /\ search \in Search /\ c \in Command
    BY DEF IInv, TypeOK, FinishWork
  <1>1. /\ search' \in Search
        /\ \/ search'.root = c.decision /\ search'.token = c.token
           \/ c = NoReshape /\ search'.root = search.root /\ search'.token = search.token
        /\ c = NoReshape => search'.root = search.root
    <2>1. CASE search = NoSearch
                 /\ search' = [root |-> c.decision, token |-> c.token, hand |-> c.hand,
                               street |-> c.street, phase |-> "Searching", chunks |-> 0]
      BY <1>0, <2>1 DEF Search, Command, Phase, NoSearch, NoReshape
    <2>2. CASE c = NoReshape /\ search' \in Chunk(search)
      BY <1>0, <2>2, ChunkFacts
    <2>3. ASSUME c # NoReshape, NEW s \in Reshaped(search, c), search' \in Chunk(s)
          PROVE  <1>1
      <3>1. s \in Search /\ s.root = c.decision /\ s.token = c.token
        BY <1>0, ReshapedFacts
      <3> QED
        BY <2>3, <3>1, ChunkFacts
    <2> QED
      BY <2>1, <2>2, <2>3 DEF FinishWork
  <1>2. /\ u \in StatusSet /\ u.root = search'.root /\ u.token = search'.token
    BY <1>1 DEF Status, StatusSet, Search
  <1>3. /\ updates' \in Seq(StatusSet) /\ DOMAIN updates' = 1 .. Len(updates) + 1
        /\ DOMAIN updates = 1 .. Len(updates) /\ Len(updates) \in Nat
        /\ \A i \in DOMAIN updates : updates'[i] = updates[i]
        /\ updates'[Len(updates) + 1] = u
    BY <1>0, <1>2, Sent DEF TypeOK
  <1>4. \A i \in DOMAIN updates' : i \in DOMAIN updates \/ i = Len(updates) + 1
    BY <1>3
  <1>5. NoReshape \in Command
    BY DEF NoReshape, Command, NoToken, Token, None
  <1>6. TypeOK' /\ TableInv'
    BY <1>0, <1>1, <1>3, <1>5 DEF TypeOK, TableInv
  <1>7. Names' \subseteq Names
    <2>1. <<search'.root, search'.token>> \in WorkerName \cup SearchName
      BY <1>1 DEF WorkerName, SearchName
    <2>2. UpdateNames' \subseteq UpdateNames \cup WorkerName \cup SearchName
      BY <1>2, <1>3, <1>4, <2>1 DEF UpdateNames
    <2>3. WorkerName' = NoName
      BY <1>0 DEF WorkerName, NoName, NoReshape
    <2>4. SearchName' \subseteq WorkerName \cup SearchName
      BY <2>1 DEF SearchName
    <2> QED
      BY <1>0, <2>2, <2>3, <2>4 DEF Names, NoName, TableName, CommandNames, FrameNames, PageName
  <1>8. NamesInv' /\ DockInv'
    BY <1>0, <1>7, NamesPassedOn DEF DockInv
  <1>9. Seen' = Seen /\ Reported' = Reported
    BY <1>0 DEF Seen, Reported, Qualifies
  <1>10. /\ search.root \in Nat /\ search'.root \in Nat /\ c.decision \in Nat
         /\ search.root <= search'.root /\ search'.root <= table.asked
    <2>1. search.root \in Nat /\ search'.root \in Nat /\ c.decision \in Nat
      BY <1>0, <1>1 DEF Search, Command
    <2>2. c # NoReshape => search'.root = c.decision
      BY <1>1
    <2>3. c = NoReshape => search'.root = search.root
      BY <1>1
    <2> QED
      BY <1>0, <2>1, <2>2, <2>3 DEF OrderInv, WorkerInLine
  <1>11. \A i \in DOMAIN updates : updates[i].root \in Nat /\ updates[i].root <= search'.root
    BY <1>0, <1>10, OrderIsTyped DEF OrderInv, UpdatesInLine
  <1>12. ReportsInLine'
    <2>1. Reported \subseteq Nat
      BY <1>0, OrderIsTyped DEF Reported
    <2>2. \A x \in Reported : x <= search'.root
      BY <1>0, <1>10, <2>1 DEF OrderInv, ReportsInLine
    <2>3. ASSUME NEW x \in Reported, NEW i \in DOMAIN updates'
          PROVE  x <= updates'[i].root
      BY <1>0, <1>2, <1>3, <1>4, <2>2 DEF OrderInv, ReportsInLine
    <2> QED
      BY <1>0, <1>9, <2>2, <2>3 DEF OrderInv, ReportsInLine
  <1>13. UpdatesInLine'
    <2>1. ASSUME NEW i \in DOMAIN updates', NEW j \in DOMAIN updates', i <= j
          PROVE  updates'[i].root <= updates'[j].root
      <3>1. CASE j \in DOMAIN updates
        <4>1. i \in DOMAIN updates
          BY <1>3, <2>1, <3>1
        <4> QED
          BY <1>0, <1>3, <2>1, <3>1, <4>1 DEF OrderInv, UpdatesInLine
      <3>2. CASE j = Len(updates) + 1
        BY <1>2, <1>3, <1>4, <1>10, <1>11, <3>2
      <3> QED
        BY <1>4, <3>1, <3>2
    <2>2. \A i \in DOMAIN updates' : updates'[i].root <= search'.root
      BY <1>2, <1>3, <1>4, <1>10, <1>11
    <2> QED
      BY <2>1, <2>2 DEF UpdatesInLine
  <1>14. WorkerInLine'
    BY <1>0, <1>10 DEF WorkerInLine
  <1>15. CommandsInLine'
    <2>1. \A i \in DOMAIN commands : search'.root <= commands[i].decision
      BY <1>0, <1>1 DEF OrderInv, CommandsInLine
    <2> QED
      BY <1>0, <2>1 DEF OrderInv, CommandsInLine
  <1>16. OrderInv'
    BY <1>0, <1>12, <1>13, <1>14, <1>15 DEF OrderInv
  <1> QED
    BY <1>6, <1>8, <1>16 DEF IInv

LEMMA WorkFailsKeepsIInv == ASSUME IInv, WorkFails PROVE IInv'
  <1>0. /\ UNCHANGED <<table, loop, snapshot, alive, commands, updates, frames, clicks, page,
                       search, reused>>
        /\ worker' = [at |-> "Ended", pending |-> NoReshape]
        /\ TypeOK /\ CommandsInLine
    BY DEF IInv, WorkFails, OrderInv
  <1>1. NoReshape \in Command
    BY DEF NoReshape, Command, NoToken, Token, None
  <1>2. commands' \in Seq(Command)
    BY <1>0 DEF TypeOK
  <1>3. \A i, j \in DOMAIN commands' : i <= j => commands'[i].decision <= commands'[j].decision
    BY <1>0 DEF CommandsInLine
  <1> QED
    BY <1>0, <1>1, <1>2, <1>3, WorkerTakes

\* Every step keeps the invariant.
LEMMA NextKeepsIInv == IInv /\ [Next]_vars => IInv'
  <1> SUFFICES ASSUME IInv, [Next]_vars
               PROVE  IInv'
    OBVIOUS
  <1>1. CASE UNCHANGED vars
    <2>1. TypeOK' /\ TableInv' /\ DockInv'
      BY <1>1 DEF IInv, vars, TypeOK, TableInv, DockInv
    <2>2. Names' = Names /\ Seen' = Seen
      BY <1>1 DEF vars, Names, NoName, TableName, CommandNames, WorkerName, SearchName,
         UpdateNames, FrameNames, PageName, Seen, Qualifies
    <2>3. NamesInv'
      BY <1>1, <2>2, NamesPassedOn DEF IInv, vars
    <2>4. \A i \in DOMAIN clicks' : clicks'[i].shown <= table.asked
      BY <1>1 DEF IInv, OrderInv, vars
    <2>5. OrderInv'
      BY <1>1, <2>2, <2>4, LineStays DEF IInv, vars
    <2> QED
      BY <2>1, <2>3, <2>5 DEF IInv
  <1> QED
    BY <1>1, ShowFrameKeepsIInv, ClickKeepsIInv, HandleMessageKeepsIInv, LeaveKeepsIInv,
       DealOnKeepsIInv, ForwardStatusKeepsIInv, NoticeEndedKeepsIInv, TakeCommandsKeepsIInv,
       WakeUpKeepsIInv, FinishWorkKeepsIInv, WorkFailsKeepsIInv
    DEF Next

(***************************************************************************)
(* Theorems.                                                               *)
(***************************************************************************)
\* Every reachable state satisfies the inductive invariant.
THEOREM SearcherInvariance == Spec => []IInv
  <1> QED
    BY InitIInv, NextKeepsIInv, PTL DEF Spec

\* The variables of the connection keep their types.
THEOREM SearcherTypeCorrect == Spec => []TypeOK
  <1>1. IInv => TypeOK
    BY DEF IInv
  <1> QED
    BY <1>1, SearcherInvariance, PTL

\* The dock opens only by a finished search of the decision on screen, however
\* many statuses and commands of others are under way (app.js, SEARCH_STATUS).
THEOREM DocksAreSolved == Spec => []OpenDockIsSolved
  <1>1. IInv => OpenDockIsSolved
    BY DEF IInv, DockInv, OpenDockIsSolved
  <1> QED
    BY <1>1, SearcherInvariance, PTL

\* What a search publishes under the name of the table's decision was computed
\* from that decision's state, through coalesced commands, followed branches and
\* rebuilt trees (searcher.rs, reshape).
THEOREM SearchesAreTruthful == Spec => []LabelsAreTruthful
  <1>1. ASSUME IInv
        PROVE  LabelsAreTruthful
    <2>1. NamesAgree /\ <<table.decision, decision_token(table)>> \in Names
      BY <1>1 DEF IInv, NamesInv, Names, TableName
    <2>2. <<search.root, search.token>> \in Names
      BY DEF Names, SearchName
    <2>3. \A i \in DOMAIN updates : <<updates[i].root, updates[i].token>> \in Names
      BY DEF Names, UpdateNames
    <2> QED
      BY <2>1, <2>2, <2>3 DEF NamesAgree, LabelsAreTruthful
  <1> QED
    BY <1>1, SearcherInvariance, PTL

\* A click made for the decision that is on the table is scored by a search of
\* that decision, or by none: the snapshot is no older than the status that had
\* opened the dock, and none is younger than the table (ws.rs, latest_snapshot).
THEOREM ClicksAreScoredByTheirSearch == Spec => []ScoredByItsOwnSearch
  <1>1. ASSUME IInv
        PROVE  ScoredByItsOwnSearch
    <2> SUFFICES ASSUME clicks # <<>>, ~table.review, Head(clicks).kind = "ActionSubmit",
                        Head(clicks).shown = table.decision, Head(clicks).shown # None,
                        decision_token(table) \notin reused
                 PROVE  snapshot \in {None, table.decision}
      BY DEF ScoredByItsOwnSearch
    <2>1. TypeOK /\ TableInv /\ OrderInv
      BY <1>1 DEF IInv
    <2>2. 1 \in DOMAIN clicks /\ Head(clicks) = clicks[1]
      BY <2>1, Received DEF TypeOK
    <2>3. Qualifies(1)
      BY <2>2 DEF Qualifies
    <2>4. table.decision \in Seen
      BY <2>2, <2>3 DEF Seen
    <2>5. snapshot = None \/ table.decision <= snapshot
      BY <2>1, <2>4 DEF OrderInv, ReportsInLine
    <2>6. snapshot <= search.root /\ search.root <= table.asked
      BY <2>1 DEF OrderInv, ReportsInLine, Reported, WorkerInLine
    <2>7. table.decision = table.asked
      BY <2>1, <2>2 DEF TableInv
    <2> QED
      BY <2>1, <2>5, <2>6, <2>7, OrderIsTyped
  <1> QED
    BY <1>1, SearcherInvariance, PTL

===============================================================================
