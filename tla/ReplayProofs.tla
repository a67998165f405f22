----------------------------- MODULE ReplayProofs -----------------------------
(***************************************************************************)
(* Proofs about the replay of an imported hand: module Replay, as it runs  *)
(* in OpponentHistory.  They hold for every stack a seat may declare and   *)
(* for every blind level.                                                  *)
(*                                                                         *)
(* The engine and the real table are two machines that must agree.  The    *)
(* inductive invariant is in two parts: what holds at the real table by    *)
(* itself (Sound: who may act, and that the seats that still have to lie   *)
(* right behind the actor), and how the engine mirrors it (Mirrored), which *)
(* is kept only until the real hand is over: then the engine may still ask *)
(* a seat that nobody can answer, and nothing is read from it any more.    *)
(***************************************************************************)
EXTENDS OpponentHistory, GameStateProofs, SequenceTheorems

SeatOrNone == Seat \cup {None}

RealTable ==
  [seated : [Seat -> BOOLEAN], button : Seat, stack : [Seat -> Nat],
   contrib : [Seat -> Nat], total : [Seat -> Nat], bet : Nat, min : Nat,
   acted : [Seat -> BOOLEAN], reopened : [Seat -> BOOLEAN],
   folded : [Seat -> BOOLEAN], street : Street, at : SeatOrNone,
   raiser : SeatOrNone, aggressor : SeatOrNone, calledAllIn : BOOLEAN]

\* The seats that have to act as long as somebody can answer them.
Waiting(r) == {s \in CanAct(r) : r.contrib[s] < r.bet \/ ~r.acted[s]}

PostedInFullAt(r) == r.total[BigBlindSeat(r)] >= BIG_BLIND

\* The seat to act must, there is somebody left to play with, and no settled
\* seat sits between the actor and a waiting one.
InTurn(r) ==
  /\ MustAct(r, r.at)
  /\ Cardinality(Playing(r)) # 1
  /\ Left(r.at) \in CanAct(r) /\ Left(Left(r.at)) \in Waiting(r)
       => Left(r.at) \in Waiting(r)

\* What is in before the first line of a hand, and what is kept by every line.
SoundChips(r) ==
  /\ r.min >= BIG_BLIND
  /\ r.seated[r.button]
  /\ \E s, t \in Seat : s # t /\ r.seated[s] /\ r.seated[t]
  /\ \A s \in Seat : r.contrib[s] <= r.bet
  /\ r.street = Preflop => r.total = r.contrib
  /\ r.street # Preflop => \A s \in Seat : ~r.acted[s] => r.contrib[s] = 0
  /\ PostedInFullAt(r) => \E s \in Seat : r.contrib[s] = r.bet
  /\ ~PostedInFullAt(r) => r.stack[BigBlindSeat(r)] = 0

Sound(r) ==
  /\ r \in RealTable
  /\ SoundChips(r)
  /\ r.at # None => InTurn(r)

\* The chips and the seats, street by street or not.
SameSeats ==
  /\ stacks = real.stack
  /\ total_contrib = real.total
  /\ folded = real.folded
  /\ hand_over = FALSE
  /\ all_in \in [Seat -> BOOLEAN]
  /\ eliminated = [s \in Seat |-> ~real.seated[s]]
  /\ \A s \in Seat : real.seated[s] => (all_in[s] <=> real.stack[s] = 0)

\* The betting of the street.
SameStreet ==
  /\ street_contrib = real.contrib
  /\ current_bet = real.bet
  /\ min_raise = real.min
  /\ acted = real.acted
  /\ street = real.street
  /\ last_full_raise \in SeatOrNone
  /\ last_full_raise # None =>
       real.acted[last_full_raise] /\ ~real.reopened[last_full_raise]
  /\ to_act \in Seat
  /\ to_act = real.at \/ (walk.at = "Read" /\ walk.entered)

\* The real table has opened a street the engine has yet to advance to.
StreetAhead ==
  /\ outcome = "StreetEnded"
  /\ street + 1 = real.street
  /\ real.contrib = NoChips
  /\ real.bet = 0
  /\ real.min = BIG_BLIND
  /\ real.acted = NoSeat
  /\ Cardinality(CanAct(real)) >= 2

\* The aggressors, unless somebody called all in.
SameAggressors ==
  ~real.calledAllIn =>
    /\ walk.preflop_aggressor = real.aggressor
    /\ real.street = Preflop => walk.flop_bettor = None
    /\ real.street = Flop => walk.flop_bettor = real.raiser

\* The engine is where the real table is.
Mirrored ==
  real.at # None =>
    /\ walk.at # "Rejected"
    /\ SameSeats
    /\ walk.at \in {"Read", "Walk"} => SameStreet
    /\ walk.at = "Settle" => StreetAhead
    /\ SameAggressors

LineType ==
  [verb : {"Fold", "Check", "Call", "Bet", "Raise"}, seat : SeatOrNone,
   amount : Nat, to : Nat, all_in : BOOLEAN]

WalkType ==
  [at : {"Read", "Walk", "Settle", "Rejected"}, line : LineType, entered : BOOLEAN,
   preflop_aggressor : SeatOrNone, flop_bettor : SeatOrNone]

\* The line the walk holds is one the real table may produce.
WalkSound ==
  /\ walk \in WalkType
  /\ walk.at = "Walk" => real.at # None /\ walk.line \in Lines(real)
  /\ button \in Seat /\ real.seated[button]
  /\ hero \in [seat : Seat, invested : Nat, late : BOOLEAN]

\* A hand with a short big blind may be given up at any line.
GivenUp == walk.at = "Rejected" => ~FullBlind

ReplayInv ==
  /\ Sound(real)
  /\ WalkSound
  /\ FullBlind => Mirrored
  /\ GivenUp
  /\ InvestedIsExact

-----------------------------------------------------------------------------
(***************************************************************************)
(* The real table.                                                         *)
(***************************************************************************)
LEMMA SeatFacts ==
  /\ Seat = {0, 1, 2} /\ Seat \subseteq Nat
  /\ None = 3 /\ None \notin Seat
  /\ Hero \in Seat
BY DEF Seat, None, Hero

\* The blinds are positive whole numbers.
LEMMA BlindFacts ==
  /\ SMALL_BLIND \in Nat /\ SMALL_BLIND > 0
  /\ BIG_BLIND \in Nat /\ SMALL_BLIND <= BIG_BLIND /\ BIG_BLIND > 0
BY ChipsAssumption

\* The streets, in the numbers the walk compares.
LEMMA FoldRange ==
  /\ Preflop = 0 /\ Flop = 1 /\ Turn = 2 /\ River = 3
  /\ Street = {0, 1, 2, 3}
BY DEF Preflop, Flop, Turn, River, Street

\* The chips of seat s, n fewer or more.
Less(chips, s, n) == [chips EXCEPT ![s] = @ - n]
More(chips, s, n) == [chips EXCEPT ![s] = @ + n]

\* Taking chips off one seat's and adding to them leave the others alone.
LEMMA ChipsOf ==
  ASSUME NEW chips \in [Seat -> Nat], NEW s \in Seat, NEW n \in Nat
  PROVE  /\ n <= chips[s] => Less(chips, s, n) \in [Seat -> Nat]
         /\ More(chips, s, n) \in [Seat -> Nat]
         /\ Less(chips, s, n)[s] = chips[s] - n
         /\ More(chips, s, n)[s] = chips[s] + n
         /\ \A t \in Seat : t # s => /\ Less(chips, s, n)[t] = chips[t]
                                    /\ More(chips, s, n)[t] = chips[t]
BY DEF Less, More

\* Chips are moved from the stack into the pot, and nothing else changes.
LEMMA PutFacts ==
  ASSUME NEW r \in RealTable, NEW s \in Seat, NEW n \in Nat, n <= r.stack[s],
         NEW p, p = Put(r, s, n)
  PROVE  /\ p \in RealTable
         /\ p.stack = Less(r.stack, s, n)
         /\ p.contrib = More(r.contrib, s, n)
         /\ p.total = More(r.total, s, n)
         /\ p.seated = r.seated /\ p.button = r.button /\ p.bet = r.bet
         /\ p.min = r.min /\ p.acted = r.acted /\ p.reopened = r.reopened
         /\ p.folded = r.folded /\ p.street = r.street /\ p.at = r.at
         /\ p.raiser = r.raiser /\ p.aggressor = r.aggressor
         /\ p.calledAllIn = r.calledAllIn
<1>1. r.stack[s] - n \in Nat /\ r.contrib[s] + n \in Nat /\ r.total[s] + n \in Nat
  BY DEF RealTable
<1>. QED
  BY <1>1 DEF RealTable, Put, Less, More

\* The seats that play and that can act.
LEMMA SeatsOf ==
  ASSUME NEW r \in RealTable
  PROVE  /\ Playing(r) \subseteq Seat /\ CanAct(r) \subseteq Seat
         /\ \A s \in Seat : /\ s \in Playing(r) <=> r.seated[s] /\ ~r.folded[s]
                            /\ s \in CanAct(r) <=> /\ r.seated[s] /\ ~r.folded[s]
                                                   /\ r.stack[s] > 0
BY DEF Playing, CanAct

\* A seat that must act waits; one that waits must act if it can be answered.
LEMMA MustActFacts ==
  ASSUME NEW r \in RealTable, NEW s \in Seat,
         \A t \in Seat : r.contrib[t] <= r.bet
  PROVE  /\ MustAct(r, s) => s \in Waiting(r)
         /\ s \in Waiting(r) /\ Others(r, s) # {} => MustAct(r, s)
<1>1. /\ r.bet \in Nat
      /\ \A t \in Seat : r.contrib[t] \in Nat /\ r.acted[t] \in BOOLEAN
  BY DEF RealTable
<1>2. CASE Others(r, s) # {}
  <2>1. Faces(r, s) = r.bet
    BY <1>2 DEF Faces
  <2>. QED
    BY <1>1, <1>2, <2>1 DEF MustAct, Waiting
<1>3. CASE Others(r, s) = {}
  <2>1. Faces(r, s) <= r.bet
    <3>1. [r.contrib EXCEPT ![s] = 0] \in [Seat -> Nat]
      BY DEF RealTable
    <3>2. HighestOf([r.contrib EXCEPT ![s] = 0]) \in Nat
      BY <3>1, SeatFacts DEF HighestOf, Greater
    <3>. QED
      BY <1>1, <1>3, <3>2 DEF Faces, Lesser
  <2>2. Faces(r, s) \in Int
    <3>1. [r.contrib EXCEPT ![s] = 0] \in [Seat -> Nat]
      BY DEF RealTable
    <3>2. HighestOf([r.contrib EXCEPT ![s] = 0]) \in Nat
      BY <3>1, SeatFacts DEF HighestOf, Greater
    <3>. QED
      BY <1>1, <1>3, <3>2 DEF Faces, Lesser
  <2>. QED
    BY <1>1, <1>3, <2>1, <2>2 DEF MustAct, Waiting
<1>. QED
  BY <1>2, <1>3

\* Who can be answered.
LEMMA OthersFacts ==
  ASSUME NEW r \in RealTable, NEW s \in Seat
  PROVE  /\ Cardinality(CanAct(r)) >= 2 => Others(r, s) # {}
         /\ \A t \in CanAct(r) : t # s => Others(r, s) # {}
<1>1. CanAct(r) \in SUBSET Seat
  BY SeatsOf
<1>2. Cardinality(CanAct(r)) >= 2 <=> \E x, y \in CanAct(r) : x # y
  BY <1>1, TwoSeats
<1>. QED
  BY <1>2 DEF Others

\* The first seat clockwise that must act, if any seat must.
LEMMA FirstFromFacts ==
  ASSUME NEW r \in RealTable, NEW s \in Seat
  PROVE  LET f == FirstFrom(r, s)
         IN /\ f \in SeatOrNone
            /\ f # None => MustAct(r, f) /\ Cardinality(Playing(r)) # 1
            /\ f = None => \/ Cardinality(Playing(r)) = 1
                           \/ \A t \in Seat : ~MustAct(r, t)
            /\ f = s \/ ~MustAct(r, s) \/ Cardinality(Playing(r)) = 1
            /\ f = Left(Left(s)) => ~MustAct(r, s) /\ ~MustAct(r, Left(s))
<1>1. /\ Left(s) \in Seat /\ Left(Left(s)) \in Seat /\ Left(s) # s
      /\ Left(Left(s)) # s /\ Left(Left(s)) # Left(s)
      /\ \A t \in Seat : t \in {s, Left(s), Left(Left(s))}
  BY LeftFacts
<1>2. None \notin Seat
  BY SeatFacts
<1>. QED
  BY <1>1, <1>2, Zenon DEF FirstFrom, SeatOrNone

\* The blinds are two seats of the hand.
LEMMA BlindSeats ==
  ASSUME NEW r \in RealTable, r.seated[r.button],
         \E s, t \in Seat : s # t /\ r.seated[s] /\ r.seated[t]
  PROVE  /\ SmallBlindSeat(r) \in Seat /\ BigBlindSeat(r) \in Seat
         /\ SmallBlindSeat(r) # BigBlindSeat(r)
         /\ r.seated[SmallBlindSeat(r)] /\ r.seated[BigBlindSeat(r)]
<1>1. r.button \in Seat
  BY DEF RealTable
<1>2. \A s \in Seat : /\ Left(s) \in Seat /\ Left(Left(s)) \in Seat /\ Left(s) # s
                      /\ Left(Left(s)) # s /\ Left(Left(s)) # Left(s)
                      /\ \A t \in Seat : t \in {s, Left(s), Left(Left(s))}
  BY LeftFacts
<1>3. CASE \A s \in Seat : r.seated[s]
  BY <1>1, <1>2, <1>3 DEF SmallBlindSeat, BigBlindSeat, NextSeated
<1>4. CASE ~\A s \in Seat : r.seated[s]
  <2>1. SmallBlindSeat(r) = r.button
    BY <1>4 DEF SmallBlindSeat
  <2>2. r.seated[Left(r.button)] \/ r.seated[Left(Left(r.button))]
    BY <1>1, <1>2
  <2>. QED
    BY <1>1, <1>2, <2>1, <2>2 DEF BigBlindSeat, NextSeated
<1>. QED
  BY <1>3, <1>4

\* The blind seats depend on nothing that a line changes.
LEMMA BlindSeatsKept ==
  ASSUME NEW r, NEW q, q.seated = r.seated, q.button = r.button
  PROVE  SmallBlindSeat(q) = SmallBlindSeat(r) /\ BigBlindSeat(q) = BigBlindSeat(r)
BY DEF SmallBlindSeat, BigBlindSeat

WithActor(r, f) == [r EXCEPT !.at = f]

\* The actor of a table is not read by what decides the actor.
LEMMA ActorOf ==
  ASSUME NEW r \in RealTable, NEW f \in SeatOrNone, NEW q, q = WithActor(r, f)
  PROVE  /\ q \in RealTable
         /\ q.at = f
         /\ q.seated = r.seated /\ q.button = r.button /\ q.stack = r.stack
         /\ q.contrib = r.contrib /\ q.total = r.total /\ q.bet = r.bet
         /\ q.min = r.min /\ q.acted = r.acted /\ q.reopened = r.reopened
         /\ q.folded = r.folded /\ q.street = r.street
         /\ q.raiser = r.raiser /\ q.aggressor = r.aggressor
         /\ q.calledAllIn = r.calledAllIn
         /\ Playing(q) = Playing(r) /\ CanAct(q) = CanAct(r)
         /\ Waiting(q) = Waiting(r)
         /\ \A s : MustAct(q, s) <=> MustAct(r, s)
         /\ \A s : FirstFrom(q, s) = FirstFrom(r, s)
         /\ BigBlindSeat(q) = BigBlindSeat(r)
<1>1. /\ q \in RealTable
      /\ q.at = f
      /\ q.seated = r.seated /\ q.button = r.button /\ q.stack = r.stack
      /\ q.contrib = r.contrib /\ q.total = r.total /\ q.bet = r.bet
      /\ q.min = r.min /\ q.acted = r.acted /\ q.reopened = r.reopened
      /\ q.folded = r.folded /\ q.street = r.street
      /\ q.raiser = r.raiser /\ q.aggressor = r.aggressor
      /\ q.calledAllIn = r.calledAllIn
  BY DEF RealTable, WithActor
<1>2. Playing(q) = Playing(r)
  BY <1>1 DEF Playing
<1>3. CanAct(q) = CanAct(r)
  BY <1>1, <1>2 DEF CanAct
<1>4. Waiting(q) = Waiting(r)
  BY <1>1, <1>3 DEF Waiting
<1>5. \A s : Others(q, s) = Others(r, s)
  BY <1>3 DEF Others
<1>6. \A s : Faces(q, s) = Faces(r, s)
  BY <1>1, <1>5 DEF Faces
<1>7. \A s : MustAct(q, s) <=> MustAct(r, s)
  BY <1>1, <1>3, <1>5, <1>6, Zenon DEF MustAct
<1>8. \A s : FirstFrom(q, s) = FirstFrom(r, s)
  BY <1>2, <1>7 DEF FirstFrom
<1>9. BigBlindSeat(q) = BigBlindSeat(r)
  BY <1>1, BlindSeatsKept
<1>. QED
  BY <1>1, <1>2, <1>3, <1>4, <1>7, <1>8, <1>9

BeforeBlinds(stack, btn) ==
  [seated |-> [s \in Seat |-> stack[s] > 0], button |-> btn,
            stack |-> stack, contrib |-> NoChips, total |-> NoChips,
            bet |-> BIG_BLIND, min |-> BIG_BLIND, acted |-> NoSeat,
            reopened |-> [s \in Seat |-> TRUE], folded |-> NoSeat,
            street |-> Preflop, at |-> None, raiser |-> None, aggressor |-> None,
            calledAllIn |-> FALSE]

\* A seat posts a blind, or all it has.
LEMMA BlindPosted ==
  ASSUME NEW r \in RealTable, NEW s \in Seat, NEW b \in Nat
  PROVE  \E p \in RealTable, n \in Nat :
            /\ p = Blind(r, s, b)
            /\ n = Lesser(b, r.stack[s])
            /\ p.stack = Less(r.stack, s, n)
            /\ p.contrib = More(r.contrib, s, n)
            /\ p.total = More(r.total, s, n)
            /\ p.seated = r.seated /\ p.button = r.button /\ p.bet = r.bet
            /\ p.min = r.min /\ p.acted = r.acted
            /\ p.folded = r.folded /\ p.street = r.street
            /\ p.raiser = r.raiser /\ p.aggressor = r.aggressor
<1>. DEFINE n == Lesser(b, r.stack[s])
<1>1. r.stack[s] \in Nat
  BY DEF RealTable
<1>2. n \in Nat /\ n <= r.stack[s]
  BY <1>1 DEF Lesser
<1>3. Blind(r, s, b) = Put(r, s, n)
  BY DEF Blind
<1>. HIDE DEF n
<1>. QED
  BY <1>2, <1>3, PutFacts DEF n

\* A hand is dealt soundly.
LEMMA DealtSoundly ==
  ASSUME NEW stack \in [Seat -> Nat], NEW btn \in Seat, stack[btn] > 0,
         \E s, t \in Seat : s # t /\ stack[s] > 0 /\ stack[t] > 0
  PROVE  \E d \in RealTable :
         /\ d = Dealt(stack, btn)
         /\ Sound(d)
         /\ d.folded = NoSeat /\ d.acted = NoSeat /\ d.street = Preflop
         /\ d.raiser = None /\ d.aggressor = None /\ d.min = BIG_BLIND
         /\ d.total = d.contrib
         /\ \A s \in Seat : d.seated[s] => d.stack[s] > 0 \/ d.contrib[s] > 0
<1>1. /\ BeforeBlinds(stack, btn) \in RealTable
      /\ BeforeBlinds(stack, btn).stack = stack
      /\ BeforeBlinds(stack, btn).contrib = NoChips
      /\ BeforeBlinds(stack, btn).total = NoChips
      /\ BeforeBlinds(stack, btn).button = btn
      /\ BeforeBlinds(stack, btn).bet = BIG_BLIND
      /\ BeforeBlinds(stack, btn).min = BIG_BLIND
      /\ BeforeBlinds(stack, btn).seated = [s \in Seat |-> stack[s] > 0]
      /\ BeforeBlinds(stack, btn).acted = NoSeat
      /\ BeforeBlinds(stack, btn).folded = NoSeat
      /\ BeforeBlinds(stack, btn).street = Preflop
      /\ BeforeBlinds(stack, btn).raiser = None
      /\ BeforeBlinds(stack, btn).aggressor = None
  BY BlindFacts, FoldRange DEF BeforeBlinds, RealTable, NoChips, NoSeat, SeatOrNone
<1>2. PICK r \in RealTable :
      /\ r = BeforeBlinds(stack, btn)
      /\ r.stack = stack /\ r.contrib = NoChips /\ r.total = NoChips
      /\ r.button = btn /\ r.bet = BIG_BLIND /\ r.min = BIG_BLIND
      /\ r.seated = [s \in Seat |-> stack[s] > 0] /\ r.acted = NoSeat
      /\ r.folded = NoSeat /\ r.street = Preflop
      /\ r.raiser = None /\ r.aggressor = None
  BY <1>1, Zenon
<1>3. PICK sb \in Seat, bb \in Seat :
      /\ sb = SmallBlindSeat(r) /\ bb = BigBlindSeat(r) /\ sb # bb
      /\ r.seated[sb] /\ r.seated[bb]
  BY <1>2, BlindSeats
<1>4. stack[sb] > 0 /\ stack[bb] > 0 /\ stack[sb] \in Nat /\ stack[bb] \in Nat
  BY <1>2, <1>3
<1>5. PICK one \in RealTable, n \in Nat :
      /\ one = Blind(r, sb, SMALL_BLIND)
      /\ n = Lesser(SMALL_BLIND, r.stack[sb])
      /\ one.stack = Less(r.stack, sb, n)
      /\ one.contrib = More(r.contrib, sb, n)
      /\ one.total = More(r.total, sb, n)
      /\ one.seated = r.seated /\ one.button = r.button /\ one.bet = r.bet
      /\ one.min = r.min /\ one.acted = r.acted
      /\ one.folded = r.folded /\ one.street = r.street
      /\ one.raiser = r.raiser /\ one.aggressor = r.aggressor
  BY BlindPosted, BlindFacts, Zenon
<1>6. n > 0 /\ n <= stack[sb] /\ n <= BIG_BLIND /\ r.stack[sb] = stack[sb]
  BY <1>2, <1>4, <1>5, BlindFacts DEF Lesser
<1>7. PICK posted \in RealTable, m \in Nat :
      /\ posted = Blind(one, bb, BIG_BLIND)
      /\ m = Lesser(BIG_BLIND, one.stack[bb])
      /\ posted.stack = Less(one.stack, bb, m)
      /\ posted.contrib = More(one.contrib, bb, m)
      /\ posted.total = More(one.total, bb, m)
      /\ posted.seated = one.seated /\ posted.button = one.button /\ posted.bet = one.bet
      /\ posted.min = one.min /\ posted.acted = one.acted
      /\ posted.folded = one.folded /\ posted.street = one.street
      /\ posted.raiser = one.raiser /\ posted.aggressor = one.aggressor
  <2>1. BIG_BLIND \in Nat
    BY BlindFacts
  <2>. QED
    BY <2>1, BlindPosted, ZenonT(30)
<1>8. /\ m > 0 /\ m <= stack[bb] /\ m <= BIG_BLIND
      /\ m = BIG_BLIND \/ m = stack[bb]
      /\ one.stack[bb] = stack[bb]
  <2>1. one.stack[bb] = stack[bb]
    BY <1>2, <1>3, <1>5 DEF Less, RealTable
  <2>. QED
    BY <2>1, <1>4, <1>7, BlindFacts DEF Lesser
<1>9. /\ posted.seated = r.seated /\ posted.button = btn /\ posted.bet = BIG_BLIND
      /\ posted.min = BIG_BLIND /\ posted.acted = NoSeat
      /\ posted.folded = NoSeat /\ posted.street = Preflop
      /\ posted.raiser = None /\ posted.aggressor = None
  BY <1>2, <1>5, <1>7
<1>10. /\ posted.stack[bb] = stack[bb] - m /\ posted.stack[sb] = stack[sb] - n
       /\ posted.contrib[bb] = m /\ posted.contrib[sb] = n
       /\ posted.total[bb] = m
       /\ \A s \in Seat \ {sb, bb} : /\ posted.contrib[s] = 0
                                     /\ posted.stack[s] = stack[s]
  BY <1>2, <1>3, <1>5, <1>6, <1>7, <1>8 DEF NoChips, Less, More
<1>t. posted.total = posted.contrib
  BY <1>2, <1>3, <1>5, <1>7 DEF NoChips, RealTable
<1>11. Left(bb) \in Seat
  BY <1>3, LeftFacts
<1>12. PICK f \in SeatOrNone :
       /\ f = FirstFrom(posted, Left(bb))
       /\ f # None => MustAct(posted, f) /\ Cardinality(Playing(posted)) # 1
  BY <1>11, FirstFromFacts
<1>13. BigBlindSeat(posted) = bb
  BY <1>3, <1>5, <1>7, <1>9, BlindSeatsKept
<1>14. PICK d \in RealTable :
       /\ d = WithActor(posted, f)
       /\ d.at = f
       /\ d.seated = posted.seated /\ d.button = posted.button /\ d.stack = posted.stack
       /\ d.contrib = posted.contrib /\ d.total = posted.total /\ d.bet = posted.bet
       /\ d.min = posted.min /\ d.acted = posted.acted /\ d.folded = posted.folded
       /\ d.street = posted.street
       /\ d.raiser = posted.raiser /\ d.aggressor = posted.aggressor
       /\ Playing(d) = Playing(posted) /\ CanAct(d) = CanAct(posted)
       /\ Waiting(d) = Waiting(posted)
       /\ \A s : MustAct(d, s) <=> MustAct(posted, s)
       /\ BigBlindSeat(d) = BigBlindSeat(posted)
  BY ActorOf
<1>15. \A s \in Seat : d.contrib[s] <= d.bet
  BY <1>3, <1>6, <1>8, <1>9, <1>10, <1>14, BlindFacts
<1>16. /\ PostedInFullAt(d) => \E s \in Seat : d.contrib[s] = d.bet
       /\ ~PostedInFullAt(d) => d.stack[BigBlindSeat(d)] = 0
  <2>1. /\ BigBlindSeat(d) = bb /\ d.total[bb] = m /\ d.contrib[bb] = m
        /\ d.bet = BIG_BLIND /\ d.stack[bb] = stack[bb] - m
    BY <1>9, <1>10, <1>13, <1>14
  <2>. QED
    BY <2>1, <1>4, <1>8, BlindFacts DEF PostedInFullAt
<1>17. d.at # None => InTurn(d)
  <2>. SUFFICES ASSUME d.at # None PROVE InTurn(d)
    OBVIOUS
  <2>2. Waiting(d) = CanAct(d)
    BY <1>9, <1>14, SeatsOf DEF Waiting, NoSeat
  <2>3. MustAct(d, d.at) /\ Cardinality(Playing(d)) # 1
    BY <1>12, <1>14
  <2>. QED
    BY <2>2, <2>3 DEF InTurn
<1>18. \A s \in Seat : d.seated[s] => d.stack[s] > 0 \/ d.contrib[s] > 0
  <2>. SUFFICES ASSUME NEW s \in Seat, d.seated[s]
                PROVE  d.stack[s] > 0 \/ d.contrib[s] > 0
    OBVIOUS
  <2>0. r.seated[s]
    BY <1>9, <1>14, Zenon
  <2>1. stack[s] > 0
    BY <2>0, <1>2, Zenon
  <2>. QED
    BY <2>1, <1>3, <1>6, <1>8, <1>10, <1>14
<1>19. \E s, t \in Seat : s # t /\ d.seated[s] /\ d.seated[t]
  BY <1>3, <1>9, <1>14
<1>20. Sound(d)
  <2>0. d.seated = r.seated /\ d.button = btn
    BY <1>9, <1>14, Zenon
  <2>1. d.seated[d.button]
    BY <2>0, <1>2, Zenon
  <2>2. d.total = d.contrib /\ d.street = Preflop
    BY <1>t, <1>9, <1>14
  <2>3. d.min >= BIG_BLIND
    BY <1>9, <1>14, BlindFacts
  <2>. QED
    BY <2>1, <2>2, <2>3, <1>15, <1>16, <1>17, <1>19 DEF Sound, SoundChips
<1>21. d = Dealt(stack, btn)
  BY <1>2, <1>3, <1>5, <1>7, <1>12, <1>13, <1>14 DEF Dealt, BeforeBlinds, WithActor
<1>. QED
  BY <1>9, <1>14, <1>18, <1>20, <1>21, <1>t

(***************************************************************************)
(* A line at the real table.                                               *)
(***************************************************************************)
\* The chips a line puts in.
PaidBy(r, l) ==
  CASE l.verb \in {"Call", "Bet"} -> l.amount
    [] l.verb = "Raise" -> l.to - r.contrib[l.seat]
    [] OTHER -> 0

\* The seat that is asked is one, and has chips.
LEMMA ActorFacts ==
  ASSUME NEW r \in RealTable, Sound(r), r.at # None
  PROVE  /\ r.at \in Seat
         /\ r.at \in CanAct(r) /\ r.at \in Waiting(r)
         /\ r.seated[r.at] /\ ~r.folded[r.at] /\ r.stack[r.at] > 0
         /\ r.stack[r.at] \in Nat /\ r.contrib[r.at] \in Nat /\ r.total[r.at] \in Nat
         /\ r.contrib[r.at] <= r.bet /\ r.bet \in Nat /\ r.min \in Nat /\ r.min > 0
<1>1. r.at \in Seat
  BY DEF RealTable, SeatOrNone
<1>2. \A t \in Seat : r.contrib[t] <= r.bet
  BY DEF Sound, SoundChips
<1>3. MustAct(r, r.at)
  BY DEF Sound, InTurn
<1>4. r.at \in Waiting(r)
  BY <1>1, <1>2, <1>3, MustActFacts
<1>5. r.at \in CanAct(r)
  BY <1>4 DEF Waiting
<1>6. r.seated[r.at] /\ ~r.folded[r.at] /\ r.stack[r.at] > 0
  BY <1>1, <1>5, SeatsOf
<1>7. /\ r.stack[r.at] \in Nat /\ r.contrib[r.at] \in Nat /\ r.total[r.at] \in Nat
      /\ r.bet \in Nat /\ r.min \in Nat
  BY <1>1 DEF RealTable
<1>8. r.min > 0
  BY <1>7, BlindFacts DEF Sound, SoundChips
<1>. QED
  BY <1>1, <1>2, <1>4, <1>5, <1>6, <1>7, <1>8

\* What a line is.
LEMMA LineFacts ==
  ASSUME NEW r \in RealTable, Sound(r), r.at # None, NEW l \in Lines(r)
  PROVE  /\ l \in LineType
         /\ l.seat = r.at
         /\ PaidBy(r, l) \in Nat /\ PaidBy(r, l) <= r.stack[r.at]
         /\ l.verb \in {"Fold", "Check"} => PaidBy(r, l) = 0
         /\ l.verb = "Fold" => r.contrib[r.at] < r.bet
         /\ l.verb = "Check" => r.contrib[r.at] = r.bet
         /\ l.verb = "Call" =>
              /\ r.contrib[r.at] < r.bet
              /\ l.amount = PaidBy(r, l)
              /\ PaidBy(r, l) = Lesser(r.bet - r.contrib[r.at], r.stack[r.at])
              /\ l.all_in <=> PaidBy(r, l) = r.stack[r.at]
         /\ l.verb \in {"Bet", "Raise"} =>
              /\ r.contrib[r.at] + PaidBy(r, l) > r.bet
              /\ \/ r.contrib[r.at] + PaidBy(r, l) >= r.bet + r.min
                 \/ PaidBy(r, l) = r.stack[r.at]
              /\ l.all_in <=> PaidBy(r, l) = r.stack[r.at]
              /\ Others(r, r.at) # {}
              /\ ~r.acted[r.at] \/ r.reopened[r.at]
         /\ l.verb = "Bet" => r.bet = 0 /\ l.amount = PaidBy(r, l)
         /\ l.verb = "Raise" => r.bet > 0 /\ l.to = r.contrib[r.at] + PaidBy(r, l)
<1>1. /\ r.at \in Seat
      /\ r.stack[r.at] > 0
      /\ r.stack[r.at] \in Nat /\ r.contrib[r.at] \in Nat /\ r.total[r.at] \in Nat
      /\ r.contrib[r.at] <= r.bet /\ r.bet \in Nat /\ r.min \in Nat /\ r.min > 0
  BY ActorFacts
<1>a. r.at \in SeatOrNone
  BY <1>1 DEF SeatOrNone
<1>. DEFINE s == r.at
            toCall == r.bet - r.contrib[s]
            all == r.contrib[s] + r.stack[s]
            call == Lesser(toCall, r.stack[s])
            mayRaise == Others(r, s) # {} /\ (~r.acted[s] \/ r.reopened[s])
            Sizes(low) == {m \in (r.bet + 1)..all : m >= low \/ m = all}
<1>2. l \in (IF toCall = 0 THEN {Line("Check", s, 0, 0, FALSE)}
             ELSE {Line("Fold", s, 0, 0, FALSE), Line("Call", s, call, 0, call = r.stack[s])})
            \cup {Line(IF r.bet = 0 THEN "Bet" ELSE "Raise", s,
                       m - r.bet, IF r.bet = 0 THEN 0 ELSE m, m = all)
                    : m \in IF mayRaise THEN Sizes(r.bet + r.min) ELSE {}}
  BY Zenon DEF Lines
<1>3. /\ toCall \in Nat /\ all \in Nat /\ call \in Nat /\ call <= r.stack[s]
      /\ toCall > 0 => call > 0
  BY <1>1 DEF Lesser
<1>4. CASE toCall = 0 /\ l = Line("Check", s, 0, 0, FALSE)
  <2>1. /\ l \in LineType /\ l.seat = s /\ l.verb = "Check" /\ PaidBy(r, l) = 0
    BY <1>a, <1>4 DEF Line, LineType, PaidBy
  <2>2. r.contrib[r.at] = r.bet /\ 0 \in Nat /\ 0 <= r.stack[r.at]
    BY <1>1, <1>4
  <2>. QED
    BY <2>1, <2>2, Zenon
<1>5. CASE toCall # 0 /\ l = Line("Fold", s, 0, 0, FALSE)
  <2>1. /\ l \in LineType /\ l.seat = s /\ l.verb = "Fold" /\ PaidBy(r, l) = 0
    BY <1>a, <1>5 DEF Line, LineType, PaidBy
  <2>2. r.contrib[r.at] < r.bet /\ 0 \in Nat /\ 0 <= r.stack[r.at]
    BY <1>1, <1>5
  <2>. QED
    BY <2>1, <2>2, Zenon
<1>6. CASE toCall # 0 /\ l = Line("Call", s, call, 0, call = r.stack[s])
  <2>1. /\ l \in LineType /\ l.seat = s /\ l.verb = "Call" /\ PaidBy(r, l) = call
        /\ l.amount = call /\ (l.all_in <=> call = r.stack[s])
    BY <1>a, <1>3, <1>6 DEF Line, LineType, PaidBy
  <2>. QED
    BY <1>1, <1>3, <1>6, <2>1
<1>7. CASE \E m \in IF mayRaise THEN Sizes(r.bet + r.min) ELSE {} :
             l = Line(IF r.bet = 0 THEN "Bet" ELSE "Raise", s,
                      m - r.bet, IF r.bet = 0 THEN 0 ELSE m, m = all)
  <2>1. mayRaise
    BY <1>7
  <2>2. PICK m \in Sizes(r.bet + r.min) :
             l = Line(IF r.bet = 0 THEN "Bet" ELSE "Raise", s,
                      m - r.bet, IF r.bet = 0 THEN 0 ELSE m, m = all)
    BY <1>7, <2>1, Zenon
  <2>3. m \in Nat /\ m > r.bet /\ m <= all /\ (m >= r.bet + r.min \/ m = all)
    BY <1>1, <1>3, <2>2
  <2>4. CASE r.bet = 0
    <3>1. /\ l \in LineType /\ l.seat = s /\ l.verb = "Bet" /\ l.amount = m
          /\ PaidBy(r, l) = m /\ (l.all_in <=> m = all)
      BY <1>a, <2>2, <2>3, <2>4, m - r.bet = m DEF Line, LineType, PaidBy
    <3>2. r.contrib[s] = 0
      BY <1>1, <2>4
    <3>. QED
      BY <1>1, <2>1, <2>3, <2>4, <3>1, <3>2
  <2>5. CASE r.bet # 0
    <3>1. /\ l \in LineType /\ l.seat = s /\ l.verb = "Raise" /\ l.to = m
          /\ PaidBy(r, l) = m - r.contrib[s] /\ (l.all_in <=> m = all)
      BY <1>a, <1>1, <2>2, <2>3, <2>5, m - r.contrib[s] \in Nat, m - r.bet \in Nat DEF Line, LineType, PaidBy
    <3>. QED
      BY <1>1, <2>1, <2>3, <2>5, <3>1
  <2>. QED
    BY <2>4, <2>5
<1>. HIDE DEF s, toCall, all, call, mayRaise, Sizes
<1>. QED
  BY <1>2, <1>4, <1>5, <1>6, <1>7, Zenon

\* The table after a line, before the next seat is asked.
AfterLine(r, l) ==
  LET s == l.seat
      paid == Put(r, s, PaidBy(r, l))
      raised == paid.contrib[s] > r.bet
      full == paid.contrib[s] - r.bet >= r.min
  IN [paid EXCEPT
        !.acted[s] = TRUE,
        !.folded[s] = l.verb = "Fold",
        !.bet = Greater(@, paid.contrib[s]),
        !.min = IF raised /\ full THEN paid.contrib[s] - r.bet ELSE @,
        !.reopened = [t \in Seat |-> t # s /\ (@[t] \/ (raised /\ full))],
        !.raiser = IF raised THEN s ELSE @,
        !.aggressor = IF raised /\ r.street = Preflop THEN s ELSE @,
        !.calledAllIn = @ \/ (l.verb = "Call" /\ l.all_in)]

\* A line of the real table in two halves: its chips, then who acts next.
LEMMA PlayedAfterLine ==
  ASSUME NEW r, NEW l
  PROVE  Played(r, l) =
           Settled(WithActor(AfterLine(r, l), FirstFrom(AfterLine(r, l), Left(l.seat))))
BY Zenon DEF Played, AfterLine, PaidBy, WithActor

\* A raise, and a full one, at the real table.
GoesTo(r, l) == r.contrib[l.seat] + PaidBy(r, l)
Above(r, l) == GoesTo(r, l) - r.bet
RaisesBy(r, l) == GoesTo(r, l) > r.bet
FullAt(r, l) == Above(r, l) >= r.min

\* What a line changes.
LineChanges(r, l, a) ==
  /\ a.seated = r.seated /\ a.button = r.button /\ a.street = r.street
  /\ a.stack = Less(r.stack, l.seat, PaidBy(r, l))
  /\ a.contrib = More(r.contrib, l.seat, PaidBy(r, l))
  /\ a.total = More(r.total, l.seat, PaidBy(r, l))
  /\ a.acted = [r.acted EXCEPT ![l.seat] = TRUE]
  /\ a.folded = [r.folded EXCEPT ![l.seat] = l.verb = "Fold"]
  /\ a.bet = Greater(r.bet, GoesTo(r, l))
  /\ a.min = IF RaisesBy(r, l) /\ FullAt(r, l)
             THEN Above(r, l) ELSE r.min
  /\ a.reopened = [t \in Seat |-> t # l.seat
                      /\ (r.reopened[t] \/ (RaisesBy(r, l) /\ FullAt(r, l)))]
  /\ a.raiser = IF RaisesBy(r, l) THEN l.seat ELSE r.raiser
  /\ a.aggressor = IF RaisesBy(r, l) /\ r.street = Preflop THEN l.seat
                   ELSE r.aggressor
  /\ a.calledAllIn = (r.calledAllIn \/ (l.verb = "Call" /\ l.all_in))

\* What the chips of a line change, told of a table of its type.
LEMMA AfterLineFacts ==
  ASSUME NEW r \in RealTable, NEW l \in LineType, l.seat \in Seat,
         PaidBy(r, l) \in Nat, PaidBy(r, l) <= r.stack[l.seat]
  PROVE  \E a \in RealTable :
           /\ a = AfterLine(r, l)
           /\ LineChanges(r, l, a)
<1>1. PICK s \in Seat, n \in Nat : s = l.seat /\ n = PaidBy(r, l) /\ n <= r.stack[s]
  OBVIOUS
<1>2. PICK p : p = Put(r, s, n)
  OBVIOUS
<1>3. /\ p \in RealTable
      /\ p.stack = Less(r.stack, s, n)
      /\ p.contrib = More(r.contrib, s, n)
      /\ p.total = More(r.total, s, n)
      /\ p.seated = r.seated /\ p.button = r.button /\ p.bet = r.bet
      /\ p.min = r.min /\ p.acted = r.acted /\ p.reopened = r.reopened
      /\ p.folded = r.folded /\ p.street = r.street
      /\ p.raiser = r.raiser /\ p.aggressor = r.aggressor
      /\ p.calledAllIn = r.calledAllIn
  BY <1>1, <1>2, PutFacts
<1>4. r.bet \in Nat /\ r.min \in Nat /\ r.contrib[s] \in Nat
  BY DEF RealTable
<1>5. p.contrib[s] = r.contrib[s] + n
  <2>1. r.contrib \in [Seat -> Nat]
    BY DEF RealTable
  <2>. QED
    BY <2>1, <1>3, ChipsOf
<1>6. PICK m \in Nat : m = r.contrib[s] + n
  BY <1>4
<1>. DEFINE raised == m > r.bet
            full == m - r.bet >= r.min
            a == [p EXCEPT
                   !.acted[s] = TRUE,
                   !.folded[s] = l.verb = "Fold",
                   !.bet = Greater(@, m),
                   !.min = IF raised /\ full THEN m - r.bet ELSE @,
                   !.reopened = [t \in Seat |-> t # s /\ (@[t] \/ (raised /\ full))],
                   !.raiser = IF raised THEN s ELSE @,
                   !.aggressor = IF raised /\ r.street = Preflop THEN s ELSE @,
                   !.calledAllIn = @ \/ (l.verb = "Call" /\ l.all_in)]
<1>7. a = AfterLine(r, l)
  BY <1>1, <1>2, <1>5, <1>6, Zenon DEF AfterLine
<1>m. m = GoesTo(r, l) /\ m - r.bet = Above(r, l)
  BY <1>1, <1>4, <1>6 DEF GoesTo, Above
<1>8. (raised <=> RaisesBy(r, l)) /\ (full <=> FullAt(r, l))
  BY <1>1, <1>4, <1>6 DEF RaisesBy, FullAt, GoesTo, Above
<1>9. /\ Greater(r.bet, m) \in Nat
      /\ raised => m - r.bet \in Nat
      /\ s \in SeatOrNone
  BY <1>1, <1>4, <1>6 DEF Greater, SeatOrNone
<1>10. /\ a.seated = p.seated /\ a.button = p.button /\ a.street = p.street
       /\ a.stack = p.stack /\ a.contrib = p.contrib /\ a.total = p.total
       /\ a.acted = [p.acted EXCEPT ![s] = TRUE]
       /\ a.folded = [p.folded EXCEPT ![s] = l.verb = "Fold"]
       /\ a.bet = Greater(p.bet, m)
       /\ a.min = IF raised /\ full THEN m - r.bet ELSE p.min
       /\ a.reopened = [t \in Seat |-> t # s /\ (p.reopened[t] \/ (raised /\ full))]
       /\ a.raiser = IF raised THEN s ELSE p.raiser
       /\ a.aggressor = IF raised /\ r.street = Preflop THEN s ELSE p.aggressor
       /\ a.calledAllIn = (p.calledAllIn \/ (l.verb = "Call" /\ l.all_in))
       /\ a.at = p.at
  BY <1>3 DEF RealTable
<1>11. a \in RealTable
  BY <1>3, <1>9 DEF RealTable, LineType
<1>. HIDE DEF a, raised, full
<1>12. /\ a.seated = r.seated /\ a.button = r.button /\ a.street = r.street
       /\ a.stack = Less(r.stack, l.seat, PaidBy(r, l))
       /\ a.contrib = More(r.contrib, l.seat, PaidBy(r, l))
       /\ a.total = More(r.total, l.seat, PaidBy(r, l))
       /\ a.acted = [r.acted EXCEPT ![l.seat] = TRUE]
       /\ a.folded = [r.folded EXCEPT ![l.seat] = l.verb = "Fold"]
       /\ a.bet = Greater(r.bet, GoesTo(r, l))
       /\ a.min = IF RaisesBy(r, l) /\ FullAt(r, l)
                  THEN Above(r, l) ELSE r.min
       /\ a.reopened = [t \in Seat |-> t # l.seat
                           /\ (r.reopened[t] \/ (RaisesBy(r, l) /\ FullAt(r, l)))]
       /\ a.raiser = IF RaisesBy(r, l) THEN l.seat ELSE r.raiser
       /\ a.aggressor = IF RaisesBy(r, l) /\ r.street = Preflop THEN l.seat
                        ELSE r.aggressor
       /\ a.calledAllIn = (r.calledAllIn \/ (l.verb = "Call" /\ l.all_in))
  BY <1>1, <1>3, <1>m, <1>8, <1>10, Zenon
<1>. QED
  BY <1>7, <1>11, <1>12 DEF LineChanges
\* A line keeps the chips sound, settles its seat, and leaves the waiting seats
\* right behind it.
LEMMA AfterLineSound ==
  ASSUME NEW r \in RealTable, Sound(r), r.at # None, NEW l \in Lines(r),
         NEW a \in RealTable,
         LineChanges(r, l, a)
  PROVE  /\ SoundChips(a)
         /\ PostedInFullAt(a) => PostedInFullAt(r)
         /\ r.at \notin Waiting(a)
         /\ Left(r.at) \in CanAct(a) /\ Left(Left(r.at)) \in Waiting(a)
              => Left(r.at) \in Waiting(a)
<1>. USE DEF LineChanges
<1>1. PICK s \in Seat, n \in Nat : s = r.at /\ s = l.seat /\ n = PaidBy(r, l)
  BY ActorFacts, LineFacts
<1>2. /\ r.seated[s] /\ ~r.folded[s] /\ r.stack[s] > 0
      /\ r.stack[s] \in Nat /\ r.contrib[s] \in Nat /\ r.total[s] \in Nat
      /\ r.contrib[s] <= r.bet /\ r.bet \in Nat /\ r.min \in Nat /\ r.min > 0
      /\ s \in Waiting(r)
  BY <1>1, ActorFacts
<1>3. /\ n <= r.stack[s]
      /\ l.verb \in {"Fold", "Check", "Call", "Bet", "Raise"}
      /\ l.verb \in {"Fold", "Check"} => n = 0
      /\ l.verb = "Fold" => r.contrib[s] < r.bet
      /\ l.verb = "Check" => r.contrib[s] = r.bet
      /\ l.verb = "Call" => /\ r.contrib[s] < r.bet
                            /\ n = Lesser(r.bet - r.contrib[s], r.stack[s])
      /\ l.verb \in {"Bet", "Raise"} => r.contrib[s] + n > r.bet
  <2>1. /\ l \in LineType
        /\ PaidBy(r, l) <= r.stack[r.at]
        /\ l.verb \in {"Fold", "Check"} => PaidBy(r, l) = 0
        /\ l.verb = "Fold" => r.contrib[r.at] < r.bet
        /\ l.verb = "Check" => r.contrib[r.at] = r.bet
        /\ l.verb = "Call" =>
             /\ r.contrib[r.at] < r.bet
             /\ PaidBy(r, l) = Lesser(r.bet - r.contrib[r.at], r.stack[r.at])
        /\ l.verb \in {"Bet", "Raise"} => r.contrib[r.at] + PaidBy(r, l) > r.bet
    BY LineFacts
  <2>2. l.verb \in {"Fold", "Check", "Call", "Bet", "Raise"}
    BY <2>1 DEF LineType
  <2>. QED
    BY <1>1, <2>1, <2>2
<1>4. /\ r.contrib \in [Seat -> Nat] /\ r.stack \in [Seat -> Nat] /\ r.total \in [Seat -> Nat]
      /\ r.acted \in [Seat -> BOOLEAN] /\ r.folded \in [Seat -> BOOLEAN]
      /\ r.seated \in [Seat -> BOOLEAN]
  BY DEF RealTable
<1>5. /\ a.stack[s] = r.stack[s] - n /\ a.contrib[s] = r.contrib[s] + n
      /\ a.total[s] = r.total[s] + n
      /\ \A t \in Seat : t # s => /\ a.stack[t] = r.stack[t]
                                  /\ a.contrib[t] = r.contrib[t]
                                  /\ a.total[t] = r.total[t]
  BY <1>1, <1>4 DEF Less, More
<1>6. /\ a.acted[s] = TRUE
      /\ \A t \in Seat : t # s => a.acted[t] = r.acted[t] /\ a.folded[t] = r.folded[t]
      /\ a.folded[s] <=> l.verb = "Fold"
  BY <1>1, <1>4
<1>7. /\ a.bet = Greater(r.bet, r.contrib[s] + n)
      /\ a.bet \in Nat /\ a.bet >= r.bet /\ a.bet >= r.contrib[s] + n
      /\ a.bet = r.bet \/ a.bet = r.contrib[s] + n
  BY <1>1, <1>2 DEF Greater, GoesTo
<1>8. SoundChips(r)
  BY DEF Sound
<1>9. BigBlindSeat(a) = BigBlindSeat(r) /\ BigBlindSeat(r) \in Seat
  BY <1>8, BlindSeatsKept, BlindSeats DEF SoundChips
<1>10. PostedInFullAt(a) => PostedInFullAt(r)
  <2>. SUFFICES ASSUME ~PostedInFullAt(r) PROVE ~PostedInFullAt(a)
    OBVIOUS
  <2>1. r.stack[BigBlindSeat(r)] = 0
    BY <1>8 DEF SoundChips
  <2>2. BigBlindSeat(r) # s
    BY <2>1, <1>2
  <2>. QED
    BY <2>2, <1>5, <1>9 DEF PostedInFullAt
<1>11. \A t \in Seat : a.contrib[t] <= a.bet
  BY <1>4, <1>5, <1>7, <1>8, <1>2 DEF SoundChips
<1>12. SoundChips(a)
  <2>1. a.min >= BIG_BLIND
    <3>1. r.min >= BIG_BLIND
      BY <1>8 DEF SoundChips
    <3>2. CASE RaisesBy(r, l) /\ FullAt(r, l)
      <4>1. Above(r, l) >= r.min /\ Above(r, l) \in Int
        BY <3>2, <1>1, <1>2 DEF FullAt, Above, GoesTo
      <4>2. a.min = Above(r, l)
        BY <3>2
      <4>. QED
        BY <3>1, <4>1, <4>2, <1>2, BlindFacts
    <3>3. CASE ~(RaisesBy(r, l) /\ FullAt(r, l))
      BY <3>1, <3>3
    <3>. QED
      BY <3>2, <3>3
  <2>2. a.seated[a.button] /\ \E x, y \in Seat : x # y /\ a.seated[x] /\ a.seated[y]
    BY <1>8 DEF SoundChips
  <2>3. a.street = Preflop => a.total = a.contrib
    BY <1>8 DEF SoundChips, More
  <2>4. a.street # Preflop => \A t \in Seat : ~a.acted[t] => a.contrib[t] = 0
    BY <1>5, <1>6, <1>8 DEF SoundChips
  <2>5. PostedInFullAt(a) => \E t \in Seat : a.contrib[t] = a.bet
    <3>. SUFFICES ASSUME PostedInFullAt(a) PROVE \E t \in Seat : a.contrib[t] = a.bet
      OBVIOUS
    <3>1. PICK t \in Seat : r.contrib[t] = r.bet
      BY <1>8, <1>10 DEF SoundChips
    <3>2. CASE a.bet = r.contrib[s] + n
      BY <3>2, <1>5
    <3>3. CASE a.bet # r.contrib[s] + n
      <4>1. a.bet = r.bet /\ l.verb \notin {"Bet", "Raise"}
        BY <3>3, <1>2, <1>3, <1>7 DEF Greater
      <4>2. t # s
        BY <3>1, <3>3, <4>1, <1>2, <1>3
      <4>. QED
        BY <3>1, <4>1, <4>2, <1>5
    <3>. QED
      BY <3>2, <3>3
  <2>6. ~PostedInFullAt(a) => a.stack[BigBlindSeat(a)] = 0
    <3>. SUFFICES ASSUME ~PostedInFullAt(a) PROVE a.stack[BigBlindSeat(a)] = 0
      OBVIOUS
    <3>1. a.total[BigBlindSeat(r)] >= r.total[BigBlindSeat(r)]
      BY <1>2, <1>4, <1>5, <1>9
    <3>2. /\ a.total[BigBlindSeat(r)] \in Nat /\ r.total[BigBlindSeat(r)] \in Nat
      BY <1>4, <1>9 DEF RealTable
    <3>3. ~PostedInFullAt(r)
      BY <3>1, <3>2, <1>9, BlindFacts DEF PostedInFullAt
    <3>4. r.stack[BigBlindSeat(r)] = 0
      BY <3>3, <1>8 DEF SoundChips
    <3>. QED
      BY <3>4, <1>2, <1>5, <1>9
  <2>. QED
    BY <2>1, <2>2, <2>3, <2>4, <2>5, <2>6, <1>11 DEF SoundChips
<1>13. s \notin Waiting(a)
  <2>1. CASE l.verb = "Fold"
    BY <2>1, <1>6, SeatsOf DEF Waiting
  <2>2. CASE l.verb # "Fold"
    <3>1. a.contrib[s] = a.bet \/ a.stack[s] = 0
      BY <2>2, <1>2, <1>3, <1>5, <1>7 DEF Lesser, Greater
    <3>. QED
      BY <3>1, <1>6, <1>7, SeatsOf DEF Waiting
  <2>. QED
    BY <2>1, <2>2
<1>14. Left(s) \in CanAct(a) /\ Left(Left(s)) \in Waiting(a) => Left(s) \in Waiting(a)
  <2>. SUFFICES ASSUME Left(s) \in CanAct(a), Left(Left(s)) \in Waiting(a)
                PROVE  Left(s) \in Waiting(a)
    OBVIOUS
  <2>1. /\ Left(s) \in Seat /\ Left(Left(s)) \in Seat /\ Left(s) # s /\ Left(Left(s)) # s
    BY LeftFacts
  <2>2. /\ Left(s) \in CanAct(r)
        /\ Left(Left(s)) \in CanAct(r)
    <3>1. Left(Left(s)) \in CanAct(a)
      BY DEF Waiting
    <3>2. \A t \in Seat : t # s /\ t \in CanAct(a) => t \in CanAct(r)
      BY <1>5, <1>6, SeatsOf
    <3>. QED
      BY <2>1, <3>1, <3>2
  <2>3. CASE a.bet = r.bet
    <3>1. Left(Left(s)) \in Waiting(r)
      BY <2>1, <2>2, <2>3, <1>5, <1>6 DEF Waiting
    <3>2. Left(s) \in Waiting(r)
      BY <3>1, <2>2, <1>1 DEF Sound, InTurn
    <3>. QED
      BY <3>2, <2>1, <2>3, <1>5, <1>6 DEF Waiting
  <2>4. CASE a.bet # r.bet
    <3>1. a.contrib[Left(s)] < a.bet
      <4>1. r.contrib[Left(s)] <= r.bet /\ r.contrib[Left(s)] \in Nat
        BY <2>1, <1>4, <1>8 DEF SoundChips
      <4>. QED
        BY <4>1, <2>1, <2>4, <1>2, <1>5, <1>7
    <3>. QED
      BY <3>1 DEF Waiting
  <2>. QED
    BY <2>3, <2>4
<1>. QED
  BY <1>1, <1>10, <1>12, <1>13, <1>14

\* The seat that is asked after s is the next one that can act.
LEMMA NextAsked ==
  ASSUME NEW a \in RealTable, NEW s \in Seat, SoundChips(a),
         s \notin Waiting(a),
         Left(s) \in CanAct(a) /\ Left(Left(s)) \in Waiting(a) => Left(s) \in Waiting(a),
         NEW f \in SeatOrNone, f = FirstFrom(a, Left(s)),
         NEW q \in RealTable, q = WithActor(a, f)
  PROVE  /\ f # None => /\ f \in Waiting(a)
                        /\ f = IF Left(s) \in CanAct(a) THEN Left(s) ELSE Left(Left(s))
                        /\ Cardinality(Playing(a)) # 1
         /\ Sound(q)
         /\ f = None /\ Cardinality(Playing(a)) # 1 /\ Cardinality(CanAct(a)) >= 2
              => Waiting(a) = {}
<1>1. /\ Left(s) \in Seat /\ Left(Left(s)) \in Seat /\ Left(s) # s /\ Left(Left(s)) # s
      /\ Left(Left(s)) # Left(s) /\ Left(Left(Left(s))) = s
      /\ \A t \in Seat : t \in {s, Left(s), Left(Left(s))}
  BY LeftFacts
<1>2. \A t \in Seat : /\ MustAct(a, t) => t \in Waiting(a)
                      /\ t \in Waiting(a) /\ Others(a, t) # {} => MustAct(a, t)
  BY MustActFacts DEF SoundChips
<1>3. /\ f # None => MustAct(a, f) /\ Cardinality(Playing(a)) # 1
      /\ f = None => \/ Cardinality(Playing(a)) = 1
                     \/ \A t \in Seat : ~MustAct(a, t)
      /\ f = Left(s) \/ ~MustAct(a, Left(s)) \/ Cardinality(Playing(a)) = 1
  BY <1>1, FirstFromFacts
<1>4. f # None => f \in Waiting(a) /\ f \in Seat /\ f \in CanAct(a)
  BY <1>2, <1>3 DEF SeatOrNone, Waiting
<1>5. \A t, u \in Seat : u \in CanAct(a) /\ t # u => Others(a, t) # {}
  BY OthersFacts
<1>6. f # None => f = IF Left(s) \in CanAct(a) THEN Left(s) ELSE Left(Left(s))
  <2>. SUFFICES ASSUME f # None
                PROVE  f = IF Left(s) \in CanAct(a) THEN Left(s) ELSE Left(Left(s))
    OBVIOUS
  <2>1. f # s
    BY <1>4
  <2>2. CASE f = Left(s)
    BY <2>2, <1>4
  <2>3. CASE f = Left(Left(s))
    <3>1. Left(s) \notin CanAct(a)
      <4>. SUFFICES ASSUME Left(s) \in CanAct(a) PROVE FALSE
        OBVIOUS
      <4>1. Left(s) \in Waiting(a)
        BY <2>3, <1>4
      <4>2. Others(a, Left(s)) # {}
        BY <2>3, <1>1, <1>4, <1>5
      <4>3. MustAct(a, Left(s))
        BY <4>1, <4>2, <1>1, <1>2
      <4>. QED
        BY <4>3, <2>3, <1>1, <1>3
    <3>. QED
      BY <2>3, <3>1
  <2>. QED
    BY <2>1, <2>2, <2>3, <1>1, <1>4
<1>7. /\ q.at = f
      /\ q.seated = a.seated /\ q.button = a.button /\ q.stack = a.stack
      /\ q.contrib = a.contrib /\ q.total = a.total /\ q.bet = a.bet
      /\ q.min = a.min /\ q.acted = a.acted /\ q.street = a.street
      /\ Playing(q) = Playing(a) /\ CanAct(q) = CanAct(a)
      /\ Waiting(q) = Waiting(a)
      /\ \A x : MustAct(q, x) <=> MustAct(a, x)
      /\ BigBlindSeat(q) = BigBlindSeat(a)
  BY ActorOf
<1>8. SoundChips(q)
  BY <1>7 DEF SoundChips, PostedInFullAt
<1>9. q.at # None => InTurn(q)
  <2>. SUFFICES ASSUME f # None PROVE InTurn(q)
    BY <1>7
  <2>1. MustAct(q, q.at) /\ Cardinality(Playing(q)) # 1
    BY <1>3, <1>7
  <2>2. Left(f) \in CanAct(a) /\ Left(Left(f)) \in Waiting(a) => Left(f) \in Waiting(a)
    <3>1. CASE f = Left(s)
      BY <3>1, <1>1
    <3>2. CASE f = Left(Left(s)) /\ Left(s) \notin CanAct(a)
      BY <3>2, <1>1 DEF Waiting
    <3>. QED
      BY <3>1, <3>2, <1>6
  <2>. QED
    BY <2>1, <2>2, <1>7 DEF InTurn
<1>10. f = None /\ Cardinality(Playing(a)) # 1 /\ Cardinality(CanAct(a)) >= 2
         => Waiting(a) = {}
  <2>. SUFFICES ASSUME f = None, Cardinality(Playing(a)) # 1, Cardinality(CanAct(a)) >= 2,
                       NEW t \in Waiting(a)
                PROVE  FALSE
    OBVIOUS
  <2>1. t \in Seat
    BY SeatsOf DEF Waiting
  <2>2. Others(a, t) # {}
    BY <2>1, OthersFacts
  <2>. QED
    BY <2>1, <2>2, <1>2, <1>3
<1>. QED
  BY <1>3, <1>4, <1>6, <1>8, <1>9, <1>10 DEF Sound

(***************************************************************************)
(* The next street of the real table.                                      *)
(***************************************************************************)
NextStreet(r) ==
  [r EXCEPT !.street = @ + 1, !.contrib = NoChips, !.bet = 0,
            !.min = BIG_BLIND, !.acted = NoSeat, !.raiser = None]

\* The three things that may follow a line: somebody acts, the hand is over, or
\* the next street comes.
LEMMA SettledCases ==
  ASSUME NEW r
  PROVE  Settled(r) =
           IF r.at # None THEN r
           ELSE IF r.street = River \/ Cardinality(CanAct(r)) < 2 \/ Cardinality(Playing(r)) = 1
           THEN r
           ELSE WithActor(NextStreet(r), FirstFrom(NextStreet(r), Left(r.button)))
BY Zenon DEF Settled, NextStreet, WithActor

\* A new street takes the bets in and leaves the stacks and the folds alone.
LEMMA NextStreetFacts ==
  ASSUME NEW r \in RealTable, r.street # River
  PROVE  \E q \in RealTable :
           /\ q = NextStreet(r)
           /\ q.street = r.street + 1 /\ q.contrib = NoChips /\ q.bet = 0
           /\ q.min = BIG_BLIND /\ q.acted = NoSeat /\ q.raiser = None
           /\ q.seated = r.seated /\ q.button = r.button /\ q.stack = r.stack
           /\ q.total = r.total /\ q.reopened = r.reopened /\ q.folded = r.folded
           /\ q.at = r.at /\ q.aggressor = r.aggressor
           /\ q.calledAllIn = r.calledAllIn
<1>1. r.street + 1 \in Street
  BY FoldRange DEF RealTable
<1>2. NoChips \in [Seat -> Nat] /\ NoSeat \in [Seat -> BOOLEAN] /\ None \in SeatOrNone
      /\ BIG_BLIND \in Nat
  BY BlindFacts DEF NoChips, NoSeat, SeatOrNone
<1>3. NextStreet(r) \in RealTable
  BY <1>1, <1>2 DEF NextStreet, RealTable
<1>4. LET q == NextStreet(r) IN
           /\ q.street = r.street + 1 /\ q.contrib = NoChips /\ q.bet = 0
           /\ q.min = BIG_BLIND /\ q.acted = NoSeat /\ q.raiser = None
           /\ q.seated = r.seated /\ q.button = r.button /\ q.stack = r.stack
           /\ q.total = r.total /\ q.reopened = r.reopened /\ q.folded = r.folded
           /\ q.at = r.at /\ q.aggressor = r.aggressor
           /\ q.calledAllIn = r.calledAllIn
  BY DEF NextStreet, RealTable
<1>. QED
  BY <1>3, <1>4

\* A street on which two seats can act is opened by one that must.
LEMMA StreetOpens ==
  ASSUME NEW r \in RealTable, SoundChips(r), r.street # River,
         Cardinality(CanAct(r)) >= 2, Cardinality(Playing(r)) # 1,
         NEW q \in RealTable, q = NextStreet(r),
         q.street = r.street + 1, q.contrib = NoChips, q.bet = 0,
         q.min = BIG_BLIND, q.acted = NoSeat,
         q.seated = r.seated, q.button = r.button, q.stack = r.stack,
         q.total = r.total, q.folded = r.folded,
         NEW g \in SeatOrNone, g = FirstFrom(q, Left(r.button)),
         NEW p \in RealTable, p = WithActor(q, g)
  PROVE  /\ Sound(p) /\ p.at = g /\ g # None
         /\ p.street = q.street /\ p.contrib = NoChips /\ p.bet = 0
         /\ p.min = BIG_BLIND /\ p.acted = NoSeat
         /\ p.seated = r.seated /\ p.button = r.button /\ p.stack = r.stack
         /\ p.total = r.total /\ p.folded = r.folded /\ p.raiser = q.raiser
         /\ p.aggressor = q.aggressor /\ p.calledAllIn = q.calledAllIn
         /\ p.reopened = q.reopened
         /\ CanAct(p) = CanAct(r)
         /\ PostedInFullAt(p) <=> PostedInFullAt(r)
<1>1. Playing(q) = Playing(r)
  BY DEF Playing
<1>2. CanAct(q) = CanAct(r)
  BY <1>1 DEF CanAct
<1>3. Left(r.button) \in Seat
  BY LeftFacts DEF RealTable
<1>4. /\ p.at = g
      /\ p.seated = q.seated /\ p.button = q.button /\ p.stack = q.stack
      /\ p.contrib = q.contrib /\ p.total = q.total /\ p.bet = q.bet
      /\ p.min = q.min /\ p.acted = q.acted /\ p.reopened = q.reopened
      /\ p.folded = q.folded /\ p.street = q.street
      /\ p.raiser = q.raiser /\ p.aggressor = q.aggressor
      /\ p.calledAllIn = q.calledAllIn
      /\ Playing(p) = Playing(q) /\ CanAct(p) = CanAct(q)
      /\ Waiting(p) = Waiting(q)
      /\ \A s : MustAct(p, s) <=> MustAct(q, s)
      /\ BigBlindSeat(p) = BigBlindSeat(q)
  BY ActorOf
<1>5. \A s \in Seat : q.contrib[s] = 0 /\ ~q.acted[s]
  BY DEF NoChips, NoSeat
<1>6. Waiting(q) = CanAct(q)
  BY <1>5, SeatsOf DEF Waiting
<1>7. \A s \in CanAct(q) : MustAct(q, s)
  <2>. SUFFICES ASSUME NEW s \in CanAct(q) PROVE MustAct(q, s)
    OBVIOUS
  <2>1. s \in Seat
    BY SeatsOf
  <2>2. Others(q, s) # {}
    BY <1>2, <2>1, OthersFacts
  <2>. QED
    BY <1>5, <1>6, <2>1, <2>2, MustActFacts
<1>8. CanAct(q) # {}
  <2>1. CanAct(r) \in SUBSET Seat
    BY SeatsOf
  <2>. QED
    BY <1>2, <2>1, TwoSeats
<1>9. g # None /\ MustAct(q, g) /\ Cardinality(Playing(q)) # 1
  <2>1. \E s \in Seat : MustAct(q, s)
    BY <1>7, <1>8, SeatsOf
  <2>. QED
    BY <1>1, <1>3, <2>1, FirstFromFacts
<1>10. InTurn(p)
  BY <1>4, <1>6, <1>9 DEF InTurn, Waiting
<1>11. BigBlindSeat(q) = BigBlindSeat(r)
  BY BlindSeatsKept
<1>12. PostedInFullAt(p) <=> PostedInFullAt(r)
  BY <1>4, <1>11 DEF PostedInFullAt
<1>13. SoundChips(p)
  <2>1. p.min >= BIG_BLIND
    BY <1>4, BlindFacts
  <2>2. p.seated[p.button] /\ \E s, t \in Seat : s # t /\ p.seated[s] /\ p.seated[t]
    BY <1>4 DEF SoundChips
  <2>3. /\ \A s \in Seat : p.contrib[s] <= p.bet /\ p.contrib[s] = 0
        /\ \E s \in Seat : p.contrib[s] = p.bet
    BY <1>4, <1>5, SeatFacts
  <2>4. p.street # Preflop
    BY <1>4, FoldRange DEF RealTable
  <2>5. ~PostedInFullAt(p) => p.stack[BigBlindSeat(p)] = 0
    BY <1>4, <1>11, <1>12 DEF SoundChips
  <2>. QED
    BY <2>1, <2>2, <2>3, <2>4, <2>5 DEF SoundChips
<1>. QED
  BY <1>1, <1>2, <1>4, <1>9, <1>10, <1>12, <1>13 DEF Sound

\* What is carried over to the table at which the next seat is asked.
Carried(r, a, p) ==
  /\ p.seated = r.seated /\ p.button = r.button
  /\ p.stack = a.stack /\ p.total = a.total /\ p.folded = a.folded
  /\ p.aggressor = a.aggressor /\ p.calledAllIn = a.calledAllIn
  /\ p.reopened = a.reopened

\* The next seat is asked on the same street.
AskedNext(r, a, p) ==
  /\ p.at # None
  /\ p.at \in Waiting(a)
  /\ p.at = IF Left(r.at) \in CanAct(a) THEN Left(r.at) ELSE Left(Left(r.at))
  /\ Cardinality(Playing(a)) # 1
  /\ p.street = r.street /\ p.contrib = a.contrib /\ p.bet = a.bet
  /\ p.min = a.min /\ p.acted = a.acted /\ p.raiser = a.raiser

\* No seat waits any more, and the next street is opened.
OpenedNext(r, a, p) ==
  /\ p.at # None
  /\ Waiting(a) = {}
  /\ Cardinality(CanAct(p)) >= 2
  /\ Cardinality(Playing(a)) # 1
  /\ r.street # River /\ p.street = r.street + 1
  /\ p.contrib = NoChips /\ p.bet = 0 /\ p.min = BIG_BLIND
  /\ p.acted = NoSeat /\ p.raiser = None

\* What a line makes of the table: the table after it with the next seat asked
\* or nobody; or the next street, once no seat waits any more.
LEMMA PlayedCases ==
  ASSUME NEW r \in RealTable, Sound(r), r.at # None, NEW l \in Lines(r)
  PROVE  \E a, p \in RealTable :
           /\ a = AfterLine(r, l) /\ p = Played(r, l)
           /\ LineChanges(r, l, a)
           /\ SoundChips(a)
           /\ Sound(p)
           /\ PostedInFullAt(p) => PostedInFullAt(r)
           /\ Carried(r, a, p)
           /\ \/ AskedNext(r, a, p)
              \/ OpenedNext(r, a, p)
              \/ p.at = None
<1>1. /\ r.at \in Seat /\ l \in LineType /\ l.seat = r.at
      /\ PaidBy(r, l) \in Nat /\ PaidBy(r, l) <= r.stack[l.seat]
  BY ActorFacts, LineFacts
<1>t. PICK a \in RealTable : a = AfterLine(r, l) /\ LineChanges(r, l, a)
  BY <1>1, AfterLineFacts, Zenon
<1>2. /\ a = AfterLine(r, l)
      /\ LineChanges(r, l, a)
      /\ a.seated = r.seated /\ a.button = r.button /\ a.street = r.street
  BY <1>t, Zenon DEF LineChanges
<1>3. /\ SoundChips(a)
      /\ PostedInFullAt(a) => PostedInFullAt(r)
      /\ r.at \notin Waiting(a)
      /\ Left(r.at) \in CanAct(a) /\ Left(Left(r.at)) \in Waiting(a)
           => Left(r.at) \in Waiting(a)
  BY <1>2, AfterLineSound, Zenon
<1>4. PICK f \in SeatOrNone : f = FirstFrom(a, Left(r.at))
  BY <1>1, LeftFacts, FirstFromFacts
<1>5. PICK q \in RealTable :
         /\ q = WithActor(a, f)
         /\ q.at = f
         /\ q.seated = a.seated /\ q.button = a.button /\ q.stack = a.stack
         /\ q.contrib = a.contrib /\ q.total = a.total /\ q.bet = a.bet
         /\ q.min = a.min /\ q.acted = a.acted /\ q.reopened = a.reopened
         /\ q.folded = a.folded /\ q.street = a.street
         /\ q.raiser = a.raiser /\ q.aggressor = a.aggressor
         /\ q.calledAllIn = a.calledAllIn
         /\ Playing(q) = Playing(a) /\ CanAct(q) = CanAct(a)
         /\ BigBlindSeat(q) = BigBlindSeat(a)
  BY ActorOf
<1>6. /\ f # None => /\ f \in Waiting(a)
                     /\ f = IF Left(r.at) \in CanAct(a) THEN Left(r.at) ELSE Left(Left(r.at))
                     /\ Cardinality(Playing(a)) # 1
      /\ Sound(q)
      /\ f = None /\ Cardinality(Playing(a)) # 1 /\ Cardinality(CanAct(a)) >= 2
           => Waiting(a) = {}
  BY <1>1, <1>3, <1>4, <1>5, NextAsked, Zenon
<1>7. Played(r, l) = Settled(q)
  BY <1>1, <1>2, <1>4, <1>5, PlayedAfterLine
<1>8. PostedInFullAt(q) => PostedInFullAt(r)
  BY <1>3, <1>5 DEF PostedInFullAt
<1>9. CASE f # None
  <2>1. Played(r, l) = q
    BY <1>5, <1>7, <1>9, SettledCases
  <2>2. /\ q.seated = r.seated /\ q.button = r.button
        /\ q.stack = a.stack /\ q.total = a.total /\ q.folded = a.folded
        /\ q.aggressor = a.aggressor /\ q.calledAllIn = a.calledAllIn
        /\ q.reopened = a.reopened
        /\ q.at # None /\ q.at \in Waiting(a)
        /\ q.at = IF Left(r.at) \in CanAct(a) THEN Left(r.at) ELSE Left(Left(r.at))
        /\ Cardinality(Playing(a)) # 1
        /\ q.street = r.street /\ q.contrib = a.contrib /\ q.bet = a.bet
        /\ q.min = a.min /\ q.acted = a.acted /\ q.raiser = a.raiser
    BY <1>2, <1>5, <1>6, <1>9
  <2>3. Carried(r, a, q) /\ AskedNext(r, a, q)
    BY <2>2, Zenon DEF Carried, AskedNext
  <2>. QED
    BY <1>2, <1>3, <1>6, <1>8, <2>1, <2>3, Zenon
<1>10. CASE /\ f = None
            /\ r.street = River \/ Cardinality(CanAct(q)) < 2 \/ Cardinality(Playing(q)) = 1
  <2>1. Played(r, l) = q
    BY <1>2, <1>5, <1>7, <1>10, SettledCases
  <2>2. /\ q.seated = r.seated /\ q.button = r.button
        /\ q.stack = a.stack /\ q.total = a.total /\ q.folded = a.folded
        /\ q.aggressor = a.aggressor /\ q.calledAllIn = a.calledAllIn
        /\ q.reopened = a.reopened /\ q.at = None /\ q.street = r.street
    BY <1>2, <1>5, <1>10
  <2>3. Carried(r, a, q)
    BY <2>2, Zenon DEF Carried
  <2>. QED
    BY <1>2, <1>3, <1>6, <1>8, <2>1, <2>2, <2>3, Zenon
<1>11. CASE /\ f = None
            /\ ~(r.street = River \/ Cardinality(CanAct(q)) < 2 \/ Cardinality(Playing(q)) = 1)
  <2>1. /\ q.street # River /\ Cardinality(Playing(q)) # 1 /\ q.at = None
        /\ Cardinality(CanAct(q)) >= 2
    <3>1. CanAct(q) \in SUBSET Seat
      BY SeatsOf
    <3>2. Cardinality(CanAct(q)) \in Nat
      BY <3>1, SeatSetsAreFinite
    <3>. QED
      BY <3>2, <1>2, <1>5, <1>11
  <2>2. PICK n \in RealTable :
           /\ n = NextStreet(q)
           /\ n.street = q.street + 1 /\ n.contrib = NoChips /\ n.bet = 0
           /\ n.min = BIG_BLIND /\ n.acted = NoSeat /\ n.raiser = None
           /\ n.seated = q.seated /\ n.button = q.button /\ n.stack = q.stack
           /\ n.total = q.total /\ n.reopened = q.reopened /\ n.folded = q.folded
           /\ n.aggressor = q.aggressor
           /\ n.calledAllIn = q.calledAllIn
    BY <2>1, NextStreetFacts
  <2>3. PICK g \in SeatOrNone : g = FirstFrom(n, Left(q.button))
    <3>1. Left(q.button) \in Seat
      BY LeftFacts DEF RealTable
    <3>. QED
      BY <3>1, FirstFromFacts
  <2>4. PICK p \in RealTable : p = WithActor(n, g)
    BY ActorOf
  <2>5. Played(r, l) = p
    BY <1>7, <2>1, <2>2, <2>3, <2>4, <1>11, SettledCases
  <2>6. /\ Sound(p) /\ p.at = g /\ g # None
        /\ p.street = n.street /\ p.contrib = NoChips /\ p.bet = 0
        /\ p.min = BIG_BLIND /\ p.acted = NoSeat
        /\ p.seated = q.seated /\ p.button = q.button /\ p.stack = q.stack
        /\ p.total = q.total /\ p.folded = q.folded /\ p.raiser = n.raiser
        /\ p.aggressor = n.aggressor /\ p.calledAllIn = n.calledAllIn
        /\ p.reopened = n.reopened
        /\ CanAct(p) = CanAct(q)
        /\ PostedInFullAt(p) <=> PostedInFullAt(q)
    <3>1. SoundChips(q)
      BY <1>6 DEF Sound
    <3>2. q.street # River /\ Cardinality(CanAct(q)) >= 2 /\ Cardinality(Playing(q)) # 1
      BY <2>1
    <3>3. g = FirstFrom(n, Left(q.button)) /\ p = WithActor(n, g)
      BY <2>3, <2>4
    <3>. QED
      BY <3>1, <3>2, <3>3, <2>2, StreetOpens
  <2>7. Waiting(a) = {} /\ Cardinality(Playing(a)) # 1
    BY <1>5, <1>6, <1>11, <2>1
  <2>8. /\ Cardinality(CanAct(p)) >= 2 /\ r.street # River /\ p.street = r.street + 1
        /\ p.raiser = None /\ p.at # None
        /\ p.seated = r.seated /\ p.button = r.button
        /\ p.stack = a.stack /\ p.total = a.total /\ p.folded = a.folded
        /\ p.aggressor = a.aggressor /\ p.calledAllIn = a.calledAllIn
        /\ p.reopened = a.reopened
    BY <1>2, <1>5, <1>11, <2>1, <2>2, <2>6
  <2>9. Carried(r, a, p) /\ OpenedNext(r, a, p)
    BY <2>6, <2>7, <2>8, Zenon DEF Carried, OpenedNext
  <2>. QED
    BY <1>2, <1>3, <1>8, <2>5, <2>6, <2>9, Zenon
<1>. QED
  BY <1>9, <1>10, <1>11

(***************************************************************************)
(* The line the walk converts for the engine.                              *)
(***************************************************************************)
\* The walk holds a line, and the engine stands where the real table does.
Following ==
  /\ walk.at = "Walk"
  /\ real.at # None
  /\ SameSeats
  /\ SameStreet

\* The prices are the same at both tables.
LEMMA SamePrices ==
  ASSUME Sound(real), WalkSound, Following
  PROVE  /\ to_act \in Seat /\ to_act = real.at /\ to_act = walk.line.seat
         /\ walk.line \in Lines(real) /\ walk.line \in LineType
         /\ stack_to_act = real.stack[to_act]
         /\ max_bet = real.contrib[to_act] + real.stack[to_act]
         /\ to_call = real.bet - real.contrib[to_act]
         /\ call_amount = Lesser(real.bet - real.contrib[to_act], real.stack[to_act])
         /\ real.stack[to_act] \in Nat /\ real.stack[to_act] > 0
         /\ real.contrib[to_act] \in Nat /\ real.bet \in Nat
         /\ real.contrib[to_act] <= real.bet
         /\ real.min \in Nat /\ real.min >= BIG_BLIND /\ BIG_BLIND \in Nat
         /\ current_bet = real.bet /\ min_raise = real.min
         /\ street_contrib[to_act] = real.contrib[to_act]
<1>0. real \in RealTable
  BY DEF Sound
<1>1. walk.line \in Lines(real) /\ to_act = real.at /\ to_act \in Seat
  BY DEF WalkSound, Following, SameStreet
<1>2. /\ real.stack[to_act] \in Nat /\ real.stack[to_act] > 0
      /\ real.contrib[to_act] \in Nat /\ real.bet \in Nat
      /\ real.contrib[to_act] <= real.bet
      /\ real.min \in Nat
  BY <1>0, <1>1, ActorFacts DEF Following
<1>3. walk.line \in LineType /\ walk.line.seat = real.at
  BY <1>0, <1>1, LineFacts DEF Following
<1>4. real.min >= BIG_BLIND /\ BIG_BLIND \in Nat
  BY BlindFacts DEF Sound, SoundChips
<1>5. /\ stacks = real.stack /\ street_contrib = real.contrib
      /\ current_bet = real.bet /\ min_raise = real.min
  BY DEF Following, SameSeats, SameStreet
<1>6. stack_to_act = real.stack[to_act]
  BY <1>5 DEF stack_to_act
<1>7. to_call = real.bet - real.contrib[to_act]
  BY <1>2, <1>5 DEF to_call, Greater
<1>. QED
  BY <1>1, <1>2, <1>3, <1>4, <1>5, <1>6, <1>7 DEF max_bet, call_amount

\* The action of a line.
LEMMA ConvertedLine ==
  ASSUME NEW l, NEW stack \in Nat, stack > 0, NEW contrib \in Nat, NEW paid \in Nat,
         stacks[l.seat] = stack, street_contrib[l.seat] = contrib,
         l.verb \in {"Fold", "Check", "Call", "Bet", "Raise"}, l.all_in \in BOOLEAN,
         l.verb = "Check" => to_call = 0,
         l.verb \in {"Call", "Bet", "Raise"} => (l.all_in <=> paid = stack),
         l.verb = "Call" => l.amount = paid,
         l.verb = "Bet" => l.amount = paid,
         l.verb = "Raise" => l.to = contrib + paid
  PROVE  /\ l.verb = "Fold" => convert_action(l) = Plain("Fold")
         /\ l.verb = "Check" => convert_action(l) = Plain("Check")
         /\ l.verb = "Call" /\ ~l.all_in => convert_action(l) = Plain("Call")
         /\ l.verb \in {"Call", "Bet", "Raise"} /\ l.all_in => convert_action(l) = Plain("AllIn")
         /\ l.verb = "Bet" /\ ~l.all_in => convert_action(l) = Sized("Bet", paid)
         /\ l.verb = "Raise" /\ ~l.all_in =>
              convert_action(l) = Sized(IF call_amount = 0 THEN "Bet" ELSE "Raise", contrib + paid)
<1>1. CASE l.verb = "Fold"
  BY <1>1 DEF convert_action
<1>2. CASE l.verb = "Check"
  BY <1>2 DEF convert_action
<1>3. CASE l.verb = "Call"
  BY <1>3 DEF convert_action
<1>4. CASE l.verb = "Bet"
  BY <1>4 DEF convert_action
<1>5. CASE l.verb = "Raise"
  <2>1. l.to - street_contrib[l.seat] = paid
    BY <1>5
  <2>. QED
    BY <1>5, <2>1 DEF convert_action
<1>. QED
  BY <1>1, <1>2, <1>3, <1>4, <1>5

\* What the engine makes of an action is what the line makes of the real table.
PlaysAs(a, l) ==
  /\ Paid(a) = PaidBy(real, l)
  /\ BetAfter(a) = Greater(real.bet, GoesTo(real, l))
  /\ FullRaise(a) <=> RaisesBy(real, l) /\ FullAt(real, l)
  /\ FullRaise(a) => BetAfter(a) - current_bet = Above(real, l)
  /\ a.kind = "Fold" <=> l.verb = "Fold"
  /\ a.kind \in {"Fold", "Check"} <=> l.verb \in {"Fold", "Check"}
  /\ ~(l.verb = "Call" /\ l.all_in) => (IsAggressive(a) <=> RaisesBy(real, l))

\* An action that pays what the line pays, and leaves the bet where the line
\* leaves it, raises as the line does.
LEMMA RaisesAlike ==
  ASSUME NEW bet \in Nat, NEW min \in Nat, min > 0, NEW goes \in Nat,
         NEW after, after = Greater(bet, goes)
  PROVE  /\ (after > bet /\ after - bet >= min) <=> (goes > bet /\ goes - bet >= min)
         /\ after > bet => after - bet = goes - bet
BY DEF Greater

\* What an action of the engine is made of.
LEMMA KindsDiffer ==
  ASSUME NEW k, NEW n
  PROVE  Plain(k).kind = k /\ Sized(k, n).kind = k /\ Sized(k, n).amount = n
BY DEF Plain, Sized

\* Every line of the real table is followed, and comes to the same.
LEMMA LineIsFollowed ==
  ASSUME Sound(real), WalkSound, Following
  PROVE  /\ allows(convert_action(walk.line))
         /\ convert_action(walk.line) # Wrong
         /\ convert_action(walk.line).kind = "Call" => walk.line.amount = call_amount
         /\ PlaysAs(convert_action(walk.line), walk.line)
<1>. DEFINE l == walk.line
            c == convert_action(l)
<1>0. real \in RealTable
  BY DEF Sound
<1>1. PICK bet \in Nat, contrib \in Nat, stack \in Nat, min \in Nat :
         /\ bet = real.bet /\ contrib = real.contrib[to_act] /\ stack = real.stack[to_act]
         /\ min = real.min
         /\ stack > 0 /\ contrib <= bet /\ min >= BIG_BLIND /\ BIG_BLIND \in Nat /\ min > 0
         /\ stack_to_act = stack /\ max_bet = contrib + stack
         /\ to_call = bet - contrib /\ call_amount = Lesser(bet - contrib, stack)
         /\ current_bet = bet /\ min_raise = min
         /\ street_contrib[to_act] = contrib
  BY SamePrices, BlindFacts
<1>2. /\ l \in LineType /\ l \in Lines(real) /\ to_act \in Seat
      /\ to_act = real.at /\ l.seat = to_act /\ real.at # None
  BY SamePrices DEF Following
<1>3. PICK paid \in Nat :
         /\ paid = PaidBy(real, l) /\ paid <= stack
         /\ l.verb \in {"Fold", "Check"} => paid = 0
         /\ l.verb = "Fold" => contrib < bet
         /\ l.verb = "Check" => contrib = bet
         /\ l.verb = "Call" =>
              /\ contrib < bet /\ l.amount = paid
              /\ paid = Lesser(bet - contrib, stack)
         /\ l.verb \in {"Call", "Bet", "Raise"} => (l.all_in <=> paid = stack)
         /\ l.verb \in {"Bet", "Raise"} =>
              /\ contrib + paid > bet
              /\ contrib + paid >= bet + min \/ paid = stack
              /\ ~real.acted[to_act] \/ real.reopened[to_act]
         /\ l.verb = "Bet" => bet = 0 /\ l.amount = paid
         /\ l.verb = "Raise" => bet > 0 /\ l.to = contrib + paid
  BY <1>0, <1>1, <1>2, LineFacts
<1>4. GoesTo(real, l) = contrib + paid /\ Above(real, l) = contrib + paid - bet
  BY <1>1, <1>2, <1>3 DEF GoesTo, Above
<1>5. /\ RaisesBy(real, l) <=> contrib + paid > bet
      /\ FullAt(real, l) <=> contrib + paid - bet >= min
  BY <1>1, <1>4 DEF RaisesBy, FullAt
<1>6. last_full_raise # to_act \/ ~(~real.acted[to_act] \/ real.reopened[to_act])
  BY <1>2 DEF Following, SameStreet
<1>7. stacks[l.seat] = stack /\ street_contrib[l.seat] = contrib
  BY <1>1, <1>2 DEF stack_to_act
<1>8. /\ l.verb \in {"Fold", "Check", "Call", "Bet", "Raise"} /\ l.all_in \in BOOLEAN
  BY <1>2 DEF LineType
<1>9. /\ l.verb = "Fold" => c = Plain("Fold")
      /\ l.verb = "Check" => c = Plain("Check")
      /\ l.verb = "Call" /\ ~l.all_in => c = Plain("Call")
      /\ l.verb \in {"Call", "Bet", "Raise"} /\ l.all_in => c = Plain("AllIn")
      /\ l.verb = "Bet" /\ ~l.all_in => c = Sized("Bet", paid)
      /\ l.verb = "Raise" /\ ~l.all_in =>
           c = Sized(IF call_amount = 0 THEN "Bet" ELSE "Raise", contrib + paid)
  <2>1. l.verb = "Check" => to_call = 0
    BY <1>1, <1>3
  <2>2. /\ l.verb \in {"Call", "Bet", "Raise"} => (l.all_in <=> paid = stack)
        /\ l.verb = "Call" => l.amount = paid
        /\ l.verb = "Bet" => l.amount = paid
        /\ l.verb = "Raise" => l.to = contrib + paid
        /\ stack > 0
    BY <1>1, <1>3
  <2>. HIDE DEF l
  <2>. QED
    BY <1>7, <1>8, <2>1, <2>2, ConvertedLine
<1>w. Wrong.kind = "Wrong"
  BY KindsDiffer DEF Wrong
<1>. HIDE DEF c, l
<1>. DEFINE Fits == /\ allows(c) /\ c # Wrong
                    /\ c.kind = "Call" => l.amount = call_amount
            After == Greater(bet, contrib + paid)
<1>10. ASSUME c.kind \in {"Fold", "Check", "Call", "Bet", "Raise", "AllIn"},
              Paid(c) = paid, BetAfter(c) = After,
              c.kind = "Fold" <=> l.verb = "Fold",
              c.kind \in {"Fold", "Check"} <=> l.verb \in {"Fold", "Check"},
              ~(l.verb = "Call" /\ l.all_in) => (IsAggressive(c) <=> contrib + paid > bet)
       PROVE  PlaysAs(c, l)
  <2>1. FullRaise(c) <=> After > bet /\ After - bet >= min
    BY <1>1, <1>10 DEF FullRaise
  <2>2. /\ (After > bet /\ After - bet >= min) <=> (contrib + paid > bet /\ contrib + paid - bet >= min)
        /\ After > bet => After - bet = contrib + paid - bet
    <3>1. contrib + paid \in Nat
      BY <1>1, <1>3
    <3>. QED
      BY <1>1, <3>1, RaisesAlike
  <2>3. FullRaise(c) => BetAfter(c) - current_bet = Above(real, l)
    BY <1>1, <1>4, <1>10, <2>1, <2>2
  <2>4. BetAfter(c) = Greater(real.bet, GoesTo(real, l))
    BY <1>1, <1>4, <1>10
  <2>. QED
    BY <1>3, <1>5, <1>10, <2>1, <2>2, <2>3, <2>4 DEF PlaysAs
<1>11. CASE l.verb = "Fold"
  <2>1. c.kind = "Fold" /\ Paid(c) = 0 /\ BetAfter(c) = bet /\ ~IsAggressive(c)
    BY <1>1, <1>9, <1>11, KindsDiffer DEF Paid, BetAfter, IsAggressive
  <2>2. allows(c)
    BY <1>1, <1>3, <1>11, <2>1 DEF allows, can_fold
  <2>3. After = bet /\ paid = 0 /\ ~(contrib + paid > bet)
    BY <1>1, <1>3, <1>11 DEF Greater
  <2>. QED
    BY <1>10, <1>11, <1>w, <2>1, <2>2, <2>3 DEF c, l
<1>12. CASE l.verb = "Check"
  <2>1. c.kind = "Check" /\ Paid(c) = 0 /\ BetAfter(c) = bet /\ ~IsAggressive(c)
    BY <1>1, <1>9, <1>12, KindsDiffer DEF Paid, BetAfter, IsAggressive
  <2>2. allows(c)
    BY <1>1, <1>3, <1>12, <2>1 DEF allows, can_check
  <2>p. paid = 0 /\ contrib = bet
    BY <1>3, <1>12
  <2>q. contrib + paid = bet
    BY <2>p
  <2>3. After = bet /\ paid = 0 /\ ~(contrib + paid > bet)
    BY <2>p, <2>q DEF Greater
  <2>. QED
    BY <1>10, <1>12, <1>w, <2>1, <2>2, <2>3 DEF c, l
<1>13. CASE l.verb = "Call" /\ ~l.all_in
  <2>1. c.kind = "Call" /\ Paid(c) = call_amount /\ BetAfter(c) = bet /\ ~IsAggressive(c)
    BY <1>1, <1>9, <1>13, KindsDiffer DEF Paid, BetAfter, IsAggressive
  <2>2. paid = call_amount /\ l.amount = call_amount /\ paid < stack /\ paid = bet - contrib
    BY <1>1, <1>3, <1>13 DEF Lesser
  <2>3. allows(c)
    BY <1>1, <1>3, <1>13, <2>1, <2>2 DEF allows, can_call
  <2>4. After = bet /\ ~(contrib + paid > bet)
    BY <1>1, <1>3, <2>2 DEF Greater
  <2>. QED
    BY <1>10, <1>13, <1>w, <2>1, <2>2, <2>3, <2>4 DEF c, l
<1>14. CASE l.verb \in {"Call", "Bet", "Raise"} /\ l.all_in
  <2>1. /\ c.kind = "AllIn" /\ Paid(c) = stack /\ BetAfter(c) = Greater(contrib + stack, bet)
        /\ IsAggressive(c)
    BY <1>1, <1>9, <1>14, KindsDiffer DEF Paid, BetAfter, IsAggressive
  <2>2. paid = stack
    BY <1>3, <1>14
  <2>3. BetAfter(c) = After
    BY <1>1, <2>1, <2>2 DEF Greater
  <2>4. allows(c)
    <3>1. CASE l.verb = "Call"
      <4>1. stack <= bet - contrib
        BY <1>1, <1>3, <2>2, <3>1 DEF Lesser
      <4>. QED
        BY <1>1, <2>1, <4>1 DEF allows, can_all_in
    <3>2. CASE l.verb \in {"Bet", "Raise"}
      <4>1. stack > bet - contrib /\ last_full_raise # to_act
        BY <1>1, <1>3, <1>6, <2>2, <3>2
      <4>2. to_call = 0 \/ can_raise
        BY <1>1, <4>1 DEF can_raise
      <4>. QED
        BY <1>1, <2>1, <4>2 DEF allows, can_all_in
    <3>. QED
      BY <1>14, <3>1, <3>2
  <2>5. l.verb # "Call" => contrib + paid > bet
    BY <1>3, <1>14
  <2>. QED
    BY <1>10, <1>14, <1>w, <2>1, <2>2, <2>3, <2>4, <2>5 DEF c, l
<1>15. CASE l.verb \in {"Bet", "Raise"} /\ ~l.all_in
  <2>1. /\ contrib + paid > bet /\ contrib + paid >= bet + min /\ paid < stack
        /\ last_full_raise # to_act
    BY <1>1, <1>3, <1>6, <1>15
  <2>2. /\ c.kind = (IF call_amount = 0 THEN "Bet" ELSE "Raise")
        /\ c.amount = contrib + paid
    <3>1. CASE l.verb = "Bet"
      <4>p. bet = 0
        BY <1>3, <3>1
      <4>1. contrib = 0 /\ bet = 0 /\ contrib + paid = paid /\ call_amount = 0
        BY <1>1, <4>p DEF Lesser
      <4>. QED
        BY <1>9, <1>15, <3>1, <4>1, KindsDiffer
    <3>2. CASE l.verb = "Raise"
      BY <1>9, <1>15, <3>2, KindsDiffer
    <3>. QED
      BY <1>15, <3>1, <3>2
  <2>3. c.kind \in {"Bet", "Raise"} /\ IsAggressive(c)
    BY <2>2 DEF IsAggressive
  <2>4. Paid(c) = paid /\ BetAfter(c) = contrib + paid
    BY <1>1, <2>2, <2>3 DEF Paid, BetAfter
  <2>5. BetAfter(c) = After
    BY <1>1, <2>1, <2>4 DEF Greater
  <2>6. allows(c)
    <3>1. CASE call_amount = 0
      <4>1. to_call = 0 /\ c.kind = "Bet"
        BY <1>1, <2>2, <3>1 DEF Lesser
      <4>2. c.amount >= min_bet /\ c.amount <= max_bet
        BY <1>1, <2>1, <2>2 DEF min_bet, Lesser, Greater
      <4>. QED
        BY <1>1, <4>1, <4>2 DEF allows, can_bet
    <3>2. CASE call_amount # 0
      <4>1. to_call > 0 /\ c.kind = "Raise" /\ stack > to_call
        BY <1>1, <2>1, <2>2, <3>2 DEF Lesser
      <4>2. c.amount >= min_raise_to /\ c.amount <= max_bet
        BY <1>1, <2>1, <2>2 DEF min_raise_to, Lesser
      <4>. QED
        BY <1>1, <2>1, <4>1, <4>2 DEF allows, can_raise
    <3>. QED
      BY <3>1, <3>2
  <2>. QED
    BY <1>10, <1>15, <1>w, <2>1, <2>2, <2>3, <2>4, <2>5, <2>6 DEF c, l
<1>. QED
  BY <1>8, <1>11, <1>12, <1>13, <1>14, <1>15

\* What the engine makes of a line, in the words of the real table after it.
LEMMA AppliedLine ==
  ASSUME Sound(real), WalkSound, Following, NEW l, l = walk.line,
         NEW a \in RealTable, SoundChips(a),
         LineChanges(real, l, a),
         NEW c, PlaysAs(c, l), apply_action(c)
  PROVE  /\ folded' = a.folded /\ acted' = a.acted /\ total_contrib' = a.total
         /\ street_contrib' = a.contrib /\ current_bet' = a.bet /\ min_raise' = a.min
         /\ street' = street /\ button' = button
         /\ last_full_raise' \in SeatOrNone
         /\ last_full_raise' # None => a.acted[last_full_raise'] /\ ~a.reopened[last_full_raise']
         /\ all_in' \in [Seat -> BOOLEAN]
         /\ \A s \in Seat : a.seated[s] => (all_in'[s] <=> a.stack[s] = 0)
         /\ Cardinality(Playing(a)) # 1 =>
              /\ stacks' = a.stack /\ eliminated' = eliminated /\ hand_over' = hand_over
              /\ to_act' = IF Left(to_act) \in CanAct(a) THEN Left(to_act)
                           ELSE IF Left(Left(to_act)) \in CanAct(a) THEN Left(Left(to_act))
                           ELSE to_act
              /\ Waiting(a) = {} => outcome' = "StreetEnded"
              /\ Waiting(a) # {} => outcome' = "Continue"
<1>. USE DEF LineChanges
<1>0. real \in RealTable
  BY DEF Sound
<1>1. /\ to_act \in Seat /\ to_act = l.seat /\ to_act = real.at
      /\ real.stack[to_act] > 0
  BY SamePrices
<1>2. /\ stacks = real.stack /\ total_contrib = real.total /\ folded = real.folded
      /\ all_in \in [Seat -> BOOLEAN]
      /\ eliminated = [s \in Seat |-> ~real.seated[s]]
      /\ \A s \in Seat : real.seated[s] => (all_in[s] <=> real.stack[s] = 0)
      /\ street_contrib = real.contrib /\ current_bet = real.bet /\ min_raise = real.min
      /\ acted = real.acted
      /\ last_full_raise \in SeatOrNone
      /\ last_full_raise # None =>
           real.acted[last_full_raise] /\ ~real.reopened[last_full_raise]
  BY DEF Following, SameSeats, SameStreet
<1>3. /\ real.stack \in [Seat -> Nat] /\ real.contrib \in [Seat -> Nat]
      /\ real.total \in [Seat -> Nat] /\ real.acted \in [Seat -> BOOLEAN]
      /\ real.folded \in [Seat -> BOOLEAN] /\ real.seated \in [Seat -> BOOLEAN]
      /\ real.reopened \in [Seat -> BOOLEAN]
  BY <1>0 DEF RealTable
<1>4. /\ Paid(c) = PaidBy(real, l)
      /\ BetAfter(c) = Greater(real.bet, GoesTo(real, l))
      /\ FullRaise(c) <=> RaisesBy(real, l) /\ FullAt(real, l)
      /\ FullRaise(c) => BetAfter(c) - current_bet = Above(real, l)
      /\ c.kind = "Fold" <=> l.verb = "Fold"
      /\ c.kind \in {"Fold", "Check"} <=> l.verb \in {"Fold", "Check"}
  BY DEF PlaysAs
<1>5. ~real.folded[to_act] /\ real.seated[to_act] /\ l.verb \in {"Fold", "Check"} => PaidBy(real, l) = 0
  BY <1>0, <1>1, ActorFacts, LineFacts DEF Following, WalkSound
<1>n. ~real.folded[to_act] /\ real.seated[to_act]
  BY <1>0, <1>1, ActorFacts DEF Following
<1>. DEFINE behind == [stacks EXCEPT ![to_act] = @ - Paid(c)]
            fold == [folded EXCEPT ![to_act] = @ \/ c.kind = "Fold"]
            able == AbleToBet(fold, all_in')
<1>6. /\ folded' = fold
      /\ acted' = [acted EXCEPT ![to_act] = TRUE]
      /\ street_contrib' = [street_contrib EXCEPT ![to_act] = @ + Paid(c)]
      /\ total_contrib' = [total_contrib EXCEPT ![to_act] = @ + Paid(c)]
      /\ all_in' = [all_in EXCEPT ![to_act] =
                  @ \/ (c.kind \notin {"Fold", "Check"} /\ behind[to_act] = 0)]
      /\ current_bet' = BetAfter(c)
      /\ min_raise' = IF FullRaise(c) THEN BetAfter(c) - current_bet ELSE min_raise
      /\ last_full_raise' = IF FullRaise(c) THEN to_act ELSE last_full_raise
      /\ button' = button /\ street' = street
      /\ Cardinality(Live(fold)) # 1 =>
           /\ stacks' = behind
           /\ to_act' = advance_to_act(able)
           /\ outcome' = IF round_complete(able, street_contrib', current_bet', acted')
                         THEN "StreetEnded" ELSE "Continue"
           /\ eliminated' = eliminated /\ hand_over' = hand_over
  BY Zenon DEF apply_action
<1>7. behind = a.stack
  BY <1>1, <1>2, <1>4 DEF Less
<1>8. fold = a.folded
  BY <1>1, <1>2, <1>3, <1>4, <1>n
<1>9. /\ acted' = a.acted
      /\ total_contrib' = a.total
      /\ street_contrib' = a.contrib
  BY <1>1, <1>2, <1>4, <1>6 DEF More
<1>10. current_bet' = a.bet /\ min_raise' = a.min
  BY <1>2, <1>4, <1>6
<1>. HIDE DEF behind, fold
<1>11. /\ all_in' \in [Seat -> BOOLEAN]
       /\ \A s \in Seat : a.seated[s] => (all_in'[s] <=> a.stack[s] = 0)
  <2>1. all_in' \in [Seat -> BOOLEAN]
    BY <1>1, <1>2, <1>6
  <2>2. all_in'[to_act] <=> a.stack[to_act] = 0
    <3>1. ~all_in[to_act]
      BY <1>1, <1>2, <1>n
    <3>2. all_in'[to_act] <=> (c.kind \notin {"Fold", "Check"} /\ behind[to_act] = 0)
      BY <1>1, <1>2, <1>6, <3>1
    <3>3. c.kind \in {"Fold", "Check"} => a.stack[to_act] = real.stack[to_act]
      <4>1. c.kind \in {"Fold", "Check"} => PaidBy(real, l) = 0
        BY <1>4, <1>5, <1>n
      <4>2. PaidBy(real, l) = 0 => Less(real.stack, l.seat, PaidBy(real, l))[to_act] = real.stack[to_act] - 0
        BY <1>1, <1>3 DEF Less
      <4>3. real.stack[to_act] \in Nat
        BY <1>1, <1>3
      <4>. QED
        BY <4>1, <4>2, <4>3
    <3>4. real.stack[to_act] # 0
      BY <1>1, <1>3
    <3>. QED
      BY <1>7, <3>2, <3>3, <3>4
  <2>3. ASSUME NEW s \in Seat, a.seated[s], s # to_act
        PROVE  all_in'[s] <=> a.stack[s] = 0
    <3>1. all_in'[s] = all_in[s]
      BY <1>1, <1>2, <1>6, <2>3
    <3>2. a.stack[s] = real.stack[s]
      BY <1>1, <1>3, <2>3 DEF Less
    <3>3. real.seated[s]
      BY <2>3
    <3>. QED
      BY <1>2, <3>1, <3>2, <3>3
  <2>. QED
    BY <2>1, <2>2, <2>3, Zenon
<1>12. /\ last_full_raise' \in SeatOrNone
       /\ last_full_raise' # None => a.acted[last_full_raise'] /\ ~a.reopened[last_full_raise']
  <2>1. CASE FullRaise(c)
    BY <1>1, <1>3, <1>6, <2>1 DEF SeatOrNone
  <2>2. CASE ~FullRaise(c)
    <3>1. last_full_raise' = last_full_raise
      BY <1>6, <2>2
    <3>2. ASSUME last_full_raise # None
          PROVE  a.acted[last_full_raise] /\ ~a.reopened[last_full_raise]
      <4>1. PICK x \in Seat : x = last_full_raise
        BY <1>2, <3>2 DEF SeatOrNone
      <4>2. real.acted[x] /\ ~real.reopened[x]
        BY <1>2, <3>2, <4>1
      <4>3. ~(RaisesBy(real, l) /\ FullAt(real, l))
        BY <1>4, <2>2
      <4>4. a.acted[x]
        BY <1>3, <4>2
      <4>5. ~a.reopened[x]
        BY <4>2, <4>3
      <4>. QED
        BY <4>1, <4>4, <4>5
    <3>. QED
      BY <1>2, <3>1, <3>2
  <2>. QED
    BY <2>1, <2>2
<1>13. /\ a.stack \in [Seat -> Nat] /\ a.folded \in [Seat -> BOOLEAN]
       /\ a.contrib \in [Seat -> Nat] /\ a.bet \in Nat /\ a.acted \in [Seat -> BOOLEAN]
       /\ \A s \in Seat : a.contrib[s] <= a.bet
  BY DEF RealTable, SoundChips
<1>14. Live(fold) = Playing(a)
  BY <1>2, <1>8 DEF Live, Playing
<1>15. able = CanAct(a)
  <2>1. \A s \in Playing(a) : s \in Seat /\ a.seated[s]
    BY DEF Playing
  <2>2. \A s \in Playing(a) : ~all_in'[s] <=> a.stack[s] > 0
    BY <1>11, <1>13, <2>1
  <2>. QED
    BY <1>14, <2>2 DEF AbleToBet, CanAct
<1>. HIDE DEF able
<1>16. round_complete(able, street_contrib', current_bet', acted') <=> Waiting(a) = {}
  <2>1. \A s \in CanAct(a) : s \in Seat
    BY SeatsOf
  <2>2. \A s \in CanAct(a) : (a.contrib[s] = a.bet /\ a.acted[s]) <=> ~(a.contrib[s] < a.bet \/ ~a.acted[s])
    BY <1>13, <2>1
  <2>. QED
    BY <1>9, <1>10, <1>15, <2>2 DEF round_complete, Waiting
<1>17. Cardinality(Playing(a)) # 1 =>
              /\ stacks' = a.stack /\ eliminated' = eliminated /\ hand_over' = hand_over
              /\ to_act' = IF Left(to_act) \in CanAct(a) THEN Left(to_act)
                           ELSE IF Left(Left(to_act)) \in CanAct(a) THEN Left(Left(to_act))
                           ELSE to_act
              /\ Waiting(a) = {} => outcome' = "StreetEnded"
              /\ Waiting(a) # {} => outcome' = "Continue"
  BY <1>6, <1>7, <1>14, <1>15, <1>16 DEF advance_to_act
<1>. QED
  BY <1>6, <1>8, <1>9, <1>10, <1>11, <1>12, <1>17

(***************************************************************************)
(* The line is walked.                                                     *)
(***************************************************************************)
\* The aggressors after a line, as the walk tracks them.
LEMMA AggressorsTracked ==
  ASSUME Sound(real), WalkSound, Following, SameAggressors,
         NEW l, l = walk.line, NEW c, PlaysAs(c, l), NEW w, w = Tracked(c),
         NEW a, LineChanges(real, l, a), ~a.calledAllIn
  PROVE  /\ w.preflop_aggressor = a.aggressor
         /\ real.street = Preflop => w.flop_bettor = None
         /\ real.street = Flop => w.flop_bettor = a.raiser
<1>0. /\ a.raiser = IF RaisesBy(real, l) THEN l.seat ELSE real.raiser
      /\ a.aggressor = IF RaisesBy(real, l) /\ real.street = Preflop THEN l.seat
                       ELSE real.aggressor
      /\ ~(l.verb = "Call" /\ l.all_in) /\ ~real.calledAllIn
  BY Zenon DEF LineChanges
<1>1. walk \in WalkType /\ street = real.street
  BY DEF WalkSound, Following, SameStreet
<1>2. IsAggressive(c) <=> RaisesBy(real, l)
  BY <1>0 DEF PlaysAs
<1>3. /\ w.preflop_aggressor = IF street = Preflop /\ IsAggressive(c) THEN l.seat
                               ELSE walk.preflop_aggressor
      /\ w.flop_bettor = IF street = Flop /\ IsAggressive(c) THEN l.seat ELSE walk.flop_bettor
  BY <1>1 DEF Tracked, WalkType
<1>4. /\ walk.preflop_aggressor = real.aggressor
      /\ real.street = Preflop => walk.flop_bettor = None
      /\ real.street = Flop => walk.flop_bettor = real.raiser
  BY <1>0 DEF SameAggressors
<1>5. Preflop # Flop
  BY FoldRange
<1>. QED
  BY <1>0, <1>1, <1>2, <1>3, <1>4, <1>5

\* The walk itself stays sound, whatever the engine says.
LEMMA WalkLineTyped ==
  ASSUME WalkSound, walk.at = "Walk", NEW c, NEW at \in {"Read", "Settle"},
         NEW w, w = [Tracked(c) EXCEPT !.at = at]
  PROVE  /\ w \in WalkType /\ w.at = at /\ w.entered = FALSE
         /\ w.preflop_aggressor = Tracked(c).preflop_aggressor
         /\ w.flop_bettor = Tracked(c).flop_bettor
<1>1. walk \in WalkType /\ walk.line.seat \in SeatOrNone
  BY DEF WalkSound, WalkType, LineType
<1>2. Tracked(c) \in WalkType /\ Tracked(c).entered = FALSE
  BY <1>1 DEF Tracked, WalkType
<1>. QED
  BY <1>2 DEF WalkType

\* What the hero put in.
LEMMA CommitmentFacts ==
  ASSUME NEW l \in LineType, NEW invested \in Nat
  PROVE  /\ hero_commitment(l, invested) \in Nat
         /\ l.verb \in {"Call", "Bet"} => hero_commitment(l, invested) = l.amount
         /\ l.verb = "Raise" => hero_commitment(l, invested) = Greater(l.to - invested, 0)
         /\ l.verb \in {"Fold", "Check"} => hero_commitment(l, invested) = 0
BY DEF hero_commitment, LineType, Greater

\* What is counted of a line for the hero is what the line cost the hero.
LEMMA HeroCounted ==
  ASSUME Sound(real), WalkSound, InvestedIsExact, walk.at = "Walk", CountHero,
         NEW total, total = More(real.total, walk.line.seat, PaidBy(real, walk.line))
  PROVE  /\ hero' \in [seat : Seat, invested : Nat, late : BOOLEAN]
         /\ ~hero'.late => hero'.invested = total[hero'.seat]
<1>0. real \in RealTable /\ real.total \in [Seat -> Nat] /\ real.contrib \in [Seat -> Nat]
  BY DEF Sound, RealTable
<1>1. /\ hero \in [seat : Seat, invested : Nat, late : BOOLEAN]
      /\ real.at # None /\ walk.line \in Lines(real)
  BY DEF WalkSound
<1>2. PICK l \in LineType : l = walk.line /\ l \in Lines(real) /\ l.seat = real.at
  BY <1>0, <1>1, LineFacts
<1>3. PICK n \in Nat : n = PaidBy(real, l)
  BY <1>0, <1>1, <1>2, LineFacts
<1>4. l.seat \in Seat
  BY <1>0, <1>1, <1>2, ActorFacts
<1>5. PICK seat \in Seat, invested \in Nat, late \in BOOLEAN :
        hero = [seat |-> seat, invested |-> invested, late |-> late]
  BY <1>1
<1>6. CASE l.seat # seat
  <2>1. hero' = hero
    BY <1>2, <1>5, <1>6 DEF CountHero
  <2>2. total[seat] = real.total[seat]
    BY <1>0, <1>2, <1>3, <1>4, <1>6 DEF More
  <2>. QED
    BY <1>1, <1>5, <2>1, <2>2 DEF InvestedIsExact
<1>7. CASE l.seat = seat
  <2>1. /\ hero' = [seat |-> seat, invested |-> invested + hero_commitment(l, invested),
                    late |-> late \/ (l.verb = "Raise" /\ real.street # Preflop)]
    BY <1>2, <1>5, <1>7 DEF CountHero
  <2>2. hero_commitment(l, invested) \in Nat
    BY CommitmentFacts
  <2>3. ASSUME ~late, ~(l.verb = "Raise" /\ real.street # Preflop)
        PROVE  invested + hero_commitment(l, invested) = total[seat]
    <3>1. invested = real.total[seat]
      BY <1>5, <2>3 DEF InvestedIsExact
    <3>2. total[seat] = invested + n
      BY <1>0, <1>2, <1>3, <1>4, <1>7, <3>1 DEF More
    <3>3. CASE l.verb \in {"Call", "Bet"}
      <4>1. l.amount = n
        BY <1>0, <1>1, <1>2, <1>3, <3>3, LineFacts
      <4>. QED
        BY <3>2, <3>3, <4>1, CommitmentFacts
    <3>4. CASE l.verb = "Raise"
      <4>1. real.street = Preflop
        BY <2>3, <3>4
      <4>2. real.contrib[seat] = invested
        BY <3>1, <4>1 DEF Sound, SoundChips
      <4>3. l.to = invested + n
        BY <1>0, <1>1, <1>2, <1>3, <1>7, <3>4, <4>2, LineFacts
      <4>4. hero_commitment(l, invested) = n
        BY <3>4, <4>3, CommitmentFacts DEF Greater
      <4>. QED
        BY <3>2, <4>4
    <3>5. CASE l.verb \in {"Fold", "Check"}
      <4>1. n = 0
        BY <1>0, <1>1, <1>2, <1>3, <3>5, LineFacts
      <4>. QED
        BY <3>2, <3>5, <4>1, CommitmentFacts
    <3>. QED
      BY <3>3, <3>4, <3>5 DEF LineType
  <2>4. PICK i \in Nat : i = invested + hero_commitment(l, invested)
    BY <2>2
  <2>5. PICK x \in BOOLEAN : x = (late \/ (l.verb = "Raise" /\ real.street # Preflop))
    OBVIOUS
  <2>6. hero' = [seat |-> seat, invested |-> i, late |-> x]
    BY <2>1, <2>4, <2>5
  <2>7. ~x => i = total[seat]
    BY <2>3, <2>4, <2>5
  <2>. QED
    BY <2>6, <2>7
<1>. QED
  BY <1>6, <1>7

\* What the engine and the walk are after a line, if the real hand goes on.
LEMMA MirroredAfterLine ==
  ASSUME Sound(real), WalkSound, Following, SameAggressors,
         NEW l, l = walk.line, NEW c, PlaysAs(c, l), apply_action(c),
         NEW a \in RealTable, SoundChips(a),
         LineChanges(real, l, a),
         NEW p \in RealTable, real' = p,
         Carried(real, a, p),
         AskedNext(real, a, p) \/ OpenedNext(real, a, p),
         walk' = [Tracked(c) EXCEPT !.at = IF outcome' = "StreetEnded" THEN "Settle" ELSE "Read"]
  PROVE  Mirrored'
<1>0. real \in RealTable
  BY DEF Sound
<1>c. /\ a.seated = real.seated
      /\ a.raiser = IF RaisesBy(real, l) THEN l.seat ELSE real.raiser
      /\ a.aggressor = IF RaisesBy(real, l) /\ real.street = Preflop THEN l.seat
                       ELSE real.aggressor
      /\ a.calledAllIn = (real.calledAllIn \/ (l.verb = "Call" /\ l.all_in))
  BY Zenon DEF LineChanges
<1>d. /\ p.seated = real.seated /\ p.stack = a.stack /\ p.total = a.total
      /\ p.folded = a.folded /\ p.aggressor = a.aggressor
      /\ p.calledAllIn = a.calledAllIn /\ p.reopened = a.reopened
      /\ p.at # None /\ Cardinality(Playing(a)) # 1
  BY Zenon DEF Carried, AskedNext, OpenedNext
<1>1. /\ folded' = a.folded /\ acted' = a.acted /\ total_contrib' = a.total
      /\ street_contrib' = a.contrib /\ current_bet' = a.bet /\ min_raise' = a.min
      /\ street' = street
      /\ last_full_raise' \in SeatOrNone
      /\ last_full_raise' # None => a.acted[last_full_raise'] /\ ~a.reopened[last_full_raise']
      /\ all_in' \in [Seat -> BOOLEAN]
      /\ \A s \in Seat : a.seated[s] => (all_in'[s] <=> a.stack[s] = 0)
      /\ stacks' = a.stack /\ eliminated' = eliminated /\ hand_over' = hand_over
      /\ to_act' = IF Left(to_act) \in CanAct(a) THEN Left(to_act)
                   ELSE IF Left(Left(to_act)) \in CanAct(a) THEN Left(Left(to_act))
                   ELSE to_act
      /\ Waiting(a) = {} => outcome' = "StreetEnded"
      /\ Waiting(a) # {} => outcome' = "Continue"
  BY <1>d, AppliedLine, Zenon
<1>2. to_act = real.at /\ street = real.street /\ to_act \in Seat
  BY SamePrices DEF Following, SameStreet
<1>3. SameSeats'
  <2>1. /\ eliminated = [s \in Seat |-> ~real.seated[s]] /\ hand_over = FALSE
    BY DEF Following, SameSeats
  <2>2. /\ stacks' = p.stack /\ total_contrib' = p.total /\ folded' = p.folded
        /\ hand_over' = FALSE /\ eliminated' = [s \in Seat |-> ~p.seated[s]]
    BY <1>1, <1>d, <2>1
  <2>3. \A s \in Seat : p.seated[s] => (all_in'[s] <=> p.stack[s] = 0)
    BY <1>1, <1>c, <1>d
  <2>. QED
    BY <1>1, <2>2, <2>3, Zenon DEF SameSeats
<1>x. PICK at \in {"Read", "Settle"} :
        at = (IF outcome' = "StreetEnded" THEN "Settle" ELSE "Read")
  OBVIOUS
<1>y. PICK w : w = walk'
  OBVIOUS
<1>4. at = (IF outcome' = "StreetEnded" THEN "Settle" ELSE "Read")
      /\ w = walk' /\ w = [Tracked(c) EXCEPT !.at = at]
  BY <1>x, <1>y, Zenon
<1>5. walk.at = "Walk"
  BY DEF Following
<1>6. /\ w.at = at /\ w.entered = FALSE
      /\ w.preflop_aggressor = Tracked(c).preflop_aggressor
      /\ w.flop_bettor = Tracked(c).flop_bettor
  BY <1>x, <1>4, <1>5, WalkLineTyped, Zenon
<1>7. ASSUME ~p.calledAllIn
      PROVE  /\ w.preflop_aggressor = a.aggressor
             /\ real.street = Preflop => w.flop_bettor = None
             /\ real.street = Flop => w.flop_bettor = a.raiser
  <2>1. ~a.calledAllIn /\ a.calledAllIn \in BOOLEAN
    BY <1>7, <1>d DEF RealTable
  <2>2. PICK t : t = Tracked(c)
    OBVIOUS
  <2>3. /\ t.preflop_aggressor = a.aggressor
        /\ real.street = Preflop => t.flop_bettor = None
        /\ real.street = Flop => t.flop_bettor = a.raiser
    BY <2>1, <2>2, AggressorsTracked
  <2>. QED
    BY <1>6, <2>2, <2>3
<1>8. CASE AskedNext(real, a, p)
  <2>. USE DEF AskedNext
  <2>1. outcome' = "Continue" /\ at = "Read"
    BY <1>1, <1>4, <1>8
  <2>2. to_act' = p.at /\ to_act' \in Seat
    <3>1. p.at \in CanAct(a) /\ p.at \in Seat
      BY <1>8, SeatsOf DEF Waiting
    <3>. QED
      BY <1>1, <1>2, <1>8, <3>1
  <2>3. /\ street_contrib' = p.contrib /\ current_bet' = p.bet /\ min_raise' = p.min
        /\ acted' = p.acted /\ street' = p.street
    BY <1>1, <1>2, <1>8
  <2>4. last_full_raise' # None => p.acted[last_full_raise'] /\ ~p.reopened[last_full_raise']
    BY <1>1, <1>8, <1>d
  <2>5. SameStreet'
    BY <1>1, <2>2, <2>3, <2>4, Zenon DEF SameStreet
  <2>6. SameAggressors'
    BY <1>4, <1>7, <1>8, <1>d DEF SameAggressors
  <2>7. walk'.at = "Read"
    BY <1>4, <1>6, <2>1
  <2>. QED
    BY <1>3, <2>5, <2>6, <2>7 DEF Mirrored
<1>9. CASE OpenedNext(real, a, p)
  <2>. USE DEF OpenedNext
  <2>1. outcome' = "StreetEnded" /\ at = "Settle"
    BY <1>1, <1>4, <1>9
  <2>2. StreetAhead'
    BY <1>1, <1>2, <1>9, <2>1 DEF StreetAhead
  <2>3. SameAggressors'
    <3>1. real.street \in {0, 1, 2, 3}
      BY <1>0, FoldRange DEF RealTable
    <3>2. p.street # Preflop /\ (p.street = Flop => real.street = Preflop)
      BY <1>9, <3>1, FoldRange
    <3>. QED
      BY <1>4, <1>7, <1>9, <1>d, <3>2 DEF SameAggressors
  <2>4. walk'.at = "Settle"
    BY <1>4, <1>6, <2>1
  <2>. QED
    BY <1>3, <2>2, <2>3, <2>4 DEF Mirrored
<1>. QED
  BY <1>8, <1>9

\* A line that the engine takes.
LEMMA WalkLineStep ==
  ASSUME ReplayInv, WalkLine
  PROVE  ReplayInv'
<1>0. /\ Sound(real) /\ WalkSound /\ (FullBlind => Mirrored) /\ InvestedIsExact
      /\ real \in RealTable
  BY DEF ReplayInv, Sound
<1>1. PICK l : l = walk.line
  OBVIOUS
<1>2. walk.at = "Walk" /\ real.at # None /\ l \in Lines(real)
  BY <1>0, <1>1 DEF WalkLine, WalkSound
<1>3. PICK a \in RealTable, p \in RealTable :
           /\ a = AfterLine(real, l) /\ p = Played(real, l)
           /\ LineChanges(real, l, a)
           /\ SoundChips(a)
           /\ Sound(p)
           /\ PostedInFullAt(p) => PostedInFullAt(real)
           /\ Carried(real, a, p)
           /\ \/ AskedNext(real, a, p)
              \/ OpenedNext(real, a, p)
              \/ p.at = None
  BY <1>0, <1>2, PlayedCases, Zenon
<1>d. /\ p.seated = real.seated /\ p.button = real.button /\ p.total = a.total
      /\ a.total = More(real.total, l.seat, PaidBy(real, l))
  BY <1>3, Zenon DEF Carried, LineChanges
<1>4. PICK c : c = convert_action(l)
  OBVIOUS
<1>5. /\ apply_action(c) /\ real' = p /\ CountHero
      /\ walk' = [Tracked(c) EXCEPT !.at = IF outcome' = "StreetEnded" THEN "Settle" ELSE "Read"]
  BY <1>1, <1>3, <1>4 DEF WalkLine
<1>6. button' = button
  BY <1>5, Zenon DEF apply_action
<1>x. PICK at \in {"Read", "Settle"} :
        at = (IF outcome' = "StreetEnded" THEN "Settle" ELSE "Read")
  OBVIOUS
<1>y. PICK w : w = walk'
  OBVIOUS
<1>7. at = (IF outcome' = "StreetEnded" THEN "Settle" ELSE "Read")
      /\ w = walk' /\ w = [Tracked(c) EXCEPT !.at = at]
  BY <1>5, <1>x, <1>y, Zenon
<1>8. w \in WalkType /\ w.at = at
  BY <1>x, <1>0, <1>2, <1>7, WalkLineTyped, Zenon
<1>9. /\ hero' \in [seat : Seat, invested : Nat, late : BOOLEAN]
      /\ ~hero'.late => hero'.invested = p.total[hero'.seat]
  BY <1>0, <1>1, <1>2, <1>d, <1>5, HeroCounted
<1>10. Sound(real')
  BY <1>3, <1>5
<1>11. WalkSound'
  <2>1. button \in Seat /\ p.seated[button]
    BY <1>0, <1>d DEF WalkSound
  <2>. QED
    BY <1>5, <1>6, <1>7, <1>8, <1>9, <2>1 DEF WalkSound
<1>12. GivenUp'
  BY <1>7, <1>8 DEF GivenUp
<1>13. InvestedIsExact'
  BY <1>5, <1>9 DEF InvestedIsExact
<1>14. ASSUME FullBlind', p.at # None
       PROVE  Mirrored'
  <2>1. FullBlind
    BY <1>3, <1>5, <1>14 DEF FullBlind, PostedInFullAt
  <2>2. Following /\ SameAggressors
    BY <1>0, <1>2, <2>1 DEF Mirrored, Following
  <2>3. PlaysAs(c, l)
    BY <1>0, <1>1, <1>4, <2>2, LineIsFollowed
  <2>. QED
    BY <1>0, <1>1, <1>3, <1>5, <1>14, <2>2, <2>3, MirroredAfterLine
<1>15. p.at = None => Mirrored'
  BY <1>5 DEF Mirrored
<1>. QED
  BY <1>10, <1>11, <1>12, <1>13, <1>14, <1>15 DEF ReplayInv

(***************************************************************************)
(* The hand is taken up.                                                   *)
(***************************************************************************)
LEMMA HighestIsReached ==
  ASSUME NEW chips \in [Seat -> Nat], NEW bet \in Nat,
         \A s \in Seat : chips[s] <= bet, \E s \in Seat : chips[s] = bet
  PROVE  HighestOf(chips) = bet
BY SeatFacts DEF HighestOf, Greater

\* The first line of a hand finds the two tables alike.
LEMMA WalkInitInv ==
  ASSUME WalkInit
  PROVE  ReplayInv
<1>1. PICK stack \in [Seat -> SeatStacks], btn \in Seat, seat \in Seat, declared \in BOOLEAN :
         /\ Cardinality({s \in Seat : stack[s] > 0}) >= 2
         /\ stack[btn] > 0 /\ stack[seat] > 0
         /\ real = Dealt(stack, btn)
         /\ real.at # None
         /\ StartWalk(real, declared)
         /\ walk = [at |-> "Read", line |-> NoLine, entered |-> FALSE,
                    preflop_aggressor |-> None, flop_bettor |-> None]
         /\ hero = [seat |-> seat, invested |-> real.contrib[seat], late |-> FALSE]
  BY DEF WalkInit
<1>s. SeatStacks \subseteq Nat
  BY SeatStacksAssumption, ChipsAssumption
<1>2. stack \in [Seat -> Nat]
  BY <1>1, <1>s
<1>3. \E s, t \in Seat : s # t /\ stack[s] > 0 /\ stack[t] > 0
  <2>1. {s \in Seat : stack[s] > 0} \in SUBSET Seat
    OBVIOUS
  <2>2. \E s, t \in {x \in Seat : stack[x] > 0} : s # t
    BY <1>1, <2>1, TwoSeats
  <2>. QED
    BY <2>2
<1>4. PICK d \in RealTable :
         /\ d = Dealt(stack, btn)
         /\ Sound(d)
         /\ d.folded = NoSeat /\ d.acted = NoSeat /\ d.street = Preflop
         /\ d.raiser = None /\ d.aggressor = None /\ d.min = BIG_BLIND
         /\ d.total = d.contrib
         /\ \A s \in Seat : d.seated[s] => d.stack[s] > 0 \/ d.contrib[s] > 0
  BY <1>1, <1>2, <1>3, DealtSoundly, Zenon
<1>5. real = d /\ d.at # None
  BY <1>1, <1>4
<1>6. Sound(real)
  BY <1>4, <1>5
<1>7. /\ d.stack \in [Seat -> Nat] /\ d.contrib \in [Seat -> Nat] /\ d.bet \in Nat
      /\ d.seated \in [Seat -> BOOLEAN] /\ d.at \in Seat /\ d.button \in Seat
      /\ d.seated[d.button]
      /\ \E s, t \in Seat : s # t /\ d.seated[s] /\ d.seated[t]
      /\ \A s \in Seat : d.contrib[s] <= d.bet
      /\ PostedInFullAt(d) => \E s \in Seat : d.contrib[s] = d.bet
  BY <1>4, <1>5 DEF Sound, SoundChips, RealTable, SeatOrNone
<1>8. WalkSound
  <2>1. button \in Seat /\ real.seated[button]
    <3>1. SmallBlindSeat(d) \in Seat /\ d.seated[SmallBlindSeat(d)]
      BY <1>7, BlindSeats
    <3>. QED
      BY <1>1, <1>5, <1>7, <3>1 DEF StartWalk, ButtonSlot
  <2>2. walk \in WalkType /\ walk.at # "Walk"
    BY <1>1 DEF WalkType, LineType, NoLine, Line, SeatOrNone
  <2>3. hero \in [seat : Seat, invested : Nat, late : BOOLEAN]
    BY <1>1, <1>5, <1>7
  <2>. QED
    BY <2>1, <2>2, <2>3 DEF WalkSound
<1>9. GivenUp
  BY <1>1 DEF GivenUp
<1>10. InvestedIsExact
  BY <1>1, <1>4, <1>5 DEF InvestedIsExact
<1>11. ASSUME FullBlind PROVE Mirrored
  <2>1. HighestOf(d.contrib) = d.bet
    <3>1. PostedInFullAt(d)
      BY <1>5, <1>11 DEF FullBlind, PostedInFullAt
    <3>. QED
      BY <1>7, <3>1, HighestIsReached
  <2>2. /\ stacks = d.stack /\ street = Preflop /\ street_contrib = d.contrib
        /\ total_contrib = d.contrib /\ current_bet = d.bet
        /\ min_raise = BIG_BLIND /\ last_full_raise = None /\ acted = NoSeat
        /\ folded = NoSeat /\ all_in = [s \in Seat |-> d.contrib[s] > 0 /\ d.stack[s] = 0]
        /\ eliminated = [s \in Seat |-> ~d.seated[s]] /\ to_act = d.at
        /\ hand_over = FALSE
    BY <1>1, <1>5, <2>1 DEF StartWalk
  <2>3. SameSeats
    <3>1. all_in \in [Seat -> BOOLEAN]
      BY <2>2
    <3>2. \A s \in Seat : d.seated[s] => (all_in[s] <=> d.stack[s] = 0)
      <4>1. \A s \in Seat : d.stack[s] \in Nat /\ d.contrib[s] \in Nat
        BY <1>7
      <4>2. \A s \in Seat : all_in[s] <=> (d.contrib[s] > 0 /\ d.stack[s] = 0)
        BY <2>2
      <4>. QED
        BY <1>4, <4>1, <4>2
    <3>. QED
      BY <1>4, <1>5, <2>2, <3>1, <3>2 DEF SameSeats
  <2>4. SameStreet
    BY <1>4, <1>5, <1>7, <2>2 DEF SameStreet, SeatOrNone
  <2>5. SameAggressors
    BY <1>1, <1>4, <1>5 DEF SameAggressors
  <2>6. walk.at = "Read"
    BY <1>1
  <2>. QED
    BY <2>3, <2>4, <2>5, <2>6 DEF Mirrored
<1>. QED
  BY <1>6, <1>8, <1>9, <1>10, <1>11 DEF ReplayInv

(***************************************************************************)
(* The other steps.                                                        *)
(***************************************************************************)
LEMMA ReadLineStep ==
  ASSUME ReplayInv, ReadLine
  PROVE  ReplayInv'
<1>0. /\ Sound(real) /\ WalkSound /\ (FullBlind => Mirrored) /\ InvestedIsExact
      /\ real \in RealTable
  BY DEF ReplayInv, Sound
<1>1. PICK l \in Lines(real) :
        walk' = [walk EXCEPT !.at = "Walk", !.line = l]
  BY DEF ReadLine
<1>2. /\ walk.at = "Read" /\ real.at # None
      /\ to_act' = first_on_street(walk'.line)
      /\ UNCHANGED <<stacks, button, street, betting, eliminated, hand_over, real, hero>>
  BY DEF ReadLine
<1>3. l \in LineType /\ l.seat = real.at /\ real.at \in Seat
  BY <1>0, <1>2, LineFacts, ActorFacts
<1>4. /\ walk' \in WalkType /\ walk'.at = "Walk" /\ walk'.line = l
      /\ walk'.entered = walk.entered
      /\ walk'.preflop_aggressor = walk.preflop_aggressor
      /\ walk'.flop_bettor = walk.flop_bettor
  BY <1>0, <1>1, <1>3 DEF WalkSound, WalkType
<1>5. Sound(real)'
  BY <1>0, <1>2
<1>6. WalkSound'
  BY <1>0, <1>2, <1>4 DEF WalkSound
<1>7. GivenUp' /\ InvestedIsExact'
  BY <1>0, <1>2, <1>4 DEF GivenUp, InvestedIsExact
<1>8. ASSUME FullBlind' PROVE Mirrored'
  <2>1. FullBlind
    BY <1>2, <1>8 DEF FullBlind
  <2>2. SameSeats /\ SameStreet /\ SameAggressors
    BY <1>0, <1>2, <2>1 DEF Mirrored
  <2>3. to_act' = real.at
    BY <1>2, <1>3, <1>4, <2>2 DEF SameStreet, first_on_street
  <2>4. SameSeats'
    BY <1>2, <2>2 DEF SameSeats, betting
  <2>5. SameStreet'
    BY <1>2, <1>3, <2>2, <2>3 DEF SameStreet, betting
  <2>6. SameAggressors'
    BY <1>2, <1>4, <2>2 DEF SameAggressors
  <2>. QED
    BY <1>4, <2>4, <2>5, <2>6 DEF Mirrored
<1>. QED
  BY <1>5, <1>6, <1>7, <1>8 DEF ReplayInv

\* A line of a hand with a full big blind is never refused.
LEMMA LineIsNotRefused ==
  ASSUME ReplayInv, FullBlind, walk.at = "Walk"
  PROVE  Follows(walk.line) /\ Following
<1>0. /\ Sound(real) /\ WalkSound /\ Mirrored
  BY DEF ReplayInv
<1>1. Following
  BY <1>0 DEF Mirrored, WalkSound, Following
<1>2. hand_over = FALSE /\ to_act = walk.line.seat
  BY <1>0, <1>1, SamePrices DEF Following, SameSeats
<1>. QED
  BY <1>0, <1>1, <1>2, LineIsFollowed DEF Follows

\* A line that the engine refuses ends the walk.
LEMMA RejectLineStep ==
  ASSUME ReplayInv, RejectLine
  PROVE  ReplayInv'
<1>0. /\ Sound(real) /\ WalkSound /\ InvestedIsExact
  BY DEF ReplayInv
<1>1. walk.at = "Walk" /\ ~Follows(walk.line) /\ UNCHANGED <<vars, real, hero>>
      /\ walk' = [walk EXCEPT !.at = "Rejected"]
  BY DEF RejectLine
<1>2. ~FullBlind
  BY <1>1, LineIsNotRefused
<1>3. ~FullBlind'
  BY <1>1, <1>2 DEF FullBlind
<1>4. walk' \in WalkType /\ walk'.at = "Rejected"
  BY <1>0, <1>1 DEF WalkSound, WalkType
<1>5. Sound(real)'
  BY <1>0, <1>1
<1>6. WalkSound'
  BY <1>0, <1>1, <1>4 DEF WalkSound, vars
<1>7. InvestedIsExact'
  BY <1>0, <1>1 DEF InvestedIsExact
<1>. QED
  BY <1>3, <1>5, <1>6, <1>7 DEF ReplayInv, GivenUp

\* The seats that can bet are those that can act at the real table.
LEMMA SameSeatsCanAct ==
  ASSUME NEW r \in RealTable, r = real, SameSeats
  PROVE  AbleToBet(folded, all_in) = CanAct(r)
<1>1. /\ r.stack \in [Seat -> Nat] /\ r.seated \in [Seat -> BOOLEAN]
      /\ r.folded \in [Seat -> BOOLEAN]
  BY DEF RealTable
<1>2. Live(folded) = Playing(r)
  BY <1>1 DEF SameSeats, Live, Playing
<1>3. \A s \in Playing(r) : ~all_in[s] <=> r.stack[s] > 0
  <2>1. \A s \in Playing(r) : s \in Seat /\ r.seated[s]
    BY DEF Playing
  <2>2. \A s \in Seat : r.seated[s] => (all_in[s] <=> r.stack[s] = 0)
    BY DEF SameSeats
  <2>. QED
    BY <1>1, <2>1, <2>2
<1>. QED
  BY <1>2, <1>3 DEF AbleToBet, CanAct

\* The end of the last line: the hand goes to the street the real table is on.
LEMMA SettleStep ==
  ASSUME ReplayInv, Settle
  PROVE  ReplayInv'
<1>0. /\ Sound(real) /\ WalkSound /\ (FullBlind => Mirrored) /\ InvestedIsExact
      /\ real \in RealTable
  BY DEF ReplayInv, Sound
<1>1. /\ walk.at = "Settle" /\ UNCHANGED <<real, hero>>
      /\ \/ AdvanceStreet /\ walk' = [walk EXCEPT !.at = "Read", !.entered = TRUE]
         \/ showdown([s \in Seat |-> 1]) /\ walk' = [walk EXCEPT !.at = "Read"]
  BY DEF Settle
<1>2. button' = button
  BY <1>1 DEF AdvanceStreet, showdown
<1>3. /\ walk' \in WalkType /\ walk'.at = "Read"
      /\ walk'.preflop_aggressor = walk.preflop_aggressor
      /\ walk'.flop_bettor = walk.flop_bettor
  BY <1>0, <1>1 DEF WalkSound, WalkType
<1>4. Sound(real)'
  BY <1>0, <1>1
<1>5. WalkSound'
  BY <1>0, <1>1, <1>2, <1>3 DEF WalkSound
<1>6. GivenUp' /\ InvestedIsExact'
  BY <1>0, <1>1, <1>3 DEF GivenUp, InvestedIsExact
<1>7. ASSUME FullBlind', real'.at # None PROVE Mirrored'
  <2>1. FullBlind /\ real.at # None
    BY <1>1, <1>7 DEF FullBlind
  <2>2. SameSeats /\ StreetAhead /\ SameAggressors
    BY <1>0, <1>1, <2>1 DEF Mirrored
  <2>3. AbleToBet(folded, all_in) = CanAct(real)
    BY <1>0, <2>2, SameSeatsCanAct
  <2>4. can_continue_betting
    BY <2>2, <2>3 DEF StreetAhead, can_continue_betting
  <2>5. street # River
    <3>1. real.street \in Street /\ street + 1 = real.street
      BY <1>0, <2>2 DEF RealTable, StreetAhead
    <3>. QED
      BY <3>1, FoldRange
  <2>6. AdvanceStreet /\ walk' = [walk EXCEPT !.at = "Read", !.entered = TRUE]
    BY <1>1, <2>4, <2>5 DEF showdown
  <2>7. /\ street' = street + 1 /\ street_contrib' = NoChips /\ current_bet' = 0
        /\ min_raise' = BIG_BLIND /\ last_full_raise' = None /\ acted' = NoSeat
        /\ to_act' = first_to_act(action_order(button, next_active(button), street'),
                                  AbleToBet(folded, all_in))
        /\ UNCHANGED <<stacks, total_contrib, folded, all_in, eliminated, hand_over>>
    BY <2>6 DEF AdvanceStreet
  <2>8. walk'.entered = TRUE
    BY <1>0, <2>6 DEF WalkSound, WalkType
  <2>9. to_act' \in Seat
    <3>1. button \in Seat /\ real.seated[button]
      BY <1>0 DEF WalkSound
    <3>2. CanAct(real) \in SUBSET Seat
      BY <1>0, SeatsOf
    <3>3. CanAct(real) # {} /\ \E s, t \in CanAct(real) : s # t
      BY <2>2, <3>2, TwoSeats DEF StreetAhead
    <3>4. eliminated \in [Seat -> BOOLEAN]
      BY <2>2 DEF SameSeats
    <3>5. Cardinality(active_seats) >= 2
      <4>1. active_seats \in SUBSET Seat
        BY DEF active_seats
      <4>2. CanAct(real) \subseteq active_seats
        BY <2>2, <1>0, SeatsOf DEF SameSeats, active_seats
      <4>. QED
        BY <3>3, <4>1, <4>2, TwoSeats
    <3>6. PICK bb \in Seat : bb = next_active(button) /\ bb # button
      BY <3>1, <3>4, <3>5, NextActiveFacts
    <3>7. PICK able \in SUBSET Seat : able = CanAct(real) /\ able # {}
      BY <3>2, <3>3
    <3>8. PICK btn \in Seat : btn = button
      BY <3>1
    <3>9. PICK st : st = street'
      OBVIOUS
    <3>10. first_to_act(action_order(btn, bb, st), able) \in able
      BY <3>6, <3>7, <3>8, FirstToActCanBet
    <3>. QED
      BY <2>3, <2>7, <3>2, <3>6, <3>7, <3>8, <3>9, <3>10
  <2>10. SameSeats'
    BY <1>1, <2>2, <2>7 DEF SameSeats
  <2>11. SameStreet'
    BY <1>1, <1>3, <2>2, <2>7, <2>8, <2>9 DEF SameStreet, StreetAhead, SeatOrNone
  <2>12. SameAggressors'
    BY <1>1, <1>3, <2>2 DEF SameAggressors
  <2>. QED
    BY <1>3, <2>10, <2>11, <2>12 DEF Mirrored
<1>8. real'.at = None => Mirrored'
  BY DEF Mirrored
<1>. QED
  BY <1>4, <1>5, <1>6, <1>7, <1>8 DEF ReplayInv

(***************************************************************************)
(* The theorems.                                                           *)
(***************************************************************************)
LEMMA ReplayStep ==
  ASSUME ReplayInv, [HistoryNext]_historyVars
  PROVE  ReplayInv'
<1>1. CASE ReadLine
  BY <1>1, ReadLineStep
<1>2. CASE RejectLine
  BY <1>2, RejectLineStep
<1>3. CASE Settle
  BY <1>3, SettleStep
<1>4. CASE FreezeDecision
  BY <1>4, WalkLineStep DEF FreezeDecision
<1>5. CASE UNCHANGED walkVars
  BY <1>5 DEF walkVars, vars, betting, ReplayInv, Sound, SoundChips, InTurn, MustAct,
     WalkSound, FullBlind, Mirrored, SameSeats, SameStreet, SameAggressors, StreetAhead,
     GivenUp, InvestedIsExact
<1>6. CASE ReadShown
  BY <1>5, <1>6 DEF ReadShown
<1>7. CASE WalkEnds
  BY <1>5, <1>7 DEF WalkEnds
<1>8. CASE UNCHANGED historyVars
  BY <1>5, <1>8 DEF historyVars
<1>. QED
  BY <1>1, <1>2, <1>3, <1>4, <1>6, <1>7, <1>8 DEF HistoryNext

\* The engine follows the real table to the end of the hand.
THEOREM ReplayInvariance == HistorySpec => []ReplayInv
<1>1. HistoryInit => ReplayInv
  BY WalkInitInv DEF HistoryInit
<1>2. ReplayInv /\ [HistoryNext]_historyVars => ReplayInv'
  BY ReplayStep
<1>. QED
  BY <1>1, <1>2, PTL DEF HistorySpec

\* What parse_hand counts as the hero's investment is what the hero put in, as
\* long as the hero never raised after the flop came.
THEOREM InvestmentIsExact == HistorySpec => []InvestedIsExact
<1>1. ReplayInv => InvestedIsExact
  BY DEF ReplayInv
<1>. QED
  BY <1>1, ReplayInvariance, PTL

\* A hand whose big blind was posted in full is walked to its last line, and
\* every decision is frozen with the stacks, the pot and the price the seat
\* faced at the real table.
THEOREM TheReplayIsFaithful == HistorySpec => []ReplayIsFaithful
<1>1. ASSUME ReplayInv PROVE ReplayIsFaithful
  <2>1. FullBlind => walk.at # "Rejected"
    BY <1>1 DEF ReplayInv, GivenUp
  <2>2. ASSUME Freezing
        PROVE  /\ to_act = real.at
               /\ street = real.street
               /\ rotated(stacks)[0] = real.stack[real.at]
               /\ rotated(stacks)[hero_rotated] = real.stack[hero.seat]
               /\ \A s \in Seat : /\ stacks[s] = real.stack[s]
                                  /\ total_contrib[s] = real.total[s]
                                  /\ folded[s] = real.folded[s]
               /\ call_amount = Owed(real, real.at)
    <3>1. Following /\ Sound(real) /\ WalkSound
      BY <1>1, <2>2, LineIsNotRefused DEF Freezing, ReplayInv
    <3>2. /\ to_act \in Seat /\ to_act = real.at
          /\ call_amount = Owed(real, real.at)
      BY <3>1, SamePrices DEF Owed
    <3>3. /\ stacks = real.stack /\ total_contrib = real.total
          /\ folded = real.folded /\ street = real.street
      BY <3>1 DEF Following, SameSeats, SameStreet
    <3>4. hero.seat \in Seat
      BY <3>1 DEF WalkSound
    <3>5. rotated(stacks)[0] = real.stack[real.at]
      <4>1. 0 \in Seat /\ (0 + to_act) % 3 = to_act
        BY <3>2 DEF Seat
      <4>. QED
        BY <3>2, <3>3, <4>1 DEF rotated
    <3>6. rotated(stacks)[hero_rotated] = real.stack[hero.seat]
      <4>1. /\ hero_rotated \in Seat
            /\ (hero_rotated + to_act) % 3 = hero.seat
        BY <3>2, <3>4 DEF Seat, hero_rotated
      <4>. QED
        BY <3>3, <4>1 DEF rotated
    <3>. QED
      BY <3>2, <3>3, <3>5, <3>6
  <2>. QED
    BY <2>1, <2>2 DEF ReplayIsFaithful
<1>. QED
  BY <1>1, ReplayInvariance, PTL

\* The position a seat is filed under is never the third one heads-up.
LEMMA ThirdPosition ==
  ASSUME ReplayInv, Following, decision_position = "THIRD"
  PROVE  active_seats = Seat
<1>0. /\ Sound(real) /\ WalkSound /\ real \in RealTable
  BY DEF ReplayInv, Sound
<1>1. /\ button \in Seat /\ real.seated[button]
      /\ eliminated = [s \in Seat |-> ~real.seated[s]]
      /\ real.seated \in [Seat -> BOOLEAN]
  BY <1>0 DEF WalkSound, Following, SameSeats, RealTable
<1>2. /\ to_act \in Seat /\ real.seated[to_act]
  BY <1>0, SamePrices, ActorFacts DEF Following
<1>3. to_act # button /\ to_act # next_active(button)
  BY DEF decision_position
<1>4. ~eliminated[button] /\ ~eliminated[to_act]
  BY <1>1, <1>2
<1>5. /\ Left(button) \in Seat /\ Left(Left(button)) \in Seat
      /\ \A t \in Seat : t \in {button, Left(button), Left(Left(button))}
  BY <1>1, LeftFacts
<1>6. \A s \in Seat : ~eliminated[s]
  BY <1>2, <1>3, <1>4, <1>5 DEF next_active
<1>. QED
  BY <1>6 DEF active_seats

\* In every state the invariant allows, a decision is filed as it was played.
LEMMA FiledAsPlayed ==
  ASSUME ReplayInv
  PROVE  DecisionsAreFiledAsPlayed
<1>. SUFFICES ASSUME walk.at = "Walk", FullBlind
     PROVE  /\ decision_node = RealNode
            /\ decision_position = "THIRD" => active_seats = Seat
            /\ ~real.calledAllIn =>
                 aggressor_context(decision_node, was_preflop_aggressor, facing_cbet) =
                   IF real.street # Flop THEN "NOT_APPLICABLE"
                   ELSE IF real.aggressor # None
                           /\ real.aggressor = IF RealNode.faced THEN real.raiser ELSE walk.line.seat
                        THEN "AGGRESSOR" ELSE "NOT_AGGRESSOR"
  BY DEF DecisionsAreFiledAsPlayed
<1>1. /\ Following /\ Sound(real) /\ WalkSound /\ Mirrored
  BY LineIsNotRefused DEF ReplayInv
<1>2. SameAggressors /\ real.at # None
  BY <1>1 DEF Mirrored, Following
<1>3. /\ street = real.street /\ current_bet = real.bet
  BY <1>1 DEF Following, SameStreet
<1>4. /\ to_act \in Seat /\ to_act = real.at /\ to_act = walk.line.seat
      /\ to_call = real.bet - real.contrib[to_act]
      /\ real.contrib[to_act] \in Nat /\ real.bet \in Nat
      /\ real.contrib[to_act] <= real.bet
  BY <1>1, SamePrices
<1>5. real.street # Preflop => (to_call # 0 <=> real.bet > 0)
  <2>1. ASSUME real.street # Preflop, real.contrib[to_act] = real.bet
        PROVE  real.bet = 0
    <3>1. to_act \in Waiting(real)
      BY <1>1, <1>2, <1>4, ActorFacts DEF Sound
    <3>2. ~real.acted[to_act]
      BY <1>4, <2>1, <3>1 DEF Waiting
    <3>3. real.contrib[to_act] = 0
      BY <1>1, <1>4, <2>1, <3>2 DEF Sound, SoundChips
    <3>. QED
      BY <2>1, <3>3
  <2>. QED
    BY <1>4, <2>1
<1>6. decision_node = RealNode
  BY <1>3, <1>5 DEF decision_node, RealNode, can_check
<1>7. decision_position = "THIRD" => active_seats = Seat
  BY <1>1, ThirdPosition
<1>8. ASSUME ~real.calledAllIn
      PROVE  aggressor_context(decision_node, was_preflop_aggressor, facing_cbet) =
                   IF real.street # Flop THEN "NOT_APPLICABLE"
                   ELSE IF real.aggressor # None
                           /\ real.aggressor = IF RealNode.faced THEN real.raiser ELSE walk.line.seat
                        THEN "AGGRESSOR" ELSE "NOT_AGGRESSOR"
  <2>1. /\ walk.preflop_aggressor = real.aggressor
        /\ real.street = Flop => walk.flop_bettor = real.raiser
    BY <1>2, <1>8 DEF SameAggressors
  <2>2. RealNode.street = real.street
    BY DEF RealNode
  <2>3. walk.line.seat # None
    BY <1>4, SeatFacts
  <2>. QED
    BY <1>3, <1>6, <2>1, <2>2, <2>3
    DEF aggressor_context, was_preflop_aggressor, facing_cbet
<1>. QED
  BY <1>6, <1>7, <1>8

\* A decision is filed under the node the seat was at, heads-up never under the
\* third position, and under the aggressor context of the real table.
THEOREM DecisionsFiledAsPlayed == HistorySpec => []DecisionsAreFiledAsPlayed
<1>1. ReplayInv => DecisionsAreFiledAsPlayed
  BY FiledAsPlayed
<1>. QED
  BY <1>1, ReplayInvariance, PTL

-----------------------------------------------------------------------------
(***************************************************************************)
(* The points and the moves.                                               *)
(***************************************************************************)
\* What a line is filed as is what it is at the real table, unless it calls for
\* all the seat has.
LEMMA LineCategory ==
  ASSUME Sound(real), WalkSound, Following
  PROVE  LET played == ActionCategory(convert_action(walk.line))
             move == RealMove(walk.line).category
         IN played = move \/ (/\ walk.line.verb = "Call" /\ walk.line.all_in
                              /\ move = "CallCheck" /\ played = "Shove")
<1>. DEFINE l == walk.line
            c == convert_action(l)
<1>0. real \in RealTable
  BY DEF Sound
<1>1. /\ l \in LineType /\ l \in Lines(real) /\ to_act \in Seat
      /\ to_act = real.at /\ l.seat = to_act /\ real.at # None
  BY SamePrices DEF Following
<1>2. PICK stack \in Nat, contrib \in Nat, paid \in Nat :
         /\ stack > 0
         /\ stacks[l.seat] = stack /\ street_contrib[l.seat] = contrib
         /\ paid = PaidBy(real, l)
         /\ contrib = real.contrib[real.at] /\ stack = real.stack[real.at]
  BY <1>0, <1>1, SamePrices, LineFacts DEF stack_to_act
<1>3. /\ l.verb = "Check" => to_call = 0
      /\ l.verb \in {"Call", "Bet", "Raise"} => (l.all_in <=> paid = stack)
      /\ l.verb = "Call" => l.amount = paid
      /\ l.verb = "Bet" => l.amount = paid
      /\ l.verb = "Raise" => l.to = contrib + paid
  BY <1>0, <1>1, <1>2, SamePrices, LineFacts
<1>4. /\ l.verb \in {"Fold", "Check", "Call", "Bet", "Raise"} /\ l.all_in \in BOOLEAN
  BY <1>1 DEF LineType
<1>. HIDE DEF l
<1>5. /\ l.verb = "Fold" => c = Plain("Fold")
      /\ l.verb = "Check" => c = Plain("Check")
      /\ l.verb = "Call" /\ ~l.all_in => c = Plain("Call")
      /\ l.verb \in {"Call", "Bet", "Raise"} /\ l.all_in => c = Plain("AllIn")
      /\ l.verb = "Bet" /\ ~l.all_in => c = Sized("Bet", paid)
      /\ l.verb = "Raise" /\ ~l.all_in =>
           c = Sized(IF call_amount = 0 THEN "Bet" ELSE "Raise", contrib + paid)
  BY <1>2, <1>3, <1>4, ConvertedLine
<1>. HIDE DEF c
<1>6. /\ l.verb = "Fold" => c.kind = "Fold"
      /\ l.verb = "Check" => c.kind = "Check"
      /\ l.verb = "Call" /\ ~l.all_in => c.kind = "Call"
      /\ l.verb \in {"Call", "Bet", "Raise"} /\ l.all_in => c.kind = "AllIn"
      /\ l.verb \in {"Bet", "Raise"} /\ ~l.all_in => c.kind \in {"Bet", "Raise"}
  BY <1>4, <1>5, KindsDiffer
<1>7. RealMove(l).category = CASE l.verb = "Fold" -> "Fold"
                               [] l.verb \in {"Check", "Call"} -> "CallCheck"
                               [] OTHER -> IF l.all_in THEN "Shove" ELSE "BetRaise"
  BY DEF RealMove
<1>8. ActionCategory(c) = RealMove(l).category
      \/ (l.verb = "Call" /\ l.all_in /\ RealMove(l).category = "CallCheck"
          /\ ActionCategory(c) = "Shove")
  BY <1>4, <1>6, <1>7 DEF ActionCategory
<1>. QED
  BY <1>8 DEF c, l

\* Of whatever its members are.
IsASequence(s) == \E S : s \in Seq(S)

\* One member more.
LEMMA AppendFacts ==
  ASSUME NEW s, IsASequence(s), NEW e
  PROVE  /\ IsASequence(Append(s, e))
         /\ Len(s) \in Nat /\ DOMAIN s = 1 .. Len(s)
         /\ Len(Append(s, e)) = Len(s) + 1
         /\ DOMAIN Append(s, e) = 1 .. Len(s) + 1
         /\ Append(s, e)[Len(s) + 1] = e
         /\ \A i \in 1 .. Len(s) : Append(s, e)[i] = s[i]
<1>1. PICK S : s \in Seq(S)
  BY DEF IsASequence
<1>. DEFINE T == S \cup {e}
<1>2. s \in Seq(T) /\ e \in T
  BY <1>1
<1>. HIDE DEF T
<1>3. /\ Append(s, e) \in Seq(T)
      /\ Len(Append(s, e)) = Len(s) + 1
      /\ Append(s, e)[Len(s) + 1] = e
      /\ \A i \in 1 .. Len(s) : Append(s, e)[i] = s[i]
  BY <1>2, AppendProperties
<1>. QED
  BY <1>2, <1>3, LenProperties DEF IsASequence

\* A point of a move.
IsPoint(point, move, i, full, called) ==
  /\ point.no = i
  /\ point.seat = move.seat
  /\ point.ready
  /\ full =>
       /\ point.node = move.node
       /\ point.category = move.category
          \/ (called /\ move.category = "CallCheck" /\ point.category = "Shove")
       /\ move.raises <=> move.category \in {"BetRaise", "Shove"}

\* The inductive invariant of the points.
PointsInv ==
  /\ IsASequence(walked) /\ IsASequence(moves)
  /\ Len(walked) = Len(moves)
  /\ \A i \in 1 .. Len(moves) : IsPoint(walked[i], moves[i], i, FullBlind, real.calledAllIn)

\* A blind that is posted in full is posted for good, and an all-in is not taken
\* back.
LEMMA RealTableGoesOn ==
  ASSUME ReplayInv, WalkLine
  PROVE  /\ FullBlind' => FullBlind
         /\ real'.calledAllIn = (real.calledAllIn \/ (walk.line.verb = "Call" /\ walk.line.all_in))
<1>0. /\ Sound(real) /\ WalkSound /\ real \in RealTable
  BY DEF ReplayInv, Sound
<1>1. PICK l : l = walk.line
  OBVIOUS
<1>2. walk.at = "Walk" /\ real.at # None /\ l \in Lines(real)
  BY <1>0, <1>1 DEF WalkLine, WalkSound
<1>3. PICK a \in RealTable, p \in RealTable :
           /\ a = AfterLine(real, l) /\ p = Played(real, l)
           /\ LineChanges(real, l, a)
           /\ PostedInFullAt(p) => PostedInFullAt(real)
           /\ Carried(real, a, p)
  BY <1>0, <1>2, PlayedCases, Zenon
<1>4. real' = p
  BY <1>1, <1>3 DEF WalkLine
<1>5. p.calledAllIn = (real.calledAllIn \/ (l.verb = "Call" /\ l.all_in))
  BY <1>3, Zenon DEF LineChanges, Carried
<1>. QED
  BY <1>1, <1>3, <1>4, <1>5 DEF FullBlind, PostedInFullAt

\* The point of a line is the point of its move.
LEMMA PointOfALine ==
  ASSUME ReplayInv, WalkLine
  PROVE  IsPoint(DecisionPoint(walk.line), RealMove(walk.line), Len(walked) + 1,
                 FullBlind', real'.calledAllIn)
<1>. DEFINE l == walk.line
            point == DecisionPoint(l)
            move == RealMove(l)
<1>1. Follows(l) /\ walk.at = "Walk" /\ Sound(real) /\ WalkSound /\ l \in LineType
  BY DEF WalkLine, ReplayInv, WalkSound, WalkType
<1>2. point.no = Len(walked) + 1 /\ point.seat = l.seat /\ move.seat = l.seat
      /\ point.ready = (~hand_over /\ to_act = l.seat)
      /\ point.node = decision_node /\ move.node = RealNode
      /\ point.category = ActionCategory(convert_action(l))
      /\ move.raises = (l.verb \in {"Bet", "Raise"})
      /\ move.category = CASE l.verb = "Fold" -> "Fold"
                           [] l.verb \in {"Check", "Call"} -> "CallCheck"
                           [] OTHER -> IF l.all_in THEN "Shove" ELSE "BetRaise"
  BY DEF DecisionPoint, RealMove
<1>3. point.ready
  BY <1>1, <1>2 DEF Follows
<1>4. ASSUME FullBlind'
      PROVE  /\ point.node = move.node
             /\ point.category = move.category
                \/ (real'.calledAllIn /\ move.category = "CallCheck" /\ point.category = "Shove")
  <2>1. FullBlind /\ Following
    BY <1>1, <1>4, RealTableGoesOn, LineIsNotRefused
  <2>2. decision_node = RealNode
    BY <1>1, <2>1, FiledAsPlayed DEF DecisionsAreFiledAsPlayed
  <2>3. \/ ActionCategory(convert_action(walk.line)) = RealMove(walk.line).category
        \/ /\ walk.line.verb = "Call" /\ walk.line.all_in
           /\ RealMove(walk.line).category = "CallCheck"
           /\ ActionCategory(convert_action(walk.line)) = "Shove"
    BY <1>1, <2>1, LineCategory
  <2>. QED
    BY <1>2, <2>2, <2>3, RealTableGoesOn
<1>5. move.raises <=> move.category \in {"BetRaise", "Shove"}
  BY <1>1, <1>2 DEF LineType
<1>. QED
  BY <1>2, <1>3, <1>4, <1>5 DEF IsPoint

\* Every step keeps the points.
LEMMA PointsStep ==
  ASSUME ReplayInv, PointsInv, [HistoryNext]_historyVars
  PROVE  PointsInv'
<1>1. ASSUME UNCHANGED <<walked, moves, real>> PROVE PointsInv'
  BY <1>1 DEF PointsInv, FullBlind
<1>2. CASE FreezeDecision
  <2>1. /\ WalkLine
        /\ walked' = Append(walked, DecisionPoint(walk.line))
        /\ moves' = Append(moves, RealMove(walk.line))
    BY <1>2 DEF FreezeDecision
  <2>. DEFINE n == Len(moves)
  <2>2. n \in Nat /\ Len(walked) = n /\ IsASequence(walked) /\ IsASequence(moves)
    BY AppendFacts DEF PointsInv
  <2>3. /\ IsASequence(walked') /\ IsASequence(moves')
        /\ Len(walked') = n + 1 /\ Len(moves') = n + 1
        /\ walked'[n + 1] = DecisionPoint(walk.line) /\ moves'[n + 1] = RealMove(walk.line)
        /\ \A i \in 1 .. n : walked'[i] = walked[i] /\ moves'[i] = moves[i]
    BY <2>1, <2>2, AppendFacts
  <2>4. IsPoint(walked'[n + 1], moves'[n + 1], n + 1, FullBlind', real'.calledAllIn)
    BY <2>1, <2>2, <2>3, PointOfALine
  <2>5. ASSUME NEW i \in 1 .. n
        PROVE  IsPoint(walked'[i], moves'[i], i, FullBlind', real'.calledAllIn)
    <3>1. IsPoint(walked[i], moves[i], i, FullBlind, real.calledAllIn)
      BY DEF PointsInv
    <3>2. (FullBlind' => FullBlind) /\ (real.calledAllIn => real'.calledAllIn)
      BY <2>1, RealTableGoesOn
    <3>. QED
      BY <2>3, <3>1, <3>2 DEF IsPoint
  <2>6. \A i \in 1 .. n + 1 : i \in 1 .. n \/ i = n + 1
    BY <2>2
  <2>. HIDE DEF n
  <2>7. \A i \in 1 .. n + 1 : IsPoint(walked'[i], moves'[i], i, FullBlind', real'.calledAllIn)
    BY <2>4, <2>5, <2>6
  <2>. QED
    BY <2>3, <2>7 DEF PointsInv
<1>3. CASE ReadLine /\ UNCHANGED <<walked, moves, local_hero_actions, shown>>
  BY <1>1, <1>3 DEF ReadLine
<1>4. CASE RejectLine /\ UNCHANGED <<walked, moves, local_hero_actions, shown>>
  BY <1>1, <1>4 DEF RejectLine
<1>5. CASE Settle /\ UNCHANGED <<walked, moves, local_hero_actions, shown>>
  BY <1>1, <1>5 DEF Settle
<1>6. CASE ReadShown
  BY <1>1, <1>6 DEF ReadShown, walkVars
<1>7. CASE WalkEnds /\ UNCHANGED <<walked, moves, local_hero_actions, shown>>
  BY <1>1, <1>7 DEF WalkEnds, walkVars
<1>8. CASE UNCHANGED historyVars
  BY <1>1, <1>8 DEF historyVars, walkVars
<1>. QED
  BY <1>2, <1>3, <1>4, <1>5, <1>6, <1>7, <1>8 DEF HistoryNext

\* A point is frozen for each decision of the real table, in its order, of the
\* seat that took it, under its node, as what was done, and ready to be graded
\* (src/src/opponent_analysis.rs: walk_hand).
THEOREM PointsAreMoves == HistorySpec => []EveryPointIsAMove
<1>1. HistoryInit => PointsInv
  <2>. SUFFICES ASSUME walked = <<>>, moves = <<>> PROVE PointsInv
    BY DEF HistoryInit
  <2>. QED
    BY EmptySeq DEF PointsInv, IsASequence
<1>2. PointsInv => EveryPointIsAMove
  <2>. SUFFICES ASSUME PointsInv PROVE EveryPointIsAMove
    OBVIOUS
  <2>1. DOMAIN moves = 1 .. Len(moves)
    BY AppendFacts DEF PointsInv
  <2>. QED
    BY <2>1 DEF PointsInv, IsPoint, EveryPointIsAMove
<1>3. ReplayInv /\ PointsInv /\ [HistoryNext]_historyVars => PointsInv'
  BY PointsStep
<1>. QED
  BY <1>1, <1>2, <1>3, ReplayInvariance, PTL DEF HistorySpec
=============================================================================
