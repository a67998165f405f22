------------------------------ MODULE ResumeProofs ------------------------------
(***************************************************************************)
(* Proofs about TableResume, for any deck, hole cards and board that the   *)
(* deck threshold allows, any windows of the tracker and the chart, and    *)
(* any losses: the deck deals no card twice before a resumed one is        *)
(* shuffled, the tracker and the chart know what is stored, and no hand    *)
(* has two results.                                                        *)
(***************************************************************************)
EXTENDS TableResume, SequenceTheorems, FiniteSetTheorems, WellFoundedInduction, TLAPS

\* The position stays in the deck, and what a hand may still deal lies ahead.
RoomInv ==
  /\ top \in 0..DeckSize
  /\ undealt \in 0..BoardCards
  /\ undealt <= DeckSize - top

\* A new deck has room: no hand is being dealt.
LEMMA InitRoom == Init => RoomInv
  BY DeckAssumption DEF Init, RoomInv

\* Every step keeps the room: a hand starts only where the threshold leaves
\* it, a resume moves nothing, and the board takes what was set aside for it.
LEMMA NextKeepsRoom == RoomInv /\ [Next]_vars => RoomInv'
  <1> SUFFICES ASSUME RoomInv, [Next]_vars
               PROVE  RoomInv'
    OBVIOUS
  <1>0. DeckSize \in Nat /\ BoardCards \in Nat /\ top \in Nat /\ MIN_DECK_FOR_HAND \in Nat
    BY DeckAssumption DEF RoomInv
  <1>1. CASE DealHand
    <2>1. PICK hole \in HoleCards :
            /\ undealt' = BoardCards
            /\ \/ ~TooFewLeft /\ top' = top + hole
               \/ top' = 0 + hole
      BY <1>1 DEF DealHand, Deal
    <2>2. hole \in Nat /\ hole + BoardCards <= MIN_DECK_FOR_HAND
      BY DeckAssumption
    <2>3. CASE ~TooFewLeft /\ top' = top + hole
      <3>1. MIN_DECK_FOR_HAND <= DeckSize - top
        BY <1>0, <2>3 DEF TooFewLeft, remaining
      <3> QED
        BY <1>0, <2>1, <2>2, <2>3, <3>1 DEF RoomInv
    <2>4. CASE top' = 0 + hole
      <3>1. MIN_DECK_FOR_HAND <= DeckSize
        BY DeckAssumption
      <3> QED
        BY <1>0, <2>1, <2>2, <2>4, <3>1 DEF RoomInv
    <2> QED
      BY <2>1, <2>3, <2>4
  <1>2. CASE DealBoardCard
    BY <1>0, <1>2 DEF DealBoardCard, RoomInv
  <1>3. CASE Resume
    BY <1>3 DEF Resume, RoomInv
  <1>4. CASE UNCHANGED vars
    BY <1>4 DEF vars, RoomInv
  <1> QED
    BY <1>1, <1>2, <1>3, <1>4 DEF Next

\* A call of the table is a step of its deck, or puts a new one before it.
LEMMA TableKeepsDeck == [TableNext]_tableVars => [Next]_vars \/ Init'
  BY DEF TableNext, DeckStep, Next, new_deck, Init, tableVars, vars

\* No hand runs out of cards, however often the table was resumed or begun
\* anew: the threshold of deal_next_hand (src/src/server/session.rs:585-587) is
\* enough.
THEOREM HandsAreDealtOut == TableSpec => []HandNeverRunsOut
  <1>1. TableInit => Init
    BY DEF TableInit
  <1>2. RoomInv /\ [TableNext]_tableVars => RoomInv'
    BY InitRoom, NextKeepsRoom, TableKeepsDeck, PTL
  <1>3. RoomInv => HandNeverRunsOut
    BY DEF RoomInv, HandNeverRunsOut, remaining
  <1> QED
    BY <1>1, <1>2, <1>3, InitRoom, PTL DEF TableSpec

-----------------------------------------------------------------------------
(***************************************************************************)
(* No card twice.  A table that was never resumed has a permutation of the *)
(* deck before it, so a shuffle is harmless; a resumed one has only its    *)
(* rest, which is why the invariant ends with the next shuffle.            *)
(***************************************************************************)
\* The cards of the hand, and those to come, all different.
Apart ==
  /\ \A i, j \in 1..Len(dealt) : i # j => dealt[i] # dealt[j]
  /\ \A i, j \in (top + 1)..DeckSize : i # j => cards[i] # cards[j]
  /\ \A i \in 1..Len(dealt) : \A j \in (top + 1)..DeckSize : dealt[i] # cards[j]

CardsInv ==
  /\ cards \in [Card -> Card]
  /\ dealt \in Seq(Card)
  /\ rebuilt \in {"no", "resumed", "shuffled"}
  /\ rebuilt = "no" => cards \in Orders
  /\ rebuilt # "shuffled" => Apart

\* A piece of the array: its length and its cards.
LEMMA PieceOfTheDeck ==
  ASSUME NEW order \in [Card -> Card], NEW m \in Nat, NEW n \in Nat, n <= DeckSize
  PROVE  /\ SubSeq(order, m + 1, n) \in Seq(Card)
         /\ Len(SubSeq(order, m + 1, n)) = IF m + 1 <= n THEN n - m ELSE 0
         /\ \A i \in 1..(n - m) : SubSeq(order, m + 1, n)[i] = order[m + i]
  <1>1. \A i \in (m + 1)..n : order[i] \in Card
    BY DeckAssumption DEF Card
  <1>2. m + 1 \in Int /\ n \in Int
    OBVIOUS
  <1>3. /\ SubSeq(order, m + 1, n) \in Seq(Card)
        /\ Len(SubSeq(order, m + 1, n)) = IF m + 1 <= n THEN n - (m + 1) + 1 ELSE 0
        /\ \A i \in 1..(n - (m + 1) + 1) : SubSeq(order, m + 1, n)[i] = order[(m + 1) + i - 1]
    BY <1>1, <1>2, SubSeqProperties
  <1>4. n - (m + 1) + 1 = n - m
    OBVIOUS
  <1>5. \A i \in 1..(n - m) : (m + 1) + i - 1 = m + i
    OBVIOUS
  <1> QED
    BY <1>3, <1>4, <1>5

\* The cards still to come.
LEMMA TheRest ==
  ASSUME RoomInv, CardsInv
  PROVE  /\ remaining_in_order \in Seq(Card)
         /\ Len(remaining_in_order) = DeckSize - top
         /\ \A i \in 1..(DeckSize - top) : remaining_in_order[i] = cards[top + i]
  <1>1. DeckSize \in Nat /\ top \in Nat /\ top <= DeckSize
    BY DeckAssumption DEF RoomInv
  <1>2. (IF top + 1 <= DeckSize THEN DeckSize - top ELSE 0) = DeckSize - top
    BY <1>1
  <1>3. cards \in [Card -> Card] /\ DeckSize <= DeckSize
    BY <1>1 DEF CardsInv
  <1> QED
    BY <1>1, <1>2, <1>3, PieceOfTheDeck DEF remaining_in_order

\* A hand dealt off an order without a repetition beyond its start is apart
\* from what is left.
LEMMA DealtApart ==
  ASSUME NEW order \in [Card -> Card], NEW from \in Nat, NEW n \in Nat,
         from + n <= DeckSize, n > 0,
         \A i, j \in (from + 1)..DeckSize : i # j => order[i] # order[j],
         Deal(order, from, n)
  PROVE  dealt' \in Seq(Card) /\ Apart'
  <1> DeckSize \in Nat
    BY DeckAssumption
  <1>1. /\ dealt' \in Seq(Card)
        /\ Len(dealt') = n
        /\ \A i \in 1..n : dealt'[i] = order[from + i]
    <2>1. from + n \in Nat /\ (from + n) - from = n /\ from + 1 <= from + n
      OBVIOUS
    <2>. DEFINE upto == from + n
                piece == SubSeq(order, from + 1, upto)
    <2>2. upto \in Nat /\ upto <= DeckSize
      BY <2>1
    <2>. HIDE DEF upto
    <2>3. /\ piece \in Seq(Card)
          /\ Len(piece) = IF from + 1 <= upto THEN upto - from ELSE 0
          /\ \A i \in 1..(upto - from) : piece[i] = order[from + i]
      BY <2>2, PieceOfTheDeck
    <2>4. dealt' = piece
      BY DEF Deal, upto
    <2>5. upto - from = n /\ from + 1 <= upto
      BY <2>1 DEF upto
    <2>. HIDE DEF piece
    <2> QED
      BY <2>3, <2>4, <2>5
  <1>2. cards' = order /\ top' = from + n
    BY DEF Deal
  <1>3. \A i \in 1..n : from + i \in (from + 1)..DeckSize /\ from + i <= from + n
    OBVIOUS
  <1>4. \A j \in (from + n + 1)..DeckSize : j \in (from + 1)..DeckSize /\ j > from + n
    OBVIOUS
  <1>5. \A i, j \in 1..n : i # j => from + i # from + j
    OBVIOUS
  <1>6. \A i, j \in 1..n : i # j => dealt'[i] # dealt'[j]
    <2> SUFFICES ASSUME NEW i \in 1..n, NEW j \in 1..n, i # j
                 PROVE  dealt'[i] # dealt'[j]
      OBVIOUS
    <2>1. dealt'[i] = order[from + i] /\ dealt'[j] = order[from + j]
      BY <1>1
    <2>2. from + i \in (from + 1)..DeckSize /\ from + j \in (from + 1)..DeckSize
      BY <1>3
    <2>3. from + i # from + j
      BY <1>5
    <2>4. order[from + i] # order[from + j]
      BY <2>2, <2>3, Zenon
    <2> QED
      BY <2>1, <2>4, Zenon
  <1>7. \A i \in 1..n : \A j \in (from + n + 1)..DeckSize : dealt'[i] # order[j]
    <2> SUFFICES ASSUME NEW i \in 1..n, NEW j \in (from + n + 1)..DeckSize
                 PROVE  dealt'[i] # order[j]
      OBVIOUS
    <2>1. from + i # j
      OBVIOUS
    <2>2. from + i \in (from + 1)..DeckSize /\ j \in (from + 1)..DeckSize
      BY <1>3, <1>4
    <2>3. order[from + i] # order[j]
      BY <2>1, <2>2, Zenon
    <2>4. dealt'[i] = order[from + i]
      BY <1>1, Zenon
    <2> QED
      BY <2>3, <2>4, Zenon
  <1>8. \A i, j \in (from + n + 1)..DeckSize : i # j => order[i] # order[j]
    BY <1>4
  <1> QED
    BY <1>1, <1>2, <1>6, <1>7, <1>8 DEF Apart

\* Shuffling a permutation of the deck gives one.
LEMMA Shuffled ==
  ASSUME NEW deck \in Orders, NEW order \in Orders
  PROVE  [i \in Card |-> deck[order[i]]] \in Orders
  BY DEF Orders

\* A new deck is a permutation of which nothing is dealt.
LEMMA InitCards == Init => CardsInv
  <1> SUFFICES ASSUME Init
               PROVE  CardsInv
    OBVIOUS
  <1> DeckSize \in Nat
    BY DeckAssumption
  <1>1. cards \in Orders /\ top = 0 /\ dealt = <<>> /\ rebuilt = "no"
    BY DEF Init
  <1>2. dealt \in Seq(Card) /\ Len(dealt) = 0
    BY <1>1, EmptySeq
  <1>3. \A i \in (0 + 1)..DeckSize : i \in Card
    BY DEF Card
  <1>4. Apart
    BY <1>1, <1>2, <1>3 DEF Apart, Orders
  <1> QED
    BY <1>1, <1>2, <1>4 DEF CardsInv, Orders

\* Every step keeps it: a hand is dealt off the rest, or off a permutation
\* that was shuffled; a board card moves from the rest to the hand; and a
\* resume keeps the rest where it lies.
LEMMA NextKeepsCards == RoomInv /\ CardsInv /\ [Next]_vars => CardsInv'
  <1> SUFFICES ASSUME RoomInv, CardsInv, [Next]_vars
               PROVE  CardsInv'
    OBVIOUS
  <1>0. DeckSize \in Nat /\ top \in Nat /\ top <= DeckSize /\ MIN_DECK_FOR_HAND \in Nat
    BY DeckAssumption DEF RoomInv
  <1>1. CASE DealHand
    <2>1. PICK hole \in HoleCards :
            \/ /\ ~TooFewLeft
               /\ Deal(cards, top, hole)
               /\ UNCHANGED rebuilt
            \/ /\ TooFewLeft
               /\ \E order \in Orders :
                    Deal([i \in Card |-> cards[order[i]]], 0, hole)
               /\ rebuilt' = IF rebuilt = "no" THEN "no" ELSE "shuffled"
      BY <1>1 DEF DealHand
    <2>2. hole \in Nat /\ hole > 0 /\ hole <= MIN_DECK_FOR_HAND /\ MIN_DECK_FOR_HAND <= DeckSize
      BY DeckAssumption
    <2>3. CASE ~TooFewLeft /\ Deal(cards, top, hole) /\ UNCHANGED rebuilt
      <3>1. top + hole <= DeckSize
        BY <1>0, <2>2, <2>3 DEF TooFewLeft, remaining
      <3>2. cards' = cards
        BY <2>3 DEF Deal
      <3>3. dealt' \in Seq(Card)
        <4>1. top + hole \in Nat
          BY <1>0, <2>2
        <4> QED
          BY <1>0, <2>3, <3>1, <4>1, PieceOfTheDeck DEF Deal, CardsInv
      <3>4. rebuilt # "shuffled" => Apart'
        BY <1>0, <2>2, <2>3, <3>1, DealtApart DEF CardsInv, Apart
      <3> QED
        BY <2>3, <3>2, <3>3, <3>4 DEF CardsInv
    <2>4. CASE /\ \E order \in Orders :
                    Deal([i \in Card |-> cards[order[i]]], 0, hole)
               /\ rebuilt' = IF rebuilt = "no" THEN "no" ELSE "shuffled"
      <3>1. PICK order \in Orders : Deal([i \in Card |-> cards[order[i]]], 0, hole)
        BY <2>4
      <3> DEFINE deck == [i \in Card |-> cards[order[i]]]
      <3>2. deck \in [Card -> Card]
        BY DEF CardsInv, Orders
      <3>3. cards' = deck
        BY <3>1 DEF Deal
      <3>4. dealt' \in Seq(Card)
        <4>1. dealt' = SubSeq(deck, 0 + 1, 0 + hole)
          BY <3>1 DEF Deal
        <4>2. 0 + hole \in Nat /\ 0 + hole <= DeckSize
          BY <1>0, <2>2
        <4> HIDE DEF deck
        <4> QED
          BY <3>2, <4>1, <4>2, PieceOfTheDeck
      <3>5. rebuilt = "no" => deck \in Orders
        BY <3>1, Shuffled DEF CardsInv
      <3>6. rebuilt = "no" => Apart'
        <4> SUFFICES ASSUME rebuilt = "no"
                     PROVE  Apart'
          OBVIOUS
        <4>1. deck \in Orders /\ Deal(deck, 0, hole)
          BY <3>1, <3>5
        <4> HIDE DEF deck
        <4>2. \A i, j \in (0 + 1)..DeckSize : i # j => deck[i] # deck[j]
          BY <1>0, <4>1 DEF Orders, Card
        <4>3. 0 + hole <= DeckSize
          BY <1>0, <2>2
        <4> QED
          BY <2>2, <3>2, <4>1, <4>2, <4>3, DealtApart
      <3> HIDE DEF deck
      <3> QED
        BY <2>4, <3>2, <3>3, <3>4, <3>5, <3>6 DEF CardsInv
    <2> QED
      BY <2>1, <2>3, <2>4
  <1>2. CASE DealBoardCard
    <2>1. /\ top' = top + 1
          /\ dealt' = Append(dealt, cards[top + 1])
          /\ cards' = cards
          /\ rebuilt' = rebuilt
      BY <1>2 DEF DealBoardCard
    <2>2. top + 1 <= DeckSize
      BY <1>0, <1>2 DEF DealBoardCard, RoomInv
    <2>3. cards[top + 1] \in Card
      BY <1>0, <2>2 DEF Card, CardsInv
    <2>4. dealt \in Seq(Card) /\ Len(dealt) \in Nat
      BY LenProperties DEF CardsInv
    <2>5. /\ dealt' \in Seq(Card)
          /\ Len(dealt') = Len(dealt) + 1
          /\ \A i \in 1..Len(dealt) : dealt'[i] = dealt[i]
          /\ dealt'[Len(dealt) + 1] = cards[top + 1]
      BY <2>1, <2>3, <2>4, AppendProperties
    <2>6. Apart => Apart'
      <3> SUFFICES ASSUME Apart
                   PROVE  Apart'
        OBVIOUS
      <3>1. top + 1 \in (top + 1)..DeckSize
        BY <1>0, <2>2
      <3>2. \A j \in (top' + 1)..DeckSize : j \in (top + 1)..DeckSize /\ j # top + 1
        BY <1>0, <2>1
      <3>3. \A i \in 1..Len(dealt') : i \in 1..Len(dealt) \/ i = Len(dealt) + 1
        BY <2>4, <2>5
      <3>4. \A i \in 1..Len(dealt) : dealt[i] # cards[top + 1]
        BY <3>1 DEF Apart
      <3>5. \A i, j \in 1..Len(dealt') : i # j => dealt'[i] # dealt'[j]
        <4> SUFFICES ASSUME NEW i \in 1..Len(dealt'), NEW j \in 1..Len(dealt'), i # j
                     PROVE  dealt'[i] # dealt'[j]
          OBVIOUS
        <4>1. CASE i \in 1..Len(dealt) /\ j \in 1..Len(dealt)
          BY <2>5, <4>1 DEF Apart
        <4>2. CASE i = Len(dealt) + 1
          BY <2>5, <3>3, <3>4, <4>2
        <4>3. CASE j = Len(dealt) + 1
          BY <2>5, <3>3, <3>4, <4>3
        <4> QED
          BY <3>3, <4>1, <4>2, <4>3
      <3>6. \A i \in 1..Len(dealt') : \A j \in (top' + 1)..DeckSize : dealt'[i] # cards'[j]
        BY <2>1, <2>5, <3>1, <3>2, <3>3 DEF Apart
      <3>7. \A i, j \in (top' + 1)..DeckSize : i # j => cards'[i] # cards'[j]
        BY <2>1, <3>2 DEF Apart
      <3> QED
        BY <3>5, <3>6, <3>7 DEF Apart
    <2> QED
      BY <2>1, <2>5, <2>6 DEF CardsInv
  <1>3. CASE Resume
    <2> DEFINE rest == remaining_in_order
    <2>1. /\ cards' = try_from_remaining(rest)
          /\ rebuilt' = IF rebuilt = "no" THEN "resumed" ELSE rebuilt
          /\ top' = top
          /\ dealt' = dealt
      BY <1>3 DEF Resume
    <2>2. /\ rest \in Seq(Card)
          /\ Len(rest) = DeckSize - top
          /\ \A i \in 1..(DeckSize - top) : rest[i] = cards[top + i]
      BY TheRest
    <2>3. DeckSize - Len(rest) = top
      BY <1>0, <2>2
    <2> HIDE DEF rest
    <2>4. \A i \in Card : cards'[i] = IF i <= top THEN i ELSE rest[i - top]
      BY <2>1, <2>3 DEF try_from_remaining
    <2>5. \A i \in (top + 1)..DeckSize :
            /\ i \in Card
            /\ i - top \in 1..(DeckSize - top)
            /\ ~(i <= top)
            /\ top + (i - top) = i
      BY <1>0 DEF Card
    <2>6. \A i \in (top + 1)..DeckSize : cards'[i] = cards[i]
      BY <2>2, <2>4, <2>5
    <2>7. cards' \in [Card -> Card]
      <3>1. \A i \in Card : i <= top \/ i \in (top + 1)..DeckSize
        BY <1>0 DEF Card
      <3>2. \A i \in Card : cards'[i] \in Card
        BY <2>4, <2>5, <2>6, <3>1 DEF CardsInv
      <3>3. cards' = [i \in Card |-> cards'[i]]
        BY <2>1 DEF try_from_remaining
      <3> QED
        BY <3>2, <3>3
    <2>8. Apart => Apart'
      BY <2>1, <2>6 DEF Apart
    <2> QED
      BY <2>1, <2>7, <2>8 DEF CardsInv
  <1>4. CASE UNCHANGED vars
    BY <1>4 DEF vars, CardsInv, Apart
  <1> QED
    BY <1>1, <1>2, <1>3, <1>4 DEF Next

\* What the invariant says of the hand and the rest as one sequence.
LEMMA ApartMeansAllDifferent ==
  ASSUME RoomInv, CardsInv, Apart
  PROVE  AllDifferent(dealt \o remaining_in_order)
  <1> DEFINE rest == remaining_in_order
  <1>0. DeckSize \in Nat /\ top \in Nat /\ top <= DeckSize
    BY DeckAssumption DEF RoomInv
  <1>1. /\ rest \in Seq(Card)
        /\ Len(rest) = DeckSize - top
        /\ \A i \in 1..(DeckSize - top) : rest[i] = cards[top + i]
    BY TheRest
  <1>2. dealt \in Seq(Card) /\ Len(dealt) \in Nat
    BY LenProperties DEF CardsInv
  <1> HIDE DEF rest
  <1>3. /\ Len(dealt \o rest) = Len(dealt) + Len(rest)
        /\ \A i \in 1..(Len(dealt) + Len(rest)) :
             (dealt \o rest)[i] = IF i <= Len(dealt) THEN dealt[i] ELSE rest[i - Len(dealt)]
    BY <1>1, <1>2, ConcatProperties
  <1>4. \A i \in 1..(Len(dealt) + Len(rest)) :
          IF i <= Len(dealt)
            THEN i \in 1..Len(dealt) /\ (dealt \o rest)[i] = dealt[i]
            ELSE /\ top + (i - Len(dealt)) \in (top + 1)..DeckSize
                 /\ (dealt \o rest)[i] = cards[top + (i - Len(dealt))]
    <2> SUFFICES ASSUME NEW i \in 1..(Len(dealt) + Len(rest))
                 PROVE  IF i <= Len(dealt)
                          THEN i \in 1..Len(dealt) /\ (dealt \o rest)[i] = dealt[i]
                          ELSE /\ top + (i - Len(dealt)) \in (top + 1)..DeckSize
                               /\ (dealt \o rest)[i] = cards[top + (i - Len(dealt))]
      OBVIOUS
    <2>1. (dealt \o rest)[i] = IF i <= Len(dealt) THEN dealt[i] ELSE rest[i - Len(dealt)]
      BY <1>3, Zenon
    <2>2. CASE i <= Len(dealt)
      <3>1. i \in 1..Len(dealt)
        BY <1>2, <2>2
      <3> QED
        BY <2>1, <2>2, <3>1, Zenon
    <2>3. CASE ~(i <= Len(dealt))
      <3>1. i - Len(dealt) \in 1..(DeckSize - top)
        BY <1>0, <1>1, <1>2, <2>3
      <3>2. rest[i - Len(dealt)] = cards[top + (i - Len(dealt))]
        BY <1>1, <3>1, Zenon
      <3>3. top + (i - Len(dealt)) \in (top + 1)..DeckSize
        BY <1>0, <3>1
      <3> QED
        BY <2>1, <2>3, <3>2, <3>3, Zenon
    <2> QED
      BY <2>2, <2>3
  <1>5. ASSUME NEW i \in 1..(Len(dealt) + Len(rest)), NEW j \in 1..(Len(dealt) + Len(rest)), i # j
        PROVE  (dealt \o rest)[i] # (dealt \o rest)[j]
    <2>1. CASE i <= Len(dealt) /\ j <= Len(dealt)
      BY <1>4, <1>5, <2>1 DEF Apart
    <2>2. CASE i <= Len(dealt) /\ ~(j <= Len(dealt))
      BY <1>4, <1>5, <2>2 DEF Apart
    <2>3. CASE ~(i <= Len(dealt)) /\ j <= Len(dealt)
      BY <1>4, <1>5, <2>3 DEF Apart
    <2>4. CASE ~(i <= Len(dealt)) /\ ~(j <= Len(dealt))
      <3>1. top + (i - Len(dealt)) # top + (j - Len(dealt))
        BY <1>0, <1>1, <1>2, <1>5
      <3> QED
        BY <1>4, <1>5, <2>4, <3>1 DEF Apart
    <2> QED
      BY <2>1, <2>2, <2>3, <2>4
  <1> QED
    BY <1>3, <1>5 DEF AllDifferent, rest

\* No card shows twice, in a hand or between it and the rest of its deck, on
\* a table never resumed (however often shuffled), nor on a resumed one
\* before its next shuffle: src/src/card.rs:215 fills only the dealt prefix.
THEOREM NoCardShowsTwice == TableSpec => []NoCardTwiceUntilReshuffled
  <1>1. TableInit => Init
    BY DEF TableInit
  <1>2. Init => RoomInv /\ CardsInv
    BY InitRoom, InitCards
  <1>3. RoomInv /\ CardsInv /\ [Next]_vars => (RoomInv /\ CardsInv)'
    BY NextKeepsRoom, NextKeepsCards
  <1>4. RoomInv /\ CardsInv /\ [TableNext]_tableVars => (RoomInv /\ CardsInv)'
    BY <1>2, <1>3, TableKeepsDeck, PTL
  <1>5. RoomInv /\ CardsInv => NoCardTwiceUntilReshuffled
    BY ApartMeansAllDifferent DEF CardsInv, NoCardTwiceUntilReshuffled
  <1> QED
    BY <1>1, <1>2, <1>4, <1>5, PTL DEF TableSpec

-----------------------------------------------------------------------------
(***************************************************************************)
(* Induction up to a number, and folds from left to right.                 *)
(***************************************************************************)
LEMMA FiniteInduction ==
  ASSUME NEW S, IsFiniteSet(S), NEW D,
         ASSUME NEW T \in SUBSET S, \A U \in SUBSET T : U # T => U \in D
         PROVE  T \in D
  PROVE  SUBSET S \subseteq D
<1> DEFINE R == StrictSubsetOrdering(S)
           F == SUBSET S
           Out == (SUBSET S) \ D
<1>1. IsWellFoundedOn(R, F)
  BY FS_StrictSubsetOrderingWellFounded, FS_FiniteSubsetsOfFinite, Zenon
<1> SUFFICES ASSUME Out # {} PROVE FALSE
  OBVIOUS
<1>2. PICK T \in Out : \A U \in Out : ~ (<<U, T>> \in R)
  <2>1. Out \subseteq F
    OBVIOUS
  <2>. HIDE DEF R, F, Out
  <2>. QED
    BY <1>1, <2>1, WFMin
<1>3. ASSUME NEW U \in SUBSET T, U # T PROVE U \in D
  <2>1. <<U, T>> \in R
    BY <1>3 DEF StrictSubsetOrdering
  <2>. QED
    BY <1>2, <1>3, <2>1
<1>. QED
  BY <1>2, <1>3

LEMMA Counting ==
  ASSUME NEW n \in Nat, NEW D, 0 \in D, \A i \in 0 .. n - 1 : i \in D => i + 1 \in D
  PROVE  0 .. n \subseteq D
  <1>. DEFINE E == {U \in SUBSET (0 .. n) : \A x \in 0 .. n : U = 0 .. x => x \in D}
              S == 0 .. n
  <1>1. ASSUME NEW T \in SUBSET S, \A U \in SUBSET T : U # T => U \in E PROVE T \in E
    <2> SUFFICES ASSUME NEW x \in 0 .. n, T = 0 .. x PROVE x \in D
      OBVIOUS
    <2>1. CASE x = 0
      BY <2>1
    <2>2. CASE x # 0
      <3>1. x - 1 \in 0 .. n - 1 /\ (x - 1) + 1 = x /\ x - 1 \in 0 .. n
        BY <2>2
      <3>2. 0 .. (x - 1) \in SUBSET T /\ 0 .. (x - 1) # T
        <4>1. x \in T /\ x \notin 0 .. (x - 1)
          OBVIOUS
        <4>. QED
          BY <3>1, <4>1
      <3>3. 0 .. (x - 1) \in E
        BY <1>1, <3>2
      <3>4. x - 1 \in D
        BY <3>1, <3>3
      <3>. QED
        BY <3>1, <3>4
    <2>. QED
      BY <2>1, <2>2
  <1>2. SUBSET S \subseteq E
    <2>1. IsFiniteSet(S)
      BY FS_Interval
    <2>. HIDE DEF E, S
    <2>. QED
      BY <1>1, <2>1, FiniteInduction
  <1>3. ASSUME NEW x \in 0 .. n PROVE x \in D
    <2>1. 0 .. x \in SUBSET S
      OBVIOUS
    <2>. QED
      BY <1>2, <2>1
  <1>. QED
    BY <1>3

LEMMA GreatestUpTo ==
  ASSUME NEW n \in Nat, NEW s, s \subseteq 1 .. n, n \in s
  PROVE  Max(s) = n
  <1>1. \A y \in s : n >= y
    OBVIOUS
  <1>2. \A x \in s : (\A y \in s : x >= y) => x = n
    OBVIOUS
  <1>. QED
    BY <1>1, <1>2 DEF Max

\* A finite set of numbers has a greatest and a least one.
LEMMA GreatestAndLeast ==
  ASSUME NEW s, IsFiniteSet(s), s \subseteq Nat, s # {}
  PROVE  (\E x \in s : \A y \in s : x >= y) /\ (\E x \in s : \A y \in s : x <= y)
  <1>. DEFINE D == {t \in SUBSET s :
                     t # {} => (\E x \in t : \A y \in t : x >= y) /\ (\E x \in t : \A y \in t : x <= y)}
  <1>1. ASSUME NEW t \in SUBSET s, \A u \in SUBSET t : u # t => u \in D PROVE t \in D
    <2> SUFFICES ASSUME t # {}
                 PROVE  (\E x \in t : \A y \in t : x >= y) /\ (\E x \in t : \A y \in t : x <= y)
      OBVIOUS
    <2>1. PICK z \in t : TRUE
      OBVIOUS
    <2>. DEFINE u == t \ {z}
    <2>2. u \in SUBSET t /\ u # t /\ t = u \cup {z} /\ t \subseteq Nat
      BY <2>1
    <2>3. u \in D
      BY <1>1, <2>2, Zenon
    <2>4. u # {} => (\E x \in u : \A y \in u : x >= y) /\ (\E x \in u : \A y \in u : x <= y)
      BY <2>3
    <2>. HIDE DEF u, D
    <2>5. CASE u = {}
      BY <2>1, <2>2, <2>5
    <2>6. CASE u # {}
      <3>1. PICK a \in u : \A y \in u : a >= y
        BY <2>4, <2>6
      <3>2. PICK b \in u : \A y \in u : b <= y
        BY <2>4, <2>6
      <3>3. \E x \in t : \A y \in t : x >= y
        BY <2>1, <2>2, <3>1
      <3>4. \E x \in t : \A y \in t : x <= y
        BY <2>1, <2>2, <3>2
      <3>. QED
        BY <3>3, <3>4
    <2>. QED
      BY <2>5, <2>6
  <1>2. s \in D
    <2>1. SUBSET s \subseteq D
      <3>. HIDE DEF D
      <3>. QED
        BY <1>1, FiniteInduction
    <2>. QED
      BY <2>1
  <1>. QED
    BY <1>2

LEMMA GreatestOf ==
  ASSUME NEW s, IsFiniteSet(s), s \subseteq Nat, s # {}
  PROVE  Max(s) \in s /\ \A y \in s : Max(s) >= y
  BY GreatestAndLeast DEF Max

\* What a fold over a sequence of n computes, by a step that is a function.
IsFold(g, A, a, F, n) ==
  /\ g \in [SUBSET (1 .. n) -> A]
  /\ \A s \in SUBSET (1 .. n) :
       g[s] = IF s = {} THEN a ELSE F[<<Max(s), g[s \ {Max(s)}]>>]

LEMMA FoldExists ==
  ASSUME NEW n \in Nat, NEW A, NEW a \in A, NEW F \in [(1 .. n) \X A -> A]
  PROVE  \E g : IsFold(g, A, a, F, n)
  <1>. DEFINE D == {m \in 0 .. n : \E g : IsFold(g, A, a, F, m)}
  <1>1. 0 \in D
    <2>. DEFINE g == [s \in SUBSET (1 .. 0) |-> a]
    <2>1. IsFold(g, A, a, F, 0)
      BY DEF IsFold
    <2>. QED
      BY <2>1
  <1>2. ASSUME NEW m \in 0 .. n - 1, m \in D PROVE m + 1 \in D
    <2>1. PICK g : IsFold(g, A, a, F, m)
      BY <1>2
    <2>. DEFINE k == m + 1
                h == [s \in SUBSET (1 .. k) |-> IF k \in s THEN F[<<k, g[s \ {k}]>>] ELSE g[s]]
    <2>2. k \in 1 .. n /\ 1 .. k = (1 .. m) \cup {k} /\ k \notin 1 .. m /\ k \in Nat
      OBVIOUS
    <2>3. g \in [SUBSET (1 .. m) -> A]
      BY <2>1 DEF IsFold
    <2>. HIDE DEF k
    <2>4. ASSUME NEW s \in SUBSET (1 .. k) PROVE h[s] \in A
      <3>1. CASE k \in s
        <4>1. s \ {k} \in SUBSET (1 .. m)
          BY <2>2
        <4>. QED
          BY <2>2, <2>3, <3>1, <4>1
      <3>2. CASE k \notin s
        <4>1. s \in SUBSET (1 .. m)
          BY <2>2, <3>2
        <4>. QED
          BY <2>3, <3>2, <4>1
      <3>. QED
        BY <3>1, <3>2
    <2>5. ASSUME NEW s \in SUBSET (1 .. k)
          PROVE  h[s] = IF s = {} THEN a ELSE F[<<Max(s), h[s \ {Max(s)}]>>]
      <3>1. CASE k \in s
        <4>1. Max(s) = k
          BY <2>2, <3>1, GreatestUpTo
        <4>2. s \ {k} \in SUBSET (1 .. m) /\ s \ {k} \in SUBSET (1 .. k) /\ k \notin s \ {k}
          BY <2>2
        <4>3. h[s \ {k}] = g[s \ {k}]
          BY <4>2
        <4>4. h[s] = F[<<k, g[s \ {k}]>>]
          BY <3>1
        <4>. QED
          BY <3>1, <4>1, <4>3, <4>4
      <3>2. CASE k \notin s
        <4>1. s \in SUBSET (1 .. m)
          BY <2>2, <3>2
        <4>2. h[s] = g[s] /\ g[s] = IF s = {} THEN a ELSE F[<<Max(s), g[s \ {Max(s)}]>>]
          BY <2>1, <3>2, <4>1 DEF IsFold
        <4>. DEFINE r == s \ {Max(s)}
        <4>3. r \in SUBSET (1 .. k) /\ k \notin r
          BY <3>2
        <4>4. h[r] = g[r]
          BY <4>3
        <4>. QED
          BY <4>2, <4>4
      <3>. QED
        BY <3>1, <3>2
    <2>6. h \in [SUBSET (1 .. k) -> A]
      BY <2>4
    <2>. HIDE DEF h
    <2>7. IsFold(h, A, a, F, k)
      BY <2>5, <2>6 DEF IsFold
    <2>8. k \in 0 .. n
      BY <2>2
    <2>. QED
      BY <2>7, <2>8 DEF k
  <1>3. 0 .. n \subseteq D
    <2>. HIDE DEF D
    <2>. QED
      BY <1>1, <1>2, Counting
  <1>4. n \in D
    BY <1>3
  <1>. QED
    BY <1>4

(***************************************************************************)
(* Totals.                                                                 *)
(***************************************************************************)
IsTotal(g, seq) ==
  g = [s \in SUBSET DOMAIN seq |->
        IF s = {} THEN 0 ELSE g[s \ {Max(s)}] + seq[Max(s)]]

LEMMA TotalIs == \A seq : Total(seq) = (CHOOSE g : IsTotal(g, seq))[DOMAIN seq]
  BY DEF Total, FoldLeft, MapThenFoldSet, IsTotal

LEMMA TotalStep ==
  ASSUME NEW g, NEW seq, IsTotal(g, seq), NEW s \in SUBSET DOMAIN seq
  PROVE  g[s] = IF s = {} THEN 0 ELSE g[s \ {Max(s)}] + seq[Max(s)]
  <1>. DEFINE e(h, t) == IF t = {} THEN 0 ELSE h[t \ {Max(t)}] + seq[Max(t)]
  <1>1. g = [t \in SUBSET DOMAIN seq |-> e(g, t)]
    BY DEF IsTotal
  <1>. HIDE DEF e
  <1>2. g[s] = e(g, s)
    BY <1>1, Zenon
  <1>. QED
    BY <1>2 DEF e

\* The partial totals of a sequence of naturals.
LEMMA TotalRuns ==
  ASSUME NEW seq \in Seq(Nat)
  PROVE  \E h \in [0 .. Len(seq) -> Nat] :
           /\ h[0] = 0
           /\ \A i \in 1 .. Len(seq) : h[i] = h[i - 1] + seq[i]
           /\ Total(seq) = h[Len(seq)]
  <1>. DEFINE n == Len(seq)
              F == [p \in (1 .. n) \X Nat |-> p[2] + seq[p[1]]]
  <1>1. n \in Nat /\ DOMAIN seq = 1 .. n /\ \A i \in 1 .. n : seq[i] \in Nat
    BY LenProperties
  <1>. HIDE DEF n
  <1>2. F \in [(1 .. n) \X Nat -> Nat] /\ 0 \in Nat
    BY <1>1
  <1>3. PICK f : IsFold(f, Nat, 0, F, n)
    <2>. HIDE DEF F
    <2>. QED
      BY <1>1, <1>2, FoldExists
  <1>4. IsTotal(f, seq)
    <2>1. f \in [SUBSET (1 .. n) -> Nat]
      BY <1>3 DEF IsFold
    <2>. DEFINE e(s) == IF s = {} THEN 0 ELSE f[s \ {Max(s)}] + seq[Max(s)]
    <2>2. ASSUME NEW s \in SUBSET (1 .. n) PROVE f[s] = e(s)
      <3>1. CASE s = {}
        BY <1>3, <3>1 DEF IsFold
      <3>2. CASE s # {}
        <4>1. Max(s) \in 1 .. n
          <5>1. IsFiniteSet(1 .. n)
            BY <1>1, FS_Interval
          <5>2. IsFiniteSet(s)
            <6>. HIDE DEF e
            <6>. QED
              BY <5>1, FS_Subset
          <5>3. s \subseteq Nat
            BY <1>1
          <5>. QED
            BY <1>1, <3>2, <5>2, <5>3, GreatestOf
        <4>. DEFINE r == s \ {Max(s)}
        <4>2. f[r] \in Nat
          BY <2>1
        <4>3. f[s] = F[<<Max(s), f[r]>>]
          BY <1>3, <3>2 DEF IsFold
        <4>. HIDE DEF r
        <4>4. F[<<Max(s), f[r]>>] = f[r] + seq[Max(s)]
          BY <4>1, <4>2
        <4>. QED
          BY <3>2, <4>3, <4>4 DEF r
      <3>. QED
        BY <3>1, <3>2
    <2>. HIDE DEF e
    <2>3. f = [s \in SUBSET (1 .. n) |-> e(s)]
      BY <2>1, <2>2
    <2>. QED
      BY <1>1, <2>3 DEF IsTotal, e
  <1>. DEFINE g == CHOOSE x : IsTotal(x, seq)
              h == [i \in 0 .. n |-> g[1 .. i]]
  <1>5. IsTotal(g, seq)
    BY <1>4
  <1>. HIDE DEF g
  <1>6. h[0] = 0
    <2>1. 1 .. 0 = {} /\ {} \in SUBSET DOMAIN seq
      OBVIOUS
    <2>2. g[{}] = 0
      BY <1>5, <2>1, TotalStep
    <2>. QED
      BY <1>1, <2>1, <2>2
  <1>7. ASSUME NEW i \in 1 .. n PROVE h[i] = h[i - 1] + seq[i]
    <2>1. 1 .. i \in SUBSET DOMAIN seq /\ 1 .. i # {} /\ i \in 1 .. i /\ i \in Nat
      BY <1>1
    <2>2. Max(1 .. i) = i
      BY <2>1, GreatestUpTo
    <2>3. (1 .. i) \ {i} = 1 .. (i - 1)
      BY <1>1
    <2>. DEFINE s == 1 .. i
    <2>. HIDE DEF s
    <2>4. g[s] = g[s \ {i}] + seq[i]
      <3>1. s \in SUBSET DOMAIN seq /\ s # {} /\ Max(s) = i
        BY <2>1, <2>2 DEF s
      <3>2. g[s] = IF s = {} THEN 0 ELSE g[s \ {Max(s)}] + seq[Max(s)]
        BY <1>5, <3>1, TotalStep
      <3>. QED
        BY <3>1, <3>2, Zenon
    <2>6. g[1 .. i] = g[1 .. (i - 1)] + seq[i]
      BY <2>3, <2>4, Zenon DEF s
    <2>5. i \in 0 .. n /\ i - 1 \in 0 .. n
      BY <1>1
    <2>. QED
      BY <2>5, <2>6, Zenon DEF h
  <1>8. Total(seq) = h[n]
    <2>1. Total(seq) = g[1 .. n]
      BY <1>1, TotalIs DEF g
    <2>. QED
      BY <1>1, <2>1
  <1>9. \A i \in 0 .. n : h[i] \in Nat
    <2>. DEFINE D == {i \in 0 .. n : h[i] \in Nat}
    <2>. HIDE DEF h
    <2>1. 0 \in D
      BY <1>1, <1>6
    <2>2. ASSUME NEW i \in 0 .. n - 1, i \in D PROVE i + 1 \in D
      <3>1. i + 1 \in 1 .. n /\ (i + 1) - 1 = i
        BY <1>1
      <3>2. h[i + 1] = h[i] + seq[i + 1]
        BY <1>7, <3>1
      <3>. QED
        BY <1>1, <2>2, <3>1, <3>2
    <2>3. 0 .. n \subseteq D
      <3>. HIDE DEF D
      <3>. QED
        BY <1>1, <2>1, <2>2, Counting
    <2>. QED
      BY <2>3
  <1>10. h \in [0 .. n -> Nat]
    BY <1>9
  <1>. HIDE DEF h
  <1>. QED
    BY <1>6, <1>7, <1>8, <1>10 DEF n

LEMMA TotalAppend ==
  ASSUME NEW seq \in Seq(Nat), NEW x \in Nat
  PROVE  Total(Append(seq, x)) = Total(seq) + x
  <1>. DEFINE n == Len(seq)
              t == Append(seq, x)
  <1>1. n \in Nat /\ t \in Seq(Nat) /\ Len(t) = n + 1 /\ t[n + 1] = x
        /\ \A i \in 1 .. n : t[i] = seq[i]
    BY LenProperties, AppendProperties
  <1>. HIDE DEF n, t
  <1>2. PICK g \in [0 .. n -> Nat] :
          /\ g[0] = 0
          /\ \A i \in 1 .. n : g[i] = g[i - 1] + seq[i]
          /\ Total(seq) = g[n]
    BY TotalRuns DEF n
  <1>3. PICK h \in [0 .. n + 1 -> Nat] :
          /\ h[0] = 0
          /\ \A i \in 1 .. n + 1 : h[i] = h[i - 1] + t[i]
          /\ Total(t) = h[n + 1]
    BY <1>1, TotalRuns
  <1>. DEFINE D == {i \in 0 .. n : g[i] = h[i]}
  <1>4. 0 \in D
    BY <1>1, <1>2, <1>3
  <1>5. ASSUME NEW i \in 0 .. n - 1, i \in D PROVE i + 1 \in D
    <2>1. i + 1 \in 1 .. n /\ i + 1 \in 1 .. n + 1 /\ (i + 1) - 1 = i /\ i + 1 \in 0 .. n
      BY <1>1
    <2>2. g[i + 1] = g[i] + seq[i + 1]
      BY <1>2, <2>1
    <2>3. h[i + 1] = h[i] + t[i + 1]
      BY <1>3, <2>1
    <2>4. t[i + 1] = seq[i + 1]
      BY <1>1, <2>1
    <2>. QED
      BY <1>5, <2>1, <2>2, <2>3, <2>4
  <1>6. 0 .. n \subseteq D
    <2>. HIDE DEF D
    <2>. QED
      BY <1>1, <1>4, <1>5, Counting
  <1>7. g[n] = h[n]
    BY <1>1, <1>6
  <1>8. h[n + 1] = h[n] + x
    <2>1. n + 1 \in 1 .. n + 1 /\ (n + 1) - 1 = n
      BY <1>1
    <2>. QED
      BY <1>1, <1>3, <2>1
  <1>. QED
    BY <1>2, <1>3, <1>7, <1>8 DEF t

LEMMA TotalOfNone == Total(<<>>) = 0
  <1>1. <<>> \in Seq(Nat) /\ Len(<<>>) = 0
    BY EmptySeq
  <1>. QED
    BY <1>1, TotalRuns

LEMMA TotalType ==
  ASSUME NEW seq \in Seq(Nat)
  PROVE  Total(seq) \in Nat
  <1>1. Len(seq) \in Nat /\ Len(seq) \in 0 .. Len(seq)
    BY LenProperties
  <1>. QED
    BY <1>1, TotalRuns

-----------------------------------------------------------------------------
(***************************************************************************)
(* The last of a sequence.                                                 *)
(***************************************************************************)
LEMMA RecentIs ==
  ASSUME NEW S, NEW seq \in Seq(S), NEW n \in Nat
  PROVE  /\ Recent(seq, n) \in Seq(S)
         /\ Len(Recent(seq, n)) = IF Len(seq) <= n THEN Len(seq) ELSE n
         /\ \A i \in 1 .. Len(Recent(seq, n)) :
              /\ i + Len(seq) - Len(Recent(seq, n)) \in 1 .. Len(seq)
              /\ Recent(seq, n)[i] = seq[i + Len(seq) - Len(Recent(seq, n))]
  <1>. DEFINE l == Len(seq)
              r == Recent(seq, n)
  <1>0. l \in Nat
    BY LenProperties
  <1>1. CASE l <= n
    <2>1. r = seq
      BY <1>1 DEF Recent
    <2>2. Len(r) = l /\ \A i \in 1 .. l : i + l - l = i
      BY <1>0, <2>1
    <2>. QED
      BY <1>0, <1>1, <2>1, <2>2
  <1>2. CASE ~ (l <= n)
    <2>. DEFINE m == l - n + 1
    <2>1. r = SubSeq(seq, m, l)
      BY <1>2 DEF Recent
    <2>2. m \in Int /\ l \in Int /\ m <= l + 1 /\ l - m + 1 = n /\ m >= 1 /\ \A i \in m .. l : i \in 1 .. l
      BY <1>0, <1>2
    <2>3. \A i \in m .. l : seq[i] \in S
      BY <2>2, ElementOfSeq
    <2>. HIDE DEF l, m
    <2>4. /\ SubSeq(seq, m, l) \in Seq(S)
          /\ Len(SubSeq(seq, m, l)) = IF m <= l THEN l - m + 1 ELSE 0
          /\ \A i \in 1 .. l - m + 1 : SubSeq(seq, m, l)[i] = seq[m + i - 1]
      BY <2>2, <2>3, SubSeqProperties
    <2>. HIDE DEF r
    <2>5. r \in Seq(S) /\ Len(r) = n
      BY <1>0, <1>2, <2>1, <2>2, <2>4
    <2>6. ASSUME NEW i \in 1 .. n
          PROVE  i + l - n \in 1 .. l /\ r[i] = seq[i + l - n]
      <3>1. m + i - 1 = i + l - n /\ i + l - n \in 1 .. l
        BY <1>0, <1>2 DEF m
      <3>. QED
        BY <2>1, <2>2, <2>4, <3>1
    <2>. QED
      BY <1>2, <2>5, <2>6 DEF l, r
  <1>. QED
    BY <1>1, <1>2

\* What falls out of a window does not come back.
LEMMA RecentOfAppend ==
  ASSUME NEW S, NEW seq \in Seq(S), NEW x \in S, NEW n \in Nat \ {0}
  PROVE  Recent(Append(Recent(seq, n), x), n) = Recent(Append(seq, x), n)
  <1>. DEFINE l == Len(seq)
              r == Recent(seq, n)
              a == Append(r, x)
              b == Append(seq, x)
              u == Recent(a, n)
              v == Recent(b, n)
              k == Len(r)
              m == Len(u)
  <1>1. l \in Nat /\ r \in Seq(S) /\ k = (IF l <= n THEN l ELSE n)
    BY LenProperties, RecentIs
  <1>2. \A i \in 1 .. k : i + l - k \in 1 .. l /\ r[i] = seq[i + l - k]
    BY RecentIs
  <1>. HIDE DEF r
  <1>3. a \in Seq(S) /\ Len(a) = k + 1 /\ a[k + 1] = x /\ \A i \in 1 .. k : a[i] = r[i]
    BY <1>1, LenProperties, AppendProperties
  <1>4. b \in Seq(S) /\ Len(b) = l + 1 /\ b[l + 1] = x /\ \A i \in 1 .. l : b[i] = seq[i]
    BY LenProperties, AppendProperties
  <1>. HIDE DEF l, k, a, b
  <1>5. /\ u \in Seq(S) /\ m = (IF k + 1 <= n THEN k + 1 ELSE n)
        /\ \A i \in 1 .. m : i + (k + 1) - m \in 1 .. k + 1 /\ u[i] = a[i + (k + 1) - m]
    BY <1>3, RecentIs
  <1>6. /\ v \in Seq(S) /\ Len(v) = (IF l + 1 <= n THEN l + 1 ELSE n)
        /\ \A i \in 1 .. Len(v) : i + (l + 1) - Len(v) \in 1 .. l + 1 /\ v[i] = b[i + (l + 1) - Len(v)]
    BY <1>4, RecentIs
  <1>. HIDE DEF u, v, m
  <1>7. Len(v) = m /\ m \in Nat /\ k \in Nat
    BY <1>1, <1>5, <1>6
  <1>8. ASSUME NEW i \in 1 .. m PROVE u[i] = v[i]
    <2>. DEFINE p == i + (k + 1) - m
                q == i + (l + 1) - m
    <2>1. u[i] = a[p] /\ p \in 1 .. k + 1 /\ v[i] = b[q] /\ q \in 1 .. l + 1
      BY <1>5, <1>6, <1>7
    <2>2. q = p + l - k /\ p \in Int /\ q \in Int
      BY <1>1, <1>7
    <2>. HIDE DEF p, q
    <2>3. CASE p = k + 1
      <3>1. q = l + 1
        BY <1>1, <1>7, <2>2, <2>3
      <3>. QED
        BY <1>3, <1>4, <2>1, <2>3, <3>1
    <2>4. CASE p # k + 1
      <3>1. p \in 1 .. k
        BY <1>7, <2>1, <2>4
      <3>2. q \in 1 .. l /\ r[p] = seq[q]
        BY <1>2, <2>2, <3>1
      <3>. QED
        BY <1>3, <1>4, <2>1, <3>1, <3>2
    <2>. QED
      BY <2>3, <2>4
  <1>9. u = v
    BY <1>5, <1>6, <1>7, <1>8, SeqEqual DEF m
  <1>. QED
    BY <1>9 DEF u, v, a, b, r

\* A window of a window.
LEMMA RecentOfRecent ==
  ASSUME NEW S, NEW seq \in Seq(S), NEW n \in Nat
  PROVE  Recent(Recent(seq, n), n) = Recent(seq, n)
  <1>1. Len(Recent(seq, n)) <= n
    BY RecentIs, LenProperties
  <1>. QED
    BY <1>1 DEF Recent

-----------------------------------------------------------------------------
(***************************************************************************)
(* Which loss is asked to be reviewed.                                     *)
(***************************************************************************)
Trackers == [losses : Seq(Nat), hand_actions : Seq(Nat), current : Nat]

LEMMA Dividing ==
  ASSUME NEW a \in Nat, NEW b \in Nat \ {0}
  PROVE  /\ a \div b \in Nat
         /\ b * (a \div b) <= a
         /\ a < b * (a \div b) + b
  OBVIOUS

LEMMA LessByFactor ==
  ASSUME NEW b \in Nat \ {0}, NEW x \in Nat, NEW y \in Nat, b * x < b * y
  PROVE  x < y
  <1> SUFFICES ASSUME x >= y PROVE FALSE
    OBVIOUS
  <1>1. PICK z \in Nat : x = y + z
    <2>1. x - y \in Nat /\ x = y + (x - y)
      OBVIOUS
    <2>. QED
      BY <2>1
  <1>2. b * x = b * y + b * z /\ b * z \in Nat /\ b * y \in Nat
    BY <1>1
  <1>. QED
    BY <1>2

\* trigger_ratio asks at most every second decision and at least every
\* hundredth.
LEMMA TriggerRatio ==
  ASSUME NEW t \in Trackers
  PROVE  /\ trigger_ratio(t).num \in Nat \ {0}
         /\ trigger_ratio(t).den \in Nat \ {0}
         /\ 2 * trigger_ratio(t).num <= trigger_ratio(t).den
  <1>. DEFINE hands == Len(t.hand_actions)
              actions == Total(t.hand_actions) + (IF t.current > 0 THEN 1 ELSE 0)
              num == IF hands = 0 THEN 1 ELSE hands
              many == IF actions < num \/ hands = 0 THEN num ELSE actions
              den == target_hands * many
  <1>1. hands \in Nat /\ actions \in Nat
    <2>1. t.hand_actions \in Seq(Nat)
      BY DEF Trackers
    <2>2. Total(t.hand_actions) \in Nat
      BY <2>1, TotalType
    <2>. QED
      BY <2>1, <2>2, LenProperties
  <1>. HIDE DEF hands, actions
  <1>2. num \in Nat \ {0} /\ many \in Nat \ {0}
    BY <1>1
  <1>3. den \in Nat \ {0}
    <2>. HIDE DEF num, many
    <2>1. target_hands \in Nat \ {0}
      BY BlunderAssumption
    <2>. DEFINE a == target_hands
    <2>. HIDE DEF a
    <2>2. ASSUME NEW b \in Nat \ {0}, NEW c \in Nat \ {0} PROVE b * c \in Nat \ {0}
      OBVIOUS
    <2>. QED
      BY <1>2, <2>1, <2>2
  <1>4. trigger_ratio(t) =
          CASE 2 * num > den -> [num |-> 1, den |-> 2]
            [] 100 * num < den -> [num |-> 1, den |-> 100]
            [] OTHER -> [num |-> num, den |-> den]
    BY Zenon DEF trigger_ratio, hands, actions, num, den, many
  <1>. HIDE DEF num, den, many
  <1>5. CASE 2 * num > den
    <2>1. trigger_ratio(t) = [num |-> 1, den |-> 2] \/ 100 * num < den
      BY <1>4, <1>5
    <2>2. ~ (100 * num < den)
      BY <1>2, <1>3, <1>5
    <2>. QED
      BY <2>1, <2>2
  <1>6. CASE ~ (2 * num > den) /\ 100 * num < den
    <2>1. trigger_ratio(t) = [num |-> 1, den |-> 100]
      BY <1>4, <1>6
    <2>. QED
      BY <2>1
  <1>7. CASE ~ (2 * num > den) /\ ~ (100 * num < den)
    <2>1. trigger_ratio(t) = [num |-> num, den |-> den]
      BY <1>4, <1>7
    <2>. QED
      BY <1>2, <1>3, <1>7, <2>1
  <1>. QED
    BY <1>5, <1>6, <1>7

\* So a loss is compared with one of the larger half.
LEMMA TriggerRank ==
  ASSUME NEW t \in Trackers, t.losses # <<>>
  PROVE  /\ trigger_rank(t) \in 1 .. Len(t.losses)
         /\ 2 * trigger_rank(t) <= Len(t.losses) + 1
  <1>. DEFINE n == Len(t.losses)
              a == trigger_ratio(t).num
              b == trigger_ratio(t).den
              k == trigger_rank(t)
              q == n * a + b - 1
  <1>1. n \in Nat \ {0}
    BY EmptySeq DEF Trackers
  <1>2. a \in Nat \ {0} /\ b \in Nat \ {0} /\ 2 * a <= b
    BY TriggerRatio
  <1>3. k = q \div b
    BY DEF trigger_rank
  <1>. HIDE DEF n, a, b, k
  <1>4. n * a \in Nat \ {0} /\ 2 * (n * a) <= n * b
    <2>1. ASSUME NEW x \in Nat \ {0}, NEW y \in Nat \ {0} PROVE x * y \in Nat \ {0}
      OBVIOUS
    <2>2. PICK z \in Nat : b = 2 * a + z
      <3>1. b - 2 * a \in Nat /\ b = 2 * a + (b - 2 * a)
        BY <1>2
      <3>. QED
        BY <3>1
    <2>3. n * b = 2 * (n * a) + n * z /\ n * z \in Nat
      BY <1>1, <1>2, <2>2
    <2>4. n * a \in Nat \ {0}
      BY <1>1, <1>2, <2>1
    <2>. QED
      BY <2>3, <2>4
  <1>5. q \in Nat /\ k \in Nat /\ b * k <= q /\ q < b * k + b
    <2>1. q \in Nat
      BY <1>2, <1>4
    <2>. HIDE DEF q
    <2>. QED
      BY <1>2, <1>3, <2>1, Dividing
  <1>6. k >= 1
    <2>1. k = 0 => b * k = 0
      BY <1>2
    <2>2. q >= b
      BY <1>2, <1>4
    <2>. HIDE DEF q
    <2>. QED
      BY <1>2, <1>5, <2>1, <2>2
  <1>7. 2 * k < n + 2
    <2>. DEFINE u == b * k
                v == n * b
                w == n * a
    <2>1. u \in Nat /\ v \in Nat /\ w \in Nat
      BY <1>1, <1>2, <1>4, <1>5
    <2>2. b * (2 * k) = 2 * u /\ b * (n + 2) = v + 2 * b
      BY <1>1, <1>2, <1>5
    <2>3. u <= w + b - 1 /\ 2 * w <= v
      BY <1>4, <1>5
    <2>. HIDE DEF u, v, w
    <2>4. 2 * u < v + 2 * b
      BY <1>2, <2>1, <2>3
    <2>. DEFINE x == 2 * k
                y == n + 2
    <2>5. x \in Nat /\ y \in Nat
      BY <1>1, <1>5
    <2>6. b * x < b * y
      BY <2>2, <2>4
    <2>. HIDE DEF x, y
    <2>7. x < y
      BY <1>2, <2>5, <2>6, LessByFactor
    <2>. QED
      BY <2>7 DEF x, y
  <1>. QED
    BY <1>1, <1>5, <1>6, <1>7 DEF n, k

\* The k-th largest of the losses is exceeded by fewer than k.
LEMMA FewExceed ==
  ASSUME NEW seq \in Seq(Nat), NEW k \in 1 .. Len(seq), NEW x \in Nat,
         x >= kth_largest(seq, k)
  PROVE  /\ IsFiniteSet({i \in 1 .. Len(seq) : seq[i] > x})
         /\ Cardinality({i \in 1 .. Len(seq) : seq[i] > x}) < k
  <1>. DEFINE n == Len(seq)
              I == 1 .. n
              Reach(y) == {i \in I : seq[i] >= y}
              R == {seq[i] : i \in I}
              K == {y \in R : Cardinality(Reach(y)) >= k}
              v == kth_largest(seq, k)
              W == {i \in I : seq[i] > x}
  <1>1. n \in Nat /\ DOMAIN seq = I /\ \A i \in I : seq[i] \in Nat
    BY LenProperties
  <1>2. IsFiniteSet(I) /\ Cardinality(I) = n
    <2>. HIDE DEF n
    <2>1. IsFiniteSet(1 .. n)
      BY <1>1, FS_Interval
    <2>2. Cardinality(1 .. n) = IF 1 > n THEN 0 ELSE n - 1 + 1
      BY <1>1, FS_Interval
    <2>. QED
      BY <1>1, <2>1, <2>2
  <1>3. k \in Nat /\ k >= 1 /\ k <= n
    BY <1>1
  <1>4. v = Max(K)
    BY <1>1 DEF kth_largest, ToSet
  <1>5. IsFiniteSet(R) /\ R \subseteq Nat /\ R # {}
    <2>1. R \subseteq Nat
      BY <1>1
    <2>2. R # {}
      BY <1>3
    <2>3. IsFiniteSet(R)
      <3>. DEFINE f == [i \in I |-> seq[i]]
      <3>1. f \in Surjection(I, R)
        BY DEF Surjection
      <3>. HIDE DEF f, R, I
      <3>. QED
        BY <1>2, <3>1, FS_Surjection
    <2>. QED
      BY <2>1, <2>2, <2>3
  <1>. HIDE DEF n, I, R
  <1>6. ASSUME NEW y PROVE IsFiniteSet(Reach(y)) /\ Cardinality(Reach(y)) \in Nat
    <2>1. Reach(y) \in SUBSET I
      OBVIOUS
    <2>. HIDE DEF Reach
    <2>. QED
      BY <1>2, <2>1, FS_Subset, FS_CardinalityType
  <1>7. IsFiniteSet(K) /\ K \subseteq Nat
    <2>1. K \in SUBSET R
      OBVIOUS
    <2>. HIDE DEF K
    <2>. QED
      BY <1>5, <2>1, FS_Subset
  <1>8. K # {}
    <2>1. PICK y \in R : \A z \in R : y <= z
      BY <1>5, GreatestAndLeast
    <2>2. Reach(y) = I
      <3>1. \A i \in I : seq[i] \in R /\ seq[i] \in Nat
        BY <1>1 DEF R
      <3>. QED
        BY <1>5, <2>1, <3>1
    <2>3. Cardinality(Reach(y)) >= k
      <3>. HIDE DEF Reach
      <3>. QED
        BY <1>1, <1>2, <1>3, <2>2
    <2>. QED
      BY <2>1, <2>3
  <1>9. v \in K /\ \A y \in K : v >= y
    <2>. HIDE DEF K, v
    <2>. QED
      BY <1>4, <1>7, <1>8, GreatestOf
  <1>10. v \in Nat
    BY <1>7, <1>9
  <1>11. x >= v
    OBVIOUS
  <1>. HIDE DEF v
  <1>12. IsFiniteSet(W)
    <2>1. W \in SUBSET I
      OBVIOUS
    <2>. HIDE DEF W
    <2>. QED
      BY <1>2, <2>1, FS_Subset
  <1>13. CASE W = {}
    <2>1. Cardinality(W) = 0
      BY <1>13, FS_EmptySet
    <2>. HIDE DEF W
    <2>. QED
      BY <1>3, <1>12, <2>1 DEF W, I, n
  <1>14. CASE W # {}
    <2>. DEFINE V == {seq[i] : i \in W}
    <2>1. V \in SUBSET R /\ V # {} /\ V \subseteq Nat
      BY <1>1, <1>14 DEF R
    <2>2. IsFiniteSet(V)
      <3>. HIDE DEF V
      <3>. QED
        BY <1>5, <2>1, FS_Subset
    <2>3. PICK y \in V : \A z \in V : y <= z
      <3>. HIDE DEF V
      <3>. QED
        BY <2>1, <2>2, GreatestAndLeast
    <2>4. W \in SUBSET Reach(y)
      <3>1. \A i \in W : seq[i] \in V /\ seq[i] \in Nat
        BY <1>1
      <3>. QED
        BY <2>1, <2>3, <3>1
    <2>5. y > v /\ y \in R
      <3>1. y > x /\ y \in Nat
        BY <1>1, <2>3
      <3>. QED
        BY <1>10, <1>11, <2>1, <2>3, <3>1
    <2>6. y \notin K
      <3>1. y \in Nat
        BY <2>1
      <3>. HIDE DEF K, V, W
      <3>2. y \in K => v >= y
        BY <1>9
      <3>. QED
        BY <1>10, <2>5, <3>1, <3>2
    <2>7. Cardinality(Reach(y)) < k
      <3>1. Cardinality(Reach(y)) \in Nat
        BY <1>6
      <3>2. ~ (Cardinality(Reach(y)) >= k)
        BY <2>5, <2>6
      <3>. HIDE DEF Reach
      <3>. QED
        BY <1>3, <3>1, <3>2
    <2>. HIDE DEF Reach, W
    <2>8. Cardinality(W) <= Cardinality(Reach(y)) /\ Cardinality(W) \in Nat
      BY <1>6, <1>12, <2>4, FS_Subset, FS_CardinalityType
    <2>9. Cardinality(W) < k
      BY <1>3, <1>6, <2>7, <2>8
    <2>. QED
      BY <1>12, <2>9 DEF W, I, n
  <1>. QED
    BY <1>13, <1>14

-----------------------------------------------------------------------------
(***************************************************************************)
(* The tracker and what it was told.  Matches(t, known) is the coupling:   *)
(* known are all losses there were, oldest first.                          *)
(***************************************************************************)
Counted(t) == Total(t.hand_actions) + t.current

Matches(t, known) ==
  /\ t \in Trackers
  /\ known \in Seq(Nat)
  /\ Len(t.hand_actions) <= history_hands
  /\ t.losses = Recent(known, history_actions)
  /\ Counted(t) <= Len(known)
  /\ Len(t.hand_actions) < history_hands => Counted(t) >= Len(t.losses)

LEMMA Windows == history_actions \in Nat \ {0, 1} /\ history_hands \in Nat \ {0, 1}
  BY BlunderAssumption

\* A window holds no more than the whole.
LEMMA TotalOfRecent ==
  ASSUME NEW seq \in Seq(Nat), NEW n \in Nat
  PROVE  Total(Recent(seq, n)) <= Total(seq)
  <1>. DEFINE r == Recent(seq, n)
              l == Len(seq)
              m == Len(r)
              d == l - m
  <1>1. r \in Seq(Nat) /\ m = (IF l <= n THEN l ELSE n)
        /\ \A i \in 1 .. m : i + l - m \in 1 .. l /\ r[i] = seq[i + l - m]
    BY RecentIs
  <1>2. l \in Nat /\ \A i \in 1 .. l : seq[i] \in Nat
    BY LenProperties, ElementOfSeq
  <1>. HIDE DEF r
  <1>3. PICK g \in [0 .. l -> Nat] :
          /\ g[0] = 0
          /\ \A i \in 1 .. l : g[i] = g[i - 1] + seq[i]
          /\ Total(seq) = g[l]
    BY TotalRuns
  <1>4. PICK h \in [0 .. m -> Nat] :
          /\ h[0] = 0
          /\ \A i \in 1 .. m : h[i] = h[i - 1] + r[i]
          /\ Total(r) = h[m]
    BY <1>1, TotalRuns
  <1>. HIDE DEF l, m
  <1>5. m \in Nat /\ d \in Nat /\ d <= l /\ m + d = l
    BY <1>1, <1>2
  <1>. DEFINE D == {i \in 0 .. m : h[i] <= g[i + d]}
  <1>6. 0 \in D
    <2>1. g[0 + d] \in Nat
      BY <1>3, <1>5
    <2>. HIDE DEF d
    <2>. QED
      BY <1>4, <1>5, <2>1
  <1>7. ASSUME NEW i \in 0 .. m - 1, i \in D PROVE i + 1 \in D
    <2>1. i + 1 \in 1 .. m /\ (i + 1) - 1 = i /\ i \in 0 .. m
      BY <1>5
    <2>2. (i + 1) + d \in 1 .. l /\ ((i + 1) + d) - 1 = i + d /\ i + d \in 0 .. l
      BY <1>5
    <2>3. r[i + 1] = seq[(i + 1) + d]
      <3>1. (i + 1) + l - m = (i + 1) + d
        BY <1>5
      <3>. QED
        BY <1>1, <2>1, <3>1
    <2>. HIDE DEF d
    <2>4. h[i + 1] = h[i] + r[i + 1]
      BY <1>4, <2>1
    <2>5. g[(i + 1) + d] = g[i + d] + seq[(i + 1) + d]
      BY <1>3, <2>2
    <2>6. h[i] \in Nat /\ g[i + d] \in Nat /\ seq[(i + 1) + d] \in Nat
      BY <1>2, <1>3, <1>4, <2>1, <2>2
    <2>7. h[i] <= g[i + d]
      BY <1>7
    <2>8. h[i + 1] <= g[(i + 1) + d]
      BY <2>3, <2>4, <2>5, <2>6, <2>7
    <2>9. i + 1 \in 0 .. m
      BY <1>5, <2>1
    <2>. QED
      BY <2>8, <2>9
  <1>8. h[m] <= g[m + d]
    <2>1. 0 .. m \subseteq D
      <3>. HIDE DEF D
      <3>. QED
        BY <1>5, <1>6, <1>7, Counting
    <2>2. m \in 0 .. m
      BY <1>5
    <2>. QED
      BY <2>1, <2>2
  <1>. QED
    BY <1>3, <1>4, <1>5, <1>8 DEF r

LEMMA RecordIs ==
  ASSUME NEW t \in Trackers, NEW loss \in Nat
  PROVE  /\ record_action(t, loss) \in Trackers
         /\ record_action(t, loss).losses = Recent(Append(t.losses, loss), history_actions)
         /\ record_action(t, loss).hand_actions = t.hand_actions
         /\ record_action(t, loss).current = t.current + 1
  <1>1. Recent(Append(t.losses, loss), history_actions) \in Seq(Nat)
    <2>1. Append(t.losses, loss) \in Seq(Nat)
      BY AppendProperties DEF Trackers
    <2>. QED
      BY <2>1, Windows, RecentIs
  <1>. DEFINE w == Recent(Append(t.losses, loss), history_actions)
              v == [t EXCEPT !.losses = w]
              c == t.current + 1
  <1>2. record_action(t, loss) = [v EXCEPT !.current = c] /\ c \in Nat
    BY DEF record_action, Trackers
  <1>. HIDE DEF w, c
  <1>3. v \in Trackers /\ v.losses = w /\ v.hand_actions = t.hand_actions
    BY <1>1 DEF Trackers, w
  <1>. HIDE DEF v
  <1>4. /\ [v EXCEPT !.current = c] \in Trackers
        /\ [v EXCEPT !.current = c].losses = v.losses
        /\ [v EXCEPT !.current = c].hand_actions = v.hand_actions
        /\ [v EXCEPT !.current = c].current = c
    BY <1>2, <1>3 DEF Trackers
  <1>. QED
    BY <1>2, <1>3, <1>4, Zenon DEF w, c

LEMMA EndIs ==
  ASSUME NEW t \in Trackers
  PROVE  /\ end_hand(t) \in Trackers
         /\ end_hand(t).losses = t.losses
         /\ end_hand(t).hand_actions = Recent(Append(t.hand_actions, t.current), history_hands)
         /\ end_hand(t).current = 0
  <1>1. Recent(Append(t.hand_actions, t.current), history_hands) \in Seq(Nat)
    <2>1. Append(t.hand_actions, t.current) \in Seq(Nat)
      BY AppendProperties DEF Trackers
    <2>. QED
      BY <2>1, Windows, RecentIs
  <1>. QED
    BY <1>1 DEF end_hand, Trackers

LEMMA MatchesNew == Matches(NewTracker, <<>>)
  <1>1. <<>> \in Seq(Nat) /\ Len(<<>>) = 0
    BY EmptySeq
  <1>2. Recent(<<>>, history_actions) = <<>>
    BY <1>1, Windows DEF Recent
  <1>3. NewTracker \in Trackers
    BY <1>1 DEF NewTracker, Trackers
  <1>4. Counted(NewTracker) = 0
    BY TotalOfNone DEF Counted, NewTracker
  <1>. QED
    BY <1>1, <1>2, <1>3, <1>4, Windows DEF Matches, NewTracker

\* A decision is told.
LEMMA MatchesRecord ==
  ASSUME NEW t, NEW known, Matches(t, known), NEW loss \in Nat
  PROVE  Matches(record_action(t, loss), Append(known, loss))
  <1>. DEFINE u == record_action(t, loss)
              k == Append(known, loss)
  <1>1. t \in Trackers /\ known \in Seq(Nat)
    BY DEF Matches
  <1>2. /\ u \in Trackers
        /\ u.losses = Recent(Append(t.losses, loss), history_actions)
        /\ u.hand_actions = t.hand_actions
        /\ u.current = t.current + 1
    BY <1>1, RecordIs
  <1>3. k \in Seq(Nat) /\ Len(k) = Len(known) + 1 /\ Len(known) \in Nat
    BY <1>1, AppendProperties, LenProperties
  <1>. HIDE DEF u, k
  <1>4. u.losses = Recent(k, history_actions)
    <2>1. u.losses = Recent(Append(Recent(known, history_actions), loss), history_actions)
      BY <1>2 DEF Matches
    <2>. QED
      BY <1>1, <2>1, Windows, RecentOfAppend DEF k
  <1>5. Total(t.hand_actions) \in Nat /\ t.current \in Nat
    BY <1>1, TotalType DEF Trackers
  <1>6. Counted(u) = Counted(t) + 1 /\ Counted(t) \in Nat
    BY <1>2, <1>5 DEF Counted
  <1>7. Len(u.losses) <= Len(t.losses) + 1 /\ Len(t.losses) \in Nat /\ Len(u.losses) \in Nat
    <2>1. t.losses \in Seq(Nat)
      BY <1>1 DEF Trackers
    <2>2. Append(t.losses, loss) \in Seq(Nat) /\ Len(Append(t.losses, loss)) = Len(t.losses) + 1
          /\ Len(t.losses) \in Nat
      BY <2>1, AppendProperties, LenProperties
    <2>. DEFINE a == Append(t.losses, loss)
    <2>. HIDE DEF a
    <2>3. Len(Recent(a, history_actions)) = IF Len(a) <= history_actions THEN Len(a) ELSE history_actions
      BY <2>2, Windows, RecentIs DEF a
    <2>. QED
      BY <1>2, <2>2, <2>3, Windows DEF a
  <1>. QED
    BY <1>2, <1>3, <1>4, <1>6, <1>7 DEF Matches, u, k

\* A hand ends.
LEMMA MatchesEnd ==
  ASSUME NEW t, NEW known, Matches(t, known)
  PROVE  Matches(end_hand(t), known)
  <1>. DEFINE u == end_hand(t)
              a == Append(t.hand_actions, t.current)
  <1>1. t \in Trackers /\ known \in Seq(Nat) /\ t.hand_actions \in Seq(Nat) /\ t.current \in Nat
    BY DEF Matches, Trackers
  <1>2. /\ u \in Trackers
        /\ u.losses = t.losses
        /\ u.hand_actions = Recent(a, history_hands)
        /\ u.current = 0
    BY <1>1, EndIs
  <1>3. a \in Seq(Nat) /\ Len(a) = Len(t.hand_actions) + 1 /\ Len(t.hand_actions) \in Nat
    BY <1>1, AppendProperties, LenProperties
  <1>4. Total(a) = Counted(t) /\ Total(a) \in Nat
    BY <1>1, <1>3, TotalAppend, TotalType DEF Counted
  <1>. HIDE DEF u, a
  <1>5. Len(u.hand_actions) = IF Len(a) <= history_hands THEN Len(a) ELSE history_hands
    BY <1>2, <1>3, Windows, RecentIs
  <1>6. Counted(u) <= Counted(t) /\ Counted(u) \in Nat
    <2>1. Total(u.hand_actions) <= Total(a) /\ u.hand_actions \in Seq(Nat)
      BY <1>2, <1>3, Windows, TotalOfRecent DEF Trackers
    <2>2. Total(u.hand_actions) \in Nat
      BY <2>1, TotalType
    <2>. QED
      BY <1>2, <1>4, <2>1, <2>2 DEF Counted
  <1>7. ASSUME Len(u.hand_actions) < history_hands
        PROVE  Counted(u) = Counted(t) /\ Len(t.hand_actions) < history_hands
    <2>1. Len(a) <= history_hands /\ Len(t.hand_actions) < history_hands
      BY <1>3, <1>5, <1>7, Windows
    <2>2. u.hand_actions = a
      BY <1>2, <2>1 DEF Recent
    <2>. QED
      BY <1>2, <1>4, <2>1, <2>2 DEF Counted
  <1>8. Len(known) \in Nat
    BY <1>1, LenProperties
  <1>9. Len(u.hand_actions) <= history_hands
    BY <1>3, <1>5, Windows
  <1>. QED
    BY <1>2, <1>4, <1>6, <1>7, <1>8, <1>9 DEF Matches, u

-----------------------------------------------------------------------------
(***************************************************************************)
(* What hydrate computes, decision by decision.                            *)
(***************************************************************************)
Hands == [session : Nat, number : Nat]

Entries == [hand : Hands, loss : Nat]

Replayers == [hand : Hands, tracker : Trackers]

\* The step of hydrate's replay.
Replayed(u, d) ==
  [hand |-> d.hand,
   tracker |-> record_action(IF u.hand \in {NoHand, d.hand} THEN u.tracker
                             ELSE end_hand(u.tracker), d.loss)]

Unreplayed(t) == [hand |-> NoHand, tracker |-> t]

IsReplay(g, t, seq) ==
  g = [s \in SUBSET DOMAIN seq |->
        IF s = {} THEN Unreplayed(t) ELSE Replayed(g[s \ {Max(s)}], seq[Max(s)])]

LEMMA HydrateIs ==
  \A t, seq : hydrate(t, seq) =
    IF seq = <<>> THEN t ELSE end_hand((CHOOSE g : IsReplay(g, t, seq))[DOMAIN seq].tracker)
  BY DEF hydrate, FoldLeft, MapThenFoldSet, IsReplay, Replayed, Unreplayed

LEMMA ReplaySteps ==
  ASSUME NEW t, NEW seq, \E f : IsReplay(f, t, seq)
  PROVE  \E g :
           /\ \A s \in SUBSET DOMAIN seq :
                g[s] = IF s = {} THEN Unreplayed(t) ELSE Replayed(g[s \ {Max(s)}], seq[Max(s)])
           /\ hydrate(t, seq) = IF seq = <<>> THEN t ELSE end_hand(g[DOMAIN seq].tracker)
  <1>. DEFINE g == CHOOSE x : IsReplay(x, t, seq)
  <1>1. IsReplay(g, t, seq)
    OBVIOUS
  <1>2. hydrate(t, seq) = IF seq = <<>> THEN t ELSE end_hand(g[DOMAIN seq].tracker)
    BY HydrateIs
  <1>. HIDE DEF g
  <1>3. \A s \in SUBSET DOMAIN seq :
          g[s] = IF s = {} THEN Unreplayed(t) ELSE Replayed(g[s \ {Max(s)}], seq[Max(s)])
    <2> SUFFICES ASSUME NEW s \in SUBSET DOMAIN seq
                 PROVE  g[s] = IF s = {} THEN Unreplayed(t) ELSE Replayed(g[s \ {Max(s)}], seq[Max(s)])
      OBVIOUS
    <2>. DEFINE e(h, r) == IF r = {} THEN Unreplayed(t) ELSE Replayed(h[r \ {Max(r)}], seq[Max(r)])
    <2>1. g = [r \in SUBSET DOMAIN seq |-> e(g, r)]
      BY <1>1 DEF IsReplay
    <2>. HIDE DEF e
    <2>2. g[s] = e(g, s)
      BY <2>1, Zenon
    <2>. QED
      BY <2>2 DEF e
  <1>. QED
    BY <1>2, <1>3

LEMMA UnreplayedType ==
  ASSUME NEW t \in Trackers
  PROVE  Unreplayed(t) \in Replayers
  BY DEF Unreplayed, Replayers, NoHand, Hand, Hands

LEMMA ReplayedType ==
  ASSUME NEW u \in Replayers, NEW d \in Entries
  PROVE  Replayed(u, d) \in Replayers
  <1>. DEFINE t == IF u.hand \in {NoHand, d.hand} THEN u.tracker ELSE end_hand(u.tracker)
  <1>1. u.tracker \in Trackers /\ d.loss \in Nat /\ d.hand \in Hands
    BY DEF Replayers, Entries
  <1>2. t \in Trackers
    BY <1>1, EndIs
  <1>. HIDE DEF t
  <1>3. record_action(t, d.loss) \in Trackers
    BY <1>1, <1>2, RecordIs
  <1>. QED
    BY <1>1, <1>3 DEF Replayed, Replayers, t

\* The replays of the beginnings of a history.
LEMMA ReplayRuns ==
  ASSUME NEW seq \in Seq(Entries), NEW t \in Trackers
  PROVE  \E h \in [0 .. Len(seq) -> Replayers] :
           /\ h[0] = Unreplayed(t)
           /\ \A i \in 1 .. Len(seq) : h[i] = Replayed(h[i - 1], seq[i])
           /\ hydrate(t, seq) = IF seq = <<>> THEN t ELSE end_hand(h[Len(seq)].tracker)
  <1>. DEFINE n == Len(seq)
              A == Replayers
              base == Unreplayed(t)
              F == [p \in (1 .. n) \X A |-> Replayed(p[2], seq[p[1]])]
  <1>1. n \in Nat /\ DOMAIN seq = 1 .. n /\ \A i \in 1 .. n : seq[i] \in Entries
    BY LenProperties, ElementOfSeq
  <1>. HIDE DEF n
  <1>2. base \in A
    BY UnreplayedType
  <1>3. F \in [(1 .. n) \X A -> A]
    <2>1. \A p \in (1 .. n) \X A : Replayed(p[2], seq[p[1]]) \in A
      BY <1>1, ReplayedType
    <2>. HIDE DEF A
    <2>. QED
      BY <2>1
  <1>. HIDE DEF A, base
  <1>4. PICK f : IsFold(f, A, base, F, n)
    <2>. HIDE DEF F
    <2>. QED
      BY <1>1, <1>2, <1>3, FoldExists
  <1>5. IsReplay(f, t, seq)
    <2>1. f \in [SUBSET (1 .. n) -> A]
      BY <1>4 DEF IsFold
    <2>. DEFINE e(s) == IF s = {} THEN base ELSE Replayed(f[s \ {Max(s)}], seq[Max(s)])
    <2>2. ASSUME NEW s \in SUBSET (1 .. n) PROVE f[s] = e(s)
      <3>1. CASE s = {}
        BY <1>4, <3>1 DEF IsFold
      <3>2. CASE s # {}
        <4>1. Max(s) \in 1 .. n
          <5>1. IsFiniteSet(1 .. n)
            BY <1>1, FS_Interval
          <5>2. IsFiniteSet(s)
            <6>. HIDE DEF e
            <6>. QED
              BY <5>1, FS_Subset
          <5>3. s \subseteq Nat
            BY <1>1
          <5>. QED
            BY <1>1, <3>2, <5>2, <5>3, GreatestOf
        <4>. DEFINE r == s \ {Max(s)}
        <4>2. f[r] \in A
          BY <2>1
        <4>3. f[s] = F[<<Max(s), f[r]>>]
          BY <1>4, <3>2 DEF IsFold
        <4>. HIDE DEF r
        <4>4. F[<<Max(s), f[r]>>] = Replayed(f[r], seq[Max(s)])
          BY <4>1, <4>2
        <4>. QED
          BY <3>2, <4>3, <4>4 DEF r
      <3>. QED
        BY <3>1, <3>2
    <2>. HIDE DEF e
    <2>3. f = [s \in SUBSET (1 .. n) |-> e(s)]
      BY <2>1, <2>2
    <2>. QED
      BY <1>1, <2>3 DEF IsReplay, e, base
  <1>6. PICK g :
          /\ \A s \in SUBSET DOMAIN seq :
               g[s] = IF s = {} THEN Unreplayed(t) ELSE Replayed(g[s \ {Max(s)}], seq[Max(s)])
          /\ hydrate(t, seq) = IF seq = <<>> THEN t ELSE end_hand(g[DOMAIN seq].tracker)
    <2>. HIDE DEF F
    <2>. QED
      BY <1>5, ReplaySteps
  <1>. DEFINE h == [i \in 0 .. n |-> g[1 .. i]]
  <1>7. hydrate(t, seq) = IF seq = <<>> THEN t ELSE end_hand(g[1 .. n].tracker)
    BY <1>1, <1>6
  <1>8. h[0] = base
    <2>1. 1 .. 0 = {} /\ {} \in SUBSET DOMAIN seq
      OBVIOUS
    <2>2. g[{}] = base
      BY <1>6, <2>1, Zenon DEF base
    <2>. QED
      BY <1>1, <2>1, <2>2
  <1>9. ASSUME NEW i \in 1 .. n PROVE h[i] = Replayed(h[i - 1], seq[i])
    <2>. HIDE DEF F, h
    <2>0. i \in 1 .. i /\ i \in Nat /\ i <= n
      BY <1>1
    <2>1. 1 .. i \in SUBSET DOMAIN seq /\ 1 .. i # {} /\ i \in 1 .. i /\ i \in Nat
      <3>1. \A k \in 1 .. i : k \in 1 .. n
        BY <1>1, <2>0
      <3>. QED
        BY <1>1, <2>0, <3>1
    <2>2. Max(1 .. i) = i
      BY <2>1, GreatestUpTo
    <2>3. (1 .. i) \ {i} = 1 .. (i - 1)
      BY <1>1
    <2>. DEFINE s == 1 .. i
    <2>. HIDE DEF s
    <2>4. g[s] = Replayed(g[s \ {i}], seq[i])
      <3>1. s \in SUBSET DOMAIN seq /\ s # {} /\ Max(s) = i
        BY <2>1, <2>2 DEF s
      <3>2. g[s] = IF s = {} THEN Unreplayed(t) ELSE Replayed(g[s \ {Max(s)}], seq[Max(s)])
        BY <1>6, <3>1, Zenon
      <3>. QED
        BY <3>1, <3>2, Zenon
    <2>5. g[1 .. i] = Replayed(g[1 .. (i - 1)], seq[i])
      BY <2>3, <2>4, Zenon DEF s
    <2>6. i \in 0 .. n /\ i - 1 \in 0 .. n
      BY <1>1
    <2>. QED
      BY <2>5, <2>6, Zenon DEF h
  <1>10. \A i \in 0 .. n : h[i] \in A
    <2>. DEFINE D == {i \in 0 .. n : h[i] \in A}
    <2>. HIDE DEF h
    <2>1. 0 \in D
      BY <1>1, <1>2, <1>8
    <2>2. ASSUME NEW i \in 0 .. n - 1, i \in D PROVE i + 1 \in D
      <3>1. i + 1 \in 1 .. n /\ (i + 1) - 1 = i
        BY <1>1
      <3>2. h[i + 1] = Replayed(h[i], seq[i + 1])
        BY <1>9, <3>1
      <3>3. h[i] \in A /\ seq[i + 1] \in Entries
        BY <1>1, <2>2, <3>1
      <3>4. h[i + 1] \in A
        BY <3>2, <3>3, ReplayedType DEF A
      <3>. QED
        BY <1>1, <3>1, <3>4
    <2>3. 0 .. n \subseteq D
      <3>. HIDE DEF D
      <3>. QED
        BY <1>1, <2>1, <2>2, Counting
    <2>. QED
      BY <2>3
  <1>11. h \in [0 .. n -> A]
    BY <1>10
  <1>12. h[n] = g[1 .. n]
    BY <1>1
  <1>. HIDE DEF h
  <1>. QED
    BY <1>7, <1>8, <1>9, <1>11, <1>12 DEF n, A, base

\* A tracker that is filled from a history knows the losses of it.
LEMMA MatchesHydrate ==
  ASSUME NEW seq \in Seq(Entries)
  PROVE  Matches(hydrate(NewTracker, seq), Losses(seq))
  <1>. DEFINE n == Len(seq)
              l == Losses(seq)
              P(i) == SubSeq(l, 1, i)
  <1>1. n \in Nat /\ DOMAIN seq = 1 .. n /\ \A i \in 1 .. n : seq[i] \in Entries /\ seq[i].loss \in Nat
    <2>1. \A i \in 1 .. n : seq[i] \in Entries
      BY ElementOfSeq
    <2>2. n \in Nat /\ DOMAIN seq = 1 .. n
      BY LenProperties
    <2>. QED
      BY <2>1, <2>2 DEF Entries
  <1>2. l \in Seq(Nat) /\ Len(l) = n /\ \A i \in 1 .. n : l[i] = seq[i].loss
    <2>1. l = [i \in 1 .. n |-> seq[i].loss]
      BY <1>1 DEF Losses
    <2>. HIDE DEF l, n
    <2>. QED
      BY <1>1, <2>1
  <1>3. NewTracker \in Trackers
    BY MatchesNew DEF Matches
  <1>4. PICK h \in [0 .. n -> Replayers] :
          /\ h[0] = Unreplayed(NewTracker)
          /\ \A i \in 1 .. n : h[i] = Replayed(h[i - 1], seq[i])
          /\ hydrate(NewTracker, seq) = IF seq = <<>> THEN NewTracker ELSE end_hand(h[n].tracker)
    BY <1>3, ReplayRuns
  <1>. HIDE DEF l, n
  <1>. DEFINE D == {i \in 0 .. n : Matches(h[i].tracker, P(i))}
  <1>5. P(0) = <<>>
    BY <1>2, SubSeqEmpty
  <1>6. 0 \in D
    <2>1. h[0].tracker = NewTracker
      BY <1>4 DEF Unreplayed
    <2>. HIDE DEF P
    <2>. QED
      BY <1>1, <1>5, <2>1, MatchesNew
  <1>7. ASSUME NEW i \in 0 .. n - 1, i \in D PROVE i + 1 \in D
    <2>. DEFINE j == i + 1
    <2>1. j \in 1 .. n /\ j - 1 = i /\ j \in 0 .. n
      BY <1>1
    <2>2. P(j) = Append(P(i), seq[j].loss)
      <3>1. SubSeq(l, 1, j) = SubSeq(l, 1, j - 1) \o <<l[j]>>
        <4>. HIDE DEF j
        <4>1. 1 \in 1 .. Len(l) /\ j \in 1 .. Len(l)
          BY <1>1, <1>2, <2>1
        <4>. QED
          BY <1>2, <4>1, SubSeqRecursiveSecond
      <3>2. SubSeq(l, 1, i) \in Seq(Nat)
        <4>1. \A k \in 1 .. i : l[k] \in Nat
          BY <1>1, <1>2
        <4>2. i \in Int
          OBVIOUS
        <4>. QED
          BY <4>1, <4>2, SubSeqProperties
      <3>3. l[j] = seq[j].loss /\ l[j] \in Nat
        BY <1>1, <1>2, <2>1
      <3>4. SubSeq(l, 1, i) \o <<l[j]>> = Append(SubSeq(l, 1, i), l[j])
        <4>. DEFINE z == SubSeq(l, 1, i)
                    y == l[j]
        <4>. HIDE DEF z, y, j
        <4>. QED
          BY <3>2, <3>3, AppendIsConcat DEF z, y
      <3>. QED
        BY <2>1, <3>1, <3>3, <3>4
    <2>. HIDE DEF P, j
    <2>3. h[j] = Replayed(h[i], seq[j]) /\ h[i] \in Replayers /\ seq[j] \in Entries /\ seq[j].loss \in Nat
      BY <1>1, <1>4, <2>1
    <2>. DEFINE u == h[i]
                t == IF u.hand \in {NoHand, seq[j].hand} THEN u.tracker ELSE end_hand(u.tracker)
    <2>4. Matches(u.tracker, P(i))
      BY <1>7
    <2>5. Matches(t, P(i))
      <3>1. Matches(end_hand(u.tracker), P(i))
        <4>. HIDE DEF u
        <4>. QED
          BY <2>4, MatchesEnd
      <3>. HIDE DEF u
      <3>. QED
        BY <2>4, <3>1
    <2>6. h[j].tracker = record_action(t, seq[j].loss)
      BY <2>3 DEF Replayed
    <2>. HIDE DEF t, u
    <2>7. Matches(h[j].tracker, P(j))
      BY <2>2, <2>3, <2>5, <2>6, MatchesRecord
    <2>8. j \in D
      BY <2>1, <2>7
    <2>. QED
      BY <2>8 DEF j
  <1>8. Matches(h[n].tracker, P(n))
    <2>1. 0 .. n \subseteq D
      <3>. HIDE DEF D
      <3>. QED
        BY <1>1, <1>6, <1>7, Counting
    <2>2. n \in 0 .. n
      BY <1>1
    <2>. QED
      BY <2>1, <2>2
  <1>9. P(n) = l
    BY <1>2, SubSeqFull
  <1>10. CASE seq = <<>>
    <2>1. n = 0
      BY <1>10, EmptySeq DEF n
    <2>2. hydrate(NewTracker, seq) = NewTracker /\ l = <<>>
      BY <1>4, <1>5, <1>9, <1>10, <2>1
    <2>. QED
      BY <2>2, MatchesNew DEF l
  <1>11. CASE seq # <<>>
    <2>1. Matches(end_hand(h[n].tracker), l)
      <3>. DEFINE t == h[n].tracker
      <3>. HIDE DEF P, t
      <3>. QED
        BY <1>8, <1>9, MatchesEnd DEF t
    <2>. QED
      BY <1>4, <1>11, <2>1 DEF l
  <1>. QED
    BY <1>10, <1>11

\* A resumed table: only the latest decisions are read back.
LEMMA MatchesHydrated ==
  ASSUME NEW ds \in Seq(Entries)
  PROVE  Matches(hydrate(NewTracker, load_recent_losses(ds)), Losses(ds))
  <1>. DEFINE n == history_actions
              r == Recent(ds, n)
              t == hydrate(NewTracker, r)
              l == Losses(ds)
  <1>1. n \in Nat \ {0, 1}
    BY Windows
  <1>. HIDE DEF n
  <1>2. r \in Seq(Entries) /\ Len(r) = (IF Len(ds) <= n THEN Len(ds) ELSE n)
        /\ \A i \in 1 .. Len(r) : i + Len(ds) - Len(r) \in 1 .. Len(ds) /\ r[i] = ds[i + Len(ds) - Len(r)]
    BY <1>1, RecentIs
  <1>. HIDE DEF r
  <1>3. ASSUME NEW s \in Seq(Entries)
        PROVE  /\ Losses(s) \in Seq(Nat) /\ Len(Losses(s)) = Len(s) /\ Len(s) \in Nat
               /\ \A i \in 1 .. Len(s) : Losses(s)[i] = s[i].loss
    <2>1. Len(s) \in Nat /\ DOMAIN s = 1 .. Len(s)
      BY LenProperties
    <2>2. \A i \in 1 .. Len(s) : s[i].loss \in Nat
      <3>1. \A i \in 1 .. Len(s) : s[i] \in Entries
        BY ElementOfSeq
      <3>. QED
        BY <3>1 DEF Entries
    <2>3. Losses(s) = [i \in 1 .. Len(s) |-> s[i].loss]
      BY <2>1 DEF Losses
    <2>. QED
      BY <2>1, <2>2, <2>3
  <1>4. Losses(r) = Recent(l, n)
    <2>. DEFINE a == Losses(r)
                b == Recent(l, n)
    <2>1. a \in Seq(Nat) /\ Len(a) = Len(r) /\ \A i \in 1 .. Len(r) : a[i] = r[i].loss
      BY <1>2, <1>3
    <2>2. l \in Seq(Nat) /\ Len(l) = Len(ds) /\ Len(ds) \in Nat /\ \A i \in 1 .. Len(ds) : l[i] = ds[i].loss
      BY <1>3
    <2>. HIDE DEF l, a
    <2>3. b \in Seq(Nat) /\ Len(b) = (IF Len(l) <= n THEN Len(l) ELSE n)
          /\ \A i \in 1 .. Len(b) : b[i] = l[i + Len(l) - Len(b)]
      BY <1>1, <2>2, RecentIs
    <2>. HIDE DEF b
    <2>4. Len(a) = Len(b)
      BY <1>2, <2>1, <2>2, <2>3
    <2>5. ASSUME NEW i \in 1 .. Len(a) PROVE a[i] = b[i]
      BY <1>2, <2>1, <2>2, <2>3, <2>4
    <2>6. a = b
      BY <2>1, <2>3, <2>4, <2>5, SeqEqual
    <2>. QED
      BY <2>6 DEF a, b
  <1>5. Matches(t, Recent(l, n))
    <2>1. Matches(t, Losses(r))
      BY <1>2, MatchesHydrate
    <2>. QED
      BY <1>4, <2>1
  <1>6. l \in Seq(Nat)
    BY <1>3
  <1>. HIDE DEF t, l
  <1>7. Recent(Recent(l, n), n) = Recent(l, n)
    BY <1>1, <1>6, RecentOfRecent
  <1>8. Len(Recent(l, n)) <= Len(l) /\ Len(Recent(l, n)) \in Nat /\ Len(l) \in Nat
    <2>1. Len(Recent(l, n)) = IF Len(l) <= n THEN Len(l) ELSE n
      BY <1>1, <1>6, RecentIs
    <2>2. Len(l) \in Nat
      BY <1>6, LenProperties
    <2>. QED
      BY <1>1, <2>1, <2>2
  <1>9. Counted(t) \in Nat
    <2>1. t.hand_actions \in Seq(Nat) /\ t.current \in Nat
      BY <1>5 DEF Matches, Trackers
    <2>. QED
      BY <2>1, TotalType DEF Counted
  <1>10. Matches(t, l)
    BY <1>5, <1>6, <1>7, <1>8, <1>9 DEF Matches, n
  <1>. QED
    BY <1>10 DEF t, l, r, n, load_recent_losses

-----------------------------------------------------------------------------
(***************************************************************************)
(* The table's tracker.                                                    *)
(***************************************************************************)
\* The losses of the stored decisions and the one under review.
KnownOf(h, ds) == Losses(ds) \o (IF h = None THEN <<>> ELSE <<h>>)

\* OnlyTheWorseHalfIsHeld of a tracker t and a loss h.
HeldFor(t, h) ==
  h # None =>
    /\ h > 0
    /\ Len(t.losses) > 1
    /\ 2 * Cardinality({i \in DOMAIN t.losses : t.losses[i] > h}) < Len(t.losses)

Sound(t, h, ds) == Matches(t, KnownOf(h, ds)) /\ HeldFor(t, h)

LEMMA KnownIs ==
  ASSUME NEW ds \in Seq(Entries)
  PROVE  /\ Losses(ds) \in Seq(Nat)
         /\ KnownOf(None, ds) = Losses(ds)
         /\ \A h \in Nat : KnownOf(h, ds) = Append(Losses(ds), h)
         /\ \A e \in Entries : Losses(Append(ds, e)) = Append(Losses(ds), e.loss)
  <1>1. ASSUME NEW s \in Seq(Entries)
        PROVE  /\ Losses(s) \in Seq(Nat) /\ Len(Losses(s)) = Len(s) /\ Len(s) \in Nat
               /\ \A i \in 1 .. Len(s) : Losses(s)[i] = s[i].loss
    <2>1. Len(s) \in Nat /\ DOMAIN s = 1 .. Len(s)
      BY LenProperties
    <2>2. \A i \in 1 .. Len(s) : s[i].loss \in Nat
      <3>1. \A i \in 1 .. Len(s) : s[i] \in Entries
        BY ElementOfSeq
      <3>. QED
        BY <3>1 DEF Entries
    <2>3. Losses(s) = [i \in 1 .. Len(s) |-> s[i].loss]
      BY <2>1 DEF Losses
    <2>. QED
      BY <2>1, <2>2, <2>3
  <1>2. Losses(ds) \in Seq(Nat)
    BY <1>1
  <1>3. KnownOf(None, ds) = Losses(ds)
    BY <1>2, ConcatEmptySeq DEF KnownOf
  <1>4. ASSUME NEW h \in Nat PROVE KnownOf(h, ds) = Append(Losses(ds), h)
    <2>1. h # None
      BY DEF None
    <2>2. Append(Losses(ds), h) = Losses(ds) \o <<h>>
      BY <1>2, AppendIsConcat
    <2>. QED
      BY <2>1, <2>2 DEF KnownOf
  <1>5. ASSUME NEW e \in Entries PROVE Losses(Append(ds, e)) = Append(Losses(ds), e.loss)
    <2>. DEFINE d == Append(ds, e)
                a == Losses(d)
                l == Losses(ds)
                b == Append(l, e.loss)
                n == Len(ds)
    <2>1. d \in Seq(Entries) /\ Len(d) = n + 1 /\ d[n + 1] = e /\ \A i \in 1 .. n : d[i] = ds[i]
      BY AppendProperties
    <2>2. n \in Nat /\ l \in Seq(Nat) /\ Len(l) = n /\ \A i \in 1 .. n : l[i] = ds[i].loss
      BY <1>1
    <2>3. e.loss \in Nat
      BY DEF Entries
    <2>. HIDE DEF d, l, n
    <2>4. b \in Seq(Nat) /\ Len(b) = n + 1 /\ b[n + 1] = e.loss /\ \A i \in 1 .. n : b[i] = l[i]
      BY <2>2, <2>3, AppendProperties
    <2>5. a \in Seq(Nat) /\ Len(a) = n + 1 /\ \A i \in 1 .. n + 1 : a[i] = d[i].loss
      BY <1>1, <2>1
    <2>. HIDE DEF a, b
    <2>6. ASSUME NEW i \in 1 .. n + 1 PROVE a[i] = b[i]
      <3>1. CASE i = n + 1
        BY <2>1, <2>4, <2>5, <3>1
      <3>2. CASE i # n + 1
        <4>1. i \in 1 .. n
          BY <2>2, <3>2
        <4>. QED
          BY <2>1, <2>2, <2>4, <2>5, <4>1
      <3>. QED
        BY <3>1, <3>2
    <2>7. a = b
      BY <2>4, <2>5, <2>6, SeqEqual
    <2>. QED
      BY <2>7 DEF a, b, d, l
  <1>. QED
    BY <1>2, <1>3, <1>4, <1>5

\* A decision that is stored at once.
LEMMA SoundStored ==
  ASSUME NEW t, NEW ds \in Seq(Entries), Sound(t, None, ds), NEW e \in Entries
  PROVE  Sound(record_action(t, e.loss), None, Append(ds, e))
  <1>1. e.loss \in Nat /\ Append(ds, e) \in Seq(Entries)
    BY AppendProperties DEF Entries
  <1>2. Matches(t, Losses(ds))
    BY KnownIs DEF Sound
  <1>3. Matches(record_action(t, e.loss), Append(Losses(ds), e.loss))
    BY <1>1, <1>2, MatchesRecord
  <1>4. KnownOf(None, Append(ds, e)) = Append(Losses(ds), e.loss)
    BY <1>1, KnownIs
  <1>. QED
    BY <1>3, <1>4 DEF Sound, HeldFor

\* A decision that is held: of what the tracker knew fewer than the rank were
\* worse, and it is the latest now.
LEMMA SoundHeld ==
  ASSUME NEW t, NEW ds \in Seq(Entries), Sound(t, None, ds), NEW loss \in Nat,
         should_intercept(t, loss)
  PROVE  Sound(record_action(t, loss), loss, ds)
  <1>. DEFINE o == t.losses
              n == Len(o)
              k == trigger_rank(t)
              W == {i \in 1 .. n : o[i] > loss}
              u == record_action(t, loss)
              a == Append(o, loss)
              r == u.losses
              m == Len(r)
              V == {i \in 1 .. m : r[i] > loss}
              N == history_actions
  <1>1. Matches(t, Losses(ds))
    BY KnownIs DEF Sound
  <1>2. Matches(u, KnownOf(loss, ds))
    BY <1>1, MatchesRecord, KnownIs
  <1>3. t \in Trackers /\ o \in Seq(Nat) /\ o # <<>> /\ loss > 0 /\ loss >= kth_largest(o, k)
    BY <1>1 DEF Matches, Trackers, should_intercept
  <1>4. k \in 1 .. n /\ 2 * k <= n + 1 /\ n \in Nat
    BY <1>3, TriggerRank, LenProperties
  <1>5. IsFiniteSet(W) /\ Cardinality(W) < k
    <2>. HIDE DEF k
    <2>. QED
      BY <1>3, <1>4, FewExceed
  <1>6. N \in Nat \ {0, 1} /\ n <= N
    <2>1. o = Recent(Losses(ds), N) /\ Losses(ds) \in Seq(Nat)
      BY <1>1 DEF Matches
    <2>2. N \in Nat \ {0, 1}
      BY Windows
    <2>. HIDE DEF o, N
    <2>3. Len(o) = IF Len(Losses(ds)) <= N THEN Len(Losses(ds)) ELSE N
      BY <2>1, <2>2, RecentIs
    <2>. QED
      BY <2>1, <2>2, <2>3, LenProperties
  <1>7. r = Recent(a, N)
    BY <1>3, RecordIs
  <1>. HIDE DEF N, u, o, k
  <1>8. a \in Seq(Nat) /\ Len(a) = n + 1 /\ a[n + 1] = loss /\ \A i \in 1 .. n : a[i] = o[i]
    BY <1>3, AppendProperties
  <1>9. \A i \in 1 .. n : o[i] \in Nat
    BY <1>3, ElementOfSeq
  <1>. HIDE DEF a, n, r
  <1>10. /\ r \in Seq(Nat) /\ m = (IF n + 1 <= N THEN n + 1 ELSE N)
         /\ \A i \in 1 .. m : i + (n + 1) - m \in 1 .. n + 1 /\ r[i] = a[i + (n + 1) - m]
    <2>. HIDE DEF W, V
    <2>1. N \in Nat /\ Len(r) = m
      BY <1>6
    <2>. HIDE DEF m
    <2>2. /\ r \in Seq(Nat) /\ Len(r) = IF Len(a) <= N THEN Len(a) ELSE N
          /\ \A i \in 1 .. Len(r) : i + Len(a) - Len(r) \in 1 .. Len(a) /\ r[i] = a[i + Len(a) - Len(r)]
      BY <1>7, <1>8, <2>1, RecentIs
    <2>. QED
      BY <1>8, <2>1, <2>2
  <1>. HIDE DEF m
  <1>11. m > 1 /\ m >= n /\ m \in Nat
    BY <1>4, <1>6, <1>10
  <1>. DEFINE d == n + 1 - m
  <1>12. d \in Nat
    BY <1>4, <1>6, <1>10
  <1>13. ASSUME NEW i \in V PROVE i + d \in W
    <2>1. i \in 1 .. m /\ r[i] > loss /\ i + (n + 1) - m = i + d
      BY <1>4, <1>11
    <2>2. i + d \in 1 .. n + 1 /\ r[i] = a[i + d]
      BY <1>10, <2>1
    <2>. DEFINE j == i + d
    <2>. HIDE DEF j
    <2>3. j \in 1 .. n + 1 /\ r[i] = a[j]
      BY <2>2 DEF j
    <2>4. j # n + 1
      BY <1>8, <2>1, <2>3
    <2>5. j \in 1 .. n
      BY <1>4, <2>3, <2>4
    <2>6. o[j] > loss
      BY <1>8, <2>1, <2>3, <2>5
    <2>. QED
      BY <2>5, <2>6 DEF j
  <1>14. V \subseteq Nat
    BY <1>11
  <1>. HIDE DEF V, W, d
  <1>15. Cardinality(V) <= Cardinality(W) /\ Cardinality(V) \in Nat /\ Cardinality(W) \in Nat
    <2>. DEFINE f == [i \in V |-> i + d]
    <2>1. f \in [V -> W]
      BY <1>13
    <2>2. \A i, j \in V : f[i] = f[j] => i = j
      BY <1>12, <1>14
    <2>3. f \in Injection(V, W)
      <3>. HIDE DEF f
      <3>. QED
        BY <2>1, <2>2 DEF Injection, IsInjective
    <2>. HIDE DEF f
    <2>. QED
      BY <1>5, <2>3, FS_Injection, FS_CardinalityType
  <1>16. 2 * Cardinality(V) < m
    <2>1. k \in Nat
      BY <1>4
    <2>. QED
      BY <1>4, <1>5, <1>11, <1>15, <2>1
  <1>17. DOMAIN r = 1 .. m
    BY <1>10, LenProperties DEF m
  <1>18. HeldFor(u, loss)
    BY <1>3, <1>11, <1>16, <1>17 DEF HeldFor, V, r, m
  <1>. QED
    BY <1>2, <1>18 DEF Sound, u

\* The review is confirmed.
LEMMA SoundConfirmed ==
  ASSUME NEW t, NEW ds \in Seq(Entries), NEW e \in Entries, Sound(t, e.loss, ds)
  PROVE  Sound(t, None, Append(ds, e))
  <1>1. e.loss \in Nat /\ Append(ds, e) \in Seq(Entries)
    BY AppendProperties DEF Entries
  <1>2. KnownOf(None, Append(ds, e)) = KnownOf(e.loss, ds)
    BY <1>1, KnownIs
  <1>. QED
    BY <1>2 DEF Sound, HeldFor

LEMMA SoundEnd ==
  ASSUME NEW t, NEW ds \in Seq(Entries), Sound(t, None, ds)
  PROVE  Sound(end_hand(t), None, ds)
  BY MatchesEnd DEF Sound, HeldFor

LEMMA SoundHydrated ==
  ASSUME NEW ds \in Seq(Entries)
  PROVE  Sound(hydrate(NewTracker, load_recent_losses(ds)), None, ds)
  BY MatchesHydrated, KnownIs DEF Sound, HeldFor

\* The invariant of the table: the tracker matches what is stored and what is
\* under review.
TrackerInv ==
  /\ playing \in Hands
  /\ decisions \in Seq(Entries)
  /\ held \in Nat \cup {None}
  /\ Sound(tracker, held, decisions)

LEMMA InitTracker == TrackerInit => TrackerInv
  <1> SUFFICES ASSUME TrackerInit PROVE TrackerInv
    OBVIOUS
  <1>1. decisions = <<>> /\ held = None /\ tracker = NewTracker /\ playing = Hand(1, 0)
    BY DEF TrackerInit
  <1>2. <<>> \in Seq(Entries) /\ Len(<<>>) = 0
    BY EmptySeq
  <1>3. hydrate(NewTracker, load_recent_losses(<<>>)) = NewTracker
    <2>1. load_recent_losses(<<>>) = <<>>
      BY <1>2, Windows DEF load_recent_losses, Recent
    <2>. QED
      BY <2>1, HydrateIs
  <1>4. Sound(NewTracker, None, <<>>)
    BY <1>2, <1>3, SoundHydrated
  <1>5. playing \in Hands
    BY <1>1 DEF Hand, Hands
  <1>. QED
    BY <1>1, <1>2, <1>4, <1>5 DEF TrackerInv

LEMMA HydrateKeepsTracker ==
  ASSUME TrackerInv, Hydrate, playing' \in Hands
  PROVE  TrackerInv'
  <1>1. /\ tracker' = hydrate(NewTracker, load_recent_losses(decisions))
        /\ held' = None
        /\ decisions' = decisions
        /\ decisions \in Seq(Entries)
    BY DEF Hydrate, TrackerInv
  <1>2. Sound(tracker', None, decisions)
    BY <1>1, SoundHydrated
  <1>. QED
    BY <1>1, <1>2 DEF TrackerInv

\* Every call keeps it: a decision is judged before it is told; a review is
\* confirmed before anything else is decided; and what is read back is enough.
LEMMA NextKeepsTracker == TrackerInv /\ [TableNext]_tableVars => TrackerInv'
  <1> SUFFICES ASSUME TrackerInv, [TableNext]_tableVars PROVE TrackerInv'
    OBVIOUS
  <1>0. decisions \in Seq(Entries) /\ playing \in Hands /\ Sound(tracker, held, decisions)
    BY DEF TrackerInv
  <1>1. CASE EndHand
    <2>1. /\ held = None /\ held' = None /\ decisions' = decisions
          /\ playing' = [playing EXCEPT !.number = @ + 1]
          /\ tracker' = IF playing.number = 0 THEN tracker ELSE end_hand(tracker)
      BY <1>1 DEF EndHand
    <2>2. playing' \in Hands
      BY <1>0, <2>1 DEF Hands
    <2>3. Sound(end_hand(tracker), None, decisions)
      BY <1>0, <2>1, SoundEnd
    <2>4. Sound(tracker', held', decisions')
      BY <1>0, <2>1, <2>3
    <2>. QED
      BY <1>0, <2>1, <2>2, <2>4 DEF TrackerInv
  <1>2. CASE Decide
    <2>1. PICK loss \in Loss :
            /\ tracker' = record_action(tracker, loss)
            /\ \/ /\ should_intercept(tracker, loss)
                  /\ held' = loss
                  /\ decisions' = decisions
               \/ /\ decisions' = Append(decisions, [hand |-> playing, loss |-> loss])
                  /\ held' = held
      BY <1>2 DEF Decide, Stored, insert_decision
    <2>2. held = None /\ playing' = playing
      BY <1>2 DEF Decide
    <2>3. loss \in Nat
      BY BlunderAssumption
    <2>. DEFINE e == [hand |-> playing, loss |-> loss]
    <2>4. e \in Entries /\ e.loss = loss
      BY <1>0, <2>3 DEF Entries
    <2>5. CASE should_intercept(tracker, loss) /\ held' = loss /\ decisions' = decisions
      <3>1. Sound(record_action(tracker, loss), loss, decisions)
        BY <1>0, <2>2, <2>3, <2>5, SoundHeld
      <3>2. Sound(tracker', held', decisions')
        BY <2>1, <2>5, <3>1
      <3>. QED
        BY <1>0, <2>2, <2>3, <2>5, <3>2 DEF TrackerInv
    <2>6. CASE decisions' = Append(decisions, e) /\ held' = held
      <3>. HIDE DEF e
      <3>1. Sound(record_action(tracker, loss), None, Append(decisions, e))
        BY <1>0, <2>2, <2>4, SoundStored
      <3>2. Sound(tracker', held', decisions')
        BY <2>1, <2>2, <2>6, <3>1
      <3>3. decisions' \in Seq(Entries)
        BY <1>0, <2>4, <2>6, AppendProperties
      <3>. QED
        BY <1>0, <2>2, <2>6, <3>2, <3>3 DEF TrackerInv
    <2>. QED
      BY <2>1, <2>5, <2>6
  <1>3. CASE ConfirmReview
    <2>. DEFINE e == [hand |-> playing, loss |-> held]
    <2>1. /\ held \in Nat
          /\ decisions' = Append(decisions, e)
          /\ held' = None /\ tracker' = tracker /\ playing' = playing
      BY <1>3 DEF ConfirmReview, Stored, insert_decision, TrackerInv
    <2>2. e \in Entries /\ e.loss = held
      BY <1>0, <2>1 DEF Entries
    <2>. HIDE DEF e
    <2>3. Sound(tracker, None, Append(decisions, e))
      <3>1. Sound(tracker, e.loss, decisions)
        BY <1>0, <2>2
      <3>. QED
        BY <1>0, <2>2, <3>1, SoundConfirmed
    <2>4. Sound(tracker', held', decisions')
      BY <2>1, <2>3
    <2>5. decisions' \in Seq(Entries)
      BY <1>0, <2>1, <2>2, AppendProperties
    <2>. QED
      BY <1>0, <2>1, <2>4, <2>5 DEF TrackerInv
  <1>4. CASE Hydrate /\ UNCHANGED playing
    BY <1>0, <1>4, HydrateKeepsTracker
  <1>5. CASE NewTournament
    <2>1. playing' \in Hands /\ Hydrate
      BY <1>0, <1>5 DEF NewTournament, Hand, Hands
    <2>. QED
      BY <2>1, HydrateKeepsTracker
  <1>6. CASE UNCHANGED trackerVars
    BY <1>0, <1>6 DEF trackerVars, TrackerInv
  <1>. QED
    BY <1>1, <1>2, <1>3, <1>4, <1>5, <1>6 DEF TableNext, RecordStep, Decision, tableVars

\* The tracker knows what is stored and what is under review, after any order
\* of decisions, reviews, reconnects and tournaments, and holds a decision for
\* review only if more than half of the latest ones were not worse
\* (src/src/blunder.rs:121-229, src/src/server/session.rs).
THEOREM TrackerStaysSound == TableSpec => []TrackerIsSound
  <1>1. TableInit => TrackerInv
    BY InitTracker DEF TableInit
  <1>2. TrackerInv /\ [TableNext]_tableVars => TrackerInv'
    BY NextKeepsTracker
  <1>3. TrackerInv => TrackerIsSound
    <2> SUFFICES ASSUME TrackerInv PROVE TrackerIsSound
      OBVIOUS
    <2>1. Matches(tracker, KnownOf(held, decisions)) /\ HeldFor(tracker, held)
      BY DEF TrackerInv, Sound
    <2>2. TrackerMatchesTheRecord
      BY <2>1 DEF TrackerMatchesTheRecord, Matches, Counted, KnownOf, Losses
    <2>3. OnlyTheWorseHalfIsHeld
      BY <2>1 DEF OnlyTheWorseHalfIsHeld, HeldFor
    <2>. QED
      BY <2>2, <2>3 DEF TrackerIsSound
  <1>. QED
    BY <1>1, <1>2, <1>3, PTL DEF TableSpec

-----------------------------------------------------------------------------
(***************************************************************************)
(* The chart beside the table.                                             *)
(***************************************************************************)
\* A page that has drawn the ticks shows in its window what one does that was
\* sent the chart anew.
ChartInv ==
  /\ chart \in Seq(Nat)
  /\ Recent(chart, CHART_WINDOW) = Recent(Losses(decisions), CHART_WINDOW)

LEMMA ChartWindow == CHART_WINDOW \in Nat \ {0}
  BY AnalyticsAssumption

\* The points of the chart that is sent are the latest losses.
LEMMA RecentPoints ==
  ASSUME NEW ls \in Seq(Nat), NEW skipped
  PROVE  LET ps == Points(ls, skipped) IN [i \in DOMAIN ps |-> ps[i].loss] = ls
  <1>1. ls \in [1 .. Len(ls) -> Nat] /\ DOMAIN ls = 1 .. Len(ls)
    BY LenProperties
  <1>2. DOMAIN Points(ls, skipped) = DOMAIN ls /\ \A i \in DOMAIN ls : Points(ls, skipped)[i].loss = ls[i]
    BY DEF Points
  <1>. QED
    BY <1>1, <1>2

\* A tick that is drawn, and the chart that is sent anew.
LEMMA WindowAppend ==
  ASSUME NEW c \in Seq(Nat), NEW l \in Seq(Nat), NEW x \in Nat, NEW n \in Nat \ {0},
         Recent(c, n) = Recent(l, n)
  PROVE  Recent(Append(c, x), n) = Recent(Append(l, x), n)
  <1>1. Recent(Append(Recent(c, n), x), n) = Recent(Append(c, x), n)
    BY RecentOfAppend
  <1>2. Recent(Append(Recent(l, n), x), n) = Recent(Append(l, x), n)
    BY RecentOfAppend
  <1>. QED
    BY <1>1, <1>2

\* What snapshot_frame sends.
LEMMA SnapshotShows ==
  ASSUME NEW ds \in Seq(Entries), NEW c,
         LET recent == Recent(Losses(ds), CHART_WINDOW)
             ps == Points(recent, Len(ds) - Len(recent))
         IN c = [i \in DOMAIN ps |-> ps[i].loss]
  PROVE  /\ c \in Seq(Nat)
         /\ Recent(c, CHART_WINDOW) = Recent(Losses(ds), CHART_WINDOW)
  <1>. DEFINE r == Recent(Losses(ds), CHART_WINDOW)
              k == Len(ds) - Len(r)
  <1>1. Losses(ds) \in Seq(Nat)
    BY KnownIs
  <1>2. r \in Seq(Nat)
    BY <1>1, ChartWindow, RecentIs
  <1>3. c = [i \in DOMAIN Points(r, k) |-> Points(r, k)[i].loss]
    OBVIOUS
  <1>. HIDE DEF r, k
  <1>4. c = r
    BY <1>2, <1>3, RecentPoints
  <1>5. Recent(r, CHART_WINDOW) = r
    BY <1>1, ChartWindow, RecentOfRecent DEF r
  <1>. QED
    BY <1>2, <1>4, <1>5 DEF r

LEMMA NextKeepsChart == TrackerInv /\ ChartInv /\ [TableNext]_tableVars => ChartInv'
  <1> SUFFICES ASSUME TrackerInv, ChartInv, [TableNext]_tableVars PROVE ChartInv'
    OBVIOUS
  <1>. DEFINE W == CHART_WINDOW
  <1>0. decisions \in Seq(Entries) /\ W \in Nat \ {0} /\ playing \in Hands
        /\ chart \in Seq(Nat) /\ Recent(chart, W) = Recent(Losses(decisions), W)
    BY ChartWindow DEF TrackerInv, ChartInv
  <1>1. CASE Decision /\ decisions' # decisions
    <2>1. PICK e \in Entries : decisions' = Append(decisions, e)
      <3>1. CASE Decide
        <4>1. PICK loss \in Loss : decisions' = Append(decisions, [hand |-> playing, loss |-> loss])
          BY <1>1, <3>1 DEF Decide, Stored, insert_decision
        <4>2. [hand |-> playing, loss |-> loss] \in Entries
          BY <1>0, BlunderAssumption DEF Entries
        <4>. QED
          BY <4>1, <4>2
      <3>2. CASE ConfirmReview
        <4>1. decisions' = Append(decisions, [hand |-> playing, loss |-> held]) /\ held \in Nat
          BY <3>2 DEF ConfirmReview, Stored, insert_decision, TrackerInv
        <4>2. [hand |-> playing, loss |-> held] \in Entries
          BY <1>0, <4>1 DEF Entries
        <4>. QED
          BY <4>1, <4>2
      <3>. QED
        BY <1>1, <3>1, <3>2 DEF Decision
    <2>2. Charted
      BY <1>1 DEF Decision
    <2>. DEFINE ds == Append(decisions, e)
                l == Losses(decisions)
    <2>3. /\ ds \in Seq(Entries) /\ Len(ds) = Len(decisions) + 1 /\ ds[Len(decisions) + 1] = e
          /\ Losses(ds) = Append(l, e.loss) /\ l \in Seq(Nat) /\ e.loss \in Nat
      <3>1. ds \in Seq(Entries) /\ Len(ds) = Len(decisions) + 1 /\ ds[Len(decisions) + 1] = e
        BY <1>0, AppendProperties
      <3>2. Losses(ds) = Append(l, e.loss) /\ l \in Seq(Nat)
        BY <1>0, KnownIs
      <3>. QED
        BY <3>1, <3>2 DEF Entries
    <2>4. Last(decisions').loss = e.loss
      BY <2>1, <2>3 DEF Last
    <2>. HIDE DEF ds, l
    <2>5. CASE chart' = Append(chart, Last(decisions').loss)
      <3>1. chart' = Append(chart, e.loss)
        BY <2>4, <2>5
      <3>2. chart' \in Seq(Nat)
        BY <1>0, <2>3, <3>1, AppendProperties
      <3>3. Recent(Append(chart, e.loss), W) = Recent(Losses(ds), W)
        <4>1. Recent(Append(chart, e.loss), W) = Recent(Append(l, e.loss), W)
          <5>. HIDE DEF W
          <5>1. Recent(chart, W) = Recent(l, W)
            BY <1>0 DEF l
          <5>. QED
            BY <1>0, <2>3, <5>1, WindowAppend
        <4>. QED
          BY <2>3, <4>1
      <3>. QED
        BY <2>1, <3>1, <3>2, <3>3 DEF ChartInv, ds
    <2>6. CASE chart' = [i \in DOMAIN load_recent' |-> load_recent'[i].loss]
      <3>1. LET recent == Recent(Losses(ds), W)
                ps == Points(recent, Len(ds) - Len(recent))
            IN chart' = [i \in DOMAIN ps |-> ps[i].loss]
        BY <2>1, <2>6 DEF load_recent, ds
      <3>2. chart' \in Seq(Nat) /\ Recent(chart', W) = Recent(Losses(ds), W)
        BY <2>3, <3>1, SnapshotShows
      <3>. QED
        BY <2>1, <3>2 DEF ChartInv, ds
    <2>. QED
      BY <2>2, <2>5, <2>6 DEF Charted
  <1>2. CASE ChartSnapshot /\ decisions' = decisions
    <2>1. LET recent == Recent(Losses(decisions), W)
              ps == Points(recent, Len(decisions) - Len(recent))
          IN chart' = [i \in DOMAIN ps |-> ps[i].loss]
      BY <1>2 DEF ChartSnapshot, load_recent
    <2>2. chart' \in Seq(Nat) /\ Recent(chart', W) = Recent(Losses(decisions), W)
      BY <1>0, <2>1, SnapshotShows
    <2>. QED
      BY <1>2, <2>2 DEF ChartInv
  <1>3. CASE chart' = chart /\ decisions' = decisions
    BY <1>0, <1>3 DEF ChartInv
  <1>4. \/ Decision /\ decisions' # decisions
        \/ ChartSnapshot /\ decisions' = decisions
        \/ chart' = chart /\ decisions' = decisions
    <2>1. CASE half = "record" /\ RecordStep
      <3>1. CASE EndHand /\ HandRecord
        BY <3>1 DEF EndHand, HandRecord
      <3>2. CASE Decision
        BY <3>2 DEF Decision, recordVars
      <3>3. CASE held = None /\ log_hand_result /\ UNCHANGED trackerVars
        BY <3>3 DEF log_hand_result, trackerVars
      <3>4. CASE (tournament_over_frame \/ finish_table) /\ UNCHANGED trackerVars
        <4>1. chart' = chart
          BY <3>4 DEF tournament_over_frame, finish_table
        <4>. QED
          BY <3>4, <4>1 DEF trackerVars
      <3>5. CASE Hydrate /\ ResumeRecord /\ UNCHANGED playing
        BY <3>5 DEF Hydrate, ResumeRecord
      <3>6. CASE NewTournament /\ start_session
        BY <3>6 DEF NewTournament, Hydrate, start_session
      <3>. QED
        BY <2>1, <3>1, <3>2, <3>3, <3>4, <3>5, <3>6 DEF RecordStep
    <2>2. CASE UNCHANGED <<trackerVars, recordVars>>
      BY <2>2 DEF trackerVars, recordVars
    <2>. QED
      BY <2>1, <2>2 DEF TableNext, tableVars
  <1>. QED
    BY <1>1, <1>2, <1>3, <1>4

\* The chart, its average and its last ordinal are those of the stored
\* decisions, for any windows, by ticks as by snapshots, over reconnects and
\* tournaments (src/src/server/views.rs, src/src/analytics.rs: load_recent).
THEOREM TheChartShowsTheRecord == TableSpec => []ChartShowsTheRecord
  <1>1. TableInit => TrackerInv /\ ChartInv
    <2> SUFFICES ASSUME TableInit PROVE TrackerInv /\ ChartInv
      OBVIOUS
    <2>1. decisions = <<>> /\ chart = <<>>
      BY DEF TableInit, TrackerInit, RecordInit
    <2>2. Losses(<<>>) = <<>>
      <3>1. <<>> \in Seq(Entries) /\ DOMAIN <<>> = {}
        BY EmptySeq
      <3>2. Losses(<<>>) = [i \in {} |-> <<>>[i].loss]
        BY <3>1 DEF Losses
      <3>. QED
        BY <3>2
    <2>3. ChartInv
      BY <2>1, <2>2, EmptySeq DEF ChartInv
    <2>. QED
      BY <2>3, InitTracker DEF TableInit
  <1>2. TrackerInv /\ ChartInv /\ [TableNext]_tableVars => (TrackerInv /\ ChartInv)'
    BY NextKeepsTracker, NextKeepsChart
  <1>3. TrackerInv /\ ChartInv => ChartShowsTheRecord
    <2> SUFFICES ASSUME TrackerInv, ChartInv PROVE ChartShowsTheRecord
      OBVIOUS
    <2>. DEFINE l == Losses(decisions)
                r == Recent(l, CHART_WINDOW)
                k == Len(decisions) - Len(r)
    <2>1. Recent(chart, CHART_WINDOW) = r
      BY DEF ChartInv
    <2>2. hero_avg_ev_loss = Rate(Total(r), Len(r))
      BY DEF hero_avg_ev_loss
    <2>3. decisions \in Seq(Entries) /\ l \in Seq(Nat) /\ Len(l) = Len(decisions) /\ Len(decisions) \in Nat
      <3>1. decisions \in Seq(Entries) /\ l \in Seq(Nat)
        BY KnownIs DEF TrackerInv
      <3>2. DOMAIN l = DOMAIN decisions
        BY DEF Losses
      <3>3. Len(decisions) \in Nat /\ DOMAIN decisions = 1 .. Len(decisions)
        BY <3>1, LenProperties
      <3>4. Len(l) \in Nat /\ DOMAIN l = 1 .. Len(l)
        BY <3>1, LenProperties
      <3>5. \A m, n \in Nat : 1 .. m = 1 .. n => m = n
        <4> SUFFICES ASSUME NEW m \in Nat, NEW n \in Nat, 1 .. m = 1 .. n, m # n PROVE FALSE
          OBVIOUS
        <4>1. m \in 1 .. n \/ m = 0
          OBVIOUS
        <4>2. n \in 1 .. m \/ n = 0
          OBVIOUS
        <4>. QED
          BY <4>1, <4>2
      <3>. QED
        BY <3>1, <3>2, <3>3, <3>4, <3>5
    <2>4. ASSUME decisions # <<>> PROVE Last(load_recent).x = Len(decisions)
      <3>1. Len(decisions) # 0
        BY <2>3, <2>4, EmptySeq
      <3>2. r \in Seq(Nat) /\ Len(r) \in Nat \ {0}
        <4>1. Len(r) = IF Len(l) <= CHART_WINDOW THEN Len(l) ELSE CHART_WINDOW
          BY <2>3, ChartWindow, RecentIs
        <4>2. r \in Seq(Nat)
          BY <2>3, ChartWindow, RecentIs
        <4>. QED
          BY <2>3, <3>1, <4>1, <4>2, ChartWindow
      <3>3. load_recent = Points(r, k)
        BY DEF load_recent
      <3>. HIDE DEF r
      <3>4. DOMAIN r = 1 .. Len(r) /\ r \in [1 .. Len(r) -> Nat]
        BY <3>2, LenProperties
      <3>5. /\ Len(Points(r, k)) = Len(r)
            /\ Points(r, k)[Len(r)].x = k + Len(r)
        <4>1. Points(r, k) = [i \in 1 .. Len(r) |-> [x |-> k + i, loss |-> r[i]]]
          BY <3>4 DEF Points
        <4>. HIDE DEF k
        <4>. QED
          BY <3>2, <4>1
      <3>6. k + Len(r) = Len(decisions)
        BY <2>3, <3>2
      <3>. QED
        BY <3>3, <3>5, <3>6 DEF Last
    <2>. QED
      BY <2>1, <2>2, <2>4 DEF ChartShowsTheRecord
  <1>. QED
    BY <1>1, <1>2, <1>3, PTL DEF TableSpec

-----------------------------------------------------------------------------
(***************************************************************************)
(* The results of hands.                                                   *)
(***************************************************************************)
\* The records of hero_hand_results.
Results ==
  [session : Nat, number : Nat, hero_won : BOOLEAN, hero_all_in : BOOLEAN]

\* The hands of the tournament that are over.
Over == IF table = "played" THEN playing.number - 1 ELSE playing.number

\* The results queued are of the last hands of this tournament, in order, and of
\* all of them where no connection was lost.
QueueInv ==
  /\ queued \in Seq(Results)
  /\ Len(queued) <= Over
  /\ ~resumed /\ table # "closed" => Len(queued) = Over
  /\ \A i \in 1 .. Len(queued) :
       /\ queued[i].session = playing.session
       /\ queued[i].number = Over - Len(queued) + i
  /\ table = "closed" => queued = <<>>

\* Of a tournament that is still open nothing is stored.
StoredInv ==
  /\ hand_results \in Seq(Results)
  /\ \A i \in DOMAIN hand_results :
       /\ hand_results[i].session <= playing.session
       /\ table # "closed" => hand_results[i].session < playing.session
  /\ EveryHandHasItsResult

\* The inductive invariant of the results.
ResultsInv ==
  /\ playing.session \in Nat /\ playing.number \in Nat
  /\ table \in {"played", "over", "closed"}
  /\ table = "played" => playing.number > 0
  /\ QueueInv
  /\ StoredInv

\* The numbers of the results.
LEMMA ResultNumbers ==
  ASSUME NEW seq \in Seq(Results)
  PROVE  /\ Len(seq) \in Nat /\ DOMAIN seq = 1 .. Len(seq)
         /\ \A i \in DOMAIN seq : seq[i].session \in Nat /\ seq[i].number \in Nat
  <1>1. Len(seq) \in Nat /\ DOMAIN seq = 1 .. Len(seq)
    BY LenProperties
  <1>2. \A i \in 1 .. Len(seq) : seq[i] \in Results
    BY ElementOfSeq
  <1>. QED
    BY <1>1, <1>2 DEF Results

\* Nothing is queued or stored before the first hand.
LEMMA InitResults == TableInit => ResultsInv
  <1> SUFFICES ASSUME TableInit PROVE ResultsInv
    OBVIOUS
  <1>1. /\ playing.session = 1 /\ playing.number = 0 /\ table = "over"
        /\ queued = <<>> /\ hand_results = <<>>
    BY DEF TableInit, TrackerInit, RecordInit, Hand
  <1>. QED
    BY <1>1, EmptySeq DEF ResultsInv, QueueInv, StoredInv, EveryHandHasItsResult, Over

\* The queued results are stored with the end of the tournament.
LEMMA StoredWithTheEnd ==
  ASSUME ResultsInv, table = "over", table' = "closed", queued' = <<>>,
         UNCHANGED <<playing, resumed>>,
         hand_results' \in {hand_results \o queued, hand_results}
  PROVE  ResultsInv'
  <1>. DEFINE h == hand_results
              q == queued
              m == Len(h)
              n == Len(q)
              s == playing.session
              k == playing.number
              r == h \o q
  <1>1. /\ s \in Nat /\ k \in Nat
        /\ h \in Seq(Results) /\ q \in Seq(Results)
        /\ m \in Nat /\ n \in Nat /\ DOMAIN h = 1 .. m /\ DOMAIN q = 1 .. n
        /\ n <= k /\ (~resumed => n = k)
        /\ \A i \in 1 .. n : q[i].session = s /\ q[i].number = k - n + i
        /\ \A i \in 1 .. m : h[i].session < s /\ h[i].session \in Nat
        /\ \A i, j \in 1 .. m : h[i].session = h[j].session /\ h[i].number = h[j].number => i = j
    <2>1. hand_results \in Seq(Results) /\ queued \in Seq(Results)
      BY DEF ResultsInv, StoredInv, QueueInv
    <2>2. m \in Nat /\ n \in Nat /\ DOMAIN h = 1 .. m /\ DOMAIN q = 1 .. n
      BY <2>1, LenProperties
    <2>3. \A i \in 1 .. m : h[i].session \in Nat
      BY <2>1, <2>2, ResultNumbers
    <2>4. n <= k /\ (~resumed => n = k)
          /\ \A i \in 1 .. n : q[i].session = s /\ q[i].number = k - n + i
      BY DEF ResultsInv, QueueInv, Over
    <2>5. \A i \in DOMAIN h : h[i].session < s
      BY DEF ResultsInv, StoredInv
    <2>6. \A i, j \in DOMAIN h : h[i].session = h[j].session /\ h[i].number = h[j].number => i = j
      BY DEF ResultsInv, StoredInv, EveryHandHasItsResult
    <2>. QED
      BY <2>1, <2>2, <2>3, <2>4, <2>5, <2>6 DEF ResultsInv
  <1>2. /\ r \in Seq(Results) /\ DOMAIN r = 1 .. m + n
        /\ \A i \in 1 .. m + n : r[i] = IF i <= m THEN h[i] ELSE q[i - m]
    <2>. HIDE DEF h, q
    <2>1. r \in Seq(Results) /\ Len(r) = m + n
          /\ \A i \in 1 .. m + n : r[i] = IF i <= m THEN h[i] ELSE q[i - m]
      BY <1>1, ConcatProperties
    <2>. QED
      BY <2>1, LenProperties
  <1>3. CASE hand_results' = hand_results
    <2>1. StoredInv'
      <3>1. {i \in DOMAIN h : h[i].session = s} = {}
        BY <1>1
      <3>2. EveryHandHasItsResult'
        BY <1>1, <1>3, <3>1 DEF EveryHandHasItsResult
      <3>. QED
        BY <1>1, <1>3, <3>2 DEF StoredInv
    <2>2. QueueInv'
      BY <1>1, EmptySeq DEF QueueInv, Over
    <2>. QED
      BY <1>1, <2>1, <2>2 DEF ResultsInv
  <1>4. CASE hand_results' = r
    <2>. DEFINE f == hand_results'
    <2>1. f \in Seq(Results) /\ DOMAIN f = 1 .. m + n
          /\ (\A i \in 1 .. m : f[i] = h[i])
          /\ \A i \in m + 1 .. m + n : f[i].session = s /\ f[i].number = k - n + (i - m)
      <3>. HIDE DEF h, q, m, n, s, k, r
      <3>1. \A i \in m + 1 .. m + n : i - m \in 1 .. n /\ r[i] = q[i - m]
        BY <1>1, <1>2
      <3>2. \A i \in 1 .. m : i \in 1 .. m + n /\ r[i] = h[i]
        BY <1>1, <1>2
      <3>. QED
        BY <1>1, <1>2, <1>4, <3>1, <3>2
    <2>2. \A i \in 1 .. m + n : f[i].session <= s /\ (f[i].session = s <=> i > m)
      <3>. HIDE DEF f, h, q, m, n, s, k, r
      <3>1. ASSUME NEW i \in 1 .. m PROVE f[i].session <= s /\ f[i].session # s /\ ~(i > m)
        BY <1>1, <2>1
      <3>2. ASSUME NEW i \in m + 1 .. m + n PROVE f[i].session <= s /\ f[i].session = s /\ i > m
        BY <1>1, <2>1
      <3>3. \A i \in 1 .. m + n : i \in 1 .. m \/ i \in m + 1 .. m + n
        BY <1>1
      <3>. QED
        BY <3>1, <3>2, <3>3
    <2>3. ASSUME NEW i \in 1 .. m + n, NEW j \in 1 .. m + n,
                 f[i].session = f[j].session, f[i].number = f[j].number
          PROVE  i = j
      <3>. HIDE DEF f, h, q, m, n, s, k, r
      <3>1. CASE i <= m /\ j <= m
        BY <1>1, <2>1, <2>3, <3>1
      <3>2. CASE i > m /\ j > m
        <4>1. k - n + (i - m) = k - n + (j - m)
          BY <1>1, <2>1, <2>3, <3>2
        <4>. QED
          BY <1>1, <4>1
      <3>3. ~(i <= m /\ j > m) /\ ~(i > m /\ j <= m)
        BY <1>1, <2>2, <2>3
      <3>. QED
        BY <1>1, <3>1, <3>2, <3>3
    <2>4. {i \in DOMAIN f : f[i].session = s} = m + 1 .. m + n
      <3>. HIDE DEF f, h, q, m, n, s, k, r
      <3>. QED
        BY <1>1, <2>1, <2>2
    <2>5. ~resumed => {f[i].number : i \in m + 1 .. m + n} = 1 .. k
      <3>. HIDE DEF f, h, q, m, n, s, k, r
      <3>. SUFFICES ASSUME ~resumed PROVE {f[i].number : i \in m + 1 .. m + n} = 1 .. k
        OBVIOUS
      <3>1. \A i \in m + 1 .. m + n : f[i].number = i - m
        BY <1>1, <2>1
      <3>2. \A x \in 1 .. k : m + x \in m + 1 .. m + n /\ f[m + x].number = x
        BY <1>1, <3>1
      <3>3. \A i \in m + 1 .. m + n : i - m \in 1 .. k
        BY <1>1
      <3>. QED
        BY <3>1, <3>2, <3>3
    <2>. DEFINE stored == {i \in DOMAIN f : f[i].session = s}
    <2>6. playing' = playing /\ resumed' = resumed
      OBVIOUS
    <2>7. EveryHandHasItsResult'
      <3>1. \A i, j \in DOMAIN f : f[i].session = f[j].session /\ f[i].number = f[j].number => i = j
        BY <2>1, <2>3
      <3>2. ~resumed => {f[i].number : i \in stored} = 1 .. k
        BY <2>4, <2>5
      <3>. QED
        BY <2>6, <3>1, <3>2 DEF EveryHandHasItsResult
    <2>8. StoredInv'
      BY <2>1, <2>2, <2>6, <2>7 DEF StoredInv
    <2>9. QueueInv'
      BY <1>1, EmptySeq DEF QueueInv, Over
    <2>. QED
      BY <1>1, <2>6, <2>8, <2>9 DEF ResultsInv
  <1>. QED
    BY <1>3, <1>4

\* Every step keeps the results.
LEMMA NextKeepsResults == TrackerInv /\ ResultsInv /\ [TableNext]_tableVars => ResultsInv'
  <1> SUFFICES ASSUME TrackerInv, ResultsInv, [TableNext]_tableVars PROVE ResultsInv'
    OBVIOUS
  <1>0. playing \in Hands
    BY DEF TrackerInv
  <1>1. /\ playing.session \in Nat /\ playing.number \in Nat
        /\ queued \in Seq(Results) /\ hand_results \in Seq(Results)
        /\ Over \in Int /\ Len(queued) <= Over
    BY DEF ResultsInv, QueueInv, StoredInv, Over
  <1>2. /\ Len(queued) \in Nat /\ DOMAIN queued = 1 .. Len(queued)
        /\ \A i \in DOMAIN hand_results : hand_results[i].session \in Nat
    BY <1>1, ResultNumbers
  <1>3. table # "closed" =>
          \A i \in DOMAIN hand_results : hand_results[i].session < playing.session
    BY DEF ResultsInv, StoredInv
  <1>4. \A i, j \in DOMAIN hand_results :
          /\ hand_results[i].session = hand_results[j].session
          /\ hand_results[i].number = hand_results[j].number
          => i = j
    BY DEF ResultsInv, StoredInv, EveryHandHasItsResult
  <1>5. ASSUME hand_results' = hand_results, table # "closed", playing'.session = playing.session
        PROVE  StoredInv'
    <2>1. \A i \in DOMAIN hand_results : /\ hand_results[i].session < playing.session
                                         /\ hand_results[i].session # playing.session
                                         /\ hand_results[i].session <= playing.session
      BY <1>1, <1>2, <1>3, <1>5
    <2>2. {i \in DOMAIN hand_results : hand_results[i].session = playing.session} = {}
      BY <2>1
    <2>3. EveryHandHasItsResult'
      BY <1>4, <1>5, <2>2 DEF EveryHandHasItsResult
    <2>. QED
      BY <1>1, <1>5, <2>1, <2>3 DEF StoredInv
  <1>6. ASSUME UNCHANGED <<playing, table, resumed, queued, hand_results>> PROVE ResultsInv'
    BY <1>6 DEF ResultsInv, QueueInv, StoredInv, Over, EveryHandHasItsResult
  <1>7. CASE EndHand /\ HandRecord
    <2>1. /\ playing' = [playing EXCEPT !.number = @ + 1]
          /\ table = "over" /\ table' = "played"
          /\ UNCHANGED <<resumed, queued, hand_results>>
      BY <1>7 DEF EndHand, HandRecord
    <2>2. playing'.session = playing.session /\ playing'.number = playing.number + 1
      BY <1>0, <2>1 DEF Hands
    <2>3. Over' = Over
      BY <1>1, <2>1, <2>2 DEF Over
    <2>4. QueueInv'
      BY <2>1, <2>2, <2>3 DEF ResultsInv, QueueInv
    <2>. QED
      BY <1>1, <1>5, <2>1, <2>2, <2>4 DEF ResultsInv
  <1>8. CASE Decision
    <2>1. UNCHANGED <<playing, table, resumed, queued, hand_results>>
      BY <1>8 DEF Decision, Decide, ConfirmReview, Charted, recordVars
    <2>. QED
      BY <1>6, <2>1
  <1>9. CASE log_hand_result /\ UNCHANGED trackerVars
    <2>1. PICK outcome \in Outcomes :
            queued' = Append(queued, [session |-> playing.session, number |-> playing.number,
                                      hero_won |-> outcome \in {"won", "won_all_in"},
                                      hero_all_in |-> outcome \in {"won_all_in", "lost_all_in"}])
      BY <1>9 DEF log_hand_result
    <2>. DEFINE e == [session |-> playing.session, number |-> playing.number,
                      hero_won |-> outcome \in {"won", "won_all_in"},
                      hero_all_in |-> outcome \in {"won_all_in", "lost_all_in"}]
                n == Len(queued)
    <2>2. e \in Results /\ e.session = playing.session /\ e.number = playing.number
      BY <1>1 DEF Results
    <2>3. /\ table = "played" /\ table' = "over" /\ playing' = playing
          /\ UNCHANGED <<resumed, hand_results>>
      BY <1>9 DEF log_hand_result, trackerVars
    <2>. HIDE DEF e
    <2>4. /\ queued' \in Seq(Results) /\ Len(queued') = n + 1 /\ queued'[n + 1] = e
          /\ \A i \in 1 .. n : queued'[i] = queued[i]
      BY <1>1, <2>1, <2>2, AppendProperties DEF e
    <2>5. Over' = Over + 1 /\ Over + 1 = playing.number
      BY <1>1, <2>3 DEF Over
    <2>6. \A i \in 1 .. n : queued[i].session = playing.session
                           /\ queued[i].number = Over - n + i
      BY DEF ResultsInv, QueueInv
    <2>7. \A i \in 1 .. n + 1 : queued'[i].session = playing.session
                               /\ queued'[i].number = Over' - (n + 1) + i
      <3>1. \A i \in 1 .. n + 1 : i \in 1 .. n \/ i = n + 1
        BY <1>2
      <3>. QED
        BY <1>1, <1>2, <2>2, <2>4, <2>5, <2>6, <3>1
    <2>8. ~resumed => n = Over
      BY <2>3 DEF ResultsInv, QueueInv
    <2>9. QueueInv'
      <3>1. Len(queued') <= Over'
        BY <1>1, <1>2, <2>4, <2>5
      <3>3. ~resumed' => Len(queued') = Over'
        BY <2>3, <2>4, <2>5, <2>8
      <3>2. \A i \in 1 .. Len(queued') : queued'[i].session = playing'.session
                                        /\ queued'[i].number = Over' - Len(queued') + i
        BY <2>3, <2>4, <2>7
      <3>. QED
        BY <2>3, <2>4, <3>1, <3>2, <3>3 DEF QueueInv
    <2>. QED
      BY <1>1, <1>5, <2>3, <2>9 DEF ResultsInv
  <1>10. CASE tournament_over_frame /\ UNCHANGED trackerVars
    <2>1. /\ table = "over" /\ table' = "closed" /\ queued' = <<>>
          /\ playing' = playing /\ resumed' = resumed
          /\ hand_results' \in {hand_results \o queued, hand_results}
      BY <1>10 DEF tournament_over_frame, persist_hand_results, trackerVars
    <2>. QED
      BY <2>1, StoredWithTheEnd
  <1>11. CASE finish_table /\ UNCHANGED trackerVars
    <2>1. /\ table # "closed" /\ table' = "closed" /\ queued' = <<>>
          /\ playing' = playing /\ hand_results' = hand_results
          /\ playing.number > 0
      BY <1>11 DEF finish_table, trackerVars
    <2>2. QueueInv'
      BY <1>1, <2>1, EmptySeq DEF QueueInv, Over
    <2>. QED
      BY <1>1, <1>5, <2>1, <2>2 DEF ResultsInv
  <1>12. CASE ResumeRecord /\ UNCHANGED playing
    <2>1. /\ table # "closed" /\ table' = table /\ queued' = <<>>
          /\ playing' = playing /\ hand_results' = hand_results
          /\ resumed' = (resumed \/ queued # <<>>)
      BY <1>12 DEF ResumeRecord
    <2>2. Over' = Over
      BY <2>1 DEF Over
    <2>3. ~resumed' => Over = 0
      <3>1. ASSUME ~resumed' PROVE Over = 0
        <4>1. ~resumed /\ Len(queued) = 0
          BY <1>1, <2>1, <3>1, EmptySeq
        <4>. QED
          BY <2>1, <4>1 DEF ResultsInv, QueueInv
      <3>. QED
        BY <3>1
    <2>4. QueueInv'
      BY <1>1, <1>2, <2>1, <2>2, <2>3, EmptySeq DEF QueueInv
    <2>. QED
      BY <1>1, <1>5, <2>1, <2>4 DEF ResultsInv
  <1>13. CASE NewTournament /\ start_session
    <2>1. /\ table = "closed" /\ table' = "over" /\ queued' = queued
          /\ hand_results' = hand_results /\ playing' = Hand(playing.session + 1, 0)
      BY <1>13 DEF NewTournament, start_session
    <2>2. playing'.session = playing.session + 1 /\ playing'.number = 0
      BY <2>1 DEF Hand
    <2>3. queued = <<>>
      BY <2>1 DEF ResultsInv, QueueInv
    <2>4. QueueInv'
      BY <2>1, <2>2, <2>3, EmptySeq DEF QueueInv, Over
    <2>5. \A i \in DOMAIN hand_results : /\ hand_results[i].session < playing.session + 1
                                         /\ hand_results[i].session # playing.session + 1
                                         /\ hand_results[i].session <= playing.session + 1
      BY <1>1, <1>2 DEF ResultsInv, StoredInv
    <2>6. {i \in DOMAIN hand_results : hand_results[i].session = playing.session + 1} = {}
      BY <2>5
    <2>7. EveryHandHasItsResult'
      BY <1>4, <2>1, <2>2, <2>6 DEF EveryHandHasItsResult
    <2>8. StoredInv'
      BY <1>1, <2>1, <2>2, <2>5, <2>7 DEF StoredInv
    <2>. QED
      BY <1>1, <2>1, <2>2, <2>4, <2>8 DEF ResultsInv
  <1>14. CASE UNCHANGED <<trackerVars, recordVars>>
    BY <1>6, <1>14 DEF trackerVars, recordVars
  <1>. QED
    BY <1>7, <1>8, <1>9, <1>10, <1>11, <1>12, <1>13, <1>14 DEF TableNext, RecordStep, tableVars

\* No hand has two results, and a tournament played by one connection and closed
\* with its results stored has one of each of its hands, for any number of hands
\* and tournaments, whichever statements fail (src/src/server/ws.rs,
\* src/src/analytics.rs: hero_hand_results).
THEOREM EveryHandKeepsItsResult == TableSpec => []EveryHandHasItsResult
  <1>1. TableInit => TrackerInv /\ ResultsInv
    BY InitTracker, InitResults DEF TableInit
  <1>2. TrackerInv /\ ResultsInv /\ [TableNext]_tableVars => (TrackerInv /\ ResultsInv)'
    BY NextKeepsTracker, NextKeepsResults
  <1>3. ResultsInv => EveryHandHasItsResult
    BY DEF ResultsInv, StoredInv
  <1>. QED
    BY <1>1, <1>2, <1>3, PTL DEF TableSpec
=============================================================================
