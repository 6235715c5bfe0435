------------------------- MODULE ReplayWindowProofs -------------------------
(***************************************************************************)
(* The ring of ReplayWindow lets a counter through exactly when the set it *)
(* stands for would, for every block size and ring length.                 *)
(***************************************************************************)
EXTENDS ReplayWindow, TLAPS

(* The blocks the ring still holds.                                        *)
Held(block) == block <= Block(last) /\ Block(last) < block + RING_BLOCKS

(* WindowExact is not inductive: it says nothing of the bits an advance    *)
(* will uncover.  The ring's bits of the blocks it holds are the accepted  *)
(* counters of those blocks, and none of them is newer than last.          *)
RingInv ==
  /\ WindowTypeOK
  /\ \A c \in accepted : c <= last
  /\ \A c \in Nat :
       Held(Block(c)) => (Bit(c) \in ring[Slot(Block(c))] <=> c \in accepted)

-----------------------------------------------------------------------------
(* A counter is its block and its bit.                                     *)
LEMMA Division ==
  ASSUME NEW c \in Nat
  PROVE  /\ Block(c) \in Nat /\ Bit(c) \in Nat /\ Bit(c) < BLOCK_BITS
         /\ c = BLOCK_BITS * Block(c) + Bit(c)
BY WindowAssumption DEF Block, Bit

(* A block number is its slot and a number of turns of the ring.           *)
LEMMA Turns ==
  ASSUME NEW b \in Nat
  PROVE  /\ Slot(b) \in Slots
         /\ \E q \in Nat : b = RING_BLOCKS * q + Slot(b)
<1> DEFINE q == b \div RING_BLOCKS
<1>1. q \in Nat /\ b = RING_BLOCKS * q + Slot(b) /\ Slot(b) \in Slots
  BY WindowAssumption DEF Slot, Slots
<1> QED BY <1>1

(* Multiplying by a positive number keeps the order.                       *)
LEMMA Product ==
  ASSUME NEW n \in Nat \ {0}, NEW i \in Int, NEW j \in Int, i < j
  PROVE  n * i + n <= n * j
<1>1. PICK k \in Nat : j = i + 1 + k
  <2>1. j - i - 1 \in Nat /\ j = i + 1 + (j - i - 1)
    OBVIOUS
  <2> QED BY <2>1
<1>2. n * k \in Nat
  OBVIOUS
<1>3. n * j = n * i + n + n * k
  BY <1>1
<1> QED BY <1>2, <1>3

(* Two blocks in one slot, less than a turn apart, are one block.          *)
LEMMA SlotInjective ==
  ASSUME NEW i \in Nat, NEW j \in Nat, Slot(i) = Slot(j), i <= j, j < i + RING_BLOCKS
  PROVE  i = j
<1>1. PICK p \in Nat : i = RING_BLOCKS * p + Slot(i)
  BY Turns
<1>2. PICK q \in Nat : j = RING_BLOCKS * q + Slot(j)
  BY Turns
<1>3. Slot(i) \in Int /\ RING_BLOCKS * p \in Int /\ RING_BLOCKS * q \in Int
  BY Turns, WindowAssumption DEF Slots
<1>4. ~(p < q)
  BY <1>1, <1>2, <1>3, Product, WindowAssumption
<1>5. ~(q < p)
  BY <1>1, <1>2, <1>3, Product, WindowAssumption
<1>6. p = q
  BY <1>4, <1>5
<1> QED BY <1>1, <1>2, <1>6

(* Slots repeat every turn.                                                *)
LEMMA SlotOf ==
  ASSUME NEW q \in Nat, NEW s \in Slots
  PROVE  Slot(RING_BLOCKS * q + s) = s
<1> DEFINE b == RING_BLOCKS * q + s
<1>1. s \in Nat /\ s < RING_BLOCKS /\ RING_BLOCKS * q \in Nat
  BY WindowAssumption DEF Slots
<1>2. b \in Nat
  BY <1>1
<1>3. PICK p \in Nat : b = RING_BLOCKS * p + Slot(b)
  BY <1>2, Turns
<1>4. Slot(b) \in Nat /\ Slot(b) < RING_BLOCKS /\ RING_BLOCKS * p \in Nat
  BY <1>2, Turns, WindowAssumption DEF Slots
<1>5. ~(p < q)
  BY <1>1, <1>3, <1>4, Product, WindowAssumption
<1>6. ~(q < p)
  BY <1>1, <1>3, <1>4, Product, WindowAssumption
<1>7. p = q
  BY <1>5, <1>6
<1> QED BY <1>3, <1>7, <1>1, <1>4

(* A turn of the ring passes every slot.                                   *)
LEMMA EverySlot ==
  ASSUME NEW n \in Nat, NEW s \in Slots
  PROVE  \E b \in (n + 1)..(n + RING_BLOCKS) : Slot(b) = s
<1> DEFINE r == Slot(n + 1)
<1>1. PICK q \in Nat : n + 1 = RING_BLOCKS * q + r
  BY Turns
<1>2. r \in Nat /\ r < RING_BLOCKS /\ s \in Nat /\ s < RING_BLOCKS /\ RING_BLOCKS * q \in Nat
  BY Turns, WindowAssumption DEF Slots
<1>3. CASE r <= s
  <2>1. RING_BLOCKS * q + s \in (n + 1)..(n + RING_BLOCKS)
    BY <1>1, <1>2, <1>3, WindowAssumption
  <2> QED BY <2>1, SlotOf
<1>4. CASE s < r
  <2>1. RING_BLOCKS * (q + 1) = RING_BLOCKS * q + RING_BLOCKS
    BY WindowAssumption
  <2>2. RING_BLOCKS * (q + 1) + s \in (n + 1)..(n + RING_BLOCKS)
    BY <1>1, <1>2, <1>4, <2>1, WindowAssumption
  <2> QED BY <2>2, SlotOf
<1> QED BY <1>2, <1>3, <1>4

-----------------------------------------------------------------------------
(* Counters and their blocks are in the same order.                        *)
LEMMA BlockOrder ==
  ASSUME NEW c \in Nat, NEW d \in Nat, c <= d
  PROVE  Block(c) <= Block(d)
<1>1. /\ Block(c) \in Nat /\ Bit(c) \in Nat /\ Bit(c) < BLOCK_BITS
      /\ c = BLOCK_BITS * Block(c) + Bit(c)
      /\ Block(d) \in Nat /\ Bit(d) \in Nat /\ Bit(d) < BLOCK_BITS
      /\ d = BLOCK_BITS * Block(d) + Bit(d)
  BY Division, Zenon
<1>2. ASSUME Block(d) < Block(c) PROVE FALSE
  <2>1. BLOCK_BITS * Block(d) + BLOCK_BITS <= BLOCK_BITS * Block(c)
    BY <1>1, <1>2, Product, WindowAssumption
  <2>2. BLOCK_BITS * Block(d) \in Int /\ BLOCK_BITS * Block(c) \in Int /\ BLOCK_BITS \in Nat
    BY <1>1, WindowAssumption
  <2> QED BY <1>1, <2>1, <2>2
<1> QED BY <1>1, <1>2

(* A block and a bit name one counter.                                     *)
LEMMA OneCounter ==
  ASSUME NEW c \in Nat, NEW d \in Nat, Block(c) = Block(d), Bit(c) = Bit(d)
  PROVE  c = d
BY Division

(* The window spans a whole number of blocks, possibly none.               *)
LEMMA WindowSize == REPLAY_WINDOW \in Nat
<1>1. RING_BLOCKS - 1 \in Nat /\ BLOCK_BITS \in Nat
  BY WindowAssumption
<1> QED BY <1>1 DEF REPLAY_WINDOW

(* What is at most REPLAY_WINDOW behind is in a block the ring holds.      *)
LEMMA WithinRing ==
  ASSUME NEW c \in Nat, NEW d \in Nat, c <= d, d - c <= REPLAY_WINDOW
  PROVE  Block(d) < Block(c) + RING_BLOCKS
<1>1. /\ Block(c) \in Nat /\ Bit(c) \in Nat /\ Bit(c) < BLOCK_BITS
      /\ c = BLOCK_BITS * Block(c) + Bit(c)
      /\ Block(d) \in Nat /\ Bit(d) \in Nat /\ Bit(d) < BLOCK_BITS
      /\ d = BLOCK_BITS * Block(d) + Bit(d)
  BY Division, Zenon
<1>2. ASSUME Block(c) + RING_BLOCKS <= Block(d) PROVE FALSE
  <2> DEFINE k == Block(c) + RING_BLOCKS - 1
  <2>1. k \in Int /\ k < Block(d)
    BY <1>1, <1>2, WindowAssumption
  <2>2. BLOCK_BITS * k + BLOCK_BITS <= BLOCK_BITS * Block(d)
    BY <2>1, <1>1, Product, WindowAssumption
  <2>3. BLOCK_BITS * k = BLOCK_BITS * Block(c) + REPLAY_WINDOW
    BY <1>1, WindowAssumption DEF REPLAY_WINDOW
  <2>4. /\ BLOCK_BITS * Block(d) \in Int /\ BLOCK_BITS * Block(c) \in Int
        /\ BLOCK_BITS * k \in Int /\ REPLAY_WINDOW \in Int /\ BLOCK_BITS \in Nat
    BY <1>1, <2>1, WindowAssumption DEF REPLAY_WINDOW
  <2> HIDE DEF k
  <2> QED BY <1>1, <2>2, <2>3, <2>4
<1> QED BY <1>1, <1>2, WindowAssumption

-----------------------------------------------------------------------------
(* The ring accept writes into is well formed, and its newest block is the *)
(* counter's own.                                                          *)
LEMMA RingForType ==
  ASSUME WindowTypeOK, NEW counter \in Nat
  PROVE  RingFor(counter) \in [Slots -> SUBSET Bits]
BY DEF RingFor, Cleared, WindowTypeOK

(* After an advance, the ring holds the accepted counters of the blocks    *)
(* the new window covers: those it moved over are empty, the others kept.  *)
LEMMA AdvancedRing ==
  ASSUME RingInv, NEW counter \in Nat, counter > last, NEW c \in Nat,
         Block(c) <= Block(counter), Block(counter) < Block(c) + RING_BLOCKS
  PROVE  Bit(c) \in RingFor(counter)[Slot(Block(c))] <=> c \in accepted
<1> USE DEF RingInv, WindowTypeOK
<1>1. /\ Block(c) \in Nat /\ Block(counter) \in Nat /\ Block(last) \in Nat
      /\ Slot(Block(c)) \in Slots /\ last \in Nat
  BY Division, Turns
<1>2. Block(last) <= Block(counter)
  BY BlockOrder
<1>3. RingFor(counter) = Cleared(counter)
  BY DEF RingFor
<1>4. CASE Block(c) <= Block(last)
  <2>1. Held(Block(c))
    BY <1>1, <1>2, <1>4, WindowAssumption DEF Held
  <2>2. ASSUME NEW b \in PassedBlocks(counter), Slot(b) = Slot(Block(c)) PROVE FALSE
    <3>1. b \in Nat /\ Block(c) < b /\ b < Block(c) + RING_BLOCKS
      BY <1>1, <1>2, <1>4, WindowAssumption DEF PassedBlocks
    <3>2. Block(c) = b
      BY <1>1, <2>2, <3>1, SlotInjective
    <3> QED BY <1>1, <3>1, <3>2
  <2>3. Cleared(counter)[Slot(Block(c))] = ring[Slot(Block(c))]
    BY <1>1, <2>2 DEF Cleared
  <2> QED BY <1>3, <2>1, <2>3
<1>5. CASE Block(last) < Block(c)
  <2>1. c \notin accepted
    <3>1. ~(c <= last)
      BY <1>1, <1>5, BlockOrder
    <3> QED BY <3>1
  <2>2. \E b \in PassedBlocks(counter) : Slot(b) = Slot(Block(c))
    <3>1. CASE Block(c) <= Block(last) + RING_BLOCKS
      <4>1. Block(c) \in PassedBlocks(counter)
        BY <1>1, <1>5, <3>1, WindowAssumption DEF PassedBlocks
      <4> QED BY <4>1
    <3>2. CASE Block(last) + RING_BLOCKS < Block(c)
      <4>1. PICK b \in (Block(last) + 1)..(Block(last) + RING_BLOCKS) : Slot(b) = Slot(Block(c))
        BY <1>1, EverySlot
      <4>2. b \in PassedBlocks(counter)
        BY <1>1, <3>2, <4>1, WindowAssumption DEF PassedBlocks
      <4> QED BY <4>1, <4>2
    <3> QED BY <1>1, <3>1, <3>2, WindowAssumption
  <2>3. Cleared(counter)[Slot(Block(c))] = {}
    BY <1>1, <2>2 DEF Cleared
  <2> QED BY <1>3, <2>1, <2>3
<1> QED BY <1>1, <1>4, <1>5

(* What accept returns, given the ring's invariant.                        *)
LEMMA AcceptsWhat ==
  ASSUME RingInv, NEW counter \in Nat
  PROVE  Accepts(counter) <=> /\ counter < REJECT_AFTER_MESSAGES
                              /\ counter \notin accepted
                              /\ counter + REPLAY_WINDOW >= last
<1> USE DEF RingInv, WindowTypeOK
<1>1. last \in Nat /\ REPLAY_WINDOW \in Nat
  BY WindowSize
<1>2. Block(counter) \in Nat /\ Block(last) \in Nat
  BY <1>1, Division
<1>3. CASE counter > last
  <2>1. Bit(counter) \in RingFor(counter)[Slot(Block(counter))] <=> counter \in accepted
    BY <1>2, <1>3, AdvancedRing, WindowAssumption
  <2>2. Refused(counter) <=> counter >= REJECT_AFTER_MESSAGES
    BY <1>1, <1>3 DEF Refused, TooOld
  <2> QED BY <1>1, <1>3, <2>1, <2>2, WindowAssumption DEF Accepts
<1>4. CASE counter <= last
  <2>1. Refused(counter) <=> (counter >= REJECT_AFTER_MESSAGES \/ ~(counter + REPLAY_WINDOW >= last))
    BY <1>1, <1>4 DEF Refused, TooOld
  <2>2. RingFor(counter) = ring
    BY <1>1, <1>4 DEF RingFor
  <2>3. ASSUME counter + REPLAY_WINDOW >= last
        PROVE  Bit(counter) \in ring[Slot(Block(counter))] <=> counter \in accepted
    <3>1. last - counter <= REPLAY_WINDOW
      BY <1>1, <2>3
    <3>2. Held(Block(counter))
      BY <1>1, <1>4, <3>1, BlockOrder, WithinRing DEF Held
    <3> QED BY <3>2
  <2> QED BY <2>1, <2>2, <2>3, WindowAssumption DEF Accepts
<1> QED BY <1>1, <1>3, <1>4

-----------------------------------------------------------------------------
(* The empty ring of a new session stands for the empty set.               *)
LEMMA RingInvInit == WindowInit => RingInv
<1> SUFFICES ASSUME WindowInit PROVE RingInv
  OBVIOUS
<1>1. WindowTypeOK /\ \A c \in accepted : c <= last
  BY DEF WindowInit, WindowTypeOK
<1>2. ASSUME NEW c \in Nat PROVE Bit(c) \notin ring[Slot(Block(c))] /\ c \notin accepted
  BY Division, Turns DEF WindowInit
<1> QED BY <1>1, <1>2 DEF RingInv

(* One call of accept keeps the ring's invariant.                          *)
LEMMA RingInvNext == RingInv /\ [WindowNext]_windowVars => RingInv'
<1> SUFFICES ASSUME RingInv, [WindowNext]_windowVars PROVE RingInv'
  OBVIOUS
<1>1. CASE UNCHANGED windowVars
  BY <1>1 DEF windowVars, RingInv, WindowTypeOK, Held, Block, Slot, Bit
<1>2. ASSUME NEW counter \in 0..MaxCounter, Accept(counter) PROVE RingInv'
  <2>1. counter \in Nat /\ last \in Nat
    BY WindowAssumption DEF RingInv, WindowTypeOK
  <2>2. CASE Refused(counter)
    <3>1. UNCHANGED <<last, ring, accepted>>
      BY <1>2, <2>2 DEF Accept, Accepts
    <3> QED BY <3>1 DEF RingInv, WindowTypeOK, Held, Block, Slot, Bit
  <2>3. CASE ~Refused(counter)
    <3> DEFINE slot == Slot(Block(counter))
    <3>1. /\ last' = IF counter > last THEN counter ELSE last
          /\ ring' = [RingFor(counter) EXCEPT ![slot] = @ \cup {Bit(counter)}]
      BY <1>2, <2>3 DEF Accept
    <3>2. Block(counter) \in Nat /\ slot \in Slots /\ Bit(counter) \in Bits
      BY <2>1, Division, Turns, WindowAssumption DEF Bits
    <3>3. RingFor(counter) \in [Slots -> SUBSET Bits]
      BY <2>1, RingForType DEF RingInv
    <3>4. accepted' = accepted \cup {counter}
      <4>1. CASE Accepts(counter)
        BY <1>2, <4>1 DEF Accept
      <4>2. CASE ~Accepts(counter)
        <5>1. counter \in accepted
          <6>1. counter < REJECT_AFTER_MESSAGES /\ counter + REPLAY_WINDOW >= last
            BY <2>1, <2>3, WindowSize, WindowAssumption DEF Refused, TooOld
          <6> QED BY <2>1, <4>2, <6>1, AcceptsWhat
        <5> QED BY <1>2, <4>2, <5>1 DEF Accept
      <4> QED BY <4>1, <4>2
    <3>5. WindowTypeOK'
      BY <2>1, <3>1, <3>2, <3>3, <3>4 DEF RingInv, WindowTypeOK
    <3>6. \A c \in accepted' : c <= last'
      BY <2>1, <3>1, <3>4 DEF RingInv, WindowTypeOK
    <3>7. ASSUME NEW c \in Nat, Held(Block(c))'
          PROVE  Bit(c) \in ring'[Slot(Block(c))] <=> c \in accepted'
      <4>1. /\ Block(c) \in Nat /\ Slot(Block(c)) \in Slots
            /\ Block(last) \in Nat /\ Block(last') \in Nat
        BY <2>1, <3>5, Division, Turns DEF WindowTypeOK
      <4>2. Block(c) <= Block(last') /\ Block(last') < Block(c) + RING_BLOCKS
        BY <3>7 DEF Held, Block
      <4>3. Block(counter) <= Block(last') /\ Block(last') < Block(counter) + RING_BLOCKS
        <5>1. CASE counter > last
          BY <3>1, <3>2, <5>1, WindowAssumption
        <5>2. CASE counter <= last
          <6>1. last - counter <= REPLAY_WINDOW
            BY <2>1, <2>3, <5>2, WindowAssumption DEF Refused, TooOld, REPLAY_WINDOW
          <6>2. last' = last
            BY <2>1, <3>1, <5>2
          <6> QED BY <2>1, <5>2, <6>1, <6>2, BlockOrder, WithinRing
        <5> QED BY <2>1, <5>1, <5>2
      <4>4. Bit(c) \in RingFor(counter)[Slot(Block(c))] <=> c \in accepted
        <5>1. CASE counter > last
          <6>1. last' = counter
            BY <3>1, <5>1
          <6> QED BY <2>1, <4>2, <5>1, <6>1, AdvancedRing
        <5>2. CASE counter <= last
          <6>1. last' = last /\ RingFor(counter) = ring
            BY <2>1, <3>1, <5>2 DEF RingFor
          <6>2. Held(Block(c))
            BY <4>2, <6>1 DEF Held
          <6> QED BY <6>1, <6>2 DEF RingInv
        <5> QED BY <2>1, <5>1, <5>2
      <4>5. CASE Slot(Block(c)) = slot
        <5>1. Block(c) = Block(counter)
          <6>1. CASE Block(c) <= Block(counter)
            BY <3>2, <4>1, <4>2, <4>3, <4>5, <6>1, SlotInjective, WindowAssumption
          <6>2. CASE Block(counter) <= Block(c)
            BY <3>2, <4>1, <4>2, <4>3, <4>5, <6>2, SlotInjective, WindowAssumption
          <6> QED BY <3>2, <4>1, <6>1, <6>2
        <5>2. ring'[Slot(Block(c))] = RingFor(counter)[Slot(Block(c))] \cup {Bit(counter)}
          BY <3>1, <3>2, <3>3, <4>5
        <5>3. Bit(c) = Bit(counter) <=> c = counter
          BY <2>1, <5>1, OneCounter
        <5> QED BY <3>4, <4>4, <5>2, <5>3
      <4>6. CASE Slot(Block(c)) # slot
        <5>1. ring'[Slot(Block(c))] = RingFor(counter)[Slot(Block(c))]
          BY <3>1, <3>3, <4>1, <4>6
        <5>2. c # counter
          BY <4>6
        <5> QED BY <3>4, <4>4, <5>1, <5>2
      <4> QED BY <4>5, <4>6
    <3>8. \A c \in Nat : Held(Block(c))' => (Bit(c) \in ring'[Slot(Block(c))] <=> c \in accepted')
      BY <3>7
    <3> QED BY <3>5, <3>6, <3>8 DEF RingInv, Held, Block, Slot, Bit
  <2> QED BY <2>2, <2>3
<1> QED BY <1>1, <1>2 DEF WindowNext

(* The replay filter is exact: ReplayWindow::accept lets a counter through *)
(* exactly when it is below the limit, fresh and within the window, for    *)
(* every block size, ring length and sequence of counters.                 *)
THEOREM ReplayFilterExact == WindowSpec => []WindowExact
<1>1. RingInv => WindowExact
  <2> SUFFICES ASSUME RingInv, NEW counter \in 0..MaxCounter
               PROVE  Accepts(counter) <=> /\ counter < REJECT_AFTER_MESSAGES
                                           /\ counter \notin accepted
                                           /\ counter + REPLAY_WINDOW >= last
    BY DEF WindowExact
  <2>1. counter \in Nat
    BY WindowAssumption
  <2> QED BY <2>1, AcceptsWhat
<1> QED BY <1>1, RingInvInit, RingInvNext, PTL DEF WindowSpec
=============================================================================
