---------------------------- MODULE ReplayWindow ----------------------------
(***************************************************************************)
(* The anti-replay filter of a WireGuard session                           *)
(* (proto-wireguard/src/session.rs): a ring of bit blocks over the         *)
(* counters of the datagrams the session has opened.  A block is the set   *)
(* of its bits that are one; a counter's block number is counter >> 6 and  *)
(* its slot that number & RING_MASK, here a quotient and a remainder.      *)
(***************************************************************************)
EXTENDS Integers

CONSTANTS
  BLOCK_BITS,              \* counters in a block
  RING_BLOCKS,             \* blocks in the ring
  REJECT_AFTER_MESSAGES,   \* hard limit on the counter
  MaxCounter               \* bound: counters that arrive are 0..MaxCounter

ASSUME WindowAssumption ==
  /\ BLOCK_BITS \in Nat \ {0} /\ RING_BLOCKS \in Nat \ {0}
  /\ REJECT_AFTER_MESSAGES \in Nat /\ MaxCounter \in Nat

VARIABLES
  last,       \* the newest counter
  ring,       \* slot -> bits that are one
  accepted    \* for the properties: counters the filter has let through

windowVars == <<last, ring, accepted>>

REPLAY_WINDOW == (RING_BLOCKS - 1) * BLOCK_BITS
Slots == 0..(RING_BLOCKS - 1)
Bits == 0..(BLOCK_BITS - 1)
Block(counter) == counter \div BLOCK_BITS
Slot(block) == block % RING_BLOCKS
Bit(counter) == counter % BLOCK_BITS

WindowTypeOK ==
  /\ last \in Nat /\ ring \in [Slots -> SUBSET Bits] /\ accepted \in SUBSET Nat

WindowInit == last = 0 /\ ring = [s \in Slots |-> {}] /\ accepted = {}

-----------------------------------------------------------------------------
(* The blocks the window moves over when counter becomes the newest; at    *)
(* most all of them.                                                       *)
(* Mutant: the loop stops one block short.                                 *)
PassedBlocksShort(counter) ==
  {b \in (Block(last) + 1)..(Block(counter) - 1) : b <= Block(last) + RING_BLOCKS}
PassedBlocks(counter) ==
  {b \in (Block(last) + 1)..Block(counter) : b <= Block(last) + RING_BLOCKS}

Cleared(counter) ==
  [s \in Slots |-> IF \E b \in PassedBlocks(counter) : Slot(b) = s THEN {} ELSE ring[s]]

(* accept's early returns: past the hard limit, or behind the window.      *)
TooOld(counter) == counter <= last /\ last - counter > REPLAY_WINDOW
Refused(counter) == counter >= REJECT_AFTER_MESSAGES \/ TooOld(counter)

(* The ring accept reads the counter's bit in.                             *)
RingFor(counter) == IF counter > last THEN Cleared(counter) ELSE ring

(* What accept returns.                                                    *)
Accepts(counter) ==
  ~Refused(counter) /\ Bit(counter) \notin RingFor(counter)[Slot(Block(counter))]

Accept(counter) ==
  /\ IF Refused(counter)
     THEN UNCHANGED <<last, ring>>
     ELSE /\ last' = IF counter > last THEN counter ELSE last
          /\ ring' = [RingFor(counter) EXCEPT ![Slot(Block(counter))] =
                        @ \cup {Bit(counter)}]
  /\ accepted' = IF Accepts(counter) THEN accepted \cup {counter} ELSE accepted

WindowNext == \E counter \in 0..MaxCounter : Accept(counter)

WindowSpec == WindowInit /\ [][WindowNext]_windowVars

-----------------------------------------------------------------------------
(* The ring agrees with the set it stands for (ReplayWindow::accept): a    *)
(* counter is let through exactly when it is below the limit, was not let  *)
(* through before and is at most REPLAY_WINDOW behind the newest.  Nothing *)
(* is delivered twice and nothing recent is refused, however far and often *)
(* the counter jumps.                                                      *)
WindowExact ==
  \A counter \in 0..MaxCounter :
    Accepts(counter) <=> /\ counter < REJECT_AFTER_MESSAGES
                         /\ counter \notin accepted
                         /\ counter + REPLAY_WINDOW >= last
=============================================================================
