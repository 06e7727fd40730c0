----------------------------- MODULE PacketLoss -----------------------------
(***************************************************************************)
(* AnalyzePacketLoss: the packets lost by one sender are estimated from    *)
(* the 32-bit sequence numbers of those that arrive, and after a hundred   *)
(* the sender is told to lower or to raise its quality.  The network       *)
(* loses, duplicates and reorders.                                         *)
(***************************************************************************)
EXTENDS Integers, FiniteSets

CONSTANTS
  Word,      \* sequence numbers are taken modulo Word (2^32)
  Quota,     \* packets until a verdict (100)
  MaxSent    \* bound: packets the sender sends

ASSUME CountsAssumption == Word \in Nat \ {0} /\ Quota \in Nat /\ MaxSent \in Nat

VARIABLES
  lastSeq, lostPackets, totalPackets,   \* of the sender's UserAddr
  \* History, read by no guard:
  got,       \* packets that arrived since the last verdict, and the one before
  first,     \* the first of them to arrive, 0 when there is none
  inOrder    \* whether each of them was newer than the one before

plvars == <<lastSeq, lostPackets, totalPackets, got, first, inOrder>>

-----------------------------------------------------------------------------
\* HELLO makes a new UserAddr; the sender numbers its packets from one.
PlInit ==
  /\ lastSeq = 0 /\ lostPackets = 0 /\ totalPackets = 0
  /\ got = {} /\ first = 0 /\ inOrder = TRUE

\* uint32 arithmetic: both the sum and the difference wrap.
Jump(seq) == seq > (lastSeq + 1) % Word

\* Mutation of Skipped: a gap counts as one packet.
SkippedOne(seq) == 1

Skipped(seq) == (seq - lastSeq - 1) % Word

Lost(seq) ==
  IF lastSeq # 0 /\ Jump(seq) THEN lostPackets + Skipped(seq) ELSE lostPackets

Newest == CHOOSE n \in got : \A k \in got : k <= n

\* Packet n arrives.  The verdict empties the counters, not lastSeq.
AnalyzePacketLoss(n) ==
  /\ lastSeq' = n % Word
  /\ IF totalPackets + 1 < Quota
     THEN /\ totalPackets' = totalPackets + 1
          /\ lostPackets' = Lost(n % Word)
          /\ got' = got \cup {n}
          /\ first' = IF got = {} THEN n ELSE first
          /\ inOrder' = (inOrder /\ \A k \in got : k < n)
     ELSE /\ totalPackets' = 0 /\ lostPackets' = 0
          /\ got' = {n} /\ first' = n /\ inOrder' = TRUE

Renew ==
  /\ lastSeq' = 0 /\ lostPackets' = 0 /\ totalPackets' = 0
  /\ got' = {} /\ first' = 0 /\ inOrder' = TRUE

PlNext == Renew \/ \E n \in 1..MaxSent : AnalyzePacketLoss(n)

PlSpec == PlInit /\ [][PlNext]_plvars

-----------------------------------------------------------------------------
(* Properties                                                              *)

\* The packets sent after the first to arrive, and before the newest, that did
\* not arrive.
Missing ==
  IF got = {} THEN {} ELSE {n \in first..Newest : n \notin got}

\* The numbers of the packets that arrived did not start again from zero, and
\* none of them was zero, which the code takes for no number yet.
NoWrap == \A n, k \in got : n \div Word = k \div Word /\ n % Word # 0

\* No packet of a run without a wrap is lost uncounted, and late packets can
\* only make the loss look greater: if they come in order, none does.
LossCovered ==
  NoWrap => /\ lostPackets >= Cardinality(Missing)
            /\ inOrder => lostPackets = Cardinality(Missing)

=============================================================================
