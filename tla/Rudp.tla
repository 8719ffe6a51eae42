-------------------------------- MODULE Rudp --------------------------------
(***************************************************************************)
(* The reliable channel of the game UDP transport, one direction: the      *)
(* sending half of a PlayerSession, the receiving half, and a network that *)
(* loses, duplicates and reorders datagrams.  The Unity client is not in   *)
(* the repository; both halves here are the server's, which the client     *)
(* mirrors over the same UDPHeader.                                        *)
(*                                                                         *)
(* The 32-bit _rRecvBitfield is a set: i is in it when the bit for         *)
(* _rRecvHighestSeq - i is set (bit i-1).  Time is left out: a pending     *)
(* packet may be retransmitted at any moment.  A session lives at most ten *)
(* minutes, so the 32-bit sequence numbers do not wrap.                    *)
(***************************************************************************)
EXTENDS Integers, FiniteSets

CONSTANTS
    W,       \* width of the receive bitfield, 32 in the code
    Burst,   \* workload: most sequence numbers from the oldest unacknowledged
             \* packet to the newest; the code sets no limit, it logs at 34
    MaxSeq   \* bound: reliable packets ever sent

ASSUME WidthAssumption == W \in Nat \ {0}
ASSUME BurstAssumption == Burst \in Nat \ {0}
ASSUME SeqAssumption   == MaxSeq \in Nat

VARIABLES
    sent,      \* _sendRSeq of the sender
    pending,   \* _pendingReliable of the sender
    wire,      \* sequence numbers with a datagram in flight
    hasRecv,   \* _hasRRecv of the receiver
    high,      \* _rRecvHighestSeq of the receiver
    bits,      \* _rRecvBitfield of the receiver
    acks,      \* ACK fields of datagrams in flight the other way
    got,       \* packets handed to a packet handler
    twice      \* packets handed to a handler more than once

senderVars   == <<sent, pending>>
receiverVars == <<hasRecv, high, bits, got, twice>>
vars == <<senderVars, wire, receiverVars, acks>>
-----------------------------------------------------------------------------
Seqs == 1 .. MaxSeq
Acks == [high : 0 .. MaxSeq, bits : SUBSET (1 .. W)]

\* Mutant: only the highest sequence number is acknowledged.
AckStateHighest == [high |-> high, bits |-> {}]

\* GetAckState.  Before the first packet it is (0, 0), and no packet has
\* sequence number 0.
AckState == [high |-> high, bits |-> bits]

\* The packets an ACK field acknowledges.
Acked(a) == {a.high} \cup {a.high - i : i \in a.bits}

Init ==
    /\ sent = 0 /\ pending = {}
    /\ wire = {}
    /\ hasRecv = FALSE /\ high = 0 /\ bits = {}
    /\ acks = {}
    /\ got = {} /\ twice = {}
-----------------------------------------------------------------------------
(* Sender.                                                                 *)

RegisterReliable(n) == pending' = pending \cup {n}

\* MakeD2CPacketImpl for a reliable packet: NextSendRSeq, RegisterReliable,
\* and the datagram goes out.
Send ==
    /\ sent < MaxSeq
    /\ \A n \in pending : sent + 1 - n < Burst
    /\ sent' = sent + 1
    /\ RegisterReliable(sent + 1)
    /\ wire' = wire \cup {sent + 1}
    /\ UNCHANGED <<receiverVars, acks>>

\* The timeout, 1.5 RTT, is left out with the rest of time.
GetRetransmitCandidates == pending

\* One packet of CheckRetransmits.
Retransmit(n) ==
    /\ n \in GetRetransmitCandidates
    /\ wire' = wire \cup {n}
    /\ UNCHANGED <<senderVars, receiverVars, acks>>

\* Mutant: the bits are read as if bit 0 were the highest sequence number.
ProcessIncomingAckShifted(a) ==
    pending' = pending \ ({a.high} \cup {a.high + 1 - i : i \in a.bits} \cup {a.high - 1})

ProcessIncomingAck(a) == pending' = pending \ Acked(a)

HandleAck(a) ==
    /\ a \in acks
    /\ ProcessIncomingAck(a)
    /\ acks' \in {acks, acks \ {a}}
    /\ UNCHANGED <<sent, wire, receiverVars>>
-----------------------------------------------------------------------------
(* Receiver.                                                               *)

\* Is n new to UpdateRRecvState, which returns true then?
Accepts(n) ==
    \/ ~ hasRecv
    \/ n > high
    \/ /\ n < high
       /\ high - n <= W
       /\ high - n \notin bits

\* Mutant: the bit of the packet that was the highest is not carried over.
ShiftedForgetful(diff) ==
    IF diff >= W THEN {} ELSE {i + diff : i \in bits} \cap (1 .. W)

\* The bitfield after the highest sequence number grew by diff.
Shifted(diff) ==
    IF diff >= W THEN {} ELSE ({i + diff : i \in bits} \cap (1 .. W)) \cup {diff}

\* Mutant: the distance of a late packet is taken for the index of its bit.
UpdateRRecvStateIndex(n) ==
    IF ~ hasRecv \/ n > high
    THEN /\ high' = n
         /\ bits' = IF hasRecv THEN Shifted(n - high) ELSE {}
    ELSE /\ bits' = bits \cup {high - n - 1}
         /\ UNCHANGED high

\* What UpdateRRecvState does with an n it accepts.
UpdateRRecvState(n) ==
    IF ~ hasRecv \/ n > high
    THEN /\ high' = n
         /\ bits' = IF hasRecv THEN Shifted(n - high) ELSE {}
    ELSE /\ bits' = bits \cup {high - n}
         /\ UNCHANGED high

\* HandleClientPacket on a reliable datagram; the network may have another
\* copy of it.
Receive(n) ==
    /\ n \in wire
    /\ wire' \in {wire, wire \ {n}}
    /\ \/ /\ Accepts(n)
          /\ UpdateRRecvState(n)
          /\ hasRecv' = TRUE
          /\ got' = got \cup {n}
          /\ twice' = IF n \in got THEN twice \cup {n} ELSE twice
       \/ /\ ~ Accepts(n)
          /\ UNCHANGED receiverVars
    /\ UNCHANGED <<senderVars, acks>>

\* Any datagram the other way carries the ACK state of the moment it is made.
SendAck ==
    /\ acks' = acks \cup {AckState}
    /\ UNCHANGED <<senderVars, wire, receiverVars>>
-----------------------------------------------------------------------------
(* Network.                                                                *)

Lose(n) ==
    /\ n \in wire
    /\ wire' = wire \ {n}
    /\ UNCHANGED <<senderVars, receiverVars, acks>>

LoseAck(a) ==
    /\ a \in acks
    /\ acks' = acks \ {a}
    /\ UNCHANGED <<senderVars, wire, receiverVars>>
-----------------------------------------------------------------------------
Next ==
    \/ Send
    \/ SendAck
    \/ \E n \in Seqs : Retransmit(n) \/ Receive(n) \/ Lose(n)
    \/ \E a \in acks : HandleAck(a) \/ LoseAck(a)

Spec == Init /\ [][Next]_vars

\* CheckRetransmits runs in every turn of the Dedicate loop, and a peer that
\* is in the game sends state ten times a second.  A datagram that is sent
\* over and over is not lost every time.
FairSpec ==
    /\ Spec
    /\ WF_vars(SendAck)
    /\ SF_vars(\E a \in acks : a = AckState /\ HandleAck(a))
    /\ \A n \in Seqs : WF_vars(Retransmit(n)) /\ SF_vars(Receive(n))
-----------------------------------------------------------------------------
(* Properties.                                                             *)

TypeOK ==
    /\ sent \in 0 .. MaxSeq
    /\ pending \subseteq 1 .. sent
    /\ wire \subseteq 1 .. sent
    /\ hasRecv \in BOOLEAN
    /\ high \in 0 .. sent
    /\ bits \subseteq 1 .. W
    /\ acks \subseteq Acks
    /\ got \subseteq 1 .. sent
    /\ twice \subseteq got

\* Reliable means: the sender forgets a packet (ProcessIncomingAck erases it
\* from _pendingReliable) only when the peer has handled it, whatever was
\* lost, duplicated or reordered and however stale the ACK.
NoLoss == \A n \in 1 .. sent : n \notin pending => n \in got

\* A retransmission whose ACK was lost is not handled again: inside the
\* receive window the bitfield tells it is a duplicate.
AtMostOnce == twice = {}

\* Every reliable packet is handled by the peer in the end, and leaves
\* _pendingReliable: no packet is retransmitted for ever.
EventuallyAcked ==
    \A n \in Seqs : n \in pending ~> (n \in got /\ n \notin pending)
=============================================================================
