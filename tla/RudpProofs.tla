----------------------------- MODULE RudpProofs -----------------------------
(***************************************************************************)
(* Proofs about Rudp, for every window width, burst and number of packets. *)
(*                                                                         *)
(* NoLoss needs to know that the receive state and every ACK in flight,    *)
(* however old, name only packets that were handled (Sound).  AtMostOnce   *)
(* also needs the converse inside the window: every handled packet up to W *)
(* behind the highest has its bit (Exact).  The shift of UpdateRRecvState  *)
(* loses the old highest packet when the jump is W exactly; with a burst   *)
(* below W no such jump happens, because the packet just above the old     *)
(* highest would still be pending.                                         *)
(***************************************************************************)
EXTENDS Rudp, TLAPS

\* The receive state and the ACKs in flight name handled packets only.
Sound ==
    /\ hasRecv => high \in got
    /\ ~ hasRecv => high = 0 /\ bits = {} /\ got = {}
    /\ \A i \in bits : high - i \in got
    /\ \A a \in acks : \A n \in Acked(a) : n \in got \/ n = 0

LossInv == TypeOK /\ Sound /\ NoLoss

\* The bitfield knows every handled packet of the window.
Exact ==
    /\ \A n \in got : n <= high
    /\ \A n \in got : n < high /\ high - n <= W => high - n \in bits

\* The workload: unacknowledged packets are near the newest one.
Near == \A n \in pending : sent - n < Burst

OnceInv == LossInv /\ Exact /\ Near /\ AtMostOnce

\* What the receive state of TypeOK and Sound becomes when n is accepted.
LEMMA AcceptSound ==
  ASSUME LossInv, NEW n \in wire, Accepts(n), UpdateRRecvState(n),
         got' = got \cup {n}
  PROVE  /\ high' \in 1 .. sent
         /\ bits' \subseteq 1 .. W
         /\ high' \in got'
         /\ \A i \in bits' : high' - i \in got'
  <1> USE WidthAssumption, SeqAssumption
  <1>0. n \in 1 .. sent /\ sent \in Nat /\ high \in 0 .. sent /\ bits \subseteq 1 .. W
    BY DEF LossInv, TypeOK
  <1>1. CASE ~ hasRecv
    BY <1>0, <1>1 DEF UpdateRRecvState
  <1>2. CASE hasRecv /\ n > high
    <2>1. high' = n /\ bits' = Shifted(n - high) BY <1>2 DEF UpdateRRecvState
    <2>2. \A i \in Shifted(n - high) : i \in 1 .. W /\ (i = n - high \/ i - (n - high) \in bits)
      BY <1>0, <1>2 DEF Shifted
    <2>3. \A i \in bits : high - i \in got BY DEF LossInv, Sound
    <2>4. high \in got BY <1>2 DEF LossInv, Sound
    <2>5. ASSUME NEW i \in bits' PROVE high' - i \in got'
      <3>1. CASE i = n - high
        <4>1. high' - i = high BY <2>1, <3>1, <1>0
        <4> QED BY <4>1, <2>4
      <3>2. CASE i - (n - high) \in bits
        <4>1. high - (i - (n - high)) \in got BY <3>2, <2>3
        <4>2. i \in Int BY <2>5, <2>1, <2>2
        <4>3. high - (i - (n - high)) = high' - i BY <2>1, <4>2, <1>0
        <4> QED BY <4>1, <4>3
      <3> QED BY <2>5, <2>1, <2>2, <3>1, <3>2
    <2>6. bits' \subseteq 1 .. W BY <2>1, <2>2
    <2> QED BY <2>1, <2>5, <2>6, <1>0
  <1>3. CASE hasRecv /\ ~ (n > high)
    <2>1. high' = high /\ bits' = bits \cup {high - n} BY <1>3 DEF UpdateRRecvState
    <2>2. n < high /\ high - n <= W BY <1>3 DEF Accepts
    <2>3. high \in got /\ \A i \in bits : high - i \in got BY <1>3 DEF LossInv, Sound
    <2>4. high - (high - n) = n BY <1>0
    <2>5. high - n \in 1 .. W BY <2>2, <1>0
    <2> QED BY <2>1, <2>2, <2>3, <2>4, <2>5, <1>0
  <1> QED BY <1>1, <1>2, <1>3

LEMMA LossInit == Init => LossInv
  <1> SUFFICES ASSUME Init PROVE LossInv
    OBVIOUS
  <1> USE WidthAssumption, SeqAssumption DEF Init
  <1>1. 1 .. sent = {} OBVIOUS
  <1>2. TypeOK
    <2>1. sent \in 0 .. MaxSeq /\ high \in 0 .. sent OBVIOUS
    <2>2. hasRecv \in BOOLEAN BY Zenon
    <2>3. /\ pending \subseteq 1 .. sent /\ wire \subseteq 1 .. sent /\ bits \subseteq 1 .. W
          /\ acks \subseteq Acks /\ got \subseteq 1 .. sent /\ twice \subseteq got
      OBVIOUS
    <2> QED BY <2>1, <2>2, <2>3 DEF TypeOK
  <1>3. Sound BY DEF Sound
  <1>4. NoLoss BY <1>1 DEF NoLoss
  <1> QED BY <1>2, <1>3, <1>4 DEF LossInv

LEMMA LossNext == LossInv /\ [Next]_vars => LossInv'
  <1> SUFFICES ASSUME LossInv, [Next]_vars PROVE LossInv'
    OBVIOUS
  <1> USE WidthAssumption, SeqAssumption
  <1>0. TypeOK /\ Sound /\ NoLoss BY DEF LossInv
  <1>1. CASE Send
    <2>1. /\ sent' = sent + 1 /\ sent' \in 0 .. MaxSeq
          /\ pending' = pending \cup {sent + 1} /\ wire' = wire \cup {sent + 1}
          /\ UNCHANGED <<hasRecv, high, bits, got, twice, acks>>
      BY <1>0, <1>1 DEF Send, RegisterReliable, TypeOK, receiverVars
    <2>2. TypeOK' BY <2>1, <1>0 DEF TypeOK
    <2>3. Sound' BY <2>1, <1>0 DEF Sound, Acked
    <2>4. NoLoss' BY <2>1, <1>0 DEF NoLoss, TypeOK
    <2> QED BY <2>2, <2>3, <2>4 DEF LossInv
  <1>2. CASE SendAck
    <2>1. acks' = acks \cup {AckState} /\ UNCHANGED <<sent, pending, wire, hasRecv, high, bits, got, twice>>
      BY <1>2 DEF SendAck, senderVars, receiverVars
    <2>2. AckState \in Acks BY <1>0 DEF TypeOK, AckState, Acks
    <2>3. TypeOK' BY <2>1, <2>2, <1>0 DEF TypeOK
    <2>4. \A n \in Acked(AckState) : n \in got \/ n = 0
      <3>1. Acked(AckState) = {high} \cup {high - i : i \in bits} BY DEF Acked, AckState
      <3>2. high \in got \/ high = 0 BY <1>0 DEF Sound, TypeOK
      <3>3. \A i \in bits : high - i \in got BY <1>0 DEF Sound
      <3> QED BY <3>1, <3>2, <3>3
    <2>5. Sound' BY <2>1, <2>4, <1>0 DEF Sound, Acked
    <2>6. NoLoss' BY <2>1, <1>0 DEF NoLoss
    <2> QED BY <2>3, <2>5, <2>6 DEF LossInv
  <1>3. ASSUME NEW n \in Seqs, Retransmit(n) \/ Lose(n) PROVE LossInv'
    <2>1. wire' \subseteq 1 .. sent
      <3>1. pending \subseteq 1 .. sent /\ wire \subseteq 1 .. sent BY <1>0 DEF TypeOK
      <3>2. (n \in pending /\ wire' = wire \cup {n}) \/ wire' = wire \ {n}
        BY <1>3 DEF Retransmit, GetRetransmitCandidates, Lose
      <3>3. CASE wire' = wire \ {n} BY <3>1, <3>3, Zenon
      <3>4. CASE n \in pending /\ wire' = wire \cup {n} BY <3>1, <3>4, Zenon
      <3> QED BY <3>2, <3>3, <3>4
    <2>2. UNCHANGED <<sent, pending, hasRecv, high, bits, got, twice, acks>>
      BY <1>3 DEF Retransmit, Lose, senderVars, receiverVars
    <2> QED BY <2>1, <2>2, <1>0 DEF LossInv, TypeOK, Sound, NoLoss, Acked
  <1>4. ASSUME NEW n \in Seqs, Receive(n) PROVE LossInv'
    <2>1. n \in wire /\ wire' \subseteq wire /\ UNCHANGED <<sent, pending, acks>>
      BY <1>4 DEF Receive, senderVars
    <2>2. CASE Accepts(n) /\ UpdateRRecvState(n) /\ hasRecv' = TRUE /\ got' = got \cup {n}
               /\ twice' = IF n \in got THEN twice \cup {n} ELSE twice
      <3>1. /\ high' \in 1 .. sent /\ bits' \subseteq 1 .. W /\ high' \in got'
            /\ \A i \in bits' : high' - i \in got'
        BY <2>1, <2>2, AcceptSound
      <3>2. TypeOK' BY <3>1, <2>1, <2>2, <1>0 DEF TypeOK
      <3>3. Sound' BY <3>1, <2>1, <2>2, <1>0 DEF Sound, Acked
      <3>4. NoLoss' BY <2>1, <2>2, <1>0 DEF NoLoss
      <3> QED BY <3>2, <3>3, <3>4 DEF LossInv
    <2>3. CASE UNCHANGED receiverVars
      BY <2>1, <2>3, <1>0 DEF LossInv, TypeOK, Sound, NoLoss, Acked, receiverVars
    <2> QED BY <1>4, <2>2, <2>3 DEF Receive
  <1>5. ASSUME NEW a \in acks, HandleAck(a) PROVE LossInv'
    <2>1. /\ pending' = pending \ Acked(a) /\ acks' \subseteq acks
          /\ UNCHANGED <<sent, wire, hasRecv, high, bits, got, twice>>
      BY <1>5 DEF HandleAck, ProcessIncomingAck, receiverVars
    <2>2. TypeOK' BY <2>1, <1>0 DEF TypeOK
    <2>3. Sound' BY <2>1, <1>0 DEF Sound, Acked
    <2>4. \A n \in Acked(a) : n \in got \/ n = 0 BY <1>5, <1>0 DEF Sound
    <2>5. NoLoss' BY <2>1, <2>4, <1>0 DEF NoLoss
    <2> QED BY <2>2, <2>3, <2>5 DEF LossInv
  <1>6. ASSUME NEW a \in acks, LoseAck(a) PROVE LossInv'
    <2>1. acks' \subseteq acks /\ UNCHANGED <<sent, pending, wire, hasRecv, high, bits, got, twice>>
      BY <1>6 DEF LoseAck, senderVars, receiverVars
    <2> QED BY <2>1, <1>0 DEF LossInv, TypeOK, Sound, NoLoss, Acked
  <1>7. CASE UNCHANGED vars
    BY <1>7, <1>0 DEF LossInv, TypeOK, Sound, NoLoss, Acked, vars, senderVars, receiverVars
  <1> QED BY <1>1, <1>2, <1>3, <1>4, <1>5, <1>6, <1>7 DEF Next

\* A jump of the highest sequence number stays inside the window: the packet
\* above the old highest was not handled, so it is pending and near.
LEMMA ShortJump ==
  ASSUME Burst < W, OnceInv, NEW n \in 1 .. sent, n > high
  PROVE  n - high < W
  <1>1. /\ sent \in Nat /\ high \in 0 .. sent /\ n \in Nat /\ high \in Nat
        /\ W \in Nat /\ Burst \in Nat
    BY WidthAssumption, BurstAssumption DEF OnceInv, LossInv, TypeOK
  <1>2. high + 1 \in 1 .. sent BY <1>1
  <1>3. high + 1 \notin got BY <1>1 DEF OnceInv, Exact
  <1>4. high + 1 \in pending BY <1>2, <1>3 DEF OnceInv, LossInv, NoLoss
  <1>5. sent - (high + 1) < Burst BY <1>4 DEF OnceInv, Near
  <1> QED BY <1>1, <1>5

\* With a burst below the width, UpdateRRecvState keeps the bitfield exact.
LEMMA AcceptExact ==
  ASSUME Burst < W, OnceInv, NEW n \in wire, Accepts(n), UpdateRRecvState(n),
         got' = got \cup {n}
  PROVE  Exact' /\ n \notin got
  <1> USE WidthAssumption, SeqAssumption
  <1>0. /\ n \in 1 .. sent /\ sent \in Nat /\ high \in 0 .. sent
        /\ bits \subseteq 1 .. W /\ got \subseteq 1 .. sent
    BY DEF OnceInv, LossInv, TypeOK
  <1>1. /\ \A m \in got : m <= high
        /\ \A m \in got : m < high /\ high - m <= W => high - m \in bits
    BY DEF OnceInv, Exact
  <1>2. CASE ~ hasRecv
    <2>1. got = {} /\ high' = n BY <1>2 DEF OnceInv, LossInv, Sound, UpdateRRecvState
    <2> QED BY <2>1, <1>0 DEF Exact
  <1>3. CASE hasRecv /\ n > high
    <2>1. high' = n /\ bits' = Shifted(n - high) BY <1>3 DEF UpdateRRecvState
    <2>2. n - high < W BY <1>0, <1>3, ShortJump
    <2>3. Shifted(n - high) = ({i + (n - high) : i \in bits} \cap (1 .. W)) \cup {n - high}
      BY <2>2, <1>0 DEF Shifted
    <2>4. ASSUME NEW m \in got, n - m <= W PROVE n - m \in bits'
      <3>1. m <= high /\ m \in 1 .. sent BY <1>0, <1>1
      <3>2. CASE m = high BY <3>2, <2>1, <2>3
      <3>3. CASE m < high
        <4>1. high - m \in bits BY <3>3, <2>4, <3>1, <1>0, <1>1, <1>3
        <4>2. n - m = (high - m) + (n - high) /\ n - m \in 1 .. W
          BY <3>1, <3>3, <2>4, <1>0, <1>3
        <4> QED BY <4>1, <4>2, <2>1, <2>3
      <3> QED BY <3>1, <3>2, <3>3, <1>0
    <2>5. \A m \in got : m < n BY <1>0, <1>1, <1>3
    <2>6. n \notin got BY <2>5, <1>0
    <2> QED BY <2>1, <2>4, <2>5, <2>6, <1>0 DEF Exact
  <1>4. CASE hasRecv /\ ~ (n > high)
    <2>1. high' = high /\ bits' = bits \cup {high - n} BY <1>4 DEF UpdateRRecvState
    <2>2. n < high /\ high - n <= W /\ high - n \notin bits BY <1>4 DEF Accepts
    <2>3. n \notin got BY <2>2, <1>1
    <2> QED BY <2>1, <2>2, <2>3, <1>0, <1>1 DEF Exact
  <1> QED BY <1>2, <1>3, <1>4

LEMMA OnceNext ==
  ASSUME Burst < W
  PROVE  OnceInv /\ [Next]_vars => OnceInv'
  <1> SUFFICES ASSUME OnceInv, [Next]_vars PROVE OnceInv'
    OBVIOUS
  <1> USE WidthAssumption, SeqAssumption, BurstAssumption
  <1>0. TypeOK /\ Sound /\ NoLoss /\ Exact /\ Near /\ AtMostOnce /\ LossInv
    BY DEF OnceInv, LossInv
  <1>a. LossInv' BY <1>0, LossNext
  <1> SUFFICES Exact' /\ Near' /\ AtMostOnce'
    BY <1>a DEF OnceInv
  <1>1. CASE Send
    <2>1. /\ sent' = sent + 1 /\ pending' = pending \cup {sent + 1}
          /\ \A m \in pending : sent + 1 - m < Burst
          /\ UNCHANGED <<hasRecv, high, bits, got, twice>>
      BY <1>1 DEF Send, RegisterReliable, receiverVars
    <2>2. sent \in Nat BY <1>0 DEF TypeOK
    <2>3. Near'
      <3>1. Burst \in Nat /\ Burst > 0 OBVIOUS
      <3>2. sent + 1 - (sent + 1) < Burst BY <2>2, <3>1
      <3>3. ASSUME NEW m \in pending' PROVE sent' - m < Burst
        <4>1. CASE m \in pending
          <5>1. sent + 1 - m < Burst BY <2>1, <4>1
          <5>2. sent' = sent + 1 BY <2>1
          <5>3. m \in Int BY <4>1, <1>0 DEF TypeOK
          <5> QED BY <5>1, <5>2, <5>3, <2>2
        <4>2. CASE m = sent + 1 BY <2>1, <3>2, <4>2
        <4> QED BY <2>1, <3>3, <4>1, <4>2
      <3> QED BY <3>3 DEF Near
    <2> QED BY <2>1, <2>3, <1>0 DEF Exact, AtMostOnce
  <1>2. ASSUME NEW n \in Seqs, Receive(n) PROVE Exact' /\ Near' /\ AtMostOnce'
    <2>1. n \in wire /\ UNCHANGED <<sent, pending>>
      BY <1>2 DEF Receive, senderVars
    <2>2. Near' BY <2>1, <1>0 DEF Near
    <2>3. CASE Accepts(n) /\ UpdateRRecvState(n) /\ hasRecv' = TRUE /\ got' = got \cup {n}
               /\ twice' = IF n \in got THEN twice \cup {n} ELSE twice
      <3>1. Exact' /\ n \notin got BY <2>1, <2>3, AcceptExact
      <3> QED BY <3>1, <2>2, <2>3, <1>0 DEF AtMostOnce
    <2>4. CASE UNCHANGED receiverVars
      BY <2>2, <2>4, <1>0 DEF Exact, AtMostOnce, receiverVars
    <2> QED BY <1>2, <2>3, <2>4 DEF Receive
  <1>3. ASSUME NEW a \in acks, HandleAck(a) PROVE Exact' /\ Near' /\ AtMostOnce'
    <2>1. pending' \subseteq pending /\ UNCHANGED <<sent, high, bits, got, twice>>
      BY <1>3 DEF HandleAck, ProcessIncomingAck, receiverVars
    <2> QED BY <2>1, <1>0 DEF Exact, Near, AtMostOnce
  <1>4. CASE UNCHANGED <<sent, pending, high, bits, got, twice>>
    BY <1>4, <1>0 DEF Exact, Near, AtMostOnce
  <1>5. SendAck \/ (\E n \in Seqs : Retransmit(n) \/ Lose(n)) \/ (\E a \in acks : LoseAck(a))
          \/ UNCHANGED vars
        => UNCHANGED <<sent, pending, high, bits, got, twice>>
    BY DEF SendAck, Retransmit, Lose, LoseAck, vars, senderVars, receiverVars
  <1> QED BY <1>1, <1>2, <1>3, <1>4, <1>5 DEF Next

\* The channel stays well typed whatever the network does (MakeD2CPacketImpl,
\* UpdateRRecvState, ProcessIncomingAck).
THEOREM TypeCorrect == Spec => []TypeOK
  <1>1. LossInv => TypeOK BY DEF LossInv
  <1> QED BY <1>1, LossInit, LossNext, PTL DEF Spec

\* No reliable packet is lost: ProcessIncomingAck erases a packet from
\* _pendingReliable only after the peer handled it.
THEOREM ReliableNoLoss == Spec => []NoLoss
  <1>1. LossInv => NoLoss BY DEF LossInv
  <1> QED BY <1>1, LossInit, LossNext, PTL DEF Spec

\* No reliable packet is handled twice while fewer packets than the bitfield
\* is wide are in flight (UpdateRRecvState): the bound that a jump of W
\* exactly needs to be harmless.
THEOREM ReliableAtMostOnce ==
  ASSUME Burst < W
  PROVE  Spec => []AtMostOnce
  <1>1. Init => OnceInv
    <2> SUFFICES ASSUME Init PROVE OnceInv
      OBVIOUS
    <2>1. LossInv BY LossInit
    <2>2. Exact /\ Near /\ AtMostOnce BY DEF Init, Exact, Near, AtMostOnce
    <2> QED BY <2>1, <2>2 DEF OnceInv
  <1>2. OnceInv /\ [Next]_vars => OnceInv' BY OnceNext
  <1>3. OnceInv => AtMostOnce BY DEF OnceInv
  <1> QED BY <1>1, <1>2, <1>3, PTL DEF Spec
=============================================================================
