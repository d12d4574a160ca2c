-------------------------- MODULE RlcAmSafetyProofs --------------------------
(* BearerInv is an invariant of the AM bearer while sequence numbers do not  *)
(* wrap, and what follows from it.                                           *)
EXTENDS RlcAmProofs

\* SegmentsInv is about the transmitter's history alone.
LEMMA SegmentsFrame ==
  ASSUME SegmentsInv, UNCHANGED <<sent, submitted>>
  PROVE  SegmentsInv'
BY DEF SegmentsInv, IsSegment, SduOf, PieceOf, IsLastPiece

\* ReassemblyInv is about the histories, the window edge and the partial SDU.
LEMMA ReassemblyFrame ==
  ASSUME ReassemblyInv,
         UNCHANGED <<sent, submitted, collecting, partial, delivered, vr_next>>
  PROVE  ReassemblyInv'
BY DEF ReassemblyInv, Reassembled, PartialUpTo, DeliveredUpTo, Done, SduOf,
       PieceOf, IsLastPiece

\* A fresh bearer satisfies the invariant.
LEMMA InitBearerInv == Init => BearerInv
<1> SUFFICES ASSUME Init  PROVE BearerInv
  OBVIOUS
<1>1. SnNamesPdu
  BY EmptyTypes DEF Init, SnNamesPdu
<1>2. WindowInv
  BY DEF Init, WindowInv, AwaitedPduKept
<1>3. SegmentsInv
  BY EmptyTypes DEF Init, SegmentsInv
<1>4. Done(0) = 0
  BY DEF Done
<1>5. ReassemblyInv
  BY <1>4, EmptyTypes DEF Init, ReassemblyInv, Reassembled, PartialUpTo, DeliveredUpTo
<1> QED  BY <1>1, <1>2, <1>3, <1>5 DEF BearerInv

\* So does one whose two ends AmTx::reset and AmRx::reset renewed.
LEMMA ResetBearerInv ==
  ASSUME Reset  PROVE BearerInv'
<1> USE DEF Reset, TxReset, RxReset
<1>1. SnNamesPdu'
  BY EmptyTypes DEF SnNamesPdu
<1>2. WindowInv'
  BY DEF WindowInv, AwaitedPduKept
<1>3. SegmentsInv'
  BY EmptyTypes DEF SegmentsInv
<1>5. ReassemblyInv'
  BY EmptyTypes DEF ReassemblyInv, Reassembled, PartialUpTo, DeliveredUpTo, Done
<1> QED  BY <1>1, <1>2, <1>3, <1>5 DEF BearerInv

\* A probe (AmTx::tick) puts only PDUs on the wire that their SN still names.
LEMMA TxTickBearerInv ==
  ASSUME TypeOK, BearerInv, TxTick  PROVE BearerInv'
<1> USE DEF BearerInv
<1>1. UNCHANGED <<sent, submitted, rxVars, fb, next_sn, tx_buffer>>
  BY DEF TxTick
<1>2. ASSUME NEW p \in Probe  PROVE p.sn < Len(sent) /\ p = sent[p.sn + 1]
  <2>1. PICK sn \in DOMAIN tx_buffer : p = tx_buffer[sn]
    BY DEF Probe, Lowest
  <2>2. sn \in Nat /\ sn < Len(sent) /\ p = sent[sn + 1]
    BY <2>1 DEF SnNamesPdu, TypeOK, SN
  <2>3. p.sn = sn
    BY <2>2 DEF SnNamesPdu, TypeOK
  <2> QED  BY <2>2, <2>3
<1>3. wire' \subseteq wire \cup Probe
  BY DEF TxTick
<1>4. SnNamesPdu'
  BY <1>1, <1>2, <1>3 DEF SnNamesPdu, rxVars
<1>5. WindowInv'
  BY <1>1 DEF WindowInv, AwaitedPduKept, rxVars
<1> QED  BY <1>1, <1>4, <1>5, SegmentsFrame, ReassemblyFrame DEF rxVars

\* AmTx::on_status releases only what the receiver passed, and resends by SN.
LEMMA RecvStatusBearerInv ==
  ASSUME TypeOK, BearerInv, NEW s \in fb, RecvStatus(s)  PROVE BearerInv'
<1> USE DEF BearerInv
<1> DEFINE kept == {sn \in DOMAIN tx_buffer : sn >= s.ack}
           again == Lowest(Lowest(s.nacks, s.count) \cap kept, ProbeBatch)
<1>1. UNCHANGED <<sent, submitted, rxVars, next_sn>> /\ fb' \subseteq fb
  BY DEF RecvStatus, OnStatus
<1>2. DOMAIN tx_buffer' = kept /\ \A sn \in kept : tx_buffer'[sn] = tx_buffer[sn]
  BY DEF RecvStatus, OnStatus, Restrict
<1>3. ASSUME NEW p \in wire', p \notin wire
      PROVE  p.sn < Len(sent) /\ p = sent[p.sn + 1]
  <2>1. p \in {tx_buffer[sn] : sn \in again}
    BY <1>3 DEF RecvStatus, OnStatus
  <2>2. PICK sn \in DOMAIN tx_buffer : p = tx_buffer[sn]
    BY <2>1 DEF Lowest
  <2>3. sn \in Nat /\ sn < Len(sent) /\ p = sent[sn + 1]
    BY <2>2 DEF SnNamesPdu, TypeOK, SN
  <2>4. p.sn = sn
    BY <2>3 DEF SnNamesPdu, TypeOK
  <2> QED  BY <2>3, <2>4
<1>4. SnNamesPdu'
  BY <1>1, <1>2, <1>3 DEF SnNamesPdu, rxVars
<1>5. AwaitedPduKept'
  <2> SUFFICES ASSUME NEW sn \in vr_next .. next_sn - 1  PROVE sn \in kept
    BY <1>1, <1>2 DEF AwaitedPduKept, rxVars
  <2>1. sn \in DOMAIN tx_buffer /\ s.ack <= vr_next
    BY DEF WindowInv, AwaitedPduKept
  <2>2. s.ack \in Nat /\ vr_next \in Nat /\ next_sn \in Nat
    BY DEF TypeOK, Status, SN
  <2> QED  BY <2>1, <2>2
<1>6. WindowInv'
  BY <1>1, <1>5 DEF WindowInv, rxVars
<1> QED  BY <1>1, <1>4, <1>6, SegmentsFrame, ReassemblyFrame DEF rxVars

\* The STATUS a step sends acknowledges up to the window edge it left.
LEMMA ReportAck ==
  ASSUME NEW needed, Report(needed), NEW s \in fb', s \notin fb
  PROVE  s.ack = vr_next'
BY DEF Report, BuildStatus

\* AmRx::rx: each of its four outcomes keeps the invariant.
LEMMA RecvPduBearerInv ==
  ASSUME NoWrap, TypeOK, BearerInv, NEW p \in wire, RecvPdu(p)  PROVE BearerInv'
<1> USE DEF BearerInv
<1>1. UNCHANGED txVars /\ wire' \subseteq wire
  BY DEF RecvPdu
<1>2. /\ p.sn \in SN /\ p.sn \in Nat /\ p.sn < Len(sent) /\ p = sent[p.sn + 1]
      /\ p \in PDU
  BY DEF TypeOK, PDU, SN, SnNamesPdu
<1>3. /\ vr_next \in Nat /\ next_sn = Len(sent) /\ Len(sent) \in Nat
      /\ Len(sent) < SnMod /\ SnMod \in Nat \ {0} /\ vr_next <= Len(sent)
      /\ holes \subseteq Nat
  BY AmConstants DEF TypeOK, SN, SnNamesPdu, NoWrap, WindowInv
<1>4. SegmentsInv'
  BY <1>1, SegmentsFrame DEF txVars
<1>5. CASE RxDuplicate(p)
  <2>1. SnNamesPdu'
    BY <1>1, <1>5 DEF RxDuplicate, txVars, rxVars, SnNamesPdu
  <2>2. WindowInv'
    BY <1>1, <1>5 DEF RxDuplicate, txVars, rxVars, WindowInv, AwaitedPduKept
  <2> QED  BY <1>1, <1>4, <1>5, <2>1, <2>2, ReassemblyFrame DEF RxDuplicate, txVars, rxVars
<1>6. CASE RxStale(p)
  <2>1. SnNamesPdu'
    BY <1>1, <1>6 DEF RxStale, txVars, SnNamesPdu
  <2>2. WindowInv'
    BY <1>1, <1>6 DEF RxStale, txVars, WindowInv, AwaitedPduKept
  <2> QED  BY <1>1, <1>4, <1>6, <2>1, <2>2, ReassemblyFrame DEF RxStale, txVars
<1>7. CASE RxAhead(p)
  <2>1. /\ p.sn > vr_next
        /\ UNCHANGED <<vr_next, collecting, partial, delivered>>
    BY <1>7 DEF RxAhead
  <2>2. ASSUME NEW sn \in DOMAIN reorder'
        PROVE  sn < Len(sent) /\ reorder'[sn] = sent[sn + 1]
    <3>1. CASE reorder' = reorder
      BY <3>1 DEF SnNamesPdu
    <3>2. CASE reorder' = Put(reorder, p.sn, p)
      BY <3>2, <1>2 DEF SnNamesPdu, Put
    <3> QED  BY <3>1, <3>2, <1>7 DEF RxAhead
  <2>3. SnNamesPdu'
    BY <1>1, <2>2 DEF SnNamesPdu, txVars
  <2>4. ASSUME NEW h \in holes'  PROVE vr_next <= h /\ h < next_sn
    <3>1. h \in holes \/ h \in vr_next .. p.sn - 1
      BY <1>7 DEF RxAhead, Lowest
    <3>2. CASE h \in holes
      BY <3>2 DEF WindowInv
    <3>3. CASE h \in vr_next .. p.sn - 1
      BY <3>3, <1>2, <1>3
    <3> QED  BY <3>1, <3>2, <3>3
  <2>5. ASSUME NEW s \in fb'  PROVE s.ack <= vr_next
    <3>1. CASE s \in fb
      BY <3>1 DEF WindowInv
    <3>2. CASE s \notin fb
      BY <3>2, <1>3, <1>7, <2>1, ReportAck DEF RxAhead
    <3> QED  BY <3>1, <3>2
  <2>6. WindowInv'
    BY <1>1, <2>1, <2>4, <2>5 DEF WindowInv, AwaitedPduKept, txVars
  <2> QED  BY <1>1, <1>4, <2>1, <2>3, <2>6, ReassemblyFrame DEF txVars
<1>8. CASE RxInOrder(p)
  <2> DEFINE v == vr_next + 1
             r == [collecting |-> collecting, partial |-> partial, out |-> delivered]
  <2>1. p.sn = vr_next
    BY <1>8 DEF RxInOrder
  <2>2. PICK k \in 0 .. SnMod :
          /\ Accept(r, <<p>>, (p.sn + 1) % SnMod, k)
          /\ holes' = holes \ {(p.sn + i) % SnMod : i \in 0 .. k}
    BY <1>8 DEF RxInOrder
  <2>3. v \in 0 .. SnMod - 1 /\ v <= Len(sent) /\ v \in Nat
    BY <1>2, <1>3, <2>1
  <2>4. (p.sn + 1) % SnMod = v
    BY <1>3, <2>1, <2>3, ModSmall
  <2>5. /\ <<p>> \in Seq(PDU) /\ Len(<<p>>) = 1
        /\ RunFrom(<<p>>, vr_next)
    BY <1>2, <2>1 DEF RunFrom
  <2>6. Reassembled(r, vr_next) /\ r \in Reassembly
    BY DEF ReassemblyInv, Reassembly, TypeOK
  <2>7. /\ v + k <= Len(sent) /\ vr_next' = v + k
        /\ \A i \in 0 .. k - 1 : (v + i) % SnMod = v + i
        /\ DOMAIN reorder' = DOMAIN reorder \ (v .. v + k - 1)
        /\ \A sn \in DOMAIN reorder' : reorder'[sn] = reorder[sn]
        /\ Reassembled([collecting |-> collecting', partial |-> partial',
                        out |-> delivered'], v + k)
    <3>1. v = vr_next + 1
      BY DEF v
    <3>2. Accept(r, <<p>>, v, k)
      BY <2>2, <2>4
    <3> HIDE DEF v, r
    <3>3. DrainedTo(v, k)
      BY <1>3, <2>3, <2>5, <2>6, <3>1, <3>2, AcceptRun
    <3> QED  BY <3>3 DEF DrainedTo
  <2>8. k \in Nat
    BY <1>3
  <2>9. SnNamesPdu'
    BY <1>1, <2>7 DEF SnNamesPdu, txVars
  <2>10. ASSUME NEW h \in holes'  PROVE vr_next' <= h /\ h < next_sn
    <3>1. h \in holes /\ vr_next <= h /\ h < next_sn /\ h \in Nat
      BY <2>2, <1>3 DEF WindowInv
    <3>2. ASSUME h < vr_next'  PROVE FALSE
      <4> DEFINE i == h - vr_next
      <4>1. i \in 0 .. k /\ p.sn + i = h /\ h \in 0 .. SnMod - 1
        BY <3>1, <3>2, <2>1, <2>7, <2>8, <1>3
      <4>2. (p.sn + i) % SnMod = h
        BY <4>1, <1>3, ModSmall
      <4> QED  BY <4>1, <4>2, <2>2
    <3> QED  BY <3>1, <3>2, <2>7, <2>8, <1>3
  <2>11. vr_next' \in Nat /\ vr_next <= vr_next'
    BY <1>3, <2>7, <2>8
  <2>12. ASSUME NEW s \in fb'  PROVE s.ack <= vr_next'
    <3>1. CASE s \in fb
      <4>1. s.ack <= vr_next /\ s.ack \in Nat
        BY <3>1 DEF WindowInv, TypeOK, Status, SN
      <4> QED  BY <4>1, <2>11, <1>3
    <3>2. CASE s \notin fb
      BY <3>2, <1>8, <2>11, ReportAck DEF RxInOrder
    <3> QED  BY <3>1, <3>2
  <2>13. AwaitedPduKept'
    BY <1>1, <1>3, <2>11 DEF WindowInv, AwaitedPduKept, txVars
  <2>14. WindowInv'
    BY <1>1, <1>3, <2>7, <2>10, <2>12, <2>13, SMTT(30) DEF WindowInv, txVars
  <2>15. ReassemblyInv'
    <3> HIDE DEF v
    <3> QED  BY <1>1, <2>7 DEF ReassemblyInv, Reassembled, PartialUpTo,
             DeliveredUpTo, Done, SduOf, PieceOf, IsLastPiece, txVars
  <2> QED  BY <1>4, <2>9, <2>14, <2>15
<1> QED  BY <1>5, <1>6, <1>7, <1>8 DEF RecvPdu, Rx

\* AmRx::tick skips to an SN the transmitter used, and restarts reassembly there.
LEMMA RxTickBearerInv ==
  ASSUME NoWrap, TypeOK, BearerInv, RxTick  PROVE BearerInv'
<1> USE DEF BearerInv
<1>1. UNCHANGED txVars /\ UNCHANGED wire
  BY DEF RxTick
<1>3. /\ vr_next \in Nat /\ next_sn = Len(sent) /\ Len(sent) \in Nat
      /\ Len(sent) < SnMod /\ SnMod \in Nat \ {0} /\ vr_next <= Len(sent)
      /\ holes \subseteq Nat
  BY AmConstants DEF TypeOK, SN, SnNamesPdu, NoWrap, WindowInv
<1>4. SegmentsInv'
  BY <1>1, SegmentsFrame DEF txVars
<1>5. CASE RxTickIdle
  <2>1. SnNamesPdu'
    BY <1>1, <1>5 DEF RxTickIdle, txVars, SnNamesPdu
  <2>2. WindowInv'
    BY <1>1, <1>5 DEF RxTickIdle, txVars, WindowInv, AwaitedPduKept
  <2> QED  BY <1>1, <1>4, <1>5, <2>1, <2>2, ReassemblyFrame DEF RxTickIdle, txVars
<1>6. CASE RxTickSkip
  <2> DEFINE r == [collecting |-> FALSE, partial |-> <<>>, out |-> delivered]
  <2>1. PICK h \in holes, k \in 0 .. SnMod : Accept(r, <<>>, (h + 1) % SnMod, k)
    BY <1>6 DEF RxTickSkip
  <2> DEFINE v == h + 1
  <2>2. vr_next <= h /\ h < Len(sent) /\ h \in Nat /\ TReorder # 0
    BY <1>3, <1>6, AmConstants DEF WindowInv, RxTickSkip
  <2>3. v \in 0 .. SnMod - 1 /\ v <= Len(sent) /\ v \in Nat
    BY <1>3, <2>2
  <2>4. (h + 1) % SnMod = v
    BY <1>3, <2>3, ModSmall
  <2>5. DeliveredUpTo(delivered, v)
    <3>1. DeliveredUpTo(delivered, vr_next) /\ delivered \in Seq(Seq(Pieces))
      BY DEF ReassemblyInv, Reassembled, TypeOK
    <3>2. vr_next \in 0 .. Len(sent) /\ v \in vr_next .. Len(sent)
      BY <1>3, <2>2
    <3>3. Done(vr_next) \in Nat /\ Done(v) \in Nat /\ Done(vr_next) <= Done(v)
      BY <3>2, DoneMonotone
    <3> HIDE DEF v
    <3> QED  BY <3>1, <3>3, <2>2, DeliverNone
  <2>6. Reassembled(r, v) /\ r \in Reassembly
    <3> HIDE DEF v
    <3> QED  BY <2>2, <2>5, SMTT(30) DEF Reassembled, PartialUpTo, Reassembly, TypeOK
  <2>7. /\ v + k <= Len(sent) /\ vr_next' = v + k
        /\ DOMAIN reorder' = DOMAIN reorder \ (v .. v + k - 1)
        /\ \A sn \in DOMAIN reorder' : reorder'[sn] = reorder[sn]
        /\ Reassembled([collecting |-> collecting', partial |-> partial',
                        out |-> delivered'], v + k)
    <3>1. <<>> \in Seq(PDU) /\ v = v + Len(<<>>)
      BY <2>3
    <3>2. Accept(r, <<>>, v, k)
      BY <2>1, <2>4
    <3>3. RunFrom(<<>>, v)
      BY DEF RunFrom
    <3> HIDE DEF v, r
    <3>4. DrainedTo(v, k)
      BY <2>3, <2>6, <3>1, <3>2, <3>3, AcceptRun
    <3> QED  BY <3>4 DEF DrainedTo
  <2>8. k \in Nat /\ vr_next' \in Nat /\ vr_next <= vr_next'
    BY <1>3, <2>2, <2>7
  <2>9. SnNamesPdu'
    BY <1>1, <2>7 DEF SnNamesPdu, txVars
  <2>10. ASSUME NEW s \in fb'  PROVE s.ack <= vr_next'
    <3>1. CASE s \in fb
      <4>1. s.ack <= vr_next /\ s.ack \in Nat
        BY <3>1 DEF WindowInv, TypeOK, Status, SN
      <4> QED  BY <4>1, <2>8, <1>3
    <3>2. CASE s \notin fb
      <4>1. s.ack = vr_next'
        BY <3>2, <1>6 DEF RxTickSkip, Report, BuildStatus
      <4> QED  BY <4>1, <2>8
    <3> QED  BY <3>1, <3>2
  <2>11. AwaitedPduKept'
    BY <1>1, <1>3, <2>8 DEF WindowInv, AwaitedPduKept, txVars
  <2>12. WindowInv'
    BY <1>1, <1>3, <1>6, <2>7, <2>10, <2>11, SMTT(30) DEF WindowInv, txVars, RxTickSkip
  <2>13. ReassemblyInv'
    <3> HIDE DEF v
    <3> QED  BY <1>1, <2>7 DEF ReassemblyInv, Reassembled, PartialUpTo,
             DeliveredUpTo, Done, SduOf, PieceOf, IsLastPiece, txVars
  <2> QED  BY <1>4, <2>9, <2>12, <2>13
<1> QED  BY <1>5, <1>6 DEF RxTick

\* AmTx::tx appends the pieces of the next SDU under the next free SNs.
LEMMA TxBearerInv ==
  ASSUME NoWrap, TypeOK, BearerInv,
         NEW n \in 1 .. MaxSegs, NEW force \in BOOLEAN, Tx(n, force)
  PROVE  BearerInv'
<1>0. SUFFICES ASSUME NEW L \in Nat, L = Len(sent),
                      NEW k \in Nat, k = Len(submitted) + 1
               PROVE  BearerInv'
  BY DEF TypeOK
<1> DEFINE pdus == [i \in 1 .. n |-> Segment(k, n, i)]
           sdu == [i \in 1 .. n |-> <<k, i>>]
<1>1. /\ n \in Nat \ {0} /\ next_sn = L /\ L + n < SnMod /\ k \in Nat \ {0}
      /\ SnMod \in Nat \ {0} /\ vr_next \in 0 .. L /\ sent \in Seq(PDU)
      /\ submitted \in Seq(Seq(Pieces)) /\ Len(submitted) = k - 1
  <2>1. sent \in Seq(PDU) /\ submitted \in Seq(Seq(Pieces)) /\ Len(submitted) \in Nat
    BY DEF TypeOK
  <2>2. next_sn = L /\ vr_next \in 0 .. L
    BY <1>0 DEF TypeOK, SN, BearerInv, SnNamesPdu, WindowInv
  <2>3. L + n <= MaxPdus /\ MaxPdus < SnMod
    BY <1>0 DEF Tx, NoWrap
  <2> QED  BY <2>1, <2>2, <2>3, <1>0, AmConstants
<1>2. ASSUME NEW i \in 1 .. n
      PROVE  /\ Segment(k, n, i).sn = L + i - 1 /\ Segment(k, n, i).data = <<k, i>>
             /\ Segment(k, n, i).fi = IF i = 1 THEN IF i = n THEN "complete" ELSE "first"
                                      ELSE IF i = n THEN "last" ELSE "middle"
  <2>1. L + i - 1 \in 0 .. SnMod - 1
    BY <1>1
  <2>2. (L + i - 1) % SnMod = L + i - 1
    BY <2>1, <1>1, ModSmall
  <2>3. Segment(k, n, i).sn = L + i - 1
    BY <2>2, <1>1 DEF Segment
  <2>4. Segment(k, n, i).data = <<k, i>>
    BY DEF Segment
  <2>5. Segment(k, n, i).fi = IF i = 1 THEN IF i = n THEN "complete" ELSE "first"
                              ELSE IF i = n THEN "last" ELSE "middle"
    BY <1>1 DEF Segment
  <2> QED  BY <2>3, <2>4, <2>5
<1>3. pdus \in Seq(Range(pdus)) /\ Len(pdus) = n
  <2>1. \A i \in 1 .. n : Segment(k, n, i) \in Range(pdus)
    BY DEF Range
  <2> DEFINE S == Range(pdus)
  <2> HIDE DEF S
  <2>2. \A i \in 1 .. n : Segment(k, n, i) \in S
    BY <2>1 DEF S
  <2>3. pdus \in Seq(S) /\ Len(pdus) = n
    BY <2>2, <1>1
  <2> QED  BY <2>3 DEF S
<1>4. /\ sent' = sent \o pdus /\ submitted' = Append(submitted, sdu)
      /\ next_sn' = (next_sn + n) % SnMod /\ wire' = wire \cup Range(pdus)
      /\ UNCHANGED <<rxVars, fb>>
  BY <1>0 DEF Tx
<1>5. next_sn' = L + n
  <2>1. L + n \in 0 .. SnMod - 1
    BY <1>1
  <2>2. (L + n) % SnMod = L + n
    BY <2>1, <1>1, ModSmall
  <2> QED  BY <2>2, <1>1, <1>4
<1>6. /\ Len(sent') = L + n
      /\ \A j \in 1 .. L : sent'[j] = sent[j]
      /\ \A i \in 1 .. n : sent'[L + i] = Segment(k, n, i)
  <2>1. \A i \in 1 .. n : pdus[i] = Segment(k, n, i)
    OBVIOUS
  <2> HIDE DEF pdus
  <2>2. Len(sent') = L + n
    <3> DEFINE S == PDU \cup Range(pdus)
    <3>1. sent \in Seq(S) /\ pdus \in Seq(S)
      BY <1>1, <1>3
    <3> HIDE DEF S
    <3>2. Len(sent \o pdus) = Len(sent) + Len(pdus)
      BY <3>1
    <3> QED  BY <3>2, <1>0, <1>3, <1>4
  <2>3. ASSUME NEW j \in 1 .. L  PROVE sent'[j] = sent[j]
    BY <1>0, <1>1, <1>3, <1>4
  <2>4. ASSUME NEW i \in 1 .. n  PROVE sent'[L + i] = pdus[i]
    BY <1>0, <1>1, <1>3, <1>4
  <2> QED  BY <2>1, <2>2, <2>3, <2>4
<1>7. sdu \in Seq(Nat \X Nat) /\ Len(sdu) = n /\ \A x \in 1 .. n : sdu[x] = <<k, x>>
  BY <1>1
<1> HIDE DEF sdu
<1>8. /\ Len(submitted') = k /\ submitted'[k] = sdu /\ sdu # <<>>
      /\ \A x \in 1 .. k - 1 : submitted'[x] = submitted[x]
  <2>1. sdu # <<>>
    BY <1>1, <1>7
  <2> QED  BY <2>1, <1>1, <1>4
<1>a. ASSUME NEW i \in 1 .. n
      PROVE  sent'[L + i] = pdus[i] /\ pdus[i] \in Range(pdus)
  BY <1>6 DEF Range
<1>9. ASSUME NEW p \in Range(pdus)
      PROVE  \E i \in 1 .. n : p = sent'[L + i] /\ p.sn = L + i - 1
  <2>1. PICK i \in 1 .. n : p = pdus[i]
    BY DEF Range
  <2> QED  BY <2>1, <1>2, <1>a, <1>6
<1>10. ASSUME NEW i \in 1 .. n
       PROVE  /\ sent'[L + i] \in Range(pdus) /\ sent'[L + i].sn = L + i - 1
              /\ sent'[L + i].data = <<k, i>>
  BY <1>2, <1>6, <1>a
<1> HIDE DEF pdus
<1>11. ASSUME NEW j \in 1 .. Len(sent')
       PROVE  j \in 1 .. L \/ \E i \in 1 .. n : j = L + i
  <2>1. CASE j > L
    <3>1. j - L \in 1 .. n /\ j = L + (j - L)
      BY <2>1, <1>1, <1>6, SMTT(30)
    <3> QED  BY <3>1
  <2>2. CASE j <= L
    BY <2>2, <1>1, <1>6
  <2>3. j \in Int
    BY <1>6
  <2> QED  BY <2>1, <2>2, <2>3
<1>12. SnNamesPdu'
  <2>1. ASSUME NEW j \in 1 .. Len(sent')  PROVE sent'[j].sn = j - 1
    <3>1. CASE j \in 1 .. L
      BY <3>1, <1>0, <1>6 DEF BearerInv, SnNamesPdu
    <3>2. ASSUME NEW i \in 1 .. n, j = L + i  PROVE sent'[j].sn = j - 1
      <4>1. sent'[L + i].sn = L + i - 1
        BY <1>10
      <4>2. L + i - 1 = j - 1
        BY <3>2, <1>1
      <4> QED  BY <4>1, <4>2, <3>2
    <3> QED  BY <3>1, <3>2, <1>11
  <2>2. ASSUME NEW sn \in Nat, sn < L  PROVE sn < Len(sent') /\ sent'[sn + 1] = sent[sn + 1]
    BY <1>1, <1>6, <2>2
  <2>3. ASSUME NEW p \in Range(pdus)  PROVE p.sn < Len(sent') /\ p = sent'[p.sn + 1]
    BY <1>1, <1>6, <1>9
  <2>4. ASSUME NEW p \in wire'  PROVE p.sn < Len(sent') /\ p = sent'[p.sn + 1]
    <3>1. CASE p \in wire
      <4>1. p.sn \in Nat
        BY <3>1 DEF TypeOK, PDU, SN
      <4>2. p.sn < L /\ p = sent[p.sn + 1]
        BY <1>0, <3>1 DEF BearerInv, SnNamesPdu
      <4> QED  BY <4>1, <4>2, <2>2
    <3> QED  BY <3>1, <2>3, <1>4
  <2>5. ASSUME NEW sn \in DOMAIN tx_buffer'
        PROVE  sn < Len(sent') /\ tx_buffer'[sn] = sent'[sn + 1]
    <3>1. tx_buffer' = [x \in DOMAIN tx_buffer \cup {p.sn : p \in Range(pdus)} |->
                         IF \E p \in Range(pdus) : p.sn = x
                         THEN CHOOSE p \in Range(pdus) : p.sn = x
                         ELSE tx_buffer[x]]
      BY <1>0 DEF Tx, pdus
    <3>2. CASE \E p \in Range(pdus) : p.sn = sn
      <4>1. tx_buffer'[sn] \in Range(pdus) /\ tx_buffer'[sn].sn = sn
        BY <3>1, <3>2
      <4> QED  BY <4>1, <2>3
    <3>3. CASE ~ \E p \in Range(pdus) : p.sn = sn
      <4>1. sn \in DOMAIN tx_buffer /\ tx_buffer'[sn] = tx_buffer[sn]
        BY <3>1, <3>3
      <4>2. sn \in Nat /\ sn < L /\ tx_buffer[sn] = sent[sn + 1]
        BY <1>0, <4>1 DEF TypeOK, SN, BearerInv, SnNamesPdu
      <4> QED  BY <4>1, <4>2, <2>2
    <3> QED  BY <3>2, <3>3
  <2>6. ASSUME NEW sn \in DOMAIN reorder
        PROVE  sn < Len(sent') /\ reorder[sn] = sent'[sn + 1]
    <3>1. sn \in Nat /\ sn < L /\ reorder[sn] = sent[sn + 1]
      BY <1>0 DEF TypeOK, SN, BearerInv, SnNamesPdu
    <3> QED  BY <3>1, <2>2
  <2>7. next_sn' = Len(sent') /\ reorder' = reorder
    BY <1>4, <1>5, <1>6 DEF rxVars
  <2> QED  BY <2>1, <2>4, <2>5, <2>6, <2>7 DEF SnNamesPdu
<1>13. WindowInv'
  <2>1. UNCHANGED <<vr_next, holes, fb>> /\ next_sn' = next_sn + n
    BY <1>1, <1>4, <1>5 DEF rxVars
  <2>2. vr_next <= next_sn' /\ \A h \in holes : h \in Nat /\ vr_next <= h /\ h < next_sn'
    BY <1>1, <2>1 DEF BearerInv, WindowInv, TypeOK, SN
  <2>3. ASSUME NEW sn \in vr_next .. next_sn' - 1  PROVE sn \in DOMAIN tx_buffer'
    <3>1. DOMAIN tx_buffer' = DOMAIN tx_buffer \cup {p.sn : p \in Range(pdus)}
      BY <1>0 DEF Tx, pdus
    <3>2. CASE sn < L
      <4>1. sn \in vr_next .. next_sn - 1
        BY <3>2, <1>1
      <4> QED  BY <4>1, <3>1 DEF BearerInv, WindowInv, AwaitedPduKept
    <3>3. CASE sn >= L
      <4> DEFINE i == sn - L + 1
      <4>1. i \in 1 .. n /\ L + i - 1 = sn
        BY <3>3, <1>1, <2>1
      <4>2. sent'[L + i] \in Range(pdus) /\ sent'[L + i].sn = sn
        BY <4>1, <1>10
      <4> QED  BY <4>2, <3>1
    <3> QED  BY <3>2, <3>3, <1>1, <2>1
  <2> QED  BY <2>1, <2>2, <2>3 DEF BearerInv, WindowInv, AwaitedPduKept
<1>14. ASSUME NEW j \in 1 .. L
       PROVE  /\ SduOf(sent[j]) \in 1 .. k - 1
              /\ submitted'[SduOf(sent[j])] = submitted[SduOf(sent[j])]
              /\ sent'[j] = sent[j]
              /\ IsLastPiece(sent[j])' <=> IsLastPiece(sent[j])
  <2>1. SduOf(sent[j]) \in 1 .. k - 1
    BY <1>0, <1>1 DEF BearerInv, SegmentsInv, IsSegment
  <2>2. sent'[j] = sent[j]
    BY <1>1, <1>6
  <2> DEFINE x == SduOf(sent[j])
  <2>3. submitted'[x] = submitted[x]
    <3> HIDE DEF x
    <3>1. x \in 1 .. k - 1
      BY <2>1 DEF x
    <3> QED  BY <3>1, <1>8
  <2>4. IsLastPiece(sent[j])' <=> IsLastPiece(sent[j])
    BY <2>2, <2>3 DEF IsLastPiece, SduOf, PieceOf
  <2> QED  BY <2>1, <2>2, <2>3, <2>4
<1>15. ASSUME NEW j \in 1 .. L  PROVE IsSegment(j)'
  <2>1. IsSegment(j)
    BY <1>0 DEF BearerInv, SegmentsInv
  <2>2. \A m \in 1 .. j - 1 : m \in 1 .. L /\ sent'[m] = sent[m]
    BY <1>1, <1>6
  <2>3. j > 1 => /\ j - 1 \in 1 .. L /\ sent'[j - 1] = sent[j - 1]
                 /\ (IsLastPiece(sent[j - 1])' <=> IsLastPiece(sent[j - 1]))
    <3>1. j > 1 => j - 1 \in 1 .. L
      BY <1>1
    <3> QED  BY <3>1, <1>14
  <2>4. /\ SduOf(sent[j]) \in 1 .. Len(submitted')
        /\ PieceOf(sent[j]) \in 1 .. Len(submitted'[SduOf(sent[j])])
    <3>1. PieceOf(sent[j]) \in 1 .. Len(submitted[SduOf(sent[j])])
      BY <2>1 DEF IsSegment
    <3>2. SduOf(sent[j]) \in 1 .. k
      BY <1>1, <1>14
    <3> QED  BY <3>1, <3>2, <1>8, <1>14, SMTT(30)
  <2>5. IsLastPiece(sent[j])' <=> IsLastPiece(sent[j])
    BY <1>14
  <2>6. sent'[j] = sent[j]
    BY <1>14
  <2> DEFINE p == sent[j]
  <2>7. p.fi = IF PieceOf(p) = 1
               THEN IF IsLastPiece(sent[j])' THEN "complete" ELSE "first"
               ELSE IF IsLastPiece(sent[j])' THEN "last" ELSE "middle"
    BY <2>1, <2>5 DEF IsSegment
  <2>8. PieceOf(p) > 1 => j > 1 /\ sent'[j - 1].data = <<SduOf(p), PieceOf(p) - 1>>
    <3>1. PieceOf(p) > 1 => j > 1 /\ sent[j - 1].data = <<SduOf(p), PieceOf(p) - 1>>
      BY <2>1, ZenonT(40) DEF IsSegment
    <3> HIDE DEF p
    <3> QED  BY <3>1, <2>3, Zenon
  <2>9. PieceOf(p) = 1 => \/ j = 1 /\ SduOf(p) = 1
                          \/ /\ j > 1 /\ SduOf(sent'[j - 1]) = SduOf(p) - 1
                             /\ IsLastPiece(sent[j - 1])'
    <3>1. PieceOf(p) = 1 => \/ j = 1 /\ SduOf(p) = 1
                            \/ /\ j > 1 /\ SduOf(sent[j - 1]) = SduOf(p) - 1
                               /\ IsLastPiece(sent[j - 1])
      BY <2>1, ZenonT(40) DEF IsSegment
    <3> HIDE DEF p
    <3> QED  BY <3>1, <2>3, Zenon
  <2>10. \A m \in 1 .. j - 1 :
           \/ SduOf(sent'[m]) < SduOf(p)
           \/ SduOf(sent'[m]) = SduOf(p) /\ PieceOf(sent'[m]) < PieceOf(p)
    <3>1. \A m \in 1 .. j - 1 :
             \/ SduOf(sent[m]) < SduOf(p)
             \/ SduOf(sent[m]) = SduOf(p) /\ PieceOf(sent[m]) < PieceOf(p)
      BY <2>1, ZenonT(40) DEF IsSegment
    <3> HIDE DEF p
    <3> QED  BY <3>1, <2>2, SMTT(30)
  <2>11. SduOf(sent[j])' = SduOf(p) /\ PieceOf(sent[j])' = PieceOf(p)
    BY <2>6 DEF SduOf, PieceOf
  <2>12. /\ SduOf(sent[j - 1])' = SduOf(sent'[j - 1])
         /\ \A m \in 1 .. j - 1 : /\ SduOf(sent[m])' = SduOf(sent'[m])
                                  /\ PieceOf(sent[m])' = PieceOf(sent'[m])
    BY DEF SduOf, PieceOf
  <2> HIDE DEF p
  <2>13. /\ SduOf(sent[j])' \in 1 .. Len(submitted')
         /\ PieceOf(sent[j])' \in 1 .. Len(submitted'[SduOf(sent[j])'])
    BY <2>4, <2>11 DEF p
  <2>14. sent'[j].fi =
           IF PieceOf(sent[j])' = 1
           THEN IF IsLastPiece(sent[j])' THEN "complete" ELSE "first"
           ELSE IF IsLastPiece(sent[j])' THEN "last" ELSE "middle"
    <3>1. sent'[j].fi = p.fi
      BY <2>6 DEF p
    <3> QED  BY <3>1, <2>7, <2>11
  <2>15. PieceOf(sent[j])' > 1 =>
           j > 1 /\ sent'[j - 1].data = <<SduOf(sent[j])', PieceOf(sent[j])' - 1>>
    BY <2>8, <2>11
  <2>16. PieceOf(sent[j])' = 1 =>
           \/ j = 1 /\ SduOf(sent[j])' = 1
           \/ /\ j > 1 /\ SduOf(sent[j - 1])' = SduOf(sent[j])' - 1
              /\ IsLastPiece(sent[j - 1])'
    BY <2>9, <2>11, <2>12
  <2>17. \A m \in 1 .. j - 1 :
           \/ SduOf(sent[m])' < SduOf(sent[j])'
           \/ /\ SduOf(sent[m])' = SduOf(sent[j])'
              /\ PieceOf(sent[m])' < PieceOf(sent[j])'
    BY <2>10, <2>11, <2>12
  <2> QED  BY <2>13, <2>14, <2>15, <2>16, <2>17, ZenonT(40) DEF IsSegment
<1>16. ASSUME NEW i \in 1 .. n  PROVE IsSegment(L + i)'
  <2>1. /\ SduOf(sent'[L + i]) = k /\ PieceOf(sent'[L + i]) = i
        /\ Len(submitted'[k]) = n /\ Len(submitted') = k
    <3>1. sent'[L + i].data = <<k, i>>
      BY <1>10
    <3> QED  BY <3>1, <1>7, <1>8 DEF SduOf, PieceOf
  <2>2. sent'[L + i].fi = IF i = 1 THEN IF i = n THEN "complete" ELSE "first"
                          ELSE IF i = n THEN "last" ELSE "middle"
    BY <1>2, <1>6, ZenonT(40)
  <2>3. IsLastPiece(sent[L + i])' <=> i = n
    BY <2>1 DEF IsLastPiece, SduOf, PieceOf
  <2>4. ASSUME i > 1
        PROVE  L + i > 1 /\ sent'[(L + i) - 1].data = <<k, i - 1>>
    <3>1. i - 1 \in 1 .. n /\ (L + i) - 1 = L + (i - 1) /\ L + i > 1
      BY <1>1, <2>4
    <3> QED  BY <3>1, <1>10
  <2>5. ASSUME i = 1
        PROVE  \/ L + i = 1 /\ k = 1
               \/ /\ L + i > 1 /\ SduOf(sent'[(L + i) - 1]) = k - 1
                  /\ IsLastPiece(sent[(L + i) - 1])'
    <3>1. CASE L = 0
      <4>1. sent = <<>>
        BY <3>1, <1>0, <1>1
      <4>2. submitted = <<>>
        BY <4>1 DEF BearerInv, SegmentsInv
      <4> QED  BY <3>1, <4>2, <1>0, <2>5
    <3>2. CASE L > 0
      <4>1. sent # <<>> /\ L \in 1 .. L /\ (L + i) - 1 = L /\ L + i > 1
        BY <3>2, <1>0, <1>1, <2>5
      <4>2. SduOf(sent[L]) = k - 1 /\ IsLastPiece(sent[L])
        BY <4>1, <1>0, <1>1 DEF BearerInv, SegmentsInv
      <4>3. sent'[L] = sent[L] /\ IsLastPiece(sent[L])'
        BY <4>1, <4>2, <1>14
      <4> QED  BY <4>1, <4>2, <4>3
    <3> QED  BY <3>1, <3>2
  <2>6. ASSUME NEW m \in 1 .. (L + i) - 1
        PROVE  \/ SduOf(sent'[m]) < k
               \/ SduOf(sent'[m]) = k /\ PieceOf(sent'[m]) < i
    <3>1. CASE m \in 1 .. L
      <4>1. SduOf(sent'[m]) \in 1 .. k - 1
        BY <3>1, <1>14
      <4> QED  BY <4>1, <1>1
    <3>2. CASE m > L
      <4>1. m - L \in 1 .. n /\ m - L < i /\ L + (m - L) = m
        BY <3>2, <1>1
      <4>2. sent'[m].data = <<k, m - L>>
        BY <4>1, <1>10, SMTT(30)
      <4> QED  BY <4>1, <4>2 DEF SduOf, PieceOf
    <3> QED  BY <3>1, <3>2, <1>1
  <2>7. k \in 1 .. k /\ i \in Nat /\ n \in Nat
    BY <1>1
  <2>8. SduOf(sent[L + i])' = k /\ PieceOf(sent[L + i])' = i
    BY <2>1 DEF SduOf, PieceOf
  <2>9. /\ SduOf(sent[(L + i) - 1])' = SduOf(sent'[(L + i) - 1])
        /\ \A m \in 1 .. (L + i) - 1 : /\ SduOf(sent[m])' = SduOf(sent'[m])
                                        /\ PieceOf(sent[m])' = PieceOf(sent'[m])
    BY DEF SduOf, PieceOf
  <2>10. /\ SduOf(sent[L + i])' \in 1 .. Len(submitted')
         /\ PieceOf(sent[L + i])' \in 1 .. Len(submitted'[SduOf(sent[L + i])'])
    BY <2>1, <2>7, <2>8
  <2>11. sent'[L + i].fi =
           IF PieceOf(sent[L + i])' = 1
           THEN IF IsLastPiece(sent[L + i])' THEN "complete" ELSE "first"
           ELSE IF IsLastPiece(sent[L + i])' THEN "last" ELSE "middle"
    BY <2>2, <2>3, <2>8
  <2>12. PieceOf(sent[L + i])' > 1 =>
           /\ L + i > 1
           /\ sent'[(L + i) - 1].data = <<SduOf(sent[L + i])', PieceOf(sent[L + i])' - 1>>
    BY <2>4, <2>8
  <2>13. PieceOf(sent[L + i])' = 1 =>
           \/ L + i = 1 /\ SduOf(sent[L + i])' = 1
           \/ /\ L + i > 1
              /\ SduOf(sent[(L + i) - 1])' = SduOf(sent[L + i])' - 1
              /\ IsLastPiece(sent[(L + i) - 1])'
    BY <2>5, <2>8, <2>9
  <2>14. \A m \in 1 .. (L + i) - 1 :
           \/ SduOf(sent[m])' < SduOf(sent[L + i])'
           \/ /\ SduOf(sent[m])' = SduOf(sent[L + i])'
              /\ PieceOf(sent[m])' < PieceOf(sent[L + i])'
    BY <2>6, <2>8, <2>9
  <2> QED  BY <2>10, <2>11, <2>12, <2>13, <2>14, ZenonT(40) DEF IsSegment
<1>17. SegmentsInv'
  <2>1. ASSUME NEW x \in 1 .. Len(submitted')
        PROVE  /\ submitted'[x] # <<>>
               /\ \A y \in 1 .. Len(submitted'[x]) : submitted'[x][y] = <<x, y>>
    <3>1. CASE x = k
      BY <3>1, <1>7, <1>8
    <3>2. CASE x \in 1 .. k - 1
      BY <3>2, <1>0, <1>1, <1>8, SMTT(30) DEF BearerInv, SegmentsInv
    <3> QED  BY <3>1, <3>2, <1>1, <1>8
  <2>2. ASSUME NEW j \in 1 .. Len(sent')  PROVE IsSegment(j)'
    BY <1>11, <1>15, <1>16
  <2>3. n \in 1 .. n /\ sent'[Len(sent')].data = <<k, n>>
    BY <1>1, <1>6, <1>10, SMTT(30)
  <2>4. sent' # <<>>
    BY <1>1, <1>6
  <2>5. SduOf(sent[Len(sent)])' = Len(submitted') /\ IsLastPiece(sent[Len(sent)])'
    BY <2>3, <1>7, <1>8 DEF SduOf, PieceOf, IsLastPiece
  <2> QED  BY <2>1, <2>2, <2>4, <2>5 DEF SegmentsInv
<1>18. ReassemblyInv'
  <2>1. UNCHANGED <<vr_next, collecting, partial, delivered>>
    BY <1>4 DEF rxVars
  <2>2. vr_next > 0 => vr_next \in 1 .. L
    BY <1>1
  <2>3. vr_next > 0 => /\ sent'[vr_next] = sent[vr_next]
                       /\ SduOf(sent[vr_next]) \in 1 .. k - 1
                       /\ (IsLastPiece(sent[vr_next])' <=> IsLastPiece(sent[vr_next]))
    <3>1. SUFFICES ASSUME vr_next > 0
                   PROVE  /\ sent'[vr_next] = sent[vr_next]
                          /\ SduOf(sent[vr_next]) \in 1 .. k - 1
                          /\ (IsLastPiece(sent[vr_next])' <=> IsLastPiece(sent[vr_next]))
      OBVIOUS
    <3>2. PICK j \in 1 .. L : j = vr_next
      BY <2>2, <3>1
    <3>3. IsLastPiece(sent[vr_next])' <=> IsLastPiece(sent[j])'
      BY <3>2, <2>1 DEF IsLastPiece, SduOf, PieceOf
    <3> QED  BY <3>2, <3>3, <1>14
  <2>4. Done(vr_next)' = Done(vr_next)
    BY <1>1, <2>1, <2>3 DEF Done, SduOf
  <2>5. Done(vr_next) \in 0 .. k - 1
    BY <1>1, <2>3 DEF Done
  <2>6. DeliveredUpTo(delivered, vr_next)
    BY DEF BearerInv, ReassemblyInv, Reassembled
  <2>7. ASSUME NEW j \in 1 .. Len(delivered)
        PROVE  delivered[j] = submitted'[delivered[j][1][1]]
    <3>1. \A x \in 1 .. Done(vr_next) : x \in 1 .. k - 1
      BY <1>1, <2>5
    <3>2. /\ delivered[j][1][1] \in 1 .. Done(vr_next)
          /\ delivered[j] = submitted[delivered[j][1][1]]
      BY <2>6, ZenonT(40) DEF DeliveredUpTo
    <3>3. delivered[j][1][1] \in 1 .. k - 1
      BY <3>1, <3>2, Zenon
    <3> QED  BY <3>2, <3>3, <1>8
  <2>8. DeliveredUpTo(delivered, vr_next)'
    BY <2>1, <2>4, <2>6, <2>7, SMTT(30) DEF DeliveredUpTo
  <2>9. PartialUpTo([collecting |-> collecting, partial |-> partial,
                     out |-> delivered], vr_next)'
    BY <2>1, <2>3 DEF BearerInv, ReassemblyInv, Reassembled, PartialUpTo, SduOf, PieceOf
  <2> QED  BY <2>8, <2>9 DEF ReassemblyInv, Reassembled
<1> QED  BY <1>12, <1>13, <1>17, <1>18 DEF BearerInv

\* Every step keeps the invariant.
LEMMA BearerStep ==
  ASSUME NoWrap, TypeOK, BearerInv, [Next]_vars  PROVE BearerInv'
<1>1. ASSUME NEW n \in 1 .. MaxSegs, NEW force \in BOOLEAN, Tx(n, force)
      PROVE  BearerInv'
  BY <1>1, TxBearerInv
<1>2. ASSUME NEW p \in wire, RecvPdu(p)  PROVE BearerInv'
  BY <1>2, RecvPduBearerInv
<1>3. ASSUME NEW s \in fb, RecvStatus(s)  PROVE BearerInv'
  BY <1>3, RecvStatusBearerInv
<1>4. CASE /\ wire' \subseteq wire /\ fb' \subseteq fb
           /\ UNCHANGED <<txVars, rxVars>>
  <2>1. SnNamesPdu' /\ WindowInv'
    BY <1>4 DEF BearerInv, SnNamesPdu, WindowInv, AwaitedPduKept, txVars, rxVars
  <2> QED  BY <1>4, <2>1, SegmentsFrame, ReassemblyFrame, SMTT(30) DEF BearerInv, txVars, rxVars
<1>5. ASSUME NEW p \in wire, LosePdu(p)  PROVE BearerInv'
  BY <1>4, <1>5 DEF LosePdu
<1>6. ASSUME NEW s \in fb, LoseStatus(s)  PROVE BearerInv'
  BY <1>4, <1>6 DEF LoseStatus
<1>7. CASE UNCHANGED vars
  BY <1>4, <1>7 DEF vars
<1> QED  BY <1>1, <1>2, <1>3, <1>5, <1>6, <1>7, TxTickBearerInv, RxTickBearerInv,
            ResetBearerInv DEF Next

\* While sequence numbers do not wrap, BearerInv holds of the AM bearer for every
\* window, batch, timer and buffer size, whatever the path loses or duplicates.
THEOREM BearerCorrect ==
  ASSUME NoWrap  PROVE Spec => []BearerInv
<1>1. TypeOK /\ BearerInv /\ [Next]_vars => BearerInv'
  BY BearerStep
<1> QED  BY <1>1, InitBearerInv, TypeCorrect, PTL DEF Spec

\* AmTx keeps every PDU AmRx still waits for: no late or duplicated STATUS makes
\* on_status erase an SN the receiver has not passed.
THEOREM AwaitedKept ==
  ASSUME NoWrap  PROVE Spec => []AwaitedPduKept
<1>1. BearerInv => AwaitedPduKept
  BY DEF BearerInv, WindowInv
<1> QED  BY <1>1, BearerCorrect, PTL

-----------------------------------------------------------------------------
(* The bearer implements the SDU service *)

\* accept_in_order only ever appends to what was delivered.
LEMMA AcceptAllExtends ==
  ASSUME NEW r \in Reassembly, NEW ps \in Seq(PDU)
  PROVE  Svc!Extends(AcceptAll(r, ps).out, r.out)
<1> DEFINE R == {q \in Nat \X Reassembly : Svc!Extends(q[2].out, r.out)}
<1>1. <<0, r>> \in R
  BY DEF Reassembly, Svc!Extends
<1>2. ASSUME NEW i \in 1 .. Len(ps), NEW x, <<i - 1, x>> \in R
      PROVE  <<i, AcceptInOrder(x, ps[i])>> \in R
  <2> DEFINE a == AcceptInOrder(x, ps[i])
  <2>1. x \in Reassembly /\ Svc!Extends(x.out, r.out) /\ ps[i] \in PDU /\ i \in Nat
    BY <1>2
  <2>2. a \in Reassembly
    BY <2>1, AcceptInOrderType
  <2>3. a.out = x.out \/ \E e : a.out = Append(x.out, e)
    BY DEF AcceptInOrder
  <2>4. Svc!Extends(a.out, x.out)
    <3>1. x.out \in Seq(Seq(Pieces)) /\ a.out \in Seq(Seq(Pieces))
      BY <2>1, <2>2 DEF Reassembly
    <3>2. CASE a.out = x.out
      BY <3>1, <3>2 DEF Svc!Extends
    <3>3. ASSUME NEW e, a.out = Append(x.out, e)  PROVE Svc!Extends(a.out, x.out)
      <4>1. /\ Len(Append(x.out, e)) = Len(x.out) + 1
            /\ \A j \in 1 .. Len(x.out) : Append(x.out, e)[j] = x.out[j]
        BY <3>1
      <4> HIDE DEF a
      <4> QED  BY <3>1, <3>3, <4>1 DEF Svc!Extends
    <3> QED  BY <2>3, <3>2, <3>3
  <2>5. Svc!Extends(a.out, r.out)
    <3>1. /\ Len(x.out) \in Nat /\ Len(r.out) \in Nat /\ Len(a.out) \in Nat
      BY <2>1, <2>2 DEF Reassembly
    <3> HIDE DEF a
    <3> QED  BY <2>1, <2>4, <3>1 DEF Svc!Extends
  <2> HIDE DEF a
  <2>6. <<i, a>> \in R
    BY <2>1, <2>2, <2>5
  <2> QED  BY <2>6 DEF a
<1>3. <<Len(ps), AcceptAll(r, ps)>> \in R
  <2>1. Len(ps) \in Nat
    BY SMTT(30)
  <2> HIDE DEF R
  <2> QED  BY <1>1, <1>2, <2>1, AcceptAllInduction
<1> QED  BY <1>3

\* What the invariant says of the delivered SDUs is what the service promises.
LEMMA DeliveredInOrder ==
  ASSUME TypeOK, BearerInv  PROVE Svc!InOrder(delivered, submitted)
<1> DEFINE at == [j \in 1 .. Len(delivered) |-> delivered[j][1][1]]
<1>1. vr_next \in 0 .. Len(sent) /\ Len(submitted) \in Nat
  BY DEF TypeOK, SN, BearerInv, SnNamesPdu, WindowInv
<1>2. Done(vr_next) \in 0 .. Len(submitted)
  <2>1. CASE vr_next = 0
    BY <2>1, <1>1 DEF Done
  <2>2. CASE vr_next > 0
    <3>1. vr_next \in 1 .. Len(sent)
      BY <2>2, <1>1 DEF TypeOK
    <3>2. SduOf(sent[vr_next]) \in 1 .. Len(submitted)
      BY <3>1 DEF BearerInv, SegmentsInv, IsSegment
    <3> QED  BY <2>2, <3>2, <1>1 DEF Done
  <2> QED  BY <1>1, <2>1, <2>2
<1>3. DeliveredUpTo(delivered, vr_next)
  BY DEF BearerInv, ReassemblyInv, Reassembled
<1>4. ASSUME NEW j \in 1 .. Len(delivered)
      PROVE  delivered[j][1][1] \in 1 .. Len(submitted) /\ delivered[j] = submitted[at[j]]
  <2>1. delivered[j][1][1] \in 1 .. Done(vr_next) /\ delivered[j] = submitted[delivered[j][1][1]]
    BY <1>3 DEF DeliveredUpTo
  <2>2. \A x \in 1 .. Done(vr_next) : x \in 1 .. Len(submitted)
    BY <1>1, <1>2
  <2> QED  BY <2>1, <2>2
<1>5. at \in [1 .. Len(delivered) -> 1 .. Len(submitted)]
  BY <1>4
<1>6. \A i, j \in 1 .. Len(delivered) : i < j => at[i] < at[j]
  BY <1>3 DEF DeliveredUpTo
<1>7. TReorder = 0 => \A i \in 1 .. Len(delivered) : at[i] = i
  BY <1>3 DEF DeliveredUpTo
<1> HIDE DEF at
<1> QED  BY <1>4, <1>5, <1>6, <1>7 DEF Svc!InOrder

\* Accepting PDUs appends to what was delivered.
LEMMA AcceptDelivers ==
  ASSUME TypeOK, NEW r \in Reassembly, r.out = delivered, NEW ps \in Seq(PDU),
         NEW v \in SN, NEW k \in 0 .. SnMod, Accept(r, ps, v, k)
  PROVE  Svc!Extends(delivered', delivered)
<1> DEFINE held == [i \in 1 .. k |-> reorder[(v + i - 1) % SnMod]]
<1>1. k \in Nat /\ v \in Nat
  BY AmConstants DEF SN
<1>2. ASSUME NEW i \in 1 .. k  PROVE reorder[(v + i - 1) % SnMod] \in PDU
  <2>1. i - 1 \in 0 .. k - 1 /\ v + (i - 1) = v + i - 1
    BY <1>1
  <2>2. (v + (i - 1)) % SnMod \in DOMAIN reorder
    BY <2>1 DEF Accept, Drains
  <2> QED  BY <2>1, <2>2 DEF TypeOK, Range
<1>3. held \in Seq(PDU)
  BY <1>1, <1>2
<1>4. delivered' = AcceptAll(r, ps \o held).out
  BY DEF Accept
<1>5. ps \o held \in Seq(PDU)
  <2> HIDE DEF held
  <2> QED  BY <1>3
<1> HIDE DEF held
<1> QED  BY <1>4, <1>5, AcceptAllExtends

\* Every step of the bearer is a step of the service, or changes nothing there.
LEMMA ServiceStep ==
  ASSUME NoWrap, TypeOK, TypeOK', BearerInv, BearerInv', [Next]_vars
  PROVE  [Svc!Next]_(Svc!vars)
<1> USE DEF Svc!Next, Svc!vars
<1>1. Svc!InOrder(delivered', submitted')
  <2>1. (TypeOK /\ BearerInv => Svc!InOrder(delivered, submitted))'
    BY DeliveredInOrder, PTL
  <2> QED  BY <2>1
<1>2. ASSUME NEW n \in 1 .. MaxSegs, NEW force \in BOOLEAN, Tx(n, force)
      PROVE  Svc!Accept
  <2>1. submitted \in Seq(Seq(Pieces))
    BY DEF TypeOK
  <2>2. \E sdu : submitted' = Append(submitted, sdu)
    BY <1>2, SMTT(30) DEF Tx
  <2>3. delivered' = delivered
    BY <1>2 DEF Tx, rxVars
  <2> QED  BY <2>1, <2>2, <2>3 DEF Svc!Accept, Svc!Extends
<1>3. ASSUME NEW p \in wire, RecvPdu(p)  PROVE Svc!Deliver \/ UNCHANGED Svc!vars
  <2>1. UNCHANGED submitted
    BY <1>3 DEF RecvPdu, txVars
  <2>2. CASE UNCHANGED delivered
    BY <2>1, <2>2
  <2>3. CASE RxInOrder(p)
    <3> DEFINE r == [collecting |-> collecting, partial |-> partial, out |-> delivered]
    <3>1. PICK k \in 0 .. SnMod : Accept(r, <<p>>, (p.sn + 1) % SnMod, k)
      BY <2>3, SMTT(30) DEF RxInOrder
    <3>2. r \in Reassembly /\ r.out = delivered
      BY DEF TypeOK, Reassembly
    <3>3. <<p>> \in Seq(PDU) /\ p.sn + 1 \in Int
      <4>1. p \in PDU /\ p.sn \in SN
        BY SMTT(30) DEF TypeOK, PDU
      <4> QED  BY <4>1, SMTT(30) DEF SN
    <3>4. (p.sn + 1) % SnMod \in SN
      BY <3>3, ModRange, AmConstants DEF SN
    <3>5. Svc!Extends(delivered', delivered)
      <4> HIDE DEF r
      <4> QED  BY <3>1, <3>2, <3>3, <3>4, AcceptDelivers
    <3> QED  BY <1>1, <2>1, <3>5, SMTT(30) DEF Svc!Deliver
  <2> QED  BY <1>3, <2>2, <2>3 DEF RecvPdu, Rx, RxDuplicate, RxStale, RxAhead, rxVars
<1>4. CASE RxTick
  <2>1. UNCHANGED submitted
    BY <1>4 DEF RxTick, txVars
  <2>2. CASE RxTickIdle
    BY <2>1, <2>2 DEF RxTickIdle
  <2>3. CASE RxTickSkip
    <3> DEFINE r == [collecting |-> FALSE, partial |-> <<>>, out |-> delivered]
    <3>1. PICK h \in holes, k \in 0 .. SnMod : Accept(r, <<>>, (h + 1) % SnMod, k)
      BY <2>3, SMTT(30) DEF RxTickSkip
    <3>2. r \in Reassembly /\ r.out = delivered
      BY DEF TypeOK, Reassembly
    <3>3. <<>> \in Seq(PDU) /\ h + 1 \in Int
      BY DEF TypeOK, SN
    <3>4. (h + 1) % SnMod \in SN
      BY <3>3, ModRange, AmConstants, SMTT(30) DEF SN
    <3>5. Svc!Extends(delivered', delivered)
      <4> HIDE DEF r
      <4> QED  BY <3>1, <3>2, <3>3, <3>4, AcceptDelivers
    <3> QED  BY <1>1, <2>1, <3>5 DEF Svc!Deliver
  <2> QED  BY <1>4, <2>2, <2>3 DEF RxTick
<1>5. ASSUME NEW s \in fb, RecvStatus(s)  PROVE UNCHANGED Svc!vars
  BY <1>5 DEF RecvStatus, OnStatus, rxVars
<1>6. CASE Reset
  BY <1>6 DEF Reset, TxReset, RxReset, Svc!NewBearer
<1>7. CASE TxTick
  BY <1>7 DEF TxTick, rxVars
<1>8. ASSUME NEW p \in wire, LosePdu(p)  PROVE UNCHANGED Svc!vars
  BY <1>8 DEF LosePdu, txVars, rxVars
<1>9. ASSUME NEW s \in fb, LoseStatus(s)  PROVE UNCHANGED Svc!vars
  BY <1>9 DEF LoseStatus, txVars, rxVars
<1>10. CASE UNCHANGED vars
  BY <1>10 DEF vars, txVars, rxVars
<1> QED  BY <1>2, <1>3, <1>4, <1>5, <1>6, <1>7, <1>8, <1>9, <1>10 DEF Next

\* The AM bearer implements the SDU service: AmTx::tx, AmRx::rx and the two ticks
\* deliver accepted SDUs whole, in order and at most once over a path that loses,
\* duplicates and reorders, and skip none when t_reorder_ms is 0.
THEOREM BearerImplementsService ==
  ASSUME NoWrap  PROVE Spec => ImplementsService
<1>1. Init => Svc!Init
  BY DEF Init, Svc!Init
<1>2. TypeOK /\ TypeOK' /\ BearerInv /\ BearerInv' /\ [Next]_vars => [Svc!Next]_(Svc!vars)
  BY ServiceStep
<1> QED  BY <1>1, <1>2, TypeCorrect, BearerCorrect, PTL DEF Spec, ImplementsService, Svc!Spec
=============================================================================
