-------------------------- MODULE RlcAmBufferProofs --------------------------
(* The AM bearer's buffers: the transmitter's backlog, and the receiver's    *)
(* hold area and duplicate filter.                                           *)
EXTENDS RlcAmSafetyProofs

\* A step that only releases PDUs keeps the bound.
LEMMA BacklogShrinks ==
  ASSUME TypeOK, BacklogBounded, DOMAIN tx_buffer' \subseteq DOMAIN tx_buffer
  PROVE  BacklogBounded'
<1>1. IsFiniteSet(DOMAIN tx_buffer)
  BY SnFinite DEF TypeOK
<1>2. /\ Cardinality(DOMAIN tx_buffer') <= Cardinality(DOMAIN tx_buffer)
      /\ Cardinality(DOMAIN tx_buffer') \in Nat /\ Cardinality(DOMAIN tx_buffer) \in Nat
  BY <1>1, FS_Subset, FS_CardinalityType
<1> QED  BY <1>2, AmConstants DEF BacklogBounded

\* AmTx::tx adds at most one PDU per segment.
LEMMA TxBacklog ==
  ASSUME TypeOK, NEW n \in 1 .. MaxSegs, NEW force \in BOOLEAN, Tx(n, force)
  PROVE  BacklogBounded'
<1> DEFINE k == Len(submitted) + 1
           pdus == [i \in 1 .. n |-> Segment(k, n, i)]
           new == {p.sn : p \in Range(pdus)}
           f == [i \in 1 .. n |-> Segment(k, n, i).sn]
           old == DOMAIN tx_buffer
<1>1. DOMAIN tx_buffer' = old \cup new
  BY DEF Tx
<1>2. f \in Surjection(1 .. n, new)
  BY DEF Surjection, Range
<1>3. n \in Nat /\ IsFiniteSet(1 .. n) /\ Cardinality(1 .. n) = n
  <2>1. 1 \in Int /\ n \in Int /\ n \in Nat /\ n >= 1
    BY AmConstants
  <2> QED  BY <2>1, FS_Interval
<1> HIDE DEF f, new
<1>4. IsFiniteSet(new) /\ Cardinality(new) <= n
  BY <1>2, <1>3, FS_Surjection
<1>5. IsFiniteSet(old)
  BY SnFinite DEF TypeOK
<1>6. /\ Cardinality(old) \in Nat /\ Cardinality(new) \in Nat
      /\ Cardinality(old \cup new) \in Nat
      /\ Cardinality(old \cap new) \in Nat
      /\ Cardinality(old \cup new) = Cardinality(old) + Cardinality(new) - Cardinality(old \cap new)
  BY <1>4, <1>5, FS_Union, FS_Intersection, FS_CardinalityType
<1>7. Cardinality(old) < TxLimit + Reserve
  <2>1. Cardinality(DOMAIN tx_buffer) < TxLimit + (IF force THEN Reserve ELSE 0)
    BY DEF Tx, HasRoom
  <2> QED  BY <2>1, <1>6, AmConstants
<1> HIDE DEF old
<1>8. Cardinality(old \cup new) <= TxLimit + Reserve + MaxSegs - 1
  BY <1>3, <1>4, <1>6, <1>7, AmConstants
<1> QED  BY <1>1, <1>8 DEF BacklogBounded

\* Every step keeps the bound.
LEMMA BacklogStep ==
  ASSUME TypeOK, BacklogBounded, [Next]_vars  PROVE BacklogBounded'
<1>1. ASSUME NEW n \in 1 .. MaxSegs, NEW force \in BOOLEAN, Tx(n, force)
      PROVE  BacklogBounded'
  BY <1>1, TxBacklog
<1>2. ASSUME NEW s \in fb, RecvStatus(s)  PROVE BacklogBounded'
  <2>1. DOMAIN tx_buffer' \subseteq DOMAIN tx_buffer
    BY <1>2 DEF RecvStatus, OnStatus, Restrict
  <2> QED  BY <2>1, BacklogShrinks
<1>3. CASE UNCHANGED tx_buffer
  BY <1>3 DEF BacklogBounded
<1>4. CASE Reset
  BY <1>4, EmptyTypes, BacklogShrinks DEF Reset, TxReset
<1> QED  BY <1>1, <1>2, <1>3, <1>4 DEF Next, TxTick, RxTick, RecvPdu, LosePdu,
            LoseStatus, vars, txVars

\* The unacked backlog overshoots tx_buffer_limit at most by the control reserve
\* and the segments of one SDU, for every window size and with SN wraparound.
THEOREM BacklogLimit == Spec => []BacklogBounded
<1>1. Init => BacklogBounded
  <2> SUFFICES ASSUME Init  PROVE BacklogBounded
    OBVIOUS
  <2>1. DOMAIN tx_buffer = {}
    BY EmptyTypes DEF Init
  <2> QED  BY <2>1, FS_EmptySet, AmConstants DEF BacklogBounded
<1>2. TypeOK /\ BacklogBounded /\ [Next]_vars => BacklogBounded'
  BY BacklogStep
<1> QED  BY <1>1, <1>2, TypeCorrect, PTL DEF Spec

-----------------------------------------------------------------------------
\* When a PDU arrives ahead of the window, the hold area has room for it: what it
\* holds, and the awaited PDU, are all still in the transmitter's backlog.
LEMMA HoldAreaHasRoom ==
  ASSUME TypeOK, BearerInv, BacklogBounded, HoldsEverything, HeldIsAhead,
         NEW p \in wire, p.sn > vr_next
  PROVE  Cardinality(DOMAIN reorder) < MaxReorder
<1> DEFINE B == DOMAIN tx_buffer
           H == DOMAIN reorder
<1>1. vr_next \in Nat /\ next_sn \in Nat /\ p.sn \in Nat /\ p.sn < next_sn
      /\ H \subseteq Nat
  BY AmConstants DEF TypeOK, BearerInv, SnNamesPdu, PDU, SN
<1>2. \A sn \in Nat : vr_next <= sn /\ sn < next_sn => sn \in B
  BY <1>1 DEF BearerInv, WindowInv, AwaitedPduKept
<1>3. \A sn \in H : sn \in Nat /\ vr_next < sn /\ sn < next_sn
  BY <1>1 DEF HeldIsAhead, BearerInv, SnNamesPdu
<1>4. vr_next \in B
  BY <1>1, <1>2
<1>5. H \subseteq B \ {vr_next}
  BY <1>1, <1>2, <1>3
<1>6. IsFiniteSet(B)
  BY SnFinite DEF TypeOK
<1> HIDE DEF B, H
<1>7. /\ IsFiniteSet(B \ {vr_next})
      /\ Cardinality(B \ {vr_next}) = Cardinality(B) - 1
      /\ Cardinality(B) \in Nat
  BY <1>4, <1>6, FS_RemoveElement, FS_CardinalityType
<1>8. /\ Cardinality(H) <= Cardinality(B \ {vr_next})
      /\ Cardinality(H) \in Nat
  BY <1>5, <1>7, FS_Subset, FS_CardinalityType
<1>9. Cardinality(B) <= TxLimit + Reserve + MaxSegs - 1
  BY DEF BacklogBounded, B
<1> QED  BY <1>7, <1>8, <1>9, AmConstants DEF HoldsEverything, H

\* Remembering an SN adds no other.
LEMMA RememberSubset ==
  ASSUME NEW sn  PROVE Remember(sn) \subseteq seen \cup {sn}
BY DEF Remember

\* The PDU AmRx::rx waits for, and what it then drains, are the next ones sent.
LEMMA InOrderDrains ==
  ASSUME NoWrap, TypeOK, BearerInv, NEW p \in wire, RxInOrder(p)
  PROVE  \E k \in 0 .. SnMod : DrainedTo(vr_next + 1, k)
<1> DEFINE v == vr_next + 1
           r == [collecting |-> collecting, partial |-> partial, out |-> delivered]
<1>1. /\ p.sn = vr_next /\ vr_next \in Nat /\ p.sn < Len(sent) /\ p = sent[p.sn + 1]
      /\ p \in PDU /\ Len(sent) \in Nat /\ Len(sent) < SnMod /\ SnMod \in Nat \ {0}
  <2>1. p.sn = vr_next /\ vr_next \in Nat /\ p \in PDU /\ Len(sent) \in Nat
    BY DEF RxInOrder, TypeOK, SN
  <2>2. p.sn < Len(sent) /\ p = sent[p.sn + 1]
    BY DEF BearerInv, SnNamesPdu
  <2>3. Len(sent) < SnMod /\ SnMod \in Nat \ {0}
    BY <2>1, AmConstants DEF TypeOK, NoWrap
  <2> QED  BY <2>1, <2>2, <2>3
<1>2. PICK k \in 0 .. SnMod : Accept(r, <<p>>, (p.sn + 1) % SnMod, k)
  BY DEF RxInOrder
<1>3. v \in 0 .. SnMod - 1 /\ v <= Len(sent) /\ v \in Nat /\ v = vr_next + 1
  BY <1>1
<1>4. (p.sn + 1) % SnMod = v
  BY <1>1, <1>3, ModSmall
<1>5. <<p>> \in Seq(PDU) /\ Len(<<p>>) = 1 /\ RunFrom(<<p>>, vr_next)
  BY <1>1 DEF RunFrom
<1>6. Reassembled(r, vr_next) /\ r \in Reassembly
  BY DEF BearerInv, ReassemblyInv, Reassembly, TypeOK
<1>7. Accept(r, <<p>>, v, k)
  BY <1>2, <1>4
<1> HIDE DEF v, r
<1>8. DrainedTo(v, k)
  BY <1>1, <1>3, <1>5, <1>6, <1>7, AcceptRun DEF BearerInv
<1> QED  BY <1>8, <1>3

\* AmRx::rx keeps every filtered SN either passed or held.
LEMMA RecvPduFilterInv ==
  ASSUME NoWrap, HoldsEverything, TypeOK, BearerInv, BacklogBounded, FilterInv,
         NEW p \in wire, RecvPdu(p)
  PROVE  FilterInv'
<1>1. vr_next \in Nat /\ p.sn \in Nat /\ seen \subseteq Nat /\ DOMAIN reorder \subseteq Nat
      /\ p.sn < Len(sent) /\ Len(sent) \in Nat /\ Len(sent) <= MaxPdus
  BY AmConstants DEF TypeOK, BearerInv, SnNamesPdu, PDU, SN
<1>2. CASE RxDuplicate(p)
  BY <1>2 DEF RxDuplicate, rxVars, FilterInv, HeldIsAhead
<1>3. CASE RxStale(p)
  <2>1. seen' \subseteq seen \cup {p.sn} /\ p.sn < vr_next
        /\ UNCHANGED <<vr_next, reorder>>
    BY <1>3, RememberSubset DEF RxStale
  <2> QED  BY <2>1 DEF FilterInv, HeldIsAhead
<1>4. CASE RxAhead(p)
  <2>1. reorder' = Put(reorder, p.sn, p) /\ vr_next' = vr_next
        /\ seen' \subseteq seen \cup {p.sn} /\ p.sn > vr_next
    BY <1>4, HoldAreaHasRoom, RememberSubset DEF RxAhead, FilterInv
  <2>2. DOMAIN reorder' = DOMAIN reorder \cup {p.sn}
    BY <2>1 DEF Put
  <2> QED  BY <1>1, <2>1, <2>2 DEF FilterInv, HeldIsAhead
<1>5. CASE RxInOrder(p)
  <2>1. PICK k \in 0 .. SnMod : DrainedTo(vr_next + 1, k)
    BY <1>5, InOrderDrains
  <2>2. k \in Nat /\ p.sn = vr_next /\ seen' \subseteq seen \cup {p.sn}
    BY <1>5, RememberSubset, AmConstants DEF RxInOrder
  <2>3. /\ vr_next' = vr_next + 1 + k
        /\ DOMAIN reorder' = DOMAIN reorder \ (vr_next + 1 .. vr_next + 1 + k - 1)
        /\ vr_next + 1 + k \notin DOMAIN reorder
    BY <2>1 DEF DrainedTo
  <2> QED  BY <1>1, <2>2, <2>3 DEF FilterInv, HeldIsAhead
<1> QED  BY <1>2, <1>3, <1>4, <1>5 DEF RecvPdu, Rx

\* Each step keeps the filter within what is passed or held.
LEMMA FilterStep ==
  ASSUME NoWrap, HoldsEverything, TypeOK, BearerInv, BacklogBounded, FilterInv,
         [Next]_vars
  PROVE  FilterInv'
<1>1. CASE UNCHANGED <<vr_next, seen, reorder>>
  BY <1>1 DEF FilterInv, HeldIsAhead
<1>2. CASE Reset
  BY <1>2, EmptyTypes DEF Reset, RxReset, FilterInv, HeldIsAhead
<1>3. ~ RxTick
  BY AmConstants DEF HoldsEverything, RxTick, RxTickIdle, RxTickSkip
<1> QED  BY <1>1, <1>2, <1>3, RecvPduFilterInv DEF Next, Tx, TxTick, RecvStatus,
            OnStatus, LosePdu, LoseStatus, vars, rxVars

\* A receiver that never skips and holds a full backlog (AmRx::rx with
\* t_reorder_ms = 0) never drops a retransmission it still needs.
THEOREM AwaitedNotFiltered ==
  ASSUME NoWrap, HoldsEverything
  PROVE  Spec => [](AwaitedSnNotSeen /\ HeldIsAhead)
<1>1. Init => FilterInv
  BY EmptyTypes DEF Init, FilterInv, HeldIsAhead
<1>2. TypeOK /\ BearerInv /\ BacklogBounded /\ FilterInv /\ [Next]_vars => FilterInv'
  BY FilterStep
<1>3. TypeOK /\ FilterInv => AwaitedSnNotSeen /\ HeldIsAhead
  BY AmConstants DEF TypeOK, SN, FilterInv, HeldIsAhead, AwaitedSnNotSeen
<1> QED  BY <1>1, <1>2, <1>3, TypeCorrect, BearerCorrect, BacklogLimit, PTL DEF Spec
=============================================================================
