----------------------------- MODULE RlcAmProofs -----------------------------
(* The AM bearer: type correctness, and what one run of accept_in_order and  *)
(* drain_reorder does to the reassembly state.                               *)
EXTENDS RlcAmInv, NatSetInduction

\* The reassembly chain of AcceptAll exists and unfolds one PDU at a time.
LEMMA AcceptAllChain ==
  ASSUME NEW r, NEW ps, Len(ps) \in Nat
  PROVE  \E f : /\ f[0] = r
                /\ \A i \in 1 .. Len(ps) : f[i] = AcceptInOrder(f[i - 1], ps[i])
                /\ AcceptAll(r, ps) = f[Len(ps)]
<1> DEFINE IsChain(f, m) == f = [i \in 0 .. m |->
                IF i = 0 THEN r ELSE AcceptInOrder(f[i - 1], ps[i])]
           S == {m \in Nat : \E f : IsChain(f, m)}
<1>1. 0 \in S
  <2>1. IsChain([i \in 0 .. 0 |-> r], 0)
    OBVIOUS
  <2> QED  BY <2>1
<1>2. ASSUME NEW m \in Nat, m \in S  PROVE m + 1 \in S
  <2>1. PICK f : IsChain(f, m)
    BY <1>2
  <2> DEFINE g == [i \in 0 .. m + 1 |->
                     IF i = m + 1 THEN AcceptInOrder(f[m], ps[m + 1]) ELSE f[i]]
  <2>2. ASSUME NEW i \in 0 .. m + 1
        PROVE  g[i] = IF i = 0 THEN r ELSE AcceptInOrder(g[i - 1], ps[i])
    <3>1. CASE i = m + 1
      BY <3>1
    <3>2. CASE i \in 0 .. m
      BY <3>2, <2>1
    <3> QED  BY <3>1, <3>2
  <2>3. IsChain(g, m + 1)
    BY <2>2
  <2> HIDE DEF g
  <2> QED  BY <2>3
<1>3. \E f : IsChain(f, Len(ps))
  <2> HIDE DEF S
  <2>1. Nat \subseteq S
    BY <1>1, <1>2, SetInduction
  <2> QED  BY <2>1 DEF S
<1> DEFINE F == CHOOSE f : IsChain(f, Len(ps))
<1>4. IsChain(F, Len(ps))
  BY <1>3, SMTT(30)
<1>5. AcceptAll(r, ps) = F[Len(ps)]
  BY DEF AcceptAll
<1> HIDE DEF F
<1> QED  BY <1>4, <1>5

\* A set of (position, reassembly state) pairs that accept_in_order cannot leave
\* contains the state the whole run of PDUs ends in.
LEMMA AcceptAllInduction ==
  ASSUME NEW r, NEW ps, Len(ps) \in Nat, NEW R, <<0, r>> \in R,
         \A i \in 1 .. Len(ps) : \A x :
           <<i - 1, x>> \in R => <<i, AcceptInOrder(x, ps[i])>> \in R
  PROVE  <<Len(ps), AcceptAll(r, ps)>> \in R
<1>1. PICK f : /\ f[0] = r
               /\ \A i \in 1 .. Len(ps) : f[i] = AcceptInOrder(f[i - 1], ps[i])
               /\ AcceptAll(r, ps) = f[Len(ps)]
  BY AcceptAllChain, SMTT(30)
<1> DEFINE S == {m \in Nat : m <= Len(ps) => <<m, f[m]>> \in R}
<1>2. 0 \in S
  BY <1>1, SMTT(30)
<1>3. ASSUME NEW m \in Nat, m \in S  PROVE m + 1 \in S
  <2>1. CASE m + 1 <= Len(ps)
    <3>1. <<m, f[m]>> \in R /\ m + 1 \in 1 .. Len(ps) /\ (m + 1) - 1 = m
      BY <1>3, <2>1
    <3>2. <<m + 1, AcceptInOrder(f[m], ps[m + 1])>> \in R
      BY <3>1
    <3> QED  BY <3>1, <3>2, <1>1
  <2> QED  BY <2>1
<1>4. Nat \subseteq S
  <2> HIDE DEF S
  <2> QED  BY <1>2, <1>3, SetInduction
<1> QED  BY <1>1, <1>4

-----------------------------------------------------------------------------
(* Type correctness *)

Reassembly == [collecting : BOOLEAN, partial : Seq(Pieces), out : Seq(Seq(Pieces))]

\* accept_in_order maps a reassembly state to a reassembly state.
LEMMA AcceptInOrderType ==
  ASSUME NEW r \in Reassembly, NEW p \in PDU
  PROVE  AcceptInOrder(r, p) \in Reassembly
<1> USE DEF Reassembly, PDU
<1>1. p.data \in Pieces /\ <<p.data>> \in Seq(Pieces)
  OBVIOUS
<1>2. Append(r.partial, p.data) \in Seq(Pieces)
  BY <1>1
<1> HIDE DEF PDU
<1>3. /\ Append(r.out, <<p.data>>) \in Seq(Seq(Pieces))
      /\ Append(r.out, Append(r.partial, p.data)) \in Seq(Seq(Pieces))
  BY <1>1, <1>2
<1> QED  BY <1>1, <1>2, <1>3 DEF AcceptInOrder

\* So does accepting any run of PDUs.
LEMMA AcceptAllType ==
  ASSUME NEW r \in Reassembly, NEW ps \in Seq(PDU)
  PROVE  AcceptAll(r, ps) \in Reassembly
<1> DEFINE R == Nat \X Reassembly
<1>1. ASSUME NEW i \in 1 .. Len(ps), NEW x, <<i - 1, x>> \in R
      PROVE  <<i, AcceptInOrder(x, ps[i])>> \in R
  <2>1. x \in Reassembly /\ ps[i] \in PDU /\ i \in Nat
    BY <1>1
  <2> QED  BY <2>1, AcceptInOrderType
<1>2. <<0, r>> \in R /\ Len(ps) \in Nat
  OBVIOUS
<1>3. <<Len(ps), AcceptAll(r, ps)>> \in R
  <2> HIDE DEF R
  <2> QED  BY <1>1, <1>2, AcceptAllInduction
<1> QED  BY <1>3

\* The sequence number space is finite, and so is every container of SNs.
LEMMA SnFinite == IsFiniteSet(SN) /\ \A S \in SUBSET SN : IsFiniteSet(S)
<1>1. 0 \in Int /\ SnMod - 1 \in Int
  BY AmConstants
<1>2. IsFiniteSet(SN)
  BY <1>1, FS_Interval DEF SN
<1> QED  BY <1>2, FS_Subset

\* AmTx::tx keeps the types: a segment is a PDU, counters stay in range.
LEMMA TxType ==
  ASSUME TypeOK, NEW n \in 1 .. MaxSegs, NEW force \in BOOLEAN, Tx(n, force)
  PROVE  TypeOK'
<1> DEFINE k == Len(submitted) + 1
           pdus == [i \in 1 .. n |-> Segment(k, n, i)]
<1> USE AmConstants
<1>1. k \in 1 .. MaxPdus /\ n \in Nat /\ next_sn \in Nat /\ since_poll \in Nat
  BY DEF TypeOK, Tx, SN
<1>2. ASSUME NEW i \in 1 .. n  PROVE Segment(k, n, i) \in PDU
  <2>1. (next_sn + i - 1) % SnMod \in SN
    <3>1. next_sn + i - 1 \in Int
      BY <1>1
    <3> QED  BY <3>1, ModRange DEF SN
  <2>2. <<k, i>> \in Pieces
    BY <1>1 DEF Pieces
  <2>3. (CASE n = 1 -> "complete" [] n > 1 /\ i = 1 -> "first"
           [] n > 1 /\ i = n -> "last" [] OTHER -> "middle") \in FI
    BY DEF FI
  <2>4. ((since_poll + i) % PollEvery = 0) \in BOOLEAN
    OBVIOUS
  <2> QED  BY <2>1, <2>2, <2>3, <2>4 DEF Segment, PDU
<1>3. pdus \in Seq(PDU) /\ Len(pdus) = n /\ Range(pdus) \subseteq PDU
  BY <1>1, <1>2 DEF Range
<1> HIDE DEF pdus
<1>4. /\ DOMAIN tx_buffer' \subseteq SN
      /\ Range(tx_buffer') \subseteq PDU
  <2>1. tx_buffer' = [sn \in DOMAIN tx_buffer \cup {p.sn : p \in Range(pdus)} |->
                       IF \E p \in Range(pdus) : p.sn = sn
                       THEN CHOOSE p \in Range(pdus) : p.sn = sn
                       ELSE tx_buffer[sn]]
    BY DEF Tx, pdus
  <2>2. \A p \in Range(pdus) : p.sn \in SN
    BY <1>3 DEF PDU
  <2>3. ASSUME NEW sn \in DOMAIN tx_buffer'  PROVE tx_buffer'[sn] \in PDU
    <3>1. CASE \E p \in Range(pdus) : p.sn = sn
      BY <3>1, <2>1, <1>3
    <3>2. CASE ~ \E p \in Range(pdus) : p.sn = sn
      BY <3>2, <2>1 DEF TypeOK, Range
    <3> QED  BY <3>1, <3>2
  <2>4. DOMAIN tx_buffer' \subseteq SN
    BY <2>1, <2>2 DEF TypeOK
  <2> QED  BY <2>3, <2>4 DEF Range
<1>5. next_sn' \in SN /\ since_poll' \in 0 .. PollEvery - 1 /\ tx_age' \in 0 .. TPoll
  <2>1. next_sn + n \in Int /\ since_poll + n \in Int
    BY <1>1
  <2>2. (next_sn + n) % SnMod \in SN /\ (since_poll + n) % PollEvery \in 0 .. PollEvery - 1
    BY <2>1, ModRange DEF SN
  <2> QED  BY <2>2 DEF Tx
<1>6. wire' \subseteq PDU
  BY <1>3 DEF Tx, TypeOK, pdus
<1>7. sent' \in Seq(PDU) /\ Len(sent') = Len(sent) + n /\ Len(sent') <= MaxPdus
  BY <1>3 DEF Tx, TypeOK, pdus
<1>8. submitted' \in Seq(Seq(Pieces)) /\ Len(submitted') = Len(submitted) + 1
  <2>1. [i \in 1 .. n |-> <<k, i>>] \in Seq(Pieces)
    BY <1>1 DEF Pieces
  <2>2. submitted' = Append(submitted, [i \in 1 .. n |-> <<k, i>>])
    BY DEF Tx
  <2> HIDE DEF k
  <2> QED  BY <2>1, <2>2 DEF TypeOK
<1>9. UNCHANGED <<nack_age, rxVars, fb>>
  BY DEF Tx
<1>10. Len(submitted') <= Len(sent')
  BY <1>1, <1>7, <1>8 DEF TypeOK
<1> QED  BY <1>4, <1>5, <1>6, <1>7, <1>8, <1>9, <1>10 DEF TypeOK, rxVars

\* AmTx::tick keeps the types.
LEMMA TxTickType ==
  ASSUME TypeOK, TxTick  PROVE TypeOK'
<1>1. Probe \subseteq PDU
  BY DEF Probe, Lowest, TypeOK, Range
<1>2. tx_age' \in 0 .. TPoll /\ nack_age' \in 0 .. TPoll /\ wire' \subseteq PDU
  BY <1>1, AmConstants DEF TxTick, TypeOK, Oldest
<1> QED  BY <1>2, SMTT(30) DEF TxTick, TypeOK, rxVars

\* AmTx::on_status keeps the types.
LEMMA OnStatusType ==
  ASSUME TypeOK, NEW s \in fb, RecvStatus(s)  PROVE TypeOK'
<1> DEFINE kept == {sn \in DOMAIN tx_buffer : sn >= s.ack}
           again == Lowest(Lowest(s.nacks, s.count) \cap kept, ProbeBatch)
<1>1. DOMAIN tx_buffer' \subseteq SN /\ Range(tx_buffer') \subseteq PDU
  BY DEF RecvStatus, OnStatus, Restrict, Range, TypeOK
<1>2. {tx_buffer[sn] : sn \in again} \subseteq PDU
  BY DEF Lowest, TypeOK, Range
<1>3. wire' \subseteq PDU
  BY <1>2 DEF RecvStatus, OnStatus, TypeOK
<1>4. tx_age' \in 0 .. TPoll /\ nack_age' \in 0 .. TPoll /\ fb' \subseteq Status
  BY AmConstants DEF RecvStatus, OnStatus, TypeOK
<1> QED  BY <1>1, <1>3, <1>4 DEF RecvStatus, OnStatus, TypeOK, rxVars

\* Accepting PDUs and draining the hold area keeps the receiver's types.
LEMMA AcceptType ==
  ASSUME TypeOK, NEW r \in Reassembly, NEW ps \in Seq(PDU), NEW v \in SN,
         NEW k \in 0 .. SnMod, Accept(r, ps, v, k)
  PROVE  /\ vr_next' \in SN
         /\ DOMAIN reorder' \subseteq SN /\ Range(reorder') \subseteq PDU
         /\ collecting' \in BOOLEAN /\ partial' \in Seq(Pieces)
         /\ delivered' \in Seq(Seq(Pieces))
<1> DEFINE held == [i \in 1 .. k |-> reorder[(v + i - 1) % SnMod]]
<1> USE AmConstants
<1>1. k \in Nat /\ v \in Nat
  BY DEF SN
<1>2. ASSUME NEW i \in 1 .. k  PROVE reorder[(v + i - 1) % SnMod] \in PDU
  <2>1. i - 1 \in 0 .. k - 1 /\ v + (i - 1) = v + i - 1
    BY <1>1
  <2>2. (v + (i - 1)) % SnMod \in DOMAIN reorder
    BY <2>1 DEF Accept, Drains
  <2> QED  BY <2>1, <2>2 DEF TypeOK, Range
<1>3. held \in Seq(PDU)
  BY <1>1, <1>2
<1>4. ps \o held \in Seq(PDU)
  <2> HIDE DEF held
  <2> QED  BY <1>3
<1>6. AcceptAll(r, ps \o held) \in Reassembly
  <2> HIDE DEF held
  <2> QED  BY <1>4, AcceptAllType
<1>7. /\ collecting' = AcceptAll(r, ps \o held).collecting
      /\ partial' = AcceptAll(r, ps \o held).partial
      /\ delivered' = AcceptAll(r, ps \o held).out
  BY DEF Accept
<1>8. collecting' \in BOOLEAN /\ partial' \in Seq(Pieces) /\ delivered' \in Seq(Seq(Pieces))
  <2> HIDE DEF held
  <2> QED  BY <1>6, <1>7 DEF Reassembly
<1>9. vr_next' \in SN
  <2>1. (v + k) % SnMod \in SN
    BY <1>1, ModRange DEF SN
  <2> QED  BY <2>1 DEF Accept
<1>10. DOMAIN reorder' \subseteq SN /\ Range(reorder') \subseteq PDU
  BY DEF Accept, Restrict, Range, TypeOK
<1> QED  BY <1>8, <1>9, <1>10

\* The duplicate filter holds only sequence numbers.
LEMMA RememberType ==
  ASSUME TypeOK, NEW sn \in SN  PROVE Remember(sn) \subseteq SN
BY DEF TypeOK, Remember

\* A reception, or a tick of AmRx, keeps the type of everything else.
LEMMA ReportType ==
  ASSUME fb \subseteq Status, vr_next' \in SN, holes' \subseteq SN,
         NEW needed \in BOOLEAN, Report(needed)
  PROVE  fb' \subseteq Status
<1>1. Cardinality(holes') \in Nat
  BY SnFinite, FS_CardinalityType
<1>2. Cardinality(holes') % CountMod \in 0 .. CountMod - 1
  BY <1>1, ModRange, AmConstants
<1>3. BuildStatus' \in Status
  BY <1>2 DEF BuildStatus, Status
<1> QED  BY <1>3 DEF Report

\* AmRx::rx keeps the types.
LEMMA RecvPduType ==
  ASSUME TypeOK, NEW p \in wire, RecvPdu(p)  PROVE TypeOK'
<1> USE AmConstants
<1>1. p \in PDU /\ p.sn \in SN /\ p.poll \in BOOLEAN
  BY DEF TypeOK, PDU
<1>2. wire' \subseteq PDU /\ UNCHANGED txVars
  BY DEF RecvPdu, TypeOK
<1>3. CASE RxDuplicate(p)
  BY <1>2, <1>3 DEF RxDuplicate, TypeOK, txVars, rxVars
<1>4. CASE RxStale(p)
  <2>1. seen' \subseteq SN
    BY <1>1, <1>4, RememberType DEF RxStale
  <2> QED  BY <2>1, <1>2, <1>4 DEF RxStale, TypeOK, txVars
<1>5. CASE RxAhead(p)
  <2>1. seen' \subseteq SN
    BY <1>1, <1>5, RememberType DEF RxAhead
  <2>2. vr_next .. p.sn - 1 \subseteq SN
    BY <1>1 DEF TypeOK, SN
  <2>3. holes' \subseteq SN
    BY <2>2, <1>5 DEF RxAhead, Lowest, TypeOK
  <2>4. DOMAIN reorder' \subseteq SN /\ Range(reorder') \subseteq PDU
    <3>1. DOMAIN Put(reorder, p.sn, p) = DOMAIN reorder \cup {p.sn}
      BY DEF Put
    <3>2. \A x \in DOMAIN Put(reorder, p.sn, p) : Put(reorder, p.sn, p)[x] \in PDU
      BY <1>1 DEF Put, TypeOK, Range
    <3>3. reorder' \in {reorder, Put(reorder, p.sn, p)}
      BY <1>5 DEF RxAhead
    <3>4. CASE reorder' = reorder
      BY <3>4 DEF TypeOK
    <3>5. CASE reorder' = Put(reorder, p.sn, p)
      BY <3>1, <3>2, <3>5, <1>1 DEF TypeOK, Range
    <3> QED  BY <3>3, <3>4, <3>5
  <2>5. vr_next' \in SN
    BY <1>5 DEF RxAhead, TypeOK
  <2>6. fb' \subseteq Status
    BY <1>1, <2>3, <2>5, <1>5, ReportType DEF RxAhead, TypeOK
  <2> QED  BY <2>1, <2>3, <2>4, <2>6, <1>2, <1>5 DEF RxAhead, TypeOK, txVars
<1>6. CASE RxInOrder(p)
  <2> DEFINE r == [collecting |-> collecting, partial |-> partial, out |-> delivered]
  <2>1. PICK k \in 0 .. SnMod : Accept(r, <<p>>, (p.sn + 1) % SnMod, k)
    BY <1>6 DEF RxInOrder
  <2>r. r \in Reassembly
    BY DEF TypeOK, Reassembly
  <2>2. (p.sn + 1) % SnMod \in SN
    <3>1. p.sn + 1 \in Int
      BY <1>1 DEF SN
    <3> QED  BY <3>1, ModRange DEF SN
  <2>3. <<p>> \in Seq(PDU)
    BY <1>1
  <2>4. /\ vr_next' \in SN
        /\ DOMAIN reorder' \subseteq SN /\ Range(reorder') \subseteq PDU
        /\ collecting' \in BOOLEAN /\ partial' \in Seq(Pieces)
        /\ delivered' \in Seq(Seq(Pieces))
    <3> HIDE DEF r
    <3> QED  BY <2>1, <2>2, <2>3, <2>r, AcceptType, ZenonT(40)
  <2>5. seen' \subseteq SN
    BY <1>1, <1>6, RememberType DEF RxInOrder
  <2>6. holes' \subseteq SN /\ fresh' = TRUE /\ rx_age' = rx_age
    BY <1>6 DEF RxInOrder, TypeOK
  <2>7. fb' \subseteq Status
    BY <1>1, <2>4, <2>6, <1>6, ReportType DEF RxInOrder, TypeOK
  <2> QED  BY <2>4, <2>5, <2>6, <2>7, <1>2 DEF TypeOK, txVars
<1> QED  BY <1>3, <1>4, <1>5, <1>6 DEF RecvPdu, Rx

\* AmRx::tick keeps the types.
LEMMA RxTickType ==
  ASSUME TypeOK, RxTick  PROVE TypeOK'
<1> USE AmConstants
<1>1. UNCHANGED <<txVars, wire>>
  BY DEF RxTick
<1>2. CASE RxTickIdle
  <2>1. rx_age' \in -1 .. TReorder /\ fresh' = FALSE
    BY <1>2 DEF RxTickIdle, RxAge, Oldest, TypeOK
  <2> QED  BY <1>1, <1>2, <2>1 DEF RxTickIdle, TypeOK, txVars
<1>3. CASE RxTickSkip
  <2> DEFINE r == [collecting |-> FALSE, partial |-> <<>>, out |-> delivered]
  <2>1. PICK h \in holes, k \in 0 .. SnMod :
             Accept(r, <<>>, (h + 1) % SnMod, k) /\ fresh' = (k > 0)
    BY <1>3 DEF RxTickSkip
  <2>r. r \in Reassembly
    BY DEF TypeOK, Reassembly
  <2>2. (h + 1) % SnMod \in SN
    <3>1. h \in Int
      BY DEF TypeOK, SN
    <3> QED  BY <3>1, ModRange DEF SN
  <2>3. <<>> \in Seq(PDU)
    OBVIOUS
  <2>4. /\ vr_next' \in SN
        /\ DOMAIN reorder' \subseteq SN /\ Range(reorder') \subseteq PDU
        /\ collecting' \in BOOLEAN /\ partial' \in Seq(Pieces)
        /\ delivered' \in Seq(Seq(Pieces))
    <3> HIDE DEF r
    <3> QED  BY <2>1, <2>2, <2>3, <2>r, AcceptType
  <2>5. holes' = {} /\ rx_age' = 0 /\ seen' = seen /\ fresh' \in BOOLEAN
    BY <1>3, <2>1 DEF RxTickSkip
  <2>6. fb' \subseteq Status
    BY <2>4, <2>5, <1>3, ReportType DEF RxTickSkip, TypeOK
  <2> QED  BY <1>1, <2>4, <2>5, <2>6 DEF TypeOK, txVars
<1> QED  BY <1>2, <1>3 DEF RxTick

\* The empty map has an empty domain and range.
LEMMA EmptyTypes ==
  /\ DOMAIN <<>> = {} /\ Range(<<>>) = {} /\ Len(<<>>) = 0
  /\ <<>> \in Seq(PDU) /\ <<>> \in Seq(Pieces) /\ <<>> \in Seq(Seq(Pieces))
BY DEF Range

\* Every step keeps the types.
LEMMA TypeStep == TypeOK /\ [Next]_vars => TypeOK'
<1> SUFFICES ASSUME TypeOK, [Next]_vars  PROVE TypeOK'
  OBVIOUS
<1>1. ASSUME NEW n \in 1 .. MaxSegs, NEW force \in BOOLEAN, Tx(n, force)
      PROVE  TypeOK'
  BY <1>1, TxType
<1>2. ASSUME NEW p \in wire, RecvPdu(p)  PROVE TypeOK'
  BY <1>2, RecvPduType
<1>3. ASSUME NEW s \in fb, RecvStatus(s)  PROVE TypeOK'
  BY <1>3, OnStatusType
<1>4. ASSUME NEW p \in wire, LosePdu(p)  PROVE TypeOK'
  BY <1>4 DEF LosePdu, TypeOK, txVars, rxVars
<1>5. ASSUME NEW s \in fb, LoseStatus(s)  PROVE TypeOK'
  BY <1>5 DEF LoseStatus, TypeOK, txVars, rxVars
<1>6. CASE Reset
  <2>1. /\ DOMAIN tx_buffer' \subseteq SN /\ Range(tx_buffer') \subseteq PDU
        /\ DOMAIN reorder' \subseteq SN /\ Range(reorder') \subseteq PDU
    BY <1>6, EmptyTypes DEF Reset, TxReset, RxReset
  <2>2. /\ next_sn' \in SN /\ since_poll' \in 0 .. PollEvery - 1
        /\ tx_age' \in 0 .. TPoll /\ nack_age' \in 0 .. TPoll
        /\ vr_next' \in SN /\ rx_age' \in -1 .. TReorder
    BY <1>6, AmConstants DEF Reset, TxReset, RxReset, SN
  <2>3. /\ seen' \subseteq SN /\ holes' \subseteq SN /\ wire' \subseteq PDU
        /\ fb' \subseteq Status /\ collecting' \in BOOLEAN /\ fresh' \in BOOLEAN
    BY <1>6 DEF Reset, TxReset, RxReset
  <2>4. /\ partial' \in Seq(Pieces) /\ sent' \in Seq(PDU)
        /\ submitted' \in Seq(Seq(Pieces)) /\ delivered' \in Seq(Seq(Pieces))
    BY <1>6, EmptyTypes DEF Reset, TxReset, RxReset
  <2>5. Len(submitted') <= Len(sent') /\ Len(sent') <= MaxPdus
    BY <1>6, EmptyTypes, AmConstants DEF Reset, TxReset, RxReset
  <2> QED  BY <2>1, <2>2, <2>3, <2>4, <2>5, SMTT(30) DEF TypeOK
<1>7. CASE UNCHANGED vars
  BY <1>7 DEF vars, TypeOK, txVars, rxVars
<1> QED  BY <1>1, <1>2, <1>3, <1>4, <1>5, <1>6, <1>7, TxTickType, RxTickType DEF Next

\* Every state of the AM bearer is well typed, whatever the constants.
THEOREM TypeCorrect == Spec => []TypeOK
<1>1. Init => TypeOK
  <2> SUFFICES ASSUME Init PROVE TypeOK
    OBVIOUS
  <2>1. /\ DOMAIN tx_buffer \subseteq SN /\ Range(tx_buffer) \subseteq PDU
        /\ DOMAIN reorder \subseteq SN /\ Range(reorder) \subseteq PDU
    BY EmptyTypes DEF Init
  <2>2. /\ next_sn \in SN /\ since_poll \in 0 .. PollEvery - 1
        /\ tx_age \in 0 .. TPoll /\ nack_age \in 0 .. TPoll
        /\ vr_next \in SN /\ rx_age \in -1 .. TReorder
    BY AmConstants DEF Init, SN
  <2>3. /\ seen \subseteq SN /\ holes \subseteq SN /\ wire \subseteq PDU
        /\ fb \subseteq Status /\ collecting \in BOOLEAN /\ fresh \in BOOLEAN
    BY DEF Init
  <2>4. /\ partial \in Seq(Pieces) /\ sent \in Seq(PDU)
        /\ submitted \in Seq(Seq(Pieces)) /\ delivered \in Seq(Seq(Pieces))
    BY EmptyTypes DEF Init
  <2>5. Len(submitted) <= Len(sent) /\ Len(sent) <= MaxPdus
    BY EmptyTypes, AmConstants DEF Init
  <2> QED  BY <2>1, <2>2, <2>3, <2>4, <2>5 DEF TypeOK
<1> QED  BY <1>1, TypeStep, PTL DEF Spec

-----------------------------------------------------------------------------
(* Reassembly *)

\* A nonempty sequence has a positive length.
LEMMA EmptySeq ==
  ASSUME NEW S, NEW s \in Seq(S), s # <<>>
  PROVE  Len(s) \in Nat \ {0}
OBVIOUS

\* Two sequences with the same length and the same members are the same.
LEMMA SeqExt ==
  ASSUME NEW S, NEW s \in Seq(S), NEW t \in Seq(S), Len(s) = Len(t),
         \A i \in 1 .. Len(s) : s[i] = t[i]
  PROVE  s = t
OBVIOUS

\* The PDU with SN v starts the SDU after the Done(v) complete ones, or goes on
\* with the piece after the one before it.
LEMMA NextPiece ==
  ASSUME TypeOK, SegmentsInv, NEW v \in 0 .. Len(sent) - 1
  PROVE  LET p == sent[v + 1] IN
         /\ p \in PDU /\ p.data = <<SduOf(p), PieceOf(p)>>
         /\ SduOf(p) \in 1 .. Len(submitted) /\ PieceOf(p) \in 1 .. Len(submitted[SduOf(p)])
         /\ submitted[SduOf(p)] \in Seq(Pieces) /\ Len(submitted[SduOf(p)]) \in Nat
         /\ Done(v) = SduOf(p) - 1
         /\ Done(v + 1) = IF IsLastPiece(p) THEN SduOf(p) ELSE SduOf(p) - 1
         /\ v > 0 /\ ~ IsLastPiece(sent[v]) =>
              sent[v].data = <<SduOf(p), PieceOf(p) - 1>> /\ PieceOf(p) > 1
         /\ PieceOf(p) > 1 =>
              v > 0 /\ ~ IsLastPiece(sent[v]) /\ sent[v].data = <<SduOf(p), PieceOf(p) - 1>>
<1> DEFINE p == sent[v + 1]
<1>1. v + 1 \in 1 .. Len(sent) /\ (v + 1) - 1 = v /\ v \in Nat
  BY DEF TypeOK
<1>2. p \in PDU /\ p.data \in Pieces
  <2>1. sent \in Seq(PDU)
    BY DEF TypeOK
  <2>2. p \in PDU
    BY <1>1, <2>1
  <2> QED  BY <2>2 DEF PDU
<1>3. p.data = <<SduOf(p), PieceOf(p)>>
  <2>1. p.data = <<p.data[1], p.data[2]>>
    BY <1>2 DEF Pieces
  <2> QED  BY <2>1 DEF SduOf, PieceOf
<1>4. /\ SduOf(p) \in 1 .. Len(submitted)
      /\ PieceOf(p) \in 1 .. Len(submitted[SduOf(p)])
      /\ PieceOf(p) > 1 => v + 1 > 1 /\ sent[v].data = <<SduOf(p), PieceOf(p) - 1>>
      /\ PieceOf(p) = 1 => \/ v + 1 = 1 /\ SduOf(p) = 1
                           \/ /\ v + 1 > 1 /\ SduOf(sent[v]) = SduOf(p) - 1
                              /\ IsLastPiece(sent[v])
  <2>1. IsSegment(v + 1)
    BY <1>1 DEF SegmentsInv
  <2> QED  BY <1>1, <2>1 DEF IsSegment
<1>5. submitted[SduOf(p)] \in Seq(Pieces) /\ Len(submitted[SduOf(p)]) \in Nat
  <2>1. submitted \in Seq(Seq(Pieces))
    BY DEF TypeOK
  <2> QED  BY <1>4, <2>1
<1>6. PieceOf(p) \in Nat /\ SduOf(p) \in Nat
  BY <1>4, <1>5
<1>9. Done(v + 1) = IF IsLastPiece(p) THEN SduOf(p) ELSE SduOf(p) - 1
  BY <1>1, SMTT(30) DEF Done
<1> HIDE DEF p
<1>7. ASSUME PieceOf(p) > 1
      PROVE  /\ Done(v) = SduOf(p) - 1 /\ v > 0 /\ ~ IsLastPiece(sent[v])
             /\ sent[v].data = <<SduOf(p), PieceOf(p) - 1>>
  <2>1. v > 0 /\ SduOf(sent[v]) = SduOf(p) /\ PieceOf(sent[v]) = PieceOf(p) - 1
    BY <1>1, <1>4, <1>7, SMTT(30) DEF SduOf, PieceOf
  <2>2. ~ IsLastPiece(sent[v])
    BY <2>1, <1>4, <1>5, <1>6 DEF IsLastPiece
  <2>3. Done(v) = SduOf(p) - 1
    BY <2>1, <2>2, <1>1, SMTT(30) DEF Done
  <2> QED  BY <1>4, <1>7, <2>1, <2>2, <2>3
<1>8. ASSUME PieceOf(p) = 1
      PROVE  Done(v) = SduOf(p) - 1 /\ (v > 0 => IsLastPiece(sent[v]))
  <2>1. Done(v) = SduOf(p) - 1
    BY <1>1, <1>4, <1>6, <1>8 DEF Done
  <2>2. v > 0 => IsLastPiece(sent[v])
    BY <1>1, <1>4, <1>8
  <2> QED  BY <2>1, <2>2
<1>10. PieceOf(p) > 1 \/ PieceOf(p) = 1
  BY <1>4, <1>5
<1>11. Done(v) = SduOf(p) - 1
  BY <1>7, <1>8, <1>10
<1>12. v > 0 /\ ~ IsLastPiece(sent[v]) =>
         sent[v].data = <<SduOf(p), PieceOf(p) - 1>> /\ PieceOf(p) > 1
  BY <1>7, <1>8, <1>10
<1> QED  BY <1>2, <1>3, <1>4, <1>5, <1>7, <1>9, <1>11, <1>12, Zenon DEF p

\* Handing up the SDU that the PDU with SN v completes.
LEMMA DeliverOne ==
  ASSUME TypeOK, SegmentsInv, NEW v \in 0 .. Len(sent) - 1,
         NEW out \in Seq(Seq(Pieces)), DeliveredUpTo(out, v),
         IsLastPiece(sent[v + 1]), NEW sdu, sdu = submitted[SduOf(sent[v + 1])]
  PROVE  DeliveredUpTo(Append(out, sdu), v + 1)
<1> DEFINE K == SduOf(sent[v + 1])
           o == Append(out, sdu)
<1>1. /\ K \in 1 .. Len(submitted) /\ K \in Nat /\ Done(v) = K - 1 /\ Done(v + 1) = K
      /\ submitted[K] \in Seq(Pieces)
  <2>1. Len(submitted) \in Nat
    BY DEF TypeOK
  <2> QED  BY <2>1, NextPiece
<1>2. submitted[K] # <<>> /\ submitted[K][1][1] = K
  <2>1. Len(submitted[K]) \in Nat \ {0}
    BY <1>1, EmptySeq DEF SegmentsInv
  <2>2. 1 \in 1 .. Len(submitted[K])
    BY <2>1
  <2>3. submitted[K][1] = <<K, 1>>
    BY <1>1, <2>2 DEF SegmentsInv
  <2> QED  BY <1>1, <2>3 DEF SegmentsInv
<1>3. /\ o \in Seq(Seq(Pieces)) /\ Len(o) = Len(out) + 1 /\ Len(out) \in Nat
      /\ o[Len(out) + 1] = sdu /\ \A j \in 1 .. Len(out) : o[j] = out[j]
  BY <1>1, SMTT(30)
<1> HIDE DEF o, K
<1>4. ASSUME NEW j \in 1 .. Len(o)
      PROVE  /\ o[j][1][1] \in 1 .. K /\ o[j] = submitted[o[j][1][1]]
             /\ j < Len(o) => o[j][1][1] \in 1 .. K - 1
  <2>1. CASE j = Len(o)
    BY <2>1, <1>1, <1>2, <1>3, SMTT(30) DEF K
  <2>2. CASE j \in 1 .. Len(out)
    <3>1. out[j][1][1] \in 1 .. Done(v) /\ out[j] = submitted[out[j][1][1]]
      BY <2>2 DEF DeliveredUpTo
    <3>2. o[j] = out[j]
      BY <2>2, <1>3, SMTT(30)
    <3>3. K \in Nat /\ Done(v) = K - 1
      BY <1>1
    <3>4. \A x \in 1 .. K - 1 : x \in 1 .. K
      BY <3>3
    <3>5. out[j][1][1] \in 1 .. K - 1
      BY <3>1, <3>3
    <3> QED  BY <3>1, <3>2, <3>4, <3>5, SMTT(30)
  <2> QED  BY <2>1, <2>2, <1>3, SMTT(30)
<1>5. o[Len(o)][1][1] = K
  BY <1>2, <1>3 DEF K
<1>6. ASSUME NEW i \in 1 .. Len(o), NEW j \in 1 .. Len(o), i < j
      PROVE  o[i][1][1] < o[j][1][1]
  <2>1. CASE j = Len(o)
    <3>1. o[i][1][1] \in 1 .. K - 1
      BY <1>4, <1>6, <2>1
    <3> QED  BY <1>1, <1>5, <2>1, <3>1, SMTT(30)
  <2>2. CASE j \in 1 .. Len(out)
    <3>1. i \in 1 .. Len(out)
      BY <1>3, <1>6, <2>2
    <3> QED  BY <1>3, <1>6, <2>2, <3>1 DEF DeliveredUpTo
  <2> QED  BY <2>1, <2>2, <1>3, SMTT(30)
<1>7. ASSUME TReorder = 0
      PROVE  Len(o) = K /\ \A j \in 1 .. Len(o) : o[j][1][1] = j
  <2>1. Len(out) = K - 1 /\ \A j \in 1 .. Len(out) : out[j][1][1] = j
    <3>1. Len(out) = Done(v) /\ \A j \in 1 .. Len(out) : out[j][1][1] = j
      BY <1>7, ZenonT(40) DEF DeliveredUpTo
    <3>2. Done(v) = K - 1
      BY <1>1
    <3> QED  BY <3>1, <3>2, Zenon
  <2>2. Len(o) = K
    BY <2>1, <1>1, <1>3
  <2>3. ASSUME NEW j \in 1 .. Len(o)  PROVE o[j][1][1] = j
    <3>1. CASE j = Len(o)
      BY <3>1, <2>2, <1>5
    <3>2. CASE j \in 1 .. Len(out)
      BY <3>2, <2>1, <1>3
    <3> QED  BY <3>1, <3>2, <1>3
  <2> QED  BY <2>2, <2>3
<1>8. DeliveredUpTo(o, v + 1)
  BY <1>1, <1>4, <1>6, <1>7, SMTT(30) DEF DeliveredUpTo
<1> QED  BY <1>8 DEF o

\* Passing a PDU that completes nothing, or that is given up.
LEMMA DeliverNone ==
  ASSUME NEW out \in Seq(Seq(Pieces)), NEW v, NEW w, DeliveredUpTo(out, v),
         Done(v) \in Nat, Done(w) \in Nat, Done(v) <= Done(w),
         TReorder = 0 => Done(v) = Done(w)
  PROVE  DeliveredUpTo(out, w)
<1>1. ASSUME NEW j \in 1 .. Len(out)
      PROVE  out[j][1][1] \in 1 .. Done(w)
  BY <1>1, SMTT(30) DEF DeliveredUpTo
<1> QED  BY <1>1 DEF DeliveredUpTo

\* accept_in_order on the PDU with SN v moves the reassembly on by one SN.
LEMMA AcceptStep ==
  ASSUME TypeOK, SegmentsInv, NEW v \in 0 .. Len(sent) - 1,
         NEW r \in Reassembly, Reassembled(r, v)
  PROVE  Reassembled(AcceptInOrder(r, sent[v + 1]), v + 1)
<1> DEFINE p == sent[v + 1]
           K == SduOf(p)
           I == PieceOf(p)
           a == AcceptInOrder(r, p)
<1>1. /\ p \in PDU /\ p.data = <<K, I>>
      /\ K \in 1 .. Len(submitted) /\ I \in 1 .. Len(submitted[K])
      /\ submitted[K] \in Seq(Pieces) /\ Len(submitted[K]) \in Nat
      /\ Done(v) = K - 1
      /\ Done(v + 1) = IF IsLastPiece(p) THEN K ELSE K - 1
      /\ v > 0 /\ ~ IsLastPiece(sent[v]) => sent[v].data = <<K, I - 1>> /\ I > 1
      /\ I > 1 => v > 0 /\ ~ IsLastPiece(sent[v]) /\ sent[v].data = <<K, I - 1>>
  BY NextPiece, SMTT(30)
<1>2. K \in Nat /\ I \in Nat /\ v \in Nat /\ (I = 1 \/ I > 1)
  <2>1. Len(submitted) \in Nat /\ Len(sent) \in Nat
    BY SMTT(30) DEF TypeOK
  <2> HIDE DEF K, I
  <2> QED  BY <1>1, <2>1
<1>3. p.fi = IF I = 1 THEN IF IsLastPiece(p) THEN "complete" ELSE "first"
             ELSE IF IsLastPiece(p) THEN "last" ELSE "middle"
  <2>1. IsSegment(v + 1)
    BY <1>2 DEF SegmentsInv
  <2> QED  BY <2>1 DEF IsSegment
<1>4. \A x \in 1 .. Len(submitted[K]) : submitted[K][x] = <<K, x>>
  <2> HIDE DEF K
  <2> QED  BY <1>1, SMTT(30) DEF SegmentsInv
<1>5. /\ r.collecting \in BOOLEAN /\ r.partial \in Seq(Pieces)
      /\ r.out \in Seq(Seq(Pieces)) /\ Len(r.partial) \in Nat
  BY DEF Reassembly
<1>6. DeliveredUpTo(r.out, v)
  BY DEF Reassembled
<1>7. r.collecting => /\ I > 1 /\ Len(r.partial) = I - 1
                      /\ \A x \in 1 .. I - 1 : r.partial[x] = <<K, x>>
  <2>1. r.collecting => /\ v > 0 /\ ~ IsLastPiece(sent[v])
                        /\ Len(r.partial) = PieceOf(sent[v])
                        /\ \A x \in 1 .. Len(r.partial) :
                             r.partial[x] = <<SduOf(sent[v]), x>>
    BY DEF Reassembled, PartialUpTo
  <2>2. sent[v].data = <<K, I - 1>> => SduOf(sent[v]) = K /\ PieceOf(sent[v]) = I - 1
    <3> HIDE DEF K, I
    <3> QED  BY DEF SduOf, PieceOf
  <2> HIDE DEF p, K, I
  <2> QED  BY <1>1, <2>1, <2>2, ZenonT(40)
<1>8. TReorder = 0 /\ I > 1 => r.collecting
  BY <1>1, ZenonT(40) DEF Reassembled, PartialUpTo
<1>p. p.data \in Pieces
  BY <1>1 DEF PDU
<1>c. a.collecting <=> p.fi = "first" \/ (r.collecting /\ p.fi # "last")
  BY <1>5 DEF AcceptInOrder
<1> HIDE DEF K, I
<1>9. CASE IsLastPiece(p)
  <2>1. I = Len(submitted[K])
    BY <1>9, SMTT(30) DEF IsLastPiece, K, I
  <2>2. ~ a.collecting
    <3> HIDE DEF a
    <3>1. p.fi = IF I = 1 THEN "complete" ELSE "last"
      BY <1>3, <1>9
    <3>2. r.collecting => I # 1
      BY <1>2, <1>7
    <3> HIDE DEF p
    <3> QED  BY <1>c, <3>1, <3>2
  <2>3. PartialUpTo(a, v + 1)
    BY <1>2, <1>9, <2>2, SMTT(30) DEF PartialUpTo
  <2>4. CASE I = 1
    <3>1. <<p.data>> = submitted[K]
      <4>1. /\ <<p.data>> \in Seq(Pieces) /\ Len(<<p.data>>) = 1
            /\ \A x \in 1 .. 1 : <<p.data>>[x] = submitted[K][x]
        BY <1>p, <1>1, <1>4, <2>1, <2>4
      <4> HIDE DEF p
      <4> QED  BY <4>1, <1>1, <2>1, <2>4, SeqExt
    <3>2. a.out = Append(r.out, <<p.data>>)
      BY <1>3, <1>9, <2>4 DEF AcceptInOrder
    <3> QED  BY <3>1, <3>2, <1>5, <1>6, <1>9, <2>3, DeliverOne DEF Reassembled, K
  <2>5. CASE I > 1 /\ r.collecting
    <3>1. Append(r.partial, p.data) \in Seq(Pieces) /\ Len(Append(r.partial, p.data)) = I
      BY <1>p, <1>2, <1>5, <1>7, <2>5
    <3>2. ASSUME NEW x \in 1 .. I  PROVE Append(r.partial, p.data)[x] = submitted[K][x]
      <4>1. submitted[K][x] = <<K, x>>
        BY <1>4, <2>1
      <4>2. CASE x = I
        BY <4>1, <4>2, <1>1, <1>2, <1>5, <1>7, <2>5, SMTT(30)
      <4>3. CASE x \in 1 .. I - 1
        BY <4>1, <4>3, <1>2, <1>5, <1>7, <2>5, SMTT(30)
      <4>4. x = I \/ x \in 1 .. I - 1
        BY <1>2
      <4> QED  BY <4>2, <4>3, <4>4
    <3>3. Append(r.partial, p.data) = submitted[K]
      BY <1>1, <2>1, <3>1, <3>2, SeqExt
    <3>4. a.out = Append(r.out, Append(r.partial, p.data))
      BY <1>3, <1>9, <2>5 DEF AcceptInOrder
    <3> QED  BY <3>3, <3>4, <1>5, <1>6, <1>9, <2>3, DeliverOne, SMTT(30) DEF Reassembled, K
  <2>6. CASE I > 1 /\ ~ r.collecting
    <3>1. a.out = r.out
      BY <1>3, <1>9, <2>6 DEF AcceptInOrder
    <3>2. TReorder # 0
      BY <1>8, <2>6
    <3>3. /\ Done(v) \in Nat /\ Done(v + 1) \in Nat /\ Done(v) <= Done(v + 1)
      BY <1>1, <1>2, <1>9
    <3>4. DeliveredUpTo(r.out, v + 1)
      BY <3>2, <3>3, <1>5, <1>6, DeliverNone, SMTT(30)
    <3> QED  BY <3>1, <3>4, <2>3 DEF Reassembled
  <2> HIDE DEF a, p
  <2> QED  BY <1>2, <2>4, <2>5, <2>6
<1>10. CASE ~ IsLastPiece(p)
  <2>1. a.out = r.out
    BY <1>3, <1>10, SMTT(30) DEF AcceptInOrder
  <2>2. DeliveredUpTo(a.out, v + 1)
    <3>1. Done(v + 1) = Done(v) /\ Done(v) \in Nat
      BY <1>1, <1>2, <1>10, SMTT(30)
    <3> QED  BY <2>1, <3>1, <1>5, <1>6, DeliverNone
  <2>3. CASE I = 1
    <3>1. a.collecting /\ a.partial = <<p.data>>
      BY <1>3, <1>10, <2>3 DEF AcceptInOrder
    <3>2. Len(a.partial) = I /\ \A x \in 1 .. I : a.partial[x] = <<K, x>>
      BY <3>1, <1>1, <2>3
    <3>3. PartialUpTo(a, v + 1)
      <4> HIDE DEF a
      <4> QED  BY <3>1, <3>2, <1>2, <1>10 DEF PartialUpTo, I, K
    <3> QED  BY <3>3, <2>2 DEF Reassembled
  <2>4. CASE I > 1 /\ r.collecting
    <3>0. p.fi = "middle"
      BY <1>2, <1>3, <1>10, <2>4
    <3>a. a.partial = Append(r.partial, p.data)
      BY <3>0, <1>5, <2>4 DEF AcceptInOrder
    <3>1. a.collecting /\ a.partial = Append(r.partial, p.data)
      <4> HIDE DEF a, p
      <4> QED  BY <3>0, <3>a, <1>c, <2>4, SMTT(30)
    <3>2. Len(a.partial) = I /\ \A x \in 1 .. I : a.partial[x] = <<K, x>>
      <4>1. Len(r.partial) = I - 1 /\ \A x \in 1 .. I - 1 : r.partial[x] = <<K, x>>
        BY <1>7, <2>4
      <4>2. p.data = <<K, I>>
        BY <1>1
      <4> DEFINE b == Append(r.partial, p.data)
      <4> HIDE DEF a, p
      <4>3. Len(b) = I /\ b[I] = p.data /\ \A x \in 1 .. I - 1 : b[x] = r.partial[x]
        BY <4>1, <1>2, <1>5
      <4>4. a.partial = b
        BY <3>1
      <4> HIDE DEF b
      <4> QED  BY <4>1, <4>2, <4>3, <4>4, <1>2
    <3>3. PartialUpTo(a, v + 1)
      <4> HIDE DEF a
      <4> QED  BY <3>1, <3>2, <1>2, <1>10 DEF PartialUpTo, I, K
    <3> QED  BY <3>3, <2>2 DEF Reassembled
  <2>5. CASE I > 1 /\ ~ r.collecting
    <3>1. ~ a.collecting
      BY <1>3, <1>5, <1>10, <2>5 DEF AcceptInOrder
    <3> QED  BY <3>1, <2>2, <2>5, <1>8 DEF Reassembled, PartialUpTo
  <2> HIDE DEF a, p
  <2> QED  BY <1>2, <2>3, <2>4, <2>5
<1> QED  BY <1>9, <1>10

\* A later window edge has no fewer complete SDUs below it.
LEMMA DoneMonotone ==
  ASSUME TypeOK, SegmentsInv, NEW v \in 0 .. Len(sent), NEW w \in v .. Len(sent)
  PROVE  Done(v) \in Nat /\ Done(w) \in Nat /\ Done(v) <= Done(w)
<1>1. Len(sent) \in Nat /\ v \in Nat /\ w \in Nat
  BY DEF TypeOK
<1>2. ASSUME NEW j \in 1 .. Len(sent)
      PROVE  /\ SduOf(sent[j]) \in 1 .. Len(submitted) /\ SduOf(sent[j]) \in Nat
             /\ PieceOf(sent[j]) \in 1 .. Len(submitted[SduOf(sent[j])])
             /\ Done(j) = IF IsLastPiece(sent[j]) THEN SduOf(sent[j]) ELSE SduOf(sent[j]) - 1
             /\ Done(j) \in Nat
  <2>1. /\ SduOf(sent[j]) \in 1 .. Len(submitted)
        /\ PieceOf(sent[j]) \in 1 .. Len(submitted[SduOf(sent[j])])
    BY DEF SegmentsInv, IsSegment
  <2>2. Done(j) = IF IsLastPiece(sent[j]) THEN SduOf(sent[j]) ELSE SduOf(sent[j]) - 1
    BY <1>1 DEF Done
  <2> QED  BY <2>1, <2>2, SMTT(30) DEF TypeOK
<1>3. Done(0) = 0
  BY DEF Done
<1>4. CASE v = 0
  BY <1>1, <1>2, <1>3, <1>4
<1>5. CASE v > 0 /\ v = w
  BY <1>1, <1>2, <1>5
<1>6. CASE v > 0 /\ v < w
  <2>1. v \in 1 .. Len(sent) /\ w \in 1 .. Len(sent) /\ v \in 1 .. w - 1
    BY <1>1, <1>6
  <2>2. \/ SduOf(sent[v]) < SduOf(sent[w])
        \/ SduOf(sent[v]) = SduOf(sent[w]) /\ PieceOf(sent[v]) < PieceOf(sent[w])
    BY <2>1 DEF SegmentsInv, IsSegment
  <2>a. /\ SduOf(sent[v]) \in Nat /\ SduOf(sent[w]) \in 1 .. Len(submitted)
        /\ SduOf(sent[w]) \in Nat
        /\ PieceOf(sent[w]) \in 1 .. Len(submitted[SduOf(sent[w])])
        /\ PieceOf(sent[v]) \in 1 .. Len(submitted[SduOf(sent[v])])
        /\ Done(v) = IF IsLastPiece(sent[v]) THEN SduOf(sent[v]) ELSE SduOf(sent[v]) - 1
        /\ Done(w) = IF IsLastPiece(sent[w]) THEN SduOf(sent[w]) ELSE SduOf(sent[w]) - 1
        /\ Done(v) \in Nat /\ Done(w) \in Nat
    BY <2>1, <1>2
  <2>3. CASE SduOf(sent[v]) < SduOf(sent[w])
    BY <2>a, <2>3
  <2>4. CASE SduOf(sent[v]) = SduOf(sent[w]) /\ PieceOf(sent[v]) < PieceOf(sent[w])
    <3>1. Len(submitted[SduOf(sent[w])]) \in Nat
      <4>1. submitted \in Seq(Seq(Pieces))
        BY DEF TypeOK
      <4>2. submitted[SduOf(sent[w])] \in Seq(Pieces)
        BY <4>1, <2>a
      <4> QED  BY <4>2
    <3>2. ~ IsLastPiece(sent[v])
      BY <2>a, <2>4, <3>1, SMTT(30) DEF IsLastPiece
    <3> QED  BY <2>a, <2>4, <3>2
  <2> QED  BY <2>2, <2>3, <2>4
<1> QED  BY <1>1, <1>4, <1>5, <1>6

\* ps are the PDUs from SN u on.
RunFrom(ps, u) == \A i \in 1 .. Len(ps) : ps[i] = sent[u + i]

\* The window edge, hold area and reassembly after draining k PDUs from v on.
DrainedTo(v, k) ==
  /\ v + k <= Len(sent) /\ vr_next' = v + k
  /\ \A i \in 0 .. k - 1 : (v + i) % SnMod = v + i
  /\ DOMAIN reorder' = DOMAIN reorder \ (v .. v + k - 1)
  /\ \A sn \in DOMAIN reorder' : reorder'[sn] = reorder[sn]
  /\ v + k \notin DOMAIN reorder
  /\ Reassembled([collecting |-> collecting', partial |-> partial',
                  out |-> delivered'], v + k)

\* What AmRx::rx and AmRx::tick do once they settled on the new window edge v:
\* the PDUs they accept are the next ones the transmitter built.
LEMMA AcceptRun ==
  ASSUME NoWrap, TypeOK, SnNamesPdu, SegmentsInv,
         NEW r \in Reassembly, NEW ps \in Seq(PDU), NEW u \in Nat, NEW v \in Nat,
         v = u + Len(ps), v <= Len(sent),
         RunFrom(ps, u), NEW k \in 0 .. SnMod, Accept(r, ps, v, k), Reassembled(r, u)
  PROVE  DrainedTo(v, k)
<1> DEFINE held == [i \in 1 .. k |-> reorder[(v + i - 1) % SnMod]]
           all == ps \o held
           R == {q \in (0 .. Len(all)) \X Reassembly : Reassembled(q[2], u + q[1])}
<1>1. /\ k \in Nat /\ Len(sent) \in Nat /\ Len(ps) \in Nat
      /\ Len(sent) < SnMod /\ SnMod \in Nat \ {0}
  BY AmConstants DEF NoWrap, TypeOK
<1>2. v + k <= Len(sent)
  <2> SUFFICES ASSUME v + k > Len(sent)  PROVE FALSE
    BY <1>1
  <2> DEFINE i == Len(sent) - v
  <2>1. i \in 0 .. k - 1 /\ v + i = Len(sent) /\ Len(sent) \in 0 .. SnMod - 1
    BY <1>1
  <2>2. (v + i) % SnMod \in DOMAIN reorder
    BY <2>1 DEF Accept, Drains
  <2>3. (v + i) % SnMod = Len(sent)
    BY <2>1, <1>1, ModSmall
  <2> QED  BY <2>2, <2>3, <1>1 DEF SnNamesPdu
<1>3. \A i \in 0 .. k : (v + i) % SnMod = v + i
  <2> SUFFICES ASSUME NEW i \in 0 .. k  PROVE (v + i) % SnMod = v + i
    OBVIOUS
  <2>1. v + i \in 0 .. SnMod - 1
    BY <1>1, <1>2
  <2> QED  BY <2>1, <1>1, ModSmall
<1>4. vr_next' = v + k /\ k < SnMod
  <2>1. k \in 0 .. k /\ k < SnMod
    BY <1>1, <1>2
  <2>2. (v + k) % SnMod = v + k
    BY <2>1, <1>3
  <2> QED  BY <2>1, <2>2 DEF Accept
<1>5. v + k \notin DOMAIN reorder
  <2>1. (v + k) % SnMod = v + k
    <3>1. k \in 0 .. k
      BY <1>1
    <3> QED  BY <3>1, <1>3
  <2> QED  BY <1>4, <2>1 DEF Accept, Drains
<1>6. /\ DOMAIN reorder' = DOMAIN reorder \ (v .. v + k - 1)
      /\ \A sn \in DOMAIN reorder' : reorder'[sn] = reorder[sn]
  <2> DEFINE gone == {(v + i) % SnMod : i \in 0 .. k - 1}
  <2>1. ASSUME NEW x \in gone  PROVE x \in v .. v + k - 1
    <3>1. PICK i \in 0 .. k - 1 : x = (v + i) % SnMod
      OBVIOUS
    <3>2. i \in 0 .. k
      BY <1>1
    <3>3. x = v + i
      BY <3>1, <3>2, <1>3
    <3> QED  BY <3>3, <1>1
  <2>2. ASSUME NEW x \in v .. v + k - 1  PROVE x \in gone
    <3> DEFINE i == x - v
    <3>1. i \in 0 .. k - 1 /\ i \in 0 .. k /\ v + i = x
      BY <1>1
    <3>2. (v + i) % SnMod = x
      BY <3>1, <1>3
    <3> QED  BY <3>1, <3>2
  <2>a. gone = v .. v + k - 1
    BY <2>1, <2>2
  <2>3. reorder' = Restrict(reorder, DOMAIN reorder \ (v .. v + k - 1))
    BY <2>a DEF Accept
  <2> QED  BY <2>3 DEF Restrict
<1>7. ASSUME NEW i \in 1 .. k
      PROVE  reorder[(v + i - 1) % SnMod] = sent[v + i] /\ sent[v + i] \in PDU
  <2>1. i - 1 \in 0 .. k - 1 /\ v + (i - 1) = v + i - 1 /\ (v + i - 1) + 1 = v + i
    BY <1>1
  <2>2. (v + i - 1) % SnMod = v + i - 1
    <3>1. i - 1 \in 0 .. k
      BY <1>1
    <3>2. (v + (i - 1)) % SnMod = v + (i - 1)
      BY <3>1, <1>3
    <3> QED  BY <3>2, <2>1
  <2>3. v + i - 1 \in DOMAIN reorder
    BY <2>1, <2>2 DEF Accept, Drains
  <2>4. v + i \in 1 .. Len(sent) /\ sent \in Seq(PDU)
    BY <1>1, <1>2 DEF TypeOK
  <2> QED  BY <2>1, <2>2, <2>3, <2>4 DEF SnNamesPdu
<1>8. held \in Seq(PDU) /\ Len(held) = k
  <2>1. \A i \in 1 .. k : reorder[(v + i - 1) % SnMod] \in PDU
    BY <1>7
  <2> QED  BY <2>1, <1>1
<1>9. all \in Seq(PDU) /\ Len(all) = Len(ps) + k
  <2> HIDE DEF held
  <2>1. all \in Seq(PDU)
    BY <1>8
  <2>2. Len(all) = Len(ps) + Len(held)
    BY <1>8
  <2> QED  BY <2>1, <2>2, <1>8
<1>10. ASSUME NEW i \in 1 .. Len(all)  PROVE all[i] = sent[u + i]
  <2>1. CASE i \in 1 .. Len(ps)
    <3> HIDE DEF held
    <3> QED  BY <2>1, <1>1, <1>8 DEF RunFrom
  <2>2. CASE i \in Len(ps) + 1 .. Len(ps) + k
    <3>1. i - Len(ps) \in 1 .. k /\ v + (i - Len(ps)) = u + i
      BY <2>2, <1>1
    <3>2. held[i - Len(ps)] = sent[u + i]
      BY <3>1, <1>7
    <3>3. all[i] = held[i - Len(ps)]
      <4> HIDE DEF held
      <4> QED  BY <2>2, <1>1, <1>8
    <3> QED  BY <3>2, <3>3
  <2> QED  BY <2>1, <2>2, <1>1, <1>9
<1>12. <<0, r>> \in R
  BY <1>9, <1>1
<1>13. ASSUME NEW i \in 1 .. Len(all), NEW x, <<i - 1, x>> \in R
       PROVE  <<i, AcceptInOrder(x, all[i])>> \in R
  <2> HIDE DEF all, held
  <2>1. x \in Reassembly /\ Reassembled(x, u + (i - 1))
    BY <1>13
  <2>2. u + (i - 1) \in 0 .. Len(sent) - 1 /\ (u + (i - 1)) + 1 = u + i
    BY <1>1, <1>2, <1>9
  <2>3. Reassembled(AcceptInOrder(x, sent[u + i]), u + i)
    BY <2>1, <2>2, AcceptStep
  <2>4. all[i] \in PDU
    BY <1>9
  <2>5. AcceptInOrder(x, all[i]) \in Reassembly
    BY <2>1, <2>4, AcceptInOrderType
  <2>6. i \in 0 .. Len(all)
    OBVIOUS
  <2> QED  BY <2>3, <2>5, <2>6, <1>10
<1>14. <<Len(all), AcceptAll(r, all)>> \in R
  <2>1. Len(all) \in Nat
    BY <1>1, <1>9
  <2> HIDE DEF R, all
  <2> QED  BY <2>1, <1>12, <1>13, AcceptAllInduction
<1>15. AcceptAll(r, all) \in Reassembly /\ Reassembled(AcceptAll(r, all), v + k)
  <2> HIDE DEF all
  <2>1. u + Len(all) = v + k
    BY <1>1, <1>9
  <2> QED  BY <1>14, <2>1, SMTT(30)
<1>16. /\ collecting' = AcceptAll(r, all).collecting
       /\ partial' = AcceptAll(r, all).partial
       /\ delivered' = AcceptAll(r, all).out
  BY DEF Accept
<1>17. AcceptAll(r, all) = [collecting |-> collecting', partial |-> partial',
                            out |-> delivered']
  <2> HIDE DEF all
  <2> QED  BY <1>15, <1>16 DEF Reassembly
<1>18. \A i \in 0 .. k - 1 : (v + i) % SnMod = v + i
  <2> SUFFICES ASSUME NEW i \in 0 .. k - 1  PROVE (v + i) % SnMod = v + i
    OBVIOUS
  <2>1. i \in 0 .. k
    BY <1>1
  <2> QED  BY <2>1, <1>3
<1> HIDE DEF all
<1> QED  BY <1>2, <1>4, <1>5, <1>6, <1>15, <1>17, <1>18 DEF DrainedTo
=============================================================================
