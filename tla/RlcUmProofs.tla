----------------------------- MODULE RlcUmProofs -----------------------------
(* The UM receiver's window, duplicate filter and reorder timer.             *)
EXTENDS RlcUm, NatSetInduction

\* Below half the space the signed 16-bit distance is the difference.
LEMMA DistIsDifference ==
  ASSUME NoWrap, vr_next \in 0 .. MaxPdus, NEW sn \in 0 .. MaxPdus - 1
  PROVE  Dist(sn) = sn - vr_next
<1> DEFINE H == SnMod \div 2
<1>1. H \in Nat /\ H + H <= SnMod /\ MaxPdus <= H /\ SnMod \in Nat \ {0}
  BY UmConstants DEF NoWrap
<1>2. sn - vr_next + H \in 0 .. SnMod - 1
  BY <1>1, UmConstants
<1>3. (sn - vr_next + H) % SnMod = sn - vr_next + H
  BY <1>1, <1>2, ModSmall
<1>4. Dist(sn) = ((sn - vr_next + H) % SnMod) - H
  BY DEF Dist
<1> HIDE DEF H
<1> QED  BY <1>1, <1>3, <1>4, UmConstants

\* deliver_ready stops at the latest at the first SN not built yet.
LEMMA DrainStops ==
  ASSUME NoWrap, WindowInv, NEW v \in 0 .. built, NEW k \in 0 .. SnMod,
         Drains(buffer, v, k)
  PROVE  /\ v + k <= built /\ v + k < SnMod
         /\ \A i \in 0 .. k - 1 : (v + i) % SnMod = v + i
         /\ v + k \notin DOMAIN buffer
<1>1. /\ k \in Nat /\ v \in Nat /\ built \in Nat /\ built < SnMod
      /\ SnMod \in Nat \ {0}
  BY UmConstants DEF WindowInv, NoWrap
<1>2. v + k <= built
  <2> SUFFICES ASSUME v + k > built  PROVE FALSE
    BY <1>1
  <2> DEFINE i == built - v
  <2>1. i \in 0 .. k - 1 /\ v + i = built /\ built \in 0 .. SnMod - 1
    BY <1>1
  <2>2. (v + i) % SnMod \in DOMAIN buffer
    BY <2>1 DEF Drains
  <2>3. (v + i) % SnMod = built
    BY <2>1, <1>1, ModSmall
  <2> QED  BY <2>2, <2>3, <1>1 DEF WindowInv
<1>3. ASSUME NEW i \in 0 .. k  PROVE (v + i) % SnMod = v + i
  <2>1. v + i \in 0 .. SnMod - 1
    BY <1>1, <1>2
  <2> QED  BY <2>1, <1>1, ModSmall
<1>4. v + k \notin DOMAIN buffer
  <2>1. (v + k) % SnMod = v + k /\ k < SnMod
    BY <1>1, <1>2, <1>3
  <2> QED  BY <2>1 DEF Drains
<1> QED  BY <1>1, <1>2, <1>3, <1>4

\* The window edge and the hold area after delivering from v on.
LEMMA DeliverWindow ==
  ASSUME NoWrap, WindowInv, NEW r, NEW ps, NEW v \in 0 .. built,
         NEW k \in 0 .. SnMod, Deliver(r, ps, buffer, v, k)
  PROVE  /\ k \in Nat /\ vr_next' = v + k /\ v + k <= built
         /\ DOMAIN buffer' = DOMAIN buffer \ (v .. v + k - 1)
         /\ v + k \notin DOMAIN buffer
<1>1. Drains(buffer, v, k) /\ vr_next' = (v + k) % SnMod
      /\ DOMAIN buffer' = DOMAIN buffer \ {(v + i) % SnMod : i \in 0 .. k - 1}
  BY DEF Deliver, Restrict
<1>2. /\ v + k <= built /\ v + k < SnMod /\ v + k \notin DOMAIN buffer
      /\ \A i \in 0 .. k - 1 : (v + i) % SnMod = v + i
  BY <1>1, DrainStops
<1>3. k \in Nat /\ v \in Nat /\ SnMod \in Nat \ {0} /\ built \in Nat
  BY UmConstants DEF WindowInv
<1>4. vr_next' = v + k
  <2>1. v + k \in 0 .. SnMod - 1
    BY <1>2, <1>3
  <2> QED  BY <1>1, <1>3, <2>1, ModSmall
<1>5. {(v + i) % SnMod : i \in 0 .. k - 1} = v .. v + k - 1
  <2>1. {(v + i) % SnMod : i \in 0 .. k - 1} = {v + i : i \in 0 .. k - 1}
    BY <1>2
  <2>2. ASSUME NEW x \in v .. v + k - 1  PROVE x \in {v + i : i \in 0 .. k - 1}
    <3>1. x - v \in 0 .. k - 1 /\ v + (x - v) = x
      BY <1>3
    <3> QED  BY <3>1
  <2>3. {v + i : i \in 0 .. k - 1} \subseteq v .. v + k - 1
    BY <1>3
  <2> QED  BY <2>1, <2>2, <2>3
<1> QED  BY <1>1, <1>2, <1>3, <1>4, <1>5

\* Remembering an SN adds no other.
LEMMA RememberSubset ==
  ASSUME NEW sn  PROVE Remember(sn) \subseteq seen \cup {sn}
BY DEF Remember

\* UmRx::rx: each of its five outcomes keeps the invariant.
LEMMA RecvPduWindow ==
  ASSUME NoWrap, WindowInv, NEW p \in wire, RecvPdu(p)  PROVE WindowInv'
<1>1. /\ built' = built /\ next_sn' = next_sn /\ wire' \subseteq wire
      /\ built \in Nat /\ vr_next \in Nat /\ p.sn \in 0 .. built - 1
      /\ vr_next <= built /\ built <= MaxPdus /\ p.sn \in Nat
      /\ Window \in Nat \ {0} /\ SnMod \in Nat \ {0} /\ MaxPdus \in Nat
  BY UmConstants DEF RecvPdu, WindowInv
<1>2. Dist(p.sn) = p.sn - vr_next
  BY <1>1, DistIsDifference
<1>3. CASE RxDuplicate(p)
  BY <1>1, <1>3 DEF RxDuplicate, rxVars, WindowInv, TimerCoversHole
<1>4. seen' = Remember(p.sn) => seen' \subseteq seen \cup {p.sn}
  BY RememberSubset
<1>5. CASE RxStale(p)
  <2>1. p.sn < vr_next
    BY <1>1, <1>2, <1>5 DEF RxStale
  <2> QED  BY <1>1, <1>4, <1>5, <2>1 DEF RxStale, WindowInv, TimerCoversHole
<1>6. CASE RxHold(p)
  <2>1. p.sn > vr_next /\ p.sn < vr_next + Window
    BY <1>1, <1>2, <1>6 DEF RxHold
  <2>2. DOMAIN buffer' = DOMAIN buffer \cup {p.sn} /\ vr_next' = vr_next
        /\ seen' \subseteq seen \cup {p.sn}
        /\ timer' = IF timer = -1 THEN 0 ELSE timer
    BY <1>4, <1>6 DEF RxHold
  <2>3. timer' \in Int /\ timer' >= -1 /\ timer' # -1 /\ DOMAIN buffer' # {}
    BY <2>2 DEF WindowInv
  <2> QED  BY <1>1, <2>1, <2>2, <2>3 DEF WindowInv, TimerCoversHole
<1>7. (p.sn + 1) % SnMod = p.sn + 1
  <2>1. p.sn + 1 \in 0 .. SnMod - 1
    BY <1>1 DEF NoWrap
  <2> QED  BY <1>1, <2>1, ModSmall
<1>8. CASE RxInOrder(p)
  <2>1. p.sn = vr_next
    BY <1>1, <1>2, <1>8 DEF RxInOrder
  <2>2. PICK k \in 0 .. SnMod : Deliver(Ongoing, <<p>>, buffer, p.sn + 1, k)
    BY <1>7, <1>8 DEF RxInOrder
  <2>3. p.sn + 1 \in 0 .. built
    BY <1>1
  <2>4. /\ k \in Nat /\ vr_next' = p.sn + 1 + k /\ p.sn + 1 + k <= built
        /\ DOMAIN buffer' = DOMAIN buffer \ (p.sn + 1 .. p.sn + 1 + k - 1)
        /\ p.sn + 1 + k \notin DOMAIN buffer
    BY <2>2, <2>3, DeliverWindow
  <2>5. seen' \subseteq seen \cup {p.sn}
        /\ timer' = IF DOMAIN buffer' = {} THEN -1 ELSE timer
    BY <1>4, <1>8 DEF RxInOrder
  <2>6. timer' \in Int /\ timer' >= -1 /\ TimerCoversHole'
    BY <2>4, <2>5 DEF WindowInv, TimerCoversHole
  <2> QED  BY <1>1, <2>1, <2>4, <2>5, <2>6 DEF WindowInv
<1>9. CASE RxFarAhead(p)
  <2>1. p.sn >= vr_next + Window
    BY <1>1, <1>2, <1>9 DEF RxFarAhead
  <2>2. DOMAIN buffer' = {} /\ timer' = -1 /\ seen' \subseteq seen \cup {p.sn}
        /\ vr_next' = (p.sn + 1 + 0) % SnMod
    BY <1>4, <1>7, <1>9 DEF RxFarAhead, Deliver, Restrict
  <2>3. vr_next' = p.sn + 1
    BY <1>1, <1>7, <2>2
  <2>4. ASSUME NEW sn \in seen'  PROVE sn \in 0 .. vr_next' - 1
    <3>1. CASE sn = p.sn
      BY <3>1, <1>1, <2>3
    <3>2. CASE sn \in 0 .. vr_next - 1
      BY <3>2, <1>1, <2>1, <2>3
    <3>3. CASE sn \in DOMAIN buffer
      BY <3>3, <1>1, <2>1, <2>3 DEF WindowInv
    <3> QED  BY <2>2, <3>1, <3>2, <3>3 DEF WindowInv
  <2>5. vr_next' \in 0 .. built /\ timer' \in Int /\ timer' >= -1 /\ TimerCoversHole'
    BY <1>1, <2>2, <2>3, SMTT(30) DEF TimerCoversHole
  <2> QED  BY <1>1, <2>2, <2>4, <2>5 DEF WindowInv
<1> QED  BY <1>3, <1>5, <1>6, <1>8, <1>9 DEF RecvPdu, Rx

\* UmRx::tick skips to the lowest held SN.
LEMMA TickWindow ==
  ASSUME NoWrap, WindowInv, Tick  PROVE WindowInv'
<1>1. CASE TickWait
  <2>1. timer' \in Int /\ timer' >= -1 /\ TimerCoversHole'
    BY <1>1, UmConstants DEF TickWait, Tick, WindowInv, TimerCoversHole
  <2> QED  BY <1>1, <2>1 DEF TickWait, Tick, WindowInv
<1>2. CASE TickExpire
  <2>1. /\ Resume \in DOMAIN buffer
        /\ \A y \in DOMAIN buffer : Resume <= y
    <3>1. DOMAIN buffer \in SUBSET Nat /\ DOMAIN buffer # {}
      BY <1>2 DEF TickExpire, WindowInv
    <3>2. \E x \in DOMAIN buffer : \A y \in DOMAIN buffer : x <= y
      BY <3>1, LeastNat
    <3> QED  BY <3>2 DEF Resume
  <2>2. Resume \in vr_next + 1 .. built - 1 /\ vr_next \in Nat /\ built \in Nat
    BY <2>1 DEF WindowInv
  <2> DEFINE r == IF Resume = vr_next THEN Ongoing ELSE Afresh
  <2>3. PICK k \in 0 .. SnMod : Deliver(r, <<>>, buffer, Resume, k)
    BY <1>2 DEF TickExpire
  <2>4. Resume \in 0 .. built
    BY <2>2
  <2> HIDE DEF r
  <2>5. /\ k \in Nat /\ vr_next' = Resume + k /\ Resume + k <= built
        /\ DOMAIN buffer' = DOMAIN buffer \ (Resume .. Resume + k - 1)
        /\ Resume + k \notin DOMAIN buffer
    BY <2>3, <2>4, DeliverWindow
  <2>6. timer' \in Int /\ timer' >= -1 /\ TimerCoversHole' /\ seen' = seen
        /\ UNCHANGED <<next_sn, built, submitted, wire>>
    BY <1>2 DEF TickExpire, Tick, TimerCoversHole
  <2>7. ASSUME NEW sn \in DOMAIN buffer'
        PROVE  sn \in vr_next' + 1 .. built - 1 /\ sn < vr_next' + Window
    <3>1. /\ sn \in DOMAIN buffer /\ sn \in Nat /\ sn <= built - 1 /\ Resume <= sn
          /\ sn < vr_next + Window
      BY <2>1, <2>2, <2>5 DEF WindowInv
    <3> QED  BY <3>1, <2>2, <2>5, UmConstants
  <2>8. ASSUME NEW sn \in seen'
        PROVE  sn \in 0 .. vr_next' - 1 \/ sn \in DOMAIN buffer'
    <3>1. CASE sn \in 0 .. vr_next - 1
      BY <3>1, <2>2, <2>5
    <3>2. CASE sn \in DOMAIN buffer
      BY <3>2, <2>1, <2>2, <2>5 DEF WindowInv
    <3> QED  BY <3>1, <3>2, <2>6 DEF WindowInv
  <2>9. vr_next' \in 0 .. built
    BY <2>2, <2>5
  <2> QED  BY <2>6, <2>7, <2>8, <2>9 DEF WindowInv
<1> QED  BY <1>1, <1>2 DEF Tick

\* UmTx::tx numbers the segments of an SDU from the next free SN on.
LEMMA TxWindow ==
  ASSUME NoWrap, WindowInv, NEW n \in 1 .. MaxSegs, Tx(n)  PROVE WindowInv'
<1>1. /\ built' = built + n /\ built + n <= MaxPdus /\ n \in Nat \ {0}
      /\ built \in Nat /\ next_sn = built /\ SnMod \in Nat \ {0}
      /\ MaxPdus \in Nat /\ UNCHANGED rxVars
  BY UmConstants DEF Tx, WindowInv
<1>2. ASSUME NEW i \in 1 .. n
      PROVE  (next_sn + i - 1) % SnMod \in 0 .. built' - 1
  <2>1. next_sn + i - 1 \in 0 .. SnMod - 1 /\ next_sn + i - 1 \in 0 .. built' - 1
    BY <1>1 DEF NoWrap
  <2> QED  BY <1>1, <2>1, ModSmall
<1>3. ASSUME NEW p \in wire'  PROVE p.sn \in 0 .. built' - 1
  <2>1. CASE p \in wire
    BY <1>1, <2>1 DEF WindowInv
  <2>2. CASE p \notin wire
    <3>1. PICK i \in 1 .. n : p = Segment(Len(submitted) + 1, n, i)
      BY <2>2 DEF Tx
    <3>2. p.sn = (next_sn + i - 1) % SnMod
      BY <3>1 DEF Segment
    <3> QED  BY <1>2, <3>2
  <2> QED  BY <2>1, <2>2
<1>4. next_sn' = built'
  <2>1. next_sn + n \in 0 .. SnMod - 1 /\ next_sn' = (next_sn + n) % SnMod
    BY <1>1 DEF NoWrap, Tx
  <2> QED  BY <1>1, <2>1, ModSmall
<1> QED  BY <1>1, <1>3, <1>4 DEF WindowInv, rxVars, TimerCoversHole

\* Every step keeps the invariant.
LEMMA WindowStep ==
  ASSUME NoWrap, WindowInv, [Next]_vars  PROVE WindowInv'
<1>1. CASE Reset
  BY <1>1, UmConstants DEF Reset, WindowInv, TimerCoversHole
<1>2. ASSUME NEW p \in wire, LosePdu(p)  PROVE WindowInv'
  BY <1>2 DEF LosePdu, rxVars, WindowInv, TimerCoversHole
<1>3. CASE UNCHANGED vars
  BY <1>3 DEF vars, rxVars, WindowInv, TimerCoversHole
<1> QED  BY <1>1, <1>2, <1>3, RecvPduWindow, TickWindow, TxWindow DEF Next

\* While SNs fit in half the space, UmRx never holds a PDU outside its window,
\* never filters the PDU it waits for, and never holds one without a timer,
\* whatever is lost, duplicated, reordered or late.
THEOREM WindowCorrect ==
  ASSUME NoWrap
  PROVE  Spec => [](HeldInWindow /\ AwaitedSnNotSeen /\ TimerCoversHole)
<1>1. Init => WindowInv
  BY UmConstants DEF Init, WindowInv, TimerCoversHole
<1>2. WindowInv /\ [Next]_vars => WindowInv'
  BY WindowStep
<1>3. WindowInv => HeldInWindow
  <2> SUFFICES ASSUME WindowInv, NEW sn \in DOMAIN buffer
               PROVE  0 < Dist(sn) /\ Dist(sn) < Window
    BY DEF HeldInWindow
  <2>1. /\ vr_next \in 0 .. MaxPdus /\ sn \in 0 .. MaxPdus - 1
        /\ vr_next < sn /\ sn < vr_next + Window
    BY UmConstants DEF WindowInv
  <2>2. Dist(sn) = sn - vr_next
    BY <2>1, DistIsDifference
  <2> QED  BY <2>1, <2>2, UmConstants
<1>4. WindowInv => AwaitedSnNotSeen /\ TimerCoversHole
  BY DEF WindowInv, AwaitedSnNotSeen
<1> QED  BY <1>1, <1>2, <1>3, <1>4, PTL DEF Spec
=============================================================================
