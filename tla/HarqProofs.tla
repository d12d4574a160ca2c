----------------------------- MODULE HarqProofs ------------------------------
(* HARQ: type correctness, the retransmission budget, and why feedback that  *)
(* names no transport block is enough while round trips beat the timeout.    *)
EXTENDS Harq, SequenceTheorems, TLAPS


\* Ageing keeps the types of frames and of feedback.
LEMMA OlderType ==
  /\ air \subseteq Frame => Older(air) \subseteq Frame
  /\ fb \subseteq Feedback => Older(fb) \subseteq Feedback
<1>1. ASSUME NEW f \in Frame, f.age < Rtt  PROVE [f EXCEPT !.age = @ + 1] \in Frame
  BY <1>1, HarqConstants DEF Frame
<1>2. ASSUME NEW f \in Feedback, f.age < Rtt
      PROVE  [f EXCEPT !.age = @ + 1] \in Feedback
  BY <1>2, HarqConstants DEF Feedback
<1> QED  BY <1>1, <1>2 DEF Older

\* retx() keeps the types.
LEMMA RetxType ==
  ASSUME TypeOK, NEW T \in SUBSET Procs, NEW ages, NEW flight \in SUBSET Frame,
         \A p \in Procs \ T : ages[p] \in 0 .. AckTimeout - 1,
         BudgetInv,
         Retx(T, ages, flight)
  PROVE  /\ busy' \in [Procs -> BOOLEAN] /\ ndi' \in [Procs -> {0, 1}]
         /\ retx_count' \in [Procs -> 0 .. MaxRetx]
         /\ age' \in [Procs -> 0 .. AckTimeout - 1]
         /\ block' \in [Procs -> 0 .. MaxBlocks] /\ next_proc' \in Procs
         /\ air' \subseteq Frame
         /\ size' \in Seq(Sizes) /\ sends' \in Seq(1 .. MaxRetx + 2)
         /\ Len(size') = Len(sends') /\ Len(size') <= MaxBlocks
<1> DEFINE out == {p \in T : busy[p] /\ Exhausted(p)}
           again == {p \in T : busy[p]} \ out
<1>1. busy' \in [Procs -> BOOLEAN]
  BY DEF Retx
<1>2. UNCHANGED <<ndi, block, next_proc, size>>
  BY DEF Retx
<1>3. retx_count' \in [Procs -> 0 .. MaxRetx]
  <2>1. \A p \in again : Count(p) \in 0 .. MaxRetx
    BY HarqConstants, SMTT(30) DEF TypeOK, Exhausted, Count
  <2> QED  BY <2>1 DEF Retx, TypeOK
<1>4. age' \in [Procs -> 0 .. AckTimeout - 1]
  BY HarqConstants DEF Retx
<1>5. air' \subseteq Frame
  <2>0. \A p \in again : p \in Procs /\ block[p] \in Blocks
    BY HarqConstants DEF TypeOK, BudgetInv, Blocks
  <2>1. \A p \in again :
          [proc |-> p, ndi |-> ndi[p], block |-> block[p], nth |-> Count(p),
           age |-> 0] \in Frame
    <3>1. \A p \in again : Count(p) \in 0 .. MaxRetx /\ 0 \in 0 .. Rtt
      BY HarqConstants, SMTT(30) DEF TypeOK, Exhausted, Count
    <3> QED  BY <2>0, <3>1 DEF TypeOK, Frame
  <2> QED  BY <2>1 DEF Retx
<1>6. sends' \in Seq(1 .. MaxRetx + 2) /\ Len(sends') = Len(sends)
  <2>1. \A b \in DOMAIN sends : sends[b] \in 1 .. MaxRetx + 2
                                /\ Once(sends[b]) \in 1 .. MaxRetx + 2
    BY HarqConstants, SMTT(30) DEF TypeOK, Once
  <2>2. /\ DOMAIN sends' = DOMAIN sends
        /\ \A b \in DOMAIN sends : sends'[b] \in {sends[b], Once(sends[b])}
        /\ sends' = [b \in DOMAIN sends |-> sends'[b]]
    BY DEF Retx
  <2>3. DOMAIN sends = 1 .. Len(sends) /\ Len(sends) \in Nat
    BY DEF TypeOK
  <2>4. sends' \in [1 .. Len(sends) -> 1 .. MaxRetx + 2]
    BY <2>1, <2>2, <2>3
  <2>5. sends' \in Seq(1 .. MaxRetx + 2)
    BY <2>3, <2>4, SeqDef
  <2> QED  BY <2>2, <2>3, <2>5, LenProperties
<1> QED  BY <1>1, <1>2, <1>3, <1>4, <1>5, <1>6 DEF TypeOK

\* A resent block's count stays level with its transmissions.
LEMMA RetxBudgetInv ==
  ASSUME TypeOK, BudgetInv, NEW T \in SUBSET Procs, NEW ages, NEW flight,
         \A f \in flight : f.block \in DOMAIN sends,
         Retx(T, ages, flight)
  PROVE  BudgetInv'
<1> DEFINE out == {p \in T : busy[p] /\ Exhausted(p)}
           again == {p \in T : busy[p]} \ out
<1>1. /\ block' = block /\ DOMAIN sends' = DOMAIN sends
      /\ \A p \in Procs : busy'[p] => busy[p]
      /\ \A p \in Procs : retx_count'[p] = IF p \in again THEN retx_count[p] + 1
                                          ELSE retx_count[p]
      /\ \A b \in DOMAIN sends : sends'[b] = IF \E p \in again : block[p] = b
                                           THEN Once(sends[b]) ELSE sends[b]
  BY DEF Retx, Count
<1>2. /\ DOMAIN sends = 1 .. Len(sends) /\ Len(sends) \in Nat
      /\ \A b \in DOMAIN sends : sends[b] \in Nat
      /\ \A p \in Procs : retx_count[p] \in 0 .. MaxRetx
      /\ MaxRetx \in Nat
  BY HarqConstants DEF TypeOK
<1>3. Len(sends') = Len(sends)
  <2>1. sends' = [b \in DOMAIN sends |-> sends'[b]]
    BY DEF Retx
  <2> QED  BY <1>2, <2>1
<1>4. \A p \in again : /\ p \in Procs /\ busy[p] /\ retx_count[p] < MaxRetx
                       /\ block[p] \in DOMAIN sends
                       /\ sends[block[p]] = retx_count[p] + 1
  BY <1>2 DEF BudgetInv, Exhausted
<1>5. \A p \in again : Once(sends[block[p]]) = retx_count[p] + 2
  BY <1>2, <1>4 DEF Once
<1> HIDE DEF again
<1>6. ASSUME NEW p \in Procs, busy'[p]
      PROVE  block'[p] \in 1 .. Len(sends') /\ sends'[block'[p]] = retx_count'[p] + 1
  <2>1. busy[p] /\ block[p] \in DOMAIN sends /\ sends[block[p]] = retx_count[p] + 1
    BY <1>1, <1>2, <1>6 DEF BudgetInv
  <2>2. CASE p \in again
    <3>1. sends'[block[p]] = Once(sends[block[p]])
      BY <1>1, <2>1, <2>2
    <3>2. retx_count'[p] = retx_count[p] + 1
      BY <1>1, <2>2
    <3> QED  BY <3>1, <3>2, <1>1, <1>2, <1>3, <1>5, <2>1, <2>2
  <2>3. CASE p \notin again
    <3>1. ~ \E q \in again : block[q] = block[p]
      BY <1>4, <2>1, <2>3 DEF BudgetInv
    <3> QED  BY <3>1, <1>1, <1>2, <1>3, <2>1, <2>3
  <2> QED  BY <2>2, <2>3
<1>7. ASSUME NEW b \in DOMAIN sends'  PROVE sends'[b] <= 1 + MaxRetx
  <2>1. CASE \E p \in again : block[p] = b
    <3>1. PICK p \in again : block[p] = b
      BY <2>1
    <3>2. sends'[b] = retx_count[p] + 2 /\ retx_count[p] < MaxRetx /\ p \in Procs
      BY <1>1, <1>4, <1>5, <1>7, <3>1
    <3> QED  BY <3>2, <1>2
  <2>2. CASE ~ \E p \in again : block[p] = b
    BY <2>2, <1>1, <1>7 DEF BudgetInv, RetxBudget
  <2> QED  BY <2>1, <2>2
<1>8. \A p, q \in Procs : busy'[p] /\ busy'[q] /\ block'[p] = block'[q] => p = q
  BY <1>1 DEF BudgetInv
<1>9. \A f \in air' : f.block \in DOMAIN sends'
  BY <1>1, <1>4 DEF Retx, again
<1> QED  BY <1>6, <1>7, <1>8, <1>9 DEF BudgetInv, RetxBudget

\* Types and counts survive every step.
LEMMA CountStep ==
  TypeOK /\ BudgetInv /\ [Next]_vars => TypeOK' /\ BudgetInv'
<1> SUFFICES ASSUME TypeOK, BudgetInv, [Next]_vars  PROVE TypeOK' /\ BudgetInv'
  OBVIOUS
<1> USE HarqConstants
<1>0. \A D \in SUBSET Procs : InFlight(D) \in SUBSET Procs
  BY DEF InFlight
<1>1. ASSUME NEW p \in Procs, NEW len \in Sizes, Send(p, len)
      PROVE  TypeOK' /\ BudgetInv'
  <2> DEFINE b == Len(size) + 1
  <2>1. /\ b \in Blocks /\ b = Len(sends) + 1 /\ Len(sends) \in Nat
        /\ DOMAIN sends = 1 .. Len(sends)
    BY <1>1 DEF Send, TypeOK, Blocks
  <2>2. /\ size' \in Seq(Sizes) /\ sends' \in Seq(1 .. MaxRetx + 2)
        /\ Len(size') = b /\ Len(sends') = b
        /\ sends'[b] = 1 /\ \A i \in 1 .. Len(sends) : sends'[i] = sends[i]
        /\ DOMAIN sends' = 1 .. b
    BY <1>1, <2>1, SMTT(30) DEF Send, TypeOK
  <2>3. (p + 1) % NumProcs \in Procs
    BY DEF Procs
  <2>4. air' \subseteq Frame
    <3>1. [proc |-> p, ndi |-> 1 - ndi[p], block |-> b, nth |-> 0, age |-> 0] \in Frame
      <4>1. /\ ndi[p] \in {0, 1} /\ 1 - ndi[p] \in {0, 1}
            /\ 0 \in 0 .. Rtt /\ 0 \in 0 .. MaxRetx
        BY SMTT(30) DEF TypeOK
      <4> QED  BY <2>1, <4>1 DEF Frame
    <3> QED  BY <3>1, <1>1 DEF Send, TypeOK
  <2>5. TypeOK'
    <3>1. ndi' \in [Procs -> {0, 1}]
      <4>1. ndi[p] \in {0, 1}
        BY DEF TypeOK
      <4>2. 1 - ndi[p] \in {0, 1}
        BY <4>1
      <4> QED  BY <4>2, <1>1 DEF Send, TypeOK
    <3>2. /\ busy' \in [Procs -> BOOLEAN] /\ retx_count' \in [Procs -> 0 .. MaxRetx]
          /\ age' \in [Procs -> 0 .. AckTimeout - 1] /\ next_proc' \in Procs
      <4>1. 0 \in 0 .. MaxRetx /\ 0 \in 0 .. AckTimeout - 1
        OBVIOUS
      <4> QED  BY <4>1, <1>1, <2>3 DEF Send, TypeOK
    <3>3. block' \in [Procs -> 0 .. MaxBlocks] /\ Len(size') <= MaxBlocks
      BY <1>1, <2>1, <2>2, SMTT(30) DEF Send, TypeOK, Blocks
    <3>4. UNCHANGED <<soft, fb, acked, received>> /\ stale' \subseteq Procs
      BY <1>0, <1>1 DEF Send, rxVars, TypeOK
    <3> QED  BY <2>2, <2>4, <3>1, <3>2, <3>3, <3>4 DEF TypeOK
  <2>6. \A q \in Procs : /\ block'[q] = IF q = p THEN b ELSE block[q]
                         /\ retx_count'[q] = IF q = p THEN 0 ELSE retx_count[q]
                         /\ busy'[q] <=> q = p \/ busy[q]
    BY <1>1 DEF Send, TypeOK
  <2>7. \A q \in Procs : busy[q] => /\ block[q] \in 1 .. Len(sends) /\ block[q] # b
                                   /\ sends[block[q]] = retx_count[q] + 1
    <3>1. b \notin 1 .. Len(sends)
      BY <2>1
    <3> HIDE DEF b
    <3> QED  BY <3>1 DEF BudgetInv
  <2> HIDE DEF b
  <2>8. \A q \in Procs : busy'[q] => /\ block'[q] \in 1 .. Len(sends')
                                    /\ sends'[block'[q]] = retx_count'[q] + 1
    BY <2>1, <2>2, <2>6, <2>7
  <2>9. \A q, r \in Procs : busy'[q] /\ busy'[r] /\ block'[q] = block'[r] => q = r
    BY <2>6, <2>7 DEF BudgetInv
  <2>10. RetxBudget'
    BY <2>1, <2>2 DEF BudgetInv, RetxBudget
  <2>11. \A f \in air' : f.block \in DOMAIN sends'
    <3>1. 1 .. Len(sends) \subseteq 1 .. b /\ b \in 1 .. b
      BY <2>1
    <3> QED  BY <1>1, <2>1, <2>2, <3>1 DEF Send, BudgetInv, b
  <2> QED  BY <2>5, <2>8, <2>9, <2>10, <2>11 DEF BudgetInv
<1>2. ASSUME Tick  PROVE TypeOK' /\ BudgetInv'
  <2> DEFINE ages == [p \in Procs |-> IF busy[p] THEN age[p] + 1 ELSE age[p]]
             T == Overdue(ages)
  <2>1. T \in SUBSET Procs /\ \A p \in Procs \ T : ages[p] \in 0 .. AckTimeout - 1
    BY SMTT(30) DEF TypeOK, Overdue
  <2>2. Older(air) \in SUBSET Frame /\ Older(fb) \subseteq Feedback
    BY OlderType DEF TypeOK
  <2>3. /\ Retx(T, ages, Older(air)) /\ fb' = Older(fb) /\ UNCHANGED <<acked, rxVars>>
        /\ stale' \subseteq Procs
    BY <1>0, <1>2 DEF Tick, TypeOK
  <2>4. \A f \in Older(air) : f.block \in DOMAIN sends
    BY DEF Older, BudgetInv, TypeOK, Frame
  <2> HIDE DEF T, ages
  <2> QED  BY <2>1, <2>2, <2>3, <2>4, RetxType, RetxBudgetInv DEF TypeOK, rxVars
<1>3. ASSUME NEW a \in fb, OnNack(a)  PROVE TypeOK' /\ BudgetInv'
  <2>1. {a.proc} \in SUBSET Procs /\ air \in SUBSET Frame
        /\ \A p \in Procs \ {a.proc} : age[p] \in 0 .. AckTimeout - 1
    BY SMTT(30) DEF TypeOK, Feedback
  <2>2. /\ Retx({a.proc}, age, air) /\ fb' = fb \ {a} /\ UNCHANGED <<acked, rxVars>>
        /\ stale' \subseteq Procs
    BY <1>0, <1>3 DEF OnNack, TypeOK
  <2>3. \A f \in air : f.block \in DOMAIN sends
    BY DEF BudgetInv
  <2> QED  BY <2>1, <2>2, <2>3, RetxType, RetxBudgetInv DEF TypeOK, rxVars
<1>4. ASSUME NEW a \in fb, OnAck(a)  PROVE TypeOK' /\ BudgetInv'
  <2>1. a.proc \in Procs /\ \A p \in Procs : busy'[p] => busy[p]
    BY <1>4 DEF OnAck, TypeOK, Feedback
  <2>2. acked' \subseteq Blocks
    <3>1. busy[a.proc] => block[a.proc] \in Blocks
      BY <2>1 DEF TypeOK, BudgetInv, Blocks
    <3> QED  BY <1>4, <3>1 DEF OnAck, TypeOK
  <2>3. TypeOK'
    BY <1>0, <1>4, <2>1, <2>2 DEF OnAck, TypeOK, rxVars
  <2> QED  BY <1>4, <2>1, <2>3 DEF OnAck, BudgetInv, RetxBudget
<1>5. ASSUME NEW a \in fb, LoseFeedback(a)  PROVE TypeOK' /\ BudgetInv'
  BY <1>0, <1>5 DEF LoseFeedback, TypeOK, BudgetInv, RetxBudget, txVars, rxVars
<1>6. ASSUME NEW f \in air, LoseFrame(f)  PROVE TypeOK' /\ BudgetInv'
  BY <1>0, <1>6 DEF LoseFrame, TypeOK, BudgetInv, RetxBudget, txVars, rxVars
<1>7. ASSUME NEW f \in air, NEW ok \in BOOLEAN, Receive(f, ok)
      PROVE  TypeOK' /\ BudgetInv'
  <2>1. /\ f.proc \in Procs /\ f.block \in Blocks /\ f.age \in 0 .. Rtt
        /\ f.nth \in 0 .. MaxRetx
    BY DEF TypeOK, Frame
  <2>2. [proc |-> f.proc, ack |-> ok, block |-> f.block, nth |-> f.nth,
         age |-> f.age] \in Feedback
    BY <2>1 DEF Feedback
  <2>3. soft' \in [Procs -> [bits : Nat, block : 0 .. MaxBlocks]]
    <3>1. f.block \in DOMAIN size
      BY DEF TypeOK, BudgetInv
    <3>2. size[f.block] \in Nat
      <4>1. size \in Seq(Sizes)
        BY DEF TypeOK
      <4>2. size[f.block] \in Sizes
        BY <3>1, <4>1, ElementOfSeq
      <4> QED  BY <4>2
    <3>3. ValidBits(size[f.block]) \in Nat
      BY <3>2 DEF ValidBits
    <3> DEFINE b == IF ~ ok THEN [bits |-> ValidBits(size[f.block]), block |-> f.block]
                    ELSE [bits |-> 0, block |-> 0]
    <3>4. b \in [bits : Nat, block : 0 .. MaxBlocks]
      <4>1. f.block \in 0 .. MaxBlocks /\ 0 \in 0 .. MaxBlocks
        BY <2>1, HarqConstants DEF Blocks
      <4> QED  BY <3>3, <4>1
    <3>5. soft' = [soft EXCEPT ![f.proc] = b]
      BY <1>7 DEF Receive
    <3>6. soft \in [Procs -> [bits : Nat, block : 0 .. MaxBlocks]]
      BY DEF TypeOK
    <3> HIDE DEF b
    <3> QED  BY <3>4, <3>5, <3>6, <2>1
  <2> QED  BY <1>0, <1>7, <2>1, <2>2, <2>3
           DEF Receive, TypeOK, BudgetInv, RetxBudget, txVars
<1>8. ASSUME ResetTx  PROVE TypeOK' /\ BudgetInv'
  <2>1. 0 \in Procs /\ 0 \in 0 .. MaxRetx
    BY DEF Procs
  <2>2. TypeOK'
    BY <1>0, <1>8, <2>1, SMTT(30) DEF ResetTx, TypeOK, rxVars
  <2>3. BudgetInv'
    BY <1>8 DEF ResetTx, BudgetInv, RetxBudget
  <2> QED  BY <2>2, <2>3
<1>9. ASSUME ResetRx  PROVE TypeOK' /\ BudgetInv'
  <2>1. 0 \in Nat /\ 0 \in 0 .. MaxBlocks
    OBVIOUS
  <2> QED  BY <1>9, <2>1 DEF ResetRx, TypeOK, BudgetInv, RetxBudget, txVars
<1>10. ASSUME UNCHANGED vars  PROVE TypeOK' /\ BudgetInv'
  BY <1>10, SMTT(30) DEF vars, txVars, rxVars, TypeOK, BudgetInv, RetxBudget
<1> QED  BY <1>1, <1>2, <1>3, <1>4, <1>5, <1>6, <1>7, <1>8, <1>9, <1>10 DEF Next

\* The types and counts hold initially.
LEMMA BudgetInit == Init => TypeOK /\ BudgetInv
<1> SUFFICES ASSUME Init  PROVE TypeOK /\ BudgetInv
  OBVIOUS
<1>1. 0 \in Procs /\ 0 \in 0 .. MaxRetx /\ 0 \in 0 .. AckTimeout - 1
      /\ 0 \in 0 .. MaxBlocks /\ 0 \in Nat /\ 1 \in {0, 1}
  BY HarqConstants DEF Procs
<1>2. <<>> \in Seq(Sizes) /\ <<>> \in Seq(1 .. MaxRetx + 2) /\ Len(<<>>) = 0
      /\ DOMAIN <<>> = {}
  OBVIOUS
<1>3. TypeOK
  BY <1>1, <1>2, HarqConstants DEF Init, TypeOK
<1> QED  BY <1>2, <1>3 DEF Init, BudgetInv, RetxBudget

\* Every variable keeps its type, and HarqTx::retx() keeps every block within
\* 1 + max_retx transmissions, for every number of processes and every timeout.
THEOREM BudgetCorrect == Spec => [](TypeOK /\ RetxBudget)
<1>1. BudgetInv => RetxBudget
  BY DEF BudgetInv
<1> QED  BY <1>1, BudgetInit, CountStep, PTL DEF Spec

-----------------------------------------------------------------------------
\* Whatever is in flight after a step belongs to a stale process exactly if the
\* process was stale before.
LEMMA StaleKept ==
  ASSUME stale' = InFlight(stale)
  PROVE  \A m \in air' \cup fb' : m.proc \in stale' <=> m.proc \in stale
BY DEF InFlight

\* retx() keeps the round-trip invariant when no message of the processes it
\* resends is left in flight, stale processes apart.
LEMMA RetxRoundTrip ==
  ASSUME TypeOK, NEW T \in SUBSET Procs, NEW ages, NEW flight \in SUBSET Frame,
         NEW back \in SUBSET Feedback,
         \A m \in flight \cup back : m.proc \in Procs,
         \A m \in flight \cup back : m.proc \notin stale =>
           /\ m.proc \notin T /\ busy[m.proc]
           /\ m.block = block[m.proc] /\ m.age = ages[m.proc],
         \A f, g \in flight : f.proc = g.proc /\ f.proc \notin stale => f = g,
         \A a, b \in back : a.proc = b.proc /\ a.proc \notin stale => a = b,
         \A f \in flight, a \in back : f.proc = a.proc => f.proc \in stale,
         \A a \in back : a.ack => a.block \in received,
         AckedReceived,
         Retx(T, ages, flight), fb' = back, UNCHANGED <<acked, rxVars>>,
         stale' = InFlight(stale)
  PROVE  RoundTripInv'
<1> DEFINE out == {p \in T : busy[p] /\ Exhausted(p)}
           again == {p \in T : busy[p]} \ out
           new == {[proc |-> p, ndi |-> ndi[p], block |-> block[p], nth |-> Count(p),
                    age |-> 0] : p \in again}
<1>1. /\ air' = flight \cup new /\ fb' = back /\ block' = block
      /\ \A p \in Procs : busy'[p] <=> busy[p] /\ p \notin out
      /\ \A p \in Procs : age'[p] = IF p \in T THEN 0 ELSE ages[p]
      /\ again \subseteq T /\ out \subseteq T /\ again \cap out = {}
      /\ \A p \in again : p \in Procs /\ busy[p]
  BY DEF Retx
<1>2. \A n \in new : n.proc \in again /\ n.block = block[n.proc] /\ n.age = 0
  OBVIOUS
<1>3. \A n, o \in new : n.proc = o.proc => n = o
  OBVIOUS
<1> HIDE DEF new, again, out
<1>0. \A m \in air' \cup fb' : m.proc \in stale' <=> m.proc \in stale
  BY StaleKept
<1>4. \A m \in air' \cup fb' : m.proc \notin stale' =>
        busy'[m.proc] /\ m.block = block'[m.proc] /\ m.age = age'[m.proc]
  <2>1. ASSUME NEW m \in flight \cup back, m.proc \notin stale
        PROVE  busy'[m.proc] /\ m.block = block'[m.proc] /\ m.age = age'[m.proc]
    BY <1>1, <2>1
  <2>2. ASSUME NEW m \in new
        PROVE  busy'[m.proc] /\ m.block = block'[m.proc] /\ m.age = age'[m.proc]
    BY <1>1, <1>2
  <2> QED  BY <1>0, <1>1, <2>1, <2>2
<1>5. \A f, g \in air' : f.proc = g.proc /\ f.proc \notin stale' => f = g
  BY <1>0, <1>1, <1>2, <1>3
<1>6. \A f \in air', a \in fb' : f.proc = a.proc => f.proc \in stale'
  BY <1>0, <1>1, <1>2
<1>7. \A a, b \in fb' : a.proc = b.proc /\ a.proc \notin stale' => a = b
  BY <1>0, <1>1
<1>8. AckedReceived' /\ received' = received
  BY DEF AckedReceived, rxVars
<1> QED  BY <1>1, <1>4, <1>5, <1>6, <1>7, <1>8 DEF RoundTripInv

\* The round-trip invariant survives every step while round trips beat the
\* timeout.
LEMMA RoundTripStep ==
  ASSUME Rtt < AckTimeout, TypeOK, BudgetInv, RoundTripInv, [Next]_vars
  PROVE  RoundTripInv'
<1> USE HarqConstants
<1>0. \A m \in air \cup fb : m.proc \in Procs /\ m.age \in 0 .. Rtt
  BY SMTT(30) DEF TypeOK, Frame, Feedback
<1>1. ASSUME NEW p \in Procs, NEW len \in Sizes, Send(p, len)
      PROVE  RoundTripInv'
  <2> DEFINE b == Len(size) + 1
             n == [proc |-> p, ndi |-> 1 - ndi[p], block |-> b, nth |-> 0, age |-> 0]
  <2>1. /\ air' = air \cup {n} /\ fb' = fb /\ ~ busy[p]
        /\ acked' = acked /\ received' = received
        /\ \A q \in Procs : /\ block'[q] = IF q = p THEN b ELSE block[q]
                            /\ age'[q] = IF q = p THEN 0 ELSE age[q]
                            /\ busy'[q] <=> q = p \/ busy[q]
    BY <1>1 DEF Send, NextFree, TypeOK, rxVars
  <2>2. \A m \in air \cup fb : m.proc \notin stale => m.proc # p
    BY <2>1 DEF RoundTripInv
  <2>3. n.proc = p /\ n.block = b /\ n.age = 0
    OBVIOUS
  <2>4. \A m \in air' \cup fb' : m.proc \in stale' <=> m.proc \in stale
    BY <1>1, StaleKept DEF Send
  <2> HIDE DEF n, b
  <2>5. \A m \in air' \cup fb' : m.proc \notin stale' =>
          busy'[m.proc] /\ m.block = block'[m.proc] /\ m.age = age'[m.proc]
    BY <1>0, <2>1, <2>2, <2>3, <2>4 DEF RoundTripInv
  <2>6. /\ \A f, g \in air' : f.proc = g.proc /\ f.proc \notin stale' => f = g
        /\ \A f \in air', a \in fb' : f.proc = a.proc => f.proc \in stale'
    BY <2>1, <2>2, <2>3, <2>4 DEF RoundTripInv
  <2> QED  BY <2>1, <2>4, <2>5, <2>6 DEF RoundTripInv, AckedReceived
<1>2. ASSUME Tick  PROVE RoundTripInv'
  <2> DEFINE ages == [p \in Procs |-> IF busy[p] THEN age[p] + 1 ELSE age[p]]
             T == Overdue(ages)
  <2>1. T \in SUBSET Procs /\ Older(air) \in SUBSET Frame
        /\ Older(fb) \in SUBSET Feedback
    BY OlderType DEF TypeOK, Overdue
  <2>2. /\ Retx(T, ages, Older(air)) /\ fb' = Older(fb) /\ UNCHANGED <<acked, rxVars>>
        /\ stale' = InFlight(stale)
    BY <1>2 DEF Tick
  <2>3. /\ \A m \in Older(air) : \E x \in air :
             x.age < Rtt /\ m = [x EXCEPT !.age = x.age + 1]
        /\ \A m \in Older(fb) : \E x \in fb :
             x.age < Rtt /\ m = [x EXCEPT !.age = x.age + 1]
    BY DEF Older
  <2>4. /\ \A x \in air : \A m : m = [x EXCEPT !.age = x.age + 1] =>
             m.proc = x.proc /\ m.block = x.block /\ m.age = x.age + 1
        /\ \A x \in fb : \A m : m = [x EXCEPT !.age = x.age + 1] =>
             m.proc = x.proc /\ m.block = x.block /\ m.age = x.age + 1 /\ m.ack = x.ack
    BY DEF TypeOK, Frame, Feedback
  <2>5. ASSUME NEW m, NEW x \in air \cup fb, x.age < Rtt, x.proc \notin stale,
               m.proc = x.proc, m.block = x.block, m.age = x.age + 1
        PROVE  /\ m.proc \notin T /\ busy[m.proc]
               /\ m.block = block[m.proc] /\ m.age = ages[m.proc]
    <3>1. busy[x.proc] /\ x.block = block[x.proc] /\ x.age = age[x.proc]
      BY <2>5 DEF RoundTripInv
    <3>2. ages[x.proc] = x.age + 1 /\ x.proc \in Procs
      BY <1>0, <3>1
    <3> HIDE DEF ages
    <3>3. x.proc \notin T
      BY <1>0, <2>5, <3>2 DEF Overdue
    <3> QED  BY <2>5, <3>1, <3>2, <3>3
  <2>6. \A m \in Older(air) \cup Older(fb) :
           /\ m.proc \in Procs
           /\ m.proc \notin stale =>
                /\ m.proc \notin T /\ busy[m.proc]
                /\ m.block = block[m.proc] /\ m.age = ages[m.proc]
    BY <1>0, <2>3, <2>4, <2>5
  <2>7. /\ \A f, g \in Older(air) : f.proc = g.proc /\ f.proc \notin stale => f = g
        /\ \A a, b \in Older(fb) : a.proc = b.proc /\ a.proc \notin stale => a = b
        /\ \A f \in Older(air), a \in Older(fb) : f.proc = a.proc => f.proc \in stale
        /\ \A a \in Older(fb) : a.ack => a.block \in received
        /\ AckedReceived
    BY <2>3, <2>4 DEF RoundTripInv
  <2> HIDE DEF T, ages
  <2> QED  BY <2>1, <2>2, <2>6, <2>7, RetxRoundTrip
<1>3. ASSUME NEW a \in fb, OnNack(a)  PROVE RoundTripInv'
  <2>1. {a.proc} \in SUBSET Procs /\ air \in SUBSET Frame
        /\ fb \ {a} \in SUBSET Feedback
    BY <1>0 DEF TypeOK
  <2>2. /\ Retx({a.proc}, age, air) /\ fb' = fb \ {a} /\ UNCHANGED <<acked, rxVars>>
        /\ stale' = InFlight(stale)
    BY <1>3 DEF OnNack
  <2>3. \A m \in air \cup (fb \ {a}) :
           /\ m.proc \in Procs
           /\ m.proc \notin stale =>
                /\ m.proc \notin {a.proc} /\ busy[m.proc]
                /\ m.block = block[m.proc] /\ m.age = age[m.proc]
    BY <1>0 DEF RoundTripInv
  <2>4. /\ \A f, g \in air : f.proc = g.proc /\ f.proc \notin stale => f = g
        /\ \A b, c \in fb \ {a} : b.proc = c.proc /\ b.proc \notin stale => b = c
        /\ \A f \in air, b \in fb \ {a} : f.proc = b.proc => f.proc \in stale
        /\ \A b \in fb \ {a} : b.ack => b.block \in received
        /\ AckedReceived
    BY DEF RoundTripInv
  <2> QED  BY <2>1, <2>2, <2>3, <2>4, RetxRoundTrip
<1>4. ASSUME NEW a \in fb, OnAck(a)  PROVE RoundTripInv'
  <2>1. \A m \in air \cup (fb \ {a}) : m.proc \notin stale => m.proc # a.proc
    BY DEF RoundTripInv
  <2>2. \A p \in Procs : p # a.proc => busy'[p] = busy[p]
    BY <1>4 DEF OnAck, TypeOK
  <2>3. a.proc \notin stale => block[a.proc] \in received
    BY <1>4 DEF OnAck, RoundTripInv
  <2>4. /\ air' = air /\ fb' = fb \ {a} /\ block' = block /\ age' = age
        /\ received' = received
        /\ acked' = acked \/ (a.proc \notin stale /\ acked' = acked \cup {block[a.proc]})
        /\ \A m \in air' \cup fb' : m.proc \in stale' <=> m.proc \in stale
    BY <1>4, StaleKept DEF OnAck, rxVars
  <2>5. \A m \in air' \cup fb' : m.proc \notin stale' =>
          busy'[m.proc] /\ m.block = block'[m.proc] /\ m.age = age'[m.proc]
    BY <1>0, <2>1, <2>2, <2>4 DEF RoundTripInv
  <2> QED  BY <2>3, <2>4, <2>5 DEF RoundTripInv, AckedReceived
<1>5. ASSUME NEW a \in fb, LoseFeedback(a)  PROVE RoundTripInv'
  <2>1. \A m \in air' \cup fb' : m.proc \in stale' <=> m.proc \in stale
    BY <1>5, StaleKept DEF LoseFeedback
  <2> QED  BY <1>5, <2>1 DEF LoseFeedback, RoundTripInv, AckedReceived, txVars, rxVars
<1>6. ASSUME NEW f \in air, LoseFrame(f)  PROVE RoundTripInv'
  <2>1. \A m \in air' \cup fb' : m.proc \in stale' <=> m.proc \in stale
    BY <1>6, StaleKept DEF LoseFrame
  <2> QED  BY <1>6, <2>1 DEF LoseFrame, RoundTripInv, AckedReceived, txVars, rxVars
<1>7. ASSUME NEW f \in air, NEW ok \in BOOLEAN, Receive(f, ok)
      PROVE  RoundTripInv'
  <2> DEFINE a == [proc |-> f.proc, ack |-> ok, block |-> f.block, nth |-> f.nth,
                   age |-> f.age]
  <2>1. /\ air' = air \ {f} /\ fb' = fb \cup {a}
        /\ received' = IF ok THEN received \cup {f.block} ELSE received
        /\ UNCHANGED <<busy, block, age, acked>>
    BY <1>7 DEF Receive, txVars
  <2>2. a.proc = f.proc /\ a.block = f.block /\ a.age = f.age /\ a.ack = ok
    OBVIOUS
  <2>3. \A m \in air' \cup fb' : m.proc \in stale' <=> m.proc \in stale
    BY <1>7, StaleKept DEF Receive
  <2> HIDE DEF a
  <2>4. \A m \in air' \cup fb' : m.proc \notin stale' =>
          busy'[m.proc] /\ m.block = block'[m.proc] /\ m.age = age'[m.proc]
    BY <2>1, <2>2, <2>3 DEF RoundTripInv
  <2>5. /\ \A g, h \in air' : g.proc = h.proc /\ g.proc \notin stale' => g = h
        /\ \A c, d \in fb' : c.proc = d.proc /\ c.proc \notin stale' => c = d
        /\ \A g \in air', c \in fb' : g.proc = c.proc => g.proc \in stale'
    BY <2>1, <2>2, <2>3 DEF RoundTripInv
  <2> QED  BY <2>1, <2>2, <2>4, <2>5 DEF RoundTripInv, AckedReceived
<1>8. ASSUME ResetTx  PROVE RoundTripInv'
  <2>1. \A m \in air' \cup fb' : m.proc \in stale'
    BY <1>0, <1>8 DEF ResetTx, InFlight
  <2> QED  BY <1>8, <2>1 DEF ResetTx, RoundTripInv, AckedReceived, rxVars
<1>9. ASSUME ResetRx \/ UNCHANGED vars  PROVE RoundTripInv'
  BY <1>9 DEF ResetRx, vars, txVars, rxVars, RoundTripInv, AckedReceived
<1> QED  BY <1>1, <1>2, <1>3, <1>4, <1>5, <1>6, <1>7, <1>8, <1>9 DEF Next

\* "Must comfortably exceed the worst-case round trip" (ack_timeout_ms) is
\* enough: while it does, feedback that names only the process meets the block it
\* is about, and an ACK frees a process only for a block that arrived.  Resets of
\* the two ends, each at its own time, change this only for a process whose
\* exchange HarqTx::reset() cut, and only until what it had in flight has drained.
THEOREM FeedbackCorrect ==
  ASSUME Rtt < AckTimeout
  PROVE  Spec => [](FeedbackCurrent /\ AckedReceived)
<1>1. Init => RoundTripInv
  BY DEF Init, RoundTripInv, AckedReceived
<1>2. TypeOK /\ BudgetInv /\ RoundTripInv /\ [Next]_vars => RoundTripInv'
  BY RoundTripStep
<1>3. RoundTripInv => FeedbackCurrent /\ AckedReceived
  BY DEF RoundTripInv, FeedbackCurrent
<1>4. Init => TypeOK /\ BudgetInv
  BY BudgetInit
<1> QED  BY <1>1, <1>2, <1>3, <1>4, CountStep, PTL DEF Spec
=============================================================================
