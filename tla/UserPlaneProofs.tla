--------------------------- MODULE UserPlaneProofs ---------------------------
(* The books of a media stream and of the loopback pings balance, for every  *)
(* queue limit, number of HARQ processes and length of the run.              *)
EXTENDS UserPlane, FiniteSetTheorems, TLAPS

\* A set of awaited sequence numbers, all of them handed out.
Awaited(pending, seq) ==
  /\ seq \in Nat /\ pending \in SUBSET (1 .. seq) /\ IsFiniteSet(pending)

\* The sender's books: SenderBalance, and that what is awaited was sent.
OutInv(s) ==
  /\ DOMAIN s = {"seq", "tx", "rx_ack", "loss", "max_ack", "pending"}
  /\ s.tx \in Nat /\ s.rx_ack \in Nat /\ s.loss \in Nat
  /\ Awaited(s.pending, s.seq)
  /\ s.tx = s.rx_ack + s.loss + Cardinality(s.pending)

\* The pings' books.
PingInv(p) ==
  /\ DOMAIN p = {"seq", "rx", "loss", "pending", "running"}
  /\ p.rx \in Nat /\ p.loss \in Nat
  /\ Awaited(p.pending, p.seq)
  /\ p.seq = p.rx + p.loss + Cardinality(p.pending)

-----------------------------------------------------------------------------
(* What happens to a set of awaited numbers *)

\* A new number, as send_media_tick and send_app_data hand out, is one more.
LEMMA AwaitOne ==
  ASSUME NEW seq, NEW pending, Awaited(pending, seq)
  PROVE  /\ Awaited(pending \cup {seq + 1}, seq + 1)
         /\ Cardinality(pending) \in Nat
         /\ Cardinality(pending \cup {seq + 1}) = Cardinality(pending) + 1
<1>1. seq \in Nat /\ pending \in SUBSET (1 .. seq) /\ IsFiniteSet(pending)
  BY DEF Awaited
<1>2. seq + 1 \notin pending
  BY <1>1
<1>3. pending \cup {seq + 1} \in SUBSET (1 .. (seq + 1))
  BY <1>1
<1>4. IsFiniteSet(pending \cup {seq + 1})
  BY <1>1, FS_AddElement
<1>5. Cardinality(pending \cup {seq + 1}) = Cardinality(pending) + 1
  BY <1>1, <1>2, FS_AddElement
<1>6. Cardinality(pending) \in Nat
  BY <1>1, FS_CardinalityType
<1> QED  BY <1>1, <1>3, <1>4, <1>5, <1>6 DEF Awaited

\* An answer to an awaited number, as in handle_pong, settles that one.
LEMMA SettleOne ==
  ASSUME NEW seq, NEW pending, Awaited(pending, seq), NEW n \in pending
  PROVE  /\ Awaited(pending \ {n}, seq)
         /\ Cardinality(pending \ {n}) \in Nat
         /\ Cardinality(pending) = Cardinality(pending \ {n}) + 1
<1>1. seq \in Nat /\ pending \in SUBSET (1 .. seq) /\ IsFiniteSet(pending)
  BY DEF Awaited
<1>2. /\ IsFiniteSet(pending \ {n})
      /\ Cardinality(pending \ {n}) = Cardinality(pending) - 1
  BY <1>1, FS_RemoveElement
<1>3. Cardinality(pending) \in Nat /\ Cardinality(pending \ {n}) \in Nat
  BY <1>1, <1>2, FS_CardinalityType
<1>4. pending \ {n} \in SUBSET (1 .. seq)
  BY <1>1
<1> QED  BY <1>1, <1>2, <1>3, <1>4 DEF Awaited

\* A sweep settles the numbers it finds too old, all at once.
LEMMA SettleOld ==
  ASSUME NEW seq, NEW pending, Awaited(pending, seq), NEW old \in SUBSET pending
  PROVE  /\ Awaited(pending \ old, seq) /\ IsFiniteSet(old)
         /\ Cardinality(old) \in Nat /\ Cardinality(pending \ old) \in Nat
         /\ Cardinality(pending) = Cardinality(pending \ old) + Cardinality(old)
<1>1. seq \in Nat /\ pending \in SUBSET (1 .. seq) /\ IsFiniteSet(pending)
  BY DEF Awaited
<1>2. IsFiniteSet(old)
  BY <1>1, FS_Subset
<1>3. /\ IsFiniteSet(pending \ old)
      /\ Cardinality(pending \ old) = Cardinality(pending) - Cardinality(pending \cap old)
  BY <1>1, FS_Difference
<1>4. pending \cap old = old
  OBVIOUS
<1>5. /\ Cardinality(pending) \in Nat /\ Cardinality(old) \in Nat
      /\ Cardinality(pending \ old) \in Nat
  BY <1>1, <1>2, <1>3, FS_CardinalityType
<1>6. pending \ old \in SUBSET (1 .. seq)
  BY <1>1
<1>7. Cardinality(pending) = Cardinality(pending \ old) + Cardinality(old)
  BY <1>3, <1>4, <1>5
<1> QED  BY <1>1, <1>2, <1>3, <1>5, <1>6, <1>7 DEF Awaited

-----------------------------------------------------------------------------
(* The handlers keep the books *)

\* send_media_tick sends one packet and awaits its acknowledgement.
LEMMA SendKeeps ==
  ASSUME NEW s, OutInv(s)  PROVE OutInv(SendMediaTick(s))
<1> DEFINE t == SendMediaTick(s)
<1> SUFFICES OutInv(t)
  OBVIOUS
<1>1. /\ DOMAIN t = DOMAIN s /\ t.seq = s.seq + 1 /\ t.tx = s.tx + 1
      /\ t.rx_ack = s.rx_ack /\ t.loss = s.loss /\ t.pending = s.pending \cup {s.seq + 1}
  BY DEF OutInv, SendMediaTick
<1> HIDE DEF t
<1>2. Awaited(s.pending, s.seq)
  BY DEF OutInv
<1>3. /\ Awaited(s.pending \cup {s.seq + 1}, s.seq + 1) /\ Cardinality(s.pending) \in Nat
      /\ Cardinality(s.pending \cup {s.seq + 1}) = Cardinality(s.pending) + 1
  BY <1>2, AwaitOne
<1> QED  BY <1>1, <1>3 DEF OutInv

\* An ack counts once, and only while its packet is awaited.
LEMMA AckKeeps ==
  ASSUME NEW s, NEW seq, OutInv(s)  PROVE OutInv(OnAck(s, seq))
<1> DEFINE t == OnAck(s, seq)
<1> SUFFICES OutInv(t)
  OBVIOUS
<1>1. DOMAIN t = DOMAIN s /\ t.seq = s.seq /\ t.tx = s.tx /\ t.loss = s.loss
  BY DEF OutInv, OnAck
<1>2. CASE seq \in s.pending
  <2>1. t.pending = s.pending \ {seq} /\ t.rx_ack = s.rx_ack + 1
    BY <1>2 DEF OutInv, OnAck
  <2>2. /\ Awaited(t.pending, t.seq) /\ Cardinality(t.pending) \in Nat
        /\ Cardinality(s.pending) = Cardinality(t.pending) + 1
    BY <1>1, <1>2, <2>1, SettleOne DEF OutInv
  <2> HIDE DEF t
  <2> QED  BY <1>1, <2>1, <2>2 DEF OutInv
<1>3. CASE seq \notin s.pending
  <2>1. t.pending = s.pending /\ t.rx_ack = s.rx_ack
    BY <1>3 DEF OutInv, OnAck
  <2> HIDE DEF t
  <2> QED  BY <1>1, <2>1 DEF OutInv
<1> QED  BY <1>2, <1>3

\* sweep_stream_acks counts each packet that is too old as delivered or lost.
LEMMA SweepKeeps ==
  ASSUME NEW s, NEW upto, OutInv(s)  PROVE OutInv(SweepStreamAcks(s, upto))
<1> DEFINE old == {q \in s.pending : q <= upto}
           proven == {q \in old : q <= s.max_ack}
           t == SweepStreamAcks(s, upto)
<1> SUFFICES OutInv(t)
  OBVIOUS
<1>1. /\ DOMAIN t = DOMAIN s /\ t.seq = s.seq /\ t.tx = s.tx
      /\ t.pending = s.pending \ old /\ t.rx_ack = s.rx_ack + Cardinality(proven)
      /\ t.loss = s.loss + Cardinality(old \ proven)
  BY DEF OutInv, SweepStreamAcks
<1>2. old \in SUBSET s.pending /\ proven \in SUBSET old
  OBVIOUS
<1> HIDE DEF old, proven, t
<1>3. /\ Awaited(s.pending \ old, s.seq) /\ IsFiniteSet(old)
      /\ Cardinality(old) \in Nat /\ Cardinality(s.pending \ old) \in Nat
      /\ Cardinality(s.pending) = Cardinality(s.pending \ old) + Cardinality(old)
  BY <1>2, SettleOld, ZenonT(40) DEF OutInv
<1>4. IsFiniteSet(proven) /\ IsFiniteSet(old \ proven) /\ old \cap proven = proven
  BY <1>2, <1>3, FS_Subset, FS_Difference
<1>5. Cardinality(old \ proven) = Cardinality(old) - Cardinality(old \cap proven)
  BY <1>3, FS_Difference
<1>6. Cardinality(proven) \in Nat /\ Cardinality(old \ proven) \in Nat
  BY <1>4, FS_CardinalityType
<1>7. Cardinality(old) = Cardinality(proven) + Cardinality(old \ proven)
  BY <1>3, <1>4, <1>5, <1>6
<1>8. s.tx = s.rx_ack + s.loss + Cardinality(s.pending) /\ s.rx_ack \in Nat /\ s.loss \in Nat
  BY DEF OutInv
<1>9. /\ t.tx = t.rx_ack + t.loss + Cardinality(t.pending)
      /\ t.rx_ack \in Nat /\ t.loss \in Nat
  BY <1>1, <1>3, <1>6, <1>7, <1>8
<1> QED  BY <1>1, <1>3, <1>9 DEF OutInv

\* send_app_data, handle_pong and sweep_lost_pings keep the pings' books.
LEMMA PingKeeps ==
  ASSUME NEW p, NEW n, PingInv(p)
  PROVE  PingInv(SendAppData(p)) /\ PingInv(HandlePong(p, n)) /\ PingInv(SweepLostPings(p, n))
<1>1. PingInv(SendAppData(p))
  <2> DEFINE t == SendAppData(p)
  <2> SUFFICES PingInv(t)
    OBVIOUS
  <2>1. /\ DOMAIN t = DOMAIN p /\ t.seq = p.seq + 1 /\ t.rx = p.rx /\ t.loss = p.loss
        /\ t.pending = p.pending \cup {p.seq + 1}
    BY DEF PingInv, SendAppData
  <2> HIDE DEF t
  <2>2. Awaited(p.pending, p.seq)
    BY DEF PingInv
  <2>3. /\ Awaited(p.pending \cup {p.seq + 1}, p.seq + 1) /\ Cardinality(p.pending) \in Nat
        /\ Cardinality(p.pending \cup {p.seq + 1}) = Cardinality(p.pending) + 1
    BY <2>2, AwaitOne
  <2> QED  BY <2>1, <2>3 DEF PingInv
<1>2. ASSUME n \in p.pending  PROVE PingInv(HandlePong(p, n))
  <2> DEFINE t == HandlePong(p, n)
  <2>1. /\ DOMAIN t = DOMAIN p /\ t.seq = p.seq /\ t.rx = p.rx + 1 /\ t.loss = p.loss
        /\ t.pending = p.pending \ {n}
    BY <1>2 DEF PingInv, HandlePong
  <2>2. /\ Awaited(t.pending, t.seq) /\ Cardinality(t.pending) \in Nat
        /\ Cardinality(p.pending) = Cardinality(t.pending) + 1
    BY <1>2, <2>1, SettleOne DEF PingInv
  <2> HIDE DEF t
  <2>3. PingInv(t)
    BY <2>1, <2>2 DEF PingInv
  <2> QED  BY <2>3 DEF t
<1>3. PingInv(HandlePong(p, n))
  BY <1>2 DEF HandlePong
<1>4. PingInv(SweepLostPings(p, n))
  <2> DEFINE old == {q \in p.pending : q <= n}
             t == SweepLostPings(p, n)
  <2>1. /\ DOMAIN t = DOMAIN p /\ t.seq = p.seq /\ t.rx = p.rx
        /\ t.loss = p.loss + Cardinality(old) /\ t.pending = p.pending \ old
    BY DEF PingInv, SweepLostPings
  <2>2. old \in SUBSET p.pending
    OBVIOUS
  <2> HIDE DEF old, t
  <2>3. /\ Awaited(p.pending \ old, p.seq)
        /\ Cardinality(old) \in Nat /\ Cardinality(p.pending \ old) \in Nat
        /\ Cardinality(p.pending) = Cardinality(p.pending \ old) + Cardinality(old)
    BY <2>2, SettleOld, ZenonT(40) DEF PingInv
  <2>4. PingInv(t)
    BY <2>1, <2>3 DEF PingInv
  <2> QED  BY <2>4 DEF t
<1> QED  BY <1>1, <1>3, <1>4

-----------------------------------------------------------------------------
(* Every step keeps the books *)

\* A new stream and new pings owe nothing.
LEMMA NewBalanced == OutInv(NewOut) /\ PingInv(NewPing) /\ PingInv(StartTraffic(NewPing))
<1>1. Awaited({}, 0) /\ Cardinality({}) = 0
  BY FS_EmptySet DEF Awaited
<1> QED  BY <1>1 DEF OutInv, PingInv, NewOut, NewPing, StartTraffic

\* The stream changes only by a media tick, an ack, a sweep, a redial and a failed
\* resume.
LEMMA OutStep == OutInv(out) /\ [Next]_vars => OutInv(out')
<1> SUFFICES ASSUME OutInv(out), [Next]_vars  PROVE OutInv(out')
  OBVIOUS
<1>1. CASE MediaTick  BY <1>1, SendKeeps DEF MediaTick
<1>2. CASE AckArrives  BY <1>2, AckKeeps DEF AckArrives
<1>3. CASE \E k \in 1 .. MaxEvents : SweepAcks(k)  BY <1>3, SweepKeeps DEF SweepAcks
<1>4. CASE Redial  BY <1>4, NewBalanced DEF Redial
<1>5. CASE \/ PumpAppBearers \/ ScheduleDownlink \/ TrafficTick \/ ArriveDl \/ ArriveUl
           \/ LoseUl \/ LoseDl \/ ServiceLinkMetrics \/ Traffic \/ Suspend \/ Resume
           \/ ResumeFails
           \/ (\E class \in {"CTRL", "SIG", "VIDEO"} : Offer(class))
           \/ (\E k \in 1 .. MaxEvents : SweepPings(k)) \/ UNCHANGED vars
  <2>1. out' = out
    BY <1>5 DEF PumpAppBearers, ScheduleDownlink, TrafficTick, ArriveDl, ArriveUl, LoseUl, LoseDl,
                ServiceLinkMetrics, Traffic, Suspend, Resume, ResumeFails, Offer, SweepPings, ends, vars
  <2> QED  BY <2>1
<1> QED  BY <1>1, <1>2, <1>3, <1>4, <1>5 DEF Next, Arrivals, Timers

\* The pings change only by a ping, a pong, a sweep and by starting and stopping.
LEMMA PingStep == PingInv(ping) /\ [Next]_vars => PingInv(ping')
<1> SUFFICES ASSUME PingInv(ping), [Next]_vars  PROVE PingInv(ping')
  OBVIOUS
<1>1. CASE TrafficTick  BY <1>1, PingKeeps DEF TrafficTick
<1>2. CASE ArriveDl
  <2>1. ping' = ping \/ ping' = HandlePong(ping, Head(airDl).seq)
    BY <1>2 DEF ArriveDl
  <2> QED  BY <2>1, PingKeeps
<1>3. CASE \E k \in 1 .. MaxEvents : SweepPings(k)  BY <1>3, PingKeeps DEF SweepPings
<1>4. CASE Traffic
  <2>1. PingInv(StopTraffic(ping)) /\ PingInv(StartTraffic(ping))
    BY DEF PingInv, StopTraffic, StartTraffic
  <2> QED  BY <1>4, <2>1 DEF Traffic
<1>5. CASE \/ PumpAppBearers \/ ScheduleDownlink \/ MediaTick \/ AckArrives \/ ArriveUl
           \/ LoseUl \/ LoseDl \/ ServiceLinkMetrics \/ Redial \/ Suspend \/ Resume
           \/ ResumeFails
           \/ (\E class \in {"CTRL", "SIG", "VIDEO"} : Offer(class))
           \/ (\E k \in 1 .. MaxEvents : SweepAcks(k)) \/ UNCHANGED vars
  <2>1. ping' = ping
    BY <1>5 DEF PumpAppBearers, ScheduleDownlink, MediaTick, AckArrives, ArriveUl, LoseUl, LoseDl,
                ServiceLinkMetrics, Redial, Suspend, Resume, ResumeFails, Offer, SweepAcks,
                ends, vars
  <2> QED  BY <2>1
<1> QED  BY <1>1, <1>2, <1>3, <1>4, <1>5 DEF Next, Arrivals, Timers

\* Every media packet sent is acknowledged, lost or awaited, and counted once,
\* whatever happens to acks and whenever sweep_stream_acks runs.
THEOREM SenderBalanced == Spec => []SenderBalance
<1>1. Init => OutInv(out)
  BY NewBalanced DEF Init
<1>2. OutInv(out) => SenderBalance
  BY DEF OutInv, SenderBalance
<1>3. OutInv(out)' <=> OutInv(out')
  BY DEF OutInv, Awaited
<1>4. OutInv(out) /\ [Next]_vars => OutInv(out)'
  BY <1>3, OutStep
<1> QED  BY <1>1, <1>2, <1>4, PTL DEF Spec

\* Every ping is answered, lost or awaited, and counted once, through stops
\* and starts of the traffic.
THEOREM PingsBalanced == Spec => []PingBalance
<1>1. Init => PingInv(ping)
  BY NewBalanced DEF Init
<1>2. PingInv(ping) => PingBalance
  BY DEF PingInv, PingBalance
<1>3. PingInv(ping)' <=> PingInv(ping')
  BY DEF PingInv, Awaited
<1>4. PingInv(ping) /\ [Next]_vars => PingInv(ping)'
  BY <1>3, PingStep
<1> QED  BY <1>1, <1>2, <1>4, PTL DEF Spec
=============================================================================
