------------------------------ MODULE UserPlane ------------------------------
(* A UE in a call and its cell.  A peer's media comes down through the UE's  *)
(* flow in the cell, the UE's acknowledgements and pings go up through its   *)
(* own bearers, and the cell echoes the pings.  Both sides serve their       *)
(* queues by Qos into a HARQ pipe that loses blocks and, above UM and AM,    *)
(* keeps the order of what it delivers.                                      *)
EXTENDS Qos, Streams

CONSTANTS Procs,     \* num_processes: blocks a HARQ pipe holds
          MaxEvents  \* bound: packets sent, suspensions, redials together

ASSUME UserPlaneConstants ==
  Procs \in Nat \ {0} /\ MaxEvents \in Nat

(* out: the peer's stream.   ins, ping: the UE's.   acks: feedback on the    *)
(* way to the peer.   ul, dl: the UE's bearers and its flow's, with airUl,   *)
(* airDl the HARQ pipes.   suspended, inactive: the resume identity under    *)
(* which the cell has parked the flow and the one the UE sleeps on, 0 if not.*)
(* call: the first one, one the UE has dropped, or one set up anew.          *)
(* events: counted against MaxEvents.                                        *)
(* got: the packets of this call the UE received.   waited: picks of other   *)
(* classes since best effort had data and was not served, on either side.    *)
VARIABLES out, ins, ping, acks, ul, dl, airUl, airDl, suspended, inactive, call, events,
          got, waited

ends == <<out, ins, ping, got, call>>
pipes == <<acks, ul, dl, airUl, airDl, waited>>
parked == <<suspended, inactive>>
vars == <<ends, pipes, parked, events>>

Init ==
  /\ out = NewOut /\ ins = NoStream /\ acks = <<>>
  /\ ping \in {NewPing, StartTraffic(NewPing)}
  /\ ul = EmptySet /\ dl = EmptySet /\ airUl = <<>> /\ airDl = <<>>
  /\ suspended = 0 /\ inactive = 0 /\ call = "first" /\ events = 0
  /\ got = {} /\ waited = [ul |-> 0, dl |-> 0]

Pdu(t, seq) == [t |-> t, seq |-> seq]
Spend == events < MaxEvents /\ events' = events + 1

-----------------------------------------------------------------------------
(* Draining the queues into HARQ, as far as there is room *)

Waited(w, q) ==
  CASE q.BE = <<>> \/ NextClass(q) = "BE" -> 0
    [] NextClass(q) = "CTRL" -> w
    [] OTHER -> w + 1

\* Mutant: a parked flow is drained like any other.
MayServeParked(q, held) == TRUE

\* Of a parked flow the control queue still drains.
MayServe(q, held) == held => q.CTRL # <<>>

\* One round of either loop: s holds the queues, the pipe and the count.
Drained(s, held) ==
  LET Step(r, k) ==
        IF Empty(r.q) \/ Len(r.air) >= Procs \/ ~MayServe(r.q, held) THEN r
        ELSE [q |-> PopNext(r.q), air |-> Append(r.air, Popped(r.q)), w |-> Waited(r.w, r.q)]
  IN  FoldLeft(Step, s, [k \in 1 .. Procs |-> k])

PumpAppBearers ==
  /\ inactive = 0 /\ ~Empty(ul) /\ Len(airUl) < Procs
  /\ LET s == Drained([q |-> ul, air |-> airUl, w |-> waited.ul], FALSE)
     IN  ul' = s.q /\ airUl' = s.air /\ waited' = [waited EXCEPT !.ul = s.w]
  /\ UNCHANGED <<ends, acks, dl, airDl, parked, events>>

ScheduleDownlink ==
  /\ ~Empty(dl) /\ MayServe(dl, suspended # 0) /\ Len(airDl) < Procs
  /\ LET s == Drained([q |-> dl, air |-> airDl, w |-> waited.dl], suspended # 0)
     IN  dl' = s.q /\ airDl' = s.air /\ waited' = [waited EXCEPT !.dl = s.w]
  /\ UNCHANGED <<ends, acks, ul, airUl, parked, events>>

-----------------------------------------------------------------------------
(* What is offered to the queues *)

\* The peer's media tick.  A loss on the peer's own links is one on the UE's.
MediaTick ==
  /\ Spend /\ out' = SendMediaTick(out)
  /\ dl' = Enqueue(dl, "VOICE", Pdu("media", out.seq + 1))
  /\ UNCHANGED <<ins, ping, got, call, acks, ul, airUl, airDl, waited, parked>>

TrafficTick ==
  /\ ping.running /\ Spend /\ ping' = SendAppData(ping)
  /\ ul' = Enqueue(ul, "BE", Pdu("ping", ping.seq + 1))
  /\ UNCHANGED <<out, ins, got, call, acks, dl, airUl, airDl, waited, parked>>

\* Signalling, video and control of other users of the same queues.  A video
\* frame exceeds one air frame: its segments are queued together.
Offered(q, class) ==
  LET r == Enqueue(q, class, Pdu(class, 0))
  IN  IF class = "VIDEO" THEN Enqueue(r, class, Pdu(class, 0)) ELSE r
Offer(class) ==
  /\ Spend
  /\ \/ dl' = Offered(dl, class) /\ UNCHANGED ul
     \/ class # "CTRL" /\ ul' = Offered(ul, class) /\ UNCHANGED dl
  /\ UNCHANGED <<ends, acks, airUl, airDl, waited, parked>>

\* The UE's own control PDU is the CQI report, queued without a limit.
ServiceLinkMetrics ==
  /\ inactive = 0 /\ Spend /\ ul' = [ul EXCEPT !.CTRL = Append(@, Pdu("CTRL", 0))]
  /\ UNCHANGED <<ends, acks, dl, airUl, airDl, waited, parked>>

-----------------------------------------------------------------------------
(* Arrivals: the head of a pipe is delivered, or lost *)

LoseUl ==
  /\ airUl # <<>> /\ airUl' = Tail(airUl)
  /\ UNCHANGED <<ends, acks, ul, dl, airDl, waited, parked, events>>
LoseDl ==
  /\ airDl # <<>> /\ airDl' = Tail(airDl)
  /\ UNCHANGED <<ends, acks, ul, dl, airUl, waited, parked, events>>

\* At the UE: media of a call it has is counted and acknowledged, a pong settles its
\* ping, and a suspend RELEASE parks the UE, whatever the cell has done since.
\* Asleep the UE has no C-RNTI and hears nothing.
ArriveDl ==
  /\ airDl # <<>> /\ airDl' = Tail(airDl)
  /\ LET m == Head(airDl)
         heard(t) == inactive = 0 /\ m.t = t /\ (t = "media" => call # "gone")
     IN  /\ ins' = IF heard("media") THEN OnMedia(ins, m.seq) ELSE ins
         /\ got' = IF heard("media") THEN got \cup {m.seq} ELSE got
         /\ ul' = IF heard("media") THEN Enqueue(ul, "VOICE", Pdu("ack", m.seq)) ELSE ul
         /\ ping' = IF heard("pong") THEN HandlePong(ping, m.seq) ELSE ping
         /\ inactive' = IF heard("RELEASE") THEN m.seq ELSE inactive
  /\ UNCHANGED <<out, call, acks, dl, airUl, waited, suspended, events>>

\* At the cell: user data un-parks a flow; a ping is echoed.
ArriveUl ==
  /\ airUl # <<>> /\ airUl' = Tail(airUl)
  /\ LET m == Head(airUl)
     IN  /\ acks' = IF m.t = "ack" THEN Append(acks, m.seq) ELSE acks
         /\ dl' = IF m.t = "ping" THEN Enqueue(dl, "BE", Pdu("pong", m.seq)) ELSE dl
         /\ suspended' = IF m.t = "CTRL" THEN suspended ELSE 0
  /\ UNCHANGED <<ends, ul, airDl, waited, inactive, events>>

AckArrives ==
  /\ acks # <<>> /\ acks' = Tail(acks) /\ out' = OnAck(out, Head(acks))
  /\ UNCHANGED <<ins, ping, got, call, ul, dl, airUl, airDl, waited, parked, events>>

-----------------------------------------------------------------------------
(* Timers, calls and the idle mode *)

SweepAcks(upto) ==
  /\ out.pending # {} /\ out' = SweepStreamAcks(out, upto)
  /\ UNCHANGED <<ins, ping, got, call, pipes, parked, events>>
SweepPings(upto) ==
  /\ ping.running /\ ping.pending # {} /\ ping' = SweepLostPings(ping, upto)
  /\ UNCHANGED <<out, ins, got, call, pipes, parked, events>>
Traffic ==
  /\ Spend /\ ping' = IF ping.running THEN StopTraffic(ping) ELSE StartTraffic(ping)
  /\ UNCHANGED <<out, ins, got, call, pipes, parked>>

\* Hanging up erases both streams; what is queued on the bearers stays.
Redial ==
  /\ call # "redialed" /\ out.seq > 0 /\ Spend /\ call' = "redialed"
  /\ out' = NewOut /\ ins' = NoStream /\ got' = {}
  /\ UNCHANGED <<ping, pipes, parked>>

\* The RELEASE carries the resume identity, fresh for every suspension.  HARQ is
\* reset with it; what is in flight still arrives.
Suspend ==
  /\ suspended = 0 /\ Spend /\ suspended' = events + 1
  /\ dl' = Enqueue(dl, "CTRL", Pdu("RELEASE", events + 1))
  /\ UNCHANGED <<ends, acks, ul, airUl, airDl, waited, inactive>>

\* The resume exchange is module Connection's.  The flow goes on under a new
\* C-RNTI with its queues; what is in flight is addressed to the old one.
Resume ==
  /\ inactive # 0 /\ inactive = suspended
  /\ inactive' = 0 /\ suspended' = 0 /\ airUl' = <<>> /\ airDl' = <<>>
  /\ UNCHANGED <<ends, acks, ul, dl, waited, events>>

\* The identity is not known any more (RESUME_FAILURE), or the resume guard fires:
\* the UE drops its call without a word to the peer, and a full attach gives it a
\* new flow.
ResumeFails ==
  /\ inactive # 0
  /\ inactive' = 0 /\ suspended' = 0 /\ airUl' = <<>> /\ airDl' = <<>>
  /\ dl' = EmptySet /\ waited' = [waited EXCEPT !.dl = 0]
  /\ ins' = NoStream /\ got' = {} /\ call' = "gone"
  /\ UNCHANGED <<out, ping, acks, ul, events>>

Arrivals == ArriveDl \/ ArriveUl \/ LoseUl \/ LoseDl \/ AckArrives
Timers == \/ \E k \in 1 .. MaxEvents : SweepAcks(k)
          \/ \E k \in 1 .. MaxEvents : SweepPings(k)
Next ==
  \/ PumpAppBearers \/ ScheduleDownlink \/ MediaTick \/ TrafficTick \/ Arrivals \/ Timers
  \/ \E class \in {"CTRL", "SIG", "VIDEO"} : Offer(class)
  \/ ServiceLinkMetrics \/ Traffic \/ Redial
  \/ Suspend \/ Resume \/ ResumeFails

Spec == Init /\ [][Next]_vars

\* The sweep timer runs while a stream exists, and in the end finds every
\* entry too old.
FairSpec == Spec /\ WF_vars(SweepAcks(MaxEvents))

-----------------------------------------------------------------------------
(* What the counters and the scheduler promise *)

AppQueues(q) == {q[c] : c \in ToSet(Classes)}

\* No queue outgrows its limit and no pipe its processes, in bursts of every
\* class and while the flow is parked (enqueue_app_pdu, downlink_send); only
\* the UE's control queue, filled by service_link_metrics, has no limit.
Bounded ==
  /\ \A q \in AppQueues(ul) \cup AppQueues(dl) \cup {dl.CTRL} : Len(q) <= Limit
  /\ Len(airUl) <= Procs /\ Len(airDl) <= Procs

\* The minimum share: best effort with data waits for at most three picks of
\* other classes, control aside, whatever arrives meanwhile.
BestEffortShare == waited.ul <= 3 /\ waited.dl <= 3

\* The sender's books balance: every packet sent is acknowledged, lost or
\* still awaited, and counted once, with acks late, lost, or from the call
\* before, and sweeps at any time.
SenderBalance == out.tx = out.rx_ack + out.loss + Cardinality(out.pending)

\* So do the pings', through stops and starts of the traffic.
PingBalance == ping.seq = ping.rx + ping.loss + Cardinality(ping.pending)

\* Within one call the receiver's books account for each packet once: what it
\* received and what it missed together never exceed what was sent.
ReceiverBalance == call = "first" => ins.rx + ins.loss <= out.tx

\* A packet the sender takes for delivered was delivered.  Does not hold:
\* sweep_stream_acks counts an old packet as delivered once a later ack came.
AckProvesDelivery == call = "first" => out.rx_ack <= Cardinality(got)

\* No app data is lost in the UE's sleep: while the UE sleeps on the identity its
\* flow is parked under, nothing but control is in flight to it, though data
\* queued before the RELEASE is overtaken by it and data keeps coming
\* (schedule_downlink).  Uplink data crossing the RELEASE un-parks the flow, and
\* then the identities differ.
SleepsUndisturbed ==
  inactive # 0 /\ inactive = suspended =>
    \A i \in DOMAIN airDl : airDl[i].t \in {"CTRL", "RELEASE"}

\* Every media packet's fate is settled in the end.
AcksResolved ==
  \A s \in 1 .. MaxEvents : s \in out.pending ~> s \notin out.pending
=============================================================================
