------------------------------- MODULE RlcUm --------------------------------
(* RLC unacknowledged mode (stack/rlc): one UmTx and the peer UmRx.  No PDU  *)
(* is ever resent; a hole is waited for until t_reorder, then skipped.       *)
EXTENDS Integers, Sequences, FiniteSets, Functions

CONSTANTS SnMod,     \* sequence number space (2^16)
          MaxPdus,   \* bound: data PDUs ever built on one bearer
          MaxSegs,   \* bound: segments of an SDU
          Window,    \* reorder window
          TReorder,  \* t_reorder_ms, in ticks
          SeenMax    \* bound on seen_

ASSUME UmConstants ==
  /\ SnMod \in Nat \ {0} /\ MaxPdus \in Nat /\ MaxSegs \in Nat \ {0}
  /\ Window \in Nat \ {0} /\ TReorder \in Nat \ {0} /\ SeenMax \in Nat

VARIABLES next_sn,                                          \* UmTx
          vr_next, buffer, seen, collecting, partial,       \* UmRx
          timer,   \* ticks since t_reorder was armed, -1 = not running
          wire,    \* PDUs in flight
          built,   \* number of PDUs built
          submitted, delivered   \* history: SDUs given to tx, handed up by poll

rxVars == <<vr_next, buffer, seen, collecting, partial, timer, delivered>>
vars == <<next_sn, built, submitted, rxVars, wire>>

SN == 0 .. SnMod - 1
FI == {"complete", "first", "middle", "last"}
Pieces == (1 .. MaxPdus) \X (1 .. MaxSegs)
PDU == [sn : SN, fi : FI, data : Pieces]

TypeOK ==
  /\ next_sn \in SN /\ vr_next \in SN /\ seen \subseteq SN
  /\ DOMAIN buffer \subseteq SN /\ Range(buffer) \subseteq PDU
  /\ collecting \in BOOLEAN /\ partial \in Seq(Pieces)
  /\ timer \in -1 .. TReorder - 1
  /\ wire \subseteq PDU /\ built \in 0 .. MaxPdus
  /\ submitted \in Seq(Seq(Pieces)) /\ delivered \in Seq(Seq(Pieces))
  /\ Len(submitted) <= built

Init ==
  /\ next_sn = 0 /\ vr_next = 0 /\ buffer = <<>> /\ seen = {}
  /\ collecting = FALSE /\ partial = <<>> /\ timer = -1
  /\ wire = {} /\ built = 0 /\ submitted = <<>> /\ delivered = <<>>

-----------------------------------------------------------------------------
Segment(k, n, i) ==
  [sn   |-> (next_sn + i - 1) % SnMod,
   fi   |-> CASE n = 1 -> "complete" [] n > 1 /\ i = 1 -> "first"
              [] n > 1 /\ i = n -> "last" [] OTHER -> "middle",
   data |-> <<k, i>>]

Tx(n) ==
  LET k    == Len(submitted) + 1
      pdus == {Segment(k, n, i) : i \in 1 .. n}
  IN
  /\ built + n <= MaxPdus
  /\ next_sn' = (next_sn + n) % SnMod
  /\ wire' = wire \cup pdus
  /\ built' = built + n
  /\ submitted' = Append(submitted, [i \in 1 .. n |-> <<k, i>>])
  /\ UNCHANGED rxVars

-----------------------------------------------------------------------------
Remember(sn) ==
  LET s == seen \cup {sn}
  IN  IF Cardinality(s) > SeenMax
      THEN s \ {x \in s : \A y \in s : x <= y} ELSE s

\* The signed 16-bit distance of sn from the window edge.
Dist(sn) == ((sn - vr_next + SnMod \div 2) % SnMod) - SnMod \div 2

\* Completing an SDU whose first segment was skipped.
AcceptInOrderNoStart(r, p) ==
  [collecting |-> p.fi = "first" \/ (r.collecting /\ p.fi # "last"),
   partial    |-> CASE p.fi = "first" -> <<p.data>> [] p.fi = "last" -> <<>>
                    [] p.fi = "middle" -> Append(r.partial, p.data)
                    [] OTHER -> r.partial,
   out        |-> CASE p.fi = "complete" -> Append(r.out, <<p.data>>)
                    [] p.fi = "last" -> Append(r.out, Append(r.partial, p.data))
                    [] OTHER -> r.out]

AcceptInOrder(r, p) ==
  [collecting |-> p.fi = "first" \/ (r.collecting /\ p.fi # "last"),
   partial    |-> CASE p.fi = "first" -> <<p.data>>
                    [] p.fi = "last" /\ r.collecting -> <<>>
                    [] p.fi = "middle" /\ r.collecting -> Append(r.partial, p.data)
                    [] OTHER -> r.partial,
   out        |-> CASE p.fi = "complete" -> Append(r.out, <<p.data>>)
                    [] p.fi = "last" /\ r.collecting ->
                         Append(r.out, Append(r.partial, p.data))
                    [] OTHER -> r.out]

AcceptAll(r, ps) ==
  LET after[i \in 0 .. Len(ps)] ==
        IF i = 0 THEN r ELSE AcceptInOrder(after[i - 1], ps[i])
  IN  after[Len(ps)]

\* deliver_ready finds the k held PDUs of b that follow on from v, and no more.
Drains(b, v, k) ==
  /\ \A i \in 0 .. k - 1 : (v + i) % SnMod \in DOMAIN b
  /\ k < SnMod => (v + k) % SnMod \notin DOMAIN b

\* From reassembly state r accept the PDUs ps, then the k that b holds from v on.
Deliver(r, ps, b, v, k) ==
  LET end == AcceptAll(r, ps \o [i \in 1 .. k |-> b[(v + i - 1) % SnMod]])
  IN
  /\ Drains(b, v, k)
  /\ vr_next' = (v + k) % SnMod
  /\ buffer' = Restrict(b, DOMAIN b \ {(v + i) % SnMod : i \in 0 .. k - 1})
  /\ collecting' = end.collecting /\ partial' = end.partial
  /\ delivered' = end.out

Ongoing == [collecting |-> collecting, partial |-> partial, out |-> delivered]
Afresh == [collecting |-> FALSE, partial |-> <<>>, out |-> delivered]

RxDuplicate(p) ==
  /\ p.sn \in seen
  /\ UNCHANGED rxVars

RxStale(p) ==
  /\ p.sn \notin seen /\ Dist(p.sn) < 0
  /\ seen' = Remember(p.sn)
  /\ UNCHANGED <<vr_next, buffer, collecting, partial, timer, delivered>>

\* Resynchronising without clearing what was held.
RxFarAheadKeepsBuffer(p) ==
  /\ p.sn \notin seen /\ Dist(p.sn) >= Window
  /\ seen' = Remember(p.sn)
  /\ \E k \in 0 .. SnMod : Deliver(Afresh, <<p>>, buffer, (p.sn + 1) % SnMod, k)
  /\ timer' = -1

\* A jump past the window: resynchronise at this SN.
RxFarAhead(p) ==
  /\ p.sn \notin seen /\ Dist(p.sn) >= Window
  /\ seen' = Remember(p.sn)
  /\ Deliver(Afresh, <<p>>, <<>>, (p.sn + 1) % SnMod, 0)
  /\ timer' = -1

RxInOrder(p) ==
  /\ p.sn \notin seen /\ Dist(p.sn) = 0
  /\ seen' = Remember(p.sn)
  /\ \E k \in 0 .. SnMod : Deliver(Ongoing, <<p>>, buffer, (p.sn + 1) % SnMod, k)
  /\ timer' = IF DOMAIN buffer' = {} THEN -1 ELSE timer

RxHold(p) ==
  /\ p.sn \notin seen /\ Dist(p.sn) > 0 /\ Dist(p.sn) < Window
  /\ seen' = Remember(p.sn)
  /\ buffer' = [x \in DOMAIN buffer \cup {p.sn} |->
                  IF x = p.sn THEN p ELSE buffer[x]]
  /\ timer' = IF timer = -1 THEN 0 ELSE timer
  /\ UNCHANGED <<vr_next, collecting, partial, delivered>>

Rx(p) ==
  RxDuplicate(p) \/ RxStale(p) \/ RxFarAhead(p) \/ RxInOrder(p) \/ RxHold(p)

\* Resuming at the window edge instead of at the lowest held SN.
ResumeAtEdge == vr_next

\* The map iterates in numeric order, whatever the window edge.
Resume == CHOOSE x \in DOMAIN buffer : \A y \in DOMAIN buffer : x <= y

TickWait ==
  /\ timer + 1 < TReorder
  /\ timer' = IF timer = -1 THEN -1 ELSE timer + 1
  /\ UNCHANGED <<vr_next, buffer, seen, collecting, partial, delivered>>

\* The early return for an empty buffer is never taken: see TimerCoversHole.
TickExpire ==
  /\ timer # -1 /\ timer + 1 >= TReorder /\ DOMAIN buffer # {}
  /\ \E k \in 0 .. SnMod :
       Deliver(IF Resume = vr_next THEN Ongoing ELSE Afresh, <<>>, buffer, Resume, k)
  /\ timer' = IF DOMAIN buffer' = {} THEN -1 ELSE 0
  /\ UNCHANGED seen

Tick == (TickWait \/ TickExpire) /\ UNCHANGED <<next_sn, built, submitted, wire>>

-----------------------------------------------------------------------------
\* A lower-layer duplicate is a reception that leaves the PDU in flight.
RecvPdu(p) ==
  /\ p \in wire
  /\ Rx(p)
  /\ wire' \in {wire, wire \ {p}}
  /\ UNCHANGED <<next_sn, built, submitted>>

LosePdu(p) ==
  /\ p \in wire /\ wire' = wire \ {p}
  /\ UNCHANGED <<next_sn, built, submitted, rxVars>>

\* Both ends reset for a fresh bearer; what was in flight is not delivered.
Reset ==
  /\ next_sn' = 0 /\ vr_next' = 0 /\ buffer' = <<>> /\ seen' = {}
  /\ collecting' = FALSE /\ partial' = <<>> /\ timer' = -1
  /\ wire' = {} /\ built' = 0 /\ submitted' = <<>> /\ delivered' = <<>>

Next ==
  \/ \E n \in 1 .. MaxSegs : Tx(n)
  \/ Tick
  \/ \E p \in wire : RecvPdu(p) \/ LosePdu(p)
  \/ Reset

Spec == Init /\ [][Next]_vars

FairSpec == Spec /\ WF_vars(Tick)

\* A path that reorders mildly: no PDU is duplicated, and a PDU is sent only
\* within a window of the receiver and of every PDU still in flight.
MildNext ==
  \/ /\ \A sn \in {vr_next} \cup {p.sn : p \in wire} :
          (next_sn - sn) % SnMod < Window
     /\ \E n \in 1 .. MaxSegs : Tx(n)
  \/ Tick
  \/ \E p \in wire : (RecvPdu(p) /\ wire' = wire \ {p}) \/ LosePdu(p)

MildSpec == Init /\ [][MildNext]_vars

-----------------------------------------------------------------------------
(* Properties *)

Svc == INSTANCE SduService WITH Lossless <- FALSE

\* UmRx hands up SDUs whole, in order and at most once, and never a partial one
\* that spans a skipped SN: "segmentation, in-order reassembly, gap-skip".
ImplementsService == Svc!Spec

\* t_reorder runs exactly while something is held: no held PDU is left without
\* a timer that will free it (UmRx::rx, deliver_ready, on_reorder_timeout).
TimerCoversHole == (timer # -1) <=> (DOMAIN buffer # {})

\* What UmRx holds lies inside the reorder window, so fewer than `window` PDUs
\* are ever held.
HeldInWindow == \A sn \in DOMAIN buffer : 0 < Dist(sn) /\ Dist(sn) < Window

\* The SN the receiver waits for is not in its duplicate filter: otherwise
\* UmRx::rx would drop that PDU on its first arrival.
AwaitedSnNotSeen == vr_next \notin seen

\* SDUs come up in the order they were sent: "In-order PDUs are delivered
\* (reassembled) immediately; a gap starts t_reorder, after which the missing
\* SNs are skipped" (UmRx::on_reorder_timeout).  Does not hold across a wrap.
InSendingOrder ==
  \A i, j \in 1 .. Len(delivered) :
    i < j => delivered[i][1][1] < delivered[j][1][1]

\* A held PDU is delivered or dropped in the end: the reorder timer skips the
\* holes before it (UmRx::tick, on_reorder_timeout).
HeldReleased == \A sn \in SN : (sn \in DOMAIN buffer) ~> (sn \notin DOMAIN buffer)

-----------------------------------------------------------------------------
\* The sequence numbers in use fit in half the space, so Dist is a difference.
NoWrap == MaxPdus <= SnMod \div 2 /\ MaxPdus < SnMod

\* Every SN below the transmitter's next one is passed, held inside the window,
\* or not received; the filter knows only passed and held ones, and the timer
\* runs while one is held (UmRx::rx, deliver_ready, on_reorder_timeout).
WindowInv ==
  /\ built \in 0 .. MaxPdus /\ next_sn = built /\ vr_next \in 0 .. built
  /\ \A p \in wire : p.sn \in 0 .. built - 1
  /\ \A sn \in DOMAIN buffer :
       sn \in vr_next + 1 .. built - 1 /\ sn < vr_next + Window
  /\ \A sn \in seen : sn \in 0 .. vr_next - 1 \/ sn \in DOMAIN buffer
  /\ timer \in Int /\ timer >= -1 /\ TimerCoversHole
=============================================================================
