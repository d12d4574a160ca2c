------------------------------- MODULE RlcAm --------------------------------
(* RLC acknowledged mode (stack/rlc): one AmTx and the peer AmRx over the    *)
(* MAC/HARQ path, which may lose, duplicate and reorder PDUs.                *)
(*                                                                           *)
(* The two nodes tick independently, so time is kept as ages: the ticks that *)
(* went by since a timestamp, saturating at the timeout it is compared with. *)
EXTENDS Integers, Sequences, FiniteSets, Functions

CONSTANTS SnMod,       \* sequence number space (2^16)
          MaxPdus,     \* bound: data PDUs ever built on one bearer
          MaxSegs,     \* bound: segments of an SDU
          TxLimit,     \* tx_buffer_limit
          Reserve,     \* kControlReserve
          PollEvery,   \* poll_every
          TPoll,       \* t_poll_ms, in ticks
          ProbeBatch,  \* probe_batch
          TReorder,    \* t_reorder_ms, in ticks (0 = wait forever)
          MaxHoles,    \* kMaxHoles
          CountMod,    \* the STATUS nack count is one byte (2^8)
          MaxReorder,  \* kMaxReorder
          SeenMax      \* bound on seen_

ASSUME AmConstants ==
  /\ SnMod \in Nat \ {0} /\ MaxSegs \in Nat \ {0} /\ PollEvery \in Nat \ {0}
  /\ CountMod \in Nat \ {0} /\ MaxPdus \in Nat /\ TxLimit \in Nat
  /\ Reserve \in Nat /\ TPoll \in Nat /\ ProbeBatch \in Nat /\ TReorder \in Nat
  /\ MaxHoles \in Nat /\ MaxReorder \in Nat /\ SeenMax \in Nat

VARIABLES tx_buffer, next_sn, since_poll, tx_age, nack_age,      \* AmTx
          vr_next, seen, holes, reorder, collecting, partial,    \* AmRx
          fresh,      \* accepts_ # tick_accepts_
          rx_age,     \* age of AmRx::last_progress_ms_, -1 = never set
          wire, fb,   \* data PDUs and STATUS PDUs in flight
          sent,       \* history: the data PDUs built on this bearer, in SN order
          submitted, delivered   \* history: SDUs accepted by tx, handed up by rx

txVars == <<tx_buffer, next_sn, since_poll, tx_age, nack_age, sent, submitted>>
rxVars == <<vr_next, seen, holes, reorder, collecting, partial, fresh, rx_age,
            delivered>>
vars == <<txVars, rxVars, wire, fb>>

SN == 0 .. SnMod - 1
FI == {"complete", "first", "middle", "last"}
\* The payload of one segment: piece i of the k-th SDU.
Pieces == (1 .. MaxPdus) \X (1 .. MaxSegs)
PDU == [sn : SN, fi : FI, poll : BOOLEAN, data : Pieces]
Status == [ack : SN, count : 0 .. CountMod - 1, nacks : SUBSET SN]

\* The n smallest members of S: the containers iterate in ascending SN order.
Lowest(S, n) == {x \in S : Cardinality({y \in S : y < x}) < n}
Oldest(x, bound) == IF x < bound THEN x ELSE bound
Put(f, k, v) == [x \in DOMAIN f \cup {k} |-> IF x = k THEN v ELSE f[x]]

TypeOK ==
  /\ DOMAIN tx_buffer \subseteq SN /\ Range(tx_buffer) \subseteq PDU
  /\ next_sn \in SN /\ since_poll \in 0 .. PollEvery - 1
  /\ tx_age \in 0 .. TPoll /\ nack_age \in 0 .. TPoll
  /\ vr_next \in SN /\ seen \subseteq SN /\ holes \subseteq SN
  /\ DOMAIN reorder \subseteq SN /\ Range(reorder) \subseteq PDU
  /\ collecting \in BOOLEAN /\ partial \in Seq(Pieces)
  /\ fresh \in BOOLEAN /\ rx_age \in -1 .. TReorder
  /\ wire \subseteq PDU /\ fb \subseteq Status
  /\ sent \in Seq(PDU) /\ Len(submitted) <= Len(sent) /\ Len(sent) <= MaxPdus
  /\ submitted \in Seq(Seq(Pieces)) /\ delivered \in Seq(Seq(Pieces))

-----------------------------------------------------------------------------
Init ==
  /\ tx_buffer = <<>> /\ next_sn = 0 /\ since_poll = 0
  /\ tx_age = TPoll /\ nack_age = TPoll
  /\ vr_next = 0 /\ seen = {} /\ holes = {} /\ reorder = <<>>
  /\ collecting = FALSE /\ partial = <<>> /\ fresh = FALSE /\ rx_age = -1
  /\ wire = {} /\ fb = {} /\ sent = <<>>
  /\ submitted = <<>> /\ delivered = <<>>

-----------------------------------------------------------------------------
(* AmTx *)

\* Testing for the last segment before testing for the only one.
SegmentLastFirst(k, n, i) ==
  [sn   |-> (next_sn + i - 1) % SnMod,
   fi   |-> IF i = n THEN "last" ELSE IF i = 1 THEN "first" ELSE "middle",
   poll |-> (since_poll + i) % PollEvery = 0,
   data |-> <<k, i>>]

Segment(k, n, i) ==
  [sn   |-> (next_sn + i - 1) % SnMod,
   fi   |-> CASE n = 1 -> "complete" [] n > 1 /\ i = 1 -> "first"
              [] n > 1 /\ i = n -> "last" [] OTHER -> "middle",
   poll |-> (since_poll + i) % PollEvery = 0,
   data |-> <<k, i>>]

\* Refusing only past the limit, not at it.
HasRoomAtLimit(force) ==
  Cardinality(DOMAIN tx_buffer) <= TxLimit + (IF force THEN Reserve ELSE 0)

HasRoom(force) ==
  Cardinality(DOMAIN tx_buffer) < TxLimit + (IF force THEN Reserve ELSE 0)

\* An accepted SDU of n segments.  A refused one only bumps a statistic.
Tx(n, force) ==
  LET k    == Len(submitted) + 1
      pdus == [i \in 1 .. n |-> Segment(k, n, i)]
  IN
  /\ Len(sent) + n <= MaxPdus
  /\ HasRoom(force)
  /\ tx_buffer' = [sn \in DOMAIN tx_buffer \cup {p.sn : p \in Range(pdus)} |->
                     IF \E p \in Range(pdus) : p.sn = sn
                     THEN CHOOSE p \in Range(pdus) : p.sn = sn
                     ELSE tx_buffer[sn]]
  /\ next_sn' = (next_sn + n) % SnMod
  /\ since_poll' = (since_poll + n) % PollEvery
  /\ tx_age' = 0
  /\ wire' = wire \cup Range(pdus)
  /\ sent' = sent \o pdus
  /\ submitted' = Append(submitted, [i \in 1 .. n |-> <<k, i>>])
  /\ UNCHANGED <<nack_age, rxVars, fb>>

\* Probing with the newest PDUs.
ProbeNewest ==
  {tx_buffer[sn] : sn \in {x \in DOMAIN tx_buffer :
     Cardinality({y \in DOMAIN tx_buffer : y > x}) < ProbeBatch}}

Probe == {tx_buffer[sn] : sn \in Lowest(DOMAIN tx_buffer, ProbeBatch)}

TxTick ==
  LET silent == Oldest(tx_age + 1, TPoll)
      probe  == TPoll > 0 /\ DOMAIN tx_buffer # {} /\ silent = TPoll
  IN
  /\ tx_age' = IF probe THEN 0 ELSE silent
  /\ nack_age' = Oldest(nack_age + 1, TPoll)
  /\ wire' = IF probe THEN wire \cup Probe ELSE wire
  /\ UNCHANGED <<tx_buffer, next_sn, since_poll, sent, submitted, rxVars, fb>>

OnStatus(s) ==
  LET kept  == {sn \in DOMAIN tx_buffer : sn >= s.ack}
      burst == nack_age = TPoll /\ s.count > 0
      again == Lowest(Lowest(s.nacks, s.count) \cap kept, ProbeBatch)
  IN
  /\ tx_buffer' = Restrict(tx_buffer, kept)
  /\ tx_age' = 0
  /\ nack_age' = IF burst THEN 0 ELSE nack_age
  /\ wire' = IF burst THEN wire \cup {tx_buffer[sn] : sn \in again} ELSE wire
  /\ UNCHANGED <<next_sn, since_poll, sent, submitted, rxVars>>

-----------------------------------------------------------------------------
(* AmRx *)

\* Acknowledging the awaited SN itself.
BuildStatusPast ==
  [ack |-> vr_next + 1, count |-> Cardinality(holes) % CountMod, nacks |-> holes]

BuildStatus ==
  [ack |-> vr_next, count |-> Cardinality(holes) % CountMod, nacks |-> holes]

\* The nodes answer status_needed at once with the STATUS built after the step.
Report(needed) == fb' = IF needed THEN fb \cup {BuildStatus'} ELSE fb

Remember(sn) ==
  LET s == seen \cup {sn}
  IN  IF Cardinality(s) > SeenMax THEN s \ Lowest(s, 1) ELSE s

\* Completing an SDU whose first segment was skipped.
AcceptInOrderNoStart(r, p) ==
  [collecting |-> p.fi = "first" \/ (r.collecting /\ p.fi # "last"),
   partial    |-> CASE p.fi = "first" -> <<p.data>> [] p.fi = "last" -> <<>>
                    [] p.fi = "middle" -> Append(r.partial, p.data)
                    [] OTHER -> r.partial,
   out        |-> CASE p.fi = "complete" -> Append(r.out, <<p.data>>)
                    [] p.fi = "last" -> Append(r.out, Append(r.partial, p.data))
                    [] OTHER -> r.out]

AcceptInOrder(r, p) ==
  [collecting |-> p.fi = "first" \/ (r.collecting /\ p.fi # "last"),
   partial    |-> CASE p.fi = "first" -> <<p.data>>
                    [] p.fi = "last" /\ r.collecting -> <<>>
                    [] p.fi = "middle" /\ r.collecting -> Append(r.partial, p.data)
                    [] OTHER -> r.partial,
   out        |-> CASE p.fi = "complete" -> Append(r.out, <<p.data>>)
                    [] p.fi = "last" /\ r.collecting ->
                         Append(r.out, Append(r.partial, p.data))
                    [] OTHER -> r.out]

\* The reassembly state after the PDUs of ps, in order.
AcceptAll(r, ps) ==
  LET after[i \in 0 .. Len(ps)] ==
        IF i = 0 THEN r ELSE AcceptInOrder(after[i - 1], ps[i])
  IN  after[Len(ps)]

\* Draining a single held PDU.
DrainsOne(v, k) == k = IF v \in DOMAIN reorder THEN 1 ELSE 0

\* drain_reorder finds the k held PDUs that follow on from v, and no more.
Drains(v, k) ==
  /\ \A i \in 0 .. k - 1 : (v + i) % SnMod \in DOMAIN reorder
  /\ k < SnMod => (v + k) % SnMod \notin DOMAIN reorder

\* From the reassembly state r accept the PDUs ps, then the k held ones from v on.
Accept(r, ps, v, k) ==
  LET held == [i \in 1 .. k |-> reorder[(v + i - 1) % SnMod]]
      end  == AcceptAll(r, ps \o held)
  IN
  /\ Drains(v, k)
  /\ vr_next' = (v + k) % SnMod
  /\ reorder' = Restrict(reorder, DOMAIN reorder \
                            {(v + i) % SnMod : i \in 0 .. k - 1})
  /\ collecting' = end.collecting /\ partial' = end.partial
  /\ delivered' = end.out

RxDuplicate(p) ==
  /\ p.sn \in seen
  /\ UNCHANGED <<rxVars, fb>>

RxStale(p) ==
  /\ p.sn \notin seen /\ p.sn < vr_next
  /\ seen' = Remember(p.sn)
  /\ UNCHANGED <<vr_next, holes, reorder, collecting, partial, fresh, rx_age,
                 delivered, fb>>

RxAhead(p) ==
  /\ p.sn \notin seen /\ p.sn > vr_next
  /\ seen' = Remember(p.sn)
  /\ holes' = holes \cup Lowest((vr_next .. p.sn - 1) \ holes,
                                MaxHoles - Cardinality(holes))
  /\ reorder' = IF Cardinality(DOMAIN reorder) < MaxReorder
                THEN Put(reorder, p.sn, p) ELSE reorder
  /\ UNCHANGED <<vr_next, collecting, partial, fresh, rx_age, delivered>>
  /\ Report(p.poll \/ Cardinality(holes) < MaxHoles)

RxInOrder(p) ==
  /\ p.sn \notin seen /\ p.sn = vr_next
  /\ seen' = Remember(p.sn)
  /\ \E k \in 0 .. SnMod :
       /\ Accept([collecting |-> collecting, partial |-> partial,
                   out |-> delivered], <<p>>, (p.sn + 1) % SnMod, k)
       /\ holes' = holes \ {(p.sn + i) % SnMod : i \in 0 .. k}
  /\ fresh' = TRUE
  /\ UNCHANGED rx_age
  /\ Report(p.poll)

Rx(p) == RxDuplicate(p) \/ RxStale(p) \/ RxAhead(p) \/ RxInOrder(p)

\* The age AmRx::tick compares with the deadline.
RxAge == IF fresh THEN 0
         ELSE IF rx_age = -1 THEN -1 ELSE Oldest(rx_age + 1, TReorder)

RxTickIdle ==
  /\ TReorder > 0 /\ (holes = {} \/ RxAge < TReorder)
  /\ rx_age' = RxAge /\ fresh' = FALSE
  /\ UNCHANGED <<vr_next, seen, holes, reorder, collecting, partial, delivered,
                 fb>>

RxTickSkip ==
  /\ TReorder > 0 /\ holes # {} /\ RxAge = TReorder
  /\ \E h \in holes, k \in 0 .. SnMod :
       /\ \A x \in holes : x <= h
       /\ Accept([collecting |-> FALSE, partial |-> <<>>, out |-> delivered],
                 <<>>, (h + 1) % SnMod, k)
       /\ fresh' = (k > 0)
  /\ holes' = {} /\ rx_age' = 0
  /\ UNCHANGED seen
  /\ Report(TRUE)

RxTick == (RxTickIdle \/ RxTickSkip) /\ UNCHANGED <<txVars, wire>>

-----------------------------------------------------------------------------
(* The path below, and the bearer's life cycle *)

\* A lower-layer duplicate is a reception that leaves the PDU in flight.
RecvPdu(p) ==
  /\ p \in wire
  /\ Rx(p)
  /\ wire' \in {wire, wire \ {p}}
  /\ UNCHANGED txVars

RecvStatus(s) ==
  /\ s \in fb
  /\ OnStatus(s)
  /\ fb' \in {fb, fb \ {s}}

LosePdu(p) ==
  /\ p \in wire /\ wire' = wire \ {p}
  /\ UNCHANGED <<txVars, rxVars, fb>>

LoseStatus(s) ==
  /\ s \in fb /\ fb' = fb \ {s}
  /\ UNCHANGED <<txVars, rxVars, wire>>

TxReset ==
  /\ tx_buffer' = <<>> /\ next_sn' = 0 /\ since_poll' = 0
  /\ tx_age' = TPoll /\ nack_age' = TPoll
  /\ sent' = <<>> /\ submitted' = <<>>

RxReset ==
  /\ vr_next' = 0 /\ seen' = {} /\ holes' = {} /\ reorder' = <<>>
  /\ collecting' = FALSE /\ partial' = <<>> /\ fresh' = FALSE /\ rx_age' = -1
  /\ delivered' = <<>>

\* Both ends reset for a fresh bearer; what was in flight is not delivered.
Reset == TxReset /\ RxReset /\ wire' = {} /\ fb' = {}

Next ==
  \/ \E n \in 1 .. MaxSegs, force \in BOOLEAN : Tx(n, force)
  \/ TxTick
  \/ RxTick
  \/ \E p \in wire : RecvPdu(p) \/ LosePdu(p)
  \/ \E s \in fb : RecvStatus(s) \/ LoseStatus(s)
  \/ Reset

Spec == Init /\ [][Next]_vars

\* Both nodes keep ticking, and a PDU sent again and again gets through.
Fairness ==
  /\ WF_vars(TxTick) /\ WF_vars(RxTick)
  /\ \A sn \in SN : SF_vars(\E p \in wire : p.sn = sn /\ RecvPdu(p))
  /\ \A sn \in SN : SF_vars(\E s \in fb : s.ack = sn /\ RecvStatus(s))

FairSpec == Spec /\ Fairness

-----------------------------------------------------------------------------
(* Properties *)

Svc == INSTANCE SduService WITH Lossless <- (TReorder = 0)

\* The bearer delivers accepted SDUs whole, in order and at most once, and with
\* no reordering deadline (t_reorder_ms = 0) it skips none: "The receiver
\* delivers strictly in order" (AmRx::rx, accept_in_order, drain_reorder).
ImplementsService == Svc!Spec

\* AmTx still holds every PDU the receiver waits for: no STATUS, however late or
\* duplicated, makes on_status erase an SN that AmRx has not passed.
AwaitedPduKept == \A sn \in vr_next .. next_sn - 1 : sn \in DOMAIN tx_buffer

\* The SN the receiver waits for is not in its duplicate filter: otherwise
\* AmRx::rx would discard every retransmission of it.
AwaitedSnNotSeen == vr_next \notin seen

\* Whatever AmRx holds out of order is still ahead of the window edge, so that
\* drain_reorder can reach it.
HeldIsAhead == \A sn \in DOMAIN reorder : sn > vr_next

\* The unacked backlog overshoots tx_buffer_limit at most by the control reserve
\* and by the segments of the one SDU AmTx::tx admitted last.
BacklogBounded ==
  Cardinality(DOMAIN tx_buffer) <= TxLimit + Reserve + MaxSegs - 1

\* A detected gap never blocks delivery for good: the missing PDU is resent and
\* accepted, or the deadline of AmRx::tick skips it.
GapsResolve ==
  \A v \in SN : (holes # {} /\ vr_next = v) ~> (holes = {} \/ vr_next # v)

\* Unacked data is released in the end: the probe of AmTx::tick makes up for a
\* lost STATUS.  Does not hold: AmRx::rx does not answer a poll it has seen.
UnackedReleased ==
  \A sn \in SN : (sn \in DOMAIN tx_buffer) ~> (sn \notin DOMAIN tx_buffer)
=============================================================================
