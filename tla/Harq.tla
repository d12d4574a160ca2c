-------------------------------- MODULE Harq ---------------------------------
(* Stop-and-wait HARQ (stack/core): one HarqTx with its processes, the peer  *)
(* HarqRx, and the ACK/NACK control PDUs that flow back.  Feedback names the *)
(* process only, never the transport block.                                  *)
(*                                                                           *)
(* A frame and the feedback it causes share one age: the ticks since the     *)
(* transmission.  What is older than Rtt has been lost on the way.           *)
(*                                                                           *)
(* Each node resets its own end (suspend, resume, re-establishment, handover,*)
(* release), at its own time; what is in flight then is not recalled.  When  *)
(* the C-RNTI changes with the reset it reaches nobody, which is one of the  *)
(* losses; when it does not (suspend_cb of the cell), it does arrive.        *)
EXTENDS Integers, Sequences

CONSTANTS NumProcs,    \* num_processes
          MaxRetx,     \* max_retx
          AckTimeout,  \* ack_timeout_ms, in ticks
          Rtt,         \* the longest round trip of the channel, in ticks
          Sizes,       \* transport-block lengths with CRC (info_len)
          MaxBlocks    \* bound: blocks ever sent

ASSUME HarqConstants ==
  /\ NumProcs \in Nat \ {0} /\ MaxRetx \in Nat /\ AckTimeout \in Nat \ {0}
  /\ Rtt \in Nat /\ Sizes \subseteq Nat /\ MaxBlocks \in Nat

VARIABLES busy, ndi, retx_count, age, block, next_proc,   \* HarqTx
          soft,       \* HarqRx: what is stored of a failed attempt
          air, fb,    \* frames and feedback in flight
          size,       \* history: the length of each block sent so far
          sends,      \* history: how often each block was put on the air
          acked,      \* history: blocks on_ack freed a process not in stale for
          received,   \* history: blocks decoded by the receiver
          stale       \* history: processes with something in flight ever since
                      \* HarqTx was reset under their exchange

txVars == <<busy, ndi, retx_count, age, block, next_proc, size, sends, acked>>
rxVars == <<soft, received>>
vars == <<txVars, rxVars, air, fb, stale>>

Procs == 0 .. NumProcs - 1
Blocks == 1 .. MaxBlocks

\* block and nth, the transmission of the block, tell the copies in flight
\* apart; the wire carries neither.
Frame == [proc : Procs, ndi : {0, 1}, block : Blocks, nth : 0 .. MaxRetx, age : 0 .. Rtt]
Feedback == [proc : Procs, ack : BOOLEAN, block : Blocks, nth : 0 .. MaxRetx, age : 0 .. Rtt]

\* Coded bits of a block (rate 1/2, 6 tail bits), and the same on whole bytes.
ValidBits(len) == (len * 8 + 6) * 2
WireBits(len) == ((ValidBits(len) + 7) \div 8) * 8

TypeOK ==
  /\ busy \in [Procs -> BOOLEAN] /\ ndi \in [Procs -> {0, 1}]
  /\ retx_count \in [Procs -> 0 .. MaxRetx] /\ age \in [Procs -> 0 .. AckTimeout - 1]
  /\ block \in [Procs -> 0 .. MaxBlocks] /\ next_proc \in Procs
  /\ soft \in [Procs -> [bits : Nat, block : 0 .. MaxBlocks]]
  /\ air \subseteq Frame /\ fb \subseteq Feedback
  /\ size \in Seq(Sizes) /\ sends \in Seq(1 .. MaxRetx + 2)
  /\ Len(size) = Len(sends) /\ Len(size) <= MaxBlocks
  /\ acked \subseteq Blocks /\ received \subseteq Blocks /\ stale \subseteq Procs

Init ==
  /\ busy = [p \in Procs |-> FALSE] /\ ndi = [p \in Procs |-> 1]
  /\ retx_count = [p \in Procs |-> 0] /\ age = [p \in Procs |-> 0]
  /\ block = [p \in Procs |-> 0] /\ next_proc = 0
  /\ soft = [p \in Procs |-> [bits |-> 0, block |-> 0]]
  /\ air = {} /\ fb = {}
  /\ size = <<>> /\ sends = <<>> /\ acked = {} /\ received = {}
  /\ stale = {}

\* Of the processes D, those with something in flight after the step.
InFlight(D) == {p \in D : \E m \in air' \cup fb' : m.proc = p}

-----------------------------------------------------------------------------
(* HarqTx *)

\* send() takes the first free process from next_proc on.
NextFree(p) ==
  /\ ~ busy[p]
  /\ \A i \in 0 .. NumProcs - 1 :
       LET q == (next_proc + i) % NumProcs
       IN  (\A j \in 0 .. i : (next_proc + j) % NumProcs # p) => busy[q]

Send(p, len) ==
  LET b == Len(size) + 1
  IN
  /\ b <= MaxBlocks /\ NextFree(p)
  /\ busy' = [busy EXCEPT ![p] = TRUE]
  /\ ndi' = [ndi EXCEPT ![p] = 1 - @]
  /\ retx_count' = [retx_count EXCEPT ![p] = 0]
  /\ age' = [age EXCEPT ![p] = 0]
  /\ block' = [block EXCEPT ![p] = b]
  /\ next_proc' = (p + 1) % NumProcs
  /\ air' = air \cup {[proc |-> p, ndi |-> 1 - ndi[p], block |-> b,
                     nth |-> 0, age |-> 0]}
  /\ size' = Append(size, len) /\ sends' = Append(sends, 1)
  /\ UNCHANGED <<acked, rxVars, fb>>
  /\ stale' = InFlight(stale)

Exhausted(p) == retx_count[p] >= MaxRetx

\* Not counting a retransmission.
CountLost(p) == retx_count[p]

Count(p) == retx_count[p] + 1

\* The history of transmissions saturates above the budget.
Once(n) == IF n > MaxRetx + 1 THEN n ELSE n + 1

\* retx() on every process of T: resend, or give up when the budget is used.
\* ages are the ages of the processes before, flight what is in the air besides.
Retx(T, ages, flight) ==
  LET out == {p \in T : busy[p] /\ Exhausted(p)}
      again == {p \in T : busy[p]} \ out
  IN
  /\ busy' = [p \in Procs |-> busy[p] /\ p \notin out]
  /\ retx_count' = [p \in Procs |-> IF p \in again THEN Count(p) ELSE retx_count[p]]
  /\ age' = [p \in Procs |-> IF p \in T THEN 0 ELSE ages[p]]
  /\ air' = flight \cup
       {[proc |-> p, ndi |-> ndi[p], block |-> block[p], nth |-> Count(p),
         age |-> 0] : p \in again}
  /\ sends' = [b \in DOMAIN sends |->
                 IF \E p \in again : block[p] = b THEN Once(sends[b]) ELSE sends[b]]
  /\ UNCHANGED <<ndi, block, next_proc, size>>

\* Time passes for what is in flight; the oldest of it is lost.
Older(ms) == {[m EXCEPT !.age = @ + 1] : m \in {x \in ms : x.age < Rtt}}

\* Timing out one tick early.
OverdueEarly(ages) == {p \in Procs : busy[p] /\ ages[p] >= AckTimeout - 1}

Overdue(ages) == {p \in Procs : busy[p] /\ ages[p] >= AckTimeout}

\* poll_timeouts() in the node's tick.
Tick ==
  LET ages == [p \in Procs |-> IF busy[p] THEN age[p] + 1 ELSE age[p]]
  IN
  /\ Retx(Overdue(ages), ages, Older(air))
  /\ fb' = Older(fb)
  /\ UNCHANGED <<acked, rxVars>>
  /\ stale' = InFlight(stale)

OnAck(a) ==
  /\ a \in fb /\ a.ack
  /\ busy' = [busy EXCEPT ![a.proc] = FALSE]
  /\ fb' = fb \ {a}
  /\ acked' = IF busy[a.proc] /\ a.proc \notin stale THEN acked \cup {block[a.proc]}
              ELSE acked
  /\ UNCHANGED <<ndi, retx_count, age, block, next_proc, size, sends, rxVars, air>>
  /\ stale' = InFlight(stale)

OnNack(a) ==
  /\ a \in fb /\ ~ a.ack
  /\ Retx({a.proc}, age, air)
  /\ fb' = fb \ {a}
  /\ UNCHANGED <<acked, rxVars>>
  /\ stale' = InFlight(stale)

-----------------------------------------------------------------------------
(* HarqRx *)

\* receive() merges a frame with the stored attempt.
Combines(f) ==
  /\ f.ndi = 0 /\ soft[f.proc].bits # 0
  /\ soft[f.proc].bits = WireBits(size[f.block])

\* The channel decides whether the block decodes.
Receive(f, ok) ==
  /\ f \in air
  /\ air' = air \ {f}
  /\ soft' = [soft EXCEPT ![f.proc] =
                IF ~ ok THEN [bits |-> ValidBits(size[f.block]), block |-> f.block]
                ELSE [bits |-> 0, block |-> 0]]
  /\ received' = IF ok THEN received \cup {f.block} ELSE received
  /\ fb' = fb \cup {[proc |-> f.proc, ack |-> ok, block |-> f.block,
                   nth |-> f.nth, age |-> f.age]}
  /\ UNCHANGED txVars
  /\ stale' = InFlight(stale)

LoseFrame(f) ==
  /\ f \in air /\ air' = air \ {f}
  /\ UNCHANGED <<txVars, rxVars, fb>>
  /\ stale' = InFlight(stale)

LoseFeedback(a) ==
  /\ a \in fb /\ fb' = fb \ {a}
  /\ UNCHANGED <<txVars, rxVars, air>>
  /\ stale' = InFlight(stale)

\* One end forgets what is under way; a process keeps its ndi.
ResetTx ==
  /\ busy' = [p \in Procs |-> FALSE] /\ retx_count' = [p \in Procs |-> 0]
  /\ next_proc' = 0
  /\ UNCHANGED <<ndi, age, block, size, sends, acked, rxVars, air, fb>>
  /\ stale' = InFlight(Procs)

ResetRx ==
  /\ soft' = [p \in Procs |-> [bits |-> 0, block |-> 0]]
  /\ UNCHANGED <<txVars, received, air, fb, stale>>

Next ==
  \/ \E p \in Procs, len \in Sizes : Send(p, len)
  \/ Tick
  \/ \E a \in fb : OnAck(a) \/ OnNack(a) \/ LoseFeedback(a)
  \/ \E f \in air : LoseFrame(f) \/ \E ok \in BOOLEAN : Receive(f, ok)
  \/ ResetTx
  \/ ResetRx

Spec == Init /\ [][Next]_vars

FairSpec == Spec /\ WF_vars(Tick)

-----------------------------------------------------------------------------
(* Properties *)

\* on_ack frees a process only for a block the receiver decoded, except while
\* what was in flight when HarqTx::reset() cut its exchange has not drained: then
\* an old ACK may free an undecoded block.
AckedReceived == acked \subseteq received

\* Feedback names the process only, yet it meets the block it is about: a NACK
\* never resends, and an ACK never frees, a younger block.  A reset of the
\* transmitter suspends this for a process with something in flight, and only
\* until nothing of that process is in flight any more, however its timeouts,
\* NACKs and new blocks interleave with the old feedback.
FeedbackCurrent ==
  \A a \in fb : a.proc \notin stale => busy[a.proc] /\ block[a.proc] = a.block

\* No block is put on the air more than 1 + max_retx times, however timeouts and
\* NACKs alternate (HarqTx::retx).
RetxBudget == \A b \in DOMAIN sends : sends[b] <= 1 + MaxRetx

\* A busy process is free again in the end, by ACK or by giving up.
ProcessFreed == \A p \in Procs : busy[p] ~> ~ busy[p]

\* A retransmission meets its stored first attempt: "the receiver
\* majority-combines the two attempts before decoding again" (HarqRx::receive).
\* Does not hold: the lengths it compares never agree.
RetxIsCombined ==
  \A f \in air : soft[f.proc].bits # 0 /\ soft[f.proc].block = f.block => Combines(f)

-----------------------------------------------------------------------------
\* While a round trip is shorter than the ACK timeout, a process has at most one
\* message in flight, as old as its last transmission and about the block it is
\* busy with; a process in stale is exempt.
RoundTripInv ==
  /\ \A m \in air \cup fb : m.proc \notin stale =>
       busy[m.proc] /\ m.block = block[m.proc] /\ m.age = age[m.proc]
  /\ \A f, g \in air : f.proc = g.proc /\ f.proc \notin stale => f = g
  /\ \A a, b \in fb : a.proc = b.proc /\ a.proc \notin stale => a = b
  /\ \A f \in air, a \in fb : f.proc = a.proc => f.proc \in stale
  /\ \A a \in fb : a.ack => a.block \in received
  /\ AckedReceived

\* What a busy process counts is what its block was sent, and no block flies
\* that was not sent.
BudgetInv ==
  /\ \A f \in air : f.block \in DOMAIN sends
  /\ \A p \in Procs : busy[p] =>
       block[p] \in 1 .. Len(sends) /\ sends[block[p]] = retx_count[p] + 1
  /\ \A p, q \in Procs : busy[p] /\ busy[q] /\ block[p] = block[q] => p = q
  /\ RetxBudget
=============================================================================
