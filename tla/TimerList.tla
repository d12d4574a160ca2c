------------------------------ MODULE TimerList ------------------------------
(* The timer table every node runs on (stack/core).  tick() fires the timers *)
(* that were due when it began; their callbacks may schedule and cancel.     *)
(* The clock is a 32-bit millisecond counter that wraps.                     *)
EXTENDS Integers, FiniteSets, Functions

CONSTANTS TimeMod,    \* 2^32
          Delays,     \* the delays timers are armed with
          MaxStep,    \* bound: ms between two ticks
          MaxTimers   \* bound: timers ever scheduled

Half == TimeMod \div 2

ASSUME TimerConstants ==
  /\ TimeMod \in Nat \ {0} /\ TimeMod = 2 * Half
  /\ MaxStep \in Nat \ {0} /\ MaxTimers \in Nat
  /\ Delays \subseteq 0 .. Half - 1 /\ MaxStep < Half

VARIABLES entries,    \* id -> deadline and interval (0 = one-shot)
          next_id, last_now,
          due,        \* ids snapshotted by the tick under way, not yet handled
          ticking,    \* a tick is under way
          ran,        \* timers whose callback ran in the tick under way
          left,       \* history: ms of its delay a timer has yet to wait
          silenced    \* history: timers cancelled or cleared, and one-shots that ran

vars == <<entries, next_id, last_now, due, ticking, ran, left, silenced>>

Ids == 1 .. MaxTimers
Times == 0 .. TimeMod - 1

TypeOK ==
  /\ next_id \in 1 .. MaxTimers + 1 /\ last_now \in Times
  /\ DOMAIN entries \subseteq 1 .. next_id - 1
  /\ \A id \in DOMAIN entries :
       entries[id] \in [deadline : Times, interval : Delays \cup {0}]
  /\ due \subseteq 1 .. next_id - 1 /\ ran \subseteq 1 .. next_id - 1
  /\ ticking \in BOOLEAN /\ left \in [Ids -> 0 .. Half - 1]
  /\ silenced \subseteq 1 .. next_id - 1

Init ==
  /\ entries = <<>> /\ next_id = 1 /\ last_now = 0
  /\ due = {} /\ ticking = FALSE /\ ran = {}
  /\ left = [id \in Ids |-> 0] /\ silenced = {}

\* static_cast<int32_t>(now - t) >= 0
Reached(now, t) == (now - t) % TimeMod < Half

\* A call comes from the owner between ticks, or from a callback within one.
MayCall == ticking => ran # {}

\* Leaving out the anchor to the last tick.
DeadlineUnanchored(delay) == delay

Deadline(delay) == (last_now + delay) % TimeMod

Schedule(delay, periodic) ==
  /\ MayCall /\ next_id <= MaxTimers
  /\ entries' = [id \in DOMAIN entries \cup {next_id} |->
                   IF id # next_id THEN entries[id]
                   ELSE [deadline |-> Deadline(delay),
                         interval |-> IF periodic THEN delay ELSE 0]]
  /\ next_id' = next_id + 1
  /\ left' = [left EXCEPT ![next_id] = delay]
  /\ UNCHANGED <<last_now, due, ticking, ran, silenced>>

Cancel(id) ==
  /\ MayCall
  /\ entries' = Restrict(entries, DOMAIN entries \ {id})
  /\ silenced' = silenced \cup ({id} \cap DOMAIN entries)
  /\ UNCHANGED <<next_id, last_now, due, ticking, ran, left>>

Clear ==
  /\ MayCall
  /\ entries' = <<>>
  /\ silenced' = silenced \cup DOMAIN entries
  /\ UNCHANGED <<next_id, last_now, due, ticking, ran, left>>

\* Comparing the raw counters.
DueUnsigned(now) == {id \in DOMAIN entries : now >= entries[id].deadline}

Due(now) == {id \in DOMAIN entries : Reached(now, entries[id].deadline)}

TickBegin(step) ==
  LET now == (last_now + step) % TimeMod
  IN
  /\ ~ ticking
  /\ last_now' = now
  /\ due' = Due(now) /\ ticking' = TRUE
  /\ left' = [id \in Ids |-> IF left[id] > step THEN left[id] - step ELSE 0]
  /\ UNCHANGED <<entries, next_id, ran, silenced>>

\* Due timers are handled in the order they were scheduled.
First(id) == id \in due /\ \A x \in due : id <= x

\* Trusting the snapshot.
StillArmedUnchecked(id) == TRUE

\* "cancelled earlier this tick" is not fired.
StillArmed(id) == id \in DOMAIN entries

SkipCancelled(id) ==
  /\ First(id) /\ ~ StillArmed(id)
  /\ due' = due \ {id}
  /\ UNCHANGED <<entries, next_id, last_now, ticking, ran, left, silenced>>

\* Not catching up after a stall.
NextDeadlineBurst(e) == (e.deadline + e.interval) % TimeMod

\* "resync instead of burst-firing"
NextDeadline(e) ==
  LET d == (e.deadline + e.interval) % TimeMod
  IN  IF Reached(last_now, d) THEN (last_now + e.interval) % TimeMod ELSE d

\* A one-shot leaves the table before its callback runs.
Fire(id) ==
  /\ First(id) /\ StillArmed(id)
  /\ due' = due \ {id} /\ ran' = ran \cup {id}
  /\ entries' = IF id \in DOMAIN entries /\ entries[id].interval > 0
                THEN [entries EXCEPT ![id].deadline = NextDeadline(entries[id])]
                ELSE Restrict(entries, DOMAIN entries \ {id})
  /\ silenced' = IF id \in DOMAIN entries' THEN silenced ELSE silenced \cup {id}
  /\ UNCHANGED <<next_id, last_now, ticking, left>>

TickEnd ==
  /\ ticking /\ due = {}
  /\ ticking' = FALSE /\ ran' = {}
  /\ UNCHANGED <<entries, next_id, last_now, due, left, silenced>>

Next ==
  \/ \E delay \in Delays, periodic \in BOOLEAN : Schedule(delay, periodic)
  \/ \E id \in Ids : Cancel(id) \/ SkipCancelled(id) \/ Fire(id)
  \/ Clear
  \/ \E step \in 0 .. MaxStep : TickBegin(step)
  \/ TickEnd

Spec == Init /\ [][Next]_vars

\* The owner's loop keeps ticking, a tick finishes, and its clock advances.
FairSpec ==
  /\ Spec
  /\ WF_vars(\E id \in Ids : SkipCancelled(id) \/ Fire(id)) /\ WF_vars(TickEnd)
  /\ SF_vars(\E step \in 1 .. MaxStep : TickBegin(step))

-----------------------------------------------------------------------------
\* A timer is not due before its delay has passed, whenever it was armed and
\* however the clock wraps: "fire after delay_ms, not relative to process start"
\* (TimerList::schedule, tick).
NeverEarly == \A id \in due \cap DOMAIN entries : left[id] = 0

\* Once a tick is over every timer lies in the future, at most its delay away:
\* none was missed, and a periodic one that fell behind fires once, not in a
\* burst (TimerList::tick; its result is the least of these distances).
NothingOverdue ==
  due = {} => \A id \in DOMAIN entries :
    \E delay \in Delays : (entries[id].deadline - last_now) % TimeMod <= delay

\* What the owner was told is over stays over: a timer that was cancelled or
\* cleared, by the owner or by a callback of the tick that had already found it
\* due, and a one-shot that ran, never run again, in that tick or a later one,
\* whatever is armed meanwhile (TimerList::tick, cancel, clear).
CancelledSilent == [][\A id \in silenced : ~ Fire(id)]_vars

\* An armed timer fires or is cancelled.
ArmedFires ==
  \A id \in Ids : (id \in DOMAIN entries) ~> (id \in ran \/ id \notin DOMAIN entries)
=============================================================================
