--------------------------------- MODULE Qos ---------------------------------
(* BearerSet: the QoS queues of a UE's uplink and of each downlink flow of   *)
(* the cell, served by strict priority with a minimum share for best effort. *)
EXTENDS Naturals, Sequences, SequencesExt

CONSTANT Limit  \* max_dl_queue_per_ue, kBearerQueueLimit: PDUs a queue holds

ASSUME QosConstants == Limit \in Nat \ {0}

Classes == <<"SIG", "VOICE", "VIDEO", "BE">>   \* by falling priority
EmptySet == [CTRL |-> <<>>, SIG |-> <<>>, VOICE |-> <<>>, VIDEO |-> <<>>, BE |-> <<>>,
             since_be |-> 0]

AppEmpty(q) == \A i \in DOMAIN Classes : q[Classes[i]] = <<>>
Empty(q) == q.CTRL = <<>> /\ AppEmpty(q)

\* Mutant: a full queue keeps growing.
EnqueueUnbounded(q, class, pdu) == [q EXCEPT ![class] = Append(@, pdu)]

\* A full queue sheds its oldest PDU.
Enqueue(q, class, pdu) ==
  [q EXCEPT ![class] = Append(IF Len(@) >= Limit THEN Tail(@) ELSE @, pdu)]

\* Mutant: best effort is served every fifth time only.
PickQueueLate(q) ==
  IF q.BE # <<>> /\ q.since_be >= 4 THEN "BE"
  ELSE Classes[SelectInSeq(Classes, LAMBDA c : q[c] # <<>>)]

PickQueue(q) ==
  IF q.BE # <<>> /\ q.since_be >= 3 THEN "BE"
  ELSE Classes[SelectInSeq(Classes, LAMBDA c : q[c] # <<>>)]

\* The class served: control before all others.
NextClass(q) == IF q.CTRL # <<>> THEN "CTRL" ELSE PickQueue(q)

\* The count of picks since best effort's guaranteed one.  It stops counting
\* at nothing: it runs on while best effort has no data.
SinceBe(q, class) ==
  CASE class = "BE" /\ q.since_be >= 3 -> 0
    [] class \in {"SIG", "VOICE", "VIDEO"} -> q.since_be + 1
    [] OTHER -> q.since_be

PopNext(q) ==
  LET class == NextClass(q)
  IN  [q EXCEPT ![class] = Tail(@), !.since_be = SinceBe(q, class)]
Popped(q) == Head(q[NextClass(q)])
=============================================================================
