------------------------------- MODULE Streams -------------------------------
(* The accounting of UeNode's traffic: the sender's and the receiver's side  *)
(* of a media stream, and the loopback pings.  A packet is its sequence      *)
(* number.  The times in ack_pending and app_tx_time_ only say which entries *)
(* a sweep finds too old: those up to some sequence number.                  *)
EXTENDS Naturals, FiniteSets

\* OutStream: pending is ack_pending.
NewOut == [seq |-> 0, tx |-> 0, rx_ack |-> 0, loss |-> 0, max_ack |-> 0, pending |-> {}]

SendMediaTick(s) ==
  [s EXCEPT !.seq = @ + 1, !.tx = @ + 1, !.pending = @ \cup {s.seq + 1}]

\* Mutant: a duplicate or late ack is counted again.
OnAckTwice(s, seq) ==
  [s EXCEPT !.max_ack = IF seq > @ THEN seq ELSE @, !.pending = @ \ {seq}, !.rx_ack = @ + 1]

OnAck(s, seq) ==
  LET t == [s EXCEPT !.max_ack = IF seq > @ THEN seq ELSE @]
  IN  IF seq \in s.pending THEN [t EXCEPT !.pending = @ \ {seq}, !.rx_ack = @ + 1] ELSE t

\* Mutant: what no later ack vouches for is kept waiting.
SweepStreamAcksOptimistic(s, upto) ==
  LET proven == {q \in s.pending : q <= upto /\ q <= s.max_ack}
  IN  [s EXCEPT !.pending = @ \ proven, !.rx_ack = @ + Cardinality(proven)]

\* An entry too old is delivered if a later ack came, and lost otherwise.
SweepStreamAcks(s, upto) ==
  LET old == {q \in s.pending : q <= upto}
      proven == {q \in old : q <= s.max_ack}
  IN  [s EXCEPT !.pending = @ \ old, !.rx_ack = @ + Cardinality(proven),
                !.loss = @ + Cardinality(old \ proven)]

\* InStream: the first packet anchors the gap count.
NoStream == [rx |-> 0, loss |-> 0, expected |-> 0]

\* Mutant: the packet just received is expected again.
OnMediaStuck(s, seq) ==
  LET exp == IF s = NoStream THEN seq ELSE s.expected
  IN  IF seq >= exp THEN [rx |-> s.rx + 1, loss |-> s.loss + (seq - exp), expected |-> seq]
      ELSE [s EXCEPT !.rx = @ + 1]

OnMedia(s, seq) ==
  LET exp == IF s = NoStream THEN seq ELSE s.expected
  IN  IF seq >= exp THEN [rx |-> s.rx + 1, loss |-> s.loss + (seq - exp), expected |-> seq + 1]
      ELSE [s EXCEPT !.rx = @ + 1]

\* Pings: pending is app_tx_time_; running is the traffic and its sweep timer.
NewPing == [seq |-> 0, rx |-> 0, loss |-> 0, pending |-> {}, running |-> FALSE]

SendAppData(p) == [p EXCEPT !.seq = @ + 1, !.pending = @ \cup {p.seq + 1}]

HandlePong(p, seq) ==
  IF seq \in p.pending THEN [p EXCEPT !.rx = @ + 1, !.pending = @ \ {seq}] ELSE p

SweepLostPings(p, upto) ==
  LET old == {q \in p.pending : q <= upto}
  IN  [p EXCEPT !.pending = @ \ old, !.loss = @ + Cardinality(old)]

StartTraffic(p) == [p EXCEPT !.running = TRUE]
StopTraffic(p) == [p EXCEPT !.running = FALSE]
=============================================================================
