------------------------------ MODULE RlcAmInv -------------------------------
(* The inductive invariant behind the AM bearer's guarantees, while the      *)
(* 16-bit sequence number does not wrap (NoWrap).                            *)
EXTENDS RlcAm

NoWrap == MaxPdus < SnMod

\* A sequence number means one PDU, wherever it is kept.
SnNamesPdu ==
  /\ next_sn = Len(sent)
  /\ \A j \in 1 .. Len(sent) : sent[j].sn = j - 1
  /\ \A p \in wire : p.sn < Len(sent) /\ p = sent[p.sn + 1]
  /\ \A sn \in DOMAIN tx_buffer : sn < Len(sent) /\ tx_buffer[sn] = sent[sn + 1]
  /\ \A sn \in DOMAIN reorder : sn < Len(sent) /\ reorder[sn] = sent[sn + 1]

\* No STATUS acknowledges past the receiver, and the transmitter keeps the rest.
WindowInv ==
  /\ vr_next <= next_sn
  /\ \A s \in fb : s.ack <= vr_next
  /\ \A h \in holes : vr_next <= h /\ h < next_sn
  /\ AwaitedPduKept

SduOf(p) == p.data[1]
PieceOf(p) == p.data[2]
IsLastPiece(p) == PieceOf(p) = Len(submitted[SduOf(p)])

\* The j-th PDU is a piece of an SDU, and the one before it the piece before.
IsSegment(j) ==
  LET p == sent[j] IN
  /\ SduOf(p) \in 1 .. Len(submitted)
  /\ PieceOf(p) \in 1 .. Len(submitted[SduOf(p)])
  /\ p.fi = IF PieceOf(p) = 1
            THEN IF IsLastPiece(p) THEN "complete" ELSE "first"
            ELSE IF IsLastPiece(p) THEN "last" ELSE "middle"
  /\ PieceOf(p) > 1 => j > 1 /\ sent[j - 1].data = <<SduOf(p), PieceOf(p) - 1>>
  /\ PieceOf(p) = 1 => \/ j = 1 /\ SduOf(p) = 1
                       \/ /\ j > 1 /\ SduOf(sent[j - 1]) = SduOf(p) - 1
                          /\ IsLastPiece(sent[j - 1])
  /\ \A m \in 1 .. j - 1 :
       \/ SduOf(sent[m]) < SduOf(p)
       \/ SduOf(sent[m]) = SduOf(p) /\ PieceOf(sent[m]) < PieceOf(p)

\* The PDUs built so far are the pieces of the SDUs, one after the other.
SegmentsInv ==
  /\ \A k \in 1 .. Len(submitted) :
       /\ submitted[k] # <<>>
       /\ \A x \in 1 .. Len(submitted[k]) : submitted[k][x] = <<k, x>>
  /\ \A j \in 1 .. Len(sent) : IsSegment(j)
  /\ IF sent = <<>> THEN submitted = <<>>
     ELSE SduOf(sent[Len(sent)]) = Len(submitted) /\ IsLastPiece(sent[Len(sent)])

\* The number of SDUs whose last piece has an SN below v.
Done(v) == IF v = 0 THEN 0
           ELSE IF IsLastPiece(sent[v]) THEN SduOf(sent[v]) ELSE SduOf(sent[v]) - 1

\* The partial SDU holds the pieces up to the one with SN v - 1.
PartialUpTo(r, v) ==
  /\ r.collecting =>
       /\ v > 0 /\ ~ IsLastPiece(sent[v])
       /\ Len(r.partial) = PieceOf(sent[v])
       /\ \A x \in 1 .. Len(r.partial) : r.partial[x] = <<SduOf(sent[v]), x>>
  /\ TReorder = 0 /\ v > 0 /\ ~ IsLastPiece(sent[v]) => r.collecting

\* out holds SDUs complete below v, in order (all of them when none is skipped).
DeliveredUpTo(out, v) ==
  /\ \A j \in 1 .. Len(out) :
       out[j][1][1] \in 1 .. Done(v) /\ out[j] = submitted[out[j][1][1]]
  /\ \A i, j \in 1 .. Len(out) : i < j => out[i][1][1] < out[j][1][1]
  /\ TReorder = 0 =>
       Len(out) = Done(v) /\ \A j \in 1 .. Len(out) : out[j][1][1] = j

Reassembled(r, v) == PartialUpTo(r, v) /\ DeliveredUpTo(r.out, v)

ReassemblyInv ==
  Reassembled([collecting |-> collecting, partial |-> partial, out |-> delivered],
              vr_next)

\* Every SN below the transmitter's next one keeps its meaning, and the receiver
\* has delivered exactly what the SNs it passed allow (AmTx::tx, on_status;
\* AmRx::rx, tick, accept_in_order, drain_reorder).
BearerInv == SnNamesPdu /\ WindowInv /\ SegmentsInv /\ ReassemblyInv

-----------------------------------------------------------------------------
\* The hold area is as large as the backlog the transmitter can build up, and
\* the receiver never skips.
HoldsEverything == TReorder = 0 /\ MaxReorder >= TxLimit + Reserve + MaxSegs - 1

\* Every SN the duplicate filter knows is passed or held.
FilterInv == HeldIsAhead /\ \A sn \in seen : sn < vr_next \/ sn \in DOMAIN reorder
=============================================================================
