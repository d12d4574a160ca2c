----------------------------- MODULE SduService -----------------------------
(* What an RLC bearer promises the layers above it: the SDUs it accepted    *)
(* come out whole, in order and at most once.  With Lossless no SDU is ever *)
(* passed over; without it the bearer may skip some.                        *)
EXTENDS Naturals, Sequences

CONSTANT Lossless     \* no reordering timeout: nothing may be skipped

VARIABLES submitted,  \* SDUs accepted since the bearer was (re)created
          delivered   \* SDUs handed up since then

vars == <<submitted, delivered>>

Extends(t, s) == Len(s) <= Len(t) /\ \A i \in 1 .. Len(s) : t[i] = s[i]

\* out is in with some members left out (none before the last, if Lossless).
InOrder(out, in) ==
  \E at \in [1 .. Len(out) -> 1 .. Len(in)] :
    /\ \A i \in 1 .. Len(out) : out[i] = in[at[i]]
    /\ \A i, j \in 1 .. Len(out) : i < j => at[i] < at[j]
    /\ Lossless => \A i \in 1 .. Len(out) : at[i] = i

Init == submitted = <<>> /\ delivered = <<>>

Accept ==
  /\ Extends(submitted', submitted) /\ Len(submitted') = Len(submitted) + 1
  /\ UNCHANGED delivered

Deliver ==
  /\ Extends(delivered', delivered) /\ InOrder(delivered', submitted)
  /\ UNCHANGED submitted

NewBearer == submitted' = <<>> /\ delivered' = <<>>

Next == Accept \/ Deliver \/ NewBearer

Spec == Init /\ [][Next]_vars
=============================================================================
