--------------------------------- MODULE Amf ---------------------------------
(* The separated core: the AMF, and the gNBs' handlers for what it sends.    *)
(* The in-memory link hands a message to every gNB before send returns, so   *)
(* each handler below includes what its messages set off.  n.amf is the      *)
(* AMF's state.  Every IMSI is a subscriber; a challenge is named by the     *)
(* order in which it was drawn, and so is the key derived from it.           *)
EXTENDS Gnb

(* tmsis, rands: TMSIs and challenges handed out.   ctx: ue_contexts_ as the *)
(* serving C-RNTI.   pend: pending_auth_ with its RAND.   key: session_keys_.*)
(* sqn: of each subscriber.   target: ho_target_.                            *)
NewAmf ==
  [tmsis |-> 0, rands |-> 0, ctx |-> Empty, pend |-> Empty, key |-> Empty,
   sqn |-> [u \in Ue |-> 0], target |-> Empty]

-----------------------------------------------------------------------------
(* handle_cn_message of a gNB.  A TMSI it does not know is entered under the *)
(* C-RNTI the AMF names, whichever cell that belongs to.                     *)

DownlinkNas(n, c, t, r, type, id, arg) ==
  LET t2c == n.gnb[c].t2c @@ (t :> r)
  IN  DownlinkSend([n EXCEPT !.gnb[c].t2c = t2c], c, t2c[t], type, id, arg)

SessionKey(n, c, t, r) ==
  LET t2c == n.gnb[c].t2c @@ (t :> r)
  IN  [n EXCEPT !.gnb[c].t2c = t2c, !.gnb[c].flow = Put(@, t2c[t], n.amf.key[t])]

HoPrepared(n, c, t, target, new) ==
  LET b == n.gnb[c]
      mine == {r \in DOMAIN b.sent : b.sent[r].cell = target /\ TmsiForCrnti(b, r) = t}
  IN  IF mine = {} THEN n
      ELSE LET r == CHOOSE x \in mine : TRUE
           IN  HoCommand([n EXCEPT !.gnb[c].sent[r].new = new], c, r, target, new)

-----------------------------------------------------------------------------
(* The AMF's handlers *)

AllHandleNas(n, t, r, type, id, arg) ==
  FoldSet(LAMBDA c, m : DownlinkNas(m, c, t, r, type, id, arg), n, Cells)

Challenge(n, t, r, imsi) ==
  LET ch == n.amf.rands + 1
      s == n.amf.sqn[imsi] + 1
      m == [n EXCEPT !.amf.rands = ch, !.amf.sqn[imsi] = s, !.amf.key = Put(@, t, ch),
                     !.amf.pend = Put(@, t, [imsi |-> imsi, ch |-> ch, rnti |-> r])]
  IN  AllHandleNas(m, t, r, "AUTH_REQUEST", ch, s)

InitialUeMsg(n, r, f) ==
  IF f.type # "ATTACH_REQUEST" THEN n
  ELSE Challenge([n EXCEPT !.amf.tmsis = @ + 1], n.amf.tmsis + 1, r, f.imsi)

\* A synch failure whose AUTS verifies under the pending RAND is challenged
\* again; any other failure ends the attempt.
AuthFailure(n, t, r, f) ==
  IF t \notin DOMAIN n.amf.pend \/ n.amf.pend[t].imsi # f.imsi THEN n
  ELSE IF n.amf.pend[t].ch = f.id
  THEN Challenge([n EXCEPT !.amf.sqn[f.imsi] = f.arg], t, r, f.imsi)
  ELSE [n EXCEPT !.amf.pend = Erase(@, t)]

\* The accept goes out in the clear, the key follows.
Accept(n, t, r) ==
  FoldSet(LAMBDA c, m : SessionKey(m, c, t, r),
          AllHandleNas(n, t, r, "ATTACH_ACCEPT", t, 0), Cells)

\* Mutant: RES is not compared.
AuthResponseAny(n, t, r, f) ==
  IF t \notin DOMAIN n.amf.pend THEN n
  ELSE Accept([n EXCEPT !.amf.ctx = Put(@, t, n.amf.pend[t].rnti), !.amf.pend = Erase(@, t)],
              t, r)
AuthResponse(n, t, r, f) ==
  IF t \notin DOMAIN n.amf.pend THEN n
  ELSE LET m == [n EXCEPT !.amf.pend = Erase(@, t)]
       IN  IF n.amf.pend[t].ch = f.id
           THEN Accept([m EXCEPT !.amf.ctx = Put(@, t, n.amf.pend[t].rnti)], t, r)
           ELSE AllHandleNas(m, t, r, "ATTACH_REJECT", t, 0)

ReleaseUe(n, t) ==
  [n EXCEPT !.amf.ctx = Erase(@, t), !.amf.pend = Erase(@, t), !.amf.key = Erase(@, t)]

UplinkNas(n, t, r, f) ==
  CASE f.type = "AUTH_FAILURE" -> AuthFailure(n, t, r, f)
    [] f.type = "AUTH_RESPONSE" -> AuthResponse(n, t, r, f)
    [] f.type = "DETACH" -> ReleaseUe(n, t)
    [] OTHER -> n

\* HO_NOTIFY: the new serving C-RNTI, relayed to every gNB.
HoNotify(n, t, new) ==
  LET m == [n EXCEPT !.amf.ctx = IF t \in DOMAIN @ THEN Put(@, t, new) ELSE @,
                     !.amf.target = Erase(@, t)]
  IN  FoldSet(LAMBDA c, x : HoPrepared(x, c, t, At(n.amf.target, t), new), m, Cells)

\* HO_REQUIRED goes to every gNB as HO_COMMAND; only the target acts on it.
\* The cell it came from is not in the message.
HoRequired(n, ctx, target) ==
  LET m == PrepareHandover([n EXCEPT !.amf.target = Put(@, ctx.tmsi, target)], target,
                           [ctx EXCEPT !.from = 0])
  IN  HoNotify(m, ctx.tmsi, Prepared(m, target))
=============================================================================
