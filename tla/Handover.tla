------------------------------- MODULE Handover ------------------------------
(* Handover between the two cells, over whichever of the three carriers the  *)
(* deployment wired: the Xn link, the AMF or a coordinator object (n.via).   *)
(* n.xn holds the Xn messages under way: UDP datagrams, so a set.            *)
EXTENDS Amf

XnSend(n, c, type, tmsi, new, ctx, imsi) ==
  [n EXCEPT !.xn = @ \cup {[to |-> Peer(c), type |-> type, tmsi |-> tmsi, new |-> new,
                            ctx |-> ctx, imsi |-> imsi]}]
NoContext == [tmsi |-> 0, imsi |-> NoImsi, key |-> 0, from |-> 0]

-----------------------------------------------------------------------------
(* request_handover of cell c for its C-RNTI r *)

\* The pending handover is entered before the message is sent.
AskOverXn(n, c, r, target) ==
  LET ctx == HoContext(n.gnb[c], c, r)
  IN  XnSend([n EXCEPT !.gnb[c].asked = Put(@, ctx.tmsi, [crnti |-> r, cell |-> target]),
                       !.gnb[c].sent = Put(@, r, [cell |-> target, new |-> 0])],
             c, "PREPARE", ctx.tmsi, 0, ctx, NoImsi)

\* Mutant: a repeated report starts the handover over.
RequestOverXnAgain(n, c, r, target) == AskOverXn(n, c, r, target)
RequestOverXn(n, c, r, target) ==
  IF r \in DOMAIN n.gnb[c].sent THEN n ELSE AskOverXn(n, c, r, target)

\* Here it is entered after send, which returns with everything done.
RequestOverAmf(n, c, r, target) ==
  [HoRequired(n, HoContext(n.gnb[c], c, r), target)
     EXCEPT !.gnb[c].sent = Put(@, r, [cell |-> target, new |-> 0])]

RequestOfCoordinator(n, c, r, target) ==
  LET m == PrepareHandover(n, target, HoContext(n.gnb[c], c, r))
      new == Prepared(m, target)
  IN  [HoCommand(m, c, r, target, new)
         EXCEPT !.gnb[c].sent = Put(@, r, [cell |-> target, new |-> new])]

RequestHandover(n, c, r, target) ==
  IF r \notin DOMAIN n.gnb[c].flow THEN n
  ELSE CASE n.via = "xn" -> RequestOverXn(n, c, r, target)
         [] n.via = "amf" -> RequestOverAmf(n, c, r, target)
         [] n.via = "coordinator" -> RequestOfCoordinator(n, c, r, target)

-----------------------------------------------------------------------------
(* User data from UE to UE.  find_ue_by_imsi takes the first registration    *)
(* of the IMSI in the hash table: any of them.                               *)

RegistrationsOf(b, imsi) == {t \in DOMAIN b.reg : b.reg[t] = imsi}
CrntiForImsi(b, imsi) ==
  {At(b.t2c, t) : t \in RegistrationsOf(b, imsi)}
    \cup (IF RegistrationsOf(b, imsi) = {} THEN {0} ELSE {})

\* The results of forward_u2u_dl for the route dst, and whether it took it.
Routable(b, dst, exclude) == dst \notin {0, exclude} /\ dst \in DOMAIN b.flow
ForwardU2u(n, c, imsi, dst) == DownlinkSend(n, c, dst, "TEXT", imsi, 0)

\* Mutant: what is not found here is echoed, never forwarded.
HandleUlAppSduLocal(n, c, r, imsi, dst) ==
  CASE n.via = "amf" -> n
    [] n.via # "amf" /\ Routable(n.gnb[c], dst, r) -> ForwardU2u(n, c, imsi, dst)
    [] OTHER -> DownlinkSend(n, c, r, "ECHO", imsi, 0)

\* With the separated core user data ends at the UPF.
HandleUlAppSdu(n, c, r, imsi, dst) ==
  CASE n.via = "amf" -> n
    [] n.via # "amf" /\ Routable(n.gnb[c], dst, r) -> ForwardU2u(n, c, imsi, dst)
    [] n.via = "xn" /\ ~Routable(n.gnb[c], dst, r) ->
         XnSend(n, c, "FWD_DATA", 0, 0, NoContext, imsi)
    [] OTHER -> DownlinkSend(n, c, r, "ECHO", imsi, 0)

-----------------------------------------------------------------------------
(* handle_xn_message; dst is the route a FWD_DATA takes *)

XnPrepare(n, m) ==
  LET p == PrepareHandover(n, m.to, m.ctx)
  IN  XnSend(p, m.to, "PREPARE_ACK", m.tmsi, Prepared(p, m.to), NoContext, NoImsi)

XnPrepareAck(n, m) ==
  IF m.tmsi \notin DOMAIN n.gnb[m.to].asked THEN n
  ELSE LET ho == n.gnb[m.to].asked[m.tmsi]
       IN  [HoCommand(n, m.to, ho.crnti, ho.cell, m.new)
              EXCEPT !.gnb[m.to].asked = Erase(@, m.tmsi),
                     !.gnb[m.to].sent = Put(@, ho.crnti, [cell |-> ho.cell, new |-> m.new])]

HandleXn(n, m, dst) ==
  CASE m.type = "PREPARE" -> XnPrepare(n, m)
    [] m.type = "PREPARE_ACK" -> XnPrepareAck(n, m)
    [] m.type = "COMPLETE" -> Landed(n, m.to, m.new)
    [] m.type = "FWD_DATA" ->
         IF Routable(n.gnb[m.to], dst, 0) THEN ForwardU2u(n, m.to, m.imsi, dst) ELSE n

-----------------------------------------------------------------------------
(* Uplink of a UE with a context: handle_ccch_sdu and the NAS branch of      *)
(* handle_dl_data                                                            *)

\* Hand over only when the serving cell went missing from the report.
MeasReport(n, c, f) ==
  IF c \in f.cells \/ f.cells = {} THEN n ELSE RequestHandover(n, c, f.rnti, Peer(c))

\* Mutant: the target keeps the landing to itself.
HoCompleteSilent(n, c, f) == Landed(n, c, f.id)
HoComplete(n, c, f) ==
  LET m == Landed(n, c, f.id)
  IN  IF f.id \in DOMAIN n.gnb[c].taken /\ n.via = "xn"
      THEN XnSend(m, c, "COMPLETE", n.gnb[c].taken[f.id].tmsi, f.id, NoContext, NoImsi)
      ELSE m

HandleNas(n, c, f) ==
  LET t == TmsiForCrnti(n.gnb[c], f.rnti)
      m == IF t = 0 THEN InitialUeMsg(n, f.rnti, f) ELSE UplinkNas(n, t, f.rnti, f)
  IN  CASE n.via = "amf" /\ f.type = "DETACH" -> ForgetUe(m, c, f.rnti)
        [] n.via = "amf" /\ f.type # "DETACH" -> m
        [] n.via # "amf" /\ f.type = "ATTACH_REQUEST" -> AttachRequest(n, c, f.rnti, f.imsi)
        [] n.via # "amf" /\ f.type = "DETACH" -> DetachRequest(n, c, f.rnti, f.id)

RrcRelease(n, c, r) == [n EXCEPT !.gnb[c].ctx = Put(@, r, "IDLE")]

\* handle_dl_data: a block of an unknown C-RNTI is not ours; the flow comes
\* into being; what does not decrypt is dropped.
HandleUplink(n, c, f, dst) ==
  LET m == [n EXCEPT !.gnb[c].flow = @ @@ (f.rnti :> 0)]
      plain == f.key = m.gnb[c].flow[f.rnti]
  IN  CASE f.rnti \notin DOMAIN n.gnb[c].ctx -> n
        [] f.rnti \in DOMAIN n.gnb[c].ctx /\ f.type = "MEAS_REPORT" -> MeasReport(m, c, f)
        [] f.rnti \in DOMAIN n.gnb[c].ctx /\ f.type = "HO_COMPLETE" -> HoComplete(m, c, f)
        [] f.rnti \in DOMAIN n.gnb[c].ctx /\ f.type = "RELEASE" -> RrcRelease(m, c, f.rnti)
        [] f.rnti \in DOMAIN n.gnb[c].ctx /\ f.type = "TEXT" ->
             IF plain THEN HandleUlAppSdu(m, c, f.rnti, f.id, dst) ELSE m
        [] OTHER -> IF plain THEN HandleNas(m, c, f) ELSE m
=============================================================================
