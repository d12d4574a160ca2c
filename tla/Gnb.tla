--------------------------------- MODULE Gnb ---------------------------------
(* Two cells as the mobility procedures see them.  The cells call each other *)
(* and the core synchronously where the carrier is in memory, so a handler   *)
(* is a function on the whole network n; n.gnb[c] is the BsNode of cell c    *)
(* and n.dl the dedicated downlink PDUs under way to the UEs.                *)
(*                                                                           *)
(* Left to Connection: the steps of random access and RRC setup, the         *)
(* embedded authentication, RRC_INACTIVE.                                    *)
EXTENDS Naturals, FiniteSets, FiniteSetsExt, Functions, TLC

CONSTANTS Ue,    \* the UEs, by IMSI
          Cells  \* two cell identities

ASSUME GnbConstants == Cells \subseteq 1 .. 9 /\ Cardinality(Cells) = 2

NoImsi == "none"   \* the empty IMSI
BlankKey == 99     \* the all-zero key adopt_ue leaves in session_keys_

Peer(c) == CHOOSE d \in Cells : d # c

\* Partial functions: the maps of the code.
Empty == <<>>
Put(f, x, y) == (x :> y) @@ f
Erase(f, x) == Restrict(f, DOMAIN f \ {x})
At(f, x) == IF x \in DOMAIN f THEN f[x] ELSE 0

-----------------------------------------------------------------------------
(* Identifiers: each cell numbers its UEs from a base of its own, those that *)
(* come by handover from an offset above it.                                 *)

Base(c) == 100 * c
RachCrnti(c, k) == Base(c) + k
\* Mutant: the handover range is the same in every cell.
HoCrntiShared(c, k) == 50 + k
HoCrnti(c, k) == Base(c) + 50 + k

-----------------------------------------------------------------------------
(* rachs, hos, tmsis: how many C-RNTIs of each kind and TMSIs were handed    *)
(* out.   ctx: the RRC contexts, by state.   flow: flows_, an absent key     *)
(* (sec_on false) being 0.   t2c: tmsi_to_crnti_.   reg, blank: ue_contexts_ *)
(* of NasBs by IMSI and the TMSIs with an entry in session_keys_.   sent:    *)
(* initiated_ho_.   asked: pending_xn_ho_.   taken: ho_prepared_.   gone:    *)
(* pending_flow_erase_.                                                      *)
NewCell ==
  [rachs |-> 0, hos |-> 0, tmsis |-> 0, ctx |-> Empty, flow |-> Empty, t2c |-> Empty,
   reg |-> Empty, blank |-> {}, sent |-> Empty, asked |-> Empty, taken |-> Empty, gone |-> {}]

TmsiForCrnti(b, r) ==
  LET on == {t \in DOMAIN b.t2c : b.t2c[t] = r} IN IF on = {} THEN 0 ELSE CHOOSE t \in on : TRUE

IsConnected(b, r) == r \in DOMAIN b.ctx /\ b.ctx[r] = "CONNECTED"

\* downlink_send: NAS and user data are ciphered once the flow is armed.
DownlinkSend(n, c, r, type, id, arg) ==
  LET key == IF type \in {"HO_COMMAND", "REEST_OK", "REEST_FAILURE"} THEN 0
             ELSE At(n.gnb[c].flow, r)
  IN  [n EXCEPT !.gnb[c].flow = @ @@ (r :> 0),
                !.dl = @ \cup {[from |-> c, rnti |-> r, type |-> type, id |-> id, arg |-> arg,
                                key |-> key]}]

\* tick: flows released by a handover go now.
EraseGone(n, c) ==
  [n EXCEPT !.gnb[c].flow = Restrict(@, DOMAIN @ \ n.gnb[c].gone), !.gnb[c].gone = {}]

-----------------------------------------------------------------------------
(* The embedded core: an IMSI without a subscription is accepted as it is.   *)

NasSend(n, c, t, r, type) ==
  LET to == IF t \in DOMAIN n.gnb[c].t2c THEN n.gnb[c].t2c[t] ELSE r
      m == DownlinkSend([n EXCEPT !.gnb[c].t2c = @ @@ (t :> r)], c, to, type, t, 0)
  IN  IF t \in n.gnb[c].blank THEN [m EXCEPT !.gnb[c].flow[to] = BlankKey] ELSE m

AttachRequest(n, c, r, imsi) ==
  LET t == n.gnb[c].tmsis + 1
  IN  NasSend([n EXCEPT !.gnb[c].tmsis = t, !.gnb[c].reg = Put(@, t, imsi)],
              c, t, r, "ATTACH_ACCEPT")

\* What handle_dl_data does after a DETACH, whoever handled it.
ForgetUe(n, c, r) ==
  [n EXCEPT !.gnb[c].t2c = Restrict(@, {t \in DOMAIN @ : @[t] # r}), !.gnb[c].flow = Erase(@, r)]

DetachRequest(n, c, r, t) == ForgetUe([n EXCEPT !.gnb[c].reg = Erase(@, t)], c, r)

-----------------------------------------------------------------------------
(* Re-establishment: the context, the flow with its queues and the routing   *)
(* move to the C-RNTI the random access gave the UE.  Of n.dl, kept is in    *)
(* those queues.                                                             *)

ReestCallback(n, c, old, new, kept) ==
  LET b == n.gnb[c]
      t == TmsiForCrnti(b, old)
      moved == IF old \in DOMAIN b.flow THEN Put(Erase(b.flow, old), new, b.flow[old]) ELSE b.flow
  IN  [n EXCEPT !.gnb[c].flow = moved, !.gnb[c].t2c = IF t = 0 THEN @ ELSE Put(@, t, new),
                !.dl = (@ \ kept) \cup {[f EXCEPT !.rnti = new] : f \in kept}]

ReestRequest(n, c, old, new, kept) ==
  IF ~IsConnected(n.gnb[c], old) THEN DownlinkSend(n, c, new, "REEST_FAILURE", 0, 0)
  ELSE DownlinkSend(ReestCallback([n EXCEPT !.gnb[c].ctx = Put(Erase(@, old), new, "CONNECTED")],
                                  c, old, new, kept),
                    c, new, "REEST_OK", new, 0)

-----------------------------------------------------------------------------
(* Handover, the part of one cell *)

\* Mutant: the session key does not come along.
AdoptFlowBare(b, r, ctx) == Put(b.flow, r, 0)
AdoptFlow(b, r, ctx) == Put(b.flow, r, ctx.key)

\* adopt_ue is skipped for an empty IMSI; it keeps a session key it finds.
PrepareHandover(n, c, ctx) ==
  LET b == n.gnb[c]
      r == HoCrnti(c, b.hos + 1)
      known == ctx.imsi # NoImsi
  IN  [n EXCEPT !.gnb[c] =
        [b EXCEPT !.hos = @ + 1, !.ctx = Put(@, r, "CONNECTED"), !.flow = AdoptFlow(b, r, ctx),
                  !.t2c = IF ctx.tmsi = 0 THEN @ ELSE Put(@, ctx.tmsi, r),
                  !.reg = IF known THEN Put(@, ctx.tmsi, ctx.imsi) ELSE @,
                  !.blank = IF known THEN @ \cup {ctx.tmsi} ELSE @,
                  !.taken = Put(@, r, ctx)]]
Prepared(n, c) == HoCrnti(c, n.gnb[c].hos)

HoContext(b, c, r) ==
  LET t == TmsiForCrnti(b, r)
  IN  [tmsi |-> t, imsi |-> IF t \in DOMAIN b.reg THEN b.reg[t] ELSE NoImsi,
       key |-> b.flow[r], from |-> c]

HoCommand(n, c, r, target, new) == DownlinkSend(n, c, r, "HO_COMMAND", new, target)

\* UE_CTX_RELEASE is not a message the AMF acts on.
ReleaseHoSource(n, c, old) ==
  LET t == TmsiForCrnti(n.gnb[c], old)
      b == IF t = 0 THEN n.gnb[c]
           ELSE [n.gnb[c] EXCEPT !.reg = Erase(@, t), !.blank = @ \ {t}, !.t2c = Erase(@, t)]
  IN  [n EXCEPT !.gnb[c] = [b EXCEPT !.ctx = Erase(@, old), !.flow = @ @@ (old :> 0),
                                     !.gone = @ \cup {old}]]

\* Mutant: whichever handover the cell has begun is taken for the completed one.
CompletedAny(b, new) == DOMAIN b.sent
Completed(b, new) == {r \in DOMAIN b.sent : b.sent[r].new = new}

\* The UE landed under the C-RNTI new: the source of that handover lets go.
Landed(n, c, new) ==
  LET done == Completed(n.gnb[c], new)
  IN  IF done = {} THEN n
      ELSE LET r == CHOOSE x \in done : TRUE
           IN  [ReleaseHoSource(n, c, r) EXCEPT !.gnb[c].sent = Erase(@, r)]
=============================================================================
