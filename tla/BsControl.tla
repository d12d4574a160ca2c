------------------------------ MODULE BsControl ------------------------------
(* The cell's connection control: RachBs, RrcBs and NasBs (embedded core)    *)
(* with the callbacks by which BsNode ties them to its flows.  As in         *)
(* UeControl a handler is a function on the node's state, and the frames it  *)
(* sends collect in out.  The subscriber is known to the HSS emulation, so   *)
(* every attach is authenticated.                                            *)
EXTENDS Signalling

(* known: RachBs has a context for the UE's preamble.   crntis, tmsis, rands,*)
(* resumes: how many C-RNTIs, TMSIs, challenges and resume identities have   *)
(* been handed out.   ctx: RrcBs::ue_contexts_.   flow: flows_, where an     *)
(* absent flow equals NoFlow; act is last_activity_ms # 0.   t2c:            *)
(* tmsi_to_crnti_.   regs, pend, keys: ue_contexts_, pending_auth_ and       *)
(* session_keys_ of NasBs.   sqn: the subscriber's sequence number.          *)
BsState ==
  [known : BOOLEAN, crntis : 0 .. MaxCrnti, tmsis : 0 .. MaxTmsi, rands : Key,
   resumes : ResumeId,
   ctx : [Crnti -> [st : {"NONE", "CONNECTING", "CONNECTED", "INACTIVE", "IDLE"},
                    rid : ResumeId]],
   flow : [Crnti -> [suspended : BOOLEAN, key : Key, act : BOOLEAN]],
   t2c : [Tmsi -> 0 .. MaxCrnti], regs : SUBSET Tmsi, pend : [Tmsi -> Key],
   keys : [Tmsi -> Key], sqn : Key, out : SUBSET Frame]

NoCtx == [st |-> "NONE", rid |-> 0]
NoFlow == [suspended |-> FALSE, key |-> 0, act |-> FALSE]

BsInit ==
  [known |-> FALSE, crntis |-> 0, tmsis |-> 0, rands |-> 0, resumes |-> 0,
   ctx |-> [c \in Crnti |-> NoCtx], flow |-> [c \in Crnti |-> NoFlow],
   t2c |-> [t \in Tmsi |-> 0], regs |-> {}, pend |-> [t \in Tmsi |-> 0],
   keys |-> [t \in Tmsi |-> 0], sqn |-> 0, out |-> {}]

\* The hash tables keyed by TMSI are walked in an order of their own.
Order == {o \in [Tmsi -> Tmsi] : \A s, t \in Tmsi : s # t => o[s] # o[t]}
First(S, order) == CHOOSE t \in S : \A s \in S : order[t] <= order[s]

MappedTo(b, c) == {t \in Tmsi : b.t2c[t] = c}
Pending(b) == {t \in Tmsi : b.pend[t] # 0}

BsSend(b, type, c, key, id, sqn) ==
  [b EXCEPT !.out = @ \cup {NewFrame(type, c, key, id, sqn)}]

-----------------------------------------------------------------------------
(* RRC *)

SetupRequest(b, c) ==
  BsSend([b EXCEPT !.ctx[c] = [st |-> "CONNECTING", rid |-> 0]], "SETUP", c, 0, c, 0)

SetupComplete(b, c) == [b EXCEPT !.ctx[c].st = "CONNECTED"]

\* suspend_context and its callback, which parks the flow.
SuspendContext(b, c) ==
  IF b.ctx[c].st # "CONNECTED" THEN b
  ELSE LET id == b.resumes + 1
       IN  BsSend([b EXCEPT !.ctx[c] = [st |-> "INACTIVE", rid |-> id], !.resumes = id,
                            !.flow[c].suspended = TRUE], "SUSPEND", c, 0, id, 0)

\* Mutants: the resumed UE is given a fresh flow; the routing is left behind.
MoveDataPathFresh(b, old, new, order) ==
  LET on == MappedTo(b, old)
  IN  [b EXCEPT
         !.flow[new] = [NoFlow EXCEPT !.act = TRUE], !.flow[old] = NoFlow,
         !.t2c = [t \in Tmsi |->
            IF on # {} /\ t = First(on, order) THEN new ELSE b.t2c[t]]]
MoveDataPathUnrouted(b, old, new, order) ==
  [b EXCEPT !.flow[new] = [b.flow[old] EXCEPT !.suspended = FALSE, !.act = TRUE],
            !.flow[old] = NoFlow]

\* reest_cb_: the flow, and the first TMSI found on it, move to the new C-RNTI.
MoveDataPath(b, old, new, order) ==
  LET on == MappedTo(b, old)
  IN  [b EXCEPT
         !.flow = [c \in Crnti |->
            IF c = new THEN [b.flow[old] EXCEPT !.suspended = FALSE, !.act = TRUE]
            ELSE IF c = old THEN NoFlow ELSE b.flow[c]],
         !.t2c = [t \in Tmsi |->
            IF on # {} /\ t = First(on, order) THEN new ELSE b.t2c[t]]]

ResumeRequest(b, c, id, order) ==
  LET kept == {o \in Crnti : b.ctx[o].st = "INACTIVE" /\ b.ctx[o].rid = id}
      old == CHOOSE o \in kept : TRUE
  IN  IF kept = {} THEN BsSend(b, "RESUME_FAILURE", c, 0, 0, 0)
      ELSE BsSend(MoveDataPath([b EXCEPT !.ctx[old] = NoCtx,
                                         !.ctx[c] = [st |-> "CONNECTED", rid |-> 0]],
                               old, c, order), "RESUME_OK", c, 0, c, 0)

OnRrc(b, c, pdu, order) ==
  CASE pdu.type = "SETUP_REQUEST" -> SetupRequest(b, c)
    [] pdu.type = "SETUP_COMPLETE" -> SetupComplete(b, c)
    [] pdu.type = "RELEASE" -> [b EXCEPT !.ctx[c].st = "IDLE"]
    [] pdu.type = "SUSPEND_REQUEST" -> SuspendContext(b, c)
    [] pdu.type = "RESUME_REQUEST" -> ResumeRequest(b, c, pdu.id, order)

-----------------------------------------------------------------------------
(* Random access *)

OnPrach(b) == BsSend([b EXCEPT !.known = TRUE], "RAR", 0, 0, 0, 0)

\* Every MSG3 that carries a PDU is given a C-RNTI of its own.
OnMsg3(b, m, order) ==
  IF ~b.known \/ m.ccch = NoPdu THEN b
  ELSE LET c == b.crntis + 1
       IN  OnRrc(BsSend([b EXCEPT !.crntis = c], "MSG4", 0, 0, c, 0), c, m.ccch, order)

-----------------------------------------------------------------------------
(* NAS *)

\* BsNode's NAS send callback: route by TMSI, and arm security behind the
\* message once the TMSI has a session key.
NasDownlink(b, ul, t, type, id, sqn) ==
  LET c == IF b.t2c[t] # 0 THEN b.t2c[t] ELSE ul
      v == BsSend([b EXCEPT !.t2c[t] = c], type, c, b.flow[c].key, id, sqn)
  IN  IF b.keys[t] = 0 THEN v ELSE [v EXCEPT !.flow[c].key = b.keys[t]]

SendChallenge(b, ul, t) ==
  NasDownlink([b EXCEPT !.rands = @ + 1, !.sqn = @ + 1, !.pend[t] = b.rands + 1],
              ul, t, "AUTH_REQUEST", b.rands + 1, b.sqn + 1)

AttachRequest(b, ul) == SendChallenge([b EXCEPT !.tmsis = @ + 1], ul, b.tmsis + 1)

\* A RES that answers no open challenge dooms the only open one, if any.
AuthResponse(b, ul, ch) ==
  LET hit == {t \in Pending(b) : b.pend[t] = ch}
      t == CHOOSE t \in hit : TRUE
      only == {d \in Pending(b) : Pending(b) = {d}}
      d == CHOOSE d \in only : TRUE
  IN  IF hit # {}
      THEN NasDownlink([b EXCEPT !.pend[t] = 0, !.regs = @ \cup {t}, !.keys[t] = ch],
                       ul, t, "ATTACH_ACCEPT", t, 0)
      ELSE IF only # {}
      THEN [NasDownlink(b, ul, d, "ATTACH_REJECT", d, 0) EXCEPT !.pend[d] = 0]
      ELSE b

\* The failure names the subscriber, not the challenge: the first open one of
\* the subscriber is taken, and AUTS verifies only against its own RAND.
AuthFailure(b, ul, ch, sqn_ms, order) ==
  IF Pending(b) = {} THEN b
  ELSE LET t == First(Pending(b), order)
       IN  IF b.pend[t] = ch THEN SendChallenge([b EXCEPT !.sqn = sqn_ms], ul, t)
           ELSE [b EXCEPT !.pend[t] = 0]

\* The context goes by TMSI, the routing and the flow by C-RNTI.
DetachRequest(b, c, t) ==
  [b EXCEPT !.regs = @ \ {t}, !.flow[c] = NoFlow,
            !.t2c = [s \in Tmsi |-> IF b.t2c[s] = c THEN 0 ELSE b.t2c[s]]]

OnNas(b, m, order) ==
  CASE m.type = "ATTACH_REQUEST" -> AttachRequest(b, m.rnti)
    [] m.type = "AUTH_RESPONSE" -> AuthResponse(b, m.rnti, m.id)
    [] m.type = "AUTH_FAILURE" -> AuthFailure(b, m.rnti, m.id, m.sqn, order)
    [] m.type = "DETACH" -> DetachRequest(b, m.rnti, m.id)

-----------------------------------------------------------------------------
(* Uplink data and the inactivity sweep *)

ReactivateContext(b, c) ==
  IF b.ctx[c].st # "INACTIVE" THEN b
  ELSE [b EXCEPT !.ctx[c] = [st |-> "CONNECTED", rid |-> 0]]

\* Mutant: the flow is un-parked without its context.
ActivityFlowOnly(b, c) == [b EXCEPT !.flow[c].act = TRUE, !.flow[c].suspended = FALSE]

\* NAS and app content counts as activity and un-parks the flow.
Activity(b, c) ==
  LET v == [b EXCEPT !.flow[c].act = TRUE, !.flow[c].suspended = FALSE]
  IN  IF b.flow[c].suspended THEN ReactivateContext(v, c) ELSE v

\* Only content protected with the flow's key decodes.
OnContent(b, m, order) ==
  LET v == Activity(b, m.rnti)
  IN  IF m.type = "APP" \/ m.key # b.flow[m.rnti].key THEN v ELSE OnNas(v, m, order)

\* handle_dl_data ignores a C-RNTI without an RRC context.
OnUplinkData(b, m, order) ==
  IF b.ctx[m.rnti].st = "NONE" THEN b
  ELSE IF m.type \in CcchUp
  THEN OnRrc(b, m.rnti, [type |-> m.type, id |-> m.id], order)
  ELSE OnContent(b, m, order)

BsHandle(b, m, order) ==
  CASE m.type = "MSG1" -> OnPrach(b)
    [] m.type = "MSG3" -> OnMsg3(b, m, order)
    [] OTHER -> OnUplinkData(b, m, order)

\* sweep_inactive, for one flow: suspend the quiet, drop the long suspended.
Quiet(b, c) == ~b.flow[c].suspended /\ b.flow[c].act /\ b.ctx[c].st = "CONNECTED"

\* Mutant: expiry takes the registration along.
ExpireDeregisters(b, c, order) ==
  [b EXCEPT !.ctx[c] = NoCtx, !.flow[c] = NoFlow, !.regs = @ \ MappedTo(b, c),
            !.t2c = [t \in Tmsi |-> IF t \in MappedTo(b, c) THEN 0 ELSE b.t2c[t]]]

Expire(b, c, order) ==
  LET on == MappedTo(b, c)
  IN  [b EXCEPT !.ctx[c] = NoCtx, !.flow[c] = NoFlow,
                !.t2c = [t \in Tmsi |->
                   IF on # {} /\ t = First(on, order) THEN 0 ELSE b.t2c[t]]]
=============================================================================
