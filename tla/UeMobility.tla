------------------------------ MODULE UeMobility -----------------------------
(* The UE in the mobility procedures: measurement reports, handover, radio   *)
(* link failure and re-establishment, and the attach, authentication and     *)
(* detach around them.  A handler is a function on the UE's record; what it  *)
(* sends collects in out.  UeControl has what is folded together here: the   *)
(* steps of random access and RRC setup, and their retries.                  *)
EXTENDS Naturals

(* cell: serving_cell_.   pre: the cell whose preambles it uses.   crnti:    *)
(* crnti_cache_.   sec: up_key_, 0 while up_sec_on_ is false.   want:        *)
(* attach_requested_.   reest: reestablish_pending_.   old: pre_rlf_crnti_.  *)
(* heard: the keys of cells_.   meas: meas_timer_ is running.   The others   *)
(* are RrcUe's and NasUe's.                                                  *)
UeInit(imsi) ==
  [me |-> imsi, cell |-> 0, pre |-> 0, crnti |-> 0, rrc |-> "IDLE", nas |-> "DEREGISTERED",
   tmsi |-> 0, sec |-> 0, auth |-> "NO", skey |-> 0, sqn |-> 0, want |-> FALSE,
   reest |-> FALSE, old |-> 0, heard |-> {}, meas |-> FALSE, out |-> {}]

\* What carries C-RNTI 0 belongs to no context and is ignored.
UplinkSend(u, type, key, id, arg, cells) ==
  IF u.crnti = 0 THEN u
  ELSE [u EXCEPT !.out = @ \cup {[rnti |-> u.crnti, imsi |-> u.me, type |-> type, key |-> key,
                                  id |-> id, arg |-> arg, cells |-> cells]}]
SendNas(u, type, id, arg) == UplinkSend(u, type, u.sec, id, arg, {})
SendRrc(u, type, id) == UplinkSend(u, type, 0, id, 0, {})

-----------------------------------------------------------------------------
(* Attach and detach *)

\* maybe_start_attach camps on the strongest cell and aims the random access
\* at it; crnti is what it won, and the RRC setup and the NAS request follow.
AttachAt(u, c, crnti) ==
  SendNas([u EXCEPT !.want = TRUE, !.cell = c, !.pre = c, !.heard = @ \cup {c}, !.crnti = crnti,
                    !.rrc = "CONNECTED", !.nas = "REGISTERING", !.auth = "NO", !.meas = TRUE],
          "ATTACH_REQUEST", 0, 0)
MayAttach(u) ==
  u.crnti = 0 /\ u.rrc = "IDLE" /\ ~u.reest /\ u.nas = "DEREGISTERED"

ForceDeregistered(u) ==
  IF u.nas = "DEREGISTERED" THEN u
  ELSE [u EXCEPT !.nas = "DEREGISTERED", !.tmsi = 0, !.auth = "NO"]

\* The attach guard, if the UE is not registered when it fires.
AbortAttach(u) ==
  ForceDeregistered([u EXCEPT !.want = FALSE, !.rrc = "IDLE", !.crnti = 0, !.sec = 0,
                              !.meas = FALSE])

\* The re-establishment state survives a detach.
Detach(u) ==
  LET v == SendNas([u EXCEPT !.nas = "DEREGISTERED", !.tmsi = 0], "DETACH", u.tmsi, 0)
      w == IF v.rrc = "CONNECTED" THEN SendRrc([v EXCEPT !.rrc = "IDLE"], "RELEASE", 0) ELSE v
  IN  [w EXCEPT !.crnti = 0, !.want = FALSE, !.sec = 0, !.meas = FALSE]

-----------------------------------------------------------------------------
(* Measurements, handover *)

\* The measurement timer runs from the attach request on, past an ATTACH_REJECT.
MayReport(u) == u.rrc = "CONNECTED" /\ u.meas
Report(u, audible) ==
  UplinkSend([u EXCEPT !.heard = @ \cup audible], "MEAS_REPORT", 0, 0, 0, audible)

\* The preambles stay those of the cell of the attach.
ApplyHandover(u, target, crnti) ==
  IF target \notin u.heard THEN u
  ELSE SendRrc([u EXCEPT !.cell = target, !.crnti = crnti, !.rrc = "CONNECTED"],
               "HO_COMPLETE", crnti)

-----------------------------------------------------------------------------
(* Radio link failure and re-establishment *)

MayFail(u) == u.rrc = "CONNECTED" /\ ~u.reest

DeclareRlf(u) ==
  [u EXCEPT !.old = u.crnti, !.reest = TRUE, !.rrc = "IDLE", !.crnti = 0, !.want = TRUE]

ReestablishFailed(u) ==
  ForceDeregistered([u EXCEPT !.reest = FALSE, !.sec = 0, !.crnti = 0, !.rrc = "IDLE"])

ReestablishmentOk(u, crnti) ==
  IF ~u.reest THEN u ELSE [u EXCEPT !.reest = FALSE, !.crnti = crnti, !.rrc = "CONNECTED"]

-----------------------------------------------------------------------------
(* Downlink *)

OnNasMessage(u, m) ==
  IF u.nas # "REGISTERING" THEN u
  ELSE CASE m.type = "AUTH_REQUEST" /\ m.arg <= u.sqn -> SendNas(u, "AUTH_FAILURE", m.id, u.sqn)
         [] m.type = "AUTH_REQUEST" /\ m.arg > u.sqn ->
              SendNas([u EXCEPT !.sqn = m.arg, !.skey = m.id, !.auth = "PENDING"],
                      "AUTH_RESPONSE", m.id, 0)
         [] m.type = "ATTACH_ACCEPT" ->
              [u EXCEPT !.nas = "REGISTERED", !.tmsi = m.id,
                        !.auth = IF @ = "PENDING" THEN "YES" ELSE @]
         [] m.type = "ATTACH_REJECT" -> [u EXCEPT !.nas = "DEREGISTERED"]

HandleDownlinkNas(u, m) ==
  IF m.key # u.sec THEN u
  ELSE LET v == OnNasMessage(u, m)
       IN  IF v.nas # "REGISTERED" THEN v
           ELSE [v EXCEPT !.sec = IF @ = 0 /\ v.auth = "YES" THEN v.skey ELSE @, !.meas = TRUE]

HandleDownlink(u, m) ==
  CASE m.type = "HO_COMMAND" -> ApplyHandover(u, m.arg, m.id)
    [] m.type = "REEST_OK" -> ReestablishmentOk(u, m.id)
    [] m.type = "REEST_FAILURE" -> IF u.reest THEN ReestablishFailed(u) ELSE u
    [] m.type \in {"TEXT", "ECHO"} -> u
    [] OTHER -> HandleDownlinkNas(u, m)
=============================================================================
