------------------------------ MODULE UeControl ------------------------------
(* The UE's connection control: RachUe, RrcUe and NasUe with the callbacks   *)
(* and timers by which UeNode ties them together.  The code is sequential,   *)
(* so a handler is a function from the UE's state to its next state; the     *)
(* frames it sends collect in the field out.                                 *)
(*                                                                           *)
(* One serving cell; the re-establishment and handover branches are left out *)
(* (reestablish_pending_ stays false).  The UE has a USIM.                   *)
EXTENDS Signalling

CONSTANTS MaxPreamble,  \* max_preamble_transmissions
          MaxApp        \* bound: app PDUs queued on the bearers

ASSUME UeConstants == MaxPreamble \in Nat \ {0} /\ MaxApp \in Nat

(* rach, rrc, nas: the three state machines.   want: attach_requested_.      *)
(* sib: has_system_info().   crnti: crnti_cache_.   pending: pending_ccch_.  *)
(* tx: preamble_tx_count_.   resume_id: of RrcUe.   sec: up_key_, 0 while    *)
(* up_sec_on_ is false.   auth, skey, sqn, tmsi: of NasUe.   app: app PDUs   *)
(* queued on the bearers.   guard: attach_guard_running_ and its timer.      *)
(* window: the RACH window timer.   backoffs, retries: pending one-shot      *)
(* timers that nothing cancels.   resumeGuard: resume_guard_running_, and    *)
(* resumeTimers the timers it was set with that have not fired yet.          *)
UeState ==
  [rach : {"IDLE", "WAIT_RAR", "WAIT_CR", "CONNECTED"},
   rrc : {"IDLE", "CONNECTING", "CONNECTED", "INACTIVE"},
   nas : {"DEREGISTERED", "REGISTERING", "REGISTERED"},
   want : BOOLEAN, sib : BOOLEAN, crnti : 0 .. MaxCrnti, pending : Pdu,
   tx : 0 .. MaxPreamble, resume_id : ResumeId, sec : Key,
   auth : {"NO", "PENDING", "YES"}, skey : Key, sqn : Key, tmsi : 0 .. MaxTmsi,
   app : 0 .. MaxApp, detachAfter : BOOLEAN, guard : BOOLEAN, window : BOOLEAN,
   backoffs : Nat, retries : Nat, resumeGuard : BOOLEAN, resumeTimers : Nat,
   out : SUBSET Frame]

UeInit ==
  [rach |-> "IDLE", rrc |-> "IDLE", nas |-> "DEREGISTERED", want |-> FALSE, sib |-> FALSE,
   crnti |-> 0, pending |-> NoPdu, tx |-> 0, resume_id |-> 0, sec |-> 0, auth |-> "NO",
   skey |-> 0, sqn |-> 0, tmsi |-> 0, app |-> 0, detachAfter |-> FALSE, guard |-> FALSE,
   window |-> FALSE, backoffs |-> 0, retries |-> 0, resumeGuard |-> FALSE,
   resumeTimers |-> 0, out |-> {}]

Registered(u) == u.nas = "REGISTERED"

-----------------------------------------------------------------------------
(* Sending *)

\* uplink_send: what carries C-RNTI 0 belongs to no context and is ignored.
UplinkSend(u, type, key, id, sqn) ==
  IF u.crnti = 0 THEN u
  ELSE [u EXCEPT !.out = @ \cup {NewFrame(type, u.crnti, key, id, sqn)}]

NasSend(u, type, id, sqn) == UplinkSend(u, type, u.sec, id, sqn)

\* RRC's send callback: before there is a C-RNTI the PDU waits for MSG3.
RrcSend(u, type) ==
  IF u.crnti = 0 THEN [u EXCEPT !.pending = [type |-> type, id |-> 0]]
  ELSE UplinkSend(u, type, 0, 0, 0)

-----------------------------------------------------------------------------
(* RachUe and its state callback *)

\* schedule_attach_retry, run on every transition to IDLE.
ScheduleAttachRetry(u) ==
  IF u.want /\ ~Registered(u) THEN [u EXCEPT !.retries = @ + 1] ELSE u

RachToIdle(u) == ScheduleAttachRetry([u EXCEPT !.rach = "IDLE", !.window = FALSE])

RachForceIdle(u) == IF u.rach = "IDLE" THEN u ELSE RachToIdle(u)

StartRach(u) ==
  IF u.rach # "IDLE" THEN u
  ELSE [u EXCEPT !.rach = "WAIT_RAR", !.tx = 1, !.crnti = 0, !.window = TRUE,
                 !.out = @ \cup {NewFrame("MSG1", 0, 0, 0, 0)}]

\* MSG3 takes the pending CCCH PDU along.
OnRar(u) ==
  IF u.rach # "WAIT_RAR" THEN u
  ELSE [u EXCEPT !.rach = "WAIT_CR", !.window = TRUE,
                 !.out = @ \cup {[NewFrame("MSG3", 0, 0, 0, 0) EXCEPT !.ccch = u.pending]}]

OnContentionResolve(u, crnti) ==
  IF u.rach # "WAIT_CR" THEN u ELSE [u EXCEPT !.rach = "CONNECTED", !.crnti = crnti]

\* The resent MSG1 arms no window of its own.
OnRarTimeout(u) ==
  IF u.rach # "WAIT_RAR" THEN u
  ELSE IF u.tx < MaxPreamble
  THEN [u EXCEPT !.tx = @ + 1, !.out = @ \cup {NewFrame("MSG1", 0, 0, 0, 0)}]
  ELSE RachToIdle([u EXCEPT !.tx = 0])

-----------------------------------------------------------------------------
(* Attach, detach, sleep and wake *)

RrcForceIdle(u) == IF u.rrc = "IDLE" THEN u ELSE [u EXCEPT !.rrc = "IDLE", !.resume_id = 0]

ForceDeregistered(u) ==
  IF u.nas = "DEREGISTERED" THEN u
  ELSE [u EXCEPT !.nas = "DEREGISTERED", !.tmsi = 0, !.auth = "NO"]

StartConnection(u) == RrcSend([u EXCEPT !.rrc = "CONNECTING"], "SETUP_REQUEST")

MaybeStartAttach(u) ==
  IF u.want /\ u.sib /\ u.rach = "IDLE" /\ u.rrc = "IDLE"
  THEN StartRach([StartConnection([u EXCEPT !.pending = NoPdu]) EXCEPT !.guard = TRUE])
  ELSE u

Attach(u) == MaybeStartAttach([u EXCEPT !.want = TRUE])

AbortAttach(u) ==
  LET v == RrcForceIdle(RachForceIdle(
             [u EXCEPT !.want = FALSE, !.guard = FALSE, !.pending = NoPdu]))
  IN  [ForceDeregistered([v EXCEPT !.crnti = 0]) EXCEPT !.app = 0, !.sec = 0]

Wake(u) ==
  IF u.rrc # "INACTIVE" THEN u
  ELSE LET v == RachForceIdle([u EXCEPT
             !.pending = [type |-> "RESUME_REQUEST", id |-> u.resume_id], !.rrc = "CONNECTING"])
       IN  StartRach(IF v.resumeGuard THEN v
                     ELSE [v EXCEPT !.resumeGuard = TRUE, !.resumeTimers = @ + 1])

\* send_detach and RrcUe::release; the latter only from CONNECTED.
SendDetach(u) ==
  NasSend([u EXCEPT !.nas = "DEREGISTERED", !.tmsi = 0], "DETACH", u.tmsi, 0)
Release(u) ==
  IF u.rrc # "CONNECTED" THEN u ELSE RrcSend([u EXCEPT !.rrc = "IDLE"], "RELEASE")

Detach(u) ==
  IF ~Registered(u) THEN u
  ELSE IF u.rrc = "INACTIVE" THEN Wake([u EXCEPT !.detachAfter = TRUE])
  ELSE [RachForceIdle([Release(SendDetach(u)) EXCEPT !.crnti = 0])
          EXCEPT !.pending = NoPdu, !.want = FALSE, !.app = 0, !.sec = 0]

Sleep(u) ==
  IF Registered(u) /\ u.rrc = "CONNECTED" THEN RrcSend(u, "SUSPEND_REQUEST") ELSE u

-----------------------------------------------------------------------------
(* App data: what is queued leaves unless the UE is INACTIVE. *)

SendAppData(u) ==
  IF Registered(u) THEN [Wake(u) EXCEPT !.app = @ + 1] ELSE u

PumpAppBearers(u) ==
  IF u.rrc = "INACTIVE" \/ u.app = 0 THEN u
  ELSE [NasSend(u, "APP", 0, 0) EXCEPT !.app = 0]

-----------------------------------------------------------------------------
(* Timers *)

AttachGuardFires(u) ==
  LET v == [u EXCEPT !.guard = FALSE] IN IF Registered(u) THEN v ELSE AbortAttach(v)

WindowFires(u) ==
  LET v == [u EXCEPT !.window = FALSE]
  IN  CASE u.rach = "WAIT_RAR" -> [v EXCEPT !.backoffs = @ + 1]
        [] u.rach = "WAIT_CR" -> RachToIdle(v)
        [] OTHER -> v

BackoffFires(u) == OnRarTimeout([u EXCEPT !.backoffs = @ - 1])

RetryFires(u) ==
  LET v == [u EXCEPT !.retries = @ - 1]
  IN  IF u.want /\ ~Registered(u) /\ u.rach = "IDLE"
      THEN MaybeStartAttach([RrcForceIdle(v) EXCEPT !.crnti = 0])
      ELSE v

\* Mutant: the attach is started before the state machines are idle.
ResumeGuardFiresEarly(u) ==
  LET v == [u EXCEPT !.resumeTimers = @ - 1, !.resumeGuard = FALSE]
  IN  IF ~u.resumeGuard \/ u.rrc = "CONNECTED" THEN v
      ELSE ForceDeregistered(RrcForceIdle(RachForceIdle(Attach(v))))

\* C-RNTI, security and detach_after_resume_ stay as they are.
ResumeGuardFires(u) ==
  LET v == [u EXCEPT !.resumeTimers = @ - 1, !.resumeGuard = FALSE]
  IN  IF ~u.resumeGuard \/ u.rrc = "CONNECTED" THEN v
      ELSE Attach(ForceDeregistered(RrcForceIdle(RachForceIdle(v))))

-----------------------------------------------------------------------------
(* Downlink *)

\* The resume callback of the constructor.
Resumed(u) ==
  LET v == PumpAppBearers([u EXCEPT !.resumeGuard = FALSE])
  IN  IF v.detachAfter THEN Detach([v EXCEPT !.detachAfter = FALSE]) ELSE v
ResumeRefused(u) ==
  Attach(ForceDeregistered(RachForceIdle([u EXCEPT !.resumeGuard = FALSE, !.crnti = 0])))

\* RrcUe::on_message.  A suspend RELEASE parks a CONNECTED UE and releases
\* any other.
OnRrcMessage(u, m) ==
  CASE m.type = "SETUP" /\ u.rrc = "CONNECTING" ->
         RrcSend([u EXCEPT !.rrc = "CONNECTED"], "SETUP_COMPLETE")
    [] m.type = "SUSPEND" ->
         IF u.rrc = "CONNECTED"
         THEN [u EXCEPT !.rrc = "INACTIVE", !.resume_id = m.id, !.crnti = 0]
         ELSE [u EXCEPT !.rrc = "IDLE"]
    [] m.type = "RESUME_OK" /\ u.rrc = "CONNECTING" /\ u.resume_id # 0 ->
         Resumed([u EXCEPT !.rrc = "CONNECTED", !.resume_id = 0, !.crnti = m.id])
    [] m.type = "RESUME_FAILURE" /\ u.rrc = "CONNECTING" ->
         ResumeRefused([u EXCEPT !.rrc = "IDLE", !.resume_id = 0])
    [] OTHER -> u

\* handle_ccch_sdu: the connection being up, NAS attach follows if wanted.
HandleCcch(u, m) ==
  LET v == OnRrcMessage(u, m)
  IN  IF v.want /\ v.nas = "DEREGISTERED" /\ v.rrc = "CONNECTED"
      THEN NasSend([v EXCEPT !.nas = "REGISTERING", !.auth = "NO"], "ATTACH_REQUEST", 0, 0)
      ELSE v

\* NasUe::on_message
OnNasMessage(u, m) ==
  IF u.nas # "REGISTERING" THEN u
  ELSE CASE m.type = "AUTH_REQUEST" /\ m.sqn <= u.sqn ->
              NasSend(u, "AUTH_FAILURE", m.id, u.sqn)
         [] m.type = "AUTH_REQUEST" /\ m.sqn > u.sqn ->
              NasSend([u EXCEPT !.sqn = m.sqn, !.skey = m.id, !.auth = "PENDING"],
                      "AUTH_RESPONSE", m.id, 0)
         [] m.type = "ATTACH_ACCEPT" ->
              [u EXCEPT !.nas = "REGISTERED", !.tmsi = m.id,
                        !.auth = IF @ = "PENDING" THEN "YES" ELSE @]
         [] m.type = "ATTACH_REJECT" -> [u EXCEPT !.nas = "DEREGISTERED"]

\* What was not protected with the UE's own key does not decode.  The first
\* authenticated registration switches security on.
HandleNas(u, m) ==
  IF m.key # u.sec THEN u
  ELSE LET v == OnNasMessage(u, m)
       IN  IF Registered(v) /\ v.auth = "YES" /\ v.sec = 0
           THEN [v EXCEPT !.sec = v.skey] ELSE v

\* handle_air_frame: dedicated data is for the holder of the C-RNTI.
UeHandle(u, m) ==
  CASE m.type = "RAR" -> OnRar(u)
    [] m.type = "MSG4" -> OnContentionResolve(u, m.id)
    [] m.type \in CcchDown /\ m.rnti = u.crnti -> HandleCcch(u, m)
    [] m.type \in NasDown /\ m.rnti = u.crnti -> HandleNas(u, m)
    [] OTHER -> u

\* Paging and system information arrive on the broadcast channel.
HearSystemInfo(u) == MaybeStartAttach([u EXCEPT !.sib = TRUE])
HearPage(u) ==
  IF u.rrc = "INACTIVE" THEN Wake(u) ELSE IF ~Registered(u) THEN Attach(u) ELSE u
=============================================================================
