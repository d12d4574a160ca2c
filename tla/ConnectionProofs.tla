--------------------------- MODULE ConnectionProofs ---------------------------
(* Connection control for every number of C-RNTIs, TMSIs, challenges, timers *)
(* and frames in flight: its types, that an INACTIVE context has a parked    *)
(* flow, and that no wait of the UE is without a guard timer.                *)
EXTENDS Connection, NatSetInduction, TLAPS

-----------------------------------------------------------------------------
(* The inductive invariant *)

\* A frame that one of the two nodes can have sent: dedicated data carries a
\* C-RNTI, an identity is of its kind, and no sequence number is ahead of the
\* challenges the network has drawn.
Sound(m, rands) ==
  /\ m \in Frame /\ m.sqn <= rands
  /\ m.type \in DataUp \cup DataDown => m.rnti # 0
  /\ m.type \in {"MSG4", "RESUME_OK"} => m.id \in 0 .. MaxCrnti
  /\ m.type = "SUSPEND" => m.id \in ResumeId
  /\ m.type = "AUTH_REQUEST" => m.id \in Key
  /\ m.type = "ATTACH_ACCEPT" => m.id \in 0 .. MaxTmsi

UeSound(u, rands) == u \in UeState /\ u.sqn <= rands /\ \A m \in u.out : Sound(m, rands)
BsSound(b) == b \in BsState /\ b.sqn <= b.rands /\ \A m \in b.out : Sound(m, b.rands)

\* Why every wait is guarded.  Random access runs only for an attach that is
\* wanted or a resume; only a UE with a C-RNTI can become CONNECTED; and a
\* registration without a connection exists only during a resume, so the
\* attach guard, which spares a registered UE, is not needed there.
Guarded(u) ==
  /\ u.resumeGuard => u.resumeTimers > 0
  /\ ~u.sib => u.rach = "IDLE" /\ u.rrc = "IDLE"
  /\ ~u.want => u.nas = "DEREGISTERED" /\ u.rach = "IDLE"
  /\ u.crnti # 0 => u.rach = "CONNECTED"
  /\ u.rrc \in {"CONNECTED", "INACTIVE"} => u.rach = "CONNECTED"
  /\ u.rrc = "INACTIVE" => u.crnti = 0
  /\ u.nas # "DEREGISTERED" /\ u.rrc \in {"IDLE", "CONNECTING"} => u.resumeGuard
  /\ u.want /\ ~Registered(u) /\ ~u.guard =>
       u.rach = "IDLE" /\ (u.sib => u.rrc = "CONNECTING")
  /\ u.rrc = "CONNECTING" => u.guard \/ u.resumeGuard

Parked(b) == \A c \in Crnti : b.ctx[c].st = "INACTIVE" => b.flow[c].suspended

IInv ==
  /\ TypeOK
  /\ UeSound(ue, bs.rands) /\ Guarded(ue) /\ BsSound(bs) /\ Parked(bs)
  /\ \A m \in air : Sound(m, bs.rands)

-----------------------------------------------------------------------------
(* The UE: every handler keeps UeSound, and every step of it Guarded *)

\* Zero stands for "none" everywhere.
LEMMA Zeros ==
  /\ 0 \in ResumeId /\ 0 \in Key /\ 0 \in 0 .. MaxCrnti /\ 0 \in 0 .. MaxTmsi
  /\ 0 \in 0 .. MaxApp /\ 0 \in 0 .. MaxPreamble /\ NoPdu \in Pdu
  BY SignallingConstants, UeConstants DEF ResumeId, Key, NoPdu, Pdu

\* What uplink_send() puts on the air is sound.
LEMMA SendSound ==
  ASSUME NEW u, NEW r \in Nat, UeSound(u, r), NEW type \in DataUp, NEW key \in Key,
         NEW id \in Nat, NEW sqn \in Key, sqn <= r
  PROVE  UeSound(UplinkSend(u, type, key, id, sqn), r)
<1>1. CASE u.crnti = 0
  BY <1>1 DEF UplinkSend
<1>2. CASE u.crnti # 0
  <2> DEFINE m == NewFrame(type, u.crnti, key, id, sqn)
  <2>1. m \in Frame
    BY SignallingConstants DEF NewFrame, Frame, Uplink, UeSound, UeState, NoPdu, Pdu, ResumeId
  <2>2. Sound(m, r)
    BY <1>2, <2>1 DEF Sound, NewFrame, DataUp, CcchUp, NasUp
  <2> QED  BY <1>2, <2>1, <2>2 DEF UplinkSend, UeSound, UeState
<1> QED  BY <1>1, <1>2

\* So is what the RRC and NAS send callbacks put there.
LEMMA NasSendSound ==
  ASSUME NEW u, NEW r \in Nat, UeSound(u, r), NEW type \in NasUp \cup {"APP"},
         NEW id \in Nat, NEW sqn \in Key, sqn <= r
  PROVE  UeSound(NasSend(u, type, id, sqn), r)
<1>1. type \in DataUp /\ u.sec \in Key
  BY DEF DataUp, UeSound, UeState
<1> QED  BY <1>1, SendSound DEF NasSend

\* The RRC send callback keeps the state sound, with a C-RNTI and without one,
\* when the message waits for MSG3.
LEMMA RrcSendSound ==
  ASSUME NEW u, NEW r \in Nat, UeSound(u, r), NEW type \in CcchUp
  PROVE  UeSound(RrcSend(u, type), r)
<1>1. CASE u.crnti = 0
  BY <1>1, SignallingConstants DEF RrcSend, UeSound, UeState, Pdu, ResumeId
<1>2. CASE u.crnti # 0
  <2>1. type \in DataUp /\ 0 \in Key /\ 0 <= r
    BY SignallingConstants DEF DataUp, Key
  <2> QED  BY <1>2, <2>1, SendSound DEF RrcSend
<1> QED  BY <1>1, <1>2

\* The operators of RachUe keep the state sound.
LEMMA RachSound ==
  ASSUME NEW u, NEW r \in Nat, UeSound(u, r)
  PROVE  /\ UeSound(RachToIdle(u), r) /\ UeSound(RachForceIdle(u), r)
         /\ UeSound(StartRach(u), r) /\ UeSound(OnRar(u), r) /\ UeSound(OnRarTimeout(u), r)
         /\ \A c \in 0 .. MaxCrnti : UeSound(OnContentionResolve(u, c), r)
<1>1. ASSUME NEW v, UeSound(v, r)  PROVE UeSound(RachToIdle(v), r)
  <2>1. v.retries + 1 \in Nat
    BY <1>1 DEF UeSound, UeState
  <2> QED  BY <1>1, <2>1, ZenonT(40) DEF UeSound, UeState, RachToIdle, ScheduleAttachRetry, Registered
<1>2. UeSound(RachForceIdle(u), r)
  BY <1>1 DEF RachForceIdle
<1>3. Sound(NewFrame("MSG1", 0, 0, 0, 0), r)
  BY SignallingConstants DEF Sound, NewFrame, Frame, NoPdu, Pdu, ResumeId, Key, Uplink,
     RachUp, DataUp, DataDown, CcchUp, CcchDown, NasUp, NasDown
<1>4. ASSUME NEW p \in Pdu
      PROVE  Sound([NewFrame("MSG3", 0, 0, 0, 0) EXCEPT !.ccch = p], r)
  BY SignallingConstants DEF Sound, NewFrame, Frame, NoPdu, Key, Uplink,
     RachUp, DataUp, DataDown, CcchUp, CcchDown, NasUp, NasDown
<1>5. ASSUME NEW m, Sound(m, r)  PROVE m \in Frame
  BY <1>5 DEF Sound
<1> HIDE DEF Sound
<1>6. UeSound(StartRach(u), r)
  <2> DEFINE m == NewFrame("MSG1", 0, 0, 0, 0)
  <2>1. Sound(m, r) /\ m \in Frame
    BY <1>3, <1>5
  <2> HIDE DEF m
  <2>2. UeSound([u EXCEPT !.rach = "WAIT_RAR", !.tx = 1, !.crnti = 0, !.window = TRUE,
                          !.out = @ \cup {m}], r)
    <3>1. 1 \in 0 .. MaxPreamble /\ 0 \in 0 .. MaxCrnti
      BY UeConstants, SignallingConstants
    <3> QED  BY <2>1, <3>1 DEF UeSound, UeState
  <2> QED  BY <2>2 DEF StartRach, m
<1>7. UeSound(OnRar(u), r)
  <2>1. u.pending \in Pdu
    BY DEF UeSound, UeState
  <2> DEFINE m == [NewFrame("MSG3", 0, 0, 0, 0) EXCEPT !.ccch = u.pending]
  <2>2. Sound(m, r) /\ m \in Frame
    BY <1>4, <1>5, <2>1
  <2> HIDE DEF m
  <2>3. UeSound([u EXCEPT !.rach = "WAIT_CR", !.window = TRUE, !.out = @ \cup {m}], r)
    BY <2>2 DEF UeSound, UeState
  <2> QED  BY <2>3 DEF OnRar, m
<1>8. UeSound(OnRarTimeout(u), r)
  <2>1. UeSound([u EXCEPT !.tx = 0], r)
    BY UeConstants DEF UeSound, UeState
  <2>2. CASE u.tx < MaxPreamble
    <3> DEFINE m == NewFrame("MSG1", 0, 0, 0, 0)
    <3>1. Sound(m, r) /\ m \in Frame
      BY <1>3, <1>5
    <3> HIDE DEF m
    <3>2. UeSound([u EXCEPT !.tx = @ + 1, !.out = @ \cup {m}], r)
      <4>1. u.tx + 1 \in 0 .. MaxPreamble
        BY <2>2, UeConstants DEF UeSound, UeState
      <4> QED  BY <3>1, <4>1 DEF UeSound, UeState
    <3> QED  BY <2>2, <3>2 DEF OnRarTimeout, m
  <2>3. CASE ~(u.tx < MaxPreamble)
    BY <1>1, <2>1, <2>3 DEF OnRarTimeout
  <2> QED  BY <2>2, <2>3
<1>9. \A c \in 0 .. MaxCrnti : UeSound(OnContentionResolve(u, c), r)
  BY ZenonT(40) DEF OnContentionResolve, UeSound, UeState
<1> QED  BY <1>1, <1>2, <1>6, <1>7, <1>8, <1>9

\* Attach, abort and wake keep the state sound.
LEMMA AttachSound ==
  ASSUME NEW u, NEW r \in Nat, UeSound(u, r)
  PROVE  /\ UeSound(RrcForceIdle(u), r) /\ UeSound(ForceDeregistered(u), r)
         /\ UeSound(MaybeStartAttach(u), r) /\ UeSound(Attach(u), r)
         /\ UeSound(AbortAttach(u), r) /\ UeSound(Wake(u), r)
<1> USE Zeros
<1>1. ASSUME NEW v, UeSound(v, r)  PROVE UeSound(RrcForceIdle(v), r)
  <2>1. UeSound([v EXCEPT !.rrc = "IDLE", !.resume_id = 0], r)
    BY <1>1 DEF UeSound, UeState
  <2> QED  BY <1>1, <2>1 DEF RrcForceIdle
<1>2. ASSUME NEW v, UeSound(v, r)  PROVE UeSound(ForceDeregistered(v), r)
  <2>1. UeSound([v EXCEPT !.nas = "DEREGISTERED", !.tmsi = 0, !.auth = "NO"], r)
    BY <1>2 DEF UeSound, UeState
  <2> QED  BY <1>2, <2>1 DEF ForceDeregistered
<1>3. ASSUME NEW v, UeSound(v, r)  PROVE UeSound(MaybeStartAttach(v), r)
  <2> DEFINE w == [v EXCEPT !.pending = NoPdu]
             x == RrcSend([w EXCEPT !.rrc = "CONNECTING"], "SETUP_REQUEST")
  <2>1. UeSound(w, r) /\ UeSound([w EXCEPT !.rrc = "CONNECTING"], r)
    BY <1>3 DEF UeSound, UeState
  <2>2. UeSound(x, r)
    BY <2>1, RrcSendSound DEF CcchUp
  <2> HIDE DEF x
  <2>3. UeSound([x EXCEPT !.guard = TRUE], r)
    BY <2>2 DEF UeSound, UeState
  <2>4. UeSound(StartRach([x EXCEPT !.guard = TRUE]), r)
    BY <2>3, RachSound
  <2> QED  BY <1>3, <2>4 DEF MaybeStartAttach, StartConnection, x
<1>4. UeSound(Attach(u), r)
  <2>1. UeSound([u EXCEPT !.want = TRUE], r)
    BY DEF UeSound, UeState
  <2> QED  BY <1>3, <2>1 DEF Attach
<1>5. UeSound(AbortAttach(u), r)
  <2> DEFINE w == [u EXCEPT !.want = FALSE, !.guard = FALSE, !.pending = NoPdu]
             v == RrcForceIdle(RachForceIdle(w))
  <2>1. UeSound(w, r)
    BY DEF UeSound, UeState
  <2>2. UeSound(v, r)
    BY <1>1, <2>1, RachSound
  <2> HIDE DEF v
  <2> DEFINE x == ForceDeregistered([v EXCEPT !.crnti = 0])
  <2>3. UeSound(x, r)
    <3>1. UeSound([v EXCEPT !.crnti = 0], r)
      BY <2>2 DEF UeSound, UeState
    <3> QED  BY <1>2, <3>1
  <2> HIDE DEF x
  <2>4. UeSound([x EXCEPT !.app = 0, !.sec = 0], r)
    BY <2>3 DEF UeSound, UeState
  <2> QED  BY <2>4 DEF AbortAttach, v, x
<1>6. UeSound(Wake(u), r)
  <2> DEFINE w == [u EXCEPT !.pending = [type |-> "RESUME_REQUEST", id |-> u.resume_id],
                            !.rrc = "CONNECTING"]
             v == RachForceIdle(w)
             x == IF v.resumeGuard THEN v
                  ELSE [v EXCEPT !.resumeGuard = TRUE, !.resumeTimers = @ + 1]
  <2>1. UeSound(w, r)
    BY DEF UeSound, UeState, Pdu, CcchUp
  <2>2. UeSound(v, r)
    BY <2>1, RachSound
  <2> HIDE DEF v
  <2>3. UeSound(x, r)
    <3>1. v.resumeTimers + 1 \in Nat
      BY <2>2 DEF UeSound, UeState
    <3>2. UeSound([v EXCEPT !.resumeGuard = TRUE, !.resumeTimers = @ + 1], r)
      BY <2>2, <3>1 DEF UeSound, UeState
    <3> QED  BY <2>2, <3>2
  <2>4. UeSound(StartRach(x), r)
    BY <2>3, RachSound
  <2> QED  BY <2>4 DEF Wake, v
<1> QED  BY <1>1, <1>2, <1>3, <1>4, <1>5, <1>6

\* So do the calls of the user.
LEMMA UserSound ==
  ASSUME NEW u, NEW r \in Nat, UeSound(u, r)
  PROVE  /\ UeSound(Release(SendDetach(u)), r) /\ UeSound(Detach(u), r)
         /\ UeSound(Sleep(u), r) /\ UeSound(PumpAppBearers(u), r)
         /\ u.app < MaxApp => UeSound(SendAppData(u), r)
<1> USE Zeros
<1>1. UeSound(Release(SendDetach(u)), r) /\ UeSound(Detach(u), r)
  <2> DEFINE a == [u EXCEPT !.nas = "DEREGISTERED", !.tmsi = 0]
             b == SendDetach(u)
             c == Release(b)
             d == RachForceIdle([c EXCEPT !.crnti = 0])
  <2>1. UeSound(b, r)
    <3>1. UeSound(a, r)
      BY DEF UeSound, UeState
    <3>2. u.tmsi \in Nat
      BY SignallingConstants DEF UeSound, UeState
    <3> QED  BY <3>1, <3>2, NasSendSound DEF SendDetach, NasUp
  <2> HIDE DEF b
  <2>2. UeSound(c, r)
    <3>1. UeSound([b EXCEPT !.rrc = "IDLE"], r)
      BY <2>1 DEF UeSound, UeState
    <3>2. UeSound(RrcSend([b EXCEPT !.rrc = "IDLE"], "RELEASE"), r)
      BY <3>1, RrcSendSound DEF CcchUp
    <3> QED  BY <2>1, <3>2 DEF Release
  <2> HIDE DEF c
  <2>3. UeSound(d, r)
    <3>1. UeSound([c EXCEPT !.crnti = 0], r)
      BY <2>2 DEF UeSound, UeState
    <3> QED  BY <3>1, RachSound
  <2> HIDE DEF d
  <2>4. UeSound([d EXCEPT !.pending = NoPdu, !.want = FALSE, !.app = 0, !.sec = 0], r)
    BY <2>3 DEF UeSound, UeState
  <2>5. UeSound(Wake([u EXCEPT !.detachAfter = TRUE]), r)
    <3>1. UeSound([u EXCEPT !.detachAfter = TRUE], r)
      BY DEF UeSound, UeState
    <3> QED  BY <3>1, AttachSound
  <2> QED  BY <2>2, <2>4, <2>5 DEF Detach, b, c, d
<1>2. UeSound(Sleep(u), r)
  BY RrcSendSound DEF Sleep, CcchUp
<1>3. UeSound(PumpAppBearers(u), r)
  <2> DEFINE a == NasSend(u, "APP", 0, 0)
  <2>1. UeSound(a, r)
    BY NasSendSound
  <2> HIDE DEF a
  <2>2. UeSound([a EXCEPT !.app = 0], r)
    BY <2>1 DEF UeSound, UeState
  <2> QED  BY <2>2 DEF PumpAppBearers, a
<1>4. ASSUME u.app < MaxApp  PROVE UeSound(SendAppData(u), r)
  <2> DEFINE a == Wake(u)
  <2>1. UeSound(a, r)
    BY AttachSound
  <2>2. a.app = u.app
    BY DEF Wake, StartRach, RachForceIdle, RachToIdle, ScheduleAttachRetry, UeSound, UeState
  <2> HIDE DEF a
  <2>3. a.app + 1 \in 0 .. MaxApp
    BY <1>4, <2>2, UeConstants DEF UeSound, UeState
  <2>4. UeSound([a EXCEPT !.app = @ + 1], r)
    BY <2>1, <2>3 DEF UeSound, UeState
  <2> QED  BY <2>4 DEF SendAppData, a
<1> QED  BY <1>1, <1>2, <1>3, <1>4

\* And the timers.
LEMMA TimerSound ==
  ASSUME NEW u, NEW r \in Nat, UeSound(u, r)
  PROVE  /\ UeSound(AttachGuardFires(u), r) /\ UeSound(WindowFires(u), r)
         /\ u.backoffs > 0 => UeSound(BackoffFires(u), r)
         /\ u.retries > 0 => UeSound(RetryFires(u), r)
         /\ u.resumeTimers > 0 => UeSound(ResumeGuardFires(u), r)
<1> USE Zeros
<1>1. UeSound(AttachGuardFires(u), r)
  <2>1. UeSound([u EXCEPT !.guard = FALSE], r)
    BY DEF UeSound, UeState
  <2> QED  BY <2>1, AttachSound DEF AttachGuardFires
<1>2. UeSound(WindowFires(u), r)
  <2> DEFINE v == [u EXCEPT !.window = FALSE]
  <2>1. UeSound(v, r)
    BY DEF UeSound, UeState
  <2> HIDE DEF v
  <2>2. UeSound([v EXCEPT !.backoffs = @ + 1], r)
    <3>1. v.backoffs + 1 \in Nat
      BY <2>1 DEF UeSound, UeState
    <3> QED  BY <2>1, <3>1 DEF UeSound, UeState
  <2>3. UeSound(RachToIdle(v), r)
    BY <2>1, RachSound
  <2> QED  BY <2>1, <2>2, <2>3 DEF WindowFires, v
<1>3. ASSUME u.backoffs > 0  PROVE UeSound(BackoffFires(u), r)
  <2>1. u.backoffs - 1 \in Nat
    BY <1>3 DEF UeSound, UeState
  <2>2. UeSound([u EXCEPT !.backoffs = @ - 1], r)
    BY <2>1 DEF UeSound, UeState
  <2> QED  BY <2>2, RachSound DEF BackoffFires
<1>4. ASSUME u.retries > 0  PROVE UeSound(RetryFires(u), r)
  <2> DEFINE v == [u EXCEPT !.retries = @ - 1]
             w == RrcForceIdle(v)
  <2>1. u.retries - 1 \in Nat
    BY <1>4 DEF UeSound, UeState
  <2>2. UeSound(v, r)
    BY <2>1 DEF UeSound, UeState
  <2>3. UeSound(w, r)
    BY <2>2, AttachSound
  <2> HIDE DEF w
  <2>4. UeSound([w EXCEPT !.crnti = 0], r)
    BY <2>3 DEF UeSound, UeState
  <2>5. UeSound(MaybeStartAttach([w EXCEPT !.crnti = 0]), r)
    BY <2>4, AttachSound
  <2> QED  BY <2>2, <2>5 DEF RetryFires, w
<1>5. ASSUME u.resumeTimers > 0  PROVE UeSound(ResumeGuardFires(u), r)
  <2> DEFINE v == [u EXCEPT !.resumeTimers = @ - 1, !.resumeGuard = FALSE]
  <2>1. u.resumeTimers - 1 \in Nat
    BY <1>5 DEF UeSound, UeState
  <2>2. UeSound(v, r)
    BY <2>1 DEF UeSound, UeState
  <2> HIDE DEF v
  <2>3. UeSound(Attach(ForceDeregistered(RrcForceIdle(RachForceIdle(v)))), r)
    BY <2>2, AttachSound, RachSound
  <2> QED  BY <2>2, <2>3 DEF ResumeGuardFires, v
<1> QED  BY <1>1, <1>2, <1>3, <1>4, <1>5

\* RRC messages keep the state sound.
LEMMA CcchSound ==
  ASSUME NEW u, NEW r \in Nat, UeSound(u, r), NEW m, Sound(m, r)
  PROVE  UeSound(OnRrcMessage(u, m), r) /\ UeSound(HandleCcch(u, m), r)
<1> USE Zeros
<1>1. ASSUME NEW v, UeSound(v, r)  PROVE UeSound(Resumed(v), r)
  <2> DEFINE w == PumpAppBearers([v EXCEPT !.resumeGuard = FALSE])
  <2>1. UeSound([v EXCEPT !.resumeGuard = FALSE], r)
    BY <1>1 DEF UeSound, UeState
  <2>2. UeSound(w, r)
    BY <2>1, UserSound
  <2> HIDE DEF w
  <2>3. UeSound([w EXCEPT !.detachAfter = FALSE], r)
    BY <2>2 DEF UeSound, UeState
  <2>4. UeSound(Detach([w EXCEPT !.detachAfter = FALSE]), r)
    BY <2>3, UserSound
  <2> QED  BY <2>2, <2>4 DEF Resumed, w
<1>2. ASSUME NEW v, UeSound(v, r)  PROVE UeSound(ResumeRefused(v), r)
  <2>1. UeSound([v EXCEPT !.resumeGuard = FALSE, !.crnti = 0], r)
    BY <1>2 DEF UeSound, UeState
  <2> QED  BY <2>1, AttachSound, RachSound DEF ResumeRefused
<1> DEFINE o == OnRrcMessage(u, m)
<1>3. UeSound(o, r)
  <2>1. CASE m.type = "SETUP" /\ u.rrc = "CONNECTING"
    <3>1. UeSound([u EXCEPT !.rrc = "CONNECTED"], r)
      BY DEF UeSound, UeState
    <3>2. UeSound(RrcSend([u EXCEPT !.rrc = "CONNECTED"], "SETUP_COMPLETE"), r)
      BY <3>1, RrcSendSound DEF CcchUp
    <3> QED  BY <2>1, <3>2 DEF OnRrcMessage
  <2>2. CASE m.type = "SUSPEND"
    <3>0. m.id \in ResumeId
      BY <2>2 DEF Sound
    <3>1. UeSound([u EXCEPT !.rrc = "INACTIVE", !.resume_id = m.id, !.crnti = 0], r)
      BY <3>0 DEF UeSound, UeState
    <3>2. UeSound([u EXCEPT !.rrc = "IDLE"], r)
      BY DEF UeSound, UeState
    <3> QED  BY <2>2, <3>1, <3>2 DEF OnRrcMessage
  <2>3. CASE m.type = "RESUME_OK" /\ u.rrc = "CONNECTING" /\ u.resume_id # 0
    <3>0. m.id \in 0 .. MaxCrnti
      BY <2>3 DEF Sound
    <3>1. UeSound([u EXCEPT !.rrc = "CONNECTED", !.resume_id = 0, !.crnti = m.id], r)
      BY <3>0 DEF UeSound, UeState
    <3>2. o = Resumed([u EXCEPT !.rrc = "CONNECTED", !.resume_id = 0, !.crnti = m.id])
      BY <2>3 DEF OnRrcMessage
    <3> QED  BY <1>1, <3>1, <3>2
  <2>4. CASE m.type = "RESUME_FAILURE" /\ u.rrc = "CONNECTING"
    <3>1. UeSound([u EXCEPT !.rrc = "IDLE", !.resume_id = 0], r)
      BY DEF UeSound, UeState
    <3>2. o = ResumeRefused([u EXCEPT !.rrc = "IDLE", !.resume_id = 0])
      BY <2>4 DEF OnRrcMessage
    <3> QED  BY <1>2, <3>1, <3>2
  <2> QED  BY <2>1, <2>2, <2>3, <2>4 DEF OnRrcMessage
<1> HIDE DEF o
<1> DEFINE w == [o EXCEPT !.nas = "REGISTERING", !.auth = "NO"]
<1>4. UeSound(w, r)
  BY <1>3 DEF UeSound, UeState
<1> HIDE DEF w
<1>5. UeSound(NasSend(w, "ATTACH_REQUEST", 0, 0), r)
  BY <1>4, NasSendSound DEF NasUp
<1> QED  BY <1>3, <1>5 DEF HandleCcch, o, w

\* NAS messages keep the state sound.
LEMMA NasSound ==
  ASSUME NEW u, NEW r \in Nat, UeSound(u, r), NEW m, Sound(m, r),
         m.type \in NasDown
  PROVE  UeSound(OnNasMessage(u, m), r) /\ UeSound(HandleNas(u, m), r)
<1> DEFINE o == OnNasMessage(u, m)
<1>1. m.sqn \in Key /\ m.sqn <= r /\ m.id \in Nat /\ u.sqn \in Key /\ u.sqn <= r
  BY DEF Sound, Frame, UeSound, UeState
<1>2. UeSound(o, r)
  <2>1. CASE m.type = "AUTH_REQUEST"
    <3>1. UeSound(NasSend(u, "AUTH_FAILURE", m.id, u.sqn), r)
      BY <1>1, NasSendSound DEF NasUp
    <3> DEFINE w == [u EXCEPT !.sqn = m.sqn, !.skey = m.id, !.auth = "PENDING"]
    <3>2. UeSound(w, r)
      <4>1. m.id \in Key
        BY <2>1 DEF Sound
      <4> QED  BY <1>1, <4>1 DEF UeSound, UeState
    <3>3. UeSound(NasSend(w, "AUTH_RESPONSE", m.id, 0), r)
      BY <1>1, <3>2, Zeros, NasSendSound DEF NasUp
    <3>4. m.sqn <= u.sqn \/ m.sqn > u.sqn
      BY <1>1, SignallingConstants DEF Key
    <3> QED  BY <2>1, <3>1, <3>3, <3>4 DEF OnNasMessage
  <2>2. CASE m.type = "ATTACH_ACCEPT"
    <3>1. m.id \in 0 .. MaxTmsi
      BY <2>2 DEF Sound
    <3>2. UeSound([u EXCEPT !.nas = "REGISTERED", !.tmsi = m.id,
                            !.auth = IF @ = "PENDING" THEN "YES" ELSE @], r)
      BY <3>1 DEF UeSound, UeState
    <3> QED  BY <2>2, <3>2 DEF OnNasMessage
  <2>3. CASE m.type = "ATTACH_REJECT"
    <3>1. UeSound([u EXCEPT !.nas = "DEREGISTERED"], r)
      BY DEF UeSound, UeState
    <3> QED  BY <2>3, <3>1 DEF OnNasMessage
  <2> QED  BY <2>1, <2>2, <2>3 DEF NasDown
<1> HIDE DEF o
<1>3. UeSound([o EXCEPT !.sec = o.skey], r)
  BY <1>2 DEF UeSound, UeState
<1> QED  BY <1>2, <1>3 DEF HandleNas, o

\* Every frame the UE receives, and what it hears on the broadcast channel.
LEMMA ReceiveSound ==
  ASSUME NEW u, NEW r \in Nat, UeSound(u, r)
  PROVE  /\ \A m : Sound(m, r) => UeSound(UeHandle(u, m), r)
         /\ UeSound(HearSystemInfo(u), r) /\ UeSound(HearPage(u), r)
<1>1. ASSUME NEW m, Sound(m, r)  PROVE UeSound(UeHandle(u, m), r)
  <2>1. m.type = "MSG4" => m.id \in 0 .. MaxCrnti
    BY <1>1 DEF Sound
  <2> QED  BY <1>1, <2>1, RachSound, CcchSound, NasSound DEF UeHandle
<1>2. UeSound([u EXCEPT !.sib = TRUE], r)
  BY DEF UeSound, UeState
<1> QED  BY <1>1, <1>2, AttachSound DEF HearSystemInfo, HearPage


-----------------------------------------------------------------------------
(* The UE: every step keeps the waits guarded *)

\* The part of the state that random access and connection setup leave alone.
Kept(u, v) ==
  /\ v.nas = u.nas /\ v.want = u.want /\ v.sib = u.sib
  /\ v.resumeGuard = u.resumeGuard /\ v.resumeTimers = u.resumeTimers

\* What RachForceIdle, StartRach and MaybeStartAttach do to the waits.
LEMMA RachIdleEffect ==
  ASSUME NEW u \in UeState
  PROVE  /\ RachForceIdle(u) \in UeState /\ RachForceIdle(u).rach = "IDLE"
         /\ Kept(u, RachForceIdle(u))
         /\ RachForceIdle(u).rrc = u.rrc /\ RachForceIdle(u).crnti = u.crnti
         /\ RachForceIdle(u).guard = u.guard
<1>1. u.retries + 1 \in Nat
  BY DEF UeState
<1> DEFINE v == [u EXCEPT !.rach = "IDLE", !.window = FALSE]
<1>2. v \in UeState /\ [v EXCEPT !.retries = @ + 1] \in UeState
  BY <1>1 DEF UeState
<1>3. RachForceIdle(u) \in UeState
  BY <1>2 DEF RachForceIdle, RachToIdle, ScheduleAttachRetry
<1> QED
  BY <1>3 DEF RachForceIdle, RachToIdle, ScheduleAttachRetry, UeState, Registered, Kept

\* RachUe::start from IDLE waits for a RAR and touches nothing above it.
LEMMA StartRachEffect ==
  ASSUME NEW u \in UeState, u.rach = "IDLE"
  PROVE  /\ StartRach(u).rach = "WAIT_RAR" /\ StartRach(u).crnti = 0 /\ Kept(u, StartRach(u))
         /\ StartRach(u).rrc = u.rrc /\ StartRach(u).guard = u.guard
  BY DEF StartRach, UeState, Kept

\* UeNode::maybe_start_attach arms the attach guard and starts random access
\* and RRC setup together, or does nothing.
LEMMA MaybeStartAttachEffect ==
  ASSUME NEW u \in UeState
  PROVE  \/ /\ u.want /\ u.sib /\ u.rach = "IDLE" /\ u.rrc = "IDLE"
            /\ MaybeStartAttach(u).rach = "WAIT_RAR" /\ MaybeStartAttach(u).crnti = 0
            /\ MaybeStartAttach(u).rrc = "CONNECTING" /\ MaybeStartAttach(u).guard
            /\ Kept(u, MaybeStartAttach(u))
         \/ /\ ~(u.want /\ u.sib /\ u.rach = "IDLE" /\ u.rrc = "IDLE")
            /\ MaybeStartAttach(u) = u
  BY DEF MaybeStartAttach, StartConnection, RrcSend, UplinkSend, StartRach, UeState, Kept

\* RrcUe::force_idle touches RRC alone.
LEMMA RrcIdleEffect ==
  ASSUME NEW u \in UeState
  PROVE  /\ RrcForceIdle(u) \in UeState /\ RrcForceIdle(u).rrc = "IDLE"
         /\ Kept(u, RrcForceIdle(u)) /\ RrcForceIdle(u).rach = u.rach
         /\ RrcForceIdle(u).crnti = u.crnti /\ RrcForceIdle(u).guard = u.guard
<1>1. [u EXCEPT !.rrc = "IDLE", !.resume_id = 0] \in UeState
  BY Zeros, ZenonT(40) DEF UeState
<1> QED  BY <1>1 DEF RrcForceIdle, UeState, Kept

\* NasUe::force_deregistered leaves random access, RRC and the guards alone.
LEMMA DeregisteredEffect ==
  ASSUME NEW u \in UeState
  PROVE  /\ ForceDeregistered(u) \in UeState /\ ForceDeregistered(u).nas = "DEREGISTERED"
         /\ ForceDeregistered(u).want = u.want /\ ForceDeregistered(u).sib = u.sib
         /\ ForceDeregistered(u).resumeGuard = u.resumeGuard
         /\ ForceDeregistered(u).resumeTimers = u.resumeTimers
         /\ ForceDeregistered(u).rach = u.rach /\ ForceDeregistered(u).rrc = u.rrc
         /\ ForceDeregistered(u).crnti = u.crnti /\ ForceDeregistered(u).guard = u.guard
<1>1. [u EXCEPT !.nas = "DEREGISTERED", !.tmsi = 0, !.auth = "NO"] \in UeState
  BY Zeros, ZenonT(40) DEF UeState
<1> QED  BY <1>1 DEF ForceDeregistered, UeState

\* An attach that starts from idle state machines is guarded.
LEMMA FreshStart ==
  ASSUME NEW w \in UeState, w.want, w.rach = "IDLE", w.rrc = "IDLE",
         w.crnti # 0 => w.sib, w.resumeGuard => w.resumeTimers > 0,
         w.nas # "DEREGISTERED" => w.resumeGuard
  PROVE  Guarded(MaybeStartAttach(w))
<1> DEFINE x == MaybeStartAttach(w)
<1>1. CASE w.sib
  <2>1. /\ x.rach = "WAIT_RAR" /\ x.crnti = 0 /\ x.rrc = "CONNECTING" /\ x.guard
        /\ Kept(w, x)
    BY <1>1, MaybeStartAttachEffect
  <2> HIDE DEF x
  <2>2. Guarded(x)
    BY <1>1, <2>1 DEF Guarded, Kept, UeState
  <2> QED  BY <2>2 DEF x
<1>2. CASE ~w.sib
  BY <1>2, SMTT(30) DEF MaybeStartAttach, Guarded, UeState, Registered
<1> QED  BY <1>1, <1>2

\* What the user does.
LEMMA UserGuarded ==
  ASSUME NEW u, NEW r \in Nat, UeSound(u, r), Guarded(u)
  PROVE  /\ Guarded(Attach(u)) /\ Guarded(Detach(u)) /\ Guarded(Sleep(u)) /\ Guarded(Wake(u))
         /\ Guarded(SendAppData(u)) /\ Guarded(PumpAppBearers(u))
<1>0. u \in UeState
  BY Zenon DEF UeSound
<1> USE <1>0 DEF Guarded, UeState, Registered
<1>1. Guarded(Attach(u))
  BY SMTT(30) DEF Attach, MaybeStartAttach, StartConnection, RrcSend, UplinkSend, StartRach
<1>2. ASSUME NEW v \in UeState, Guarded(v)  PROVE Guarded(Wake(v))
  <2> DEFINE w == [v EXCEPT !.pending = [type |-> "RESUME_REQUEST", id |-> v.resume_id],
                            !.rrc = "CONNECTING"]
             x == RachForceIdle(w)
             y == IF x.resumeGuard THEN x
                  ELSE [x EXCEPT !.resumeGuard = TRUE, !.resumeTimers = @ + 1]
  <2>1. w \in UeState
    BY <1>2, ZenonT(40) DEF Pdu, CcchUp
  <2>2. CASE v.rrc = "INACTIVE"
    <3>1. /\ w.rrc = "CONNECTING" /\ w.rach = v.rach /\ w.crnti = v.crnti
          /\ w.guard = v.guard /\ Kept(v, w)
      BY <1>2 DEF Kept
    <3> HIDE DEF w
    <3>2. /\ x \in UeState /\ x.rach = "IDLE" /\ x.rrc = "CONNECTING" /\ x.crnti = v.crnti
          /\ x.guard = v.guard /\ Kept(v, x)
      <4> HIDE DEF Guarded, UeState, Registered
      <4> QED  BY <2>1, <3>1, RachIdleEffect DEF Kept
    <3> HIDE DEF x
    <3>3. /\ y \in UeState /\ y.rach = "IDLE" /\ y.rrc = "CONNECTING" /\ y.crnti = v.crnti
          /\ y.guard = v.guard /\ y.nas = v.nas /\ y.want = v.want /\ y.sib = v.sib
          /\ y.resumeGuard /\ y.resumeTimers > 0
      <4>1. x.resumeTimers + 1 \in Nat /\ x.resumeTimers + 1 > 0
        BY <3>2
      <4>2. CASE x.resumeGuard
        BY <1>2, <3>2, <4>2 DEF Kept
      <4>3. CASE ~x.resumeGuard
        BY <3>2, <4>1, <4>3, ZenonT(40) DEF Kept
      <4> HIDE DEF Guarded, UeState, Registered
      <4> QED  BY <4>2, <4>3
    <3> HIDE DEF y
    <3>4. /\ StartRach(y).rach = "WAIT_RAR" /\ StartRach(y).crnti = 0
          /\ Kept(y, StartRach(y)) /\ StartRach(y).rrc = "CONNECTING"
          /\ StartRach(y).guard = v.guard
      <4> HIDE DEF Guarded, UeState, Registered
      <4> QED  BY <3>3, StartRachEffect
    <3>5. Wake(v) = StartRach(y)
      BY <2>2, SMTT(30) DEF Wake, w, x, y
    <3> DEFINE z == StartRach(y)
    <3> HIDE DEF z
    <3>6. Guarded(z)
      BY <1>2, <2>2, <3>3, <3>4 DEF Kept, z
    <3> HIDE DEF Guarded, UeState, Registered
    <3> QED  BY <3>5, <3>6 DEF z
  <2>3. CASE v.rrc # "INACTIVE"
    BY <1>2, <2>3 DEF Wake
  <2> HIDE DEF Guarded, UeState, Registered
  <2> QED  BY <2>2, <2>3
<1>3. Guarded(Sleep(u))
  BY DEF Sleep, RrcSend, UplinkSend
<1>4. Guarded(PumpAppBearers(u))
  BY SMTT(30) DEF PumpAppBearers, NasSend, UplinkSend
<1>5. Guarded(Detach(u))
  <2> DEFINE a == [Release(SendDetach(u)) EXCEPT !.crnti = 0]
             b == RachForceIdle(a)
             c == [b EXCEPT !.pending = NoPdu, !.want = FALSE, !.app = 0, !.sec = 0]
  <2>1. CASE Registered(u) /\ u.rrc = "INACTIVE"
    <3>1. [u EXCEPT !.detachAfter = TRUE] \in UeState
      OBVIOUS
    <3>2. Guarded([u EXCEPT !.detachAfter = TRUE])
      OBVIOUS
    <3> HIDE DEF Guarded, UeState, Registered
    <3> QED  BY <1>2, <2>1, <3>1, <3>2 DEF Detach
  <2>2. CASE Registered(u) /\ u.rrc # "INACTIVE"
    <3>1. a \in UeState
      <4>1. Release(SendDetach(u)) \in UeState
        BY UserSound DEF UeSound
      <4> HIDE DEF Release
      <4> QED  BY <4>1, Zeros, ZenonT(40)
    <3>2. /\ a.rrc = (IF u.rrc = "CONNECTED" THEN "IDLE" ELSE u.rrc) /\ a.crnti = 0
          /\ a.guard = u.guard /\ a.nas = "DEREGISTERED" /\ a.sib = u.sib
          /\ a.resumeGuard = u.resumeGuard /\ a.resumeTimers = u.resumeTimers
      BY SMTT(30) DEF SendDetach, Release, NasSend, RrcSend, UplinkSend
    <3> HIDE DEF a
    <3>3. /\ b \in UeState /\ b.rach = "IDLE" /\ b.rrc = a.rrc /\ b.crnti = 0
          /\ b.guard = u.guard /\ Kept(a, b)
      <4> HIDE DEF Guarded, UeState, Registered
      <4> QED  BY <3>1, <3>2, RachIdleEffect
    <3> HIDE DEF b
    <3>4. /\ c.rach = "IDLE" /\ c.rrc = a.rrc /\ c.crnti = 0 /\ c.guard = u.guard
          /\ c.nas = "DEREGISTERED" /\ c.sib = u.sib /\ ~c.want
          /\ c.resumeGuard = u.resumeGuard /\ c.resumeTimers = u.resumeTimers
      BY <3>2, <3>3 DEF Kept
    <3>5. Detach(u) = c
      BY <2>2, SMTT(30) DEF Detach, a, b
    <3> HIDE DEF c
    <3>6. Guarded(c)
      BY <2>2, <3>2, <3>4
    <3> HIDE DEF Guarded, UeState, Registered
    <3> QED  BY <3>5, <3>6
  <2>3. CASE ~Registered(u)
    BY <2>3 DEF Detach
  <2> HIDE DEF Guarded, UeState, Registered
  <2> QED  BY <2>1, <2>2, <2>3
<1>6. Guarded(SendAppData(u))
  BY <1>2, SMTT(30) DEF SendAppData
<1> HIDE DEF Guarded, UeState, Registered
<1> QED  BY <1>1, <1>2, <1>3, <1>4, <1>5, <1>6

\* What the timers do.
LEMMA TimerGuarded ==
  ASSUME NEW u, NEW r \in Nat, UeSound(u, r), Guarded(u)
  PROVE  /\ Guarded(AttachGuardFires(u)) /\ Guarded(WindowFires(u))
         /\ Guarded(BackoffFires(u)) /\ (u.retries > 0 => Guarded(RetryFires(u)))
         /\ u.resumeTimers > 0 => Guarded(ResumeGuardFires(u))
<1>0. u \in UeState
  BY DEF UeSound
<1> USE <1>0 DEF Guarded, UeState, Registered
<1>1. Guarded(AttachGuardFires(u))
  <2> DEFINE a == [u EXCEPT !.guard = FALSE]
             b == [a EXCEPT !.want = FALSE, !.guard = FALSE, !.pending = NoPdu]
             c == RachForceIdle(b)
             d == AbortAttach(a)
  <2>1. /\ b \in UeState /\ ~b.want /\ ~b.guard /\ b.resumeGuard = u.resumeGuard
        /\ b.resumeTimers = u.resumeTimers
    BY Zeros, ZenonT(40)
  <2> HIDE DEF b
  <2>2. /\ c \in UeState /\ c.rach = "IDLE" /\ ~c.want /\ ~c.guard
        /\ c.resumeGuard = u.resumeGuard /\ c.resumeTimers = u.resumeTimers
    <3> HIDE DEF Guarded, UeState, Registered
    <3> QED  BY <2>1, RachIdleEffect DEF Kept
  <2> HIDE DEF c
  <2>3. d = [ForceDeregistered([RrcForceIdle(c) EXCEPT !.crnti = 0])
               EXCEPT !.app = 0, !.sec = 0]
    BY DEF AbortAttach, b, c
  <2>4. /\ d.rach = "IDLE" /\ d.rrc = "IDLE" /\ d.nas = "DEREGISTERED" /\ d.crnti = 0
        /\ ~d.want /\ ~d.guard
        /\ d.resumeGuard = u.resumeGuard /\ d.resumeTimers = u.resumeTimers
    <3> DEFINE e == RrcForceIdle(c)
               f == ForceDeregistered([e EXCEPT !.crnti = 0])
    <3>1. /\ e \in UeState /\ e.rach = "IDLE" /\ e.rrc = "IDLE" /\ ~e.want /\ ~e.guard
          /\ e.resumeGuard = u.resumeGuard /\ e.resumeTimers = u.resumeTimers
      <4> HIDE DEF Guarded, UeState, Registered
      <4> QED  BY <2>2, RrcIdleEffect DEF Kept
    <3> HIDE DEF e
    <3> DEFINE g == [e EXCEPT !.crnti = 0]
    <3>2. /\ g \in UeState /\ g.rach = "IDLE" /\ g.rrc = "IDLE" /\ ~g.want /\ ~g.guard
          /\ g.crnti = 0
          /\ g.resumeGuard = u.resumeGuard /\ g.resumeTimers = u.resumeTimers
      BY <3>1, Zeros
    <3> HIDE DEF g
    <3>3. /\ f \in UeState /\ f.rach = "IDLE" /\ f.rrc = "IDLE" /\ ~f.want /\ ~f.guard
          /\ f.nas = "DEREGISTERED" /\ f.crnti = 0
          /\ f.resumeGuard = u.resumeGuard /\ f.resumeTimers = u.resumeTimers
      <4> HIDE DEF Guarded, UeState, Registered
      <4> QED  BY <3>2, DeregisteredEffect DEF g
    <3> HIDE DEF f
    <3>4. d = [f EXCEPT !.app = 0, !.sec = 0]
      BY <2>3 DEF e, f
    <3> HIDE DEF Guarded, d
    <3> QED  BY <3>3, <3>4 DEF UeState
  <2> HIDE DEF d
  <2>5. Guarded(d)
    BY <2>4
  <2>6. CASE Registered(u)
    BY <2>6 DEF AttachGuardFires
  <2> HIDE DEF Guarded, UeState, Registered
  <2> QED  BY <2>5, <2>6 DEF AttachGuardFires, d
<1>2. Guarded(WindowFires(u))
  BY DEF WindowFires, RachToIdle, ScheduleAttachRetry
<1>3. Guarded(BackoffFires(u))
  BY SMTT(30) DEF BackoffFires, OnRarTimeout, RachToIdle, ScheduleAttachRetry
<1>4. ASSUME u.retries > 0  PROVE Guarded(RetryFires(u))
  <2> DEFINE v == [u EXCEPT !.retries = @ - 1]
             w == [RrcForceIdle(v) EXCEPT !.crnti = 0]
  <2>1. CASE u.want /\ ~Registered(u) /\ u.rach = "IDLE"
    <3>1. u.retries - 1 \in Nat
      BY <1>4
    <3>2. v \in UeState /\ v.rach = "IDLE" /\ Kept(u, v)
      BY <2>1, <3>1 DEF Kept
    <3> HIDE DEF v
    <3> DEFINE e == RrcForceIdle(v)
    <3>3. e \in UeState /\ e.rach = "IDLE" /\ e.rrc = "IDLE" /\ Kept(u, e)
      <4> HIDE DEF Guarded, UeState, Registered
      <4> QED  BY <3>2, RrcIdleEffect DEF Kept
    <3> HIDE DEF e
    <3>4. w \in UeState /\ w.rach = "IDLE" /\ w.rrc = "IDLE" /\ w.crnti = 0 /\ Kept(u, w)
      BY <3>3, Zeros DEF Kept, e
    <3> HIDE DEF w
    <3>5. Guarded(MaybeStartAttach(w))
      <4>1. /\ w.want /\ (w.crnti # 0 => w.sib) /\ (w.resumeGuard => w.resumeTimers > 0)
            /\ (w.nas # "DEREGISTERED" => w.resumeGuard)
        BY <2>1, <3>4 DEF Kept
      <4> HIDE DEF Guarded, UeState, Registered
      <4> QED  BY <3>4, <4>1, FreshStart
    <3> HIDE DEF Guarded, UeState, Registered
    <3> QED  BY <2>1, <3>5 DEF RetryFires, v, w, e
  <2>2. CASE ~(u.want /\ ~Registered(u) /\ u.rach = "IDLE")
    BY <2>2, SMTT(30) DEF RetryFires
  <2> HIDE DEF Guarded, UeState, Registered
  <2> QED  BY <2>1, <2>2
<1>5. ASSUME u.resumeTimers > 0  PROVE Guarded(ResumeGuardFires(u))
  <2> DEFINE v == [u EXCEPT !.resumeTimers = @ - 1, !.resumeGuard = FALSE]
  <2>1. CASE ~u.resumeGuard \/ u.rrc = "CONNECTED"
    BY <1>5, <2>1 DEF ResumeGuardFires
  <2>2. CASE u.resumeGuard /\ u.rrc # "CONNECTED"
    <3>1. u.resumeTimers - 1 \in Nat
      BY <1>5
    <3>2. v \in UeState /\ ~v.resumeGuard /\ v.sib = u.sib /\ v.crnti = u.crnti
      BY <3>1, ZenonT(40)
    <3> HIDE DEF v
    <3> DEFINE w == ForceDeregistered(RrcForceIdle(RachForceIdle(v)))
               x == [w EXCEPT !.want = TRUE]
    <3>3. /\ w \in UeState /\ w.rach = "IDLE" /\ w.rrc = "IDLE" /\ w.nas = "DEREGISTERED"
          /\ ~w.resumeGuard /\ w.sib = u.sib /\ w.crnti = u.crnti
      <4> HIDE DEF UeState
      <4> DEFINE a == RachForceIdle(v)
                 b == RrcForceIdle(a)
      <4>1. /\ a \in UeState /\ a.rach = "IDLE"
            /\ ~a.resumeGuard /\ a.sib = u.sib /\ a.crnti = u.crnti
        <5> HIDE DEF Guarded, UeState, Registered
        <5> QED  BY <3>2, RachIdleEffect, SMTT(30) DEF Kept
      <4> HIDE DEF a
      <4>2. /\ b \in UeState /\ b.rach = "IDLE" /\ b.rrc = "IDLE"
            /\ ~b.resumeGuard /\ b.sib = u.sib /\ b.crnti = u.crnti
        <5> HIDE DEF Guarded, UeState, Registered
        <5> QED  BY <4>1, RrcIdleEffect, SMTT(30) DEF Kept
      <4> HIDE DEF b
      <4>3. w = ForceDeregistered(b)
        BY DEF a, b
      <4> HIDE DEF w
      <4> HIDE DEF Guarded, UeState, Registered
      <4> QED  BY <4>2, <4>3, DeregisteredEffect, SMTT(30)
    <3> HIDE DEF w
    <3>4. /\ x \in UeState /\ x.rach = "IDLE" /\ x.rrc = "IDLE" /\ x.nas = "DEREGISTERED"
          /\ ~x.resumeGuard /\ x.sib = u.sib /\ x.crnti = u.crnti /\ x.want
      BY <3>3, ZenonT(40)
    <3> HIDE DEF x
    <3>5. Guarded(MaybeStartAttach(x))
      <4>1. x.crnti # 0 => x.sib
        BY <3>4, SMTT(30)
      <4> HIDE DEF Guarded, UeState, Registered
      <4> QED  BY <3>4, <4>1, FreshStart, SMTT(30)
    <3> HIDE DEF Guarded, UeState, Registered
    <3> QED  BY <2>2, <3>5 DEF ResumeGuardFires, Attach, v, w, x
  <2> HIDE DEF Guarded, UeState, Registered
  <2> QED  BY <2>1, <2>2
<1> HIDE DEF Guarded, UeState, Registered
<1> QED  BY <1>1, <1>2, <1>3, <1>4, <1>5, SMTT(30)

\* What the network's messages do.  A connection comes up only on a C-RNTI.
LEMMA RrcMessageGuarded ==
  ASSUME NEW u, NEW r \in Nat, UeSound(u, r), Guarded(u), NEW m, Sound(m, r),
         m.type \in CcchDown, m.rnti = u.crnti
  PROVE  Guarded(OnRrcMessage(u, m))
<1>0. u \in UeState /\ u.crnti # 0
  BY DEF UeSound, Sound, DataDown
<1> USE <1>0 DEF Guarded, UeState, Registered
<1>1. CASE m.type = "SETUP" /\ u.rrc = "CONNECTING"
  BY <1>1, ZenonT(40) DEF OnRrcMessage, RrcSend, UplinkSend
<1>2. CASE m.type = "SUSPEND"
  BY <1>2 DEF OnRrcMessage
<1>3. CASE m.type = "RESUME_OK" /\ u.rrc = "CONNECTING" /\ u.resume_id # 0
  <2> DEFINE a == [u EXCEPT !.rrc = "CONNECTED", !.resume_id = 0, !.crnti = m.id]
             b == [a EXCEPT !.resumeGuard = FALSE]
             c == PumpAppBearers(b)
             d == [c EXCEPT !.detachAfter = FALSE]
  <2>1. m.id \in 0 .. MaxCrnti
    BY <1>3 DEF Sound
  <2>2. b \in UeState /\ b.out = u.out /\ b.sqn = u.sqn
    BY <2>1, Zeros, ZenonT(40)
  <2>3. Guarded(b)
    BY <1>3
  <2> HIDE DEF b, Guarded
  <2>4. UeSound(b, r)
    BY <2>2 DEF UeSound
  <2>5. UeSound(c, r) /\ Guarded(c)
    BY <2>3, <2>4, UserSound, UserGuarded, SMTT(30)
  <2> HIDE DEF c
  <2>6. c \in UeState
    BY <2>5 DEF UeSound
  <2>7. d \in UeState /\ d.out = c.out /\ d.sqn = c.sqn
    BY <2>6, ZenonT(40)
  <2>8. Guarded(d)
    BY <2>5, <2>6 DEF Guarded
  <2> HIDE DEF d
  <2>9. UeSound(d, r)
    BY <2>5, <2>7 DEF UeSound
  <2>10. Guarded(Detach(d))
    BY <2>8, <2>9, UserGuarded
  <2> HIDE DEF Guarded, UeState, Registered
  <2> QED  BY <1>3, <2>5, <2>10 DEF OnRrcMessage, Resumed, b, c, d
<1>4. CASE m.type = "RESUME_FAILURE" /\ u.rrc = "CONNECTING"
  <2> DEFINE a == [u EXCEPT !.rrc = "IDLE", !.resume_id = 0]
             b == [a EXCEPT !.resumeGuard = FALSE, !.crnti = 0]
             c == ForceDeregistered(RachForceIdle(b))
             x == [c EXCEPT !.want = TRUE]
  <2>1. b \in UeState /\ ~b.resumeGuard /\ b.crnti = 0 /\ b.rrc = "IDLE"
    BY Zeros, ZenonT(40)
  <2> HIDE DEF b
  <2>2. /\ c \in UeState /\ ~c.resumeGuard /\ c.crnti = 0 /\ c.rach = "IDLE"
        /\ c.nas = "DEREGISTERED" /\ c.rrc = "IDLE"
    <3> DEFINE k == RachForceIdle(b)
    <3>1. /\ k \in UeState /\ ~k.resumeGuard /\ k.crnti = 0 /\ k.rach = "IDLE"
          /\ k.rrc = "IDLE"
      <4> HIDE DEF Guarded, UeState, Registered
      <4> QED  BY <2>1, RachIdleEffect DEF Kept
    <3> HIDE DEF k
    <3>2. c = ForceDeregistered(k)
      BY DEF k
    <3> HIDE DEF c
    <3> HIDE DEF Guarded, UeState, Registered
    <3> QED  BY <3>1, <3>2, DeregisteredEffect, SMTT(30)
  <2> HIDE DEF c
  <2>3. /\ x \in UeState /\ ~x.resumeGuard /\ x.crnti = 0 /\ x.rach = "IDLE"
        /\ x.nas = "DEREGISTERED" /\ x.want /\ x.rrc = "IDLE"
    <3> HIDE DEF Guarded, Registered
    <3>1. x \in UeState
      BY <2>2, ZenonT(90)
    <3>2. x.resumeGuard = c.resumeGuard /\ x.crnti = c.crnti /\ x.rach = c.rach
      BY <2>2
    <3>3. x.nas = c.nas /\ x.want /\ x.rrc = c.rrc
      BY <2>2
    <3> HIDE DEF x, UeState
    <3> HIDE DEF Guarded, UeState, Registered
    <3> QED  BY <2>2, <3>1, <3>2, <3>3
  <2> HIDE DEF x
  <2>4. Guarded(MaybeStartAttach(x))
    BY <2>3, FreshStart
  <2> HIDE DEF Guarded, UeState, Registered
  <2> QED  BY <1>4, <2>4 DEF OnRrcMessage, ResumeRefused, Attach, b, c, x
<1> HIDE DEF Guarded, UeState
<1>5. \/ m.type = "SETUP" /\ u.rrc = "CONNECTING"
      \/ m.type = "SUSPEND"
      \/ m.type = "RESUME_OK" /\ u.rrc = "CONNECTING" /\ u.resume_id # 0
      \/ m.type = "RESUME_FAILURE" /\ u.rrc = "CONNECTING"
      \/ OnRrcMessage(u, m) = u
  BY DEF OnRrcMessage
<1> HIDE DEF Guarded, UeState, Registered
<1> QED  BY <1>1, <1>2, <1>3, <1>4, <1>5

\* What is received and heard keeps the waits guarded.
LEMMA ReceiveGuarded ==
  ASSUME NEW u, NEW r \in Nat, UeSound(u, r), Guarded(u)
  PROVE  /\ \A m : Sound(m, r) => Guarded(UeHandle(u, m))
         /\ Guarded(HearSystemInfo(u)) /\ Guarded(HearPage(u))
<1>0. u \in UeState
  BY DEF UeSound
<1> USE <1>0
<1>1. Guarded(OnRar(u))
  BY DEF OnRar, Guarded, UeState, Registered
<1>2. ASSUME NEW c  PROVE Guarded(OnContentionResolve(u, c))
  BY DEF OnContentionResolve, Guarded, UeState, Registered
<1>3. ASSUME NEW m, Sound(m, r), m.type \in CcchDown, m.rnti = u.crnti
      PROVE  Guarded(HandleCcch(u, m))
  <2> DEFINE v == OnRrcMessage(u, m)
  <2>1. Guarded(v)
    BY <1>3, RrcMessageGuarded
  <2>2. v \in UeState
    BY <1>3, CcchSound DEF UeSound
  <2> HIDE DEF v
  <2>3. ASSUME v.nas = "DEREGISTERED", v.rrc = "CONNECTED", v.want
        PROVE  Guarded(NasSend([v EXCEPT !.nas = "REGISTERING", !.auth = "NO"],
                               "ATTACH_REQUEST", 0, 0))
    BY <2>1, <2>2, <2>3 DEF Guarded, NasSend, UplinkSend, UeState, Registered
  <2> QED  BY <2>1, <2>3 DEF HandleCcch, v
<1>4. ASSUME NEW m, Sound(m, r), m.type \in NasDown  PROVE Guarded(HandleNas(u, m))
  <2> DEFINE v == OnNasMessage(u, m)
  <2>1. Guarded(v)
    <3> USE DEF Guarded, UeState, Registered
    <3>1. CASE u.nas # "REGISTERING"
      BY <3>1, SMTT(30) DEF OnNasMessage
    <3>2. CASE u.nas = "REGISTERING" /\ m.type = "AUTH_REQUEST"
      <4>1. m.sqn <= u.sqn \/ m.sqn > u.sqn
        BY <1>4, SignallingConstants DEF Sound, Frame, Key
      <4>2. CASE m.sqn <= u.sqn
        BY <3>2, <4>2 DEF OnNasMessage, NasSend, UplinkSend
      <4>3. CASE ~(m.sqn <= u.sqn) /\ m.sqn > u.sqn
        BY <3>2, <4>3 DEF OnNasMessage, NasSend, UplinkSend
      <4> QED  BY <4>1, <4>2, <4>3
    <3>3. CASE u.nas = "REGISTERING" /\ m.type = "ATTACH_ACCEPT"
      BY <3>3, ZenonT(40) DEF OnNasMessage
    <3>4. CASE u.nas = "REGISTERING" /\ m.type = "ATTACH_REJECT"
      BY <3>4 DEF OnNasMessage
    <3> QED  BY <1>4, <3>1, <3>2, <3>3, <3>4 DEF NasDown
  <2>2. v \in UeState
    BY <1>4, NasSound DEF UeSound
  <2> HIDE DEF v
  <2>3. Guarded([v EXCEPT !.sec = v.skey])
    BY <2>1, <2>2 DEF Guarded, UeState, Registered
  <2> QED  BY <2>1, <2>3, SMTT(30) DEF HandleNas, v
<1>5. ASSUME NEW m, Sound(m, r)  PROVE Guarded(UeHandle(u, m))
  BY <1>1, <1>2, <1>3, <1>4, <1>5, SMTT(30) DEF UeHandle
<1>6. Guarded(HearSystemInfo(u))
  BY DEF HearSystemInfo, MaybeStartAttach, StartConnection, RrcSend, UplinkSend, StartRach,
     Guarded, UeState, Registered
<1>7. Guarded(HearPage(u))
  BY UserGuarded DEF HearPage
<1> QED  BY <1>5, <1>6, <1>7

-----------------------------------------------------------------------------
(* The cell: every handler keeps BsSound and Parked *)

CellOk(b) == BsSound(b) /\ Parked(b)

\* What the cell sends is sound.
LEMMA BsSendSound ==
  ASSUME NEW b, CellOk(b), NEW type \in Downlink, NEW c \in 0 .. MaxCrnti,
         NEW key \in Key, NEW id \in Nat, NEW sqn \in Key, sqn <= b.rands,
         type \in DataDown => c # 0,
         type \in {"MSG4", "RESUME_OK"} => id \in 0 .. MaxCrnti,
         type = "SUSPEND" => id \in ResumeId,
         type = "AUTH_REQUEST" => id \in Key,
         type = "ATTACH_ACCEPT" => id \in 0 .. MaxTmsi
  PROVE  CellOk(BsSend(b, type, c, key, id, sqn))
<1> DEFINE m == NewFrame(type, c, key, id, sqn)
<1>1. m \in Frame
  BY Zeros, SMTT(30) DEF NewFrame, Frame
<1>2. Sound(m, b.rands)
  <2>1. type \notin DataUp
    BY DEF Downlink, RachDown, DataDown, CcchDown, NasDown, DataUp, CcchUp, NasUp
  <2> QED  BY <1>1, <2>1 DEF Sound, NewFrame
<1> HIDE DEF m
<1> DEFINE v == [b EXCEPT !.out = @ \cup {m}]
<1>3. BsSound(v)
  BY <1>1, <1>2, SMTT(30) DEF CellOk, BsSound, BsState
<1>4. Parked(v)
  BY DEF CellOk, BsSound, BsState, Parked
<1> QED  BY <1>3, <1>4 DEF BsSend, CellOk, m

\* The RRC handlers.
LEMMA RrcCellOk ==
  ASSUME NEW b, CellOk(b), NEW c \in Crnti
  PROVE  /\ CellOk(SetupRequest(b, c)) /\ CellOk(SetupComplete(b, c))
         /\ b.resumes < MaxSuspend => CellOk(SuspendContext(b, c))
         /\ CellOk([b EXCEPT !.ctx[c].st = "IDLE"])
<1>0. /\ c \in 0 .. MaxCrnti /\ c # 0 /\ c \in Nat /\ b \in BsState /\ b.rands \in Nat
      /\ 0 <= b.rands
  BY SignallingConstants, SMTT(30) DEF Crnti, CellOk, BsSound, BsState, Key
<1> USE <1>0, Zeros
<1>1. ASSUME NEW st \in {"CONNECTING", "CONNECTED", "IDLE"}, NEW rid \in ResumeId
      PROVE  CellOk([b EXCEPT !.ctx[c] = [st |-> st, rid |-> rid]])
  BY DEF CellOk, BsSound, BsState, Parked
<1>2. CellOk(SetupRequest(b, c))
  <2> DEFINE v == [b EXCEPT !.ctx[c] = [st |-> "CONNECTING", rid |-> 0]]
  <2>1. CellOk(v) /\ v.rands = b.rands
    BY <1>1 DEF BsState
  <2> HIDE DEF v
  <2>2. CellOk(BsSend(v, "SETUP", c, 0, c, 0))
    BY <2>1, BsSendSound DEF Downlink, DataDown, CcchDown
  <2> QED  BY <2>2 DEF SetupRequest, v
<1>3. ASSUME NEW st \in {"CONNECTED", "IDLE"}  PROVE CellOk([b EXCEPT !.ctx[c].st = st])
  <2>1. b.ctx[c].rid \in ResumeId
    BY DEF BsState
  <2>2. [b.ctx[c] EXCEPT !.st = st] = [st |-> st, rid |-> b.ctx[c].rid]
    BY DEF BsState
  <2>3. [b EXCEPT !.ctx[c].st = st] = [b EXCEPT !.ctx[c] = [st |-> st, rid |-> b.ctx[c].rid]]
    BY <2>2
  <2> QED  BY <1>1, <2>1, <2>3
<1>4. ASSUME b.resumes < MaxSuspend  PROVE CellOk(SuspendContext(b, c))
  <2> DEFINE id == b.resumes + 1
             v == [b EXCEPT !.ctx[c] = [st |-> "INACTIVE", rid |-> id], !.resumes = id,
                            !.flow[c].suspended = TRUE]
  <2>1. id \in ResumeId /\ id \in Nat
    BY <1>4, SignallingConstants DEF BsState, ResumeId
  <2> HIDE DEF id
  <2>2. CellOk(v) /\ v.rands = b.rands
    <3> DEFINE ctx == [b.ctx EXCEPT ![c] = [st |-> "INACTIVE", rid |-> id]]
               flow == [b.flow EXCEPT ![c] = [@ EXCEPT !.suspended = TRUE]]
    <3>1. [b.flow[c] EXCEPT !.suspended = TRUE] \in [suspended : BOOLEAN, key : Key, act : BOOLEAN]
      BY ZenonT(40) DEF BsState
    <3>2. /\ ctx \in [Crnti -> [st : {"NONE", "CONNECTING", "CONNECTED", "INACTIVE", "IDLE"},
                                rid : ResumeId]]
          /\ flow \in [Crnti -> [suspended : BOOLEAN, key : Key, act : BOOLEAN]]
      BY <2>1, <3>1 DEF BsState
    <3>3. flow[c].suspended /\ \A d \in Crnti : d # c => ctx[d] = b.ctx[d] /\ flow[d] = b.flow[d]
      BY DEF BsState
    <3>4. v = [b EXCEPT !.ctx = ctx, !.resumes = id, !.flow = flow]
      OBVIOUS
    <3> HIDE DEF ctx, flow, v
    <3>5. /\ v \in BsState /\ v.rands = b.rands /\ v.sqn = b.sqn /\ v.out = b.out
          /\ v.ctx = ctx /\ v.flow = flow
      BY <2>1, <3>2, <3>4 DEF BsState
    <3>6. BsSound(v)
      BY <3>5 DEF CellOk, BsSound
    <3>7. Parked(v)
      BY <3>3, <3>5 DEF CellOk, Parked
    <3> QED  BY <3>5, <3>6, <3>7 DEF CellOk
  <2> HIDE DEF v
  <2>3. CellOk(BsSend(v, "SUSPEND", c, 0, id, 0))
    BY <2>1, <2>2, BsSendSound DEF Downlink, DataDown, CcchDown
  <2> QED  BY <2>3 DEF SuspendContext, v, id
<1> QED  BY <1>2, <1>3, <1>4 DEF SetupComplete

\* A resume moves the flow and routes one TMSI to the new C-RNTI.
LEMMA ResumeCellOk ==
  ASSUME NEW b, CellOk(b), NEW c \in Crnti, NEW id, NEW order
  PROVE  CellOk(ResumeRequest(b, c, id, order))
<1>0. /\ c \in 0 .. MaxCrnti /\ c # 0 /\ c \in Nat /\ b \in BsState /\ b.rands \in Nat
      /\ 0 <= b.rands
  BY SignallingConstants, SMTT(30) DEF Crnti, CellOk, BsSound, BsState, Key
<1> USE <1>0, Zeros
<1> DEFINE kept == {o \in Crnti : b.ctx[o].st = "INACTIVE" /\ b.ctx[o].rid = id}
           old == CHOOSE o \in kept : TRUE
<1>1. CASE kept = {}
  <2>1. CellOk(BsSend(b, "RESUME_FAILURE", c, 0, 0, 0))
    BY BsSendSound DEF Downlink, DataDown, CcchDown
  <2> QED  BY <1>1, <2>1 DEF ResumeRequest
<1>2. CASE kept # {}
  <2> DEFINE a == [b EXCEPT !.ctx[old] = NoCtx, !.ctx[c] = [st |-> "CONNECTED", rid |-> 0]]
             v == MoveDataPath(a, old, c, order)
  <2>1. old \in Crnti
    BY <1>2
  <2> HIDE DEF old
  <2>2. a \in BsState /\ a.flow = b.flow /\ a.rands = b.rands /\ a.sqn = b.sqn /\ a.out = b.out
    BY <2>1 DEF BsState, NoCtx
  <2>3. /\ a.ctx[c].st = "CONNECTED" /\ (old # c => a.ctx[old].st = "NONE")
        /\ \A d \in Crnti : d # c /\ d # old => a.ctx[d] = b.ctx[d]
    BY <2>1 DEF BsState, NoCtx
  <2> HIDE DEF a
  <2>4. /\ v \in BsState /\ v.rands = a.rands /\ v.sqn = a.sqn /\ v.out = a.out /\ v.ctx = a.ctx
        /\ \A d \in Crnti : d # c /\ d # old => v.flow[d] = a.flow[d]
    <3> DEFINE f == [d \in Crnti |->
                  IF d = c THEN [a.flow[old] EXCEPT !.suspended = FALSE, !.act = TRUE]
                  ELSE IF d = old THEN NoFlow ELSE a.flow[d]]
               t2c == [t \in Tmsi |-> IF MappedTo(a, old) # {} /\ t = First(MappedTo(a, old), order)
                                      THEN c ELSE a.t2c[t]]
    <3>1. f \in [Crnti -> [suspended : BOOLEAN, key : Key, act : BOOLEAN]]
      <4>1. a.flow \in [Crnti -> [suspended : BOOLEAN, key : Key, act : BOOLEAN]]
        BY <2>2 DEF BsState
      <4>2. [a.flow[old] EXCEPT !.suspended = FALSE, !.act = TRUE]
              \in [suspended : BOOLEAN, key : Key, act : BOOLEAN]
        BY <2>1, <4>1
      <4>3. NoFlow \in [suspended : BOOLEAN, key : Key, act : BOOLEAN]
        BY DEF NoFlow
      <4> QED  BY <4>1, <4>2, <4>3
    <3>2. t2c \in [Tmsi -> 0 .. MaxCrnti]
      BY <2>2 DEF BsState
    <3>3. v = [a EXCEPT !.flow = f, !.t2c = t2c]
      BY DEF MoveDataPath
    <3>4. \A d \in Crnti : d # c /\ d # old => f[d] = a.flow[d]
      OBVIOUS
    <3> HIDE DEF f, t2c, v
    <3> QED  BY <2>2, <3>1, <3>2, <3>3, <3>4 DEF BsState
  <2> HIDE DEF v
  <2>5. CellOk(v)
    <3>1. BsSound(v)
      BY <2>2, <2>4 DEF CellOk, BsSound
    <3>2. Parked(v)
      BY <2>2, <2>3, <2>4 DEF CellOk, Parked
    <3> QED  BY <3>1, <3>2 DEF CellOk
  <2>6. CellOk(BsSend(v, "RESUME_OK", c, 0, c, 0))
    BY <2>2, <2>4, <2>5, BsSendSound DEF Downlink, DataDown, CcchDown
  <2> QED  BY <1>2, <2>6 DEF ResumeRequest, a, v, old
<1> QED  BY <1>1, <1>2

\* RrcBs::handle_message, and random access.
LEMMA OnRrcCellOk ==
  ASSUME NEW b, CellOk(b), NEW c \in Crnti, NEW pdu, pdu.type \in CcchUp, NEW order,
         pdu.type = "SUSPEND_REQUEST" => b.resumes < MaxSuspend
  PROVE  CellOk(OnRrc(b, c, pdu, order))
  BY RrcCellOk, ResumeCellOk DEF OnRrc, CcchUp

\* RachBs and the MSG3 path of BsNode keep the cell sound.
LEMMA RachCellOk ==
  ASSUME NEW b, CellOk(b), NEW m \in Frame, NEW order
  PROVE  /\ CellOk(OnPrach(b))
         /\ /\ b.crntis < MaxCrnti
            /\ m.ccch.type = "SUSPEND_REQUEST" => b.resumes < MaxSuspend
            => CellOk(OnMsg3(b, m, order))
<1>0. b \in BsState /\ b.rands \in Nat /\ 0 <= b.rands
  BY SignallingConstants DEF CellOk, BsSound, BsState, Key
<1> USE <1>0, Zeros
<1>1. CellOk(OnPrach(b))
  <2> DEFINE v == [b EXCEPT !.known = TRUE]
  <2>1. CellOk(v) /\ v.rands = b.rands
    BY DEF CellOk, BsSound, BsState, Parked
  <2> HIDE DEF v
  <2>2. CellOk(BsSend(v, "RAR", 0, 0, 0, 0))
    BY <2>1, BsSendSound DEF Downlink, RachDown, DataDown, CcchDown, NasDown
  <2> QED  BY <2>2 DEF OnPrach, v
<1>2. ASSUME b.crntis < MaxCrnti, m.ccch.type = "SUSPEND_REQUEST" => b.resumes < MaxSuspend
      PROVE  CellOk(OnMsg3(b, m, order))
  <2> DEFINE c == b.crntis + 1
             v == [b EXCEPT !.crntis = c]
             w == BsSend(v, "MSG4", 0, 0, c, 0)
  <2>1. c \in Crnti /\ c \in 0 .. MaxCrnti /\ c \in Nat
    BY <1>2, SignallingConstants DEF BsState, Crnti
  <2> HIDE DEF c
  <2>2. CellOk(v) /\ v.rands = b.rands /\ v.resumes = b.resumes /\ v \in BsState
    BY <2>1 DEF CellOk, BsSound, BsState, Parked
  <2> HIDE DEF v
  <2>3. CellOk(w)
    BY <2>1, <2>2, BsSendSound DEF Downlink, RachDown, DataDown, CcchDown, NasDown
  <2>4. w.resumes = b.resumes
    BY <2>2 DEF BsSend, BsState
  <2> HIDE DEF w
  <2>5. CASE m.ccch # NoPdu
    <3>1. m.ccch.type \in CcchUp
      BY <2>5 DEF Frame, Pdu
    <3>2. CellOk(OnRrc(w, c, m.ccch, order))
      BY <1>2, <2>1, <2>3, <2>4, <3>1, OnRrcCellOk
    <3> QED  BY <3>2 DEF OnMsg3, c, v, w
  <2>6. CASE m.ccch = NoPdu
    BY <2>6, SMTT(30) DEF OnMsg3
  <2> QED  BY <2>5, <2>6
<1> QED  BY <1>1, <1>2

\* The NAS downlink: routing and security change, parking does not.
LEMMA NasDownlinkCellOk ==
  ASSUME NEW b, CellOk(b), NEW ul \in Crnti, NEW t \in Tmsi, NEW type \in NasDown,
         NEW id \in Nat, NEW sqn \in Key, sqn <= b.rands,
         type = "AUTH_REQUEST" => id \in Key,
         type = "ATTACH_ACCEPT" => id \in 0 .. MaxTmsi
  PROVE  CellOk(NasDownlink(b, ul, t, type, id, sqn))
<1>0. b \in BsState
  BY DEF CellOk, BsSound
<1> USE <1>0
<1> DEFINE c == IF b.t2c[t] # 0 THEN b.t2c[t] ELSE ul
           a == [b EXCEPT !.t2c[t] = c]
           v == BsSend(a, type, c, b.flow[c].key, id, sqn)
<1>1. c \in Crnti /\ c \in 0 .. MaxCrnti /\ c # 0
  BY SignallingConstants DEF BsState, Crnti
<1> HIDE DEF c
<1>2. CellOk(a) /\ a.rands = b.rands /\ a \in BsState
  BY <1>1 DEF CellOk, BsSound, BsState, Parked
<1>3. a.flow = b.flow /\ b.flow[c].key \in Key
  BY <1>1 DEF BsState
<1> HIDE DEF a
<1>4. CellOk(v)
  <2>1. type \in Downlink /\ type \in DataDown /\ type \notin {"MSG4", "RESUME_OK", "SUSPEND"}
    BY DEF Downlink, DataDown, NasDown
  <2> QED  BY <1>1, <1>2, <1>3, <2>1, BsSendSound
<1> HIDE DEF v
<1>5. CellOk([v EXCEPT !.flow[c].key = b.keys[t]])
  <2> DEFINE flow == [v.flow EXCEPT ![c] = [@ EXCEPT !.key = b.keys[t]]]
             w == [v EXCEPT !.flow = flow]
  <2>0. v \in BsState /\ b.keys[t] \in Key
    BY <1>4 DEF CellOk, BsSound, BsState
  <2>1. v.flow[c] \in [suspended : BOOLEAN, key : Key, act : BOOLEAN]
    BY <1>1, <2>0 DEF BsState
  <2>2. /\ [v.flow[c] EXCEPT !.key = b.keys[t]] \in [suspended : BOOLEAN, key : Key, act : BOOLEAN]
        /\ [v.flow[c] EXCEPT !.key = b.keys[t]].suspended = v.flow[c].suspended
    BY <2>0, <2>1
  <2>3. /\ flow \in [Crnti -> [suspended : BOOLEAN, key : Key, act : BOOLEAN]]
        /\ \A d \in Crnti : flow[d].suspended = v.flow[d].suspended
    BY <2>0, <2>2 DEF BsState
  <2> HIDE DEF flow
  <2>4. /\ w \in BsState /\ w.rands = v.rands /\ w.sqn = v.sqn /\ w.out = v.out
        /\ w.ctx = v.ctx /\ w.flow = flow
    BY <2>0, <2>3 DEF BsState
  <2>5. w = [v EXCEPT !.flow[c].key = b.keys[t]]
    BY DEF flow
  <2> HIDE DEF w
  <2>6. CellOk(w)
    BY <1>4, <2>3, <2>4 DEF CellOk, BsSound, Parked
  <2> QED  BY <2>5, <2>6
<1> QED  BY <1>4, <1>5 DEF NasDownlink, a, v, c

\* The NAS handlers.  A context that handles NAS content is not INACTIVE.
LEMMA ChallengeCellOk ==
  ASSUME NEW b, CellOk(b), NEW ul \in Crnti, NEW t \in Tmsi, b.rands < MaxChallenge
  PROVE  CellOk(SendChallenge(b, ul, t))
<1> DEFINE n == b.rands + 1
           v == [b EXCEPT !.rands = @ + 1, !.sqn = @ + 1, !.pend[t] = b.rands + 1]
<1>0. b \in BsState
  BY DEF CellOk, BsSound
<1>1. /\ n \in Key /\ n \in Nat /\ b.sqn + 1 \in Key /\ b.sqn + 1 <= n
      /\ \A x \in Key : x <= b.rands => x <= n
  BY <1>0, SignallingConstants DEF CellOk, BsSound, BsState, Key
<1>2. \A m \in b.out : Sound(m, n)
  <2>1. \A m : Sound(m, b.rands) => m.sqn \in Key
    BY DEF Sound, Frame
  <2> QED  BY <1>1, <2>1 DEF CellOk, BsSound, Sound
<1> HIDE DEF n
<1> DEFINE sqn == b.sqn + 1
           w == [b EXCEPT !.rands = n, !.sqn = sqn, !.pend[t] = n]
<1>3. v = w
  BY DEF n
<1> HIDE DEF sqn
<1>4. /\ w \in BsState /\ w.rands = n /\ w.sqn = sqn /\ w.out = b.out /\ w.ctx = b.ctx
      /\ w.flow = b.flow
  BY <1>0, <1>1 DEF BsState, sqn
<1> HIDE DEF w
<1>5. CellOk(w)
  BY <1>1, <1>2, <1>4 DEF CellOk, BsSound, Parked, sqn
<1>6. CellOk(NasDownlink(w, ul, t, "AUTH_REQUEST", n, sqn))
  BY <1>1, <1>4, <1>5, NasDownlinkCellOk DEF NasDown, sqn
<1> QED  BY <1>3, <1>6 DEF SendChallenge, n, sqn

\* Walking a nonempty table finds one of its entries first.
LEMMA FirstIn ==
  ASSUME NEW S \in SUBSET Tmsi, S # {}, NEW order \in Order
  PROVE  First(S, order) \in S
<1> DEFINE T == {order[s] : s \in S}
<1>1. T \in SUBSET Nat /\ T # {}
  <2>1. \A s \in S : order[s] \in Tmsi
    BY DEF Order
  <2>2. Tmsi \subseteq Nat
    BY SignallingConstants DEF Tmsi
  <2> QED  BY <2>1, <2>2
<1>2. \E x \in T : \A y \in T : x <= y
  <2> HIDE DEF T
  <2> QED  BY <1>1, LeastNat
<1>3. \E t \in S : \A s \in S : order[t] <= order[s]
  BY <1>2
<1> QED  BY <1>3 DEF First

\* NasBs's handling of a NAS message on an active context keeps the cell sound.
LEMMA NasCellOk ==
  ASSUME NEW b, CellOk(b), NEW m, Sound(m, b.rands), m.type \in NasUp, NEW order \in Order,
         b.ctx[m.rnti].st # "INACTIVE",
         m.type = "ATTACH_REQUEST" => b.tmsis < MaxTmsi /\ b.rands < MaxChallenge,
         m.type = "AUTH_FAILURE" => b.rands < MaxChallenge
  PROVE  CellOk(OnNas(b, m, order))
<1>0. b \in BsState /\ b.rands \in Nat /\ 0 <= b.rands
  BY SignallingConstants DEF CellOk, BsSound, BsState, Key
<1>1. m.rnti \in Crnti /\ m.sqn \in Key /\ m.sqn <= b.rands
  BY SignallingConstants DEF Sound, Frame, Crnti, DataUp
<1> USE <1>0, <1>1, Zeros
<1> DEFINE ul == m.rnti
<1>2. CASE m.type = "ATTACH_REQUEST"
  <2> DEFINE t == b.tmsis + 1
             v == [b EXCEPT !.tmsis = t]
  <2>1. t \in Tmsi /\ t \in 0 .. MaxTmsi
    BY <1>2, SignallingConstants DEF BsState, Tmsi
  <2> HIDE DEF t
  <2>2. CellOk(v) /\ v.rands = b.rands
    BY <2>1, SMTT(30) DEF CellOk, BsSound, BsState, Parked
  <2> HIDE DEF v
  <2>3. CellOk(SendChallenge(v, ul, t))
    BY <1>2, <2>1, <2>2, ChallengeCellOk, SMTT(30)
  <2> QED  BY <1>2, <2>3 DEF OnNas, AttachRequest, t, v
<1>3. CASE m.type = "AUTH_RESPONSE"
  <2> DEFINE hit == {x \in Pending(b) : b.pend[x] = m.id}
             t == CHOOSE x \in hit : TRUE
             only == {x \in Pending(b) : Pending(b) = {x}}
             d == CHOOSE x \in only : TRUE
  <2>1. CASE hit # {}
    <3>1. t \in Tmsi /\ b.pend[t] = m.id
      BY <2>1 DEF Pending
    <3> HIDE DEF t
    <3>2. m.id \in Key /\ t \in Nat /\ t \in 0 .. MaxTmsi
      BY <3>1, SignallingConstants DEF BsState, Tmsi
    <3> DEFINE v == [b EXCEPT !.pend[t] = 0, !.regs = @ \cup {t}, !.keys[t] = m.id]
    <3>3. CellOk(v) /\ v.rands = b.rands
      BY <3>1, <3>2 DEF CellOk, BsSound, BsState, Parked
    <3> HIDE DEF v
    <3>4. CellOk(NasDownlink(v, ul, t, "ATTACH_ACCEPT", t, 0))
      BY <3>1, <3>2, <3>3, NasDownlinkCellOk DEF NasDown
    <3> QED  BY <1>3, <2>1, <3>4 DEF OnNas, AuthResponse, t, v
  <2>2. CASE hit = {} /\ only # {}
    <3>1. d \in Tmsi
      BY <2>2 DEF Pending
    <3> HIDE DEF d
    <3>2. d \in Nat
      BY <3>1, SignallingConstants DEF Tmsi
    <3> DEFINE v == NasDownlink(b, ul, d, "ATTACH_REJECT", d, 0)
    <3>3. CellOk(v)
      BY <3>1, <3>2, NasDownlinkCellOk DEF NasDown
    <3> HIDE DEF v
    <3>4. CellOk([v EXCEPT !.pend[d] = 0])
      BY <3>1, <3>3 DEF CellOk, BsSound, BsState, Parked
    <3> QED  BY <1>3, <2>2, <3>4 DEF OnNas, AuthResponse, d, v
  <2>3. CASE hit = {} /\ only = {}
    BY <1>3, <2>3 DEF OnNas, AuthResponse
  <2> QED  BY <2>1, <2>2, <2>3
<1>4. CASE m.type = "AUTH_FAILURE"
  <2> DEFINE t == First(Pending(b), order)
             v == [b EXCEPT !.sqn = m.sqn]
  <2>1. CASE Pending(b) = {}
    BY <1>4, <2>1 DEF OnNas, AuthFailure
  <2>2. CASE Pending(b) # {}
    <3>1. t \in Tmsi
      BY <2>2, FirstIn DEF Pending
    <3> HIDE DEF t
    <3>2. CellOk(v) /\ v.rands = b.rands
      BY SMTT(30) DEF CellOk, BsSound, BsState, Parked
    <3> HIDE DEF v
    <3>3. CellOk(SendChallenge(v, ul, t))
      BY <1>4, <3>1, <3>2, ChallengeCellOk
    <3>4. CellOk([b EXCEPT !.pend[t] = 0])
      BY <3>1 DEF CellOk, BsSound, BsState, Parked
    <3> QED  BY <1>4, <2>2, <3>3, <3>4 DEF OnNas, AuthFailure, t, v
  <2> QED  BY <2>1, <2>2
<1>5. CASE m.type = "DETACH"
  <2> DEFINE flow == [b.flow EXCEPT ![ul] = NoFlow]
             t2c == [s \in Tmsi |-> IF b.t2c[s] = ul THEN 0 ELSE b.t2c[s]]
             v == [b EXCEPT !.regs = @ \ {m.id}, !.flow[ul] = NoFlow, !.t2c = t2c]
  <2>1. NoFlow \in [suspended : BOOLEAN, key : Key, act : BOOLEAN]
    BY DEF NoFlow
  <2>2. /\ flow \in [Crnti -> [suspended : BOOLEAN, key : Key, act : BOOLEAN]]
        /\ t2c \in [Tmsi -> 0 .. MaxCrnti] /\ \A c \in Crnti \ {ul} : flow[c] = b.flow[c]
    BY <2>1 DEF BsState
  <2>3. v = [b EXCEPT !.regs = @ \ {m.id}, !.flow = flow, !.t2c = t2c]
    OBVIOUS
  <2> HIDE DEF flow, t2c, v
  <2>4. /\ v \in BsState /\ v.rands = b.rands /\ v.sqn = b.sqn /\ v.out = b.out
        /\ v.ctx = b.ctx /\ v.flow = flow
    BY <2>2, <2>3 DEF BsState
  <2>5. CellOk(v)
    BY <2>2, <2>4 DEF CellOk, BsSound, Parked
  <2> QED  BY <1>5, <2>5 DEF OnNas, DetachRequest, v, t2c
<1> QED  BY <1>2, <1>3, <1>4, <1>5 DEF NasUp

\* Content un-parks a flow together with its context.
LEMMA ActivityCellOk ==
  ASSUME NEW b, CellOk(b), NEW c \in Crnti
  PROVE  /\ CellOk(Activity(b, c)) /\ Activity(b, c).ctx[c].st # "INACTIVE"
         /\ Activity(b, c).rands = b.rands /\ Activity(b, c).tmsis = b.tmsis
<1>0. b \in BsState
  BY DEF CellOk, BsSound
<1> DEFINE g == [b.flow[c] EXCEPT !.act = TRUE, !.suspended = FALSE]
           flow == [b.flow EXCEPT ![c] = g]
           ctx == IF b.flow[c].suspended /\ b.ctx[c].st = "INACTIVE"
                  THEN [b.ctx EXCEPT ![c] = [st |-> "CONNECTED", rid |-> 0]] ELSE b.ctx
           v == [b EXCEPT !.flow = flow, !.ctx = ctx]
<1>1. g \in [suspended : BOOLEAN, key : Key, act : BOOLEAN]
  BY <1>0, ZenonT(40) DEF BsState
<1> HIDE DEF g
<1>2. /\ flow \in [Crnti -> [suspended : BOOLEAN, key : Key, act : BOOLEAN]]
      /\ \A d \in Crnti \ {c} : flow[d] = b.flow[d]
  BY <1>0, <1>1 DEF BsState
<1>3. ctx \in [Crnti -> [st : {"NONE", "CONNECTING", "CONNECTED", "INACTIVE", "IDLE"},
                         rid : ResumeId]]
  BY <1>0, Zeros DEF BsState
<1>4. ctx[c].st # "INACTIVE" /\ \A d \in Crnti \ {c} : ctx[d] = b.ctx[d]
  BY <1>0 DEF BsState, CellOk, Parked
<1>5. Activity(b, c) = v
  BY <1>0 DEF Activity, ReactivateContext, BsState, g
<1> HIDE DEF flow, ctx
<1>6. /\ v \in BsState /\ v.rands = b.rands /\ v.sqn = b.sqn /\ v.out = b.out
      /\ v.tmsis = b.tmsis /\ v.ctx = ctx /\ v.flow = flow
  BY <1>0, <1>2, <1>3 DEF BsState
<1> HIDE DEF v
<1>7. CellOk(v)
  BY <1>2, <1>4, <1>6 DEF CellOk, BsSound, Parked
<1> QED  BY <1>4, <1>5, <1>6, <1>7

\* Every uplink frame.
LEMMA BsHandleCellOk ==
  ASSUME CellOk(bs), NEW m, Sound(m, bs.rands), m.type \in Uplink, NEW order \in Order,
         InBounds(m)
  PROVE  CellOk(BsHandle(bs, m, order))
<1>0. m \in Frame
  BY DEF Sound
<1>1. CASE m.type = "MSG1"
  BY <1>0, <1>1, RachCellOk DEF BsHandle
<1>2. CASE m.type = "MSG3"
  BY <1>0, <1>2, RachCellOk DEF BsHandle, InBounds, RachUp
<1>3. CASE m.type \in DataUp
  <2>1. m.rnti \in Crnti
    BY <1>0, <1>3, SignallingConstants DEF Sound, Frame, Crnti
  <2>2. CASE m.type \in CcchUp
    <3> DEFINE pdu == [type |-> m.type, id |-> m.id]
    <3>1. pdu.type \in CcchUp /\ (pdu.type = "SUSPEND_REQUEST" => bs.resumes < MaxSuspend)
      BY <2>2 DEF InBounds
    <3> HIDE DEF pdu
    <3>2. CellOk(OnRrc(bs, m.rnti, pdu, order))
      BY <2>1, <3>1, OnRrcCellOk, SMTT(30)
    <3>3. CellOk(OnUplinkData(bs, m, order))
      BY <2>2, <3>2 DEF OnUplinkData, pdu
    <3> QED  BY <1>3, <3>3 DEF BsHandle, DataUp, CcchUp, NasUp
  <2>3. CASE m.type \in NasUp \cup {"APP"}
    <3> DEFINE v == Activity(bs, m.rnti)
    <3>1. /\ CellOk(v) /\ v.ctx[m.rnti].st # "INACTIVE" /\ v.rands = bs.rands
          /\ v.tmsis = bs.tmsis
      BY <2>1, ActivityCellOk
    <3> HIDE DEF v
    <3>2. m.type \in NasUp => CellOk(OnNas(v, m, order))
      <4>1. /\ m.type = "ATTACH_REQUEST" => v.tmsis < MaxTmsi /\ v.rands < MaxChallenge
            /\ m.type = "AUTH_FAILURE" => v.rands < MaxChallenge
        BY <3>1 DEF InBounds
      <4>2. Sound(m, v.rands)
        BY <3>1, SMTT(30)
      <4> QED  BY <3>1, <4>1, <4>2, NasCellOk
    <3>3. CellOk(OnContent(bs, m, order))
      BY <2>3, <3>1, <3>2, SMTT(30) DEF OnContent, v
    <3>4. CellOk(OnUplinkData(bs, m, order))
      BY <2>3, <3>3 DEF OnUplinkData, CcchUp, NasUp
    <3> QED  BY <1>3, <3>4 DEF BsHandle, DataUp, CcchUp, NasUp
  <2> QED  BY <1>3, <2>2, <2>3 DEF DataUp
<1> QED  BY <1>1, <1>2, <1>3 DEF Uplink, RachUp

\* Expiry drops context and flow together.
LEMMA ExpireCellOk ==
  ASSUME NEW b, CellOk(b), NEW c \in Crnti, NEW order
  PROVE  CellOk(Expire(b, c, order)) /\ Expire(b, c, order).rands = b.rands
<1>0. b \in BsState
  BY SMTT(30) DEF CellOk, BsSound
<1> USE Zeros
<1> DEFINE ctx == [b.ctx EXCEPT ![c] = NoCtx]
           flow == [b.flow EXCEPT ![c] = NoFlow]
           t2c == [t \in Tmsi |-> IF MappedTo(b, c) # {} /\ t = First(MappedTo(b, c), order)
                                  THEN 0 ELSE b.t2c[t]]
           v == [b EXCEPT !.ctx = ctx, !.flow = flow, !.t2c = t2c]
<1>1. /\ ctx \in [Crnti -> [st : {"NONE", "CONNECTING", "CONNECTED", "INACTIVE", "IDLE"},
                            rid : ResumeId]]
      /\ flow \in [Crnti -> [suspended : BOOLEAN, key : Key, act : BOOLEAN]]
      /\ t2c \in [Tmsi -> 0 .. MaxCrnti]
  BY <1>0 DEF BsState, NoCtx, NoFlow
<1>2. /\ ctx[c].st # "INACTIVE"
      /\ \A d \in Crnti \ {c} : ctx[d] = b.ctx[d] /\ flow[d] = b.flow[d]
  BY <1>0 DEF BsState, NoCtx
<1>3. Expire(b, c, order) = v
  BY DEF Expire
<1> HIDE DEF ctx, flow, t2c
<1>4. /\ v \in BsState /\ v.rands = b.rands /\ v.sqn = b.sqn /\ v.out = b.out
      /\ v.ctx = ctx /\ v.flow = flow
  BY <1>0, <1>1 DEF BsState
<1> HIDE DEF v
<1>5. CellOk(v)
  BY <1>2, <1>4 DEF CellOk, BsSound, Parked
<1> QED  BY <1>3, <1>4, <1>5

\* v has drawn n challenges.
Rands(v, n) == "rands" \in DOMAIN v /\ v.rands = n

\* An uplink message makes NasBs draw at most one challenge, and takes none back.
LEMMA RandsGrow ==
  ASSUME NEW b \in BsState, NEW m \in Frame, m.type \in Uplink, NEW order
  PROVE  BsHandle(b, m, order).rands \in {b.rands, b.rands + 1}
<1>0. Rands(b, b.rands)
  BY DEF BsState, Rands
<1>1. ASSUME NEW v, NEW n, Rands(v, n), NEW c, NEW pdu, pdu.type \in CcchUp
      PROVE  Rands(OnRrc(v, c, pdu, order), n)
  <2>1. Rands(SetupRequest(v, c), n) /\ Rands(SetupComplete(v, c), n)
    BY <1>1 DEF Rands, SetupRequest, SetupComplete, BsSend
  <2>2. Rands(SuspendContext(v, c), n) /\ Rands([v EXCEPT !.ctx[c].st = "IDLE"], n)
    BY <1>1 DEF Rands, SuspendContext, BsSend
  <2>3. Rands(ResumeRequest(v, c, pdu.id, order), n)
    BY <1>1 DEF Rands, ResumeRequest, MoveDataPath, BsSend
  <2> QED  BY <1>1, <2>1, <2>2, <2>3 DEF OnRrc, CcchUp
<1>2. ASSUME NEW v, NEW n, Rands(v, n), NEW ul, NEW t, NEW type, NEW id, NEW sqn
      PROVE  Rands(NasDownlink(v, ul, t, type, id, sqn), n)
  BY <1>2 DEF Rands, NasDownlink, BsSend
<1>3. ASSUME NEW v, NEW n, Rands(v, n), NEW ul, NEW t
      PROVE  Rands(SendChallenge(v, ul, t), n + 1)
  <2>1. Rands([v EXCEPT !.rands = @ + 1, !.sqn = @ + 1, !.pend[t] = v.rands + 1], n + 1)
    BY <1>3 DEF Rands
  <2> QED  BY <1>2, <2>1 DEF SendChallenge
<1>4. ASSUME NEW v, NEW n, Rands(v, n), m.type \in NasUp
      PROVE  Rands(OnNas(v, m, order), n) \/ Rands(OnNas(v, m, order), n + 1)
  <2>1. CASE m.type = "ATTACH_REQUEST"
    <3>1. Rands([v EXCEPT !.tmsis = @ + 1], n)
      BY <1>4 DEF Rands
    <3> QED  BY <1>3, <2>1, <3>1 DEF OnNas, AttachRequest
  <2>2. CASE m.type = "AUTH_RESPONSE"
    <3>1. ASSUME NEW t  PROVE Rands([v EXCEPT !.pend[t] = 0, !.regs = @ \cup {t}, !.keys[t] = m.id], n)
      BY <1>4 DEF Rands
    <3>2. ASSUME NEW d
          PROVE  Rands([NasDownlink(v, m.rnti, d, "ATTACH_REJECT", d, 0) EXCEPT !.pend[d] = 0], n)
      <4>1. Rands(NasDownlink(v, m.rnti, d, "ATTACH_REJECT", d, 0), n)
        BY <1>2, <1>4, SMTT(30)
      <4> QED  BY <4>1 DEF Rands
    <3>3. Rands(AuthResponse(v, m.rnti, m.id), n)
      BY <1>2, <1>4, <3>1, <3>2 DEF AuthResponse
    <3> QED  BY <2>2, <3>3 DEF OnNas
  <2>3. CASE m.type = "AUTH_FAILURE"
    <3>1. Rands([v EXCEPT !.sqn = m.sqn], n) /\ \A t : Rands([v EXCEPT !.pend[t] = 0], n)
      BY <1>4 DEF Rands
    <3> QED  BY <1>3, <1>4, <2>3, <3>1 DEF OnNas, AuthFailure
  <2>4. CASE m.type = "DETACH"
    BY <1>4, <2>4, ZenonT(40) DEF OnNas, DetachRequest, Rands
  <2> QED  BY <1>4, <2>1, <2>2, <2>3, <2>4 DEF NasUp
<1>5. Rands(OnPrach(b), b.rands)
  BY <1>0 DEF OnPrach, BsSend, Rands
<1>6. Rands(OnMsg3(b, m, order), b.rands)
  <2>1. Rands(BsSend([b EXCEPT !.crntis = b.crntis + 1], "MSG4", 0, 0, b.crntis + 1, 0), b.rands)
    BY <1>0 DEF BsSend, Rands
  <2>2. m.ccch # NoPdu => m.ccch.type \in CcchUp
    BY DEF Frame, Pdu
  <2> QED  BY <1>0, <1>1, <2>1, <2>2 DEF OnMsg3
<1>7. ASSUME m.type \in DataUp
      PROVE  \/ Rands(OnUplinkData(b, m, order), b.rands)
             \/ Rands(OnUplinkData(b, m, order), b.rands + 1)
  <2>1. CASE m.type \in CcchUp
    <3> DEFINE pdu == [type |-> m.type, id |-> m.id]
    <3>1. Rands(OnRrc(b, m.rnti, pdu, order), b.rands)
      BY <1>0, <1>1, <2>1, SMTT(30)
    <3> QED  BY <1>0, <2>1, <3>1 DEF OnUplinkData
  <2>2. CASE m.type \in NasUp \cup {"APP"}
    <3> DEFINE v == Activity(b, m.rnti)
    <3>1. Rands(v, b.rands)
      BY <1>0 DEF Activity, ReactivateContext, Rands
    <3> HIDE DEF v
    <3>2. m.type \in NasUp =>
            Rands(OnNas(v, m, order), b.rands) \/ Rands(OnNas(v, m, order), b.rands + 1)
      BY <1>4, <3>1
    <3>3. OnContent(b, m, order) = v \/ (m.type \in NasUp /\ OnContent(b, m, order) = OnNas(v, m, order))
      BY <2>2 DEF OnContent, v
    <3>4. m.type \notin CcchUp
      BY <2>2 DEF CcchUp, NasUp
    <3> QED  BY <1>0, <3>1, <3>2, <3>3, <3>4 DEF OnUplinkData
  <2> QED  BY <1>7, <2>1, <2>2, SMTT(30) DEF DataUp
<1> QED
  <2>1. CASE m.type = "MSG1"
    BY <1>5, <2>1 DEF BsHandle, Rands
  <2>2. CASE m.type = "MSG3"
    BY <1>6, <2>2 DEF BsHandle, Rands
  <2>3. CASE m.type \in DataUp
    <3>1. BsHandle(b, m, order) = OnUplinkData(b, m, order)
      BY <2>3 DEF BsHandle, DataUp, CcchUp, NasUp
    <3> QED  BY <1>7, <2>3, <3>1 DEF Rands
  <2> QED  BY <2>1, <2>2, <2>3 DEF Uplink, RachUp

-----------------------------------------------------------------------------
(* The composition *)

\* Frames are only ever lost on the link.
LEMMA CarriedSubset ==
  ASSUME NEW frames, NEW a \in Carried(frames)
  PROVE  a \subseteq frames
  BY DEF Carried, kSubset

\* Soundness of a frame is kept when more challenges are drawn.
LEMMA SoundLonger ==
  ASSUME NEW m, NEW r \in Nat, NEW n \in Nat, r <= n, Sound(m, r)
  PROVE  Sound(m, n)
<1>1. m.sqn \in Nat
  BY SignallingConstants DEF Sound, Frame, Key
<1> QED  BY <1>1 DEF Sound

\* A step of the UE alone keeps the invariant.
LEMMA UeStepInv ==
  ASSUME IInv, NEW v, UeSound(v, bs.rands), Guarded(v), ue' = [v EXCEPT !.out = {}],
         air' \subseteq air \cup v.out, bs' = bs,
         dups' \in 0 .. MaxDup, expired' \in 0 .. MaxExpire
  PROVE  IInv'
<1>1. v \in UeState
  BY DEF UeSound
<1>2. ue' \in UeState /\ ue'.out = {} /\ ue'.sqn = v.sqn
  BY <1>1 DEF UeState
<1>3. Guarded(ue')
  BY <1>1 DEF Guarded, UeState, Registered
<1>4. UeSound(ue', bs.rands)
  BY <1>2 DEF UeSound
<1>5. \A m \in air' : Sound(m, bs.rands)
  BY DEF IInv, UeSound
<1>6. air' \subseteq Frame
  BY <1>5 DEF Sound
<1>7. TypeOK'
  BY <1>2, <1>6 DEF IInv, TypeOK
<1> QED  BY <1>3, <1>4, <1>5, <1>7 DEF IInv

\* A step of the cell alone keeps the invariant.
LEMMA BsStepInv ==
  ASSUME IInv, NEW v, CellOk(v), v.rands >= bs.rands, BsStep(v),
         air' \subseteq air \cup v.out, ue' = ue,
         dups' \in 0 .. MaxDup, expired' \in 0 .. MaxExpire
  PROVE  IInv'
<1>1. v \in BsState /\ v.rands \in Nat /\ bs.rands \in Nat
  BY SignallingConstants DEF CellOk, BsSound, BsState, IInv, Key
<1>2. /\ bs' \in BsState /\ bs'.out = {} /\ bs'.sqn = v.sqn /\ bs'.rands = v.rands
      /\ bs'.ctx = v.ctx /\ bs'.flow = v.flow
  BY <1>1 DEF BsState, BsStep
<1>3. BsSound(bs') /\ Parked(bs')
  BY <1>2 DEF BsSound, CellOk, Parked
<1>4. UeSound(ue', bs'.rands)
  <2>1. ue.sqn \in Nat
    BY SignallingConstants, SMTT(30) DEF IInv, UeSound, UeState, Key
  <2>2. ue.sqn <= bs.rands /\ ue \in UeState /\ ue.out = {}
    BY DEF IInv, UeSound, TypeOK
  <2> QED  BY <1>1, <1>2, <2>1, <2>2 DEF UeSound
<1>5. \A m \in air' : Sound(m, bs'.rands)
  <2>1. \A m \in v.out : Sound(m, v.rands)
    BY SMTT(30) DEF CellOk, BsSound
  <2>2. \A m \in air : Sound(m, v.rands)
    BY <1>1, SoundLonger DEF IInv
  <2> QED  BY <1>2, <2>1, <2>2
<1>6. air' \subseteq Frame
  BY <1>5 DEF Sound
<1>7. TypeOK'
  BY <1>2, <1>6 DEF IInv, TypeOK
<1> QED  BY <1>3, <1>4, <1>5, <1>7, SMTT(30) DEF IInv

\* The invariant holds initially.
LEMMA InvInit == Init => IInv
<1>0. 0 \in Nat /\ {} \in SUBSET Frame /\ {} \in SUBSET Tmsi
  OBVIOUS
<1>1. UeInit \in UeState
  BY <1>0, Zeros, ZenonT(40) DEF UeInit, UeState
<1>2. /\ UeInit.rach = "IDLE" /\ UeInit.rrc = "IDLE" /\ UeInit.nas = "DEREGISTERED"
      /\ UeInit.resumeGuard = FALSE /\ UeInit.want = FALSE /\ UeInit.crnti = 0
      /\ UeInit.out = {} /\ UeInit.sqn = 0
  BY DEF UeInit
<1>3. Guarded(UeInit)
  BY <1>2 DEF Guarded
<1>4. /\ [c \in Crnti |-> NoCtx] \in
             [Crnti -> [st : {"NONE", "CONNECTING", "CONNECTED", "INACTIVE", "IDLE"}, rid : ResumeId]]
      /\ [c \in Crnti |-> NoFlow] \in [Crnti -> [suspended : BOOLEAN, key : Key, act : BOOLEAN]]
      /\ [t \in Tmsi |-> 0] \in [Tmsi -> 0 .. MaxCrnti] /\ [t \in Tmsi |-> 0] \in [Tmsi -> Key]
  BY Zeros DEF NoCtx, NoFlow
<1>5. BsInit \in BsState
  BY <1>0, <1>4, Zeros, ZenonT(40) DEF BsInit, BsState
<1>6. /\ BsInit.out = {} /\ BsInit.sqn = 0 /\ BsInit.rands = 0
      /\ BsInit.ctx = [c \in Crnti |-> NoCtx]
  BY DEF BsInit
<1>7. Parked(BsInit)
  BY <1>6 DEF Parked, NoCtx
<1>8. UeSound(UeInit, 0) /\ BsSound(BsInit)
  BY <1>1, <1>2, <1>5, <1>6 DEF UeSound, BsSound
<1>9. 0 \in 0 .. MaxDup /\ 0 \in 0 .. MaxExpire
  BY ConnectionConstants
<1> QED  BY <1>1, <1>2, <1>3, <1>5, <1>6, <1>7, <1>8, <1>9 DEF Init, IInv, TypeOK

\* Every step keeps the invariant.
LEMMA InvNext == IInv /\ [Next]_vars => IInv'
<1> SUFFICES ASSUME IInv, [Next]_vars  PROVE IInv'
  BY SMTT(30)
<1>0. /\ bs.rands \in Nat /\ UeSound(ue, bs.rands) /\ Guarded(ue) /\ CellOk(bs)
      /\ dups \in 0 .. MaxDup /\ expired \in 0 .. MaxExpire /\ ue \in UeState
  <2>1. /\ UeSound(ue, bs.rands) /\ Guarded(ue) /\ CellOk(bs) /\ bs \in BsState
        /\ dups \in 0 .. MaxDup /\ expired \in 0 .. MaxExpire /\ ue \in UeState
    BY DEF IInv, TypeOK, CellOk
  <2>2. bs.rands \in Key
    BY <2>1 DEF BsState
  <2> QED  BY <2>1, <2>2, SignallingConstants DEF Key
<1>1. ASSUME NEW v, UeSound(v, bs.rands), Guarded(v), UeStep(v)  PROVE IInv'
  BY <1>0, <1>1, CarriedSubset, UeStepInv DEF UeStep
<1>2. CASE DoAttach
  BY <1>0, <1>1, <1>2, AttachSound, UserGuarded DEF DoAttach
<1>3. CASE DoDetach
  BY <1>0, <1>1, <1>3, UserSound, UserGuarded DEF DoDetach
<1>4. CASE DoSleep
  BY <1>0, <1>1, <1>4, UserSound, UserGuarded DEF DoSleep
<1>5. CASE DoWake
  BY <1>0, <1>1, <1>5, AttachSound, UserGuarded DEF DoWake
<1>6. CASE DoSendAppData
  BY <1>0, <1>1, <1>6, UserSound, UserGuarded DEF DoSendAppData
<1>7. CASE DoPump
  BY <1>0, <1>1, <1>7, UserSound, UserGuarded DEF DoPump
<1>8. CASE DoSystemInfo
  BY <1>0, <1>1, <1>8, ReceiveSound, ReceiveGuarded DEF DoSystemInfo
<1>9. CASE DoPage
  <2> DEFINE v == HearSystemInfo(ue)
  <2>1. UeSound(v, bs.rands) /\ Guarded(v)
    BY <1>0, ReceiveSound, ReceiveGuarded
  <2> HIDE DEF v
  <2>2. UeSound(HearPage(v), bs.rands) /\ Guarded(HearPage(v))
    BY <1>0, <2>1, ReceiveSound, ReceiveGuarded, SMTT(30)
  <2> QED  BY <1>1, <1>9, <2>2 DEF DoPage, v
<1>10. CASE AttachGuard \/ RachWindow \/ Backoff \/ Retry \/ ResumeGuard
  BY <1>0, <1>1, <1>10, TimerSound, TimerGuarded
     DEF AttachGuard, RachWindow, Backoff, Retry, ResumeGuard
<1>11. ASSUME NEW m, NEW again, Taken(m, again)  PROVE dups' \in 0 .. MaxDup
  BY <1>0, <1>11, ConnectionConstants DEF Taken
<1>12. ASSUME NEW m \in air, NEW again \in BOOLEAN, UeReceive(m, again)  PROVE IInv'
  <2> DEFINE v == UeHandle(ue, m)
  <2>1. UeSound(v, bs.rands) /\ Guarded(v)
    BY <1>0, ReceiveSound, ReceiveGuarded DEF IInv
  <2> HIDE DEF v
  <2>2. /\ ue' = [v EXCEPT !.out = {}] /\ air' \in Carried(Left(m, again) \cup v.out)
        /\ bs' = bs /\ expired' = expired
    BY <1>12 DEF UeReceive, v
  <2>3. air' \subseteq air \cup v.out
    <3>1. air' \subseteq Left(m, again) \cup v.out
      BY <2>2, CarriedSubset
    <3> QED  BY <3>1 DEF Left
  <2>4. dups' \in 0 .. MaxDup
    BY <1>11, <1>12 DEF UeReceive
  <2> QED  BY <1>0, <2>1, <2>2, <2>3, <2>4, UeStepInv, SMTT(30)
<1>13. ASSUME NEW m \in air, NEW again \in BOOLEAN, BsReceive(m, again)  PROVE IInv'
  <2>1. PICK order \in Order : /\ BsStep(BsHandle(bs, m, order))
                               /\ air' \in Carried(Left(m, again) \cup BsHandle(bs, m, order).out)
    BY <1>13 DEF BsReceive
  <2> DEFINE v == BsHandle(bs, m, order)
  <2>2. m.type \in Uplink /\ InBounds(m) /\ Sound(m, bs.rands) /\ m \in Frame /\ bs \in BsState
    BY <1>13 DEF BsReceive, IInv, Sound, BsSound
  <2>3. CellOk(v)
    BY <1>0, <2>2, BsHandleCellOk
  <2>4. v.rands \in {bs.rands, bs.rands + 1}
    BY <2>2, RandsGrow, SMTT(30)
  <2>5. air' \subseteq air \cup v.out
    <3>1. air' \subseteq Left(m, again) \cup v.out
      BY <2>1, CarriedSubset
    <3> QED  BY <3>1 DEF Left
  <2>6. dups' \in 0 .. MaxDup /\ ue' = ue /\ expired' = expired
    BY <1>11, <1>13 DEF BsReceive
  <2>7. BsStep(v)
    BY <2>1
  <2> HIDE DEF v
  <2>8. v.rands >= bs.rands
    BY <1>0, <2>4, SMTT(30)
  <2> QED  BY <1>0, <2>3, <2>5, <2>6, <2>7, <2>8, BsStepInv, SMTT(30)
<1>14. ASSUME NEW c \in Crnti, SweepSuspend(c)  PROVE IInv'
  <2> DEFINE v == SuspendContext(bs, c)
  <2>1. CellOk(v)
    BY <1>0, <1>14, RrcCellOk DEF SweepSuspend
  <2>2. v.rands = bs.rands
    BY DEF SuspendContext, BsSend, IInv, BsSound, BsState
  <2>3. BsStep(v) /\ air' \in Carried(air \cup v.out) /\ UNCHANGED <<ue, dups, expired>>
    BY <1>14 DEF SweepSuspend
  <2> HIDE DEF v
  <2>4. air' \subseteq air \cup v.out /\ v.rands >= bs.rands
    BY <1>0, <2>2, <2>3, CarriedSubset
  <2> QED  BY <1>0, <2>1, <2>3, <2>4, BsStepInv
<1>15. ASSUME NEW c \in Crnti, SweepExpire(c)  PROVE IInv'
  <2>1. PICK order \in Order : BsStep(Expire(bs, c, order))
    BY <1>15 DEF SweepExpire
  <2> DEFINE v == Expire(bs, c, order)
  <2>2. CellOk(v) /\ v.rands = bs.rands /\ BsStep(v)
    BY <1>0, <2>1, ExpireCellOk
  <2>3. UNCHANGED <<ue, air, dups>> /\ expired' \in 0 .. MaxExpire
    BY <1>0, <1>15, ConnectionConstants DEF SweepExpire
  <2> HIDE DEF v
  <2>4. v.rands >= bs.rands
    BY <1>0, <2>2, SMTT(30)
  <2> QED  BY <1>0, <2>2, <2>3, <2>4, BsStepInv
<1>16. CASE UNCHANGED vars
  BY <1>16 DEF vars, IInv, TypeOK, UeSound, Guarded, Registered, BsSound, Parked
<1> QED
  BY <1>2, <1>3, <1>4, <1>5, <1>6, <1>7, <1>8, <1>9, <1>10, <1>12, <1>13, <1>14, <1>15, <1>16, SMTT(30)
     DEF Next, UeNext, UserNext, Deliver, Sweep

\* The signalling state is always within its types and bounds.
THEOREM ConnectionTypes == Spec => []TypeOK
<1>1. IInv => TypeOK
  BY DEF IInv
<1> QED  BY <1>1, InvInit, InvNext, PTL DEF Spec

\* RrcBs and BsNode agree for ever: an INACTIVE context has a parked flow.
THEOREM InactiveIsParked == Spec => []InactiveParked
<1>1. IInv => InactiveParked
  BY DEF IInv, Parked, InactiveParked
<1> QED  BY <1>1, InvInit, InvNext, PTL DEF Spec

\* No wait of UeNode is without a guard timer, however many frames are lost,
\* delayed, duplicated or reordered.
THEOREM WaitsAreGuarded == Spec => []WaitGuarded
<1>1. IInv => WaitGuarded
  BY DEF IInv, Guarded, WaitGuarded
<1> QED  BY <1>1, InvInit, InvNext, PTL DEF Spec
=============================================================================
