----------------------------- MODULE Connection ------------------------------
(* One UE and its cell on a radio link that delays, loses, duplicates and    *)
(* reorders frames.  A frame that is never delivered is a frame lost.        *)
EXTENDS UeControl, BsControl, FiniteSetsExt

CONSTANTS MaxDup,      \* bound: data frames delivered twice
          MaxExpire,   \* bound: suspended contexts the cell drops
          MaxAir,      \* bound: frames in flight
          MaxTimers    \* bound: one-shot UE timers of a kind pending at once

ASSUME ConnectionConstants ==
  MaxDup \in Nat /\ MaxExpire \in Nat /\ MaxAir \in Nat /\ MaxTimers \in Nat

VARIABLES ue, bs, air, dups, expired

vars == <<ue, bs, air, dups, expired>>

TypeOK ==
  /\ ue \in UeState /\ bs \in BsState /\ ue.out = {} /\ bs.out = {}
  /\ air \subseteq Frame /\ dups \in 0 .. MaxDup /\ expired \in 0 .. MaxExpire

Init == ue = UeInit /\ bs = BsInit /\ air = {} /\ dups = 0 /\ expired = 0

\* The radio link loses what it has no room for.
Carried(frames) ==
  IF Cardinality(frames) <= MaxAir THEN {frames} ELSE kSubset(MaxAir, frames)

\* The UE takes a step: v is its state with the frames to send in out.  A
\* retry or backoff (at most 300 ms) fires before many more can be armed.
InTime(v) == v.backoffs <= MaxTimers /\ v.retries <= MaxTimers
UeStep(v) ==
  /\ InTime(v) /\ ue' = [v EXCEPT !.out = {}] /\ air' \in Carried(air \cup v.out)
  /\ UNCHANGED <<bs, dups, expired>>

DoAttach == ~ue.want /\ bs.crntis < MaxCrnti /\ UeStep(Attach(ue))
DoDetach == Registered(ue) /\ ~ue.detachAfter /\ UeStep(Detach(ue))
DoSleep == UeStep(Sleep(ue))
DoWake == UeStep(Wake(ue))
DoSendAppData == ue.app < MaxApp /\ UeStep(SendAppData(ue))
DoPump == ue.app > 0 /\ UeStep(PumpAppBearers(ue))
DoSystemInfo == UeStep(HearSystemInfo(ue))
\* A paging record rides along with the system information.
DoPage == bs.crntis < MaxCrnti /\ UeStep(HearPage(HearSystemInfo(ue)))

AttachGuard == ue.guard /\ UeStep(AttachGuardFires(ue))
RachWindow == ue.window /\ UeStep(WindowFires(ue))
Backoff == ue.backoffs > 0 /\ UeStep(BackoffFires(ue))
Retry == ue.retries > 0 /\ UeStep(RetryFires(ue))
ResumeGuard == ue.resumeTimers > 0 /\ UeStep(ResumeGuardFires(ue))

\* A delivered frame leaves the air, unless HARQ delivers it a second time
\* because the feedback was lost.  Random access runs without HARQ.
Taken(m, again) ==
  /\ again => m.type \in DataUp \cup DataDown /\ dups < MaxDup
  /\ dups' = IF again THEN dups + 1 ELSE dups
Left(m, again) == IF again THEN air ELSE air \ {m}

UeReceive(m, again) ==
  /\ m.type \in Downlink /\ Taken(m, again)
  /\ LET v == UeHandle(ue, m)
     IN  InTime(v) /\ ue' = [v EXCEPT !.out = {}] /\ air' \in Carried(Left(m, again) \cup v.out)
  /\ UNCHANGED <<bs, expired>>

BsStep(v) == bs' = [v EXCEPT !.out = {}]

\* Nothing is handed out beyond the bounds.
InBounds(m) ==
  /\ m.type \in RachUp => bs.crntis < MaxCrnti
  /\ m.type = "ATTACH_REQUEST" => bs.tmsis < MaxTmsi /\ bs.rands < MaxChallenge
  /\ m.type = "AUTH_FAILURE" => bs.rands < MaxChallenge
  /\ "SUSPEND_REQUEST" \in {m.type, m.ccch.type} => bs.resumes < MaxSuspend

BsReceive(m, again) ==
  /\ m.type \in Uplink /\ InBounds(m) /\ Taken(m, again)
  /\ \E order \in Order :
       LET v == BsHandle(bs, m, order)
       IN  BsStep(v) /\ air' \in Carried(Left(m, again) \cup v.out)
  /\ UNCHANGED <<ue, expired>>

SweepSuspend(c) ==
  /\ Quiet(bs, c) /\ bs.resumes < MaxSuspend
  /\ LET v == SuspendContext(bs, c) IN BsStep(v) /\ air' \in Carried(air \cup v.out)
  /\ UNCHANGED <<ue, dups, expired>>

SweepExpire(c) ==
  /\ bs.flow[c].suspended /\ expired < MaxExpire /\ expired' = expired + 1
  /\ \E order \in Order : BsStep(Expire(bs, c, order))
  /\ UNCHANGED <<ue, air, dups>>

UserNext == DoAttach \/ DoDetach \/ DoSleep \/ DoWake \/ DoSendAppData
UeNext == \/ UserNext \/ DoPump \/ DoSystemInfo \/ DoPage \/ AttachGuard \/ RachWindow
          \/ Backoff \/ Retry \/ ResumeGuard
Deliver == \E m \in air, again \in BOOLEAN : UeReceive(m, again) \/ BsReceive(m, again)
Sweep == \E c \in Crnti : SweepSuspend(c) \/ SweepExpire(c)
Next == UeNext \/ Deliver \/ Sweep

Spec == Init /\ [][Next]_vars

-----------------------------------------------------------------------------
(* What the two sides must agree on *)

\* NasUe's registration is one NasBs holds: the UE never believes in a TMSI
\* whose context the network does not have or has deleted.
RegisteredKnown == Registered(ue) => ue.tmsi \in bs.regs

\* RrcBs and BsNode agree: while a context is INACTIVE, its flow is parked,
\* through suspension, resume, re-activation, detach and expiry.
InactiveParked == \A c \in Crnti : bs.ctx[c].st = "INACTIVE" => bs.flow[c].suspended

Served == Registered(ue) /\ ue.rrc = "CONNECTED"

\* Unless a frame was delivered twice or a context expired, a registered and
\* connected UE and the flow of its C-RNTI hold the same session key, also
\* after a resume moved the flow and after attempts that were cut short.
KeysAgree ==
  dups = 0 /\ expired = 0 /\ Served => bs.flow[ue.crnti].key = ue.sec

\* Unless a frame was delivered twice or the context expired, what the network
\* sends to a connected UE's TMSI goes to the C-RNTI the UE listens on.
RoutedHome == dups = 0 /\ expired = 0 /\ Served => bs.t2c[ue.tmsi] = ue.crnti

\* Whatever frame is lost, a UE that waits is covered by a timer: while an
\* attach is wanted and not done, and while RRC is CONNECTING in a setup or a
\* resume, the attach guard or the resume guard is armed and will end the wait.
WaitGuarded ==
  /\ ue.resumeGuard => ue.resumeTimers > 0
  /\ ue.want /\ ~Registered(ue) /\ ue.sib => ue.guard \/ ue.resumeGuard
  /\ ue.rrc = "CONNECTING" => ue.guard \/ ue.resumeGuard

-----------------------------------------------------------------------------
(* What the code says of itself, and does not do *)

\* A registered UE that was suspended can be resumed, as long as the cell lets
\* no context expire: content from a UE proves that the suspend RELEASE never
\* reached it, so only then is the context re-activated under it.
InactiveResumable ==
  expired = 0 /\ Registered(ue) /\ ue.rrc = "INACTIVE" =>
    \E c \in Crnti : bs.ctx[c].st = "INACTIVE" /\ bs.ctx[c].rid = ue.resume_id

\* After a failed resume the UE attaches afresh: its ATTACH_REQUEST is one the
\* cell, which has no key for the new flow, can read.  Does not hold: the guard
\* of wake() leaves the old key in place.
AttachReadable ==
  \A m \in air : m.type = "ATTACH_REQUEST" => m.key = bs.flow[m.rnti].key
=============================================================================
