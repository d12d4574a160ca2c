-------------------------------- MODULE Calls --------------------------------
(* UEs that call each other through one cell.  Signalling rides the AM       *)
(* bearers, uplink into the cell and downlink to the destination: in order,  *)
(* without duplicates, and lossy only where the receiver skips a hole or the *)
(* cell's unforced hand-over to a full bearer is refused.  Media rides UM:   *)
(* a packet that is never forwarded or never arrives is a packet lost.       *)
EXTENDS UeCalls, ConfBridge

CONSTANTS FirstId,    \* next_call_id_ of each UE: 1, or more after earlier calls
          Hosts,      \* bound: the UEs whose users start conferences
          MaxEvents,  \* bound: calls, media packets, losses and departures together
          MaxSig      \* bound: a user command or a timer finds fewer messages under way

ASSUME CallsConstants ==
  /\ FirstId \in [Ue -> Nat \ {0}] /\ Hosts \subseteq Ue
  /\ MaxEvents \in Nat /\ MaxSig \in Nat

(* up, dl: the signalling under way.   media: media packets under way.       *)
(* known: the UEs with a registration and a flow in the cell.   confs: its   *)
(* conferences.   detaching: UEs whose DETACH is under way.   events:        *)
(* counted against MaxEvents.   clean: nothing was lost and nobody left.    *)
VARIABLES ue, up, dl, media, known, confs, detaching, events, clean

link == <<up, dl, media>>
cell == <<known, confs, detaching>>
bounds == <<events, clean>>
vars == <<ue, link, cell, bounds>>

Init ==
  /\ ue = [u \in Ue |-> [UeCallsInit(u) EXCEPT !.next_id = FirstId[u]]]
  /\ up = [u \in Ue |-> <<>>] /\ dl = [u \in Ue |-> <<>>] /\ media = {}
  /\ known = Ue /\ confs = {} /\ detaching = {}
  /\ events = 0 /\ clean = TRUE

\* UE u's state becomes v, and what v sends enters the uplink.
UeStep(u, v) ==
  /\ ue' = [ue EXCEPT ![u] = [v EXCEPT !.out = <<>>]]
  /\ up' = [up EXCEPT ![u] = @ \o v.out]

\* A call weighs as much as two of the other events.
Spend(n) == events + n <= MaxEvents /\ events' = events + n
Fault == Spend(1) /\ clean' = FALSE

-----------------------------------------------------------------------------
(* The user *)

Calm == MapThenSumSet(LAMBDA u : Len(up[u]) + Len(dl[u]), Ue) < MaxSig

Command(u, v) == Calm /\ v # ue[u] /\ UeStep(u, v) /\ UNCHANGED <<dl, media, cell, clean>>

DoStartCall(u, kind, dst) ==
  /\ dst # u /\ Spend(2)
  /\ Command(u, StartCall(ue[u], kind, dst))
DoStartConf(u, b, c) ==
  /\ Cardinality({u, b, c}) = 3 /\ Spend(2)
  /\ \E addr \in {u, NoCrnti} : Command(u, StartConf(ue[u], addr, b, c))
DoAnswer(u) == Command(u, Answer(ue[u])) /\ UNCHANGED events
DoDecline(u) == Command(u, Decline(ue[u])) /\ UNCHANGED events
DoEndCall(u) == Command(u, EndCall(ue[u])) /\ UNCHANGED events
DoEndCallOfKind(u, kind) == Command(u, EndCallOfKind(ue[u], kind)) /\ UNCHANGED events
DoEndConf(u) == Command(u, EndConf(ue[u])) /\ UNCHANGED events

Timer(u, j, t) ==
  /\ Calm /\ t \in ue[u].dialogs[j].timers
  /\ UeStep(u, TimerFires(ue[u], j, t)) /\ UNCHANGED <<dl, media, cell, bounds>>

UserNext(u) ==
  \/ \E kind \in Kind, dst \in Ue : DoStartCall(u, kind, dst)
  \/ u \in Hosts /\ \E b, c \in Ue : DoStartConf(u, b, c)
  \/ DoAnswer(u) \/ DoDecline(u) \/ DoEndCall(u) \/ DoEndConf(u)
  \/ \E kind \in Kind : DoEndCallOfKind(u, kind)
TimerNext(u) == \E j \in DOMAIN ue[u].dialogs : \E t \in ue[u].dialogs[j].timers : Timer(u, j, t)

-----------------------------------------------------------------------------
(* Signalling *)

\* handle_ul_app_sdu and forward_u2u_dl: splice, then pass on.  What has no
\* destination is echoed to its sender, which ignores it.
Forward(u) ==
  /\ up[u] # <<>> /\ up' = [up EXCEPT ![u] = Tail(@)]
  /\ LET m == Head(up[u])
     IN  /\ confs' = IF m.conf = NoConf THEN confs ELSE SnoopConfSig(confs, m)
         /\ dl' = IF m.dst \in known THEN [dl EXCEPT ![m.dst] = Append(@, m)] ELSE dl
  /\ UNCHANGED <<ue, media, known, detaching, bounds>>

Receive(u) ==
  /\ dl[u] # <<>> /\ ue[u].reg /\ dl' = [dl EXCEPT ![u] = Tail(@)]
  /\ UeStep(u, HandleSig(ue[u], Head(dl[u])))
  /\ UNCHANGED <<media, cell, bounds>>

LoseUp(u) ==
  /\ up[u] # <<>> /\ Fault
  /\ up' = [up EXCEPT ![u] = Tail(@)] /\ UNCHANGED <<ue, dl, media, cell>>
LoseDown(u) ==
  /\ dl[u] # <<>> /\ Fault
  /\ dl' = [dl EXCEPT ![u] = Tail(@)] /\ UNCHANGED <<ue, up, media, cell>>

SignalNext(u) == Forward(u) \/ Receive(u) \/ LoseUp(u) \/ LoseDown(u)

-----------------------------------------------------------------------------
(* Media *)


MediaTick(u) ==
  /\ Spend(1)
  /\ \E s \in ToSet(ue[u].outs) :
       media' = media \cup {[hop |-> "up", src |-> u, kind |-> s.kind, conf |-> s.conf,
                             dst |-> IF s.conf # NoConf THEN "bridge" ELSE s.peer]}
  /\ UNCHANGED <<ue, up, dl, cell, clean>>

\* bridge_conf_media, or the plain forwarding of a 1:1 packet.
MediaForward(p) ==
  /\ p.hop = "up"
  /\ media' = (media \ {p}) \cup
       {[p EXCEPT !.hop = "down", !.dst = d] :
          d \in IF p.conf # NoConf THEN FanOut(confs, p, known) ELSE {p.dst} \cap known}
  /\ UNCHANGED <<ue, up, dl, cell, bounds>>

MediaArrive(p) ==
  /\ p.hop = "down" /\ media' = media \ {p} /\ ue[p.dst].reg
  /\ UeStep(p.dst, HandleMedia(ue[p.dst], p)) /\ UNCHANGED <<dl, cell, bounds>>

MediaNext ==
  \/ \E u \in Ue : MediaTick(u)
  \/ \E p \in media : MediaForward(p) \/ MediaArrive(p)

-----------------------------------------------------------------------------
(* UEs come and go *)

\* detach(): hang up, then DETACH on the other bearer, which may overtake.
DoDetach(u) ==
  /\ ue[u].reg /\ Fault
  /\ UeStep(u, GoOffline(ue[u], TRUE)) /\ dl' = [dl EXCEPT ![u] = <<>>]
  /\ detaching' = detaching \cup {u} /\ UNCHANGED <<media, known, confs>>

\* By the time BsNode looks the UE up to purge it from its conferences,
\* NasBs has deleted the context: purge_conf_member is never reached.
CellDetach(u) ==
  /\ u \in detaching /\ detaching' = detaching \ {u} /\ known' = known \ {u}
  /\ dl' = [dl EXCEPT ![u] = <<>>] /\ UNCHANGED <<ue, up, media, confs, bounds>>

\* abort_attach or a failed resume: the cell is not told.
LinkDies(u) ==
  /\ ue[u].reg /\ Fault
  /\ ue' = [ue EXCEPT ![u] = GoOffline(@, FALSE)]
  /\ up' = [up EXCEPT ![u] = <<>>] /\ dl' = [dl EXCEPT ![u] = <<>>]
  /\ UNCHANGED <<media, cell>>

\* A new registration starts on fresh bearers.
Reattach(u) ==
  /\ ~ue[u].reg /\ ue' = [ue EXCEPT ![u].reg = TRUE]
  /\ up' = [up EXCEPT ![u] = <<>>] /\ dl' = [dl EXCEPT ![u] = <<>>]
  /\ known' = known \cup {u} /\ detaching' = detaching \ {u}
  /\ UNCHANGED <<media, confs, bounds>>

PresenceNext(u) == DoDetach(u) \/ CellDetach(u) \/ LinkDies(u) \/ Reattach(u)

Next ==
  \/ MediaNext
  \/ \E u \in Ue : UserNext(u) \/ TimerNext(u) \/ SignalNext(u) \/ PresenceNext(u)

Spec == Init /\ [][Next]_vars

-----------------------------------------------------------------------------
(* What the UEs and the cell must keep to *)

Dialogs(u) == ToSet(ue[u].dialogs)

\* Every dialog is with another UE, and the timers pending for it are those of
\* its state: an established call has none left (cancel_dialog_timers).
TimersOf == [OUTGOING |-> {"first", "noans"}, INCOMING |-> {"auto"}, ESTABLISHED |-> {}]
TypeOK ==
  /\ \A u \in Ue :
       /\ ue[u].out = <<>> /\ ue[u].bearers \subseteq Kind \cup {"SIG"}
       /\ \A d \in Dialogs(u) :
            d.peer \in Ue \ {u} /\ d.kind \in Kind /\ d.timers \subseteq TimersOf[d.state]
  /\ known \subseteq Ue /\ detaching \subseteq Ue

\* Media is gated by dialogs (begin_media, handle_u2u, erase_dialog): a 1:1
\* stream, out or in, has its ESTABLISHED dialog, and a conference stream has
\* a dialog of that conference, however dialogs of one UE come and go.
MediaGated ==
  \A u \in Ue : \A s \in ToSet(ue[u].outs) \cup ue[u].ins :
    IF s.conf = NoConf
    THEN \E d \in Dialogs(u) : d.state = "ESTABLISHED" /\ d.peer = s.peer /\ d.kind = s.kind
    ELSE \E d \in Dialogs(u) : d.conf = s.conf

\* Bearers follow dialogs (ensure_bearer, release_bearer_if_unused): SIG is up while
\* there is any dialog, the bearer of a stream is up, and a media bearer is up
\* only while a dialog of its class lives.
BearersUsed ==
  \A u \in Ue :
    /\ ue[u].dialogs # <<>> => "SIG" \in ue[u].bearers
    /\ \A kind \in Kind \cap ue[u].bearers : \E d \in Dialogs(u) : d.kind = kind
    /\ \A s \in ToSet(ue[u].outs) \cup ue[u].ins : s.kind \in ue[u].bearers

\* An outgoing call does not ring for ever: until it is answered, refused or
\* given up, the timer that will CANCEL it is pending.  Does not hold where two
\* calls share a (peer, id): find_dialog then finds the other one.
RingingGuarded ==
  \A u \in Ue : \A d \in Dialogs(u) : d.state = "OUTGOING" => "noans" \in d.timers

\* Call ids are chosen by the caller, counting from 1: only two UEs that count
\* apart from each other never use the same (peer, id) for two calls.
Apart(u, w) == FirstId[u] # FirstId[w]

\* The same promise where call ids cannot collide.
RingingGuardedApart ==
  \A u \in Ue : \A d \in Dialogs(u) :
    d.state = "OUTGOING" /\ Apart(u, d.peer) => "noans" \in d.timers

Quiet(u, w) ==
  \A m \in ToSet(up[u]) \cup ToSet(dl[u]) \cup ToSet(up[w]) \cup ToSet(dl[w]) :
    {m.src, m.dst} # {u, w}

\* Where no signalling was lost, no UE left and the call ids are apart: once
\* nothing is under way between two UEs, a call one of them reported as
\* established is established at the other, through every crossing of
\* hangup, cancel, timeout, busy and answer.
TalkingPaired ==
  clean =>
    \A u \in Ue : \A d \in Dialogs(u) :
      d.logged /\ d.conf = NoConf /\ Apart(u, d.peer) /\ Quiet(u, d.peer) =>
        \E e \in Dialogs(d.peer) :
          e.peer = u /\ e.id = d.id /\ e.kind = d.kind /\ e.conf = d.conf /\ e.logged

\* The same of a conference party and its host: a party that took itself for
\* established, from the ACK or from media, is one the host has a call with.
\* Does not hold: media of another member establishes a party as well.
ConfTalkingPaired ==
  clean =>
    \A u \in Ue : \A d \in Dialogs(u) :
      d.logged /\ d.conf # NoConf /\ Apart(u, d.peer) /\ Quiet(u, d.peer) =>
        \E e \in Dialogs(d.peer) : e.peer = u /\ e.id = d.id /\ e.logged

\* A conference the cell keeps is one that can still carry media or grow: the
\* host is a member, and there is a second member or an open invitation.
ConfAlive ==
  \A k \in confs : /\ k.host \in k.members /\ k.resolved \subseteq k.invited
                   /\ Cardinality(k.members) >= 2 \/ k.resolved # k.invited

\* A UE the cell no longer serves is in none of its conferences.  Does not hold:
\* by the time of purge_conf_member the registration with the IMSI is erased.
DetachedLeft == \A k \in confs : k.members \subseteq known
=============================================================================
