------------------------------- MODULE UeCalls -------------------------------
(* The UE's calls: the SIP-lite dialogs of UeNode, their timers, the media   *)
(* streams and QoS bearers that live and die with them.  The code is         *)
(* sequential, so a handler is a function from the UE's state to its next    *)
(* state; the signalling it sends collects in the field out.                 *)
(*                                                                           *)
(* Media packets carry no sequence number here: what a packet changes beside *)
(* counters is which streams and bearers exist (module Streams has the       *)
(* counters).                                                                *)
EXTENDS Naturals, Sequences, SequencesExt

CONSTANTS Ue,         \* the UEs, named by IMSI
          AutoAnswer  \* the UEs with autoanswer_ms_ > 0

ASSUME UeCallsConstants == AutoAnswer \subseteq Ue

Kind == {"VOICE", "VIDEO"}
NoConf == <<>>        \* conf_id 0; otherwise <<C-RNTI of the host, sequence number>>
NoCrnti == "none"     \* crnti_cache_ 0; a UE's C-RNTI is its name here

(* dialogs: dialogs_, of which timers holds the pending one-shot timers.     *)
(* outs, ins: out_streams_ and in_streams_, without their counters.          *)
(* bearers: the established ones.  next_id, next_conf: the two counters.     *)
UeCallsInit(me) ==
  [me |-> me, reg |-> TRUE, dialogs |-> <<>>, outs |-> <<>>, ins |-> {}, bearers |-> {},
   next_id |-> 1, next_conf |-> 1, out |-> <<>>]

-----------------------------------------------------------------------------
(* Looking up dialogs: the position of the first match, or 0. *)

FindDialog(u, peer, id) == SelectInSeq(u.dialogs, LAMBDA d : d.peer = peer /\ d.id = id)

FindEstablished(u) == SelectInSeq(u.dialogs, LAMBDA d : d.state = "ESTABLISHED")
FindIncomingRinging(u) == SelectInSeq(u.dialogs, LAMBDA d : d.state = "INCOMING")

FindMediaDialog(u, p) ==
  SelectInSeq(u.dialogs, LAMBDA d :
    /\ d.state = "ESTABLISHED"
    /\ IF p.conf # NoConf THEN d.conf = p.conf ELSE d.peer = p.src /\ d.kind = p.kind)

FindDialogByKind(u, kind) ==
  LET est == SelectInSeq(u.dialogs, LAMBDA d : d.kind = kind /\ d.state = "ESTABLISHED")
  IN  IF est # 0 THEN est ELSE SelectInSeq(u.dialogs, LAMBDA d : d.kind = kind)

-----------------------------------------------------------------------------
(* Signalling and bearers *)

SendSigTo(u, method, dst, id, kind, conf) ==
  [u EXCEPT !.bearers = @ \cup {"SIG"},
            !.out = Append(@, [method |-> method, src |-> u.me, dst |-> dst,
                               id |-> id, kind |-> kind, conf |-> conf])]
SendSig(u, d, method) == SendSigTo(u, method, d.peer, d.id, d.kind, d.conf)

\* Mutant: tears a bearer down although a dialog still uses it.
KeptBearersNone(u, d, rest) == u.bearers \ {d.kind, "SIG"}

\* release_bearer_if_unused for the dialog's class and for signalling.
KeptBearers(u, d, rest) ==
  {b \in u.bearers : /\ b = d.kind => \E x \in ToSet(rest) : x.kind = b
                     /\ b = "SIG" => rest # <<>>}

\* Mutant: a conference's stream survives its last dialog.
OutDiesWithLeaky(s, d, survives) ==
  s.conf = d.conf /\ d.conf = NoConf /\ s.peer = d.peer /\ s.kind = d.kind

\* The shared out-stream of a conference dies with its last dialog.
OutDiesWith(s, d, survives) ==
  s.conf = d.conf /\ IF d.conf = NoConf THEN s.peer = d.peer /\ s.kind = d.kind ELSE ~survives

InDiesWith(s, d, survives) ==
  s.conf = d.conf /\ IF d.conf = NoConf THEN s.peer = d.peer /\ s.kind = d.kind
                                        ELSE s.peer = d.peer \/ ~survives

EraseDialog(u, i) ==
  LET d == u.dialogs[i]
      rest == RemoveAt(u.dialogs, i)
      survives == d.conf # NoConf /\ \E x \in ToSet(rest) : x.conf = d.conf
  IN  [u EXCEPT !.dialogs = rest,
                !.outs = SelectSeq(@, LAMBDA s : ~OutDiesWith(s, d, survives)),
                !.ins = {s \in @ : ~InDiesWith(s, d, survives)},
                !.bearers = KeptBearers(u, d, rest)]

-----------------------------------------------------------------------------
(* The user's commands *)

NewDialog(state, peer, kind, id, conf, timers) ==
  [state |-> state, peer |-> peer, kind |-> kind, id |-> id, conf |-> conf,
   got180 |-> FALSE, logged |-> FALSE, timers |-> timers]

\* Push the dialog, send the INVITE and arm both timers.
Dial(u, dst, kind, conf) ==
  LET d == NewDialog("OUTGOING", dst, kind, u.next_id, conf, {"first", "noans"})
  IN  SendSig([u EXCEPT !.dialogs = Append(@, d), !.next_id = @ + 1], d, "INVITE")

StartCall(u, kind, dst) ==
  IF ~u.reg \/ FindDialogByKind(u, kind) # 0 THEN u ELSE Dial(u, dst, kind, NoConf)

\* addr is crnti_cache_, which an INACTIVE host has lost: its conference is then
\* numbered by the sequence number alone.
StartConf(u, addr, b, c) ==
  IF ~u.reg \/ u.dialogs # <<>> THEN u
  ELSE LET conf == <<addr, u.next_conf>>
       IN  Dial(Dial([u EXCEPT !.next_conf = @ + 1], b, "VOICE", conf), c, "VOICE", conf)

\* The callee: 200 OK, and media waits for the caller's ACK.
Accept(u, i) ==
  SendSig([u EXCEPT !.dialogs[i].timers = {}, !.dialogs[i].state = "ESTABLISHED"],
          u.dialogs[i], "OK_200")

Answer(u) == LET i == FindIncomingRinging(u) IN IF i = 0 THEN u ELSE Accept(u, i)

Hangup == [ESTABLISHED |-> "BYE", OUTGOING |-> "CANCEL", INCOMING |-> "DECLINE_603"]

EndDialog(u, i) ==
  EraseDialog(SendSig(u, u.dialogs[i], Hangup[u.dialogs[i].state]), i)

Decline(u) == LET i == FindIncomingRinging(u) IN IF i = 0 THEN u ELSE EndDialog(u, i)

EndConf(u) ==
  LET End(v, d) == IF d.conf = NoConf THEN v
                   ELSE EndDialog(v, SelectInSeq(v.dialogs, LAMBDA x : x.conf # NoConf))
  IN  FoldLeft(End, u, u.dialogs)

EndCall(u) ==
  LET order == SelectSeq(<<FindEstablished(u), FindDialogByKind(u, "VOICE"),
                           FindDialogByKind(u, "VIDEO")>>, LAMBDA i : i # 0)
  IN  IF order = <<>> THEN u ELSE EndDialog(u, Head(order))

EndCallOfKind(u, kind) ==
  LET i == FindDialogByKind(u, kind)
  IN  IF i # 0 THEN EndDialog(u, i) ELSE IF Len(u.dialogs) = 1 THEN EndDialog(u, 1) ELSE u

StopStreams(u, notify) ==
  LET Stop(v, d) == IF notify THEN EndDialog(v, 1) ELSE EraseDialog(v, 1)
  IN  FoldLeft(Stop, u, u.dialogs)

\* detach() hangs up, abort_attach() and a dead link do not; both reset the bearers.
GoOffline(u, notify) == [StopStreams(u, notify) EXCEPT !.reg = FALSE, !.bearers = {}]

-----------------------------------------------------------------------------
(* Media *)

PushStream(u, peer, kind, conf) ==
  [u EXCEPT !.bearers = @ \cup {kind},
            !.outs = Append(@, [peer |-> peer, kind |-> kind, conf |-> conf])]

EnsureConfMedia(u, conf) ==
  IF \E s \in ToSet(u.outs) : s.conf = conf THEN u ELSE PushStream(u, "conf", "VOICE", conf)

\* Mutant: the caller talks without having acknowledged.
BeginMediaUnacked(u, i) ==
  LET d == u.dialogs[i]
      v == [u EXCEPT !.dialogs[i].state = "ESTABLISHED", !.dialogs[i].timers = {},
                     !.dialogs[i].logged = TRUE]
  IN  IF d.conf # NoConf THEN EnsureConfMedia(v, d.conf)
      ELSE PushStream(v, d.peer, d.kind, NoConf)

\* The caller, on 200 OK.
BeginMedia(u, i) ==
  LET d == u.dialogs[i]
      v == SendSig([u EXCEPT !.dialogs[i].state = "ESTABLISHED", !.dialogs[i].timers = {},
                             !.dialogs[i].logged = TRUE], d, "ACK")
  IN  IF d.conf # NoConf THEN EnsureConfMedia(v, d.conf)
      ELSE PushStream(v, d.peer, d.kind, NoConf)

\* The callee learns that the call stands: from the ACK, or from media.
Confirm(u, i) ==
  IF u.dialogs[i].logged THEN u
  ELSE LET v == [u EXCEPT !.dialogs[i].logged = TRUE]
       IN  IF u.dialogs[i].conf # NoConf THEN EnsureConfMedia(v, u.dialogs[i].conf) ELSE v

\* Media outside an established dialog is dropped; own media echoed is ignored.
HandleMedia(u, p) ==
  LET i == FindMediaDialog(u, p)
      s == [peer |-> p.src, kind |-> p.kind, conf |-> p.conf]
  IN  IF p.src = u.me \/ i = 0 \/ s \in u.ins THEN u
      ELSE Confirm([u EXCEPT !.ins = @ \cup {s}, !.bearers = @ \cup {p.kind}], i)

-----------------------------------------------------------------------------
(* handle_sig *)

OnInvite(u, i, m) ==
  IF i # 0 THEN SendSig(u, u.dialogs[i], IF u.dialogs[i].state = "ESTABLISHED"
                                         THEN "OK_200" ELSE "RINGING_180")
  ELSE IF u.dialogs # <<>> THEN SendSigTo(u, "BUSY_486", m.src, m.id, m.kind, m.conf)
  ELSE LET d == NewDialog("INCOMING", m.src, m.kind, m.id, m.conf,
                          IF u.me \in AutoAnswer THEN {"auto"} ELSE {})
       IN  SendSig([u EXCEPT !.dialogs = Append(@, d)], d, "RINGING_180")

\* A stray BYE is answered too, without the conference id.
OnBye(u, i, m) ==
  IF i = 0 THEN SendSigTo(u, "OK_BYE", m.src, m.id, m.kind, NoConf)
  ELSE IF u.dialogs[i].state = "ESTABLISHED"
  THEN EraseDialog(SendSig(u, u.dialogs[i], "OK_BYE"), i) ELSE u

\* Mutant: a 180 stops the no-answer timer too.
OnRingingForever(u, i) ==
  [u EXCEPT !.dialogs[i].got180 = TRUE, !.dialogs[i].timers = {}]

OnRinging(u, i) ==
  [u EXCEPT !.dialogs[i].got180 = TRUE, !.dialogs[i].timers = @ \ {"first"}]

HandleSig(u, m) ==
  LET i == FindDialog(u, m.src, m.id)
      st == IF i = 0 THEN "NONE" ELSE u.dialogs[i].state
  IN  CASE m.method = "INVITE" -> OnInvite(u, i, m)
        [] m.method = "BYE" -> OnBye(u, i, m)
        [] m.method = "RINGING_180" /\ st = "OUTGOING" -> OnRinging(u, i)
        [] m.method = "OK_200" /\ st = "OUTGOING" -> BeginMedia(u, i)
        [] m.method = "ACK" /\ st = "ESTABLISHED" -> Confirm(u, i)
        [] m.method \in {"BUSY_486", "DECLINE_603"} /\ st = "OUTGOING" -> EraseDialog(u, i)
        [] m.method = "CANCEL" /\ st = "INCOMING" -> EraseDialog(u, i)
        [] OTHER -> u

-----------------------------------------------------------------------------
(* A timer of dialog j fires: its callback looks the dialog up again by peer *)
(* and call id, and so may act on another one.                               *)

GiveUp(u, i) == EraseDialog(SendSig(u, u.dialogs[i], "CANCEL"), i)

TimerFires(u, j, t) ==
  LET v == [u EXCEPT !.dialogs[j].timers = @ \ {t}]
      i == FindDialog(v, u.dialogs[j].peer, u.dialogs[j].id)
      d == v.dialogs[i]
  IN  CASE t = "auto" /\ d.state = "INCOMING" -> Accept(v, i)
        [] t = "first" /\ d.state = "OUTGOING" /\ ~d.got180 -> GiveUp(v, i)
        [] t = "noans" /\ d.state = "OUTGOING" -> GiveUp(v, i)
        [] OTHER -> v
=============================================================================
