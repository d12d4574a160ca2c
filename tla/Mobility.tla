------------------------------- MODULE Mobility ------------------------------
(* UEs moving between two cells that share the medium, in each of the three  *)
(* deployments.  HARQ runs several processes, so PDUs to and from a UE       *)
(* overtake each other and may be lost: sets.                                *)
EXTENDS Handover, UeMobility

CONSTANTS Deployments, \* which of "xn", "amf", "coordinator"
          MaxRach,    \* bound: random accesses won in a cell
          MaxRand,    \* bound: challenges drawn by the AMF
          MaxHo,      \* bound: handovers prepared by a cell
          MaxEvents,  \* bound: attaches, reports, texts, losses, failures, detaches together
          MaxFlight   \* bound: such an event at a UE finds fewer messages under way

ASSUME MobilityConstants ==
  /\ Deployments \subseteq {"xn", "amf", "coordinator"}
  /\ MaxRand \in Nat /\ MaxRach \in 1 .. 49 /\ MaxHo \in 1 .. 49 /\ MaxEvents \in Nat /\ MaxFlight \in Nat

(* up: PDUs under way to the cells.   due: the UEs that a text sent while    *)
(* nothing was under way has not reached, no other event having come since.  *)
(* events: counted against MaxEvents.   lost: something was lost.   broken:  *)
(* a link failed, an attach was aborted or a UE left.                        *)
VARIABLES ue, net, up, due, events, lost, broken

bounds == <<events, lost, broken>>
vars == <<ue, net, up, due, bounds>>

Init ==
  /\ ue = [u \in Ue |-> UeInit(u)]
  /\ \E via \in Deployments :
       net = [via |-> via, gnb |-> [c \in Cells |-> NewCell], amf |-> NewAmf, xn |-> {}, dl |-> {}]
  /\ up = {} /\ due = {} /\ events = 0 /\ lost = FALSE /\ broken = FALSE

-----------------------------------------------------------------------------
(* A step of UE u to the record v, and of the network to n.  What goes to a  *)
(* C-RNTI that nobody has, is about to be given or may re-establish is heard *)
(* by nobody.                                                                *)

Expected(n, q) ==
  {q[u].crnti : u \in Ue} \cup {f.id : f \in {f \in n.dl : f.type = "HO_COMMAND"}}
    \cup {m.new : m \in n.xn} \cup {q[u].old : u \in {w \in Ue : q[w].reest /\ q[w].crnti = 0}}

Step(u, v, n) ==
  LET q == [ue EXCEPT ![u] = [v EXCEPT !.out = {}]]
  IN  /\ ue' = q
      /\ net' = [n EXCEPT !.dl = {f \in @ : f.rnti \in Expected(n, q)}]
      /\ up' = up \cup v.out

Net(n) ==
  /\ n.amf.rands <= MaxRand /\ \A c \in Cells : n.gnb[c].hos <= MaxHo
  /\ net' = [n EXCEPT !.dl = {f \in @ : f.rnti \in Expected(n, ue)}]

Connected(u) == ue[u].rrc = "CONNECTED"
Registered(u) == ue[u].nas = "REGISTERED"
Quiet == up = {} /\ net.dl = {} /\ net.xn = {}

Spend == events < MaxEvents /\ events' = events + 1
Happen == Spend /\ Cardinality(up) + Cardinality(net.dl) + Cardinality(net.xn) < MaxFlight
Break == Happen /\ broken' = TRUE /\ due' = {} /\ UNCHANGED lost
Lose == Spend /\ lost' = TRUE /\ due' = {} /\ UNCHANGED <<ue, broken>>

\* Random access in cell c: the C-RNTI it hands out, and the cell after it.
Won(c) == RachCrnti(c, net.gnb[c].rachs + 1)
Raced(c) == [net EXCEPT !.gnb[c].rachs = @ + 1]

-----------------------------------------------------------------------------
(* The UE's user, timers and watchdog *)

Attach(u, c) ==
  /\ MayAttach(ue[u]) /\ net.gnb[c].rachs < MaxRach
  /\ Step(u, AttachAt(ue[u], c, Won(c)),
          [Raced(c) EXCEPT !.gnb[c].ctx = Put(@, Won(c), "CONNECTED"),
                           !.gnb[c].flow = @ @@ (Won(c) :> 0)])
  /\ Happen /\ due' = {} /\ UNCHANGED <<lost, broken>>

\* The guard of an attach outlives its rejection and a detach.
AttachGuard(u) ==
  /\ ue[u].pre # 0 /\ ~Registered(u) /\ AbortAttach(ue[u]) # ue[u]
  /\ Step(u, AbortAttach(ue[u]), net) /\ Break

DetachUe(u) ==
  ue[u].nas = "REGISTERED" /\ Step(u, Detach(ue[u]), net) /\ Break

\* attach() while a re-establishment is pending only asks for the random access.
AttachAgain(u) ==
  /\ ue[u].reest /\ ~ue[u].want /\ Step(u, [ue[u] EXCEPT !.want = TRUE], net)
  /\ UNCHANGED <<due, bounds>>

MeasTimer(u, audible) ==
  /\ MayReport(ue[u]) /\ Step(u, Report(ue[u], audible), net)
  /\ Happen /\ due' = {} /\ UNCHANGED <<lost, broken>>

Rlf(u) == MayFail(ue[u]) /\ Step(u, DeclareRlf(ue[u]), net) /\ Break

\* The random access of a re-establishment goes to the cell of the preambles.
\* Of what is under way to the old C-RNTI, kept is still in the flow's queues.
ReestAccess(u) ==
  LET c == ue[u].pre
      queued == {f \in net.dl : f.from = c /\ f.rnti = ue[u].old}
  IN  /\ ue[u].reest /\ ue[u].want /\ ue[u].crnti = 0 /\ net.gnb[c].rachs < MaxRach
      /\ \E kept \in SUBSET queued :
           Step(u, [ue[u] EXCEPT !.crnti = Won(c)],
                ReestRequest(Raced(c), c, ue[u].old, Won(c), kept))
      /\ UNCHANGED <<due, bounds>>

ReestGuard(u) ==
  ue[u].reest /\ Step(u, ReestablishFailed(ue[u]), net) /\ UNCHANGED <<due, bounds>>

SendText(u, v) ==
  /\ u # v /\ Connected(u) /\ Registered(u)
  /\ Step(u, SendNas(ue[u], "TEXT", v, 0), net)
  /\ due' = IF Quiet /\ Connected(v) /\ Registered(v) THEN due \cup {v} ELSE due
  /\ Happen /\ UNCHANGED <<lost, broken>>

-----------------------------------------------------------------------------
(* Arrivals, the cells' tick, losses *)

DownArrives(f, u) ==
  /\ ue[u].crnti = f.rnti
  /\ Step(u, HandleDownlink(ue[u], f), [net EXCEPT !.dl = @ \ {f}])
  /\ due' = IF f.type = "TEXT" /\ f.key = ue[u].sec THEN due \ ({f.id} \cap {u}) ELSE due
  /\ UNCHANGED bounds

UpArrives(f, c) ==
  /\ f.rnti \in DOMAIN net.gnb[c].ctx
  /\ \E dst \in IF f.type = "TEXT" THEN CrntiForImsi(net.gnb[c], f.id) ELSE {0} :
       Net(HandleUplink(net, c, f, dst))
  /\ up' = up \ {f} /\ UNCHANGED <<ue, due, bounds>>

\* Neither cell has a context for it.
UpIgnored(f) ==
  /\ \A c \in Cells : f.rnti \notin DOMAIN net.gnb[c].ctx
  /\ up' = up \ {f} /\ UNCHANGED <<ue, net, due, bounds>>

XnArrives(m) ==
  /\ \E dst \in IF m.type = "FWD_DATA" THEN CrntiForImsi(net.gnb[m.to], m.imsi) ELSE {0} :
       Net(HandleXn([net EXCEPT !.xn = @ \ {m}], m, dst))
  /\ UNCHANGED <<ue, up, due, bounds>>

CellTick(c) ==
  net.gnb[c].gone # {} /\ Net(EraseGone(net, c)) /\ UNCHANGED <<ue, up, due, bounds>>

LoseUp(f) == up' = up \ {f} /\ UNCHANGED net /\ Lose
LoseDown(f) == Net([net EXCEPT !.dl = @ \ {f}]) /\ UNCHANGED up /\ Lose
LoseXn(m) == Net([net EXCEPT !.xn = @ \ {m}]) /\ UNCHANGED up /\ Lose

-----------------------------------------------------------------------------
UeStep(u) ==
  \/ \E c \in Cells : Attach(u, c)
  \/ AttachGuard(u) \/ DetachUe(u) \/ AttachAgain(u)
  \/ Rlf(u) \/ ReestAccess(u) \/ ReestGuard(u)
  \/ MeasTimer(u, Cells \ {ue[u].cell})
  \/ \E v \in Ue : SendText(u, v)

Next ==
  \/ \E u \in Ue : UeStep(u)
  \/ \E f \in net.dl, u \in Ue : DownArrives(f, u)
  \/ \E f \in up, c \in Cells : UpArrives(f, c)
  \/ \E f \in up : UpIgnored(f)
  \/ \E m \in net.xn : XnArrives(m)
  \/ \E f \in net.dl : LoseDown(f)
  \/ \E f \in up : LoseUp(f)
  \/ \E m \in net.xn : LoseXn(m)
  \/ \E c \in Cells : CellTick(c)

Spec == Init /\ [][Next]_vars

-----------------------------------------------------------------------------
(* Properties *)

\* The C-RNTI ranges of the cells keep the UEs on the shared medium apart:
\* through random accesses, handovers back and forth and re-establishments,
\* no two UEs ever answer to the same C-RNTI.
CrntiUnique ==
  \A u, v \in Ue : u # v /\ ue[u].crnti # 0 => ue[u].crnti # ue[v].crnti

\* A UE that believes it is connected has a context: the target admits it
\* before it is told to move, and the source lets go only of the UE that
\* landed (prepare_handover, XN_HO_COMPLETE).
ContextKept ==
  \A u \in Ue : Connected(u) =>
    \E c \in Cells : IsConnected(net.gnb[c], ue[u].crnti)

\* No handover was prepared before the UE's attach was through.
AttachesThrough ==
  \A c \in Cells : \A r \in DOMAIN net.gnb[c].taken :
    LET ctx == net.gnb[c].taken[r] IN ctx.tmsi # 0 /\ (net.via = "amf" => ctx.key # 0)

\* The session key is where the UE is: a UE that protects its traffic and is
\* connected finds its own key in the flow of its C-RNTI, in the cell that
\* has its context, across handover and re-establishment.
KeyHere(u) ==
  Connected(u) /\ ue[u].sec # 0 =>
    \E c \in Cells : /\ ue[u].crnti \in DOMAIN net.gnb[c].ctx
                     /\ At(net.gnb[c].flow, ue[u].crnti) = ue[u].sec
KeyFollows == AttachesThrough => \A u \in Ue : KeyHere(u)

\* A UE that takes itself for registered is registered at the AMF, and both
\* derived the session key from the same challenge, although every gNB on the
\* link transmits each challenge and the copies provoke synch failures.
CoreAgrees ==
  net.via = "amf" => \A u \in Ue : Registered(u) =>
    /\ ue[u].tmsi \in DOMAIN net.amf.ctx
    /\ net.amf.key[ue[u].tmsi] = ue[u].skey

\* Only one cell has handed out TMSIs, or the AMF hands out all of them.
OneNumbering == \E c \in Cells : net.gnb[Peer(c)].tmsis = 0

\* With one handover in flight per UE, the cell that has the UE's context
\* routes its TMSI to the C-RNTI the UE has, whatever reports are repeated
\* and whatever is lost on Xn or on the air (the initiated_ho_ test of
\* request_handover), as long as no radio link fails meanwhile.
RouteFollows ==
  net.via = "xn" /\ ~broken /\ OneNumbering /\ AttachesThrough =>
    \A u \in Ue : Connected(u) /\ Registered(u) =>
      \E c \in Cells : /\ ue[u].crnti \in DOMAIN net.gnb[c].ctx
                       /\ At(net.gnb[c].t2c, ue[u].tmsi) = ue[u].crnti

\* When an Xn handover is over and nothing was lost, the UE has one home: the
\* source has dropped its registration and its routing (release_ho_source), so
\* that texts for it are forwarded over Xn and not into a flow nobody hears.
Settled == Quiet /\ ~lost /\ ~broken
OneHome ==
  net.via = "xn" /\ Settled /\ OneNumbering /\ AttachesThrough =>
    \A u \in Ue : Registered(u) =>
      /\ Cardinality({c \in Cells : RegistrationsOf(net.gnb[c], u) # {}}) = 1
      /\ Cardinality({c \in Cells : ue[u].tmsi \in DOMAIN net.gnb[c].t2c}) = 1

\* A text sent while nothing is under way reaches a UE that stays where it
\* is, in the sender's cell or, over Xn, in the other one it was handed over
\* to (forward_u2u_dl, XN_FWD_DATA); with one numbering of TMSIs.
TextArrives ==
  net.via = "xn" /\ Settled /\ OneNumbering /\ AttachesThrough => due = {}

\* The same when both cells hand out TMSIs, as they do.
TextArrivesAnyway == net.via = "xn" /\ Settled /\ AttachesThrough => due = {}
=============================================================================
