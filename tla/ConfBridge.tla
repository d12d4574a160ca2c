------------------------------ MODULE ConfBridge ------------------------------
(* The conferences of a cell.  BsNode keeps no conference protocol of its    *)
(* own: it splices the membership together from the signalling it forwards   *)
(* (snoop_conf_sig) and fans conference media out to the members.            *)
(*                                                                           *)
(* confs is confs_ as a set of records; the vectors members, invited and     *)
(* resolved hold no value twice, so they are sets.  ever_multi only words    *)
(* an event and is left out.                                                 *)
EXTENDS Naturals, FiniteSets

ConfIn(confs, id) == CHOOSE c \in confs : c.id = id
Open(confs, id) == \E c \in confs : c.id = id

Put(confs, c) == {x \in confs : x.id # c.id} \cup {c}
Drop(confs, id) == {x \in confs : x.id # id}

\* conf_maybe_end, on the conference as its caller has just changed it.
ConfMaybeEnd(confs, c) ==
  IF Cardinality(c.members) >= 2 \/ Cardinality(c.invited) # Cardinality(c.resolved)
  THEN Put(confs, c) ELSE Drop(confs, c.id)

ConfLeave(confs, c, imsi) ==
  IF imsi = c.host THEN Drop(confs, c.id)
  ELSE ConfMaybeEnd(confs, [c EXCEPT !.members = @ \ {imsi}])

\* The first INVITE opens the conference; the host's later ones extend it.
SnoopInvite(confs, m) ==
  LET c == IF Open(confs, m.conf) THEN ConfIn(confs, m.conf)
           ELSE [id |-> m.conf, host |-> m.src, members |-> {m.src},
                 invited |-> {}, resolved |-> {}]
  IN  Put(confs, IF m.src = c.host THEN [c EXCEPT !.invited = @ \cup {m.dst}] ELSE c)

Joins(confs, c, imsi) ==
  IF imsi \in c.members THEN confs
  ELSE Put(confs, [c EXCEPT !.members = @ \cup {imsi},
                            !.resolved = @ \cup ({imsi} \cap c.invited)])

\* Mutant: a refusal is noted but does not end the conference.
ResolvesKept(confs, c, imsi) ==
  IF imsi \in c.invited \ c.resolved THEN Put(confs, [c EXCEPT !.resolved = @ \cup {imsi}])
  ELSE confs

Resolves(confs, c, imsi) ==
  IF imsi \in c.invited \ c.resolved
  THEN ConfMaybeEnd(confs, [c EXCEPT !.resolved = @ \cup {imsi}]) ELSE confs

SnoopConfSig(confs, m) ==
  IF m.method = "INVITE" THEN SnoopInvite(confs, m)
  ELSE IF ~Open(confs, m.conf) THEN confs
  ELSE LET c == ConfIn(confs, m.conf)
       IN  CASE m.method = "OK_200" -> Joins(confs, c, m.src)
             [] m.method = "BYE" /\ m.src \in c.members -> ConfLeave(confs, c, m.src)
             [] m.method \in {"BUSY_486", "DECLINE_603"} -> Resolves(confs, c, m.src)
             [] m.method = "CANCEL" /\ m.src = c.host -> Resolves(confs, c, m.dst)
             [] OTHER -> confs

\* The receivers of one conference media packet: members the cell can reach.
FanOut(confs, p, known) ==
  IF Open(confs, p.conf) THEN (ConfIn(confs, p.conf).members \cap known) \ {p.src} ELSE {}
=============================================================================
