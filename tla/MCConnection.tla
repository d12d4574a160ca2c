---------------------------- MODULE MCConnection -----------------------------
(* Instances of Connection.  MCConnection.cfg: two random accesses and two   *)
(* registrations, so that an attach can be cut short and repeated and a      *)
(* resume can take a second C-RNTI; one suspension, one expiry, one frame    *)
(* delivered twice.  MCConnection_crossing.cfg starts where an undisturbed   *)
(* attach ends.                                                              *)
EXTENDS Connection

\* C-RNTI 1, TMSI 1, challenge 1; the attach guard has run out.
Attached ==
  /\ ue = [UeInit EXCEPT !.rach = "CONNECTED", !.rrc = "CONNECTED", !.nas = "REGISTERED",
             !.want = TRUE, !.sib = TRUE, !.crnti = 1, !.tx = 1, !.sec = 1, !.auth = "YES",
             !.skey = 1, !.sqn = 1, !.tmsi = 1,
             !.pending = [type |-> "SETUP_REQUEST", id |-> 0]]
  /\ bs = [BsInit EXCEPT !.known = TRUE, !.crntis = 1, !.tmsis = 1, !.rands = 1, !.sqn = 1,
             !.ctx[1].st = "CONNECTED", !.flow[1] = [suspended |-> FALSE, key |-> 1, act |-> TRUE],
             !.t2c[1] = 1, !.regs = {1}, !.keys[1] = 1]
  /\ air = {} /\ dups = 0 /\ expired = 0

AttachedSpec == Attached /\ [][Next]_vars
=============================================================================
