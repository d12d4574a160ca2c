----------------------------- MODULE Signalling ------------------------------
(* The signalling messages of one UE and its cell, as far as the connection  *)
(* logic tells them apart: the random-access frames, the RRC messages on the *)
(* CCCH logical channel and the NAS messages on the DCCH.                    *)
(*                                                                           *)
(* A challenge (RAND) is named by the order in which the network drew it,    *)
(* and so is the session key derived from it; 0 stands for "none", for a     *)
(* message in the clear and for the C-RNTI of a UE that has none.            *)
EXTENDS Integers

CONSTANTS MaxCrnti,     \* bound: C-RNTIs handed out
          MaxTmsi,      \* bound: TMSIs handed out
          MaxChallenge, \* bound: authentication vectors generated
          MaxSuspend    \* bound: resume identities handed out

ASSUME SignallingConstants ==
  /\ MaxCrnti \in Nat \ {0} /\ MaxTmsi \in Nat \ {0}
  /\ MaxChallenge \in Nat \ {0} /\ MaxSuspend \in Nat

Crnti == 1 .. MaxCrnti
Tmsi == 1 .. MaxTmsi
Key == 0 .. MaxChallenge
ResumeId == 0 .. MaxSuspend

RachUp == {"MSG1", "MSG3"}
RachDown == {"RAR", "MSG4"}
CcchUp == {"SETUP_REQUEST", "SETUP_COMPLETE", "RELEASE", "SUSPEND_REQUEST", "RESUME_REQUEST"}
CcchDown == {"SETUP", "SUSPEND", "RESUME_OK", "RESUME_FAILURE"}
NasUp == {"ATTACH_REQUEST", "AUTH_RESPONSE", "AUTH_FAILURE", "DETACH"}
NasDown == {"AUTH_REQUEST", "ATTACH_ACCEPT", "ATTACH_REJECT"}
DataUp == CcchUp \cup NasUp \cup {"APP"}
DataDown == CcchDown \cup NasDown
Uplink == RachUp \cup DataUp
Downlink == RachDown \cup DataDown

\* A CCCH PDU as MSG3 carries it; no PDU at all when type is "NONE".
NoPdu == [type |-> "NONE", id |-> 0]
Pdu == [type : CcchUp, id : ResumeId] \cup {NoPdu}

\* id: the C-RNTI, resume identity, TMSI or challenge the message names;
\* sqn: the sequence number in AUTN or AUTS; ccch: what MSG3 carries.
Frame == [type : Uplink \cup Downlink, rnti : 0 .. MaxCrnti, key : Key, id : Nat,
          sqn : Key, ccch : Pdu]
NewFrame(type, rnti, key, id, sqn) ==
  [type |-> type, rnti |-> rnti, key |-> key, id |-> id, sqn |-> sqn, ccch |-> NoPdu]
=============================================================================
