# Verification of AetherStack

AetherStack is a 5G-like protocol stack in C++: a UE, a base station (BS), an
optional separate core, and a radio channel simulator, each a process with a
single-threaded loop. This directory holds TLA+ models of its protocol logic,
TLC configurations that check them on small instances, and TLAPS proofs that
hold for every value of the constants. `PROJECT.json` maps every definition to
the lines it translates and lists runs, mutants, findings, hazards and theorems.

## 1. The system

Each node owns its layer entities and calls them from two places: `tick()`, and
the handler of a received frame. Callbacks between layers run to completion
inside that call. So there is no concurrency within a node; everything hard
happens between nodes, whose ticks and frames interleave freely over a channel
that loses, delays, reorders and (through lost HARQ feedback) duplicates, and
between a node's timers and the frames that arrive late.

| Part | Source (under `src/stack`) | Module | State |
|---|---|---|---|
| RLC acknowledged mode | `rlc/src/rlc_am.cpp` | `RlcAm`, `RlcAmInv` | modelled, proved |
| RLC unacknowledged mode | `rlc/src/rlc_um.cpp` | `RlcUm` | modelled, proved |
| HARQ | `core/src/harq.cpp` | `Harq` | modelled, proved |
| Timer list | `core/src/timer_list.cpp`, `core/include/core/timer_list.h` | `TimerList` | modelled |
| Random access | `mac/src/rach_ue.cpp`, `rach_bs.cpp` | `UeControl`, `BsControl` | one UE, one cell |
| RRC setup, release, suspend, resume | `rrc/src/rrc_ue.cpp`, `rrc_bs.cpp` | `UeControl`, `BsControl` | one UE, one cell, partly proved |
| NAS attach, AKA, detach | `nas/src/nas_ue.cpp`, `nas_bs.cpp` | `UeControl`, `BsControl` | provisioned subscriber |
| UE and BS node, connection control | `core/src/ue_node.cpp`, `bs_node.cpp` | `UeControl`, `BsControl`, `Connection` | attach, idle mode, expiry |
| QoS bearers | `core/include/core/qos.h`, both nodes | `Qos`, `UserPlane` | modelled |
| Media streams, acks, pings | `core/src/ue_node.cpp` | `Streams`, `UserPlane` | modelled, partly proved |
| Calls and conferences | `core/src/ue_node.cpp`, `bs_node.cpp`, `app/` | `UeCalls`, `ConfBridge`, `Calls` | modelled, three UEs |
| Link failure, re-establishment, handover, forwarding | `core/src/ue_node.cpp`, `bs_node.cpp` | `Gnb`, `Handover`, `UeMobility`, `Mobility` | two UEs, two cells |
| AMF and the gNB's core interface | `cn/src/amf.cpp`, `bs_node.cpp` | `Amf`, `Mobility` | modelled |
| UPF | `cn/src/upf.cpp` | - | not modelled, section 6 |
| PDCP, crypto, PHY, codecs, transport, logging, tools | `pdcp/`, `phy/`, `common/`, ... | - | not modelled, section 6 |

The parts meet as follows. `UeNode` and `BsNode` put application PDUs on
bearers; a bearer is an RLC pair, AM for signalling and best effort, UM for
voice and video. RRC and NAS messages and RLC STATUS PDUs skip the bearers and
go to HARQ first. HARQ resends transport blocks; when its feedback is lost it
delivers one twice, so loss and duplication at HARQ is the channel RLC and the
signalling see. Random access gives the UE a C-RNTI, RRC sets up a context
under it, NAS authenticates over that context, and the key they agree on
ciphers the flow. The timer list runs the guards of these procedures. A UE that
is registered calls others by IMSI: the cell that receives a packet finds the
destination among its registrations, or hands it to the neighbour cell over Xn.
A UE that no longer hears its cell reports that, and its cell moves it to the
neighbour over Xn, through the AMF or through a coordinator object, whichever the
deployment wired.

## 2. Modules

- `SduService`: the abstract promise of a bearer. `submitted` and `delivered`
  are sequences; delivered SDUs are accepted ones, whole, in order, at most
  once, and with `Lossless` none is passed over.
- `RlcAm`: one `AmTx`/`AmRx` pair. `Tx` is `AmTx::tx` (window check, then
  segmentation), `TxTick` the probe, `OnStatus` cumulative acknowledgement and
  the rate-limited NACK burst. `Rx` splits `AmRx::rx` by its early returns:
  duplicate, stale, ahead of the window edge, in order; `RxTick` is the
  reordering deadline. `wire` and `fb` are PDUs and STATUS PDUs in flight.
  `sent`, `submitted` and `delivered` are history.
- `RlcAmInv`: the inductive invariant `BearerInv` of that pair.
- `RlcUm`: `UmTx`/`UmRx`: reorder window, duplicate filter, shared reorder timer.
- `Harq`: `HarqTx` with its processes and `HarqRx` with its soft buffers.
  Decoding is a nondeterministic outcome; the bit lengths that decide whether
  two attempts are combined are computed. Each node resets its own end, so
  `ResetTx` and `ResetRx` are separate actions and leave frames and feedback in
  flight. `stale` is history: the processes that have had something in flight
  ever since `ResetTx` cut their exchange.
- `TimerList`: `schedule`, `cancel`, `clear`, and `tick` taken apart into its
  snapshot (`TickBegin`), one step per due timer, and `TickEnd`, so that
  callbacks can change the table in between. The clock wraps. `silenced` is
  history: timers that were cancelled or cleared, and one-shots that ran.
- `Signalling`, `UeControl`, `BsControl`, `Connection`: the messages, the UE's
  handlers, the cell's handlers, and both on one link. A handler is a function
  from the node's state (a record) to its next state, in the order of the
  calls in the code; `out` collects what it sends. `Connection` makes each
  handler, user command and timer an action.
- `Qos`, `Streams`, `UserPlane`: `Qos` is `BearerSet` (five queues, shedding at
  the limit, `pop_next` with the best-effort count), `Streams` the counters of
  `OutStream`, `InStream` and of the pings. `UserPlane` puts them together: a
  peer's media comes down through a flow of the cell, acks and pings go up
  through the UE's bearers; pipes lose, calls are redialled, the UE is suspended.
  `suspended` and `inactive` are the resume identities of the parked flow and of
  the sleeping UE; when uplink data has un-parked the flow meanwhile they differ.
  A resume that is refused or stalls (`ResumeFails`) ends the call at the UE and
  gives it a new flow.
- `UeCalls`, `ConfBridge`, `Calls`: the dialogs of a UE with their timers, streams
  and bearers (`handle_sig`, `start_call`, `erase_dialog` and so on, as functions
  of the UE's record), the membership the cell overhears (`snoop_conf_sig`,
  `conf_leave`), and three UEs over links that lose, with UEs that leave.
- `Gnb`, `Amf`, `Handover`, `UeMobility`, `Mobility`: `Gnb` is what one cell does
  in handover, re-establishment and NAS routing, `Amf` the AMF with the gNB's
  handlers for what it sends, `Handover` the three carriers, the Xn handlers
  and the forwarding of user data, `UeMobility` the UE. In-memory carriers deliver
  inside `send`, so a handler is a function on the whole network; Xn messages and
  PDUs are in flight. `Mobility` has the actions.
- `MC*`: instances for TLC. `*Proofs`, `NatSetInduction`: theorems.

Abstractions. Payload bytes are (SDU, piece) pairs. Milliseconds are ticks, and
a timestamp is kept as its age up to the timeout it is compared with. A
challenge and the session key derived from it are the number of the
authentication vector. A frame ciphered under another key than the receiver's
is not read. Hash tables keyed by TMSI are walked in an arbitrary order
(`Order`), because the code's result depends on the first match.

## 3. Runs

States are distinct states found by TLC.

| Run | Checks | States |
|---|---|---|
| `am_lossless` | no deadline: every SDU delivered, in order, once (`ImplementsService`); the awaited SN is not filtered as duplicate; the backlog bound | 135,541 |
| `am_skip` | with the deadline: still whole, in order, at most once; `BearerInv`, by which `AmTx` keeps every PDU the receiver has not passed; every gap is filled or skipped (`GapsResolve`) | 10,705 |
| `um` | whole SDUs in order; the reorder timer runs exactly while a PDU is held; holds lie in the window; held PDUs are released (`HeldReleased`) | 54,957 |
| `harq` | feedback meets the block it is about, and an ACK frees a process only for a decoded block, both except while the remains of an exchange cut by a reset of the transmitter are in flight; every process becomes free (`ProcessFreed`) | 284,997 |
| `timers` | no timer early, none overdue after a tick; one that was cancelled or cleared, also by a callback of the tick that found it due, and a one-shot that ran never run again (`CancelledSilent`); each armed one fires or is cancelled | 80,448 |
| `conn` | registration, key and routing agree between UE and cell; an INACTIVE context has a parked flow; every wait has a guard timer | 2,504,172 |
| `calls` | a stream has its dialog (`MediaGated`); SIG is up while there is a dialog, a stream's bearer is up, and a media bearer only while there is a dialog of its class (`BearersUsed`); an outgoing call that rings has its no-answer timer, between UEs that number calls apart (`RingingGuardedApart`); between such UEs, where nothing was lost and none left, a 1:1 call one end reported established is so at the other once nothing is under way between them (`TalkingPaired`); a conference the cell keeps has its host and a second member or an open invitation (`ConfAlive`) | 1,440,322 |
| `userplane` | queues and pipes stay in bound; best effort waits for at most three picks; while a UE sleeps on the identity its flow is parked under, only control is in flight to it (`SleepsUndisturbed`); the books of streams balance; every media packet is settled in the end (`AcksResolved`) | 989,294 |
| `mobility` | no two UEs share a C-RNTI; a connected UE has a context, its key and its route where it is; UE and AMF hold the same key; after a handover a UE is registered and routed in one cell only, and texts find it | 1,318,831 |

Runs that end in a violation check one statement the repository makes about
itself; each is a finding in `PROJECT.json`, with the quoted line.

| Run | The statement, and what the run shows |
|---|---|
| `am_stranded` | The deadline of `AmRx::tick` frees what was blocked. It jumps past the highest hole, so PDUs held between two holes stay behind the edge and are lost although they arrived. |
| `conn_crossing` | Content from a suspended UE proves that the suspend RELEASE was lost. Content that crossed the RELEASE looks the same: the cell drops the resume identity the UE is about to keep. |
| `mobility_tmsi` | Forwarding over Xn keeps texts flowing between parties on different cells. Both cells number TMSIs from the same start; a UE that is handed over takes the entries of the UE with its TMSI in the target, which is then unreachable. |

Every property of a passing run has a mutant: a plausible slip in one mapped
definition (a dropped guard, an off-by-one, a missing reset) under which TLC
finds the property violated.

### Bounds, and why they suffice

- `am_lossless`: 5 PDUs, SDUs of up to 2 segments, window 2 plus reserve 1. Two
  holes with a PDU between them, a segmented SDU that overshoots the window, a
  refused SDU, and STATUS PDUs that arrive late or twice are all reachable.
  `CountMod = MaxHoles = 2` keeps the code's relation in small: 256 holes and a
  one-byte count, so that a full list is written as a count of 0.
- `am_skip`: 3 PDUs under fairness; a deadline of one tick races every
  retransmission. `am_stranded` needs a fourth PDU for two separate holes.
- `um`: 5 PDUs and a window of 3, so a PDU can arrive past the window and force
  a resynchronisation, with SDUs of up to 3 segments to lose the middle of.
  SNs do not wrap in this run.
- `harq`: two processes, three blocks, one retransmission, and a round trip of 1
  tick under a timeout of 2, as the comment on `ack_timeout_ms` requires. Resets
  are not bounded: a process can be reset, take a new block and meet the feedback
  of the old one. `FeedbackCorrect` covers longer round trips.
- `timers`: a clock of 8 ms wraps many times; three timers, delays 0, 1, 3, ticks
  up to 3 ms late, so timers fall behind by more than an interval.
- `conn`: two C-RNTIs, TMSIs and challenges, one suspension, expiry and
  duplicate, two frames in flight. An attach can be cut short and repeated, a
  resume can take a second C-RNTI, and messages of two attempts can cross.
  The theorems of section 4 cover the larger values.
- `calls`: three UEs, of which two answer by themselves and one hosts conferences;
  four commands, detaches, losses or the like, and two messages on a link.
  Two UEs number their calls apart and two alike, so ids collide and do not. A
  call can be crossed by another, by its CANCEL or BYE, and be redialled. The
  timers of a call fire in any order, since their delays are configured. A
  conference id is made of the host's C-RNTI, or of 0 when the host is asleep; with
  one host in the run, two sleeping hosts with the same id do not occur.
- `userplane`: queues of 2, two HARQ processes, four packets, suspensions or
  redials together. That overflows a queue, runs the best-effort count past
  its threshold, lets an ack of the old call meet the new one, and lets uplink
  data cross a RELEASE on its way down.
- `mobility`: two UEs, two cells, all three carriers; two random accesses and two
  preparations in a cell, two challenges, five attaches, reports, texts,
  failures, losses or detaches together. A UE can move, move back, fail in
  between and text a UE that moved. An event at a UE waits until fewer than two
  messages are under way; those still arrive in every order.

### Fairness

- RLC: both nodes tick (`WF`: the main loop calls `tick()` for ever), and a PDU
  or STATUS that is sent again and again is received in the end (`SF`, per SN:
  the channel drops frames independently, it does not single one out). Nothing
  is assumed of new SDUs, losses or resets.
- UM and HARQ: only that the node keeps ticking. Nothing is assumed of the channel.
- Timers: a tick that began finishes, and the clock advances. `SF` on the advancing
  tick, because callbacks and calls from outside come in between.
- `userplane`: only the sweep of the acks, a periodic timer that runs while there
  is a stream, and that in the end finds every entry too old.
- `Connection`, `Calls` and `Mobility` are checked without fairness. What they need
  of time is stated as safety: a wait always has an armed timer (`WaitGuarded`,
  `RingingGuardedApart`). That an armed timer fires is `ArmedFires` of
  `TimerList`.

## 4. Proofs

| Theorem | Statement | Assumes |
|---|---|---|
| `RlcAmProofs!TypeCorrect` | types of the AM bearer | constants only |
| `RlcAmSafetyProofs!BearerCorrect` | `BearerInv` | no SN wrap |
| `RlcAmSafetyProofs!AwaitedKept` | `AmTx` keeps what `AmRx` has not passed | no SN wrap |
| `RlcAmSafetyProofs!BearerImplementsService` | `RlcAm` implements `SduService` | no SN wrap |
| `RlcAmBufferProofs!BacklogLimit` | bound on the unacked backlog | constants only |
| `RlcAmBufferProofs!AwaitedNotFiltered` | the duplicate filter never drops the awaited PDU | no wrap, no deadline, hold area as large as the backlog |
| `RlcUmProofs!WindowCorrect` | window, filter and timer of UM | SNs within half the space |
| `HarqProofs!BudgetCorrect` | types and transmission budget | constants only |
| `HarqProofs!FeedbackCorrect` | `FeedbackCurrent` and `AckedReceived`: feedback is about the current block, outside the remains of a cut exchange | `Rtt < AckTimeout` |
| `ConnectionProofs!ConnectionTypes` | types of UE, cell and link | constants only |
| `ConnectionProofs!InactiveIsParked` | an INACTIVE context has a parked flow | constants only |
| `ConnectionProofs!WaitsAreGuarded` | every wait of the UE has a timer | constants only |
| `UserPlaneProofs!SenderBalanced` | media packets are acked, lost or awaited, once | constants only |
| `UserPlaneProofs!PingsBalanced` | the same of pings | constants only |

The arguments:

- AM. Delivery in order is not inductive. `BearerInv` adds that an SN names one
  PDU wherever it is kept (`SnNamesPdu`), that no STATUS in flight acknowledges
  past the receiver (`WindowInv`), that the PDUs built so far are the pieces of
  the SDUs in order (`SegmentsInv`), and that the receiver's partial SDU and
  output are a function of the edge `vr_next` (`ReassemblyInv`). One delivery may
  drain any number of held PDUs; that step is an induction, done with
  `NatSetInduction`, which states induction on sets. Refinement follows, since a
  longer output is again a subsequence of what was accepted.
- `AwaitedNotFiltered` needs that every filtered SN is passed or held
  (`FilterInv`), which is false once a PDU is filtered but finds the hold area
  full. Hence its assumption. With the node configuration (limit 64, reserve 4,
  hold area 512) the hold area suffices as long as an SDU has at most 445
  segments; the other assumption, no deadline, is `t_reorder_ms = 0`.
- UM. `WindowInv`: what is held lies strictly inside the window, what the filter
  knows is passed or held, and the timer runs exactly while something is held.
- HARQ. The budget needs that a busy process counts what its block was sent and
  that no two share a block (`BudgetInv`). Feedback needs `RoundTripInv`: a
  process not in `stale` has at most one message in flight, as old as its last
  transmission, so none survives the timeout after which the process may carry
  another block. Only `ResetTx` adds to `stale`, and a process leaves it when nothing
  of it is in flight (`StaleKept`), at which point it satisfies the rest trivially.
- Connection. `IInv` joins soundness of frames (no sequence number ahead of the
  challenges drawn), `Parked`, and `Guarded`: random access runs only for a
  wanted attach or a resume, only a UE with a C-RNTI becomes CONNECTED, and a
  registration without a connection exists only during a resume. The last is why
  the attach guard may spare a registered UE. Each handler is shown to
  preserve its part by a lemma, and the step theorem has one case per action.

- User plane. The balance alone is not inductive: a number that is handed out must
  not be awaited already. `OutInv` and `PingInv` add that what is awaited is a
  finite set of numbers handed out. Three lemmas say what adding one, settling
  one and settling many does to the size of that set.

`BearerInv` and the other strengthenings were checked with TLC before they were
proved. The runs leave out what a theorem above settles for every value of the
constants: the type invariants of `RlcAm`, `Harq` and `Connection`, `AwaitedPduKept`,
`RetxBudget` and `PingBalance`. The type invariants of `RlcUm`, `TimerList` and
`Calls` say what the variables range over; they hold in the instances of those
runs.

Only model-checked: every liveness property (`GapsResolve`, `HeldReleased`,
`ProcessFreed`, `ArmedFires`, `AcksResolved`), since the prover does not treat
fairness; refinement of `SduService` by `RlcUm`; all of `TimerList`, `Calls` and
`Mobility`; `RegisteredKnown`, `KeysAgree` and `RoutedHome` of `Connection`;
`Bounded`, `BestEffortShare`, `ReceiverBalance` and `SleepsUndisturbed` of `UserPlane`,
whose drain loops are folds.

## 5. Limits of the results

- AM compares SNs as plain integers; all AM results are up to the first wrap of
  the 16-bit SN. What the code does afterwards is a listed hazard.
- A full list of 256 holes asks for no retransmission (its one-byte count is 0).
  `GapsResolve` holds all the same: the probe and the deadline make up for it.
- `KeysAgree` and `RoutedHome` are stated for links that deliver no frame twice
  and cells that let no context expire; otherwise a repeated message can draw a
  second challenge or restart a context, and the two sides differ until the
  next attach.
- Feedback and resets of HARQ. The cell's suspend callback resets its `HarqTx` and
  queues the RELEASE while the C-RNTI stays valid, so an ACK of an earlier block
  that is still under way can free the process that now carries the RELEASE before
  the UE decoded it; nothing resends it then. `FeedbackCurrent` and
  `AckedReceived` exempt a process for as long as anything it had in flight at the
  reset has not drained, and say that no other reset, timeout or order of
  messages makes feedback meet a wrong block. Without the exemption TLC refutes
  both within five steps. Resets that come with a new C-RNTI have no such
  case: what was in flight reaches nobody. At the connection level a lost RELEASE
  is a loss like any other, and `Connection` has it.
- `SleepsUndisturbed` speaks of a UE whose identity the cell still holds. After
  uplink data has crossed the RELEASE (`conn_crossing`) the cell sends to a UE that
  is asleep.
- In the AM run `AwaitedSnNotSeen` is checked with a hold area that cannot fill; a
  full one is what the premise of `AwaitedNotFiltered` excludes.
- HARQ hands a block up twice when an ACK is lost. That is by design; the RLC
  and connection models take such duplicates as input.

### Statements that do not hold

The modules also state what a comment or a name in the code suggests and the
code does not do. Each is marked in its module. TLC refutes it as the INVARIANT
(`UnackedReleased`: the PROPERTY) of the model's configuration, with
`MCRlcAm_skip.cfg` for `UnackedReleased` and other constants in two cases:
`InSendingOrder` takes `MildSpec` with `SnMod` 8, `MaxPdus` 9, `MaxSegs` 1,
`Window` 3, `TReorder` 1, `SeenMax` 4, and `AttachReadable` takes
`MCConnection_crossing.cfg` with `MaxCrnti` 3, `MaxTmsi`, `MaxChallenge` and
`MaxTimers` 2, `MaxExpire` 1.

- `UnackedReleased` (`RlcAm`): `AmRx::rx` returns at its duplicate check before it
  looks at the poll bit, so the probe of PDUs that did arrive is never answered
  and a sender whose STATUS was lost keeps them.
- `InSendingOrder` (`RlcUm`): across a wrap of the SN, `on_reorder_timeout` resumes
  at the numerically lowest held SN, which is not the oldest.
- `RetxIsCombined` (`Harq`): two attempts are compared by length before and after
  padding is cut, so they are never combined.
- `AttachReadable` (`Connection`): after a failed resume the UE still ciphers with
  the old key, and the cell has none for the new flow.
- `RingingGuarded` (`Calls`): both ends number calls from 1 and look them up by
  peer and number, so of two crossing calls one can lose its timer.
- `DetachedLeft` (`Calls`): the purge of a member that detaches comes after its
  registration, and with it the IMSI, is gone.
- `ConfTalkingPaired` (`Calls`): media of any member makes a party take itself for
  established, also one the host has no established call with.
- `AckProvesDelivery` (`UserPlane`): `sweep_stream_acks` counts an old packet as
  delivered when a later acknowledgement came, though the packet may be lost.

Known of the code and outside these statements: `detach()` from INACTIVE leaves
`detach_after_resume_` set when the resume fails; a context that expires after its
RELEASE was lost leaves a UE that believes itself connected, since the link
watchdog is off by default; `initiated_ho_` keeps the entry of a handover whose
preparation was lost and refuses later ones; the AMF and coordinator carriers do
not suppress a second handover, which is why `RouteFollows` and `OneHome` are
about Xn; a handover that begins before the attach is through moves a context
without its key (`AttachesThrough`).

## 6. Not modelled

PHY (floating-point signal processing), link adaptation, cryptographic functions
and codecs are pure computation without protocol state, and appear only through
their outcome: a frame is decoded or not, a message is readable or not. RLC
transparent mode is the identity. Transport, logging, process mains and the
tools are input and output. PDCP has a counter per entity and no other state.
The UPF keeps one route per TMSI, rewritten by each uplink packet, and echoes;
the gNBs never send it a PATH_SWITCH, so no other step of it matters.

`Connection` has one UE and one cell, a provisioned subscriber with a matching
key and the embedded core; contention between UEs and MAC failure are left out.
`Mobility` folds the steps of random access and RRC setup into one, since
`Connection` has them, and has no RRC_INACTIVE. That re-establishment resets the
AM entities of the UE and not those of the cell is a hazard without a model:
`RlcAm` resets both ends together. Paging of a parked callee is in `Connection`,
not in `Calls`. `purge_conf_member` is never reached with a known IMSI and is no
action of `Calls`.
