# UE-Sim: specifications, model checking and proofs

UE-Sim is a fork of ns-3.44 with two simulators of scale-up and Ultra Ethernet
fabrics: **Soft-UE** (`src/src/soft-ue`: semantic sublayer, packet delivery
sublayer, delivery contexts, net device and channel) and **SUE-Sim**
(`src/src/sue-sim-module`: XPUs, a switch, credit-based flow control, link-level
retry, load balancing). Both are event-driven: one event runs at a time, an
event runs to its end, and what is hard is the order of the events — packets
that overtake each other, timers that race with answers, wakeups scheduled under
conditions that may no longer hold, counters released twice or never.

This directory holds TLA+ specifications of the protocol cores of both
simulators, TLC configurations, and proofs checked by TLAPS. Paths below are
relative to the repository's copy, so its `src/` directory is `src/src/`.

## Contents

| Module | What it is |
|---|---|
| `ReliableWindow` | what a reliable delivery context promises: a stream of numbered packets |
| `Tpdc` | the two windows of a TPDC, its timers, NACKs and SACKs, over a lossy reordering channel |
| `TpdcDelivery` | `Tpdc` together with what the PDS manager hands to the layer above |
| `TpdcProofs` | the invariants of both proved, that `Tpdc` implements `ReliableWindow`, and that an acknowledged packet has been handed up |
| `PdsReceive` | the semantic receive state of the PDS manager |
| `PdsReceiveProofs` | its invariants and action property proved |
| `PdsSessions` | which context a packet goes through: ids, their reuse, sessions, receive contexts |
| `PdsSessionsProofs` | its invariants proved |
| `SesRequester`, `MCSesRequester` | the requester half of the SES manager with the budgets it takes from the PDS manager |
| `SesRequesterProofs` | its invariants and action property proved |
| `SesResponder`, `MCSesResponder` | the responder half: repeated requests, the queues of responses, the READ budget |
| `SesResponderProofs` | its invariants proved |
| `SueLink`, `MCSueLink` | the SUE fabric: queues, credits and events of XPUs and a switch |
| `SueLinkProofs` | no forgotten work, conservation of credits, no drops: proved |
| `SueLlr` | link-level retry on one link, both directions |
| `SueLlrProofs` | its invariants proved, and that no answer finds its packet |
| `SueClient` | generator, load balancer, client and VC queue of an XPU, with time |
| `OrderedDelivery` | what a client promises: each destination gets its transactions in order |
| `SueClientProofs` | types and capacity proved; order, and that `SueClient` implements `OrderedDelivery`, for rounds that do not overlap |

## 1. Inventory

### Soft-UE

**TPDC** (`model/pdc/tpdc.cc`). State: the send window (`m_sendBuffer`,
`m_sendWindowBase`, next sequence number), the queue behind a closed window
(`m_sendQueue`), the receive window (`m_receiveWindowBase`, `m_receiveBuffer`),
a retransmission count and a timer per packet in flight. Operations: SendPacket,
ProcessSendQueue, HandleAck (cumulative and selective), gap NACK, RTO timeout,
RetransmitPacket, HandleDataPacket. Both ends only interact through packets of
the channel, which may be lost or overtake each other. Correct when: nothing the
sender still needs is forgotten, acknowledgments are true, the two windows never
drift apart, and accepted packets are delivered.

**PDS manager** (`model/pds/pds-manager.cc`). Four parts:
*dispatch* (`ProcessSesRequest`, `ProcessReceivedPacket`), which picks or
allocates a context and hands received packets up; *PDC ids* (`AllocatePdc`,
`ReleasePdc`, `EnsureReceivePdc`: a table, a queue of free ids, sessions per
destination); *send admission* (two counters per manager, reserved and released
by SES, with a callback when a slot becomes free); and the *semantic receive
state*: receive contexts, pools of arrival blocks, unexpected messages and READ
tracks, posted receives, READ response targets, tombstones of retired keys, and
time-based pruning. Correct when: pool counters equal what the contexts hold,
a retired message never comes back, a posted receive and the message it fits
find each other whichever comes first, ids are not reused while packets of
the old context are about.

**SES manager** (`model/ses/ses-manager.cc`). *Requester*: a lifecycle state
per request (phase, reservations, retries, deadline, generation numbers), a
queue per destination of requests waiting for a budget, wakeups and a drain
loop, responses and terminal reasons. *Responder*: incoming SEND, WRITE, READ;
a pending-response queue per peer, retried when the PDC layer refuses; a READ
responder budget. It calls the PDS manager synchronously and is called back
when budgets become free; the two share the send-admission and READ-responder
counters. Correct when: every live request is driven by something (a deadline,
a retry, a queue place), budgets are given back exactly once, a finished
request never comes alive again, a blocked request is woken.

**MSN table and operation metadata** (`model/ses/msn-entry.cc`,
`operation-metadata.cc`). A bounded table from message numbers to PDCs with
expiry. Correct when entries of live messages are not evicted.

**IPDC** (`model/pdc/ipdc.cc`, on `pdc-base.cc`). Fire-and-forget sending with
statistics; keeps no protocol state that influences delivery.

**RTO timer** (`model/pdc/rto-timer`). Included by `tpdc.h`; TPDC schedules its
own events and never uses it.

**Headers, tags and statistics** (`common/`, `pds/pds-header.cc`,
`pds/pds-statistics.cc`). Serialisation and counters.

**Soft-UE channel and net device** (`model/network/`). The channel has drop
probability, delays, queues and ECMP paths; the device connects the managers to
it. Seen from a context: a packet arrives late, or never, never twice.

### SUE-Sim

**Net device, channel, switch, VC queues** (`point-to-point-sue-net-device.cc`,
`point-to-point-sue-channel.cc`, `sue-switch.cc`, `sue-queue-manager.cc`). A
device has a main queue (credit and retry packets), a queue per virtual channel,
a processing queue, a transmitter that is READY or BUSY, and pending events
(TryTransmit, TransmitComplete, StartProcessing, credit generation). A switch
port refuses a packet while it forwards another one or has no credits for the
egress port: head-of-line blocking. Correct when: no combination of arrivals
and completions leaves work behind that no event will pick up, and no queue
overflows.

**CBFC** (`sue-cbfc.cc`). Credits per peer and VC (`m_txCreditsMap`), credits
to return (`m_rxCreditsToReturnMap`), batches. Correct when the credits of a
link add up in every state: nothing lost, nothing made.

**LLR** (`sue-llr.cc`). Sequence numbers, send list, ACK, NACK and timeout of
one link; off by default. Correct when a lost packet is repeated and nothing is
delivered twice.

**Client, server, load balancer, generators** (`sue-client.cc`,
`sue-server.cc`, `load-balancer.cc`, `traffic-generator*.cc`). The client packs
transactions by destination and VC and reserves VC capacity before it sends;
the load balancer spreads transactions over clients, buffers those that find no
room and pauses the generator at a high-water mark. Correct when buffered
transactions are sent once room appears, in order per destination, and a paused
generator is resumed.

**Logging, utilities, set-up, scenarios, scripts.** CSV output, field access,
construction of a topology before the simulation starts, evaluation of logs.

**ns-3.** Upstream code. One promise of it is used: every event that is
scheduled and not cancelled runs, one at a time.

### What is hard here

* *Ordering*: the channel reorders; data, acknowledgments, responses and credit
  packets race with timers; a posted receive races with the message it fits.
* *Conditional wakeups*: TryTransmit, StartProcessing, queue drains and retries
  are scheduled only under a condition; the event that would have fixed a
  missing wakeup may never come.
* *Budgets*: retransmissions, admission slots, pools, credits and queue room are
  reserved in one handler and released in another, sometimes two layers away.
* *Stale state*: generation numbers, tombstones, timestamps, ids that are
  reused, a lifecycle record replaced while others still refer to it.
* *Partial failure*: a message of several packets of which one is refused.

`PROJECT.json` lists the hazards one by one at their lines, with the properties that
cover each; a note says why where none does.

## 2. The modules and the code

### `Tpdc`, `ReliableWindow`, `TpdcDelivery`

`Tpdc` is one sending and one receiving context with the channel between them.
Sender variables are the send queue, the packets in flight, the retransmission
counts and the armed timers; receiver variables are the window base and the
early arrivals that are buffered; the network is a bag of data and control
packets (cumulative ACK, SACK and NACK in one). Actions are the handlers:
SendPacket (window open or closed), arrival of a data packet (in order, early,
old, outside the window) or of a control packet, the pending acknowledgment, the
timeout of a packet, and loss of a packet. Each action does what the
handler does to its end, including the trailing ProcessSendQueue and the ACK it
sends.

Abstractions, and why they are sound:

* Packets are numbered from 1 and a run stops at `MaxPackets`; the wrap of the
  32-bit numbers and of the 8-bit retransmission counter is not reached.
* The send queue is a number: its order, and the priority of READ responses in
  it, do not affect which *sequence numbers* are used.
* Time is abstracted. With `PrematureRto = TRUE` a timer may expire at any
  moment, which covers every RTO estimate. With `FALSE` it expires only when
  nothing is in flight, the case of an RTO above the round-trip time.
* The channel may drop (`MaxLosses` bounds it) and delays without bound,
  so packets overtake each other. It never duplicates, as in the code.
* `DoPeriodicProcessing` calls ProcessSendQueue. `QueueOnlyBehindClosedWindow`
  shows that the call finds nothing to do, so it is not an action.
* TransmitToChannel fails only without a channel; `ForceRetransmission`,
  `ClearSendBuffer`, `ClearReceiveBuffer` and `UpdateTpdcConfiguration` have no
  callers.

`ReliableWindow` is the abstract view: packets are issued in order, received,
and acknowledged by the sender only after they have been received. `Tpdc`
implements it (`StreamSpec`): checked by TLC and proved.

`TpdcDelivery` adds the receive path of `PdsManager::ProcessReceivedPacket`,
which passes every data packet up as it arrives, whatever the context does
with it.

### `PdsReceive`

The receive contexts, posted receives, READ targets, tombstones and pools of the
PDS manager. A message is (job, message id, source), a context adds the PDC it
came on; a message has a few chunks. Actions: a chunk of a SEND or a READ
response arrives; a receive is posted; a READ target is registered or
unregistered; the clock ticks; the manager is reset. Every handler prunes
expired contexts and tombstones first (as in the code, except unregistering).

Abstractions: time is kept as ages that grow with `Tick` and saturate just above
`Ttl`; a retired context and an absent one are the same, a consumed posted
receive is a removed one; chunks arrive in any order, number and time; which of
several waiting contexts a posted receive meets is left open, because the code
walks an `unordered_map`; payload bytes and the observation hooks are left out.

### `PdsSessions`

The tables of the `PdsManager` of one sending node and of its peers: contexts
by id (`m_pdcs`), the bitmap, the queue of released ids, `m_nextPdcId`, the
sessions of the reliable modes, and the receive contexts that every node keeps
for each (source, id) it has heard of. Actions: a packet of the layer above is
dispatched to a new context or to that of its session, a context is released, a
data packet or a control packet arrives, a receive context acknowledges. A
control packet finds its context by its id alone, so an acknowledgment meant for
a released context reaches the one that has the id now.

Abstractions: of a context only the numbering is kept (`Tpdc` has the rest): next
number, window base, packets that wait because the base is beyond the next
number. A packet that was sent stays in `net` and may arrive at any time, any
number of times or never, which covers loss, reordering, and retransmission. The
bound `PeerRoom` stands for what a peer's limit leaves to this source.
`uses` and `handed` are history variables.

### `SesRequester`

The life of a request: phase, whether it waits for admission or for the READ
responder budget, its reservations, its deadline and retry (`linked`,
`retries`), the per-peer queue, the wakeups pending, the drain loop, and the
responses in flight. Actions: submit, drain one head of a queue, a wakeup, a
deadline, a retry, a response of any code, a response lost. Each contains the
whole chain of calls: a terminal response releases budgets, which schedules
wakeups of blocked peers, which is how requests depend on each other.

Abstractions: byte limits behave as the message limits do and are left out; the
credit gate is dead code; partial READ responses re-arm an existing deadline;
a periodic pass over several requests is a sequence of single timeouts;
branches that need `linked` and not at the head, or a generation that differs
from the current attempt without being stale, are unreachable.

### `SesResponder`

The responder's tables: the response pending for a key (job, message id,
source), the queue of keys of each peer, the drain events and the READ-responder
budget. Actions: a READ or another request is answered, possibly again; a drain
event; the periodic drain; Reset; and the PDC layer, which takes every packet or
may refuse some (`room`). A response that is refused is queued under a fresh
`PendingResponseState`, which is not marked as queued even if the key is in the
queue already, and which has forgotten a reservation made before.

Abstractions: a request is one chunk; whether it is answered with data, OK or an
error is left open (`PdsReceive` has the receive state that decides); budgets
count messages, not bytes; a response of several packets is refused or sent as a
whole, since a refused one is sent again from its first packet; times are replaced
by "due" and "not yet due".

### `SueLink`

XPU *x* is linked to switch port *x* and sends its packets to `Dest[x]`. Per
device: credits towards its link peer, packets owed credit, credit packets being
generated, in the main queue and on the wire, data on the wire, the processing
queue and the flags of pending events. Per flow: the VC queue of the source, the
ingress port forwarding, the VC queue of the egress port, and the credits the
ingress port has for it. Actions: Submit, TryTransmit (a credit packet first,
then a data packet if credits allow), TransmitComplete, arrival of data, arrival
of credits on the link and inside the switch, StartProcessing, delivery at an
XPU, forwarding or refusing at a port, ForwardingComplete, SendCreditPacket.

Costs are the code's: `Cost(n)` credits for *n* bytes, charged for the packet
with its PPP header on a link, returned for the packet without PPP (switch) or
without PPP and Ethernet headers (XPU); inside the switch charged without and
returned with the PPP header. A batch is sent when enough credits have
accumulated, and its size is an 8-bit field.

Abstractions: one virtual channel; link-level retry and receive errors off (the
defaults); packets of one size, so a queue is a number; the order between flows
in an egress VC queue is left open; several pending events of one kind on one
device are one flag (a second TryTransmit or StartProcessing finds the device as
the first one left it, with nothing it can do before another event schedules
it again); the two credit-return events scheduled with zero delay run with the
handler that schedules them. The reservation of VC room by the client is the
guard of `Submit` (`SueClient` has the client's side of it).

`MCSueLink` has three XPUs of which two send to the third and the third answers.

### `SueLlr`

One link with a NIC and a switch port, data in both directions, and on each end
the sequence number, the list of kept packets, `m_waitSeq`, the resend flag and
the timer. Actions: a packet is numbered and queued; data arrives; an ACK or NACK
is sent, arrives, and is processed (three events); the receive error model
corrupts either; the timer fires. Two habits of the device are part of the model
because they decide everything: `InitializeLlr`, which empties the list, is called
at every entry point, and nothing calls `LlrResendPacket`.

Abstractions: one virtual channel (channels share nothing); queues and wire are
one FIFO per direction for data, control packets overtake it; numbers do not wrap;
what a switch does with a packet between its ports is left to `SueLink`.

### `SueClient`

The generator, the load balancer with its buffer, one client with a queue per
destination, and one VC queue. A round (`ScheduleNextSend`) turns the free room
of the VC queue into a number of transactions, packs those at the head of the
queue that has waited longest into bursts, reserves their room and schedules them
one packing delay apart; the transactions stay in the queue. Each burst
(`DoSendBurst`) puts its packet into the VC queue, releases its reservation and
takes as many transactions from the queue as it carries, each with a callback that
lets a buffered transaction move up and, when none is left, resumes the generator.

Time is kept here, as the time to each pending event, because the hazard is in the
order of the two: with `SchedulingInterval` and `PackingDelay` in ns, `Advance`
moves to the next event. The order of events at one instant is that of ns-3: the
one scheduled first. An entry of a queue has an age, of which only the order and
the value zero matter: `Advance` makes every age the rank it has among the ages.

Abstractions: one client and one device (the load balancer's alternative path
never finds another one), one VC, transactions of one size, and a generator
that may produce at any moment between events; of heads that have waited equally
long any may be packed (the code takes the first of its map); one header size
(section 4); a burst of at most 255 transactions, the range of the `uint8_t` that
counts them. That the reservation succeeds is
asserted in the code (`CapacityCovered` shows that it does); the reservation is
made *inside* the assertion, so an optimised build of the code makes none.

`OrderedDelivery` is the abstract view of the client: transactions are offered, and the
next few for a destination are delivered together, in order and each once.

## 3. Model checking

| Run | Instance | Distinct states | Question |
|---|---|---|---|
| `tpdc_safety` | `TpdcDelivery`, window 3, receive window 2, one early arrival buffered, 4 packets, 2 losses, 1 retransmission, timeouts at any moment | 318,677 | safety of the windows, refinement, and hand-up |
| `tpdc_liveness` | `Tpdc`, windows 3, budget 6, 5 packets, 3 losses, no premature timeout | 37,092 | are timers kept, is everything delivered |
| `pds_receive` | 2 SENDs, 1 READ, 2 PDCs, 2 chunks each, 3 arrival blocks, 2 unexpected messages, 1 track | 51,608 | receive state |
| `pds_sessions` | 2 peers, a reliable and an unreliable mode, 3 ids of which 2 at a time, 4 packets, one receive context per peer | 1,272,269 | ids, sessions, acknowledgments |
| `ses_requester` | 2 SENDs, 1 silent WRITE, 1 READ, one peer, 2 packets, limit 2, 2 retries | 1,199,917 | safety of the lifecycle |
| `ses_completion` | 2 SENDs, 2 WRITEs, limit 1, room for one packet, no retries | 2,367 | wakeups and termination |
| `ses_admission` | 2 SENDs, 1 WRITE, 1 READ, limit 1, 1 retry | violation | finding 1 |
| `ses_responder` | 2 READs of one peer, 1 WRITE of another, each asked up to 3 times, budget 2 | 53,152 | responses, order, budget |
| `sue_link` | 3 XPUs, 2 + 1 packets through one egress port, 1 packet back | 388,832 | credits, drops, wakeups, delivery |
| `sue_llr` | 2 packets in each direction, 1 loss | 46,114 | order and delivery |
| `sue_client` | 2 destinations, 7 transactions, queues of 5, bursts of 2, VC room for 3 bursts | 266,253 | order, reservations, pause and resume |
| `sue_overlap` | 1 destination, 10 transactions, VC room for 4 bursts | violation | finding 2 |

**`tpdc_safety`.** `AcksAreTrue`: every cumulative number, SACK and NACK in flight
tells the truth even when it arrives late. `NeverReneges`: the window bases never
move back and what was received stays received. `StreamSpec`: `Tpdc` implements
`ReliableWindow`. `ForgottenWasHandedUp`: what the sender forgets the layer above
has been given.
*Bounds.* Four packets through a window of three reuse the window, a receive
window smaller than the send window makes arrivals outside it happen, one early
arrival buffered makes the buffer overflow, two losses are enough for a lost
packet and a lost acknowledgment of its copy, one retransmission reaches the
exhausted budget.

**`tpdc_liveness`.** Under weak fairness of deliveries, pending acknowledgments
and timers, every accepted packet is numbered and received in order
(`GuaranteedDelivery`), and a packet in flight has a timer unless its budget is
spent (`TimerOrExhausted`). Delivery needs a budget well above the window: with a
window of three and a budget of two it fails after one loss (section 4).

**`pds_receive`.** `PoolsMatchContexts`: the counters are the sums over active
contexts, so no path leaks a block or frees it twice. `TombstoneShutsOut`: while
the tombstone of a finished SEND stands, a context it left on another PDC waits
for no receive and is gone before the tombstone is. `NoMissedMatch`: no message
waits in the unexpected pool while a receive for it is posted.
`MatchedHasReceive`: a matched message has its receive still posted, unless it
was finished on another PDC. `AcceptedIsKept`: a message the endpoint began to
buffer keeps its chunks until it is finished, has been silent for the lifetime
of a context, or the endpoint is reset. *Bounds.* Three messages compete for
three blocks, two of them for the unexpected pool, two PDCs allow the same
message under two keys; `Ttl = 1` reaches fresh, stale and expired.

**`pds_sessions`.** `IdsAccountedFor`: the bitmap, the reuse queue and the table
of contexts agree, so no order of allocations and releases loses an id or gives
it out twice. `OneContextPerSession`: a session has one context, in use, of its
destination and mode. `FirstUseDelivers`: on an id used for the first time, what
the window has moved past was passed up by the right peer. *Bounds.* Two contexts
at a time out of three ids reach the limit, the wrap of the scan and the reuse
queue; four packets leave acknowledgments of a first context for a second; one
receive context per peer makes a peer refuse. Without the condition `uses[i] = 1`
the property fails within six steps: section 4.

**`ses_requester`.** `LiveIsDriven`: a live request has a deadline, a retry that
will be executed or a place in its peer's queue. `BudgetCovered`: counters cover the
requests that hold a reservation. `FinishedIsFinal`: a finished request keeps its
outcome and sends nothing more. *Bounds.* Four requests over two slots block one
another; two packets per message give partial refusals; two retries make a retry
stale and then armed again.

**`ses_completion`.** `WakeupNotLost`: a request waiting in a queue while its
budget has room has a wakeup or a drain coming. `EveryRequestEnds`. The run has
one peer and no retries: with two peers, or with retries, TLC finds states in
which a slot is free and a blocked request is not woken (the callback of the
send admission names only the peer whose request released it; a late answer to
an earlier attempt takes the head out of a queue without releasing a budget, so
the next one is not looked at). No comment,
document or test promises otherwise, so these are listed as hazards.

**`ses_responder`.** `NoResponseStranded`: a pending response is in the queue of
its peer, and a queue with entries has a drain coming, although keys are queued
twice and removed out of turn. `NewestAnswered`: of repeated requests the newest
is answered; an older response never takes its place. `ReadBudgetCovered`: the
budget covers the reservations pending responses hold, keeps its limit, and leaks
only through repeated READs (each response that is overwritten keeps its
reservation: the last conjunct says that nothing else leaks). `ResponsesSent`: once
the PDC layer keeps taking packets, every pending response is sent. *Bounds.* Two
READs over a budget of two that leaks can use it up; three askings allow an entry
to be doubled and then removed; the WRITE has a queue of its own.

**`sue_link`.** `CreditsConserved`: the credits a sender has, those of the packets
it has paid for, those owed and those in credit packets (scheduled, queued, on the
wire) sum to the initial credits, on every link and between the ports of the
switch. `Lossless`: no processing, VC or main queue drops a packet.
`WorkNotForgotten`: a device that could transmit has a TryTransmit pending, and a
non-empty processing queue is being served or will be. `PacketsDelivered`: what a
client is given reaches its destination. *Bounds.* 308-byte packets (52 bytes of
headers and a 256-byte transaction) cost 10 credits at 32 bytes each, as in the
default configuration. The other constants are at the edge: credits for two packets
and a batch of two, so every packet of a link may be waiting for its batch;
processing and main queues with room for exactly those; an egress VC queue with
room for the three packets that can meet in it. One less in any queue and a packet
is dropped; 19 credits instead of 20 and a batch is never completed, the link
stands still and `PacketsDelivered` fails. In general the initial credits must be
at least a batch (`BatchPackets(LinkCost) * LinkCost`).

**`sue_llr`.** `PortPassesInOrder`: the switch port passes up 0, 1, 2, ... without
gap or copy, although the counter it expects by also moves with acknowledgments.
`DeliveredUnlessLost`: without a loss every packet arrives. With a loss it may not,
see section 4. *Bounds.* Two packets per direction cross in both orders; one loss
may hit the first packet, the second, or any answer.

**`sue_client`.** `TransactionsInOrder`: every transaction is sent, queued or
buffered, in order and once, though packing and removal are different events.
`CapacityCovered`: the reservations are exactly those of the bursts under way and
fit the VC queue. `EveryTransactionSent`: unless the generator completes (which
stops the rounds, section 4), everything generated is sent. *Bounds.* Queues of
five fill and pause the generator; bursts of two leave odd transactions; three
bursts of 3 ns fit an interval of 10 ns, so rounds do not overlap. **`sue_overlap`**
has room for a fourth burst, and then they do.

**Fairness.** All of it is weak, per kind of event and device, context or
request, and has one justification: ns-3 runs every scheduled event. Nothing
forces an application to send, a responder to answer, the PDC layer to have room,
or the channel not to lose packets; in `SesRequester` a response either comes or
vanishes. The timeout of a packet is fair as long as it is pending. In
`SesResponder` a drain event is fair in the form that finds the head due: it is
scheduled no sooner than the head's next attempt. In `SueClient` the event loop as a
whole (`RunEvents`) and the transmitter are fair, the generator is not. `PdsSessions`
states no liveness.

**Deadlock** is not checked where the system rightly stops: when all packets,
requests or losses that a bound allows have been used up. `PdsReceive` never
stops and is checked for it.

Every property is shown to depend on the code it is about: for each,
`PROJECT.json` names a variant of one definition (kept in the modules as a
"Mutant") under which TLC finds it violated in the same run.

## 4. Findings

Two runs show the code against its own comments:

1. **Admission leak** (`ses_admission`). A retry of a SEND starts from a fresh
   lifecycle state and forgets the admission slot of the previous attempt; the
   slot is never given back, against the comment at `ses-manager.cc:610`.
2. **Overlapping rounds** (`sue_overlap`). When the last burst of a round is sent
   after the next round has begun, that round packs the same transactions again:
   they are sent twice, and the second burst removes others that were never sent,
   against "Remove sent transactions from destination queue after successful send"
   (`sue-client.cc:630`). The attribute defaults (10 ns, 3 ns per burst) overlap from
   the fourth burst on; the configuration program's 100 ns do not.

What else the modelling showed, with the instance that shows it where one line of
a configuration is enough:

* **Order.** The receive context keeps early arrivals in a buffer nobody reads;
  the PDS manager hands every packet up as it arrives, so delivery is not "ordered"
  (`tpdc.h:182`). Two packets that overtake each other show it.
* **Retry budget.** Gap-NACK and timeout retransmissions share one budget; when
  reordering has spent it and one acknowledgment is lost, the window stays closed
  for ever (`tpdc.cc:810`), against "guaranteed delivery" (`src/README.md:250`).
  `TpdcLiveness.cfg` with `MaxRetx = 2` and one loss; 6 against a window of 128 by
  default.
* **Reused ids.** After ReleasePdc an id is given to the next context at once. A late
  acknowledgment of the old one makes the new one count packets as delivered that
  were not, or moves its window beyond its next number, and its packets then wait for
  ever (`pds-manager.cc:2027`). `FirstUseDelivers` without `uses[i] = 1`.
* **READ budget leak.** A repeated READ whose earlier response is still queued takes
  a second reservation, and the first is never given back (`ses-manager.cc:4050`).
* **Credits and headers.** Credits are returned for a packet without its link
  headers. A size that crosses a multiple of the bytes per credit in between loses
  a credit per packet, against "same as consumption logic" (`sue-cbfc.cc:307`):
  `SueLink.cfg` with `Bytes = 322`. The default traffic does not cross one.
* **Link-level retry repeats nothing.** `LlrResendPacket` has no caller and the
  callback of a timeout does nothing while no packet is current; besides, the list of
  kept packets is emptied at every entry point. A lost packet stays lost, and a
  switch port refuses all that follow it, against "Maintain per-VC state for reliable
  delivery to switch port" (`sue-llr.h:74`).
* **Exact room.** When the subtraction that computes how many bursts fit ends at
  exactly zero nothing is sent at all (`sue-client.cc:499`): `SueClient.cfg` with
  `VcRoom = 15`.
* **End of the generator.** `StopAllLogging` clears the flag by which the rounds go
  on, so transactions still queued at that moment are never sent.
* **Headers of a burst.** With the attribute defaults of the classes, 44 bytes of
  headers are counted in one place and 46 in another, and the asserted reservation
  may fail for a full VC queue; the simulation's configuration sets equal ones.

## 5. Proofs

Theorems hold for every value of the constants that satisfies the module's
`ASSUME`, in particular for any number of packets, losses, requests, peers,
XPUs and any window, limit or queue size. Each proof module has the same shape:
an inductive invariant `IInv`, a lemma for the initial states, one lemma per
conjunct (or one step per action) for the next-state relation, and theorems that
follow from `Invariance` by temporal logic.

**`TpdcProofs`.** `IInv` is the invariants of `Tpdc` — `TypeOK`, `TimerOrExhausted`,
`NoPacketForgotten` (a number below the next one is either kept by the
sender or has been received), `WindowsAgree` (send base, receive expectation and next
number are ordered and within one window), `QueueOnlyBehindClosedWindow` and
`EarlyArrivalsBeyondGap` — strengthened with `BufferInWindow` (what is buffered lies in
the window), `DataWasIssued` (a data packet in flight carries a number that was
issued) and `ControlWasTrue` (a control packet in flight was true when it was sent, and
what was true of the receiver then still is). The last one is why a late or reordered
acknowledgment does no harm, and is what makes the others inductive. Theorems:
`TypeCorrect`, `NothingForgotten`, `WindowAgreement`, `QueueWaitsForWindow`,
`TimersStayArmed`, `EarlyArrivals`, `TrueAcks`, `NoReneging`, and `Refinement`
(`Spec => StreamSpec`, the implementation of `ReliableWindow`).

The module is about `TpdcDelivery`, which extends `Tpdc`: the composition takes only
steps of `Tpdc` (`DeliveryIsTpdc`), so the invariant carries over; with "what the
context has taken in was handed up" it gives `HandedUp`.

**`PdsReceiveProofs`.** `IInv` adds `ModesFitKeys` (a SEND's context is never in
READ mode, and conversely). The counters are cardinalities of sets of contexts,
so the core of the proof is how adding, removing and re-labelling contexts
changes these sets. Theorems: `TypeCorrect`, `PoolAccounting`,
`TombstonesShutOut`, `PromptMatch`, `MatchKeepsReceive`, `AcceptedStays`.

**`PdsSessionsProofs`.** `IInv` adds `UsedBefore` (packets and receive contexts exist
only for ids that were used) and, for an id that has had one context, `NetFits` (every
data packet of the id is that context's, every control packet names only numbers that
were handed up) and `TakenFits` (so is what any receive context has taken). Releases
and reuse falsify none of it, since a second context makes `uses` two. Theorems:
`TypeCorrect`, `NoIdLost`, `SessionsHaveOneContext`, `FirstUseIsSound`.

**`SesResponderProofs`.** `IInv` adds `PendingIsNewest` (what is pending answers the
last request of its key, and what is not has been answered) and `ReadsHold` (only
READs hold the budget). The count of the holders is a cardinality; the lemmas say
how one response, or the out-going part of a queue, changes it. Theorems:
`TypeCorrect`, `ResponsesStayQueued`, `NewestWins`, `BudgetIsCovered`.

**`SueLlrProofs`.** `IInv` adds `ListIsNewest` (the list holds at most the newest
number: every entry point has emptied it), `DataIsNumbered` (data on the link
carries numbers that were given out) and `AnswersAreLate` (so do answers, and one
that is to be processed names a number that has left the list). Theorems:
`TypeCorrect`, `PortKeepsOrder`, `NoNeedlessDiscard` (while nothing is lost LLR
discards nothing) and `AnswersFindNothing`: the branch of ProcessLlrAck and
ProcessLlrNack that changes anything is never taken.

**`SesRequesterProofs`.** `IInv` adds `OnlyLiveAct` (only a live request waits,
holds or retries), `LinkedIsQueued`, `StaleIsCovered` (a request with a stale
retry has another driver) and `RetriesLeft`. Theorems: `TypeCorrect`,
`LiveRequestsDriven`, `BudgetsCoverHolders`, `FinishedAreEmpty`,
`FinishedStayFinished`.

*Without retries* (`~RetryEnabled`) more holds. `OnceInv` adds that what waits in a
queue has sent nothing and holds nothing (`QueueIsUnsent`), that no request is in a
retry, and that both counters are exact (`ExactlyHeld`): `UnretriedInvariance`. So
`UnretriedAdmission`: the admission counter is exact, and the leak of `ses_admission`
is due to retries alone. With one peer also `WakeupsKept`, which is `WakeupNotLost`:
a budget becomes free only where a wakeup of this peer follows. Both conditions are
needed, TLC has counterexamples without either (section 3).

**`SueLinkProofs`.** Two layers.

*Without any condition on the configuration*: `IInv` is typing (credits never
below zero), `ServingHasWork`, `SendingIsBusy` and the two halves of
`WorkNotForgotten`. The transmit half rests on one observation, lemma
`WakeSuffices`: a handler that changes what TryTransmit looks at either calls
`Wake` for that device or leaves it BUSY. Theorems `TypeCorrect`,
`WorkRemembered`.

*Under three conditions*: `SameCost` (a packet costs the same with and without its
link headers; section 4 says what happens otherwise), `NoteFits` (a batch fits the
8-bit credit field) and `RoomEnough` (processing queue and main queue hold what the
link credits allow). Counted in packets, every step either pays for one (`Moves`,
second disjunct), completes a batch (third) or receives one (fourth), and the sum is
kept. Room and conservation prove each other: the sum bounds the queues, so no
packet is dropped, so the sum is kept. Theorems `LinksConserve`, `SwitchConserves`,
`AllCreditsConserved`; and with `VcRoomEnough` (an egress VC queue holds what the
credits of all flows into it allow) `NothingDropped`. The default configuration
satisfies all four: 85 credits of 32 bytes are eight packets of 308 bytes, batches
of one, queues of 30 KB. `VcRoomEnough` stops holding when more than twelve ports
send to one.

**`SueClientProofs`.** *For all constants*: `TypeCorrect` (the queues within their
room, one buffered transaction at most, exactly then is the generator paused), and
`CapacityAlwaysCovered`: the reservations are those of the bursts under way and fit
the VC queue. Its core is `PackingFits`: the loop of `ScheduleNextSend`, which takes
full bursts from the free room, and `SmartPacking`, which cuts what the queue has into
bursts, agree for every number of transactions up to what the loop allows.

*For rounds that do not overlap* (`RoundsApart`: the last burst that any free room
allows is sent before the next round; the constants of `SueClient.cfg` satisfy it, those
of `SueOverlap.cfg` do not): `OrderInvariance`, `OrderKept` (`TransactionsInOrder`) and
`NothingLost` (`RemovedWasSent`, the property that `sue_overlap` violates). That what
was sent, waits and is buffered is in order is not inductive, since a burst removes
whatever is at the head when it is sent. `OrderInv` adds `FromTheHead` (bursts under way
carry, one after the other, what is at the head of their queue) and `OneAfterAnother`
(they are of one round, at different times, and sent before the next one), which gives
`FromTheHead` its induction: a round begins with no burst under way. `Refinement`
(`Spec => OrderedSpec`): every burst sent is a step `Deliver` of `OrderedDelivery`, every
transaction generated a step `Offer`, all else stutters. With the constants of
`SueOverlap.cfg` TLC finds `OrderedSpec` violated.

*For an exact room* (`Remaining[VcRoom] = 0`): `ExactRoomSendsNothing`, the
observation "Exact room" of section 4 made a theorem.

The sums and the packing are recursive functions. The library's induction takes a
predicate as parameter, which the provers cannot instantiate; but for *sets* of numbers
induction is a statement of first order (`SetInduction`, from the pigeonhole theorem),
and this is enough to show that such a function exists and what it computes
(`RunningTotal`, `PackableExists`, `PoppedIn`).

**Proved, not checked by a run.** `NoPacketForgotten`, `WindowsAgree`,
`QueueOnlyBehindClosedWindow`, `EarlyArrivalsBeyondGap` (`Tpdc`),
`FinishedHoldsNothing` (`SesRequester`), `NothingDiscarded` (`SueLlr`): steps of the
arguments above that hold for all constants. `OrderedSpec` (`SueClient`): TLC
agrees with it under `SueClient.cfg`, no run lists it.

**Not proved, only model-checked.** Liveness (`GuaranteedDelivery`,
`EveryRequestEnds`, `ResponsesSent`, `PacketsDelivered`, `DeliveredUnlessLost`,
`EveryTransactionSent`): fairness and ENABLED are outside what the provers handle.
Every invariant and action property of the passing runs is stated by a theorem, under
the conditions named above where the code needs some. The violations of section 4 are
counterexamples and need no proof. No module declares a RECURSIVE operator.

## 6. Not modelled

* Between SES and PDS: the composition of requester, responder and receive state.
  Requests of several chunks are therefore not followed from end to end (a WRITE of
  which one chunk is refused, `ses-manager.cc:3725`).
* MSN table, IPDC queues, operation metadata: no handler that is modelled reads
  them.
* Several virtual channels and the shared round-robin position
  (`point-to-point-sue-net-device.cc:687`), several clients and devices per XPU, the
  configurable and the trace generator, the server.
* 32-bit wrap of sequence numbers and the 8-bit retransmission count: out of reach
  of runs of any length that the simulators make.
* Time, except in `SueClient`: RTO estimation, bandwidth and latency. Properties
  here are about order, and hold whatever the times are.
* Payloads, headers, serialisation, statistics, logging, topology construction,
  scenario programs and scripts: no control state.
* `rto-timer`, credits of the PDS manager, `ForceRetransmission`, `LlrResendPacket`,
  the link-retry calls of the switch (`SetLlrSwitchPortManager` has no caller) and
  the other functions without callers: dead code.
* ns-3: taken as the platform. It is vendored whole (LTE, Wi-Fi, TCP, routing and
  the rest), more than nine tenths of the lines of the repository; none of it is
  this project's own code, and only its event loop is used. The modules here cover
  the two simulators (`src/src/soft-ue`, `src/src/sue-sim-module`), which is why the
  covered share of all lines is small.

## 7. What is left

1. **`SesExchange`**: `SesRequester` composed with `SesResponder` and
   `PdsReceive` over a channel of requests and responses, against an abstract
   transaction (a request ends once, as completed only if the responder performed
   it): refinement, first with TLC.
2. **`SueLink` with several VCs and sizes**, and its composition with `SueClient`
   through the VC queue.
3. **`SueClient` with several clients and devices** and the configurable generator.
4. **MSN table, IPDC**: bounded tables and queues.
5. Abstract specifications, with theorems: lossless channels for `SueLink`, the life
   of a request for `SesRequester`.

To run: `tlc -config <cfg> <module>` with the pairs of `PROJECT.json`, and
`tlapm <module>` for the eight proof modules.
