# Verification of rithmic-nt-connect

This directory holds TLA+ modules for `rithmic-nt-connect`, the adapter that connects
NautilusTrader to the Rithmic trading venue: the Nautilus clients and the gateway client in
Python, and the session host in Rust. The modules are translated from the source,
model-checked with TLC on small instances, and proved with TLAPS for every value of their
constants: every safety property that a run checks is a theorem. Liveness is model-checked.

## 1. The system

One Rithmic credential allows one login. Several consumers (a Nautilus data client, an
execution client, tools, other processes) want the venue at the same time. The **session
host** (`crates/rithmic-host`) owns the login and shares it: consumers attach to it directly
from Python, or over a socket through the **gateway**. The **Nautilus clients**
(`python/rithmic_nt_connect`) run on one asyncio event loop, call the session in worker
threads, and translate between the venue and the engine.

```
 NautilusTrader engine
    | commands, events, reports
 execution client            data client                 tools
  order plant + barrier       intents + replay            inventory
  recovery bridge, pollers    tape (book, quotes, bars)      |
  intake, drain, exposure                                    |
    |      direct facade         |      gateway client -- socket -- gateway server
    v                            v                                       v
   +----------------------- rithmic-host -------------------------------------+
   | registry + flock -> SessionHost -> LocalSession (one per attachment)     |
   | IntentStore, subscriptions, order gate | FanoutHub -> delivery queues    |
   | recovery pump                          | StreamHub lanes                 |
   +----------------------------------^----------------------^----------------+
                                      | calls                | events
                            rithmic-plants: VenueSession, plants  --  the venue
```

### Components

| Component | State | Operations | What makes it correct |
|---|---|---|---|
| execution plant and recovery bridge (`execution.py`, `recovery_bridge.py`, `polling.py`, `_order_plant.py`) | plant state, poll tasks, PnL epoch and observation, restore task and its generations | connect, disconnect, transport events, restore attempts, gap recovery, resync, commands | orders go out only on a venue state that was re-read; a live plant is polled; no Resumed is lost |
| order intake and reconciliation (`notification_intake.py`, `recon.py`, `_orders.py`, `order_rows.py`, `execution.py`) | fill keys, untracked statuses, venue ids, the engine's orders | submit, bracket, modify, cancel, notifications, drains, reports, queries | an order's life goes forward, each fill is told once, brackets are whole |
| exposure and inventory (`execution.py`, `exposure.py`, `inventory.py`) | position rows with their time and epoch, unreadable rows | PnL rows, resync, exposure request, position reports | "complete is the only proof": what is claimed is true |
| market-data client (`data.py`) | intents, wire periods, half a book update, best quotes, last bar | (un)subscribe, replay, resync, dispatch, requests | what is remembered is served; nothing is mixed, repeated or published before it is final |
| Python gateway client (`rithmic_gateway`) | socket, receive buffer, bounded queue | attach, handshake, RPC, poll | nothing vanishes, no answer meets another request, calls return |
| stream lanes (`streams.rs`) | channel, carry, generation, `up`, `closed`, failure | attach, detach, forward, fail, `take`, `wait_up` | events are handed out or counted as lost, a failure never overtakes them, no wake-up is lost |
| delivery queues (`local/delivery.rs`) | bounded queue and pending gap per stream, barriers | push, read, `try_recv`, flush, `take_events`, close | a loss is told exactly, at its place, before the barrier behind it |
| market-data subscriptions (`local/subscriptions.rs`, `intents.rs`, `local/context.rs`) | reference counts, degraded set, topic locks | subscribe, refresh, unsubscribe, rejoin, teardown, ticker reset | counts match holders; what is held is joined or known to be dark |
| order and bracket subscriptions (same files, `local.rs`) | two counts, `order_closed`, the order gate | subscribe, leave, re-seat, ensure, disconnect, commands | as above, and a session that closed the plant sends no order |
| recovery pump (`pump.rs`, `pump/degraded.rs`) | `ready`, `recovering`, `failed`, attempts, the plan | interrupt, rebuild, restore passes, resume, fail | a recovery ends |
| host lifecycle, registry, credential lock (`host.rs`, `registry.rs`, `flock.rs`), direct facade | attachments, `closing`, registry entry, file lock | open, attach, connect, detach, shutdown, evict | one login per credential; the lock comes back |
| PnL subscriptions, fan-out hub, gates, history, venue session, gateway server and Rust client | see section 7 | | |

The hard behaviour is where these meet: a transport break told by another thread while a
barrier is between two awaits; a drain or a poll that began before an anomaly and is used
after it; the same fill live, repeated and reconciled; commands that overlap in worker
threads; a late answer on a reused socket; a queue that overflows with a barrier in it; a
recovery that starts while a command is under way. `PROJECT.json` lists each such place with
its source line under `hazards`.

## 2. Modules

| Module | Models | Proofs |
|---|---|---|
| `ExecPlant` | when the execution client lets orders out | `ExecPlantProofs` |
| `Orders`, `OrderLife` | what the engine is told of orders; the promise it refines | `OrdersProofs` |
| `Exposure` | position rows, exposure replies, position reports, inventory | `ClientProofs` |
| `DataIntents` | the data client's subscriptions and their replay | `ClientProofs` |
| `DataTape` | book, quotes, bars, resync and history requests | `ClientProofs` |
| `GwClient` | attach, RPC, poll and framing over the gateway socket | `GwClientProofs` |
| `Delivery` | the queues of one attachment | `HostProofs` (second part) |
| `Lane` | one stream lane, its forwarders and its consumer | `LaneProofs` |
| `Subscriptions` (`MCSubscriptions`) | market-data intents, pump restore and retry, ticker reset | `SubscriptionsProofs` |
| `OrderPlant` (`MCOrderPlant`) | order and bracket intents, order commands, order recovery | `OrderPlantProofs` |
| `Host` | registry, lock, connect, shutdown, recovery flags, facades | `HostProofs` |

`ClientProofs` and `HostProofs` each EXTEND the specifications they are about, which is why
`Host`, `Exposure` and `DataIntents` give `Init`, `Next`, `Spec` and `vars` names of their own
(`HostSpec`, `ExposureSpec`, `IntentsSpec`).

The two `MC` modules add only the symmetry sets that the configurations name. The map in
`PROJECT.json` gives the source lines of every definition. An operator with the comment
"Mutant" is a faulty variant that no specification uses; put in place of the definition it
precedes, it breaks the property that `PROJECT.json` names.

**Granularity.** In the Python clients an action is the code between two awaits, since the
event loop changes tasks nowhere else; a session call in a worker thread starts in one action
and ends, well or badly, in another. In the Rust host a step runs to the next await, lock
acquisition or racing atomic access.

**ExecPlant.** `plant` is the `PlantPolicy` state. Three kinds of code run a barrier
(subscribe, drain, PnL gate, `rearm`): connect (`main`), the restore task (`restore`) and an
order poller that met a gap; `bar[b]` is how far each is. `lq` holds the callbacks that the
transport thread queued on the loop; `task`, `pendGen` and `lastGen` are the bridge's. Epochs
are abstracted to one bit: whether the PnL poll in flight began on the present one
(`current`). History: `unread` holds from an anomaly until a drain begun after it is applied;
`shared` and `alone` say whether barriers overlapped; `since` and `seen` which barriers a poll
and an observation are younger than; `owed` the last Resumed.

**Orders.** The venue's truth is `hist`, the events of each order. A notification or drain
row is an order and the number of an event. A drain is any prefix of each order's events,
which covers every moment its thread may have loaded it. The engine is external: a record
per order, moved by events and reports. Prices, sides and terms are reduced to two facts: a
fill may have no price, and a row's terms may be too vague to bind an id. `OrderLife` is the
abstract specification: what a strategy is promised of its own orders. There the orders move
independently, so one step may speak of several, as a reconciliation does. Left out are a
fill without size or trade id, which is dropped, and the touches by which
`generate_fill_reports` makes keys it looks up the most recent ones of the store.

**Exposure.** Each contract has a true net and an order of size 2. Rows travel on `wire`; a
new subscription sends an account row and a burst of the rows that are not flat, which is
through within the settle window (the assumption behind `PNL_SETTLE_NS`). `missed` and
`skipped` record changes lost with a stream or discarded on an older epoch. The inventory of
the tools is a pure function of the rows, checked in every state against the truth; its two
loops (`Inventory` over order rows, `poll_into` over the burst) are recursive functions on how
many rows are read, and `signed_net` is the number of long units less that of short ones: both
forms are what the prover can reason about.

**DataIntents.** One instrument. A holder is a tick kind, the book or an EXTERNAL bar type;
`ops` are commands whose venue call runs; `joined` is what the venue serves. `replay` is the
intents still to be issued after a connect or a gap. `cloud` marks a group in which an
unsubscribe overlapped another call, `early` a replay of a tick intent whose own call then
failed: both are exempted (section 6).

**DataTape.** Two streams (`ticker`, `history`) with a poller each and one resync lock. Book
messages carry the number of their venue update, quotes the side and the gap count, bars
their close; bars are stamped at their open or their close (`onClose`). Any message may be
one that cannot be read or converted: `_dispatch_event` counts it and passes over it
(`Unreadable`). What the assembler holds then stays, but for an image that fails behind its
pop, and the side of a quote may be merged all the same. Two history variables record why a
batch may be mixed: `stale` after a resync that was skipped, `torn` from an unread begin that
finds parts of an earlier update until they are emptied, replaced or published.

**GwClient.** A frame is two chunks, so that a read can stop inside one. The io lock is held
for a whole call, so `op` is the call under way. The parent is external: it may be absent,
start late, be silent, die, answer late. `inbox` and `reached` say which requests it can
still read, or has read. Left out are a write that times out and leaves the connection open,
and the frame without a request by which a parent says that it shuts down.

**Delivery.** A record is flattened to its events. `slots[s]` is a queue, `skipped[s]` and
`gap_sequence[s]` its pending gap; a push, its overflow loop, the native read, the
transport's merge and a barrier are actions of their own.

**Lane.** The lane has no lock, so each load and store is a step. It assumes of its owner
what `session.rs` does: plants are closed before they are connected again.

**Subscriptions.** A client runs one command at a time; `joined` is what the venue streams,
and each venue call may fail. The pump rebuilds plants, which empties their joins, and
restores from the plan in passes; what never comes back is degraded and retried.

**OrderPlant.** A session may run several calls at once, which meet in its `order_gate`. The
trading gate is taken as open; the order gate is granted in any order (Tokio's is first-come,
so the model has more interleavings). An order sent while a disconnect is counted may wait or
go; the venue session refuses some of those.

**Host.** Hosts are incarnations; `facade[f].step` follows a facade through `get_or_start`,
`attach`, `connect` and `disconnect`; `pump` and `down` are the recovery and the shutdown of
each host; `flock` may also be taken by another process. A reconnect may be requested while
a recovery already runs, as a leave or a ticker reset that fails can do.

## 3. Runs

| Run | Shows | Bounds and why they are enough |
|---|---|---|
| `exec_plant` | a plant armed by a barrier that ran alone has re-read the venue; a live plant has a poller; the PnL gate passes on fresh rows; no Resumed is lost | one connect, two attempts, two Resumed, one poller that can be started again, one queued callback: two barriers overlap, a Resumed waits behind a restore, attempts run out (the theorems cover any number of pollers and connects) |
| `orders` | each fill once, keys earned, brackets whole, drains never regress, `OrderLife` is implemented | one own and one foreign order of size 2, three venue events, a store of one key: partial fill, fill and cancel, repeats, eviction of a key |
| `exposure` | a complete reply, a report and a live inventory are true | two contracts, two changes, a settle window of two in four ticks: a resync inside the window, a contract closed while the stream was down |
| `data_intents` | what is remembered is what is served | four commands, two at once, 60-MINUTE and 1-HOUR bars (one feed), two connects, one gap |
| `data_tape` | nothing mixed, only closed bars, live bars move on, requests end | five inputs, streams of one event, two bars, a request with a limit of one: two updates begin and end, each part lost to a gap or unread, and a quote or a bar besides |
| `gw_client` | nothing vanishes, answers meet their request, "not sent" is true, framing stays aligned, calls return | two streams over a queue of two, three events, two RPCs, one connect with its retries |
| `delivery` | loss is told exactly, in sequence order, before the barrier behind it | two streams, capacity 2, batches of 2, gaps of unknown and known size, four sequence numbers |
| `lane` | nothing vanishes over two attachments, failures after events, no lost wake-up | capacity 2, takes of 2, three messages: a full channel, a carry, stale items of both kinds |
| `subscriptions` | counts match holders; what is held is joined or degraded; what is joined is held | two clients, one symbol with ticker and book, one failure or reset, two restore passes |
| `order_plant` | the venue streams what is held, holders are delivered to, a closed plant admits no order | two sessions, two calls at once, one plant failure |
| `host` | one login per credential, no leaked lock, recovery ends, a failed host gives its lock back | two facades, another process, one incarnation, two failures, two attempts (any number of incarnations: the theorem) |
| `data_shared_period` | the disagreement of section 6 | 1-MINUTE and 60-MINUTE bars |

The type invariant `TypeOK` of a module holds under the module's configuration as well; the
runs spend their time on the properties above.

`CHECK_DEADLOCK FALSE` is set where the bounds are used up or all consumers are gone and the
system rests.

**Fairness.** `GwClient`: the thread inside a call runs and clocks advance; nothing is
assumed of the parent. `DataTape`: the loop runs what is ready, a load in its thread ends
(it has a timeout), and time passes. `Host`: weak fairness of steps that nothing blocks
(Tokio polls every woken task, each venue call has a deadline), strong fairness of the
acquisition of the venue gate (Tokio's lock is first-come). Nothing is assumed of a consumer
or of the venue.

**Exceptions by name.** `ArmedAloneIsReread` speaks of barriers that ran alone. `KeyIsEarned`
excepts keys that mass status consumes (`spent`). `CompleteIsTrue` and `ReportIsTrue` except
changes still on their way, lost with a stream whose failure nobody has met, or discarded on
an older epoch. `NothingMixed` excepts a resync skipped because another one succeeded
meanwhile (`stale`), and an update whose begin could not be read while parts of an earlier
update, the end of which could not be read either, were held (`torn`); quotes are never
excepted for the second reason, and no other unreadable message mixes anything. `HeldIsServed` and `NoGhostFeed` of `DataIntents` except `cloud` and `early`. In
the host, `HeldIsServed`, `NoOrphanJoin` and `HeldIsStreamed` except a leave the venue refused
(`refused`), a disconnect that timed out (`stuck`) and a command a recovery did not wait for
(`overtaken`); after a legacy ticker reset `HeldIsServed` says nothing of books and
`NoOrphanJoin` nothing at all. Section 6 describes each case.

## 4. Proofs

| Theorem | Statement | Argument |
|---|---|---|
| `ExecPlantProofs!ArmedIsRead` | `Spec => []ArmedAloneIsReread` | `ReadInv`: the client listens from the attempt on (`Listens`); a barrier that has CONNECTING for itself covers the last anomaly (`BarrierReads`), because every anomaly also latches the plant or starts a barrier, which makes the others shared; so what it arms is read (`ArmedReads`, also while a resync is under way) |
| `ExecPlantProofs!LivePlantIsPolled` | `Spec => []LiveHasPoller` | `PollInv`: a poller that recovers a gap is alive; whatever ends a poller disarms the plant, or the client stops serving |
| `ExecPlantProofs!PnlGateIsFresh` | `Spec => []GateIsFresh` | `GateInv`: a poll on the present epoch, and an observation that stands, are younger than every open barrier, since each barrier resets both when it opens; connect does so before it dials (`OpensLater`) |
| `ExecPlantProofs!EveryResumeIsTaken` | `Spec => []NoLostResume` | `ResumeInv`: a Resumed that is owed is the newest generation, and it is done, or the last callback in the queue, or under restore, or next to be restored (`OwedIsHeld`); no generation anywhere is newer (`Generations`) |
| `HostProofs!TypeCorrect` | `Spec => []TypeOK` | one case per action; the operation in progress under the mutex is part of the invariant |
| `HostProofs!GapAccountingExact` | `Spec => []ExactGap` | each stream's queued events have consecutive positions that end at what was published; stated with the drop loop's own offset |
| `HostProofs!MergeKeepsOrder` | `Spec => []MergedOrder` | `MergeInv`: in every queue the sequence numbers rise (`Rising`), all lie between the last one handed out and the next to be given (`InWindow`), no two queues share one (`Apart`), and the barriers are in order in the same window (`BarriersRise`) |
| `HostProofs!BarriersAreExact` | `Spec => []BarrierCoversPublished` | `BarriersCover`: on every stream, what is numbered behind a queued barrier was published behind its mark, a pending gap included |
| `HostProofs!BareSignalsAreNative` | `Spec => []SignalOvertakesNothing` | `BareIsNative`: a signal without a barrier commits the attachment to native reads, after which no transport can claim it |
| `LaneProofs!NothingQueuedVanishes` | `Spec => []NothingVanishes` | `CountInv`: `drain` and `finish` only move messages between channel, carry, batch and the counts; the one drain that starts without the carry meets an empty one (`NothingCarried`) |
| `LaneProofs!FailuresComeLast` | `Spec => []FailureAfterEvents` | `BehindEvents`: a recorded failure counts no more messages than its forwarder has queued (`Recorded`), and the take that reports it found the channel empty |
| `LaneProofs!WakeupsAreKept` | `Spec => []NoLostWakeup` | `Awake`: from the moment it registers, whatever the consumer has seen of `up`, `fail` and `closed` still holds, or a notification is pending, or the attach or detach that will send one is under way |
| `LaneProofs!NeverGoesBack` | `Spec => HandedInOrder` | `OrderInv`: channel and carry are in order and lie behind what was handed out; a take that has loaded the generation is not behind it; a drain owed an older generation than the last one handed out finds nothing, since attachments have odd generations (`Attachments`) |
| `SubscriptionsProofs!RefcountExact` | `Spec => []RefsExact` | `RefsInv`: types, `OwnSet` (a count in transit belongs to a client that does, or does not, hold the intent), `RefsExact`; cardinalities change by one exactly when the count does |
| `SubscriptionsProofs!HeldIntentsAreServed` | `Spec => []HeldIsServed` | `ServeInv`: who works on an intent holds its symbol's lock and what it has read there stays true (`WorkInv`); while the pump recovers, its retry is gone and commands still under way count as overtaken (`PhaseInv`); each held intent is joined, degraded, or in the hand or the plan of somebody (`GoodIntent`) |
| `SubscriptionsProofs!JoinsAreHeld` | `Spec => []NoOrphanJoin` | the same `ServeInv`: a join without a holder belongs to a caller that is about to leave it, and a plan saved by the pump names only joins that it will check again |
| `HostProofs!OneLoginPerCredential` | `Spec => []LoginUnderLock` | `LockInv`: types, `Started`, `GateHeld` (whoever is about to log in holds the venue gate), `StaysDown` (a host past its disconnect admits no login), `LockKept` |
| `HostProofs!LockNeverLeaks` | `Spec => []NoLeakedLock` | `LeakInv`: the attachment count is the number of facades attached (`Counted`), and a host that has the lock without an attachment, and is not closing, never had one and has its opener on the way (`UnusedIsFresh`) |
| `OrderPlantProofs!OrderCountsExact` | `Spec => []RefsExact` | `LocksInv` (who works on the plant has the gate and the topic lock) and `HoldInv` (`Own`: what a call at each of its steps holds or is about to give back) |
| `OrderPlantProofs!HoldersAreDelivered` | `Spec => []HolderIsDelivered` | part of `HoldInv`, with `BracketsRideOrders`: a bracket intent is held only with the order intent |
| `OrderPlantProofs!ClosedSessionStaysDown` | `Spec => []StaysDown` | `DownInv`: a session that a lone disconnect took down is closed (`DownIsClosed`), the marks count the disconnects under way (`MarksCounted`), and a command past its check is awaited by a disconnect that has not got the gate (`ReadersAwaited`) |
| `OrderPlantProofs!HeldOrdersAreStreamed` | `Spec => []HeldIsStreamed` | `StreamInv`: a held intent is streamed, in the hand of a call (`InHand`) or in the plan of a recovery (`Planned`), but for the cases the property excepts; streams exist only on an open plant |
| `GwClientProofs!FramesAreWhole` | `Spec => []StreamStaysAligned` | `WireInv`: on the buffer followed by the wire the halves of frames come in turn (`Alternates`), also after a read that was cut short |
| `GwClientProofs!NoAnswerIsMisread` | `Spec => []AnswerMeetsItsRequest` | `WireInv`: request ids are used once (`Ids`), and an open stream carries at most the reply that is awaited (`OneReply`), since whatever gives up on a reply closes the stream |
| `GwClientProofs!NotSentIsTrue` | `Spec => []NotSentNeverReached` | `Ids`: a call that ends in `not_sent` either has no id or was given a fresh one that it never wrote, and ids are not used again |
| `GwClientProofs!NothingReadVanishes` | `Spec => []NothingVanishes` | `KeepInv`: read = accounted + queued on every stream; the queue is counted as a set of units, which concatenation adds up (`HeldJoined`); each round of the loop that makes room turns a data event into one more loss of its stream (`HeldDropped`), and the loop is a recursive function with a solution (`RoundByRound`), both by a least counterexample |
| `OrdersProofs!RecordsFitTheVenue` | `Spec => []OrdersInv` | histories are lives (`HistOK`); the record of an order fits its history (`RecordsOK`); so do notifications and held reports (`RowsOK`), commands under way (`CallsOK`) and bracket exits (`ExitsOK`) |
| `OrdersProofs!BracketsAreWhole` | `Spec => []BracketIsWhole` | `ExitsOK`: exits are denied or rejected only with their entry, and a record that is denied or rejected fits no order the venue took |
| `OrdersProofs!DrainsNeverRegress` | `Spec => []DrainNeverRegresses` | from `OrdersInv`: a closed record is left alone, and a row older than the live events of an order is held back by the barrier |
| `OrdersProofs!EachFillOnce`, `KeysAreEarned` | `Spec => []FillOnce`, `[]KeyIsEarned` | `FillsInv`: what the engine was told, what mass status consumed and what the store evicted account for every key (`ToldOK`) |
| `OrdersProofs!OrdersImplementOrderLife` | `Spec => ImplementsOrderLife` | every step is a step of the venue, the submission of an order, or one that moves records toward what the venue did; each is, for every own order, a step of `OrderLife` or a stutter |
| `ClientProofs!OnlyClosedBarsArePublished` | `Spec => []OnlyClosedBars` (of `DataTape`) | `BarInv`: what a request has loaded ends no later than the bars that are closed (`RowsFinal`); what was published is final and was noted at its close (`SeenNoted`) |
| `ClientProofs!LiveBarsMoveOn` | `Spec => LiveMovesOn` | from `BarInv`: every bar ever published, a lookback's included, is noted at or before the last close, and a live bar is published only behind it |
| `ClientProofs!NothingIsMixed` | `Spec => []NothingMixed` | `BookFits`: on the batch followed by the queue each part of an update continues the one before it, unless a gap took its place (`Linked`); what is half received is what the tape continues, unless `stale` or `torn` (`PendingFits`), also past messages that cannot be read (`BookHandled`); past a gap nothing is half received (`GapForgets`) and no side of the quote is older than it (`QuoteFits`) |
| `ClientProofs!CompleteIsProof` | `ExposureSpec => []CompleteIsTrue` | `StreamInv`: the last row on the wire of each contract has its net (`LastRowIsNet`), the burst ends within the window (`BurstInWindow`), and a contract with nothing on its way, lost, discarded or unreadable has its row of this stream right, or no such row and is flat (`RowsAreTrue`); with `DrainIsTrue`, and the lemma that `signed_net` of the fresh rows is the net of all contracts |
| `ClientProofs!ReportsAreTrue` | `ExposureSpec => []ReportIsTrue` | from `StreamInv` |
| `ClientProofs!InventoriesAreTrue` | `ExposureSpec => []InventoryIsTrue` | a closed form of each loop (`Known`, `Polls`) satisfies its recursion step by step, and only one function does (`StepwiseEqual`, by the least index where two differ); the burst lists each open contract once |
| `ClientProofs!IntentsAreServed` | `IntentsSpec => []HeldIsServed` | `IntentsInv`: what the client takes itself to be subscribed to is joined, still to be replayed, or being left by a call that already succeeded (`ClaimsServed`); a call of a holder is one of its kind, and an unsubscribe alone in its group (`OneCall`, `Alone`); tick intents and their calls account for one another (`TickInv`); a bar type is under exactly its wire periods, and what a failed call puts back is still joined and polled (`BarsInv`) |
| `ClientProofs!NothingIsHaunted` | `Separate => (IntentsSpec => []NoGhostFeed)` | `GhostInv`: what is joined is claimed, just subscribed, or about to be put back (`JoinedClaimed`), and what a replay still issues is claimed (`ReplayClaimed`) |

The theorems hold for every set of pollers, clients, facades or bar types, every finite set
of contracts, every capacity and every bound; they use the named assumptions of the modules,
which TLC evaluates in the runs. None of the properties is inductive as it stands: each
forgets what happens between the step that establishes it and the state that shows it, which
is what the named strengthenings say.

Two theorems say less than "always", and why:

- `NothingIsHaunted` has the hypothesis `Separate`: bar types whose wire periods overlap are
  of one feed. It holds for 60-MINUTE and 1-HOUR bars (run `data_intents`); it fails for
  1-MINUTE with 60-MINUTE bars, where the property itself is violated (run
  `data_shared_period`, section 6). `HeldIsServed` needs no such hypothesis.
- `ExposureAssumption` asks for a finite set of contracts, since a net is a sum over them.

Loops over data are proved without induction, which the provers cannot instantiate: a closed
form is shown to satisfy the recursion at each step, and a least counterexample (`LeastNat`)
excludes any other function. `GwClientProofs` does so for the loop that makes room in a queue,
`ClientProofs` for both loops of the inventory.

Only model-checked: liveness (`RequestsEnd`, `CallsReturn`, `RecoveryEnds`,
`FailedIsReleased`), since fairness and `ENABLED` are outside the prover; and the violation
shown by `data_shared_period`, which is a counterexample.

## 5. Plan

1. `PnL`: subscribe and leave per account, added to the recovery of `OrderPlant`.
2. `VenueSession`: bring-up, plant reset with epochs, order operations in flight against a
   disconnect; the external steps of `OrderPlant` and `Host` become its actions.
3. `GatewayServer` and the Rust gateway client: connection lanes, reconnect epochs, idle exit
   and the parent singleton.
4. `Fanout` and `History`: membership by interest; admission of history under live data.

## 6. What the checks found

`data_shared_period` ends in a counterexample: 1-MINUTE bars are registered under the wire
periods 1 and 60, 60-MINUTE bars under 60 and 3600, so `_unsubscribe_bars` keeps the feed of
one for the other, against its comment (`data.py:1263-1264`). For the same reason
`bar_types_for_event` gives a 1-minute bar echoed with period 60 to 60-MINUTE types too.

The rest has no run of its own. Where a property is named in parentheses it is defined in
the module, and TLC finds it violated when a configuration lists it.

Execution plant:

- Overlapping barriers share the one CONNECTING state: the first to finish arms on its own
  drain although the other was begun by a later anomaly.
- A `_connect_attempt` that fails after arming leaves the plant LIVE with its pollers
  cancelled (the properties speak of a client that serves), and one that finds a poller in
  `_order_poll_task` overwrites it. A queued `_start` runs after `detach`.
- A restore during connect skips the PnL gate when the stream is not yet connected. A channel
  resync goes from RESYNCING to LIVE without a drain.
- `_recover_order_gap` changes the PnL epoch on a healthy stream, and the batch in flight is
  discarded: its position rows are lost until the next change (`skipped`).

Orders:

- `order_status_from_fields` reads every fill as FILLED (`order_rows.py:85-98`): a partly
  filled working order counts as closed, and not as an open order in an exposure reply.
- `generate_mass_status` consumes fill keys through `generate_fill_reports` and drops the
  reports. Its order reports are filtered before a second await, and may say WORKING of an
  order that closed meanwhile.
- A late notification of a closed tracked order takes the untracked path; `stale_reason`
  compares the local clock with venue time; `publish_untracked_status` answers True when no
  report can be built.
- The exits' client order ids never appear at the venue, so bracket legs stay SUBMITTED;
  `_bracket_ticks` rounds a distance that its denial calls "a whole number of ticks", and
  takes its absolute value without looking at the side.

Exposure:

- A contract whose last row could not be read is reported FLAT by a mass status when the
  engine holds it open, although `_cache_position` says "never flat"; `_positions_known`
  looks only for rows without a symbol. A mass status does not wait for the settle window.
- `Inventory._ingest_position` ignores a row without a symbol, so `pnl_live` can hold although
  a position is missing.

Data client:

- Overlapping commands (`cloud`): a subscribe during an unsubscribe makes no venue call; a
  failing subscribe removes a newer intent set; a failing unsubscribe restores over newer
  state; the legacy fallback of `_remove_ticker_intent` leaves the venue while the other kind
  is held.
- `_ensure_history_poll_task` never starts a finished task again; a failed `_resync_channel`
  is not retried; a resync skipped because the other poller's succeeded meanwhile keeps half
  a book update and one-sided quotes. Failed requests are answered without a tag.
- A book message that cannot be read is passed over and the assembler keeps what it holds
  (`data.py:1095-1100`, `1122-1125`; `order_book_to_fields`, the price precision and
  `_changed_levels` all come before the pop). When the end of one update and the begin of the
  next cannot be read, the parts of the first are published with the end of the second
  (`UpdateIsOneBatch`), against "a multi-message update is one batch" (`data.py:471-472`). A
  snapshot that is not read drops no half-received update, and an update with an unread part
  is published without the levels of that part.

Gateway client:

- An event can be delivered before the report of an earlier loss on its stream
  (`LossReportedFirst`, `client.py:884-888`), and a fatal error in a poll leaves the socket
  set (`FatalCloses`). The RPC timeout starts anew with every read.

Session host:

- `StreamTx::fail` tests the generation and stores the failure in two steps; a re-attach in
  between gives the old failure to the new attachment (`FailureOfThisAttachment`), against
  `streams.rs:15-16`.
- Teardown ignores a failed leave, and the next first holder sends a bare repeat subscribe of
  a book (`NoRepeatBook`), against the design document.
- `connect` looks at `recovering`, awaits the plants and stores `ready` in the middle of a
  recovery that began during the await (`NotHalfRestored`, `host.rs:395-427`).
- A shutdown aborts the pump between storing `failed` and waking the waiters of `connect`,
  one of which waits for ever (`ConnectReturns`, `pump.rs:301`).
- A subscribe that overlaps a disconnect of the order plant by the same session clears
  `order_closed` after the disconnect set it (`StaysDownAlways`, `local.rs:211`).
- The roll-back of a refused order subscribe times out behind an order in flight, and the
  intent stays although the venue never accepted it (`NoHalfAppliedOrder`).
- A published gap of size 0 that overflow drops is not told (`delivery.rs:178`); a stale
  `Gap(n)` in a lane counts as one lost event (`streams.rs:390`); the legacy ticker reset can
  clear the degraded flag of a book that fails to refresh; a recovery does not wait for the
  command of a detached session; an order command that waited through a whole recovery for
  the venue gate is sent afterwards.

## 7. Not modelled

- PnL subscriptions, fan-out hub, admission gates, history loads, venue session, gateway
  server and Rust gateway client: items 1 to 4 of the plan.
- Instrument providers, front month, commissions: loads at start that fill a table.
- Historical download, verification tools and scripts: batch programs, one request after the
  other.
- Configuration, factories, environment: values validated once.
- Wire records, value conversion, order terms, logging and redaction: no state.
- The load generator and the scripted venue of the tests: not part of the product.
