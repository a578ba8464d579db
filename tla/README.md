# Onibi: TLA+ models, checks and proofs

Onibi runs coding agents in tmux sessions on a Mac and gives the owner's phone a
live terminal and a card for every tool call an agent wants approved. Several
processes share that work (the agent's hook, the daemon with its goroutines, the
commands of the owner, the browser, Telegram) and each may stop at any moment.
What must survive that: a tool call is answered with the one decision that was
recorded for it, the terminal on the phone is the terminal on the Mac, only the
owner gets in, and no command loses what the owner configured or stored. This
directory models those protocols from the source.

`PROJECT.json` names, for every definition, the code it stands for (`map`), and
lists the runs, their mutants, the hazards, the findings and the theorems.

## 1. The system

| component | state it keeps | operations | talks to | what makes it correct |
|---|---|---|---|---|
| approval queue (`internal/approval`) | `approvals` rows, waiters, subscriber channels | request, Decide, DecideIdempotently, Cancel, ExpireOverdue, Pending, Subscribe, publish | intake, web, bridges, store | one decision per approval, final; waiter served once; deadline honoured |
| intake and hook (`internal/intake`, `daemon/approvals.go`, `clients/onibi-notify`) | a parked goroutine and a socket per hook | approval RPC, timeout, shutdown | queue, the agent | the hook is told what is recorded, the tool call does what the decision says |
| approval feed (`web/ws_events.go`, `frontend/src/approval.ts`) | channel, sent ids, cards | subscribe, replay, stream | queue, browser | no open approval is missed |
| output hub (`pty/hub.go`, `ring.go`, `transcode.go`) | replay ring, position, coalescing buffer, channel per viewer, partial envelope | TranscodeChunk, Write, flush, SubscribeFrom, unsub, resize, Close | host reader, websocket | newest bytes kept; nothing lost or repeated silently |
| terminal websocket (`web/ws_pty.go`, `frontend/src/ws.ts`) | position of the browser, pump | attach, replay, pump, reconnect | hub | behind the last break, the page is a run of the child's output |
| sessions (`daemon/registry.go`, `store/sessions.go`, restore and capture) | registry, `sessions` rows, tmux targets | start, attach, restore, capture, kill | tmux, store | rows and live targets agree; terminated is final |
| attach hosts, handover (`daemon/tmux.go`) | `webAttachHosts`, `webAttachPending` | EnsureWebPTYHost, HandoverSession, HideSession | tmux, hub | every tmux client that lives has an owner |
| app event bus (`web/event_bus.go`, `frontend/src/events.ts`) | sequence, history, subscribers | Publish, SubscribeFrom | web handlers, browser | what a page counts it has been told |
| pairing and web sessions (`web/pair.go`, `auth.go`, `relay_keys.go`) | tokens, relay keys, `web_sessions` | mint, scan, confirm, bind, hello, revoke | store, every websocket | a token is spent once; sockets are proven and cut off |
| end-to-end envelope (`web/e2e*.go`, `frontend/src/e2e.ts`) | sequence numbers, replay cache | seal, open | websocket, HTTP handlers | nothing is acted on twice within a socket or a replay window |
| `onibi start` and transports (`cli/up.go`, `web/transport`) | address, processes, routes | Enable, Check, Health, Disable | tunnels, the daemon | whatever was opened is closed |
| daemon and service (`daemon/daemon.go`, `intake/server.go`, `service`) | goroutines, socket file, unit file | Run, Close, install, restart | launchd, systemd, hooks | the socket path leads to the daemon that serves |
| Telegram and push (`daemon/telegram_bridge.go`, `chat_bridges.go`, `telegram`, `web/push.go`) | offset, owner, pair code, seen set, send slots | getUpdates, commands, forward, send | queue, sessions, Telegram | an approval is offered once; only the enrolled owner commands |
| adapters (`internal/adapters`) | the agent's hook file, saved copy, hash | install, uninstall, inspect, fix | the agent, its user | the user's hooks survive |
| store and secrets (`internal/store`, `internal/secrets`) | sealed columns, master key, dotenv file | open, rekey, Get, Set, Delete | keyring, every component | rows and key agree, also when a command fails; no command takes another's secret |
| certificates, configuration, snapshots | five PEM files; `config.yaml`; snapshot rows | EnsureCert; set, init, migrate; create, restore, fork | phones; commands; sessions | trusted; nothing lost; the branch is the snapshot |
| prompts, idle notices, audit log, doctor, rendering, CLI text, browser panels | | | | not modelled, section 5 |

What is hard here:

* **Interleaving.** A decision is a SELECT, an UPDATE, a delivery and a publication,
  with other deciders, sweepers and a cancelling handler between any two. An
  unsubscribe is a swap outside the lock and a close inside it. Two phones scan one
  code; the capture loop writes a row that a kill has ended.
* **Processes that do not know of each other.** A command rewrites the key store
  while the daemon has the old key; three places remove the socket file by name.
* **Kills between two writes.** Every file that Onibi keeps is written in steps.
* **Timeouts and retries.** The hook, the row and the sweeper have clocks of their
  own; a 429 makes one sender wait; a redelivered update is handled again.
* **Loss and repetition.** Channels drop their oldest entry, websockets what is under
  way; a browser reconnects with the position it reached.

## 2. The modules

A definition has the name the code has where there is one. Comments with *bound*
mark limits that exist only for the instances; *mutant* marks a plausible wrong
variant of the definition below it, which the checks swap in to see the property fail.

### Approvals

`ApprovalQueue` is the detailed model. Each request passes through a hook process
(`hook`), a daemon goroutine (`handler`), a row (`row`) and a waiter (`waiters`, with
its one-slot channel `ch`). `Queue.Decide` is cut where another goroutine can run:
`Begin` is the SELECT with the clock it was compared with, `Settle` the guarded UPDATE,
`Deliver` the send, `PublishDecision` the event, `Reconcile` the second look of
`DecideIdempotently`. `Insert`, `Register` and `Announce` are the three parts of
`Queue.request`. A SQLite statement is atomic because `store.Open` allows one
connection. `SweepSelect` and `SweepNext` are `ExpireOverdue`, `GiveUp` and
`AnswerCancelled` are `handleApprovalRequest` at shutdown, `HookTimeout` is the hook's
read deadline, `Restart` forgets everything but the table.

`ApprovalSpec` is the promise without mechanism: a request opens, gets one decision,
its hook learns that decision or is abandoned. `ApprovalQueueRefinement` is the mapping.
`ApprovalFeed` extends the queue with a browser connection and its cards; its Pending
query may fail (`ReplayFails`), which the code only logs, and the history variable
`unread` keeps what that query would have returned.
`ToolGate` follows one call from the provider's hook through `onibi-notify`, the intake
socket and the handler to what the provider does with exit code and output; pi merges
an edited input into the one it has, and blocks the call where there is none (`input`).
`ApprovalForwarder` is the goroutine that offers approvals by Telegram or push, behind an
event channel of `EventBuffer` places that drops its oldest entry; its read of the pending
rows may fail. The history variable `missed` keeps what it never had either way.

### Terminal output

`RingBuffer` is `ring.go` as operators on a record, with the wrap and the three cases
of `Write`. `TerminalStream` is the hub with one subscriber per connection, the
websocket and the browser's `PTYWebSocket`. A byte is the pair (host generation,
position), so that order, loss and repetition can be stated. `Send`, `Dropped`,
`Restarted` and `Enqueue` are the drop policy; `Leave` and `Unsubscribe` are the halves
of `unsub`; `ReplaceHost` is the host that a handover or a death leaves behind.
The page only grows, as xterm does: `Page` is `client.above` followed by `client.run`, and
the run is what was shown since the last break (a drop marker, whose text stays visible,
a snapshot, or a reconnection with a position the browser can not trust). What was
above stays there. `above`, `run` and `client.exact` (the position is still one of the host
it talks to) are history variables.
`ScreenSpec` is the promise without rings, queues and connections: hosts print one after
the other; the page grows at its end; a run that lost nothing is gapless output up to the
browser's place, and is continued or followed by a run that begins further on; once
something is lost the browser is not faithful again before another run begins.
`TerminalStreamRefinement` is the mapping: faithful is a browser with an exact position
whose channel dropped nothing.
`KittyTranscoder` stands before the hub: images in envelopes that reads cut anywhere.

### Sessions

`SessionLifecycle` has the tmux targets, the registry, the rows, the capture loop and
the restore pass; `WebAttach` extends it with the tmux clients of the browser, their
pending map and the contexts they die with. `SnapshotBranches` is create, restore and
fork with the transcript a fork rewrites.

### The web

`WebAccess` goes from minted token to authenticated socket, with the consuming
transaction, the row and the key binding as three steps of each request. A key is named
by its token; `owner.from` is a history variable. The relay is an actor of its own:
it has recorded the hellos that went through it (`sealed`), opens a socket and sends one again (`Redial`, `Rehello`); the server keeps no memory of hellos and lets it in.
`RelayFrames` is the sealed websocket and the replay cache of sealed requests. A codec has
no stream of its own: it adopts that of the first frame it opens, so that frames recorded
from one socket can be delivered again, in any order, on the next (`Reopen`, `Redeliver`).
`EventFeed` is the bus, its handler and the page. A session snapshot that cannot be read
is only logged and the recovery frame follows (`SnapshotFails`); the history variables
`seen` and `passed` keep, per daemon, which events the page was told and which it was
made to count without.

### The machine

`StartCommand` is `onibi start` with one policy record per transport; `DaemonRun` the
daemons, the socket file and the service; `HookInstall` the hook files of the eight
adapters with one policy record each (`ProviderAdapters` joins it with `ToolGate`, the
other half of an adapter); `OwnerBridge` and `TelegramSends` the Telegram loops;
`EncryptedStore`, `SecretStore`, `LocalCertificates` and `ConfigFile` the files and keys
with a kill between any two writes (`OwnerNotices`, `StoredKeys` and
`ProviderAdapters` only join two of them). These modules share no state with each other, only with processes outside, which
they contain. Their history variables, which no guard reads: `overlapped` and
`unseated` (whose socket file was at stake in a race, whose was removed by another), `asTold`,
`unsure`, `doubt` and `given` of the secrets, `under` and `rows` of a rekey (the key it has
committed, and the rows). In `ConfigFile` the owner edits between
commands only, not in the middle of one.

### Instances

`MCApprovalQueue`, `MCApprovalFeed`, `MCSessions` and `MCTerminalStream` give model
values. `MCAccess`, `MCOperations` and `MCProcesses` put systems that share no state into
one run: the variable `part` is chosen at the start and says which of them moves; the
others rest in an initial state. A behaviour of such a run is a behaviour of one system,
so the run explores the sum and not the product of their states. Where one line of
a cfg stands for several properties of a group (`AdapterSafe`, `OwnerTold`,
`BridgeSafe`, `KeysKept`, `HostsOwned`) it is their conjunction, named where the parts
meet: `OwnerNotices` for the forwarder and the Telegram client, `StoredKeys` for the store
and the secret store, `ProviderAdapters` for hook file and tool call, otherwise the component or the MC module.

## 3. What the runs show

| run | question | bounds |
|---|---|---|
| `queue_safety` | do the races of one approval ever disagree; is it one decision per request | 1 request, 2 users, 1 sweeper, 2 edits, 1 restart, 2 instants |
| `approval_feed` | is everything settled, everybody released and told one outcome, no card missed | 1 request, 1 user, 1 sweeper, 1 browser, 1 restart, channel of 2 |
| `terminal_stream` | does the page go on where its last run ends, is a gap announced | 2 connections, ring 2, byte budget 2, 3 frames, 3 bytes, a second host with 1, 1 resize |
| `processes` | does output arrive; does `onibi start` leave anything; does an adapter keep the user's file and its contract with the agent | 1 connection, 2 hosts, ring 2, 3 bytes each; 6 transports, 2 faults; 8 adapters, 2 events, 1 hook of the user, 3 commands, 1 edit by the user, 1 kill; 3 faults around one tool call |
| `sessions` | do rows, registry and tmux agree; are clients owned | 2 sessions, 1 restart, 1 outage, 2 clients, 1 viewer, 1 control call |
| `access` | is a token spent once, is a socket let in on its own key, does anything repeat, is what the page counts known | 2 tokens, 2 phones and a relay, 2 sessions, TTL of 1 tick, 1 restart or 1 revocation; 3 frames on 2 sockets, 3 delivered again; 3 requests, cache of 2; 4 events, history and channel of 2, 1 broken connection, 2 daemons |
| `operations` | does any command, kill or retry lose something | below |
| `waiter_unserved` | violated: a parked handler is always released | 1 request |
| `expiry_unheard` | violated: the hook of an expired request hears it | 1 request |
| `host_restart` | violated: a new host answers an old position with a snapshot | 2 hosts |
| `relay_unattached` | violated: a phone paired through a relay gets its socket | 1 phone |
| `rekey_loses_rows` | violated: a rekey reseals what the key sealed | 1 rekey |

`operations`: 2 daemons with 2 starts and 1 crash, 1 service install; 2 image items, one of them longer
than an envelope may be, cut anywhere; 3 approvals for a forwarder with 1 restart and a
channel of 2; 2 Telegram accounts, 2 updates, 1
restart; 1 rekey, 1 VAPID pair that is rotated; 1 address and 5 key pairs; 2 settings,
one overridden by the environment; 2 sessions in 2 directories, 2 turns, 1 fork; 2
secrets commands with 3 values and 1 failure; 2 senders, 2 chats, 2 messages, 1 retry.

Why these bounds are enough to be interesting. The races about one approval need two
users (to disagree), two edits (to disagree about the input), one sweeper and one
restart; one instant before and one at the deadline give every order of deadline, sweep,
hook timeout and decision; the theorems of section 4 cover any number. The ring is
smaller than the output, so it fills, wraps and takes a chunk that ends at its boundary;
the queue only just holds marker, snapshot and frame and its bytes are fewer than the
output, so all reasons to drop occur; flushes happen by size, timer, attachment and
closing. The event history and channel hold two of four events, so trimming, dropping
and the snapshot occur, and so does a second daemon that has passed the position of the
first; a forwarder's channel holds two of three approvals, so it overflows. Recorded
streams and a second socket give every mixture of old frames with new ones; the relay puts
one between two others when nothing else is under way, which leaves every order in which
the server can meet them. Two phones and two tokens give every pair of a claim with a
claim and of a scan with a socket; two ids let a fresh row meet an old one. The
file-based modules need one command, one kill at each point, and one command after it;
a hook file also a change by its user between any two of them.

Symmetry is used in two safety runs only. `CHECK_DEADLOCK FALSE` is set where the system
really comes to rest: every request answered, every command ended, the clock at its
bound. `terminal_stream` checks for deadlock: a browser can always connect or leave.

### Safety

* `AnswerMatchesRow`, `AcksAgree`, `OneWinner`, `TerminalFinal`, `OneOutcomeTold`:
  what the hook is told, what a user's 200 means, what a browser or forwarder hears, what a
  user is told who comes too late, and the table agree; one caller wins; a decided row is
  left alone. (A verdict may still be written after the deadline, because the clock is
  read with the SELECT; what is excluded is that anybody is told otherwise.) `ImplementsSpec` is the refinement.
* `WaiterChannelEmpty`: `deliver` sends without a select, so a second delivery would
  hang a decider.
* `NoRequestMissed`: subscribing before the Pending query makes it true; the other order
  breaks it. A query that fails costs its connection what it would have returned.
* `RingHoldsNewest`, `ChannelSafe`, `LossIsSignalled`, `ImplementsScreen`: ring, sequence
  and buffer in step; three parties close a viewer's channel and exactly one does; a gap in
  what a connection gave is followed by a marker, or one is due, as long as the connection
  lives; and the refinement of `ScreenSpec`: over any number of connections and hosts the
  page only grows, and its last run is gapless output that never goes back, until something
  is dropped. Its invariant part, `StreamContiguous`, is proved by itself.
* `HealthyIsWatched`, `TerminatedFinal`, `HostsOwned`: a row that calls itself healthy
  is watched, an ended row is left alone by every late writer, no tmux client leaks and
  no request waits for a client nobody attaches.
* `TokenSpentOnce`; `RelaySocketProven`: a socket is let in on a hello that a page with the
  key of this session's pairing sealed for it (which the relay may repeat on its own
  socket), a page's socket on the page's own key; `TakenOnce`: what a socket takes is a
  hello and its stream's input in order and once, whatever the relay mixes in, and a
  request is applied once within its window.
* `CountedIsKnown`: what the page's `lastSeq` counts, it was told, by frame or snapshot, but
  for what a failed snapshot passed over; and not where a new daemon has passed the
  position of an old one, which it takes for its own.
* `SoleDaemonReachable`: a daemon that serves is the one the path leads to, with two
  exceptions: it bound while another was between its check and its bind, or between closing
  and returning (`overlapped`); or a daemon that had lost its file in such a way removed
  this one's as it closed (`unseated`).
* `AdapterSafe`, `OwnerContentKept`: a repeated install leaves one hook per event, what
  inspect reports, and the user's own hooks, in the file or in a whole backup; a decision
  meets the call it is about. A text whose own backup was torn by a kill is excepted: the
  code takes the torn file for the backup from then on.
* `OwnerTold`, `BridgeSafe`: offers once, slots spaced, retries in order, and no approval
  passed over that a replay or the channel had for the forwarder; updates handled before
  Telegram forgets them, for an enrolled account, a kill in two steps.
* `KeysKept`: the rows a rekey found are under one key at any time from its transaction on,
  failed, rolled back and killed commands included, and `RekeyKeepsRows` says which key for
  each of the endings (for a kill, or a rollback that fails, after the commit it is one
  nobody has any more); each secret is what the last call said it stored or what an
  unfinished one was storing, except those two commands changed at once (`doubt`), and never a
  value given under another name (`given`).
* `ImagesTranscoded`, `CertificateTrusted`, `ConfigKept`, `BranchFaithful`.

### Liveness, and the fairness behind it

`EventuallySettled`, `HookReleased`, `RegisteredWaiterServed`, `OpenCardRemoved` and
`OutputReachesViewer` assume weak fairness of goroutines that are ready to run, of the
clock and of the ticker that sweeps, of a hook's own deadline (`HookTimeout`), of an
armed timer, and of a connected browser that reads its socket. `RevokedCutOff` assumes
it of `Watch`, a ticker in a goroutine of its own; `EventsCatchUp` of the page's
reconnect loop and the handler (it says nothing while connections go on breaking; in the
end the page has not only counted all events but been told them, with the two exceptions of
`CountedIsKnown`);
`RecoveryResolved` of the restore pass; `NothingLeftRunning` and `UnhealthyStops` of the
command, the health ticker and the server goroutine. That is what the Go scheduler,
`time.Ticker`, `time.AfterFunc` and an open connection give. Nothing is assumed of
users, shutdowns, restarts, failing statements, or browsers that are not connected; each
property ends its obligation when the daemon is stopping or the connection has gone. Strong
fairness appears once, for the browser that dials again (`AttachingSpec`), in a run that
shows a violation: even a page that never gives up is not let in.

### Findings

1. `waiter_unserved`. `request` inserts the row before it registers the waiter. A
   decision in between finds no waiter, and the handler waits for a channel nobody will
   fill. The comment above `Request` promises exactly one decision.
2. `expiry_unheard`. The hook's 300-second deadline starts before the row's 300-second
   TTL and the sweep is periodic, so by default the hook is gone when the row expires,
   and its own timeout is answered as "cancelled", not as a denial.
3. `host_restart`. Positions carry no host. A browser that returns with a position of
   the previous host and finds one that has printed as much is given the tail of the new
   host's output. The existing test tries only a position beyond it.
4. `relay_unattached`. The page that confirms a relay pairing removes the key from the
   address and goes on to "/" without it; the next page says a plain hello to a server
   that expects a sealed one.
5. `rekey_loses_rows`. `Rekey` reseals pairing tokens and web sessions; push
   subscriptions, snapshots and encrypted values stay under the key that is overwritten.

### Observations without a run of their own

* Browser: marker bytes are counted into `lastSeq`; a marker waits for the next output,
  so a gap before silence is not announced, and one whose connection ends first never is:
  the next subscriber owes no marker, its output goes behind the old text. A resize frame
  overtakes coalesced output. A snapshot is appended to what the page shows.
* Relay: `docs/SPEC-e2e.md:193` lists relay replay of already accepted request and frame
  tuples as protected against. Within one socket, and for requests within their window, it
  is. But a new socket adopts the stream of the first frame it is given, and nothing
  remembers the hellos and streams of earlier sockets, so a recorded hello is let in again
  and recorded input behind it is taken again (`Rehello`, `Redeliver`).
* Errors that are only logged: a Pending query that fails when a browser connects or a
  forwarder starts, and a session snapshot that cannot be read before a recovery frame; in
  each case what would have been read is not told to that client.
* Approvals: a verdict whose SELECT was before the deadline is written after it.
* Tool gate: a hook that times out answers without the approval's id, so the row stays
  pending and can be decided after the tool ran; a client of another version is refused
  by the strict decoder and the call runs; a shutdown after a recorded deny lets it run.
* Telegram: the pair code stays valid in memory, so a second account that sends it takes
  over; the forwarder marks an approval seen before it is sent and never retries; what
  was asked before pairing is never offered; the pause of a 429 holds for one sender.
* Kitty: an introducer that a read cuts in two is passed on as text; the model has such
  reads and marks them (`split`), and `ImagesTranscoded` is about the others.
* Store: rows inserted between a rekey's read and its commit stay under the old key.
  A
  rekey that is killed between its transaction and the secret store, or whose rollback
  fails there, leaves rows under a key nobody has. Secrets: two commands that rewrite the
  dotenv file at once lose one of the changes.
* Adapters: a backup whose write was cut is not repeated; the file that exists is recorded
  as the backup (`BackupOriginal`), although `docs/adapter-contract.md:9` has the config
  backed up before it is modified.
* Daemon: one that has lost its socket file serves on unreached and, when it ends,
  removes by name the file of the daemon that has replaced it.
* Files: a kill between the writes of a CA certificate and its key leaves a mismatched
  pair that the error message does not help with; a kill of `config migrate` between
  backup and rename makes the next migrate refuse.
* `onibi start`: `tailscale serve --bg` that times out is left running; a taken port ends
  the daemon with nil, which the wait for its server reads as ready.
* Sessions: a kill between the registry entry and the row loses the session at the next
  start; listing fails when no tmux session is left.

## 4. What is proved

For every value of the constants; the only assumptions are the named ones on the
constants (`ConstantsAssumption`, `RingAssumption`, `StreamAssumption`,
`SessionAssumption`, `AttachAssumption`, `AccessAssumption`, `FramesAssumption`,
`EventsAssumption`, `DaemonAssumption`, `ConfigAssumption`, `SecretAssumption`,
`StoreAssumption`, `SnapshotAssumption`, `StartAssumption`, `ForwarderAssumption`,
`SendsAssumption`, `HookInstallAssumption`), which TLC evaluates. Most say that bounds
are numbers and that a constant that stands for nothing is none of the values;
`StartAssumption` also that the transports are among the six of the code,
`HookInstallAssumption` that the agents are among its eight and that no hook of the user
is one of Onibi's, and `ForwarderAssumption` that there are
finitely many approvals, of which `SetToSeq` makes the list of the replay, and that the
channel has a place.

Each theorem below is of the form *specification => [] property*, from an inductive
invariant with one lemma per action.

### Approvals

* `ApprovalQueueProofs`. `TypeCorrect`: `TypeOK` is not inductive alone, a call must also
  know that its id is a request and that what it wants is a submission (`Typed`). The
  heart of the invariant `IInv` is who may still write what. A hook that has not asked has
  no row and no waiter (`Fresh`), so with the guard of the UPDATE terminal rows never
  change (`TerminalRowsFinal`), and what was copied from a terminal row stays true of it:
  the content of a channel (`ChannelRecords`), a winner between UPDATE and publication, an
  acknowledged caller (`CallSound`). `AnswersAreRecorded`, `OutcomeIsShared`,
  `AcknowledgedIsRecorded`, `SettledOnce` and `DeliveryNeverBlocks` follow.
  `QueueImplementsSpec`: steps that change neither the recorded decision nor what a hook
  learnt are stutters; `Insert` opens, `Settle` settles, an answer tells, a timeout, a
  shutdown or a restart abandons.
* `ApprovalFeedProofs`: `NothingMissed`. An open approval is on its way to a browser in
  one of three places, its row (a replay still finds it), an event in the channel, a card, or
  a query that failed has passed it over on this connection (`unread`).
  An event in a channel is past, so it never contradicts the row again (`Past`), and a
  channel holds at most one request and one decision of each approval (`Once`). The
  hypothesis `2 * Cardinality(Reqs) <= SubCap` is the point where the promise ends: the
  code's channel (64 places) drops its oldest event when it is full, and a dropped request
  is shown only after a reconnection. `FeedRunsQueue`: the queue with its browsers is
  still the queue, so the theorems above hold in the composition.

### Terminal output

* `TerminalStreamProofs`. `SnapshotKeepsNewest` for any ring, position and chunk, element
  by element after the write is cut into the three cases of the code; `HubKeepsNewest`
  carries that through every step of the hub (`HubInv`); `ChannelsCloseOnce` follows a
  subscriber's life (`Lifecycle`): a channel is open until whoever swapped the flag has
  closed it, the hub at once, an unsub in its second half.

  `ScreenIsContiguous` and `LossIsTold` rest on `StreamInv`, which gives every message on
  the wire and in the channel a position behind it (`Links`): the bytes a message carries
  end at its position and leave no gap behind the one before, and without a loss repeat
  nothing either. The first position is where the run ends or before it (`Continues`),
  the last is where the hub's broadcasts have got to (`Continued`). Positions ahead of a
  marker are free, for a marker ends the run: what comes behind it is appended to the page,
  but begins another run. That is what lets the queue be cut anywhere by
  `dropOldestLocked`. Each of the hub's steps is a step of one queue
  (`FrameCarried`): a frame that drops others leaves a marker owed, one that finds a
  marker owed restarts the queue with marker, snapshot and itself (`RestartTold`: three
  places are needed for that, and `minSubscriberFrames` is four), any other goes behind
  the rest. Replies to an attach (`AttachJoins`) begin where an exact run ends; a browser
  whose position is not exact begins another run behind the old text, with no sign of it on
  the page, so what is proved of losses ends with the connection. The
  invariant holds for every capacity, flush size and number of hosts and connections.

  `StreamImplementsScreen` adds the order of what is shown (`PlaceInv`). All that is
  queued, under way or shown was printed (`Was`, `Carries`), and so was a faithful
  browser's place. A reply to an attach with a snapshot is of a later host than the
  browser's, or begins behind the byte it expects (`SnapshotAhead`): the ring refuses a
  position only when the next byte is gone (`ReplayAhead`). The hub's own steps keep all
  this because they only add what was printed, keep a viewer's host and forget no loss
  (`Onward`). What the browser takes is bytes that continue its run (`FirstInPlace`), a
  snapshot that begins another behind it, or a marker that ends it (`ReceiveStep`), each
  at the end of the page; a drop is `Lose`, or part of `HostWrites` when a write causes it.

### Sessions

* `SessionProofs`. `EndedIsFinal` and `HealthyAreWatched`, from `SessionInv`: a healthy row
  is watched because only three things make a row healthy: a start, which then watches it
  (`StartingRegistered`); a capture loop, which does; and the restore pass, which has
  every healthy row of no session here among those it still looks at (`RestoreLooks`) and
  hosts a session before it heals its row. Between these two the new loop may already have
  given up, and then the row can not be healed (`HostedWatched`).
  `AttachImplementsSessions` carries both to the composition with the browser's clients.
  `ClientsAreOwned`: every client that lives is in the map or in the hands of the one
  request that closes it, and a request waits for an attachment only while the one that
  registered it in `webAttachPending` is under way. It follows the stages of a request
  between the two halves of the code's lock (`AttachInv`).

### The web

* `AccessProofs`. `TokenMakesOneOwner` and `SocketIsProven`, from `AccessInv`. Uniqueness
  of owners is not inductive: a request between the consuming transaction and the row
  holds a claim, so `ClaimsOnce` says that claims are apart from each other and from every
  row. A socket that was let in needs three more facts: a row's verifier is none or that of
  its own token, and the row a request is about to bind is one it made (`VerifierOfToken`);
  behind a relay a page either pairs or has a socket with a key (`PagePairsOrTalks`), so
  that the answer of a pairing never changes the key under a socket; and a key is only
  looked up for a session whose row has it, so that a recorded hello opens with nothing
  but the key it was sealed with.
  `FramesTakenOnce`: a socket takes the number it expects, in the stream of its first frame
  (`TakenOfStream`), and a stream has one frame of each number (`FramesNumbered`), so what
  it took is a run of one stream whatever was delivered again; and
  the cache of sealed requests still has an applied one unless its window is over or more
  requests than it holds came in since. `CountedEventsAreKnown`: an event the page counts
  was in its channel before a snapshot was read, or was told, or passed over by a snapshot
  that failed, or a reset drops the count; frames that let the page count (`LineCovered`,
  `TodoCovered`) have what they count ahead of them.

### Telegram

* `OutsideProofs`. `OwnerIsTold` from two invariants. An approval that waits is seen, to
  be replayed or in the buffer, from the moment its request is published or the pending
  rows are read, unless that read failed or a full buffer dropped its event
  (`WaitingForwarded`); the limiter is ahead of every slot it gave out
  (`LimiterAhead`), no message is posted before its slot (`SlotsKept`), and Telegram has
  nothing from a goroutine beyond the message it is at (`NothingAhead`).
  `BridgeObeysItsOwner`: a batch is what comes next behind the offset and behind what
  Telegram has forgotten (`BatchNext`), and all up to the offset is finished but the
  enrolment under way (`FinishedToOffset`), so a poll makes Telegram forget nothing that
  is not handled; a kill uses up an arming that a message of its own made (`ArmingsPaid`).

### Provider adapters

* `ProviderProofs`. `AdaptersKeepContract` and `HooksOfTheOwnerAreKept`, for any of the
  adapters, any hooks of the user and any number of commands, edits, kills and faults.

  What an edit of a file leaves is a sequence of groups of hooks of any length, filtered
  and flattened. The lemmas about it do without induction: the rank of a place among those
  kept numbers them (`RanksNumber`), so what is picked from a sequence holds the kept
  elements and nothing else (`PickedHolds`); from there, adding Onibi's hook to groups
  with none gives one (`OneAdded`), rewriting the last one keeps their number
  (`AlteredFact`), taking Onibi's out leaves the rest (`WithoutHooksFact`).

  `HookInv` is what a file is between two steps: absent, not parsable, or with one hook of
  Onibi per event at most (`Good`). A command that is not disturbed still has the file as
  it read it and does not write before a row of the store leads to the copy (`CalmReads`,
  `Backed`), which is whole unless the write of a backup of the same text was cut before; what it wrote is there until it has recorded it (`CalmWrites`). That
  a finished install reports what it should (`InstallTakes`) needs one fact about the past:
  claude's early return trusts the record, which is safe because a record that was not
  adopted is of one release as a whole (`RecordOfRelease`).

  `ContractHolds` follows `ToolGate` through `GateInv`: what the hook printed is an answer
  that provider can read and the tool call met what was printed (`OutputInv`); as long as
  nothing was cut the reply on the socket is the row (`UncutInv`).

### What the host keeps

* `HostStateProofs`. `ReachesSoleDaemon`: a daemon that serves, did not overlap another one
  at its bind and has not been unseated has the path, and no other daemon is at a step that
  touches it (`AloneWithSocket`), since whoever comes finds it by its check.
* `ConfigurationKept`: the text a command is about to write stands for the values it was
  given, and a text with sections that migrate cuts is not overwritten before it is in
  `config.yaml.pre-v1`.
* `ServedIsTrusted`: from the profile on a command works with the authority on the disk, and
  the certificate it writes covers the addresses of now.
* `KeysAreKept`: a row that rekey sealed is settled (its columns open with one key, its
  session is revoked), so no daemon writes its verifier with the key it read before, and
  a rollback either reads every row it goes back over or stops before it writes any
  (`CommandReads`, `KeysAgree`); a command in the middle of a rewrite of the dotenv file
  writes the file as it read it, with its own secret, which is the file as it is unless
  another command was at the same (`raced`, `OneWriter`, `FileSteps`); and what is on the
  way anywhere was set under its own name, raced or not (`SecretsProper`).
* `BranchKeepsSnapshot`: as long as no other file of the directory took its place, the
  newest transcript begins with what each row saw (`SeenIsKept`); rows are in the order of
  their seconds and each name has a last one (`RowsInOrder`), which is what makes the row
  that a fork picks the one the owner means.
* `OutsideProofs`. `StartLeavesNothing`: a child and its tunnel live and die together, and
  while they live the command is in Enable or holds the deferred cleanup; so it is for the
  serve rule, unless a command failed to take it away (`TunnelAnswered`). A session has a
  cleanup ahead of it from the step that made it (`SessionAnswered`). No step before the
  return can reach it without passing those cleanups (`UnwindOwes`).

### Only model-checked

All liveness and everything about ENABLED. `StreamTypeOK` is the type invariant of
`TerminalStream` and is neither proved nor listed under a run: its byte account is a fold
over a queue, which needs induction over sequences. TLC finds it true when it is added to
the INVARIANTS of `TerminalStream.cfg`. `ImagesTranscoded`: the
transcoder is recursive, and what it makes of a stream of any length needs induction.

## 5. What is not modelled

* Within the modelled parts: `DropWaiter`, `InvalidateWaiters`, `PurgeExpiredPairings` (no
  production caller), `Hub.Subscribe`/`SubscribeLive` and `Host.Pipe` (the local
  terminal), input from the browser, resize parsing, the ping loop, intake events that
  only report, session renames and listings, Telegram commands that only read, schema
  migrations, and an UPDATE that commits while its caller's context ends (the model has a
  statement that fails, `Abort`, and one that succeeds).
* Prompts: the table is reached by tests only. Idle and turn notices: timers that log or
  send. Audit log: rows are appended, nothing reads them to decide. Doctor: read-only
  probes; its fix for hooks is an action of `HookInstall`. Rendering and transcripts: pure
  functions. The command line and the browser panels: prompts, output and presentation.
* Third parties: tmux, SQLite, keyrings, launchd, push services, Telegram and tunnels
  appear as what the code can observe of them. Ciphers are ideal. A machine that loses
  power between a write and its sync is not considered; only processes are killed.

## 6. Plan

1. A refinement of `EventFeed` to "every event or a later snapshot".
2. An instance of `ApprovalFeed` whose channel overflows, with the card that stays.
3. Composition of `WebAttach` with `TerminalStream` through the hosts' generations.
