-------------------------- MODULE ApprovalForwarder --------------------------
(***************************************************************************)
(* The goroutine that tells an owner away from the browser of approvals:   *)
(* the Telegram bridge (forwardApprovals in daemon/telegram_bridge.go) and *)
(* the Web Push notifier (forwardNotifyApprovals in daemon/chat_bridges.go *)
(* with the subscriptions of web/push.go).  It subscribes to the queue,    *)
(* replays what is pending, then follows the events.                       *)
(***************************************************************************)
EXTENDS Naturals, Sequences, FiniteSets, FiniteSetsExt, SequencesExt

CONSTANTS
    Ids,           \* approvals
    Settled,       \* the event of one that was decided or expired
    EventBuffer,   \* events a subscriber buffers (64 in queue.go)
    Browsers,      \* browsers with a push subscription
    MaxRestarts    \* bound: restarts of the daemon

ASSUME ForwarderAssumption == IsFiniteSet(Ids) /\ Settled \notin Ids /\ EventBuffer \in Nat \ {0}

VARIABLES
    channel,       \* "telegram" or "push"
    owner,         \* an owner is bound (always so for push)
    bound,         \* an owner was bound when this daemon started
    rows,          \* approvals: state in the database
    requesting,    \* inserted, the event not published yet
    stage,         \* of the forwarder: "off", "refused", "subscribed", "replay", "loop"
    replay,        \* what Pending returned and is not offered yet
    events,        \* the buffer of the subscription
    seen,          \* of this forwarder
    missed,        \* history: approvals this forwarder will not learn of: the buffer was full,
                   \* or Pending failed
    offers,        \* history: sends begun by this daemon, per approval
    subscribed,    \* push subscriptions in the database
    restarts

forwardVars == <<channel, owner, bound, rows, requesting, stage, replay, events,
                 seen, missed, offers, subscribed, restarts>>
-----------------------------------------------------------------------------
\* publish: a full buffer loses its oldest event, which Pending still has when it is read later.
Publish(e) ==
    IF stage \in {"off", "refused"} THEN UNCHANGED <<events, missed>>
    ELSE IF Len(events) < EventBuffer THEN events' = Append(events, e) /\ UNCHANGED missed
    ELSE /\ events' = Append(Tail(events), e)
         /\ missed' = IF stage = "subscribed" THEN missed
                      ELSE missed \cup ({Head(events)} \ (seen \cup ToSet(replay) \cup {Settled}))

\* Queue.Request inserts the row, then publishes approval.requested.
Insert(a) ==
    /\ rows[a] = "none"
    /\ rows' = [rows EXCEPT ![a] = "pending"] /\ requesting' = requesting \cup {a}
    /\ UNCHANGED <<channel, owner, bound, stage, replay, events, seen, missed, offers, subscribed, restarts>>

Published(a) ==
    /\ a \in requesting
    /\ requesting' = requesting \ {a}
    /\ Publish(a)
    /\ UNCHANGED <<channel, owner, bound, rows, stage, replay, seen, offers, subscribed, restarts>>

\* Decided, or expired; the event of that is read and skipped, but takes its place in the buffer.
Settle(a) ==
    /\ rows[a] = "pending"
    /\ rows' = [rows EXCEPT ![a] = "decided"]
    /\ Publish(Settled)
    /\ UNCHANGED <<channel, owner, bound, requesting, stage, replay, seen, offers, subscribed, restarts>>

\* setOwner, by the poll loop.
PairOwner ==
    /\ ~owner /\ owner' = TRUE
    /\ UNCHANGED <<channel, bound, rows, requesting, stage, replay, events, seen, missed, offers, subscribed, restarts>>
-----------------------------------------------------------------------------
\* The queue has a limit of subscribers; the goroutine of one that is refused returns.
SubscribeQueue ==
    /\ stage = "off" /\ stage' \in {"subscribed", "refused"}
    /\ UNCHANGED <<channel, owner, bound, rows, requesting, replay, events, seen, missed, offers, subscribed, restarts>>

Waiting == {a \in Ids : rows[a] = "pending"}

\* Mutant: what is pending is read before the subscription is there.
PendingFirst ==
    /\ \/ /\ stage = "off" /\ UNCHANGED stage
          /\ replay' = IF owner THEN SetToSeq(Waiting) ELSE <<>>
       \/ stage = "subscribed" /\ stage' = "replay" /\ UNCHANGED replay
    /\ UNCHANGED <<channel, owner, bound, rows, requesting, events, seen, missed, offers, subscribed, restarts>>

\* Queue.Pending; Telegram asks only if an owner is bound.  When it fails, which is logged
\* (push) or not (Telegram), the loop begins without a replay.
ReadPending ==
    /\ stage = "subscribed" /\ stage' = "replay"
    /\ \/ replay' = (IF owner THEN SetToSeq(Waiting) ELSE <<>>) /\ UNCHANGED missed
       \/ /\ owner /\ replay' = <<>>
          /\ missed' = missed \cup (Waiting \ (requesting \cup ToSet(events)))
    /\ UNCHANGED <<channel, owner, bound, rows, requesting, events, seen, offers, subscribed, restarts>>

\* Mutant: what was offered is not remembered.
OfferAlways(a) ==
    /\ offers' = IF owner THEN [offers EXCEPT ![a] = @ + 1] ELSE offers
    /\ UNCHANGED <<seen, subscribed>>

\* sendApproval and sendOnce, marked before the send and never sent again.  A
\* push service that answers 404 or 410 loses the subscription.
Offer(a) ==
    IF owner /\ a \notin seen \cup {Settled}
    THEN /\ seen' = seen \cup {a}
         /\ offers' = [offers EXCEPT ![a] = @ + 1]
         /\ \E gone \in SUBSET subscribed : subscribed' = subscribed \ gone
    ELSE UNCHANGED <<seen, offers, subscribed>>

OfferPending ==
    /\ stage = "replay"
    /\ IF replay = <<>> THEN stage' = "loop" /\ UNCHANGED <<replay, seen, offers, subscribed>>
       ELSE Offer(Head(replay)) /\ replay' = Tail(replay) /\ UNCHANGED stage
    /\ UNCHANGED <<channel, owner, bound, rows, requesting, events, missed, restarts>>

OfferEvent ==
    /\ stage = "loop" /\ events # <<>>
    /\ Offer(Head(events)) /\ events' = Tail(events)
    /\ UNCHANGED <<channel, owner, bound, rows, requesting, stage, replay, missed, restarts>>

\* The browser's PushSubscribe, an upsert by endpoint.
PushSubscribe(b) ==
    /\ channel = "push" /\ b \notin subscribed
    /\ subscribed' = subscribed \cup {b}
    /\ UNCHANGED <<channel, owner, bound, rows, requesting, stage, replay, events, seen, missed, offers, restarts>>

\* The daemon and the requests it held die; the owner's binding stays.
RestartDaemon ==
    /\ restarts < MaxRestarts /\ restarts' = restarts + 1              \* bound
    /\ bound' = owner /\ requesting' = {}
    /\ stage' = "off" /\ replay' = <<>> /\ events' = <<>> /\ seen' = {} /\ missed' = {}
    /\ offers' = [a \in Ids |-> 0]
    /\ UNCHANGED <<channel, owner, rows, subscribed>>

ForwardInit ==
    /\ channel \in {"telegram", "push"}
    /\ owner \in IF channel = "push" THEN {TRUE} ELSE BOOLEAN
    /\ bound = owner
    /\ rows \in [Ids -> {"none", "pending"}] /\ requesting = {}
    /\ stage = "off" /\ replay = <<>> /\ events = <<>> /\ seen = {} /\ missed = {}
    /\ offers = [a \in Ids |-> 0]
    /\ subscribed \in IF channel = "push" THEN SUBSET Browsers ELSE {{}}
    /\ restarts = 0

ForwardNext ==
    \/ \E a \in Ids : Insert(a) \/ Published(a) \/ Settle(a)
    \/ \E b \in Browsers : PushSubscribe(b)
    \/ PairOwner \/ SubscribeQueue \/ ReadPending \/ OfferPending \/ OfferEvent \/ RestartDaemon

ForwardSpec == ForwardInit /\ [][ForwardNext]_forwardVars
-----------------------------------------------------------------------------
\* However requests fall around the subscription, the read of what is pending
\* and a restart: a forwarder that is at rest, of a daemon that started with an
\* owner, has offered every approval that waits exactly once, and none twice.
\* Only those that neither a replay nor the buffer has had for it are passed
\* over: they waited already when Pending failed, or their event was pushed out
\* of a full buffer before the loop came to it.
OfferedOnce ==
    /\ \A a \in Ids : offers[a] <= 1
    /\ (bound /\ stage = "loop" /\ events = <<>>) =>
           \A a \in Ids \ (requesting \cup missed) : rows[a] = "pending" => offers[a] = 1
=============================================================================
