----------------------------- MODULE OwnerBridge -----------------------------
(***************************************************************************)
(* The Telegram bridge (daemon/telegram_bridge.go, cli/telegram.go and     *)
(* telegram/api.go): one loop polls the bot's updates and carries out what *)
(* the owner says; who the owner is was settled by a pairing code and is   *)
(* kept in the key-value table of the store.                               *)
(*                                                                         *)
(* An account stands for a Telegram user and for the private chat with it. *)
(* Update n is told[n]; the update_id of the code.  What a command does to *)
(* a session is in SessionLifecycle, how approvals are announced in        *)
(* ApprovalForwarder.                                                      *)
(***************************************************************************)
EXTENDS Naturals, Sequences, SequencesExt, FiniteSets, FiniteSetsExt

CONSTANTS
    Accounts,
    Asked,         \* approvals that wait for the owner
    HighRisk,      \* those of RiskHigh
    NoOne, Gone,
    MaxUpdates,    \* bound: updates sent to the bot
    MaxBridgeStarts, \* bound: `onibi start --transport=telegram`
    MaxSetups      \* bound: `onibi telegram setup` and `disable`

VARIABLES
    told,        \* updates at Telegram, in the order of their ids
    forgotten,   \* those up to here were confirmed by a poll's offset
    kv,          \* rows of the store, and the token among the secrets
    bridge,      \* memory of the running bridge
    verdicts,    \* approvals that are decided
    handled,     \* history: ids this daemon has handled, in that order
    finished,    \* history: ids some daemon has handled
    enrolled,    \* history: accounts that sent the code to a daemon
    bridgeKills, \* history: /kill handled, and targets killed, by this daemon
    bridgeSpent  \* bound: starts and setups so far

bridgeVars == <<told, forgotten, kv, bridge, verdicts, handled, finished, enrolled, bridgeKills, bridgeSpent>>

Verdicts == {"approve", "confirm", "deny", "say approve"}
Kinds == {"text", "new", "bare start", "start", "group start", "kill"} \cup Verdicts
Off == [up |-> FALSE, chat |-> NoOne, user |-> NoOne, code |-> FALSE, offset |-> 0,
        batch |-> <<>>, pc |-> "poll", armed |-> {}]
-----------------------------------------------------------------------------
\* Anyone may write to a bot; Telegram numbers what comes.
Tell ==
    /\ Len(told) < MaxUpdates                                         \* bound
    /\ \E from \in Accounts, kind \in Kinds :
           \E on \in IF kind \in Verdicts THEN Asked ELSE {NoOne} :
               told' = Append(told, [from |-> from, kind |-> kind, on |-> on])
    /\ UNCHANGED <<forgotten, kv, bridge, verdicts, handled, finished, enrolled, bridgeKills, bridgeSpent>>

\* GetUpdates: Telegram forgets what is below the offset, and answers with some
\* of the rest; the answer may be lost, and the loop polls again after a pause.
Poll ==
    LET past == IF bridge.offset > forgotten THEN bridge.offset ELSE forgotten IN
    /\ bridge.up /\ bridge.pc = "poll" /\ bridge.batch = <<>>
    /\ forgotten' = past
    /\ told' = [n \in DOMAIN told |-> IF n <= past THEN Gone ELSE told[n]]
    /\ \/ \E last \in past .. Len(told) :
              bridge' = [bridge EXCEPT !.batch = [i \in 1 .. last - past |-> past + i]]
       \/ UNCHANGED bridge
    /\ UNCHANGED <<kv, verdicts, handled, finished, enrolled, bridgeKills, bridgeSpent>>
-----------------------------------------------------------------------------
\* isOwnerMessage, and the check of handleCallback.
IsOwner(u) == u.kind # "group start" /\ u.from = bridge.chat /\ u.from = bridge.user

\* Mutant: an empty argument is compared with the code, which is empty too when
\* the daemon started with an owner.
PairsEmpty(u) == (u.kind = "start" /\ bridge.code) \/ (u.kind = "bare start" /\ ~bridge.code)

\* authorizedOrPair: the code, in a private chat.  It stays good while the
\* daemon runs, for another account too.
Pairs(u) == u.kind = "start" /\ bridge.code

Handled(id) ==
    /\ handled' = Append(handled, id)
    /\ finished' = finished \cup {id}

\* Mutant: the offset stays behind the update that is being handled.
TakenLate(id) == [bridge EXCEPT !.batch = Tail(@)]

\* The loop moves the offset before it hands an update on.
Taken(id) == [bridge EXCEPT !.batch = Tail(@), !.offset = id]

\* The next update of the batch is u, and its handling starts.
Takes(id, u) ==
    /\ bridge.up /\ bridge.pc = "poll" /\ bridge.batch # <<>>
    /\ id = Head(bridge.batch) /\ u = told[id]

Ignore ==
    \E id \in DOMAIN told : \E u \in {told[id]} :
        /\ Takes(id, u)
        /\ \/ ~IsOwner(u) /\ ~Pairs(u)
           \/ IsOwner(u) /\ u.kind \in {"text", "bare start", "start"}
        /\ bridge' = Taken(id) /\ Handled(id)
        /\ UNCHANGED <<told, forgotten, kv, verdicts, enrolled, bridgeKills, bridgeSpent>>

\* setOwner: memory first, then three rows, whose errors are not looked at.
Enroll ==
    \E id \in DOMAIN told : \E u \in {told[id]} :
        /\ Takes(id, u) /\ ~IsOwner(u) /\ Pairs(u)
        /\ bridge' = [Taken(id) EXCEPT !.chat = u.from, !.user = u.from, !.pc = "chat"]
        /\ enrolled' = enrolled \cup {u.from}
        /\ UNCHANGED <<told, forgotten, kv, verdicts, handled, finished, bridgeKills, bridgeSpent>>

SaveOwner ==
    /\ bridge.up
    /\ \/ /\ bridge.pc = "chat" /\ kv' = [kv EXCEPT !.chat = bridge.chat]
          /\ bridge' = [bridge EXCEPT !.pc = "user"] /\ UNCHANGED <<handled, finished>>
       \/ /\ bridge.pc = "user" /\ kv' = [kv EXCEPT !.user = bridge.user]
          /\ bridge' = [bridge EXCEPT !.pc = "code"] /\ UNCHANGED <<handled, finished>>
       \/ /\ bridge.pc = "code" /\ kv' = [kv EXCEPT !.code = FALSE]
          /\ bridge' = [bridge EXCEPT !.pc = "poll"] /\ Handled(bridge.offset)
    /\ UNCHANGED <<told, forgotten, verdicts, enrolled, bridgeKills, bridgeSpent>>

\* handleNew: the chat's target is a session of this daemon.
New ==
    \E id \in DOMAIN told : \E u \in {told[id]} :
        /\ Takes(id, u) /\ IsOwner(u) /\ u.kind = "new"
        /\ \/ kv' = [kv EXCEPT !.target[u.from] = bridgeSpent.starts]
           \/ UNCHANGED kv                                    \* it does not start
        /\ bridge' = Taken(id) /\ Handled(id)
        /\ UNCHANGED <<told, forgotten, verdicts, enrolled, bridgeKills, bridgeSpent>>

\* Mutant: the comparison with the two seconds is the wrong way round.
ArmedNot(from) == from \notin bridge.armed

Armed(from) == from \in bridge.armed

\* handleKill: the first arms for two seconds, the second kills, if the target
\* is a session this daemon has.
KillCommand ==
    \E id \in DOMAIN told : \E u \in {told[id]} :
        /\ Takes(id, u) /\ IsOwner(u) /\ u.kind = "kill"
        /\ IF Armed(u.from)
           THEN /\ bridge' = [Taken(id) EXCEPT !.armed = @ \ {u.from}]
                /\ bridgeKills' = [asked |-> bridgeKills.asked + 1, done |-> bridgeKills.done + 1]
           ELSE /\ bridge' = [Taken(id) EXCEPT !.armed = @ \cup {u.from}]
                /\ bridgeKills' = [bridgeKills EXCEPT !.asked = @ + 1]
        /\ Handled(id)
        /\ UNCHANGED <<told, forgotten, kv, verdicts, enrolled, bridgeSpent>>

TwoSeconds ==
    /\ bridge.armed # {} /\ bridge' = [bridge EXCEPT !.armed = {}]
    /\ UNCHANGED <<told, forgotten, kv, verdicts, handled, finished, enrolled, bridgeKills, bridgeSpent>>

\* handleCallback and decideApproval: the button of a high risk asks again, the
\* text command does not; the first verdict stands.
Judge ==
    \E id \in DOMAIN told : \E u \in {told[id]} :
        /\ Takes(id, u) /\ IsOwner(u)
        /\ u.kind \in Verdicts
        /\ verdicts' = IF u.kind = "approve" /\ u.on \in HighRisk THEN verdicts ELSE verdicts \cup {u.on}
        /\ bridge' = Taken(id) /\ Handled(id)
        /\ UNCHANGED <<told, forgotten, kv, enrolled, bridgeKills, bridgeSpent>>
-----------------------------------------------------------------------------
\* telegramOwnerBinding.
WholeBinding == (kv.chat = NoOne) = (kv.user = NoOne)

\* `onibi telegram setup`, and the code it makes for a store without an owner.
Setup ==
    /\ bridgeSpent.setups < MaxSetups /\ bridgeSpent' = [bridgeSpent EXCEPT !.setups = @ + 1]  \* bound
    /\ WholeBinding
    /\ kv' = [kv EXCEPT !.token = TRUE, !.code = @ \/ kv.chat = NoOne]
    /\ UNCHANGED <<told, forgotten, bridge, verdicts, handled, finished, enrolled, bridgeKills>>

\* `onibi telegram disable`: four deletes one by one; a daemon that runs keeps
\* its token and its owner.
Unbind ==
    /\ bridgeSpent.setups < MaxSetups /\ bridgeSpent' = [bridgeSpent EXCEPT !.setups = @ + 1]  \* bound
    /\ \E n \in 1 .. 4 :
           kv' = [kv EXCEPT !.token = FALSE,
                            !.chat = IF n >= 2 THEN NoOne ELSE @,
                            !.user = IF n >= 3 THEN NoOne ELSE @,
                            !.code = IF n >= 4 THEN FALSE ELSE @]
    /\ UNCHANGED <<told, forgotten, bridge, verdicts, handled, finished, enrolled, bridgeKills>>

\* runTelegramUp and runTelegramBridge: a half binding is refused, a missing
\* token asked for; only a daemon without an owner has a code.
StartBridge ==
    /\ ~bridge.up /\ WholeBinding
    /\ bridgeSpent.starts < MaxBridgeStarts /\ bridgeSpent' = [bridgeSpent EXCEPT !.starts = @ + 1]  \* bound
    /\ kv' = [kv EXCEPT !.token = TRUE, !.code = @ \/ kv.chat = NoOne]
    /\ bridge' = [Off EXCEPT !.up = TRUE, !.chat = kv.chat, !.user = kv.user,
                             !.code = (kv.chat = NoOne)]
    /\ handled' = <<>> /\ bridgeKills' = [asked |-> 0, done |-> 0]
    /\ UNCHANGED <<told, forgotten, verdicts, finished, enrolled>>

\* The code's row is good for ten minutes.
CodeExpires ==
    /\ kv.code /\ kv' = [kv EXCEPT !.code = FALSE]
    /\ UNCHANGED <<told, forgotten, bridge, verdicts, handled, finished, enrolled, bridgeKills, bridgeSpent>>

\* The daemon ends, wherever its loop is.
StopBridge ==
    /\ bridge.up /\ bridge' = Off
    /\ UNCHANGED <<told, forgotten, kv, verdicts, handled, finished, enrolled, bridgeKills, bridgeSpent>>

BridgeInit ==
    /\ told = <<>> /\ forgotten = 0
    /\ \E who \in Accounts \cup {NoOne} :
        /\ kv = [token |-> TRUE, chat |-> who, user |-> who, code |-> FALSE,
                 target |-> [a \in Accounts |-> 0]]
        /\ enrolled = {who} \ {NoOne}
    /\ bridge = Off /\ verdicts = {} /\ handled = <<>> /\ finished = {}
    /\ bridgeKills = [asked |-> 0, done |-> 0] /\ bridgeSpent = [starts |-> 0, setups |-> 0]

BridgeNext ==
    \/ Tell \/ Poll
    \/ Ignore \/ Enroll \/ SaveOwner \/ New \/ KillCommand \/ TwoSeconds \/ Judge
    \/ Setup \/ Unbind \/ StartBridge \/ CodeExpires \/ StopBridge

BridgeSpec == BridgeInit /\ [][BridgeNext]_bridgeVars
-----------------------------------------------------------------------------
\* What Telegram forgets has been handled, in spite of lost polls and of daemons
\* that end half way; and no daemon handles an update twice, or one out of order.
HandledBeforeForgotten ==
    /\ 1 .. forgotten \subseteq finished
    /\ \A i, j \in DOMAIN handled : i < j => handled[i] < handled[j]

\* Whoever the bridge obeys, now or after a restart on what the store says, has
\* sent the pairing code in a private chat: not a group, and not a bare /start
\* to a daemon that has no code (docs/telegram.md: bound to its owner).
OwnerHasEnrolled ==
    {bridge.chat, bridge.user, kv.chat, kv.user} \subseteq enrolled \cup {NoOne}

\* Every kill of a target took two /kill of its own.
KillTakesTwo == 2 * bridgeKills.done <= bridgeKills.asked

\* The three together: whom the bridge obeys, when, and what a kill takes.
BridgeSafe == HandledBeforeForgotten /\ OwnerHasEnrolled /\ KillTakesTwo
=============================================================================
