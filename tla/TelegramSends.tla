---------------------------- MODULE TelegramSends ----------------------------
(***************************************************************************)
(* How the Telegram bridge sends: telegram/api.go, with send and           *)
(* sendChunks of daemon/telegram_bridge.go.  Two goroutines use one        *)
(* client, the poll loop that answers and the forwarder of approvals.      *)
(* A message waits for its slot; Telegram may accept it, refuse it for a   *)
(* while (429) or for good, and the connection may break before or after   *)
(* it was accepted.                                                        *)
(***************************************************************************)
EXTENDS Naturals, Sequences, FiniteSets, FiniteSetsExt

CONSTANTS
    Senders,             \* goroutines
    Chats,
    GlobalSendInterval, ChatSendInterval,
    MaxRetries,          \* of the client
    RetryAfter,          \* what a 429 asks for
    MaxMessages,         \* bound: messages of each sender
    MaxTime              \* bound

ASSUME SendsAssumption ==
    /\ {GlobalSendInterval, ChatSendInterval, RetryAfter, MaxRetries, MaxMessages, MaxTime} \subseteq Nat
    /\ Chats # {}

VARIABLES
    clock,
    nextGlobal, nextChat,   \* of the client
    send,                   \* the SendMessage each goroutine is in
    sent,                   \* messages each goroutine has begun to send
    slots,                  \* history: slots given out, in the order of the lock
    accepted                \* history: messages Telegram accepted, in its order

sendVars == <<clock, nextGlobal, nextChat, send, sent, slots, accepted>>

NoSend == [stage |-> "idle", chat |-> CHOOSE c \in Chats : TRUE, read |-> 0, wake |-> 0, slot |-> 0,
           attempt |-> 0]
Later(t, u) == Max({t, u})
Done(s) == send' = [send EXCEPT ![s] = NoSend]
-----------------------------------------------------------------------------
Tick ==
    /\ clock < MaxTime /\ clock' = clock + 1                           \* bound
    /\ UNCHANGED <<nextGlobal, nextChat, send, sent, slots, accepted>>

\* The clock is read before the lock of the limiter is taken.
SendMessage(c) == [NoSend EXCEPT !.stage = "limit", !.chat = c, !.read = clock]

\* The next chunk or the next approval.
Send(s) ==
    /\ send[s].stage = "idle" /\ sent[s] < MaxMessages                 \* bound
    /\ sent' = [sent EXCEPT ![s] = @ + 1]
    /\ \E c \in Chats : send' = [send EXCEPT ![s] = SendMessage(c)]
    /\ UNCHANGED <<clock, nextGlobal, nextChat, slots, accepted>>

\* Mutant: the next slot of all is counted from the clock.
GiveSlotFromClock(s) ==
    LET slot == Later(send[s].read, Later(nextGlobal, nextChat[send[s].chat])) IN
    /\ send[s].stage = "limit"
    /\ nextGlobal' = send[s].read + GlobalSendInterval
    /\ nextChat' = [nextChat EXCEPT ![send[s].chat] = slot + ChatSendInterval]
    /\ send' = [send EXCEPT ![s].stage = "sleep", ![s].slot = slot,
                            ![s].wake = clock + (slot - send[s].read)]
    /\ slots' = Append(slots, [chat |-> send[s].chat, at |-> slot])
    /\ UNCHANGED <<clock, sent, accepted>>

\* waitSendLimit under the lock; the delay is counted from the clock that was read.
GiveSlot(s) ==
    LET slot == Later(send[s].read, Later(nextGlobal, nextChat[send[s].chat])) IN
    /\ send[s].stage = "limit"
    /\ nextGlobal' = slot + GlobalSendInterval
    /\ nextChat' = [nextChat EXCEPT ![send[s].chat] = slot + ChatSendInterval]
    /\ send' = [send EXCEPT ![s].stage = "sleep", ![s].slot = slot,
                            ![s].wake = clock + (slot - send[s].read)]
    /\ slots' = Append(slots, [chat |-> send[s].chat, at |-> slot])
    /\ UNCHANGED <<clock, sent, accepted>>

Wake(s) ==
    /\ send[s].stage = "sleep" /\ clock >= send[s].wake
    /\ send' = [send EXCEPT ![s].stage = "post"]
    /\ UNCHANGED <<clock, nextGlobal, nextChat, sent, slots, accepted>>

\* One POST of do.  Telegram takes the message; the answer may not arrive, and a
\* send that failed is logged, never repeated.
Accept(s) ==
    /\ send[s].stage = "post" /\ Done(s)
    /\ accepted' = Append(accepted, <<s, sent[s]>>)
    /\ UNCHANGED <<clock, nextGlobal, nextChat, sent, slots>>

Refuse(s) ==
    /\ send[s].stage = "post" /\ Done(s)
    /\ UNCHANGED <<clock, nextGlobal, nextChat, sent, slots, accepted>>

\* 429: sleepRetry, and the same message again, which takes no slot.
TooMany(s) ==
    /\ send[s].stage = "post" /\ send[s].attempt < MaxRetries
    /\ send' = [send EXCEPT ![s].stage = "sleep", ![s].wake = clock + RetryAfter, ![s].attempt = @ + 1]
    /\ UNCHANGED <<clock, nextGlobal, nextChat, sent, slots, accepted>>

SendsInit ==
    /\ clock = 1 /\ nextGlobal = 0 /\ nextChat = [c \in Chats |-> 0]
    /\ send = [s \in Senders |-> NoSend] /\ sent = [s \in Senders |-> 0]
    /\ slots = <<>> /\ accepted = <<>>

SendsNext ==
    \/ Tick
    \/ \E s \in Senders : Send(s) \/ GiveSlot(s) \/ Wake(s) \/ Accept(s) \/ Refuse(s) \/ TooMany(s)

SendsSpec == SendsInit /\ [][SendsNext]_sendVars
-----------------------------------------------------------------------------
\* However the goroutines read the clock and reach the lock: the slots are as far
\* apart as Telegram's limits ask, over all and within a chat, and a message is
\* first posted at its slot or later.
SlotsSpaced ==
    /\ \A i, j \in DOMAIN slots : i < j =>
           /\ slots[j].at >= slots[i].at + GlobalSendInterval
           /\ slots[j].chat = slots[i].chat => slots[j].at >= slots[i].at + ChatSendInterval
    /\ \A s \in Senders : send[s].stage = "post" => clock >= send[s].slot

\* Retries of one goroutine never repeat or overtake: what Telegram accepted of a
\* goroutine is in its order, each message once.
AcceptedInOrder ==
    \A i, j \in DOMAIN accepted :
        i < j /\ accepted[i][1] = accepted[j][1] => accepted[i][2] < accepted[j][2]
=============================================================================
