---------------------------- MODULE OutsideProofs ----------------------------
(***************************************************************************)
(* What Onibi does with the world outside, for any number of approvals,    *)
(* goroutines, messages, accounts, addresses and faults: what waits is     *)
(* offered to the owner once, the messages are spaced as Telegram asks and *)
(* accepted in the order they were sent in, the bridge obeys nobody but    *)
(* its owner and takes every update once, and `onibi start` closes what it *)
(* has opened.                                                             *)
(***************************************************************************)
EXTENDS OwnerNotices, OwnerBridge, StartCommand, FiniteSetTheorems, TLAPS
-----------------------------------------------------------------------------
\* Sequences grow at their end,
LEMMA AppendPlace ==
    ASSUME NEW S, NEW q \in Seq(S), NEW x \in S
    PROVE  /\ Append(q, x) \in Seq(S) /\ DOMAIN Append(q, x) = DOMAIN q \cup {Len(q) + 1}
           /\ \A i \in DOMAIN q : Append(q, x)[i] = q[i] /\ i <= Len(q) /\ i \in Nat
           /\ Append(q, x)[Len(q) + 1] = x
OBVIOUS

\* and shrink at their head.
LEMMA TailPlace ==
    ASSUME NEW S, NEW q \in Seq(S), q # <<>>
    PROVE  /\ Tail(q) \in Seq(S) /\ Head(q) \in S /\ Head(q) = q[1] /\ Len(q) \in Nat
           /\ DOMAIN q = 1 .. Len(q) /\ DOMAIN Tail(q) = 1 .. Len(q) - 1
           /\ \A i \in DOMAIN Tail(q) : Tail(q)[i] = q[i + 1]
OBVIOUS

-----------------------------------------------------------------------------
(* What is in a queue: appending adds to it, taking the head leaves the
   rest. *)
\* What is appended is in.
LEMMA InAppend ==
    ASSUME NEW S, NEW q \in Seq(S), NEW x \in S
    PROVE  Append(q, x) \in Seq(S) /\ ToSet(Append(q, x)) = ToSet(q) \cup {x}
<1>1. ToSet(q) \cup {x} \subseteq ToSet(Append(q, x))
  BY AppendPlace DEF ToSet
<1>2. ToSet(Append(q, x)) \subseteq ToSet(q) \cup {x}
  BY AppendPlace DEF ToSet
<1> QED
  BY <1>1, <1>2, AppendPlace

\* The head, and the rest.
LEMMA InTail ==
    ASSUME NEW S, NEW q \in Seq(S), q # <<>>
    PROVE  Tail(q) \in Seq(S) /\ Head(q) \in S /\ ToSet(q) = ToSet(Tail(q)) \cup {Head(q)}
<1>1. ASSUME NEW x \in ToSet(q) PROVE x \in ToSet(Tail(q)) \cup {Head(q)}
  <2>1. PICK i \in 1 .. Len(q) : x = q[i]
    BY TailPlace DEF ToSet
  <2>2. CASE i = 1
    BY <2>1, <2>2, TailPlace
  <2>3. CASE i # 1
    <3>1. i - 1 \in 1 .. Len(q) - 1 /\ (i - 1) + 1 = i
      BY <2>3, TailPlace
    <3>2. i - 1 \in DOMAIN Tail(q) /\ Tail(q)[i - 1] = x
      BY <2>1, <3>1, TailPlace
    <3> QED
      BY <3>2 DEF ToSet
  <2> QED
    BY <2>2, <2>3
<1>2. ASSUME NEW x \in ToSet(Tail(q)) PROVE x \in ToSet(q)
  <2>1. PICK i \in 1 .. Len(q) - 1 : x = Tail(q)[i]
    BY <1>2, TailPlace DEF ToSet
  <2>2. x = q[i + 1] /\ i + 1 \in DOMAIN q
    BY <2>1, TailPlace
  <2> QED
    BY <2>2 DEF ToSet
<1>3. Head(q) \in ToSet(q)
  <2>1. Len(q) > 0
    OBVIOUS
  <2>2. 1 \in DOMAIN q
    BY <2>1, TailPlace
  <2> QED
    BY <2>2, TailPlace DEF ToSet
<1> QED
  BY <1>1, <1>2, <1>3, TailPlace

(* SetToSeq lists the whole set. *)
LEMMA SetListed ==
    ASSUME NEW S, IsFiniteSet(S)
    PROVE  SetToSeq(S) \in Seq(S) /\ ToSet(SetToSeq(S)) = S
<1> DEFINE n == Cardinality(S)
<1>1. n \in Nat /\ ExistsBijection(1 .. n, S)
  BY FS_CardinalityType
<1>2. \E f \in [1 .. n -> S] : IsInjective(f)
  BY <1>1 DEF ExistsBijection, Bijection, Injection
<1>3. PICK f : f = SetToSeq(S)
  OBVIOUS
<1>4. f \in [1 .. n -> S] /\ IsInjective(f)
  BY <1>2, <1>3 DEF SetToSeq
<1>5. IsFiniteSet(1 .. n) /\ Cardinality(1 .. n) = n
  BY <1>1, FS_Interval
<1>6. f \in Injection(1 .. n, S)
  BY <1>4 DEF Injection
<1>7. f \in Surjection(1 .. n, S)
  BY <1>5, <1>6, FS_Injection
<1>8. f \in Seq(S) /\ DOMAIN f = 1 .. n
  BY <1>1, <1>4
<1>9. \A x \in S : \E i \in 1 .. n : f[i] = x
  BY <1>7 DEF Surjection
<1> QED
  BY <1>3, <1>4, <1>8, <1>9 DEF ToSet

-----------------------------------------------------------------------------
(* The forwarder.  What it marked as seen it has offered once; and every
   approval that waits and is not missed is seen, to be replayed or in the
   buffer, as soon as the forwarder has read what is pending. *)
Events == Ids \cup {Settled}

ForwardTypeOK ==
    /\ rows \in [Ids -> {"none", "pending", "decided"}]
    /\ requesting \subseteq Ids /\ seen \subseteq Ids
    /\ offers \in [Ids -> Nat]
    /\ replay \in Seq(Ids) /\ events \in Seq(Events)
    /\ stage \in {"off", "refused", "subscribed", "replay", "loop"}

SeenOffered == \A a \in Ids : offers[a] = IF a \in seen THEN 1 ELSE 0

OwnerBound == bound => owner

ReplayDone == stage = "loop" => replay = <<>>

(* An approval that waits is on its way to the owner. *)
WaitingForwarded ==
    bound /\ stage \in {"replay", "loop"} =>
        \A a \in Ids \ (requesting \cup missed) :
            rows[a] = "pending" => a \in seen \cup ToSet(replay) \cup ToSet(events)

ForwardInv == ForwardTypeOK /\ SeenOffered /\ OwnerBound /\ ReplayDone /\ WaitingForwarded

\* The invariant holds at first.
LEMMA ForwardInitInv == ForwardInit => ForwardInv
BY DEF ForwardInit, ForwardInv, ForwardTypeOK, SeenOffered, OwnerBound, ReplayDone, WaitingForwarded

(* Sending to the owner, once. *)
LEMMA OfferKeeps ==
    ASSUME ForwardTypeOK, SeenOffered, NEW a \in Events, Offer(a)
    PROVE  /\ offers' \in [Ids -> Nat] /\ seen' \subseteq Ids /\ seen \subseteq seen'
           /\ owner /\ a \in Ids => a \in seen'
           /\ SeenOffered'
<1>1. CASE owner /\ a \notin seen \cup {Settled}
  <2>1. seen' = seen \cup {a} /\ offers' = [offers EXCEPT ![a] = @ + 1] /\ a \in Ids /\ a \notin seen
    BY <1>1 DEF Offer, Events
  <2>2. offers[a] = 0
    BY <2>1 DEF SeenOffered
  <2>3. offers' = [offers EXCEPT ![a] = 1]
    BY <2>1, <2>2
  <2> QED
    BY <2>1, <2>3 DEF ForwardTypeOK, SeenOffered
<1>2. CASE ~(owner /\ a \notin seen \cup {Settled})
  <2>1. UNCHANGED <<seen, offers>>
    BY <1>2 DEF Offer
  <2> QED
    BY <1>2, <2>1, ForwarderAssumption DEF ForwardTypeOK, SeenOffered
<1> QED
  BY <1>1, <1>2

(* A published event is in the buffer of a forwarder that listens, and what
   it pushes out is missed, unless it is seen, to be replayed or yet to be
   read. *)
LEMMA PublishBuffers ==
    ASSUME ForwardTypeOK, NEW e \in Events, Publish(e)
    PROVE  /\ events' \in Seq(Events) /\ missed \subseteq missed'
           /\ stage \in {"replay", "loop"} =>
                 /\ e \in ToSet(events')
                 /\ ToSet(events) \subseteq
                       ToSet(events') \cup missed' \cup seen \cup ToSet(replay) \cup {Settled}
<1>0. events \in Seq(Events)
  BY DEF ForwardTypeOK
<1>1. CASE stage \in {"off", "refused"}
  BY <1>0, <1>1 DEF Publish
<1>2. CASE stage \notin {"off", "refused"} /\ Len(events) < EventBuffer
  <2>1. events' = Append(events, e) /\ missed' = missed
    BY <1>2 DEF Publish
  <2>2. Append(events, e) \in Seq(Events) /\ ToSet(Append(events, e)) = ToSet(events) \cup {e}
    BY <1>0, InAppend
  <2> QED
    BY <2>1, <2>2
<1>3. CASE stage \notin {"off", "refused"} /\ ~(Len(events) < EventBuffer)
  <2>1. /\ events' = Append(Tail(events), e)
        /\ missed' = IF stage = "subscribed" THEN missed
                     ELSE missed \cup ({Head(events)} \ (seen \cup ToSet(replay) \cup {Settled}))
    BY <1>3 DEF Publish
  <2>2. events # <<>>
    BY <1>3, ForwarderAssumption
  <2>3. Tail(events) \in Seq(Events) /\ ToSet(events) = ToSet(Tail(events)) \cup {Head(events)}
    BY <1>0, <2>2, InTail
  <2>4. events' \in Seq(Events) /\ ToSet(events') = ToSet(Tail(events)) \cup {e}
    <3>1. \A q \in Seq(Events) : Append(q, e) \in Seq(Events) /\ ToSet(Append(q, e)) = ToSet(q) \cup {e}
      BY InAppend
    <3> QED
      BY <2>1, <2>3, <3>1
  <2> QED
    BY <2>1, <2>3, <2>4
<1> QED
  BY <1>1, <1>2, <1>3

\* Queue.Request inserts the row.
LEMMA InsertKeeps == ASSUME ForwardInv, NEW a \in Ids, Insert(a) PROVE ForwardInv'
<1>1. /\ rows' = [rows EXCEPT ![a] = "pending"] /\ requesting' = requesting \cup {a}
      /\ UNCHANGED <<owner, bound, stage, replay, events, seen, missed, offers>>
  BY DEF Insert
<1>2. ForwardTypeOK' /\ SeenOffered' /\ OwnerBound' /\ ReplayDone'
  BY <1>1 DEF ForwardInv, ForwardTypeOK, SeenOffered, OwnerBound, ReplayDone
<1>3. \A b \in Ids \ requesting' : rows'[b] = rows[b] /\ b \notin requesting
  BY <1>1 DEF ForwardInv, ForwardTypeOK
<1>4. ToSet(replay') = ToSet(replay) /\ ToSet(events') = ToSet(events)
  BY <1>1
<1>5. WaitingForwarded'
  BY <1>1, <1>3, <1>4 DEF ForwardInv, WaitingForwarded
<1> QED
  BY <1>2, <1>5 DEF ForwardInv

\* Queue.Request publishes it: from here on it must reach the owner.
LEMMA PublishedForwarded == ASSUME ForwardInv, NEW a \in Ids, Published(a) PROVE ForwardInv'
<1>1. /\ a \in requesting /\ requesting' = requesting \ {a}
      /\ UNCHANGED <<owner, bound, rows, stage, replay, seen, offers>>
  BY DEF Published
<1>3. /\ events' \in Seq(Events) /\ missed \subseteq missed'
      /\ stage \in {"replay", "loop"} =>
            /\ a \in ToSet(events')
            /\ ToSet(events) \subseteq
                  ToSet(events') \cup missed' \cup seen \cup ToSet(replay) \cup {Settled}
  <2>1. a \in Events /\ Publish(a)
    BY DEF Published, Events
  <2> QED
    BY <2>1, PublishBuffers DEF ForwardInv
<1>4. ForwardTypeOK' /\ SeenOffered' /\ OwnerBound' /\ ReplayDone'
  BY <1>1, <1>3 DEF ForwardInv, ForwardTypeOK, SeenOffered, OwnerBound, ReplayDone
<1>5. ToSet(replay') = ToSet(replay)
  BY <1>1
<1>6. WaitingForwarded'
  BY <1>1, <1>3, <1>5, ForwarderAssumption DEF ForwardInv, WaitingForwarded
<1> QED
  BY <1>4, <1>6 DEF ForwardInv

\* An approval is decided.
LEMMA SettleForwarded == ASSUME ForwardInv, NEW a \in Ids, Settle(a) PROVE ForwardInv'
<1>1. /\ rows' = [rows EXCEPT ![a] = "decided"]
      /\ UNCHANGED <<owner, bound, requesting, stage, replay, seen, offers>>
  BY DEF Settle
<1>6. /\ events' \in Seq(Events) /\ missed \subseteq missed'
      /\ stage \in {"replay", "loop"} =>
            ToSet(events) \subseteq
                  ToSet(events') \cup missed' \cup seen \cup ToSet(replay) \cup {Settled}
  <2>1. Settled \in Events /\ Publish(Settled)
    BY DEF Settle, Events
  <2> QED
    BY <2>1, PublishBuffers DEF ForwardInv
<1>2. ForwardTypeOK' /\ SeenOffered' /\ OwnerBound' /\ ReplayDone'
  BY <1>1, <1>6 DEF ForwardInv, ForwardTypeOK, SeenOffered, OwnerBound, ReplayDone
<1>3. \A b \in Ids : rows'[b] = "pending" => rows[b] = "pending"
  BY <1>1 DEF ForwardInv, ForwardTypeOK
<1>4. ToSet(replay') = ToSet(replay)
  BY <1>1
<1>5. WaitingForwarded'
  BY <1>1, <1>3, <1>4, <1>6, ForwarderAssumption DEF ForwardInv, WaitingForwarded
<1> QED
  BY <1>2, <1>5 DEF ForwardInv

\* Steps that hand nothing on.
LEMMA QuietForwarded ==
    ASSUME ForwardInv,
           \/ PairOwner \/ SubscribeQueue
           \/ \E b \in Browsers : PushSubscribe(b)
           \/ UNCHANGED forwardVars
    PROVE  ForwardInv'
<1>1. /\ UNCHANGED <<bound, rows, requesting, replay, events, seen, missed, offers>>
      /\ owner => owner'
      /\ stage' = stage \/ (stage = "off" /\ stage' \in {"subscribed", "refused"})
  BY DEF PairOwner, SubscribeQueue, PushSubscribe, forwardVars
<1>2. ForwardTypeOK' /\ SeenOffered' /\ OwnerBound' /\ ReplayDone'
  BY <1>1 DEF ForwardInv, ForwardTypeOK, SeenOffered, OwnerBound, ReplayDone
<1>3. WaitingForwarded'
  BY <1>1 DEF ForwardInv, WaitingForwarded, ToSet
<1> QED
  BY <1>2, <1>3 DEF ForwardInv

\* The forwarder reads what waits, to replay it.
LEMMA ReadPendingKeeps == ForwardInv /\ ReadPending => ForwardInv'
<1> SUFFICES ASSUME ForwardInv, ReadPending PROVE ForwardInv'
  OBVIOUS
<1>1. /\ stage' = "replay" /\ UNCHANGED <<owner, bound, rows, requesting, events, seen, offers>>
      /\ \/ replay' = (IF owner THEN SetToSeq(Waiting) ELSE <<>>) /\ missed' = missed
         \/ /\ replay' = <<>>
            /\ missed' = missed \cup (Waiting \ (requesting \cup ToSet(events)))
  BY DEF ReadPending
<1>2. IsFiniteSet(Waiting) /\ Waiting \subseteq Ids
  BY ForwarderAssumption, FS_Subset DEF Waiting
<1>3. SetToSeq(Waiting) \in Seq(Waiting) /\ ToSet(SetToSeq(Waiting)) = Waiting
  BY <1>2, SetListed
<1>4. SetToSeq(Waiting) \in Seq(Ids)
  BY <1>2, <1>3
<1>5. /\ replay' \in Seq(Ids) /\ missed \subseteq missed'
      /\ owner => Waiting \subseteq ToSet(replay') \cup missed' \cup requesting \cup ToSet(events)
  <2>1. CASE replay' = (IF owner THEN SetToSeq(Waiting) ELSE <<>>) /\ missed' = missed
    <3>1. CASE owner
      BY <1>3, <1>4, <2>1, <3>1
    <3>2. CASE ~owner
      BY <2>1, <3>2
    <3> QED
      BY <3>1, <3>2
  <2>2. CASE replay' = <<>> /\ missed' = missed \cup (Waiting \ (requesting \cup ToSet(events)))
    BY <2>2
  <2> QED
    BY <1>1, <2>1, <2>2
<1>6. ForwardTypeOK' /\ SeenOffered' /\ OwnerBound' /\ ReplayDone'
  BY <1>1, <1>5 DEF ForwardInv, ForwardTypeOK, SeenOffered, OwnerBound, ReplayDone
<1>8. ToSet(events') = ToSet(events)
  BY <1>1
<1>7. WaitingForwarded'
  BY <1>1, <1>5, <1>8 DEF ForwardInv, OwnerBound, WaitingForwarded, Waiting
<1> QED
  BY <1>6, <1>7 DEF ForwardInv

\* The replay.
LEMMA OfferPendingKeeps == ForwardInv /\ OfferPending => ForwardInv'
<1> SUFFICES ASSUME ForwardInv, OfferPending PROVE ForwardInv'
  OBVIOUS
<1>1. stage = "replay" /\ UNCHANGED <<owner, bound, rows, requesting, events, missed>>
      /\ ToSet(events') = ToSet(events)
  BY DEF OfferPending
<1>2. CASE replay = <<>>
  <2>1. stage' = "loop" /\ UNCHANGED <<replay, seen, offers>> /\ ToSet(replay') = ToSet(replay)
    BY <1>2 DEF OfferPending
  <2> QED
    BY <1>1, <1>2, <2>1 DEF ForwardInv, ForwardTypeOK, SeenOffered, OwnerBound, ReplayDone, WaitingForwarded
<1>3. CASE replay # <<>>
  <2>1. replay \in Seq(Ids)
    BY DEF ForwardInv, ForwardTypeOK
  <2>0. Tail(replay) \in Seq(Ids) /\ Head(replay) \in Ids /\ ToSet(replay) = ToSet(Tail(replay)) \cup {Head(replay)}
    BY <1>3, <2>1, InTail
  <2>6. Offer(Head(replay)) /\ replay' = Tail(replay) /\ UNCHANGED stage
    BY <1>3 DEF OfferPending
  <2>2. PICK a \in Ids : /\ a \in Events /\ a = Head(replay) /\ Offer(a) /\ UNCHANGED stage
                         /\ replay' \in Seq(Ids) /\ ToSet(replay) = ToSet(replay') \cup {a}
    BY <2>0, <2>6 DEF Events
  <2>3. /\ offers' \in [Ids -> Nat] /\ seen' \subseteq Ids /\ seen \subseteq seen'
        /\ owner => a \in seen'
        /\ SeenOffered'
    BY <2>2, OfferKeeps DEF ForwardInv
  <2>4. ForwardTypeOK' /\ OwnerBound' /\ ReplayDone'
    BY <1>1, <2>2, <2>3 DEF ForwardInv, ForwardTypeOK, OwnerBound, ReplayDone
  <2>5. WaitingForwarded'
    BY <1>1, <2>2, <2>3 DEF ForwardInv, OwnerBound, WaitingForwarded
  <2> QED
    BY <2>3, <2>4, <2>5 DEF ForwardInv
<1> QED
  BY <1>2, <1>3

\* The loop takes an event.
LEMMA OfferEventKeeps == ForwardInv /\ OfferEvent => ForwardInv'
<1> SUFFICES ASSUME ForwardInv, OfferEvent PROVE ForwardInv'
  OBVIOUS
<1>1. /\ stage = "loop" /\ UNCHANGED <<owner, bound, rows, requesting, stage, replay, missed>>
      /\ ToSet(replay') = ToSet(replay) /\ events # <<>> /\ events \in Seq(Events)
  BY DEF OfferEvent, ForwardInv, ForwardTypeOK
<1>0. Tail(events) \in Seq(Events) /\ Head(events) \in Events /\ ToSet(events) = ToSet(Tail(events)) \cup {Head(events)}
  BY <1>1, InTail
<1>6. Offer(Head(events)) /\ events' = Tail(events)
  BY DEF OfferEvent
<1>2. PICK a \in Events : /\ a = Head(events) /\ Offer(a)
                       /\ events' \in Seq(Events) /\ ToSet(events) = ToSet(events') \cup {a}
  BY <1>0, <1>6
<1>3. /\ offers' \in [Ids -> Nat] /\ seen' \subseteq Ids /\ seen \subseteq seen'
      /\ owner /\ a \in Ids => a \in seen'
      /\ SeenOffered'
  BY <1>2, OfferKeeps DEF ForwardInv
<1>4. ForwardTypeOK' /\ OwnerBound' /\ ReplayDone'
  BY <1>1, <1>2, <1>3 DEF ForwardInv, ForwardTypeOK, OwnerBound, ReplayDone
<1>5. WaitingForwarded'
  BY <1>1, <1>2, <1>3 DEF ForwardInv, OwnerBound, WaitingForwarded
<1> QED
  BY <1>3, <1>4, <1>5 DEF ForwardInv

\* Another daemon begins with nothing offered.
LEMMA RestartForwarded == ForwardInv /\ RestartDaemon => ForwardInv'
BY DEF RestartDaemon, ForwardInv, ForwardTypeOK, SeenOffered, OwnerBound, ReplayDone, WaitingForwarded

\* Every step keeps the invariant.
LEMMA ForwardNextInv == ForwardInv /\ [ForwardNext]_forwardVars => ForwardInv'
BY InsertKeeps, PublishedForwarded, SettleForwarded, QuietForwarded, ReadPendingKeeps,
   OfferPendingKeeps, OfferEventKeeps, RestartForwarded DEF ForwardNext

\* An approval is offered at most once, and none that waits is passed over but for
\* those a failed Pending or a full buffer has kept from the forwarder.
LEMMA ForwardSafe == ForwardSpec => []OfferedOnce
<1>1. ASSUME ForwardInv PROVE OfferedOnce
  <2>1. \A a \in Ids : offers[a] <= 1
    BY <1>1 DEF ForwardInv, SeenOffered
  <2>2. ASSUME bound, stage = "loop", events = <<>>, NEW a \in Ids \ (requesting \cup missed), rows[a] = "pending"
        PROVE  offers[a] = 1
    <3>1. ToSet(events) = {} /\ ToSet(replay) = {}
      BY <1>1, <2>2 DEF ForwardInv, ReplayDone, ToSet
    <3> QED
      BY <1>1, <2>2, <3>1 DEF ForwardInv, WaitingForwarded, SeenOffered
  <2> QED
    BY <2>1, <2>2 DEF OfferedOnce
<1> QED
  BY <1>1, ForwardInitInv, ForwardNextInv, PTL DEF ForwardSpec

-----------------------------------------------------------------------------
(* The Telegram client.  A slot leaves room for what Telegram asks behind
   every slot given out before; no message is posted before its slot; and a
   goroutine has nothing accepted beyond the message it is sending. *)

Sending == [stage : {"idle", "limit", "sleep", "post"}, chat : Chats, read : Nat, wake : Nat,
            slot : Nat, attempt : Nat]
Slot == [chat : Chats, at : Nat]

SendsTypeOK ==
    /\ clock \in Nat /\ nextGlobal \in Nat /\ nextChat \in [Chats -> Nat]
    /\ send \in [Senders -> Sending] /\ sent \in [Senders -> Nat]
    /\ slots \in Seq(Slot) /\ accepted \in Seq(Senders \X Nat)

(* The limiter is ahead of every slot it has given out. *)
LimiterAhead ==
    \A i \in DOMAIN slots : /\ slots[i].at + GlobalSendInterval <= nextGlobal
                            /\ slots[i].at + ChatSendInterval <= nextChat[slots[i].chat]

SlotsApart ==
    \A i, j \in DOMAIN slots : i < j =>
        /\ slots[j].at >= slots[i].at + GlobalSendInterval
        /\ slots[j].chat = slots[i].chat => slots[j].at >= slots[i].at + ChatSendInterval

(* A goroutine that waits wakes at its slot or later. *)
SlotsKept ==
    \A s \in Senders : /\ send[s].stage = "limit" => send[s].read <= clock
                       /\ send[s].stage = "sleep" => send[s].slot <= send[s].wake
                       /\ send[s].stage = "post" => send[s].slot <= clock

(* Telegram has accepted no message of a goroutine that it has not begun
   to send, nor the one that it is sending. *)
NothingAhead ==
    \A i \in DOMAIN accepted :
        /\ accepted[i][2] <= sent[accepted[i][1]]
        /\ send[accepted[i][1]].stage # "idle" => accepted[i][2] < sent[accepted[i][1]]

SendsInv == SendsTypeOK /\ LimiterAhead /\ SlotsApart /\ SlotsKept /\ NothingAhead /\ AcceptedInOrder

\* The later of two times.
LEMMA LaterFact ==
    ASSUME NEW t \in Nat, NEW u \in Nat
    PROVE  Later(t, u) \in Nat /\ Later(t, u) >= t /\ Later(t, u) >= u
<1>1. PICK x \in {t, u} : \A y \in {t, u} : x >= y
  OBVIOUS
<1>2. Later(t, u) \in {t, u} /\ \A y \in {t, u} : Later(t, u) >= y
  BY <1>1 DEF Later, Max
<1> QED
  BY <1>2

\* A goroutine that sends nothing.
LEMMA NoSendFact == NoSend \in Sending /\ NoSend.stage = "idle"
<1>1. (CHOOSE c \in Chats : TRUE) \in Chats
  BY SendsAssumption
<1> QED
  BY <1>1 DEF NoSend, Sending

(* A step at which one goroutine moves and neither the limiter nor
   Telegram takes anything. *)
LEMMA OneSendMoves ==
    ASSUME SendsInv, NEW s \in Senders, NEW new \in Sending,
           send' = [send EXCEPT ![s] = new],
           UNCHANGED <<clock, nextGlobal, nextChat, slots, accepted>>,
           \/ UNCHANGED sent /\ (send[s].stage = "idle" => new.stage = "idle")
           \/ sent' = [sent EXCEPT ![s] = @ + 1],
           new.stage = "limit" => new.read <= clock,
           new.stage = "sleep" => new.slot <= new.wake,
           new.stage = "post" => new.slot <= clock
    PROVE  SendsInv'
<1>0. send \in [Senders -> Sending] /\ sent \in [Senders -> Nat]
  BY DEF SendsInv, SendsTypeOK
<1>1. send' \in [Senders -> Sending]
  BY <1>0
<1>9. sent' \in [Senders -> Nat]
  BY <1>0
<1>2. SendsTypeOK'
  BY <1>1, <1>9 DEF SendsInv, SendsTypeOK
<1>3. LimiterAhead' /\ SlotsApart' /\ AcceptedInOrder'
  BY DEF SendsInv, LimiterAhead, SlotsApart, AcceptedInOrder
<1>4. \A z \in Senders : send'[z] = IF z = s THEN new ELSE send[z]
  BY DEF SendsInv, SendsTypeOK
<1>5. SlotsKept'
  BY <1>4 DEF SendsInv, SlotsKept
<1>6. ASSUME NEW i \in DOMAIN accepted'
      PROVE  /\ accepted'[i][2] <= sent'[accepted'[i][1]]
             /\ send'[accepted'[i][1]].stage # "idle" => accepted'[i][2] < sent'[accepted'[i][1]]
  <2>1. PICK z \in Senders, n \in Nat : accepted[i] = <<z, n>> /\ accepted'[i] = <<z, n>>
    BY <1>6 DEF SendsInv, SendsTypeOK
  <2>2. n <= sent[z] /\ (send[z].stage # "idle" => n < sent[z])
    BY <1>6, <2>1 DEF SendsInv, NothingAhead
  <2>3. sent[z] \in Nat /\ sent'[z] \in {sent[z], sent[z] + 1}
        /\ (z = s /\ UNCHANGED sent => (new.stage # "idle" => send[s].stage # "idle"))
        /\ (z = s /\ ~UNCHANGED sent => sent'[z] = sent[z] + 1)
        /\ (z # s => sent'[z] = sent[z])
    BY DEF SendsInv, SendsTypeOK
  <2> QED
    BY <1>4, <2>1, <2>2, <2>3
<1> QED
  BY <1>2, <1>3, <1>5, <1>6 DEF SendsInv, NothingAhead

\* Time passes.
LEMMA TickKeeps == SendsInv /\ Tick => SendsInv'
<1> SUFFICES ASSUME SendsInv, Tick PROVE SendsInv'
  OBVIOUS
<1>1. clock' = clock + 1 /\ clock \in Nat /\ UNCHANGED <<nextGlobal, nextChat, send, sent, slots, accepted>>
  BY DEF SendsInv, SendsTypeOK, Tick
<1>2. SendsTypeOK'
  BY <1>1 DEF SendsInv, SendsTypeOK
<1>3. ASSUME NEW s \in Senders
      PROVE  send[s].read \in Nat /\ send[s].slot \in Nat
  BY DEF SendsInv, SendsTypeOK, Sending
<1>4. SlotsKept'
  BY <1>1, <1>3 DEF SendsInv, SlotsKept
<1>5. LimiterAhead' /\ SlotsApart' /\ NothingAhead' /\ AcceptedInOrder'
  BY <1>1 DEF SendsInv, LimiterAhead, SlotsApart, NothingAhead, AcceptedInOrder
<1> QED
  BY <1>2, <1>4, <1>5 DEF SendsInv

\* A goroutine begins to send.
LEMMA SendKeeps == ASSUME SendsInv, NEW s \in Senders, Send(s) PROVE SendsInv'
<1>1. PICK c \in Chats : send' = [send EXCEPT ![s] = SendMessage(c)]
  BY DEF Send
<1>2. clock \in Nat
  BY DEF SendsInv, SendsTypeOK
<1>3. /\ SendMessage(c) \in Sending
      /\ SendMessage(c).stage = "limit" /\ SendMessage(c).read = clock
  BY <1>2, NoSendFact DEF SendMessage, Sending
<1>4. PICK new \in Sending : new = SendMessage(c)
  BY <1>3
<1>5. /\ send' = [send EXCEPT ![s] = new] /\ new.stage = "limit" /\ new.read <= clock
  BY <1>1, <1>2, <1>3, <1>4
<1>6. /\ sent' = [sent EXCEPT ![s] = @ + 1] /\ UNCHANGED <<clock, nextGlobal, nextChat, slots, accepted>>
  BY DEF Send
<1> QED
  BY <1>5, <1>6, OneSendMoves

(* The sends of the record a goroutine is in, one field at a time. *)
LEMMA SendFields ==
    ASSUME SendsInv, NEW s \in Senders
    PROVE  /\ send[s] \in Sending
           /\ send[s].read \in Nat /\ send[s].wake \in Nat /\ send[s].slot \in Nat
           /\ send[s].attempt \in Nat /\ send[s].chat \in Chats /\ clock \in Nat
BY DEF SendsInv, SendsTypeOK, Sending

\* A goroutine has slept until its slot.
LEMMA WakeKeeps == ASSUME SendsInv, NEW s \in Senders, Wake(s) PROVE SendsInv'
<1>1. PICK new \in Sending : new = [send[s] EXCEPT !.stage = "post"]
  BY SendFields DEF Sending
<1>2. /\ send' = [send EXCEPT ![s] = new] /\ new.stage = "post" /\ new.slot = send[s].slot
      /\ send[s].stage = "sleep"
  BY <1>1, SendFields DEF Wake, Sending
<1>3. new.slot <= clock
  BY <1>2, SendFields DEF SendsInv, SlotsKept, Wake
<1> QED
  BY <1>2, <1>3, OneSendMoves DEF Wake

\* Telegram refuses a message.
LEMMA RefuseKeeps == ASSUME SendsInv, NEW s \in Senders, Refuse(s) PROVE SendsInv'
<1>1. PICK new \in Sending : new = NoSend
  BY NoSendFact
<1>2. send' = [send EXCEPT ![s] = new] /\ new.stage = "idle"
  BY <1>1, NoSendFact DEF Refuse, Done
<1> QED
  BY <1>2, OneSendMoves DEF Refuse

\* Telegram asks to wait, and the message is retried.
LEMMA TooManyKeeps == ASSUME SendsInv, NEW s \in Senders, TooMany(s) PROVE SendsInv'
<1>1. RetryAfter \in Nat
  BY SendsAssumption
<1>2. PICK new : new = [send[s] EXCEPT !.stage = "sleep", !.wake = clock + RetryAfter, !.attempt = @ + 1]
  OBVIOUS
<1>6. clock + RetryAfter \in Nat /\ send[s].attempt + 1 \in Nat
  BY <1>1, SendFields
<1>3. /\ new \in Sending
      /\ new.stage = "sleep" /\ new.slot = send[s].slot /\ new.wake = clock + RetryAfter
  BY <1>2, <1>6, SendFields DEF Sending
<1>4. send' = [send EXCEPT ![s] = new] /\ send[s].stage = "post"
  BY <1>2 DEF TooMany, SendsInv, SendsTypeOK
<1>5. new.slot <= new.wake
  BY <1>1, <1>3, <1>4, SendFields DEF SendsInv, SlotsKept
<1> QED
  BY <1>3, <1>4, <1>5, OneSendMoves DEF TooMany

\* Telegram accepts a message.
LEMMA AcceptKeeps == ASSUME SendsInv, NEW s \in Senders, Accept(s) PROVE SendsInv'
<1>1. /\ send[s].stage = "post" /\ send' = [send EXCEPT ![s] = NoSend]
      /\ accepted' = Append(accepted, <<s, sent[s]>>)
      /\ UNCHANGED <<clock, nextGlobal, nextChat, sent, slots>>
  BY DEF Accept, Done
<1>2. /\ accepted \in Seq(Senders \X Nat) /\ sent[s] \in Nat /\ <<s, sent[s]>> \in Senders \X Nat
  BY DEF SendsInv, SendsTypeOK
<1>3. /\ accepted' \in Seq(Senders \X Nat) /\ DOMAIN accepted' = DOMAIN accepted \cup {Len(accepted) + 1}
      /\ \A i \in DOMAIN accepted : accepted'[i] = accepted[i] /\ i <= Len(accepted) /\ i \in Nat
      /\ accepted'[Len(accepted) + 1] = <<s, sent[s]>> /\ Len(accepted) \in Nat
  BY <1>1, <1>2, AppendPlace
<1>4. send' \in [Senders -> Sending] /\ \A z \in Senders : send'[z] = IF z = s THEN NoSend ELSE send[z]
  BY <1>1, NoSendFact DEF SendsInv, SendsTypeOK
<1>5. SendsTypeOK'
  BY <1>1, <1>3, <1>4 DEF SendsInv, SendsTypeOK
<1>6. LimiterAhead' /\ SlotsApart'
  BY <1>1 DEF SendsInv, LimiterAhead, SlotsApart
<1>7. SlotsKept'
  BY <1>1, <1>4, NoSendFact DEF SendsInv, SlotsKept
<1>8. \A i \in DOMAIN accepted :
          /\ accepted[i][1] \in Senders /\ accepted[i][2] \in Nat
          /\ accepted[i][2] <= sent[accepted[i][1]]
          /\ send[accepted[i][1]].stage # "idle" => accepted[i][2] < sent[accepted[i][1]]
  <2> SUFFICES ASSUME NEW i \in DOMAIN accepted
               PROVE  accepted[i][1] \in Senders /\ accepted[i][2] \in Nat
    BY DEF SendsInv, NothingAhead
  <2>1. accepted[i] \in Senders \X Nat
    BY <1>2
  <2> QED
    BY <2>1
<1>9. NothingAhead'
  BY <1>1, <1>2, <1>3, <1>4, <1>8, NoSendFact DEF NothingAhead
<1>10. ASSUME NEW i \in DOMAIN accepted', NEW j \in DOMAIN accepted', i < j, accepted'[i][1] = accepted'[j][1]
       PROVE  accepted'[i][2] < accepted'[j][2]
  <2>1. i \in DOMAIN accepted
    BY <1>3, <1>10
  <2>2. CASE j \in DOMAIN accepted
    BY <1>3, <1>10, <2>1, <2>2 DEF SendsInv, AcceptedInOrder
  <2>3. CASE j = Len(accepted) + 1
    BY <1>1, <1>3, <1>8, <1>10, <2>1, <2>3
  <2> QED
    BY <1>3, <2>2, <2>3
<1> QED
  BY <1>5, <1>6, <1>7, <1>9, <1>10 DEF SendsInv, AcceptedInOrder

\* The limiter gives out the next slot.
LEMMA GiveSlotKeeps == ASSUME SendsInv, NEW s \in Senders, GiveSlot(s) PROVE SendsInv'
<1>0. GlobalSendInterval \in Nat /\ ChatSendInterval \in Nat
  BY SendsAssumption
<1>1. PICK c \in Chats, read \in Nat : c = send[s].chat /\ read = send[s].read
  BY SendFields
<1>2. nextGlobal \in Nat /\ nextChat \in [Chats -> Nat] /\ nextChat[c] \in Nat /\ clock \in Nat
  BY DEF SendsInv, SendsTypeOK
<1>3. PICK slot \in Nat : /\ slot = Later(read, Later(nextGlobal, nextChat[c]))
                          /\ slot >= read /\ slot >= nextGlobal /\ slot >= nextChat[c]
  <2>1. PICK last \in Nat : /\ last = Later(nextGlobal, nextChat[c])
                            /\ last >= nextGlobal /\ last >= nextChat[c]
    BY <1>2, LaterFact
  <2>2. Later(read, last) \in Nat /\ Later(read, last) >= read /\ Later(read, last) >= last
    BY LaterFact
  <2> QED
    BY <1>2, <2>1, <2>2
<1>4. PICK new : new = [send[s] EXCEPT !.stage = "sleep", !.slot = slot, !.wake = clock + (slot - read)]
  OBVIOUS
<1>5. /\ send[s].stage = "limit" /\ read <= clock
      /\ nextGlobal' = slot + GlobalSendInterval
      /\ nextChat' = [nextChat EXCEPT ![c] = slot + ChatSendInterval]
      /\ send' = [send EXCEPT ![s] = new]
      /\ slots' = Append(slots, [chat |-> c, at |-> slot])
      /\ UNCHANGED <<clock, sent, accepted>>
  BY <1>1, <1>3, <1>4 DEF GiveSlot, SendsInv, SlotsKept, SendsTypeOK
<1>6. /\ new \in Sending /\ new.stage = "sleep" /\ new.slot = slot /\ new.slot <= new.wake
  <2>1. clock + (slot - read) \in Nat /\ clock + (slot - read) >= slot
    BY <1>2, <1>3, <1>5
  <2> QED
    BY <1>4, <2>1, SendFields DEF Sending
<1>7. send' \in [Senders -> Sending] /\ \A z \in Senders : send'[z] = IF z = s THEN new ELSE send[z]
  BY <1>5, <1>6 DEF SendsInv, SendsTypeOK
<1>8. /\ nextChat' \in [Chats -> Nat] /\ nextGlobal' \in Nat /\ nextGlobal' >= nextGlobal
      /\ \A z \in Chats : nextChat'[z] >= nextChat[z] /\ nextChat[z] \in Nat /\ nextChat'[z] \in Nat
      /\ nextChat'[c] = slot + ChatSendInterval
  BY SMTT(30), <1>0, <1>2, <1>3, <1>5
<1>9. [chat |-> c, at |-> slot] \in Slot /\ slots \in Seq(Slot)
  BY DEF Slot, SendsInv, SendsTypeOK
<1>10. /\ slots' \in Seq(Slot) /\ DOMAIN slots' = DOMAIN slots \cup {Len(slots) + 1}
       /\ \A i \in DOMAIN slots : slots'[i] = slots[i] /\ i <= Len(slots) /\ i \in Nat
       /\ slots'[Len(slots) + 1].chat = c /\ slots'[Len(slots) + 1].at = slot /\ Len(slots) \in Nat
  BY <1>5, <1>9, AppendPlace
<1>11. SendsTypeOK'
  BY <1>5, <1>7, <1>8, <1>10 DEF SendsInv, SendsTypeOK
<1>12. \A i \in DOMAIN slots : /\ slots[i].chat \in Chats /\ slots[i].at \in Nat
                               /\ slots[i].at + GlobalSendInterval <= nextGlobal
                               /\ slots[i].at + ChatSendInterval <= nextChat[slots[i].chat]
  <2> SUFFICES ASSUME NEW i \in DOMAIN slots PROVE slots[i].chat \in Chats /\ slots[i].at \in Nat
    BY DEF SendsInv, LimiterAhead
  <2>1. slots[i] \in Slot
    BY <1>9
  <2> QED
    BY <2>1 DEF Slot
<1>13. ASSUME NEW i \in DOMAIN slots'
       PROVE  /\ slots'[i].at + GlobalSendInterval <= nextGlobal'
              /\ slots'[i].at + ChatSendInterval <= nextChat'[slots'[i].chat]
  <2>1. CASE i \in DOMAIN slots
    <3>1. PICK z \in Chats, at \in Nat : slots'[i].chat = z /\ slots'[i].at = at /\ slots[i].chat = z /\ slots[i].at = at
      BY <1>10, <1>12, <2>1
    <3>2. at + GlobalSendInterval <= nextGlobal /\ at + ChatSendInterval <= nextChat[z]
      BY <1>12, <2>1, <3>1
    <3> QED
      BY <1>0, <1>2, <1>8, <3>1, <3>2
  <2>2. CASE i = Len(slots) + 1
    BY <1>0, <1>5, <1>8, <1>10, <2>2
  <2> QED
    BY <1>10, <1>13, <2>1, <2>2
<1>14. ASSUME NEW i \in DOMAIN slots', NEW j \in DOMAIN slots', i < j
       PROVE  /\ slots'[j].at >= slots'[i].at + GlobalSendInterval
              /\ slots'[j].chat = slots'[i].chat => slots'[j].at >= slots'[i].at + ChatSendInterval
  <2>1. i \in DOMAIN slots
    BY <1>10, <1>14
  <2>2. CASE j \in DOMAIN slots
    BY <1>10, <1>14, <2>1, <2>2 DEF SendsInv, SlotsApart
  <2>3. CASE j = Len(slots) + 1
    <3>1. slots'[i] = slots[i] /\ slots[i].at \in Nat /\ slots[i].at + GlobalSendInterval <= nextGlobal
      BY <1>10, <1>12, <2>1
    <3>2. slots[i].chat = c => slots[i].at + ChatSendInterval <= nextChat[c]
      BY <1>12, <2>1
    <3> QED
      BY SMTT(30), <1>0, <1>2, <1>3, <1>10, <2>3, <3>1, <3>2
  <2> QED
    BY <1>10, <1>14, <2>2, <2>3
<1>15. SlotsKept'
  BY <1>5, <1>6, <1>7 DEF SendsInv, SlotsKept
<1>16. ASSUME NEW i \in DOMAIN accepted'
       PROVE  /\ accepted'[i][2] <= sent'[accepted'[i][1]]
              /\ send'[accepted'[i][1]].stage # "idle" => accepted'[i][2] < sent'[accepted'[i][1]]
  <2>1. PICK z \in Senders, n \in Nat : accepted[i] = <<z, n>> /\ accepted'[i] = <<z, n>>
    BY <1>5, <1>16 DEF SendsInv, SendsTypeOK
  <2>2. n <= sent[z] /\ (send[z].stage # "idle" => n < sent[z])
    BY <1>5, <1>16, <2>1 DEF SendsInv, NothingAhead
  <2> QED
    BY <1>5, <1>7, <2>1, <2>2
<1>17. AcceptedInOrder'
  BY <1>5 DEF SendsInv, AcceptedInOrder
<1> QED
  BY <1>11, <1>13, <1>14, <1>15, <1>16, <1>17 DEF SendsInv, LimiterAhead, SlotsApart, NothingAhead

\* The invariant holds at first.
LEMMA SendsInitInv == SendsInit => SendsInv
<1> SUFFICES ASSUME SendsInit PROVE SendsInv
  OBVIOUS
<1>1. SendsTypeOK
  BY NoSendFact DEF SendsInit, SendsTypeOK
<1>2. \A s \in Senders : send[s].stage = "idle"
  BY NoSendFact DEF SendsInit
<1>3. DOMAIN slots = {} /\ DOMAIN accepted = {}
  BY DEF SendsInit
<1> QED
  BY <1>1, <1>2, <1>3 DEF SendsInv, LimiterAhead, SlotsApart, SlotsKept, NothingAhead, AcceptedInOrder

\* A stuttering step.
LEMMA SendsStillKeeps == SendsInv /\ UNCHANGED sendVars => SendsInv'
BY DEF sendVars, SendsInv, SendsTypeOK, LimiterAhead, SlotsApart, SlotsKept, NothingAhead, AcceptedInOrder

\* Every step keeps the invariant.
LEMMA SendsNextInv == SendsInv /\ [SendsNext]_sendVars => SendsInv'
<1> SUFFICES ASSUME SendsInv, [SendsNext]_sendVars PROVE SendsInv'
  OBVIOUS
<1>1. CASE UNCHANGED sendVars
  BY <1>1, SendsStillKeeps
<1>2. CASE Tick
  BY <1>2, TickKeeps
<1>3. ASSUME NEW s \in Senders,
             Send(s) \/ GiveSlot(s) \/ Wake(s) \/ Accept(s) \/ Refuse(s) \/ TooMany(s)
      PROVE  SendsInv'
  BY <1>3, SendKeeps, GiveSlotKeeps, WakeKeeps, AcceptKeeps, RefuseKeeps, TooManyKeeps
<1> QED
  BY <1>1, <1>2, <1>3 DEF SendsNext

\* Slots are spaced, and messages are accepted in the order they are sent in.
LEMMA SendsSafe == SendsSpec => [](SlotsSpaced /\ AcceptedInOrder)
<1>1. SendsInv => SlotsSpaced /\ AcceptedInOrder
  BY SendFields DEF SendsInv, SlotsSpaced, SlotsApart, SlotsKept
<1> QED
  BY <1>1, SendsInitInv, SendsNextInv, PTL DEF SendsSpec

-----------------------------------------------------------------------------
\* What the daemon hands to Telegram, and what the client makes of it: no approval is
\* offered twice, and the only ones passed over waited when Pending failed or were
\* pushed out of a full buffer; slots are spaced, and messages keep their order.
THEOREM OwnerIsTold == ForwardSpec /\ SendsSpec => []OwnerTold
BY ForwardSafe, SendsSafe, PTL DEF OwnerTold

-----------------------------------------------------------------------------
(* The bridge.  The loop takes the updates in the order of their ids: the
   next one is the one behind the offset and behind what Telegram has
   forgotten, and all before it are handled.  Whoever is bound, in memory
   or in the store, is enrolled.  A kill uses up an arming that a /kill of
   its own has made. *)

Message == [from : Accounts, kind : Kinds, on : Asked \cup {NoOne}]
Owner == Accounts \cup {NoOne}
BridgeState == [up : BOOLEAN, chat : Owner, user : Owner, code : BOOLEAN, offset : Nat,
                batch : Seq(Nat), pc : {"poll", "chat", "user", "code"}, armed : SUBSET Accounts]
KvState == [token : BOOLEAN, chat : Owner, user : Owner, code : BOOLEAN, target : [Accounts -> Nat]]

BridgeTypeOK ==
    /\ bridge \in BridgeState /\ kv \in KvState
    /\ told \in Seq(Message \cup {Gone}) /\ forgotten \in Nat
    /\ handled \in Seq(Nat)
    /\ bridgeKills \in [asked : Nat, done : Nat]
    /\ bridgeSpent \in [starts : Nat, setups : Nat]

\* What the next poll confirms.
Past == IF bridge.offset > forgotten THEN bridge.offset ELSE forgotten

(* What is not forgotten can be read, and the batch is what comes next. *)
BatchNext ==
    /\ forgotten <= Len(told) /\ bridge.offset <= Len(told)
    /\ \A n \in DOMAIN told : n > forgotten => told[n] \in Message
    /\ \A i \in DOMAIN bridge.batch : bridge.batch[i] = Past + i /\ bridge.batch[i] <= Len(told)

(* All up to the offset is finished, but for the enrolment under way. *)
FinishedToOffset ==
    /\ 1 .. forgotten \subseteq finished
    /\ \A n \in 1 .. bridge.offset : n \in finished \/ (bridge.pc # "poll" /\ n = bridge.offset)

(* What this daemon has handled lies in order, up to the offset. *)
HandledInOrder ==
    /\ \A i, j \in DOMAIN handled : i < j => handled[i] < handled[j]
    /\ bridge.up => \A i \in DOMAIN handled :
           handled[i] <= bridge.offset /\ (bridge.pc # "poll" => handled[i] < bridge.offset)

StoppedIsOff == ~bridge.up => bridge = Off

ArmingsPaid ==
    /\ IsFiniteSet(bridge.armed)
    /\ 2 * bridgeKills.done + Cardinality(bridge.armed) <= bridgeKills.asked

BridgeInv ==
    /\ BridgeTypeOK /\ StoppedIsOff
    /\ BatchNext /\ FinishedToOffset /\ HandledInOrder
    /\ OwnerHasEnrolled /\ ArmingsPaid

\* A bridge that is not up.
LEMMA OffFact ==
    /\ Off \in BridgeState /\ Off.up = FALSE /\ Off.chat = NoOne /\ Off.user = NoOne /\ Off.code = FALSE
    /\ Off.offset = 0 /\ Off.batch = <<>> /\ Off.pc = "poll" /\ Off.armed = {}
BY DEF Off, BridgeState, Owner

\* The record of the bridge, one field at a time.
LEMMA BridgeFields ==
    ASSUME bridge \in BridgeState
    PROVE  /\ bridge.up \in BOOLEAN /\ bridge.chat \in Owner /\ bridge.user \in Owner
           /\ bridge.code \in BOOLEAN /\ bridge.offset \in Nat /\ bridge.batch \in Seq(Nat)
           /\ bridge.pc \in {"poll", "chat", "user", "code"} /\ bridge.armed \in SUBSET Accounts
BY DEF BridgeState

\* What the store keeps, one field at a time.
LEMMA KvFields ==
    ASSUME kv \in KvState
    PROVE  /\ kv.token \in BOOLEAN /\ kv.chat \in Owner /\ kv.user \in Owner /\ kv.code \in BOOLEAN
           /\ kv.target \in [Accounts -> Nat]
BY DEF KvState

-----------------------------------------------------------------------------
(* An update is taken: it is the next one, and it can be read. *)
LEMMA TakenFact ==
    ASSUME BridgeInv, NEW id \in DOMAIN told, NEW u, Takes(id, u)
    PROVE  /\ u \in Message /\ id \in Nat /\ id = Past + 1 /\ id <= Len(told)
           /\ bridge.up /\ bridge.pc = "poll"
           /\ Taken(id) \in BridgeState /\ Taken(id).up /\ Taken(id).pc = "poll"
           /\ Taken(id).chat = bridge.chat /\ Taken(id).user = bridge.user
           /\ Taken(id).code = bridge.code /\ Taken(id).armed = bridge.armed
           /\ Taken(id).offset = id /\ Taken(id).batch = Tail(bridge.batch)
           /\ \A i \in DOMAIN Tail(bridge.batch) :
                  Tail(bridge.batch)[i] = id + i /\ Tail(bridge.batch)[i] <= Len(told)
<1>1. /\ bridge \in BridgeState /\ told \in Seq(Message \cup {Gone}) /\ forgotten \in Nat
      /\ bridge.up /\ bridge.pc = "poll" /\ bridge.batch # <<>> /\ id = Head(bridge.batch) /\ u = told[id]
  BY DEF BridgeInv, BridgeTypeOK, Takes
<1>2. /\ Past \in Nat /\ Past >= forgotten
      /\ \A i \in DOMAIN bridge.batch : bridge.batch[i] = Past + i /\ bridge.batch[i] <= Len(told)
  BY <1>1, BridgeFields DEF Past, BridgeInv, BatchNext
<1>3. bridge.batch \in Seq(Nat)
  BY <1>1, BridgeFields
<1>4. PICK q \in Seq(Nat) : q = bridge.batch
  BY <1>3
<1>5. /\ Tail(q) \in Seq(Nat) /\ Head(q) = q[1] /\ Len(q) \in Nat
      /\ DOMAIN q = 1 .. Len(q) /\ DOMAIN Tail(q) = 1 .. Len(q) - 1
      /\ \A i \in DOMAIN Tail(q) : Tail(q)[i] = q[i + 1]
  BY <1>1, <1>4, TailPlace
<1>6. 1 \in DOMAIN q
  BY <1>1, <1>4, <1>5
<1>7. id = Past + 1 /\ id <= Len(told) /\ id \in Nat
  <2>1. id = q[1]
    BY <1>1, <1>4, <1>5
  <2> QED
    BY <1>2, <1>4, <1>6, <2>1
<1>8. u \in Message
  BY <1>1, <1>2, <1>7 DEF BridgeInv, BatchNext
<1>9. /\ Taken(id) \in BridgeState /\ Taken(id).up /\ Taken(id).pc = "poll"
      /\ Taken(id).chat = bridge.chat /\ Taken(id).user = bridge.user
      /\ Taken(id).code = bridge.code /\ Taken(id).armed = bridge.armed
      /\ Taken(id).offset = id /\ Taken(id).batch = Tail(bridge.batch)
  BY <1>1, <1>4, <1>5, <1>7, BridgeFields DEF Taken, BridgeState
<1>10. ASSUME NEW i \in DOMAIN Tail(q) PROVE Tail(q)[i] = id + i /\ Tail(q)[i] <= Len(told)
  <2>1. i \in Nat /\ i + 1 \in DOMAIN q /\ Tail(q)[i] = q[i + 1]
    BY <1>5
  <2>2. q[i + 1] = Past + (i + 1) /\ q[i + 1] <= Len(told)
    BY <1>2, <1>4, <2>1
  <2> QED
    BY <1>2, <1>7, <2>1, <2>2
<1> QED
  BY <1>1, <1>4, <1>7, <1>8, <1>9, <1>10

(* What the order of the updates asks, when one is taken and its handling
   ends at once, or goes on with an enrolment. *)
LEMMA TakingKeepsOrder ==
    ASSUME BridgeInv, NEW id \in DOMAIN told, NEW u, Takes(id, u),
           UNCHANGED <<told, forgotten>>,
           bridge'.up, bridge'.offset = id, bridge'.batch = Tail(bridge.batch),
           \/ bridge'.pc = "poll" /\ Handled(id)
           \/ bridge'.pc = "chat" /\ UNCHANGED <<handled, finished>>
    PROVE  handled' \in Seq(Nat) /\ BatchNext' /\ FinishedToOffset' /\ HandledInOrder'
<1>1. /\ id \in Nat /\ id = Past + 1 /\ id <= Len(told) /\ bridge.up /\ bridge.pc = "poll"
      /\ \A i \in DOMAIN Tail(bridge.batch) :
             Tail(bridge.batch)[i] = id + i /\ Tail(bridge.batch)[i] <= Len(told)
  BY TakenFact
<1>2. /\ forgotten \in Nat /\ bridge.offset \in Nat /\ Past \in Nat /\ Past >= forgotten /\ Past >= bridge.offset
      /\ Past = forgotten \/ Past = bridge.offset
      /\ handled \in Seq(Nat) /\ forgotten <= Len(told) /\ Len(told) \in Nat
      /\ \A n \in DOMAIN told : n > forgotten => told[n] \in Message
  BY BridgeFields DEF Past, BridgeInv, BridgeTypeOK, BatchNext
<1>3. Past' = id
  BY <1>1, <1>2 DEF Past
<1>4. BatchNext'
  BY <1>1, <1>2, <1>3 DEF BatchNext
<1>5. \A n \in 1 .. id : n \in finished \/ n = id
  <2>1. 1 .. forgotten \subseteq finished /\ 1 .. bridge.offset \subseteq finished
    BY <1>1 DEF BridgeInv, FinishedToOffset
  <2>2. 1 .. Past \subseteq finished
    BY <1>2, <2>1
  <2> QED
    BY <1>1, <1>2, <2>2
<1>6. /\ \A i, j \in DOMAIN handled : i < j => handled[i] < handled[j]
      /\ \A i \in DOMAIN handled : handled[i] \in Nat /\ handled[i] < id
  <2>1. \A i \in DOMAIN handled : handled[i] \in Nat /\ handled[i] <= bridge.offset
    BY <1>1, <1>2 DEF BridgeInv, HandledInOrder
  <2> QED
    BY <1>1, <1>2, <2>1 DEF BridgeInv, HandledInOrder
<1>7. 1 .. forgotten \subseteq finished
  BY DEF BridgeInv, FinishedToOffset
<1>8. CASE bridge'.pc = "poll" /\ Handled(id)
  <2>1. finished' = finished \cup {id} /\ handled' = Append(handled, id)
    BY <1>8 DEF Handled
  <2>2. FinishedToOffset'
    BY <1>5, <1>7, <2>1 DEF FinishedToOffset
  <2>3. /\ handled' \in Seq(Nat) /\ DOMAIN handled' = DOMAIN handled \cup {Len(handled) + 1}
        /\ \A i \in DOMAIN handled : handled'[i] = handled[i] /\ i <= Len(handled) /\ i \in Nat
        /\ handled'[Len(handled) + 1] = id /\ Len(handled) \in Nat
    BY <1>1, <1>2, <2>1, AppendPlace
  <2>4. \A i \in DOMAIN handled' : handled'[i] <= id
    BY <1>1, <1>6, <2>3
  <2>5. ASSUME NEW i \in DOMAIN handled', NEW j \in DOMAIN handled', i < j PROVE handled'[i] < handled'[j]
    <3>1. i \in DOMAIN handled
      BY <2>3, <2>5
    <3>2. CASE j \in DOMAIN handled
      BY <1>6, <2>3, <2>5, <3>1, <3>2
    <3>3. CASE j = Len(handled) + 1
      BY <1>6, <2>3, <3>1, <3>3
    <3> QED
      BY <2>3, <3>2, <3>3
  <2> QED
    BY <1>4, <1>8, <2>2, <2>3, <2>4, <2>5 DEF HandledInOrder
<1>9. CASE bridge'.pc = "chat" /\ UNCHANGED <<handled, finished>>
  <2>1. FinishedToOffset'
    BY <1>5, <1>7, <1>9 DEF FinishedToOffset
  <2>2. HandledInOrder'
    <3>1. \A i \in DOMAIN handled : handled[i] <= id
      BY <1>1, <1>6
    <3> QED
      BY <1>6, <1>9, <3>1 DEF HandledInOrder
  <2> QED
    BY <1>2, <1>4, <1>9, <2>1, <2>2
<1> QED
  BY <1>8, <1>9

-----------------------------------------------------------------------------
\* An update that is ignored.
LEMMA IgnoreKeeps == BridgeInv /\ Ignore => BridgeInv'
<1> SUFFICES ASSUME BridgeInv, Ignore PROVE BridgeInv'
  OBVIOUS
<1>1. PICK id \in DOMAIN told : \E u \in {told[id]} : Takes(id, u)
                                /\ bridge' = Taken(id) /\ Handled(id)
                                /\ UNCHANGED <<told, forgotten, kv, verdicts, enrolled, bridgeKills, bridgeSpent>>
  BY DEF Ignore
<1>2. PICK u : Takes(id, u)
  BY <1>1
<1>3. /\ bridge' \in BridgeState /\ bridge'.up /\ bridge'.pc = "poll" /\ bridge'.chat = bridge.chat
      /\ bridge'.user = bridge.user /\ bridge'.armed = bridge.armed
      /\ bridge'.offset = id /\ bridge'.batch = Tail(bridge.batch)
  BY <1>1, <1>2, TakenFact
<1>4. handled' \in Seq(Nat) /\ BatchNext' /\ FinishedToOffset' /\ HandledInOrder'
  BY <1>1, <1>2, <1>3, TakingKeepsOrder
<1>5. BridgeTypeOK' /\ StoppedIsOff' /\ OwnerHasEnrolled' /\ ArmingsPaid'
  BY <1>1, <1>3, <1>4 DEF BridgeInv, BridgeTypeOK, StoppedIsOff, OwnerHasEnrolled, ArmingsPaid
<1> QED
  BY <1>4, <1>5 DEF BridgeInv

\* A button: only the chat and the user that are bound decide.
LEMMA JudgeKeeps == BridgeInv /\ Judge => BridgeInv'
<1> SUFFICES ASSUME BridgeInv, Judge PROVE BridgeInv'
  OBVIOUS
<1>1. PICK id \in DOMAIN told : \E u \in {told[id]} : Takes(id, u)
                                /\ bridge' = Taken(id) /\ Handled(id)
                                /\ UNCHANGED <<told, forgotten, kv, enrolled, bridgeKills, bridgeSpent>>
  BY DEF Judge
<1>2. PICK u : Takes(id, u)
  BY <1>1
<1>3. /\ bridge' \in BridgeState /\ bridge'.up /\ bridge'.pc = "poll" /\ bridge'.chat = bridge.chat
      /\ bridge'.user = bridge.user /\ bridge'.armed = bridge.armed
      /\ bridge'.offset = id /\ bridge'.batch = Tail(bridge.batch)
  BY <1>1, <1>2, TakenFact
<1>4. handled' \in Seq(Nat) /\ BatchNext' /\ FinishedToOffset' /\ HandledInOrder'
  BY <1>1, <1>2, <1>3, TakingKeepsOrder
<1>5. BridgeTypeOK' /\ StoppedIsOff' /\ OwnerHasEnrolled' /\ ArmingsPaid'
  BY <1>1, <1>3, <1>4 DEF BridgeInv, BridgeTypeOK, StoppedIsOff, OwnerHasEnrolled, ArmingsPaid
<1> QED
  BY <1>4, <1>5 DEF BridgeInv

\* /new.
LEMMA NewKeeps == BridgeInv /\ New => BridgeInv'
<1> SUFFICES ASSUME BridgeInv, New PROVE BridgeInv'
  OBVIOUS
<1>1. PICK id \in DOMAIN told : \E u \in {told[id]} : Takes(id, u)
                                /\ (kv' = [kv EXCEPT !.target[u.from] = bridgeSpent.starts] \/ UNCHANGED kv)
                                /\ bridge' = Taken(id) /\ Handled(id)
                                /\ UNCHANGED <<told, forgotten, verdicts, enrolled, bridgeKills, bridgeSpent>>
  BY DEF New
<1>2. PICK u : /\ Takes(id, u)
               /\ kv' = [kv EXCEPT !.target[u.from] = bridgeSpent.starts] \/ UNCHANGED kv
  BY <1>1
<1>3. /\ bridge' \in BridgeState /\ bridge'.up /\ bridge'.pc = "poll" /\ bridge'.chat = bridge.chat
      /\ bridge'.user = bridge.user /\ bridge'.armed = bridge.armed
      /\ bridge'.offset = id /\ bridge'.batch = Tail(bridge.batch)
  BY <1>1, <1>2, TakenFact
<1>4. handled' \in Seq(Nat) /\ BatchNext' /\ FinishedToOffset' /\ HandledInOrder'
  BY <1>1, <1>2, <1>3, TakingKeepsOrder
<1>5. kv \in KvState /\ bridgeSpent.starts \in Nat
  BY DEF BridgeInv, BridgeTypeOK
<1>6. kv' \in KvState /\ kv'.chat = kv.chat /\ kv'.user = kv.user
  BY <1>2, <1>5 DEF KvState
<1>7. BridgeTypeOK' /\ StoppedIsOff' /\ OwnerHasEnrolled' /\ ArmingsPaid'
  BY <1>1, <1>3, <1>4, <1>6 DEF BridgeInv, BridgeTypeOK, StoppedIsOff, OwnerHasEnrolled, ArmingsPaid
<1> QED
  BY <1>4, <1>7 DEF BridgeInv

\* /start with the code begins an enrolment.
LEMMA EnrollKeeps == BridgeInv /\ Enroll => BridgeInv'
<1> SUFFICES ASSUME BridgeInv, Enroll PROVE BridgeInv'
  OBVIOUS
<1>1. PICK id \in DOMAIN told :
          \E u \in {told[id]} : /\ Takes(id, u)
                                /\ bridge' = [Taken(id) EXCEPT !.chat = u.from, !.user = u.from, !.pc = "chat"]
                                /\ enrolled' = enrolled \cup {u.from}
                                /\ UNCHANGED <<told, forgotten, kv, handled, finished, bridgeKills, bridgeSpent>>
  BY DEF Enroll
<1>2. PICK u : /\ Takes(id, u) /\ enrolled' = enrolled \cup {u.from}
               /\ bridge' = [Taken(id) EXCEPT !.chat = u.from, !.user = u.from, !.pc = "chat"]
  BY <1>1
<1>3. /\ u \in Message /\ Taken(id) \in BridgeState /\ Taken(id).up /\ Taken(id).armed = bridge.armed
      /\ Taken(id).offset = id /\ Taken(id).batch = Tail(bridge.batch)
  BY <1>2, TakenFact
<1>4. PICK who \in Accounts : who = u.from
  BY <1>3 DEF Message
<1>5. /\ bridge' \in BridgeState /\ bridge'.up /\ bridge'.pc = "chat" /\ bridge'.chat = who
      /\ bridge'.user = who /\ bridge'.armed = bridge.armed
      /\ bridge'.offset = id /\ bridge'.batch = Tail(bridge.batch)
  BY <1>2, <1>3, <1>4 DEF BridgeState, Owner
<1>6. handled' \in Seq(Nat) /\ BatchNext' /\ FinishedToOffset' /\ HandledInOrder'
  BY <1>1, <1>2, <1>5, TakingKeepsOrder
<1>7. BridgeTypeOK' /\ StoppedIsOff' /\ OwnerHasEnrolled' /\ ArmingsPaid'
  BY <1>1, <1>2, <1>4, <1>5, <1>6 DEF BridgeInv, BridgeTypeOK, StoppedIsOff, OwnerHasEnrolled, ArmingsPaid
<1> QED
  BY <1>6, <1>7 DEF BridgeInv

\* /kill arms, and a second one kills.
LEMMA KillKeeps == BridgeInv /\ KillCommand => BridgeInv'
<1> SUFFICES ASSUME BridgeInv, KillCommand PROVE BridgeInv'
  OBVIOUS
<1>1. PICK id \in DOMAIN told :
          \E u \in {told[id]} :
              /\ Takes(id, u) /\ Handled(id)
              /\ IF Armed(u.from)
                 THEN /\ bridge' = [Taken(id) EXCEPT !.armed = @ \ {u.from}]
                      /\ bridgeKills' = [asked |-> bridgeKills.asked + 1, done |-> bridgeKills.done + 1]
                 ELSE /\ bridge' = [Taken(id) EXCEPT !.armed = @ \cup {u.from}]
                      /\ bridgeKills' = [bridgeKills EXCEPT !.asked = @ + 1]
              /\ UNCHANGED <<told, forgotten, kv, enrolled, bridgeSpent>>
  BY DEF KillCommand
<1>2. PICK u : /\ Takes(id, u)
               /\ IF Armed(u.from)
                  THEN /\ bridge' = [Taken(id) EXCEPT !.armed = @ \ {u.from}]
                       /\ bridgeKills' = [asked |-> bridgeKills.asked + 1, done |-> bridgeKills.done + 1]
                  ELSE /\ bridge' = [Taken(id) EXCEPT !.armed = @ \cup {u.from}]
                       /\ bridgeKills' = [bridgeKills EXCEPT !.asked = @ + 1]
  BY <1>1
<1>3. /\ u \in Message /\ Taken(id) \in BridgeState /\ Taken(id).up /\ Taken(id).pc = "poll"
      /\ Taken(id).chat = bridge.chat /\ Taken(id).user = bridge.user /\ Taken(id).armed = bridge.armed
      /\ Taken(id).offset = id /\ Taken(id).batch = Tail(bridge.batch) /\ bridge.armed \in SUBSET Accounts
  BY <1>2, TakenFact, BridgeFields DEF BridgeInv, BridgeTypeOK
<1>4. PICK who \in Accounts : who = u.from
  BY <1>3 DEF Message
<1>5. PICK armed \in SUBSET Accounts :
          /\ bridge' = [Taken(id) EXCEPT !.armed = armed]
          /\ armed = IF who \in bridge.armed THEN bridge.armed \ {who} ELSE bridge.armed \cup {who}
  <2>1. CASE who \in bridge.armed
    <3>1. bridge' = [Taken(id) EXCEPT !.armed = bridge.armed \ {who}]
      BY <1>2, <1>3, <1>4, <2>1 DEF Armed
    <3> QED
      BY <1>3, <2>1, <3>1
  <2>2. CASE who \notin bridge.armed
    <3>1. bridge' = [Taken(id) EXCEPT !.armed = bridge.armed \cup {who}]
      BY <1>2, <1>3, <1>4, <2>2 DEF Armed
    <3> QED
      BY <1>3, <2>2, <3>1
  <2> QED
    BY <2>1, <2>2
<1>6. /\ bridge' \in BridgeState /\ bridge'.up /\ bridge'.pc = "poll" /\ bridge'.chat = bridge.chat
      /\ bridge'.user = bridge.user /\ bridge'.armed = armed
      /\ bridge'.offset = id /\ bridge'.batch = Tail(bridge.batch)
  BY <1>3, <1>5 DEF BridgeState
<1>7. handled' \in Seq(Nat) /\ BatchNext' /\ FinishedToOffset' /\ HandledInOrder'
  BY <1>1, <1>2, <1>6, TakingKeepsOrder
<1>8. PICK asked \in Nat, done \in Nat : /\ asked = bridgeKills.asked /\ done = bridgeKills.done
                                         /\ bridgeKills = [asked |-> asked, done |-> done]
  BY DEF BridgeInv, BridgeTypeOK
<1>9. bridgeKills' = IF who \in bridge.armed THEN [asked |-> asked + 1, done |-> done + 1]
                     ELSE [asked |-> asked + 1, done |-> done]
  BY <1>2, <1>4, <1>8 DEF Armed
<1>10. /\ bridgeKills'.asked = asked + 1 /\ bridgeKills' \in [asked : Nat, done : Nat]
       /\ bridgeKills'.done = IF who \in bridge.armed THEN done + 1 ELSE done
  BY <1>9
<1>11. IsFiniteSet(bridge.armed) /\ 2 * done + Cardinality(bridge.armed) <= asked
  BY <1>8 DEF BridgeInv, ArmingsPaid
<1>12. Cardinality(bridge.armed) \in Nat
  BY <1>11, FS_CardinalityType
<1>13. /\ IsFiniteSet(armed)
       /\ Cardinality(armed) = IF who \in bridge.armed THEN Cardinality(bridge.armed) - 1
                               ELSE Cardinality(bridge.armed) + 1
  <2>1. CASE who \in bridge.armed
    BY <1>5, <1>11, <2>1, FS_RemoveElement
  <2>2. CASE who \notin bridge.armed
    BY <1>5, <1>11, <2>2, FS_AddElement
  <2> QED
    BY <2>1, <2>2
<1>14. ArmingsPaid'
  BY <1>6, <1>10, <1>11, <1>12, <1>13 DEF ArmingsPaid
<1>15. BridgeTypeOK' /\ StoppedIsOff' /\ OwnerHasEnrolled'
  BY <1>1, <1>6, <1>7, <1>10 DEF BridgeInv, BridgeTypeOK, StoppedIsOff, OwnerHasEnrolled
<1> QED
  BY <1>7, <1>14, <1>15 DEF BridgeInv

-----------------------------------------------------------------------------
(* Steps that take no update and leave the place of the loop. *)
LEMMA OrderStays ==
    ASSUME BridgeInv, UNCHANGED <<told, forgotten, handled, finished>>,
           bridge'.up = bridge.up, bridge'.offset = bridge.offset, bridge'.batch = bridge.batch,
           bridge'.pc # bridge.pc => bridge.pc # "poll" /\ bridge'.pc # "poll"
    PROVE  BatchNext' /\ FinishedToOffset' /\ HandledInOrder'
<1>1. BatchNext'
  BY DEF BridgeInv, BatchNext, Past
<1>2. FinishedToOffset'
  BY DEF BridgeInv, FinishedToOffset
<1>3. HandledInOrder'
  BY DEF BridgeInv, HandledInOrder
<1> QED
  BY <1>1, <1>2, <1>3

\* Someone writes to the bot.
LEMMA TellKeeps == BridgeInv /\ Tell => BridgeInv'
<1> SUFFICES ASSUME BridgeInv, Tell PROVE BridgeInv'
  OBVIOUS
<1>1. UNCHANGED <<forgotten, kv, bridge, handled, finished, enrolled, bridgeKills, bridgeSpent>>
  BY DEF Tell
<1>2. PICK m \in Message : told' = Append(told, m)
  BY DEF Tell, Message
<1>3. /\ told \in Seq(Message \cup {Gone}) /\ forgotten \in Nat /\ bridge.offset \in Nat /\ Len(told) \in Nat
  BY BridgeFields DEF BridgeInv, BridgeTypeOK
<1>4. /\ told' \in Seq(Message \cup {Gone}) /\ DOMAIN told' = DOMAIN told \cup {Len(told) + 1}
      /\ \A i \in DOMAIN told : told'[i] = told[i]
      /\ told'[Len(told) + 1] = m /\ Len(told') = Len(told) + 1
  BY <1>2, <1>3, AppendPlace
<1>5. \A i \in DOMAIN bridge.batch : bridge.batch[i] = Past + i /\ bridge.batch[i] <= Len(told) /\ bridge.batch[i] \in Nat
  BY SMTT(30), BridgeFields DEF BridgeInv, BridgeTypeOK, BatchNext
<1>6. Past' = Past
  BY <1>1 DEF Past
<1>7. forgotten <= Len(told) /\ bridge.offset <= Len(told) /\ \A n \in DOMAIN told : n > forgotten => told[n] \in Message
  BY DEF BridgeInv, BatchNext
<1>8. BatchNext'
  BY <1>1, <1>3, <1>4, <1>5, <1>6, <1>7 DEF BatchNext
<1>9. FinishedToOffset' /\ HandledInOrder' /\ OwnerHasEnrolled' /\ ArmingsPaid' /\ StoppedIsOff'
  BY <1>1 DEF BridgeInv, FinishedToOffset, HandledInOrder, OwnerHasEnrolled, ArmingsPaid, StoppedIsOff
<1>10. BridgeTypeOK'
  BY <1>1, <1>4 DEF BridgeInv, BridgeTypeOK
<1> QED
  BY <1>8, <1>9, <1>10 DEF BridgeInv

\* getUpdates confirms what is before the offset.
LEMMA PollKeeps == BridgeInv /\ Poll => BridgeInv'
<1> SUFFICES ASSUME BridgeInv, Poll PROVE BridgeInv'
  OBVIOUS
<1>1. /\ bridge.up /\ bridge.pc = "poll" /\ bridge.batch = <<>> /\ forgotten' = Past
      /\ told' = [n \in DOMAIN told |-> IF n <= Past THEN Gone ELSE told[n]]
      /\ UNCHANGED <<kv, handled, finished, enrolled, bridgeKills, bridgeSpent>>
  BY DEF Poll, Past
<1>2. /\ bridge \in BridgeState /\ told \in Seq(Message \cup {Gone}) /\ forgotten \in Nat /\ bridge.offset \in Nat
      /\ Len(told) \in Nat /\ DOMAIN told = 1 .. Len(told)
  BY BridgeFields DEF BridgeInv, BridgeTypeOK
<1>3. /\ forgotten <= Len(told) /\ bridge.offset <= Len(told)
      /\ \A n \in DOMAIN told : n > forgotten => told[n] \in Message
  BY DEF BridgeInv, BatchNext
<1>4. Past \in Nat /\ Past <= Len(told) /\ Past >= forgotten /\ Past >= bridge.offset
      /\ (Past = forgotten \/ Past = bridge.offset)
  BY <1>2, <1>3 DEF Past
<1>5. /\ told' \in Seq(Message \cup {Gone}) /\ DOMAIN told' = 1 .. Len(told) /\ Len(told') = Len(told)
      /\ \A n \in 1 .. Len(told) : told'[n] = IF n <= Past THEN Gone ELSE told[n]
  <2>1. \A n \in 1 .. Len(told) : told[n] \in Message \cup {Gone}
    BY <1>2
  <2>2. told' \in [1 .. Len(told) -> Message \cup {Gone}]
    BY <1>1, <1>2, <2>1
  <2> QED
    BY <1>1, <1>2, <2>2
<1>6. PICK batch \in Seq(Nat) :
          /\ bridge' = [bridge EXCEPT !.batch = batch]
          /\ \A i \in DOMAIN batch : i \in Nat /\ batch[i] = Past + i /\ batch[i] <= Len(told)
  <2>1. CASE UNCHANGED bridge
    <3>1. bridge' = [bridge EXCEPT !.batch = <<>>]
      BY <1>1, <1>2, <2>1 DEF BridgeState
    <3>2. <<>> \in Seq(Nat) /\ DOMAIN <<>> = {}
      OBVIOUS
    <3> QED
      BY <3>1, <3>2
  <2>2. ASSUME NEW last \in Past .. Len(told),
               bridge' = [bridge EXCEPT !.batch = [i \in 1 .. last - Past |-> Past + i]]
        PROVE  \E batch \in Seq(Nat) :
                  /\ bridge' = [bridge EXCEPT !.batch = batch]
                  /\ \A i \in DOMAIN batch : i \in Nat /\ batch[i] = Past + i /\ batch[i] <= Len(told)
    <3> DEFINE batch == [i \in 1 .. last - Past |-> Past + i]
    <3>1. last - Past \in Nat
      BY <1>2, <1>4
    <3>2. batch \in [1 .. last - Past -> Nat]
      BY <1>4
    <3>3. batch \in Seq(Nat)
      BY <3>1, <3>2
    <3>4. \A i \in 1 .. last - Past : i \in Nat /\ Past + i <= Len(told)
      BY <1>2, <1>4
    <3>5. \A i \in DOMAIN batch : i \in Nat /\ batch[i] = Past + i /\ batch[i] <= Len(told)
      BY <3>4
    <3> HIDE DEF batch
    <3> QED
      BY <2>2, <3>3, <3>5 DEF batch
  <2> QED
    BY <2>1, <2>2 DEF Poll, Past
<1>7. /\ bridge' \in BridgeState /\ bridge'.batch = batch /\ bridge'.up = bridge.up /\ bridge'.pc = "poll"
      /\ bridge'.offset = bridge.offset /\ bridge'.chat = bridge.chat /\ bridge'.user = bridge.user
      /\ bridge'.armed = bridge.armed
  BY <1>1, <1>2, <1>6 DEF BridgeState
<1>8. Past' = Past
  BY <1>1, <1>2, <1>4, <1>7 DEF Past
<1>9. BatchNext'
  BY <1>1, <1>2, <1>3, <1>4, <1>5, <1>6, <1>7, <1>8 DEF BatchNext
<1>10. /\ 1 .. forgotten \subseteq finished
       /\ 1 .. bridge.offset \subseteq finished
  BY <1>1 DEF BridgeInv, FinishedToOffset
<1>11. FinishedToOffset'
  BY <1>1, <1>4, <1>7, <1>10 DEF FinishedToOffset
<1>12. HandledInOrder' /\ OwnerHasEnrolled' /\ ArmingsPaid' /\ StoppedIsOff'
  BY <1>1, <1>7 DEF BridgeInv, HandledInOrder, OwnerHasEnrolled, ArmingsPaid, StoppedIsOff
<1>13. BridgeTypeOK'
  BY <1>1, <1>4, <1>5, <1>7 DEF BridgeInv, BridgeTypeOK
<1> QED
  BY <1>9, <1>11, <1>12, <1>13 DEF BridgeInv

\* The enrolment is written, one key at a time.
LEMMA SaveOwnerKeeps == BridgeInv /\ SaveOwner => BridgeInv'
<1> SUFFICES ASSUME BridgeInv, SaveOwner PROVE BridgeInv'
  OBVIOUS
<1>1. bridge.up /\ UNCHANGED <<told, forgotten, enrolled, bridgeKills, bridgeSpent>>
  BY DEF SaveOwner
<1>2. bridge \in BridgeState /\ kv \in KvState
  BY DEF BridgeInv, BridgeTypeOK
<1>3. /\ bridge.chat \in Owner /\ bridge.user \in Owner /\ bridge.offset \in Nat
  BY <1>2, BridgeFields
<1>4. PICK pc \in {"poll", "user", "code"} :
          /\ bridge' = [bridge EXCEPT !.pc = pc] /\ bridge.pc # "poll"
          /\ IF pc = "poll" THEN bridge.pc = "code" /\ Handled(bridge.offset) ELSE UNCHANGED <<handled, finished>>
          /\ \/ kv' = [kv EXCEPT !.chat = bridge.chat] \/ kv' = [kv EXCEPT !.user = bridge.user]
             \/ kv' = [kv EXCEPT !.code = FALSE]
  BY DEF SaveOwner
<1>5. /\ bridge' \in BridgeState /\ bridge'.pc = pc /\ bridge'.up = bridge.up /\ bridge'.offset = bridge.offset
      /\ bridge'.batch = bridge.batch /\ bridge'.chat = bridge.chat /\ bridge'.user = bridge.user
      /\ bridge'.armed = bridge.armed
  BY <1>2, <1>4 DEF BridgeState
<1>6. /\ kv' \in KvState /\ kv'.chat \in {kv.chat, bridge.chat} /\ kv'.user \in {kv.user, bridge.user}
  BY <1>2, <1>3, <1>4 DEF KvState
<1>7. OwnerHasEnrolled' /\ ArmingsPaid' /\ StoppedIsOff'
  BY <1>1, <1>5, <1>6 DEF BridgeInv, OwnerHasEnrolled, ArmingsPaid, StoppedIsOff
<1>8. handled' \in Seq(Nat) /\ BatchNext' /\ FinishedToOffset' /\ HandledInOrder'
  <2>1. CASE pc # "poll"
    BY <1>1, <1>4, <1>5, <2>1, OrderStays DEF BridgeInv, BridgeTypeOK
  <2>2. CASE pc = "poll"
    <3>1. handled' = Append(handled, bridge.offset) /\ finished' = finished \cup {bridge.offset}
      BY <1>4, <2>2 DEF Handled
    <3>2. /\ \A i, j \in DOMAIN handled : i < j => handled[i] < handled[j]
          /\ \A i \in DOMAIN handled : handled[i] < bridge.offset
          /\ handled \in Seq(Nat)
      BY <1>1, <1>4 DEF BridgeInv, BridgeTypeOK, HandledInOrder
    <3>3. /\ handled' \in Seq(Nat) /\ DOMAIN handled' = DOMAIN handled \cup {Len(handled) + 1}
          /\ \A i \in DOMAIN handled : handled'[i] = handled[i] /\ i <= Len(handled) /\ i \in Nat
          /\ handled'[Len(handled) + 1] = bridge.offset /\ Len(handled) \in Nat
      BY <1>3, <3>1, <3>2, AppendPlace
    <3>4. \A i \in DOMAIN handled : handled[i] \in Nat
      BY <3>2
    <3>5. \A i \in DOMAIN handled' : handled'[i] <= bridge.offset
      BY <1>3, <3>2, <3>3, <3>4
    <3>6. ASSUME NEW i \in DOMAIN handled', NEW j \in DOMAIN handled', i < j PROVE handled'[i] < handled'[j]
      <4>1. i \in DOMAIN handled
        BY <3>3, <3>6
      <4>2. CASE j \in DOMAIN handled
        BY <3>2, <3>3, <3>6, <4>1, <4>2
      <4>3. CASE j = Len(handled) + 1
        BY <3>2, <3>3, <4>1, <4>3
      <4> QED
        BY <3>3, <4>2, <4>3
    <3>7. HandledInOrder'
      BY <1>5, <2>2, <3>5, <3>6 DEF HandledInOrder
    <3>8. FinishedToOffset'
      BY <1>1, <1>5, <2>2, <3>1 DEF BridgeInv, FinishedToOffset
    <3>9. BatchNext'
      BY <1>1, <1>5 DEF BridgeInv, BatchNext, Past
    <3> QED
      BY <3>3, <3>7, <3>8, <3>9
  <2> QED
    BY <2>1, <2>2
<1>9. BridgeTypeOK'
  BY <1>1, <1>5, <1>6, <1>8 DEF BridgeInv, BridgeTypeOK
<1> QED
  BY <1>7, <1>8, <1>9 DEF BridgeInv

\* Two seconds without an answer.
LEMMA TwoSecondsKeeps == BridgeInv /\ TwoSeconds => BridgeInv'
<1> SUFFICES ASSUME BridgeInv, TwoSeconds PROVE BridgeInv'
  OBVIOUS
<1>1. /\ bridge' = [bridge EXCEPT !.armed = {}]
      /\ UNCHANGED <<told, forgotten, kv, handled, finished, enrolled, bridgeKills, bridgeSpent>>
  BY DEF TwoSeconds
<1>2. bridge \in BridgeState
  BY DEF BridgeInv, BridgeTypeOK
<1>3. /\ bridge' \in BridgeState /\ bridge'.pc = bridge.pc /\ bridge'.up = bridge.up /\ bridge'.offset = bridge.offset
      /\ bridge'.batch = bridge.batch /\ bridge'.chat = bridge.chat /\ bridge'.user = bridge.user
      /\ bridge'.armed = {}
  BY <1>1, <1>2 DEF BridgeState
<1>4. BatchNext' /\ FinishedToOffset' /\ HandledInOrder'
  BY <1>1, <1>3, OrderStays
<1>5. StoppedIsOff'
  <2>1. ~bridge.up => bridge = Off /\ bridge.armed = {}
    BY OffFact DEF BridgeInv, StoppedIsOff
  <2> QED
    BY <1>3, <2>1 DEF TwoSeconds, StoppedIsOff
<1>6. /\ IsFiniteSet({}) /\ Cardinality({}) = 0 /\ Cardinality(bridge.armed) \in Nat
      /\ bridgeKills.done \in Nat /\ bridgeKills.asked \in Nat
      /\ 2 * bridgeKills.done + Cardinality(bridge.armed) <= bridgeKills.asked
  BY FS_EmptySet, FS_CardinalityType DEF BridgeInv, ArmingsPaid, BridgeTypeOK
<1>7. ArmingsPaid'
  BY <1>1, <1>3, <1>6 DEF ArmingsPaid
<1>8. OwnerHasEnrolled' /\ BridgeTypeOK'
  BY <1>1, <1>3 DEF BridgeInv, OwnerHasEnrolled, BridgeTypeOK
<1> QED
  BY <1>4, <1>5, <1>7, <1>8 DEF BridgeInv

(* The rows of the store change outside the loop. *)
LEMMA StoreRowsKeep == BridgeInv /\ (Setup \/ Unbind \/ CodeExpires) => BridgeInv'
<1> SUFFICES ASSUME BridgeInv, Setup \/ Unbind \/ CodeExpires PROVE BridgeInv'
  OBVIOUS
<1>1. UNCHANGED <<told, forgotten, bridge, handled, finished, enrolled, bridgeKills>>
  BY DEF Setup, Unbind, CodeExpires
<1>2. kv \in KvState /\ bridgeSpent \in [starts : Nat, setups : Nat]
  BY DEF BridgeInv, BridgeTypeOK
<1>3. bridgeSpent' \in [starts : Nat, setups : Nat]
  BY <1>2 DEF Setup, Unbind, CodeExpires
<1>4. kv' \in KvState /\ kv'.chat \in {kv.chat, NoOne} /\ kv'.user \in {kv.user, NoOne}
  <2>1. CASE Setup
    <3>1. PICK code \in BOOLEAN : kv' = [kv EXCEPT !.token = TRUE, !.code = code]
      BY <1>2, <2>1 DEF Setup, KvState
    <3> QED
      BY <1>2, <3>1 DEF KvState
  <2>2. CASE Unbind
    <3>1. PICK chat \in {kv.chat, NoOne}, user \in {kv.user, NoOne}, code \in BOOLEAN :
              kv' = [kv EXCEPT !.token = FALSE, !.chat = chat, !.user = user, !.code = code]
      BY <1>2, <2>2, KvFields DEF Unbind
    <3>2. chat \in Owner /\ user \in Owner
      BY <1>2, KvFields DEF Owner
    <3> QED
      BY <1>2, <3>1, <3>2 DEF KvState
  <2>3. CASE CodeExpires
    BY <1>2, <2>3 DEF CodeExpires, KvState
  <2> QED
    BY <2>1, <2>2, <2>3
<1>5. BatchNext' /\ FinishedToOffset' /\ HandledInOrder'
  BY <1>1, OrderStays
<1>6. BridgeTypeOK' /\ StoppedIsOff' /\ OwnerHasEnrolled' /\ ArmingsPaid'
  BY <1>1, <1>3, <1>4 DEF BridgeInv, BridgeTypeOK, StoppedIsOff, OwnerHasEnrolled, ArmingsPaid
<1> QED
  BY <1>5, <1>6 DEF BridgeInv

\* The daemon starts with what the store keeps.
LEMMA StartBridgeKeeps == BridgeInv /\ StartBridge => BridgeInv'
<1> SUFFICES ASSUME BridgeInv, StartBridge PROVE BridgeInv'
  OBVIOUS
<1>1. /\ ~bridge.up /\ bridgeSpent' = [bridgeSpent EXCEPT !.starts = @ + 1]
      /\ handled' = <<>> /\ bridgeKills' = [asked |-> 0, done |-> 0]
      /\ UNCHANGED <<told, forgotten, finished, enrolled>>
  BY DEF StartBridge
<1>2. bridge = Off /\ kv \in KvState /\ bridgeSpent' \in [starts : Nat, setups : Nat]
  BY <1>1 DEF BridgeInv, BridgeTypeOK, StoppedIsOff
<1>3. PICK code \in BOOLEAN, row \in BOOLEAN :
          /\ bridge' = [Off EXCEPT !.up = TRUE, !.chat = kv.chat, !.user = kv.user, !.code = code]
          /\ kv' = [kv EXCEPT !.token = TRUE, !.code = row]
  BY <1>2, KvFields DEF StartBridge
<1>4. /\ bridge' \in BridgeState /\ bridge'.pc = "poll" /\ bridge'.up /\ bridge'.offset = 0
      /\ bridge'.batch = <<>> /\ bridge'.chat = kv.chat /\ bridge'.user = kv.user /\ bridge'.armed = {}
  BY <1>2, <1>3, KvFields, OffFact DEF BridgeState
<1>5. kv' \in KvState /\ kv'.chat = kv.chat /\ kv'.user = kv.user
  BY <1>2, <1>3 DEF KvState
<1>6. BatchNext' /\ FinishedToOffset' /\ HandledInOrder'
  <2>1. /\ forgotten <= Len(told) /\ 1 .. forgotten \subseteq finished /\ Len(told) \in Nat
        /\ \A n \in DOMAIN told : n > forgotten => told[n] \in Message
    BY DEF BridgeInv, BatchNext, FinishedToOffset, BridgeTypeOK
  <2> QED
    BY <1>1, <1>4, <2>1 DEF BatchNext, FinishedToOffset, HandledInOrder
<1>7. BridgeTypeOK' /\ StoppedIsOff' /\ OwnerHasEnrolled'
  BY <1>1, <1>2, <1>4, <1>5 DEF BridgeInv, BridgeTypeOK, StoppedIsOff, OwnerHasEnrolled
<1>8. ArmingsPaid'
  BY <1>1, <1>4, FS_EmptySet DEF ArmingsPaid
<1> QED
  BY <1>6, <1>7, <1>8 DEF BridgeInv

\* The daemon stops.
LEMMA StopBridgeKeeps == BridgeInv /\ StopBridge => BridgeInv'
<1> SUFFICES ASSUME BridgeInv, StopBridge PROVE BridgeInv'
  OBVIOUS
<1>1. /\ bridge' = Off
      /\ UNCHANGED <<told, forgotten, kv, handled, finished, enrolled, bridgeKills, bridgeSpent>>
  BY DEF StopBridge
<1>2. BatchNext' /\ FinishedToOffset' /\ HandledInOrder'
  <2>1. /\ forgotten <= Len(told) /\ 1 .. forgotten \subseteq finished /\ Len(told) \in Nat
        /\ \A n \in DOMAIN told : n > forgotten => told[n] \in Message
    BY DEF BridgeInv, BatchNext, FinishedToOffset, BridgeTypeOK
  <2> QED
    BY <1>1, <2>1, OffFact DEF BridgeInv, BatchNext, FinishedToOffset, HandledInOrder
<1>3. BridgeTypeOK' /\ StoppedIsOff' /\ OwnerHasEnrolled'
  BY <1>1, OffFact DEF BridgeInv, BridgeTypeOK, StoppedIsOff, OwnerHasEnrolled
<1>6. /\ IsFiniteSet({}) /\ Cardinality({}) = 0 /\ Cardinality(bridge.armed) \in Nat
      /\ bridgeKills.done \in Nat /\ bridgeKills.asked \in Nat
      /\ 2 * bridgeKills.done + Cardinality(bridge.armed) <= bridgeKills.asked
  BY FS_EmptySet, FS_CardinalityType DEF BridgeInv, ArmingsPaid, BridgeTypeOK
<1>7. ArmingsPaid'
  BY <1>1, <1>6, OffFact DEF ArmingsPaid
<1> QED
  BY <1>2, <1>3, <1>7 DEF BridgeInv

\* The invariant holds at first.
LEMMA BridgeInitInv == BridgeInit => BridgeInv
<1> SUFFICES ASSUME BridgeInit PROVE BridgeInv
  OBVIOUS
<1>1. PICK who \in Owner : /\ kv = [token |-> TRUE, chat |-> who, user |-> who, code |-> FALSE,
                                    target |-> [a \in Accounts |-> 0]]
                           /\ enrolled = {who} \ {NoOne}
  BY DEF BridgeInit, Owner
<1>2. /\ told = <<>> /\ forgotten = 0 /\ bridge = Off /\ handled = <<>>
      /\ bridgeKills = [asked |-> 0, done |-> 0] /\ bridgeSpent = [starts |-> 0, setups |-> 0]
  BY DEF BridgeInit
<1>3. kv \in KvState /\ kv.chat = who /\ kv.user = who
  BY <1>1 DEF KvState
<1>4. BridgeTypeOK /\ StoppedIsOff /\ OwnerHasEnrolled
  BY <1>1, <1>2, <1>3, OffFact DEF BridgeTypeOK, StoppedIsOff, OwnerHasEnrolled
<1>5. BatchNext /\ FinishedToOffset /\ HandledInOrder
  BY <1>2, OffFact DEF BatchNext, FinishedToOffset, HandledInOrder
<1>6. ArmingsPaid
  BY <1>2, OffFact, FS_EmptySet DEF ArmingsPaid
<1> QED
  BY <1>4, <1>5, <1>6 DEF BridgeInv

\* A stuttering step.
LEMMA BridgeStays == BridgeInv /\ UNCHANGED bridgeVars => BridgeInv'
<1> SUFFICES ASSUME BridgeInv, UNCHANGED bridgeVars PROVE BridgeInv'
  OBVIOUS
<1>1. BatchNext' /\ FinishedToOffset' /\ HandledInOrder'
  BY OrderStays DEF bridgeVars
<1> QED
  BY <1>1 DEF bridgeVars, BridgeInv, BridgeTypeOK, StoppedIsOff, OwnerHasEnrolled, ArmingsPaid

\* Every step keeps the invariant.
LEMMA BridgeNextInv == BridgeInv /\ [BridgeNext]_bridgeVars => BridgeInv'
BY TellKeeps, PollKeeps, IgnoreKeeps, EnrollKeeps, SaveOwnerKeeps, NewKeeps, KillKeeps, TwoSecondsKeeps,
   JudgeKeeps, StoreRowsKeep, StartBridgeKeeps, StopBridgeKeeps, BridgeStays DEF BridgeNext

(* The bridge handles every update Telegram forgets, once and in order; it
   obeys those who have enrolled; and a kill takes two /kill. *)
THEOREM BridgeObeysItsOwner == BridgeSpec => []BridgeSafe
<1>1. ASSUME BridgeInv PROVE BridgeSafe
  <2>1. HandledBeforeForgotten /\ OwnerHasEnrolled
    BY <1>1 DEF BridgeInv, FinishedToOffset, HandledInOrder, HandledBeforeForgotten
  <2>2. /\ Cardinality(bridge.armed) \in Nat /\ bridgeKills.done \in Nat /\ bridgeKills.asked \in Nat
        /\ 2 * bridgeKills.done + Cardinality(bridge.armed) <= bridgeKills.asked
    BY <1>1, FS_CardinalityType DEF BridgeInv, ArmingsPaid, BridgeTypeOK
  <2>3. KillTakesTwo
    BY <2>2 DEF KillTakesTwo
  <2> QED
    BY <2>1, <2>3 DEF BridgeSafe
<1> QED
  BY <1>1, BridgeInitInv, BridgeNextInv, PTL DEF BridgeSpec
-----------------------------------------------------------------------------
(* `onibi start`.  What makes its invariant inductive is who answers for what
   is open.  A child and its tunnel live and die together, and while they live
   the command is in Enable or has deferred the cleanup; so it is for the serve
   rule, unless a command has failed to take it away.  A session that is live,
   or has a tmux target, has a cleanup ahead of it from the step that made it. *)
Early == {"bind", "session"}                          \* nothing is opened
Enabling == {"attach", "probe", "open", "await", "url"}
Holding == {"validate", "health", "mint", "register", "print", "wait", "drain", "disable"}
Ending == {"hide", "kill", "return", "returned"}

StartTypeOK ==
    /\ mode \in Transports /\ step \in Early \cup Enabling \cup Holding \cup Ending
    /\ exposed \subseteq {"serve", "own", "orphan"} /\ child \in {"none", "alive", "dead"}
    /\ held \in BOOLEAN
    /\ session \in [row : {"none", "live", "ended"}, tmux : BOOLEAN]

TunnelAnswered ==
    /\ "own" \in exposed <=> child = "alive"
    /\ child = "alive" => way.opens = "child" /\ (held \/ step \in {"await", "url"})
    /\ "serve" \in exposed =>
           "serve" \in stuck \/ (way.opens = "serve" /\ (held \/ step \in {"await", "url"}))

SessionAnswered ==
    /\ step \in Early => session.row = "none"
    /\ session.row = "none" => ~session.tmux
    /\ session.row = "live" => "row" \in stuck \/ step \in Enabling \cup Holding \cup {"hide"}
    /\ session.tmux => "tmux" \in stuck \/ step \in Enabling \cup Holding \cup {"hide", "kill"}

StartInv == StartTypeOK /\ TunnelAnswered /\ SessionAnswered /\ (held => step \in Holding)
-----------------------------------------------------------------------------
\* What the proofs use of the six transports: a provider that starts a child
\* undoes an Enable that failed, the one that adds a serve rule does not.
LEMMA WayFact ==
    ASSUME mode \in Transports
    PROVE  /\ way.opens \in {"nothing", "serve", "child"}
           /\ way.opens = "child" => way.undoes
           /\ way.opens = "serve" => ~way.undoes
  <1>1. mode \in {"lan", "tailscale", "wireguard", "zerotier", "cloudflare", "ngrok"}
    BY StartAssumption DEF StartAssumption
  <1>2. CASE mode = "lan" BY <1>2 DEF way, Transport, Lan
  <1>3. CASE mode = "tailscale" BY <1>3 DEF way, Transport, Tailscale
  <1>4. CASE mode = "wireguard" BY <1>4 DEF way, Transport, WireGuard
  <1>5. CASE mode = "zerotier" BY <1>5 DEF way, Transport, ZeroTier
  <1>6. CASE mode = "cloudflare" BY <1>6 DEF way, Transport, Cloudflare
  <1>7. CASE mode = "ngrok" BY <1>7 DEF way, Transport, Ngrok
  <1> QED BY <1>1, <1>2, <1>3, <1>4, <1>5, <1>6, <1>7

\* The transport does not change, and neither do its policies.
LEMMA WayStays == mode' = mode => way' = way
  BY DEF way

\* Initially nothing is open: the agent of an earlier start may be.
LEMMA StartInvInit == StartInit => StartInv
  <1> SUFFICES ASSUME StartInit PROVE StartInv
    OBVIOUS
  <1>1. agentAPI \in {"own", "orphan"} /\ exposed = {agentAPI} \ {"own"}
    BY DEF StartInit
  <1>2. exposed \subseteq {"orphan"}
    BY <1>1
  <1>3. StartTypeOK
    BY <1>2 DEF StartInit, StartTypeOK, Early
  <1>4. TunnelAnswered
    BY <1>2 DEF StartInit, TunnelAnswered
  <1>5. SessionAnswered
    BY DEF StartInit, SessionAnswered
  <1> QED BY <1>3, <1>4, <1>5 DEF StartInv, StartInit

\* The cleanup that follows a step is the one that the command owes.
LEMMA UnwindOwes ==
    ASSUME Unwind, held \in BOOLEAN
    PROVE  /\ held => step' = "disable"
           /\ ~held /\ session.row # "none" => step' = "hide"
           /\ ~held /\ session.row = "none" => step' = "return"
  BY DEF Unwind, Enter

\* A step of the command that opens and closes nothing goes on, or unwinds.
LEMMA Advance ==
    ASSUME StartInv,
           step \in (Enabling \cup Holding) \ {"await", "url"},
           UNCHANGED <<mode, exposed, child, held, session, stuck>>,
           Unwind \/ (step' \in Enabling \cup Holding /\ (held => step' \in Holding))
    PROVE  StartInv'
  <1>1. StartTypeOK /\ TunnelAnswered /\ SessionAnswered /\ (held => step \in Holding)
    BY DEF StartInv
  <1>2. held \in BOOLEAN
    BY <1>1 DEF StartTypeOK
  <1>3. \/ held /\ step' \in Holding
        \/ ~held /\ step' \in Enabling \cup Holding
        \/ ~held /\ session.row # "none" /\ step' = "hide"
        \/ ~held /\ session.row = "none" /\ step' = "return"
    BY UnwindOwes, <1>2 DEF Holding
  <1>4. StartTypeOK'
    BY <1>1, <1>3 DEF StartTypeOK, Ending
  <1>5. TunnelAnswered'
    BY <1>1, WayStays DEF TunnelAnswered
  <1>6. SessionAnswered'
    BY <1>1, <1>3 DEF SessionAnswered, Early, Enabling, Holding
  <1>7. held' => step' \in Holding'
    BY <1>3 DEF Holding
  <1> QED BY <1>4, <1>5, <1>6, <1>7 DEF StartInv

\* Steps of the others that leave the command where it is and touch nothing open.
LEMMA Aside ==
    ASSUME StartInv, UNCHANGED <<mode, step, exposed, child, held, session, stuck>>
    PROVE  StartInv'
  BY WayStays DEF StartInv, StartTypeOK, TunnelAnswered, SessionAnswered, Early, Enabling, Holding, Ending

\* Before Enable: what is started here is a session, with its cleanup.
LEMMA BeginKeeps == ASSUME StartInv, Bind \/ StartSession PROVE StartInv'
  <1>1. StartTypeOK /\ TunnelAnswered /\ SessionAnswered /\ (held => step \in Holding)
    BY DEF StartInv
  <1>2. /\ step \in Early /\ UNCHANGED <<mode, exposed, child, held, stuck>>
        /\ \/ session' = session /\ step' \in {"session", "return"}
           \/ session' = [row |-> "live", tmux |-> TRUE] /\ step' = "attach"
    BY DEF Bind, StartSession, Early, transportVars, Enter
  <1>3. ~held /\ session.row = "none" /\ ~session.tmux
    BY <1>1, <1>2 DEF SessionAnswered, Holding, Early
  <1>4. StartTypeOK'
    <2>1. [row |-> "live", tmux |-> TRUE] \in [row : {"none", "live", "ended"}, tmux : BOOLEAN]
      OBVIOUS
    <2>2. session' \in [row : {"none", "live", "ended"}, tmux : BOOLEAN]
      BY <1>1, <1>2, <2>1 DEF StartTypeOK
    <2>3. step' \in Early \cup Enabling \cup Ending
      BY <1>2 DEF Early, Enabling, Ending
    <2> QED BY <1>1, <1>2, <2>2, <2>3 DEF StartTypeOK
  <1>5. TunnelAnswered'
    BY <1>1, <1>2, <1>3, WayStays DEF TunnelAnswered, Early
  <1>6. SessionAnswered'
    BY <1>2, <1>3 DEF SessionAnswered, Early, Enabling
  <1> QED BY <1>2, <1>3, <1>4, <1>5, <1>6 DEF StartInv

\* The steps that open and close nothing.
LEMMA QuietKeeps ==
    ASSUME StartInv,
           \/ RunDaemon \/ Probe \/ Validate \/ CheckHealth \/ Mint \/ Register
           \/ PrintUrl \/ HealthTick \/ StopWaiting \/ Drain
    PROVE  StartInv'
  <1>1. held => step \in Holding
    BY DEF StartInv
  <1>2. UNCHANGED <<mode, exposed, child, held, session, stuck>>
    BY DEF RunDaemon, Probe, Validate, CheckHealth, Mint, Register, PrintUrl,
           HealthTick, StopWaiting, Drain, transportVars
  <1>3. CASE RunDaemon \/ Probe
    <2>1. step \in Enabling \ {"await", "url"} /\ (Unwind \/ step' \in Enabling)
      BY <1>3 DEF RunDaemon, Probe, Enabling, Enter
    <2>2. ~held
      BY <1>1, <2>1 DEF Enabling, Holding
    <2> QED BY <1>2, <2>1, <2>2, Advance
  <1>4. CASE Validate \/ CheckHealth \/ Mint \/ Register
    <2>1. step \in Holding /\ (Unwind \/ step' \in Holding)
      BY <1>4 DEF Validate, CheckHealth, Mint, Register, Holding, Enter
    <2> QED BY <1>2, <2>1, Advance DEF Holding
  <1>5. CASE PrintUrl \/ HealthTick \/ StopWaiting \/ Drain
    <2>1. step \in Holding /\ (Unwind \/ step' \in Holding)
      BY <1>5 DEF PrintUrl, HealthTick, StopWaiting, Drain, Holding, Enter
    <2> QED BY <1>2, <2>1, Advance DEF Holding
  <1> QED BY <1>3, <1>4, <1>5

\* Enable opens a way, and is then waiting for it; or nothing has been opened.
LEMMA OpenKeeps == ASSUME StartInv, Open PROVE StartInv'
  <1>1. StartTypeOK /\ TunnelAnswered /\ SessionAnswered /\ ~held
    BY DEF StartInv, Open, Holding
  <1>2. step = "open" /\ UNCHANGED <<mode, held, session, stuck>>
    BY DEF Open
  <1>3. CASE UNCHANGED <<exposed, child>>
    <2>1. Unwind \/ step' \in Enabling \cup Holding
      BY DEF Open, Enabling, Enter
    <2> QED BY <1>1, <1>2, <1>3, <2>1, Advance DEF Enabling
  <1>4. CASE /\ step' = "await"
              /\ \/ way.opens = "serve" /\ exposed' = exposed \cup {"serve"} /\ child' = child
                 \/ way.opens = "child" /\ exposed' = exposed \cup {"own"} /\ child' = "alive"
    <2>1. StartTypeOK'
      BY <1>1, <1>2, <1>4 DEF StartTypeOK, Enabling
    <2>2. TunnelAnswered'
      BY <1>1, <1>2, <1>4, WayStays DEF TunnelAnswered
    <2>3. SessionAnswered'
      BY <1>1, <1>2, <1>4 DEF SessionAnswered, Early, Enabling
    <2> QED BY <1>1, <1>2, <2>1, <2>2, <2>3 DEF StartInv
  <1> QED BY <1>3, <1>4 DEF Open, StartChild, Enter

\* What a step of the command that unwinds without a transport leaves to prove:
\* the tunnel, which no step after it answers for.
LEMMA UnwindUnheld ==
    ASSUME StartInv, Unwind, ~held, step \in Enabling,
           UNCHANGED <<mode, held, session>>, stuck \subseteq stuck',
           exposed' \subseteq exposed, child' \in {child, "dead"},
           "own" \notin exposed', child' # "alive", "serve" \in exposed' => "serve" \in stuck'
    PROVE  StartInv'
  <1>1. StartTypeOK /\ TunnelAnswered /\ SessionAnswered
    BY DEF StartInv
  <1>2. \/ session.row # "none" /\ step' = "hide"
        \/ session.row = "none" /\ step' = "return"
    BY <1>1, UnwindOwes DEF StartTypeOK
  <1>3. StartTypeOK'
    BY <1>1, <1>2 DEF StartTypeOK, Ending
  <1>4. TunnelAnswered'
    BY DEF TunnelAnswered
  <1>5. SessionAnswered'
    BY <1>1, <1>2 DEF SessionAnswered, Early, Enabling, Holding
  <1> QED BY <1>3, <1>4, <1>5 DEF StartInv

\* Enable goes on with its tunnel, or takes it away; the serve rule stays stuck.
LEMMA EnableWaitKeeps == ASSUME StartInv, Await PROVE StartInv'
  <1>1. StartTypeOK /\ TunnelAnswered /\ SessionAnswered /\ ~held
    BY DEF StartInv, Await, Holding
  <1>2. step = "await" /\ UNCHANGED <<mode, held, session>>
    BY DEF Await
  <1>3. /\ way.opens \in {"nothing", "serve", "child"}
        /\ way.opens = "child" => way.undoes
        /\ way.opens = "serve" => ~way.undoes
    BY <1>1, WayFact DEF StartTypeOK
  <1>4. CASE step' = "url" /\ UNCHANGED <<exposed, child, stuck>>
    <2>1. StartTypeOK'
      BY <1>1, <1>2, <1>4 DEF StartTypeOK, Enabling
    <2>2. TunnelAnswered'
      BY <1>1, <1>2, <1>4, WayStays DEF TunnelAnswered
    <2>3. SessionAnswered'
      BY <1>1, <1>2, <1>4 DEF SessionAnswered, Early, Enabling
    <2> QED BY <1>1, <1>2, <2>1, <2>2, <2>3 DEF StartInv
  <1>5. CASE Unwind /\ way.undoes /\ CloseTunnel("own") /\ stuck' = stuck
    <2>1. exposed' = exposed \ {"own"} /\ child' \in {child, "dead"} /\ child' # "alive"
      BY <1>5 DEF CloseTunnel, KillChild
    <2>2. "serve" \in exposed' => "serve" \in stuck
      BY <1>1, <1>3, <1>5, <2>1 DEF TunnelAnswered
    <2> QED BY <1>1, <1>2, <1>5, <2>1, <2>2, UnwindUnheld DEF Enabling
  <1>6. CASE /\ Unwind /\ ~way.undoes
              /\ stuck' = stuck \cup {"serve"} /\ UNCHANGED <<exposed, child>>
    <2>1. "own" \notin exposed /\ child # "alive"
      BY <1>1, <1>3, <1>6 DEF TunnelAnswered
    <2> QED BY <1>1, <1>2, <1>6, <2>1, UnwindUnheld DEF Enabling
  <1> QED BY <1>4, <1>5, <1>6 DEF Await, Enter

\* A URL that fails closes the rule, or the command that should have has failed.
LEMMA UrlKeeps == ASSUME StartInv, Url PROVE StartInv'
  <1>1. StartTypeOK /\ TunnelAnswered /\ SessionAnswered /\ ~held
    BY DEF StartInv, Url, Holding
  <1>2. step = "url" /\ UNCHANGED <<mode, child, session>>
    BY DEF Url
  <1>3. CASE held' = TRUE /\ step' = "validate" /\ UNCHANGED <<exposed, stuck>>
    <2>1. StartTypeOK'
      BY <1>1, <1>2, <1>3 DEF StartTypeOK, Holding
    <2>2. TunnelAnswered'
      BY <1>1, <1>2, <1>3, WayStays DEF TunnelAnswered
    <2>3. SessionAnswered'
      BY <1>1, <1>2, <1>3 DEF SessionAnswered, Early, Holding, Enabling
    <2> QED BY <1>3, <2>1, <2>2, <2>3 DEF StartInv, Holding
  <1>4. CASE way.opens = "serve" /\ CloseServe /\ Unwind /\ held' = held
    <2>1. \/ exposed' = exposed \ {"serve"} /\ stuck' = stuck
          \/ exposed' = exposed /\ stuck' = stuck \cup {"serve"}
      BY <1>4 DEF CloseServe
    <2>2. "own" \notin exposed /\ child # "alive"
      BY <1>1, <1>4 DEF TunnelAnswered
    <2> QED BY <1>1, <1>2, <1>4, <2>1, <2>2, UnwindUnheld DEF Enabling
  <1> QED BY <1>3, <1>4 DEF Url, Enter

\* cleanupPairTransport closes what the transport had opened, or is stuck with it.
LEMMA DisableKeeps == ASSUME StartInv, Disable PROVE StartInv'
  <1>1. StartTypeOK /\ TunnelAnswered /\ SessionAnswered
    BY DEF StartInv
  <1>2. /\ step = "disable" /\ step' = "hide" /\ held' = FALSE
        /\ UNCHANGED <<mode, session>>
    BY DEF Disable, Enter
  <1>3. way.opens \in {"nothing", "serve", "child"}
    BY <1>1, WayFact DEF StartTypeOK
  <1>4. /\ exposed' \subseteq exposed /\ stuck \subseteq stuck'
        /\ child' \in {child, "dead"} /\ child' # "alive" /\ "own" \notin exposed'
        /\ "serve" \in exposed' => "serve" \in stuck'
    <2>1. CASE way.opens = "serve"
      <3>1. CloseServe /\ child' = child
        BY <2>1 DEF Disable
      <3>2. \/ exposed' = exposed \ {"serve"} /\ stuck' = stuck
            \/ exposed' = exposed /\ stuck' = stuck \cup {"serve"}
        BY <3>1 DEF CloseServe
      <3>3. "own" \notin exposed /\ child # "alive"
        BY <1>1, <2>1 DEF TunnelAnswered
      <3> QED BY <3>1, <3>2, <3>3
    <2>2. CASE way.opens = "child"
      <3>1. CloseTunnel(active) /\ stuck' = stuck
        BY <2>2 DEF Disable
      <3>2. exposed' = exposed \ {active, "own"} /\ child' \in {child, "dead"} /\ child' # "alive"
        BY <3>1 DEF CloseTunnel, KillChild
      <3>3. "serve" \in exposed => "serve" \in stuck
        BY <1>1, <2>2 DEF TunnelAnswered
      <3> QED BY <3>1, <3>2, <3>3
    <2>3. CASE way.opens = "nothing"
      <3>1. UNCHANGED <<exposed, child, stuck>>
        BY <2>3 DEF Disable
      <3> QED BY <1>1, <2>3, <3>1 DEF TunnelAnswered
    <2> QED BY <1>3, <2>1, <2>2, <2>3
  <1>5. StartTypeOK'
    BY <1>1, <1>2, <1>4 DEF StartTypeOK, Ending
  <1>6. TunnelAnswered'
    BY <1>4 DEF TunnelAnswered
  <1>7. SessionAnswered'
    BY <1>1, <1>2, <1>4 DEF SessionAnswered, Early, Enabling, Holding
  <1> QED BY <1>2, <1>5, <1>6, <1>7 DEF StartInv

\* The session is ended, then its tmux target; a command that fails is stuck.
LEMMA CleanupKeeps == ASSUME StartInv, Hide \/ KillTarget PROVE StartInv'
  <1>1. StartTypeOK /\ TunnelAnswered /\ SessionAnswered
    BY DEF StartInv
  <1>2. UNCHANGED <<mode, exposed, child, held>> /\ ~held
    BY DEF StartInv, Hide, KillTarget, transportVars, Holding
  <1>3. PICK row \in {"none", "live", "ended"}, tmux \in BOOLEAN :
            session = [row |-> row, tmux |-> tmux]
    BY <1>1 DEF StartTypeOK
  <1>4. CASE Hide
    <2>1. /\ step = "hide" /\ step' = "kill"
          /\ \/ session' = [session EXCEPT !.row = "ended"] /\ stuck' = stuck
             \/ stuck' = stuck \cup {"row"} /\ session' = session
      BY <1>4 DEF Hide, Enter
    <2>2. \/ session' = [row |-> "ended", tmux |-> tmux] /\ stuck' = stuck
          \/ session' = session /\ stuck' = stuck \cup {"row"}
      BY <1>3, <2>1
    <2>3. session' \in [row : {"none", "live", "ended"}, tmux : BOOLEAN]
      <3>1. [row |-> "ended", tmux |-> tmux] \in [row : {"none", "live", "ended"}, tmux : BOOLEAN]
        OBVIOUS
      <3> QED BY <1>1, <2>2, <3>1 DEF StartTypeOK
    <2>4. StartTypeOK'
      BY <1>1, <1>2, <2>1, <2>3 DEF StartTypeOK, Ending
    <2>5. TunnelAnswered'
      BY <1>1, <1>2, <2>1, <2>2, WayStays DEF TunnelAnswered
    <2>6. SessionAnswered'
      BY <1>1, <1>3, <2>1, <2>2 DEF SessionAnswered, Early
    <2> QED BY <1>2, <2>4, <2>5, <2>6 DEF StartInv
  <1>5. CASE KillTarget
    <2>1. /\ step = "kill" /\ step' = "return"
          /\ \/ session' = [session EXCEPT !.tmux = FALSE] /\ stuck' = stuck
             \/ stuck' = stuck \cup {"tmux"} /\ session' = session
      BY <1>5 DEF KillTarget, Enter
    <2>2. \/ session' = [row |-> row, tmux |-> FALSE] /\ stuck' = stuck
          \/ session' = session /\ stuck' = stuck \cup {"tmux"}
      BY <1>3, <2>1
    <2>3. session' \in [row : {"none", "live", "ended"}, tmux : BOOLEAN]
      <3>1. [row |-> row, tmux |-> FALSE] \in [row : {"none", "live", "ended"}, tmux : BOOLEAN]
        OBVIOUS
      <3> QED BY <1>1, <2>2, <3>1 DEF StartTypeOK
    <2>4. StartTypeOK'
      BY <1>1, <1>2, <2>1, <2>3 DEF StartTypeOK, Ending
    <2>5. TunnelAnswered'
      BY <1>1, <1>2, <2>1, <2>2, WayStays DEF TunnelAnswered
    <2>6. SessionAnswered'
      BY <1>1, <1>3, <2>1, <2>2 DEF SessionAnswered, Early, Enabling, Holding
    <2> QED BY <1>2, <2>4, <2>5, <2>6 DEF StartInv
  <1> QED BY <1>4, <1>5

\* The return itself closes nothing.
LEMMA ReturnKeeps == ASSUME StartInv, Return PROVE StartInv'
  <1>1. /\ step = "return" /\ step' = "returned"
        /\ UNCHANGED <<mode, exposed, child, held, session, stuck>>
    BY DEF Return, Enter, transportVars
  <1> QED BY <1>1, WayStays DEF StartInv, StartTypeOK, TunnelAnswered, SessionAnswered,
                                Early, Enabling, Holding, Ending

\* A child that dies takes its tunnel with it, whoever holds it; the other agent
\* may die and the address may move.
LEMMA OthersKeep ==
    ASSUME StartInv, ServerStep \/ Signal \/ ChildDies \/ Outside
    PROVE  StartInv'
  <1>1. StartTypeOK /\ TunnelAnswered /\ SessionAnswered /\ (held => step \in Holding)
    BY DEF StartInv
  <1>2. CASE ServerStep \/ Signal
    BY <1>2, Aside DEF ServerStep, Signal, transportVars
  <1>3. CASE ChildDies \/ Outside
    <2>1. /\ UNCHANGED <<mode, step, held, session, stuck>>
          /\ \/ child' = child /\ exposed' \in {exposed, exposed \ {"orphan"}}
             \/ child' = "dead" /\ exposed' = exposed \ {"own"}
      BY <1>3 DEF ChildDies, Outside
    <2>2. StartTypeOK'
      BY <1>1, <2>1 DEF StartTypeOK
    <2>3. TunnelAnswered'
      BY <1>1, <2>1, WayStays DEF TunnelAnswered
    <2>4. SessionAnswered'
      BY <1>1, <2>1 DEF SessionAnswered
    <2> QED BY <1>1, <2>1, <2>2, <2>3, <2>4 DEF StartInv
  <1> QED BY <1>2, <1>3
-----------------------------------------------------------------------------
\* Every step keeps the invariant.
LEMMA StartInvStep == StartInv /\ [StartNext]_startVars => StartInv'
  <1> SUFFICES ASSUME StartInv, [StartNext]_startVars PROVE StartInv'
    OBVIOUS
  <1>1. CASE Command
    BY <1>1, BeginKeeps, QuietKeeps, OpenKeeps, EnableWaitKeeps, UrlKeeps,
       DisableKeeps, CleanupKeeps, ReturnKeeps DEF Command
  <1>2. CASE HealthTick
    BY <1>2, QuietKeeps
  <1>3. CASE ServerStep \/ Signal \/ ChildDies \/ Outside
    BY <1>3, OthersKeep
  <1>4. CASE UNCHANGED startVars
    BY <1>4, Aside DEF startVars, transportVars
  <1> QED BY <1>1, <1>2, <1>3, <1>4 DEF StartNext

\* A command that has returned answers for nothing any more.
LEMMA StartInvSuffices == StartInv => NothingLeftRunning
  <1> SUFFICES ASSUME StartInv, step = "returned" PROVE NothingLeftRunning
    BY DEF NothingLeftRunning
  <1>1. ~held
    BY DEF StartInv, Holding
  <1>2. child # "alive" /\ "own" \notin exposed /\ ("serve" \in exposed => "serve" \in stuck)
    BY <1>1 DEF StartInv, TunnelAnswered
  <1>3. exposed \subseteq {"orphan"} \cup stuck
    BY <1>2 DEF StartInv, StartTypeOK
  <1>4. (session.tmux => "tmux" \in stuck) /\ (session.row = "live" => "row" \in stuck)
    BY DEF StartInv, SessionAnswered, Enabling, Holding
  <1> QED BY <1>2, <1>3, <1>4 DEF NothingLeftRunning

\* Wherever the command stopped, of itself, by a signal or by an error, and
\* whatever died or moved meanwhile, no way to the local port, no child, no tmux
\* target and no live row is left when it returns, except for what a command
\* that failed, or an Enable that timed out, has left (cli/up.go, web/transport).
THEOREM StartLeavesNothing == StartSpec => []NothingLeftRunning
  <1>1. StartSpec => []StartInv
    BY StartInvInit, StartInvStep, PTL DEF StartSpec
  <1> QED BY <1>1, StartInvSuffices, PTL
=============================================================================
