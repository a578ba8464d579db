-------------------------- MODULE ApprovalFeedProofs --------------------------
(***************************************************************************)
(* The browser's cards, for every set of requests, browsers and deciders:  *)
(* no open approval is missed.                                             *)
(*                                                                         *)
(* FeedInv relates the three places an open approval can be on its way to  *)
(* a browser: its row (which a replay still finds), an event in the        *)
(* channel, a card.  That needs two facts about a channel: an event in it  *)
(* is past, so it never contradicts the row again (Past), and it carries   *)
(* at most one request and one decision of each approval (Once), so that   *)
(* 2 * Cardinality(Reqs) places are enough for nothing to be dropped.      *)
(***************************************************************************)
EXTENDS ApprovalFeed, ApprovalQueueProofs, FiniteSetTheorems

Kind(e) == IF e.type = "requested" THEN "requested" ELSE "final"

Once(q) == \A i, j \in 1..Len(q) : i < j => Kind(q[i]) # Kind(q[j]) \/ q[i].id # q[j].id

(* p has recorded a decision that it has not published yet.                *)
HandsOut(p) == call[p].pc \in {"deliver", "publish"}

(* What the event e tells has happened and is not taken back.              *)
Past(e) ==
    IF e.type = "requested" THEN Announced(e.id)
    ELSE row[e.id].state \in Terminal /\ \A p \in Procs : HandsOut(p) => call[p].id # e.id

FeedTypes ==
    /\ conn \in [Subs -> {"off", "subscribed", "live"}]
    /\ sent \in [Subs -> SUBSET Reqs]
    /\ cards \in [Subs -> SUBSET Reqs]
    /\ unread \in [Subs -> SUBSET Reqs]

Connected == \A s \in Subs : conn[s] # "off" <=> s \in subs

Orderly(s) == Once(feed[s]) /\ \A i \in 1..Len(feed[s]) : Past(feed[s][i])

(* A request the connection has sent has a card as long as it is open.     *)
SentShown(s) ==
    \A r \in sent[s] : /\ handler[r] \notin {"idle", "insert"}
                       /\ row[r].state = "pending" => r \in cards[s]

Request(r) == [type |-> "requested", id |-> r]

(* A card is there or on its way, or was lost to a query that failed.      *)
OnItsWay(s, r) ==
    r \in cards[s] \/ r \in unread[s] \/ \E i \in 1..Len(feed[s]) : feed[s][i] = Request(r)

Open(r) == Announced(r) /\ row[r].state = "pending" /\ now < row[r].expires

OpenShown(s) == conn[s] = "live" => \A r \in Reqs : Open(r) => OnItsWay(s, r)

FeedInv ==
    /\ FeedTypes
    /\ Connected
    /\ \A s \in Subs : Orderly(s) /\ SentShown(s) /\ OpenShown(s)

(* No channel can overflow: each approval has at most one event of either  *)
(* kind in it.                                                             *)
Roomy == IsFiniteSet(Reqs) /\ 2 * Cardinality(Reqs) <= SubCap
-----------------------------------------------------------------------------
(* Channels.                                                               *)

Fits(q, e) == \A i \in 1..Len(q) : Kind(q[i]) # Kind(e) \/ q[i].id # e.id

LEMMA AppendPlace ==
    ASSUME NEW q \in Seq(Event), NEW e \in Event
    PROVE  /\ Append(q, e) \in Seq(Event) /\ Len(Append(q, e)) = Len(q) + 1
           /\ Append(q, e)[Len(q) + 1] = e
           /\ \A i \in 1..Len(q) : Append(q, e)[i] = q[i]
OBVIOUS

LEMMA TailPlace ==
    ASSUME NEW q \in Seq(Event), q # <<>>
    PROVE  /\ Tail(q) \in Seq(Event) /\ Len(Tail(q)) = Len(q) - 1 /\ Len(q) \in Nat \ {0}
           /\ Head(q) = q[1] /\ Head(q) \in Event
           /\ \A i \in 1..Len(Tail(q)) : Tail(q)[i] = q[i + 1]
OBVIOUS

LEMMA OnceAppend ==
    ASSUME NEW q \in Seq(Event), NEW e \in Event, Once(q), Fits(q, e)
    PROVE  Once(Append(q, e))
<1> DEFINE w == Append(q, e)
<1>1. Len(q) \in Nat /\ Len(w) = Len(q) + 1 /\ w[Len(q) + 1] = e
      /\ \A i \in 1..Len(q) : w[i] = q[i]
  BY AppendPlace
<1> HIDE DEF w
<1>2. ASSUME NEW i \in 1..Len(w), NEW j \in 1..Len(w), i < j
      PROVE  Kind(w[i]) # Kind(w[j]) \/ w[i].id # w[j].id
  <2>1. i \in 1..Len(q) /\ w[i] = q[i]
    BY <1>1, <1>2
  <2>2. CASE j = Len(q) + 1
    BY <1>1, <2>1, <2>2 DEF Fits
  <2>3. CASE j # Len(q) + 1
    <3>1. j \in 1..Len(q) /\ w[j] = q[j]
      BY <1>1, <2>3
    <3> QED
      BY <1>2, <2>1, <3>1 DEF Once
  <2> QED
    BY <2>2, <2>3
<1>3. Once(w)
  BY <1>2 DEF Once
<1> QED
  BY <1>3 DEF w

LEMMA OnceTail ==
    ASSUME NEW q \in Seq(Event), q # <<>>, Once(q)
    PROVE  Once(Tail(q))
<1> DEFINE w == Tail(q)
<1>1. Len(q) \in Nat \ {0} /\ Len(w) = Len(q) - 1 /\ \A i \in 1..Len(w) : w[i] = q[i + 1]
  BY TailPlace
<1> HIDE DEF w
<1>2. ASSUME NEW i \in 1..Len(w), NEW j \in 1..Len(w), i < j
      PROVE  Kind(w[i]) # Kind(w[j]) \/ w[i].id # w[j].id
  <2>1. /\ i + 1 \in 1..Len(q) /\ j + 1 \in 1..Len(q) /\ i + 1 < j + 1
        /\ w[i] = q[i + 1] /\ w[j] = q[j + 1]
    BY <1>1, <1>2
  <2> QED
    BY <2>1 DEF Once
<1>3. Once(w)
  BY <1>2 DEF Once
<1> QED
  BY <1>3 DEF w

(* A channel that carries each event once has at most two per approval.    *)
LEMMA AtMostTwoEach ==
    ASSUME IsFiniteSet(Reqs), NEW q \in Seq(Event), Once(q)
    PROVE  Len(q) <= 2 * Cardinality(Reqs)
<1> DEFINE S == 1..Len(q)
           T == {"requested", "final"} \X Reqs
           f == [i \in S |-> <<Kind(q[i]), q[i].id>>]
<1>0. Len(q) \in Nat /\ \A i \in S : q[i] \in Event
  OBVIOUS
<1>1. IsFiniteSet(S) /\ Cardinality(S) = Len(q)
  <2>1. \A n \in Nat : /\ IsFiniteSet(1..n)
                      /\ Cardinality(1..n) = IF 1 > n THEN 0 ELSE n - 1 + 1
    BY FS_Interval
  <2>2. \A n \in Nat : Cardinality(1..n) = n
    BY <2>1
  <2> QED
    BY <1>0, <2>1, <2>2
<1>2. IsFiniteSet({"requested", "final"}) /\ Cardinality({"requested", "final"}) = 2
  <2>1. IsFiniteSet({"requested"}) /\ Cardinality({"requested"}) = 1
    BY FS_Singleton
  <2>2. {"requested", "final"} = {"requested"} \cup {"final"} /\ "final" \notin {"requested"}
    OBVIOUS
  <2>3. /\ IsFiniteSet({"requested"} \cup {"final"})
        /\ Cardinality({"requested"} \cup {"final"})
              = IF "final" \in {"requested"} THEN Cardinality({"requested"})
                                            ELSE Cardinality({"requested"}) + 1
    BY <2>1, FS_AddElement, Zenon
  <2> QED
    BY <2>1, <2>2, <2>3
<1>3. IsFiniteSet(T) /\ Cardinality(T) = 2 * Cardinality(Reqs)
  BY <1>2, FS_Product
<1>4. f \in [S -> T]
  <2>1. ASSUME NEW i \in S PROVE <<Kind(q[i]), q[i].id>> \in T
    BY <1>0 DEF Kind, Event
  <2> QED
    BY <2>1
<1>5. ASSUME NEW i \in S, NEW j \in S, i # j PROVE f[i] # f[j]
  <2>1. ASSUME NEW a \in S, NEW b \in S, a < b PROVE f[a] # f[b]
    <3>1. Kind(q[a]) # Kind(q[b]) \/ q[a].id # q[b].id
      BY <2>1 DEF Once
    <3>2. f[a] = <<Kind(q[a]), q[a].id>> /\ f[b] = <<Kind(q[b]), q[b].id>>
      OBVIOUS
    <3> QED
      BY <3>1, <3>2
  <2>2. i < j \/ j < i
    BY <1>0, <1>5
  <2> HIDE DEF f
  <2> QED
    BY <2>1, <2>2
<1>6. ~(Cardinality(T) < Cardinality(S))
  <2> HIDE DEF f, S, T
  <2> QED
    BY <1>1, <1>3, <1>4, <1>5, FS_PigeonHole
<1>7. Cardinality(Reqs) \in Nat
  BY FS_CardinalityType
<1> QED
  BY <1>0, <1>1, <1>3, <1>6, <1>7

LEMMA PushAppends ==
    ASSUME Roomy, NEW q \in Seq(Event), NEW e \in Event, Once(q), Fits(q, e)
    PROVE  Push(q, e) = Append(q, e)
<1>1. Len(Append(q, e)) <= 2 * Cardinality(Reqs)
  BY OnceAppend, AppendPlace, AtMostTwoEach DEF Roomy
<1>2. Len(q) < SubCap
  <2>1. Cardinality(Reqs) \in Nat /\ SubCap \in Nat /\ Len(q) \in Nat
    BY FS_CardinalityType, ConstantsAssumption DEF Roomy
  <2> QED
    BY <1>1, <2>1, AppendPlace DEF Roomy
<1> QED
  BY <1>2 DEF Push
-----------------------------------------------------------------------------
(* What a step of the queue does to requests and events.                   *)

LEMMA QueueSteps == [FeedNext]_allVars => [Next]_vars
BY DEF FeedNext, allVars, vars, feedVars, Next, SubscriberNext, Attach, Replay, ReplayFails, Stream, Detach,
       FeedRestart

LEMMA FeedFrame ==
    ASSUME [FeedNext]_allVars
    PROVE  \/ feed' = feed /\ subs' = subs /\ UNCHANGED feedVars
           \/ \E r \in Reqs : Announce(r) /\ UNCHANGED feedVars
           \/ \E p \in Procs : PublishDecision(p) /\ UNCHANGED feedVars
           \/ \E s \in Subs : Attach(s) \/ Replay(s) \/ ReplayFails(s) \/ Stream(s) \/ Detach(s)
           \/ FeedRestart
BY DEF FeedNext, allVars, vars, QueueNext, Ask, HandlerStep, HookTimeout, Decide, CallStep,
       Settle, Deliver, Reconcile, Abort, SweepSelect, SweepNext, SweepAbort, Tick, Shutdown,
       Refuse, Insert, Register, Answer, GiveUp, AnswerCancelled

LEMMA HandlerMoves ==
    ASSUME Typed, Fresh, [Next]_vars, NEW r \in Reqs
    PROVE  /\ Announced(r) => Announced(r)'
           /\ handler[r] \notin {"idle", "insert"} => handler'[r] \notin {"idle", "insert"}
           /\ Announced(r)' => Announced(r) \/ row'[r].state = "absent" \/ Announce(r) \/ Restart
<1>0. handler \in [Reqs -> {"idle", "insert", "register", "announce", "parked", "cancelling", "gone"}]
      /\ row \in [Reqs -> Row]
  BY DEF Typed, TypeOK
<1>1. CASE handler' = handler
  BY <1>1 DEF Announced
<1>2. ASSUME NEW q \in Reqs, Ask(q)
      PROVE  /\ handler[q] = "idle" /\ row'[q].state = "absent"
             /\ \A t \in Reqs : t # q => handler'[t] = handler[t]
  BY <1>0, <1>2 DEF Ask, Fresh
<1>3. ASSUME NEW q \in Reqs, HandlerStep(q)
      PROVE  /\ handler[q] \notin {"idle", "gone"} /\ handler'[q] \notin {"idle", "insert"}
             /\ Announced(q) => Announced(q)'
             /\ Announced(q)' => Announced(q) \/ row'[q].state = "absent" \/ Announce(q)
             /\ \A t \in Reqs : t # q => handler'[t] = handler[t]
  <2>1. CASE Refuse(q)
    BY <1>0, <2>1 DEF Refuse, Respond, Announced, Fresh
  <2>2. CASE Insert(q) \/ Register(q) \/ Announce(q)
    BY <1>0, <2>2 DEF Insert, Register, Announce, Announced
  <2>3. CASE Answer(q) \/ GiveUp(q) \/ AnswerCancelled(q)
    BY <1>0, <2>3 DEF Answer, GiveUp, AnswerCancelled, Respond, Announced
  <2> QED
    BY <1>3, <2>1, <2>2, <2>3 DEF HandlerStep
<1>4. CASE Restart
  BY <1>0, <1>4 DEF Restart, Announced
<1>5. CASE \E q \in Reqs : Ask(q)
  BY <1>2, <1>5 DEF Announced
<1>6. CASE \E q \in Reqs : HandlerStep(q)
  BY <1>3, <1>6 DEF Announced
<1>7. CASE \E q \in Reqs : HookTimeout(q)
  BY <1>1, <1>7 DEF HookTimeout
<1> QED
  BY <1>1, <1>4, <1>5, <1>6, <1>7, HookFrame

(* A row becomes pending only while its handler inserts it.                *)
LEMMA PendingBefore ==
    ASSUME Typed, Fresh, [Next]_vars, NEW r \in Reqs, row'[r].state = "pending"
    PROVE  handler'[r] = "register" \/ (row[r].state = "pending" /\ row'[r].expires = row[r].expires)
<1>0. row \in [Reqs -> Row]
  BY DEF Typed, TypeOK
<1>1. CASE row' = row
  BY <1>1
<1>2. ASSUME NEW p \in Procs, Settle(p)
      PROVE  row[r].state = "pending" /\ row'[r].expires = row[r].expires
  <2>1. RowsKept
    BY RowsKeptStep
  <2>2. row[r].state # "absent"
    BY <1>0, <1>2 DEF Settle, Decided
  <2> QED
    BY <1>0, <2>1, <2>2 DEF RowsKept, Row
<1>3. ASSUME NEW q \in Reqs, Insert(q)
      PROVE  handler'[r] = "register" \/ row'[r] = row[r]
  BY <1>0, <1>3 DEF Insert, Typed, TypeOK
<1> QED
  BY <1>1, <1>2, <1>3, RowFrame

LEMMA StillPending ==
    ASSUME Typed, Fresh, [Next]_vars, NEW r \in Reqs, handler[r] \notin {"idle", "insert"},
           row'[r].state = "pending"
    PROVE  row[r].state = "pending"
<1>0. row \in [Reqs -> Row]
  BY DEF Typed, TypeOK
<1>1. ASSUME NEW p \in Procs, Settle(p) PROVE row[r].state = "pending"
  BY <1>0, <1>1, RowsKeptStep, PendingBefore DEF Settle, Decided
<1>2. ASSUME NEW q \in Reqs, Insert(q) PROVE row'[r] = row[r]
  BY <1>0, <1>2 DEF Insert, Typed, TypeOK
<1> QED
  BY <1>1, <1>2, RowFrame

LEMMA ClockAdvances ==
    ASSUME Typed, [Next]_vars
    PROVE  now \in Nat /\ now' \in Nat /\ now <= now'
<1>1. now \in Nat
  BY ConstantsAssumption DEF Typed, TypeOK
<1>2. now' = now \/ Tick
  BY DEF Next, QueueNext, SubscriberNext, vars, Ask, HandlerStep, HookTimeout, Decide, CallStep,
       Settle, Deliver, PublishDecision, Reconcile, Abort, SweepSelect, SweepNext, SweepAbort,
       Shutdown, Refuse, Insert, Register, Announce, Answer, GiveUp, AnswerCancelled,
       Subscribe, Unsubscribe, Take, Restart
<1> QED
  BY <1>1, <1>2 DEF Tick

(* An approval that is open was open before, unless this is the step that  *)
(* announces it.                                                           *)
LEMMA OpenBefore ==
    ASSUME Typed, Fresh, [Next]_vars, NEW r \in Reqs, Open(r)'
    PROVE  Open(r) \/ Announce(r) \/ Restart
<1>1. Announced(r) \/ Announce(r) \/ Restart
  BY HandlerMoves DEF Open
<1>2. row[r].state = "pending" /\ row'[r].expires = row[r].expires
  BY PendingBefore DEF Open, Announced
<1>3. now < row[r].expires
  <2>1. row[r].expires \in Int
    BY ConstantsAssumption DEF Typed, TypeOK, Row
  <2> QED
    BY <1>2, <2>1, ClockAdvances DEF Open
<1> QED
  BY <1>1, <1>2, <1>3 DEF Open

LEMMA HandsOutBefore ==
    ASSUME Typed, [Next]_vars, NEW p \in Procs, HandsOut(p)'
    PROVE  /\ call'[p].id = call[p].id
           /\ HandsOut(p) \/ row[call[p].id].state = "pending"
<1> DEFINE c == call[p]
<1>0. call \in [Procs -> Call]
  BY DEF Typed, TypeOK
<1>1. Won(p)'
  BY DEF HandsOut, Won
<1>2. call'[p].id = c.id /\ (Won(p) \/ row[c.id].state = "pending")
  BY <1>1, NewWinner
<1>3. ASSUME c.pc = "done" PROVE FALSE
  <2>1. CASE call'[p] = c
    BY <1>3, <2>1 DEF HandsOut
  <2>2. CASE \E r \in Reqs, d \in Submission : Begin(p, r, d) /\ row' = row
    BY <1>0, <2>2 DEF Begin, Lost, InCall, Failure, HandsOut
  <2>3. CASE Restart
    BY <2>3 DEF Restart, IdleCall, HandsOut
  <2>4. CASE CallStep(p) \/ Abort(p)
    BY <1>3, <2>4 DEF CallStep, Settle, Deliver, PublishDecision, Reconcile, Abort
  <2> QED
    BY <2>1, <2>2, <2>3, <2>4, OwnCall
<1> QED
  BY <1>2, <1>3 DEF HandsOut, Won

LEMMA PastKept ==
    ASSUME IInv, [Next]_vars
    PROVE  \A e \in Event : Past(e) => Past(e)'
<1>0. Typed /\ Fresh /\ RowsKept
  BY RowsKeptStep DEF IInv
<1> SUFFICES ASSUME NEW e \in Event, Past(e)
             PROVE  Past(e)'
  OBVIOUS
<1>1. CASE e.type = "requested"
  BY <1>0, <1>1, HandlerMoves DEF Past, Event
<1>2. CASE e.type # "requested"
  <2>1. e.id \in Reqs /\ row[e.id].state \in Terminal /\ row'[e.id] = row[e.id]
    BY <1>0, <1>2 DEF Past, Event, RowsKept
  <2>2. ASSUME NEW p \in Procs, HandsOut(p)', call'[p].id = e.id PROVE FALSE
    <3>1. HandsOut(p) \/ row[e.id].state = "pending"
      BY <1>0, <2>2, HandsOutBefore
    <3>2. call[p].id = e.id
      BY <1>0, <2>2, HandsOutBefore
    <3> QED
      BY <1>2, <2>1, <3>1, <3>2 DEF Past, Terminal
  <2> QED
    BY <1>2, <2>1, <2>2 DEF Past
<1> QED
  BY <1>1, <1>2
-----------------------------------------------------------------------------
(* Channels stay orderly.                                                  *)

LEMMA OrderlyTakes ==
    ASSUME IInv, [Next]_vars, NEW s \in Subs, Orderly(s),
           feed'[s] = feed[s] \/ feed'[s] = <<>> \/ (feed[s] # <<>> /\ feed'[s] = Tail(feed[s]))
    PROVE  Orderly(s)'
<1>0. feed[s] \in Seq(Event)
  BY DEF IInv, Typed, TypeOK
<1>1. PICK q \in Seq(Event) : q = feed[s]
  BY <1>0
<1>2. PICK w \in Seq(Event) : w = feed'[s]
  <2>1. \/ feed'[s] = q \/ feed'[s] = <<>> \/ (q # <<>> /\ feed'[s] = Tail(q))
    BY <1>1
  <2>2. <<>> \in Seq(Event)
    OBVIOUS
  <2> QED
    BY <2>1, <2>2, TailPlace
<1>3. Once(w)
  <2>1. w = q \/ w = <<>> \/ (q # <<>> /\ w = Tail(q))
    BY <1>1, <1>2
  <2>2. Once(q)
    BY <1>1 DEF Orderly
  <2>3. Once(<<>>)
    BY DEF Once
  <2> QED
    BY <2>1, <2>2, <2>3, OnceTail
<1>4. ASSUME NEW i \in 1..Len(w) PROVE \E j \in 1..Len(q) : w[i] = q[j]
  <2>1. CASE w = q
    BY <1>4, <2>1
  <2>2. CASE w = <<>>
    BY <1>4, <2>2
  <2>3. CASE q # <<>> /\ w = Tail(q)
    <3>1. i + 1 \in 1..Len(q) /\ w[i] = q[i + 1]
      BY <1>4, <2>3, TailPlace
    <3> QED
      BY <3>1
  <2> QED
    BY <1>1, <1>2, <2>1, <2>2, <2>3
<1>5. ASSUME NEW i \in 1..Len(w) PROVE Past(feed[s][i])'
  <2>1. PICK j \in 1..Len(q) : w[i] = q[j]
    BY <1>4
  <2>2. PICK e \in Event : e = q[j]
    OBVIOUS
  <2>3. Past(e)
    BY <1>1, <2>2 DEF Orderly
  <2>4. Past(e)'
    BY <2>3, PastKept
  <2>5. feed'[s][i] = e
    BY <1>2, <2>1, <2>2
  <2> QED
    BY <2>4, <2>5 DEF Past, Announced
<1> QED
  BY <1>2, <1>3, <1>5 DEF Orderly, Once

LEMMA OrderlyGains ==
    ASSUME Roomy, IInv, [Next]_vars, NEW s \in Subs, Orderly(s), NEW e \in Event,
           Fits(feed[s], e), Past(e)', feed'[s] = Push(feed[s], e)
    PROVE  Orderly(s)' /\ feed'[s] = Append(feed[s], e)
<1>0. feed[s] \in Seq(Event) /\ Once(feed[s])
  BY DEF IInv, Typed, TypeOK, Orderly
<1>1. PICK q \in Seq(Event) : q = feed[s]
  BY <1>0
<1>2. Once(q) /\ Fits(q, e)
  BY <1>0, <1>1
<1>3. Push(q, e) = Append(q, e)
  BY <1>2, PushAppends
<1>4. PICK w \in Seq(Event) : w = Append(q, e)
  BY AppendPlace
<1>5. /\ w = feed'[s] /\ Len(w) = Len(q) + 1 /\ Len(q) \in Nat
      /\ w[Len(q) + 1] = e /\ \A i \in 1..Len(q) : w[i] = q[i]
  BY <1>1, <1>3, <1>4, AppendPlace
<1>6. Once(w)
  BY <1>2, <1>4, OnceAppend
<1>7. ASSUME NEW i \in 1..Len(w) PROVE Past(feed[s][i])'
  <2>1. CASE i \in 1..Len(q)
    <3>1. PICK x \in Event : x = q[i]
      BY <2>1
    <3>2. Past(x)
      BY <1>1, <2>1, <3>1 DEF Orderly
    <3>3. Past(x)'
      BY <3>2, PastKept
    <3>4. feed'[s][i] = x
      BY <1>5, <2>1, <3>1
    <3> QED
      BY <3>3, <3>4 DEF Past, Announced
  <2>2. CASE i \notin 1..Len(q)
    <3>1. i = Len(q) + 1
      BY <1>5, <2>2
    <3>2. feed'[s][i] = e
      BY <1>5, <3>1
    <3> QED
      BY <3>2 DEF Past, Announced
  <2> QED
    BY <2>1, <2>2
<1> QED
  BY <1>1, <1>3, <1>4, <1>5, <1>6, <1>7 DEF Orderly, Once

LEMMA RequestEvent == \A r \in Reqs : Request(r) \in Event
BY DEF Request, Event

LEMMA AnnounceFits ==
    ASSUME IInv, NEW s \in Subs, Orderly(s), NEW r \in Reqs, Announce(r)
    PROVE  Fits(feed[s], Request(r)) /\ Past(Request(r))'
<1>0. feed[s] \in Seq(Event) /\ handler[r] = "announce" /\ handler'[r] = "parked"
  BY DEF IInv, Typed, TypeOK, Announce
<1>1. ASSUME NEW i \in 1..Len(feed[s]), Kind(feed[s][i]) = Kind(Request(r)), feed[s][i].id = r
      PROVE  FALSE
  <2>1. feed[s][i].type = "requested" /\ Past(feed[s][i])
    BY <1>1 DEF Kind, Request, Orderly
  <2> QED
    BY <1>0, <1>1, <2>1 DEF Past, Announced
<1>2. Past(Request(r))'
  BY <1>0 DEF Past, Request, Announced
<1> QED
  BY <1>1, <1>2 DEF Fits, Request

LEMMA DecisionFits ==
    ASSUME IInv, NEW p \in Procs, PublishDecision(p), NEW e \in Event,
           e.type # "requested", e.id = call[p].id
    PROVE  /\ \A s \in Subs : Orderly(s) => Fits(feed[s], e)
           /\ Past(e)'
<1>0. /\ call \in [Procs -> Call] /\ row' = row /\ HandsOut(p) /\ Won(p)
      /\ row[e.id].state \in Terminal
  BY DEF IInv, Typed, TypeOK, PublishDecision, HandsOut, Won, CallsSound, CallSound
<1>1. ASSUME NEW s \in Subs, Orderly(s), NEW i \in 1..Len(feed[s]),
             Kind(feed[s][i]) = Kind(e), feed[s][i].id = e.id
      PROVE  FALSE
  <2>1. feed[s][i].type # "requested" /\ Past(feed[s][i])
    BY <1>1 DEF Kind, Orderly
  <2> QED
    BY <1>0, <1>1, <2>1 DEF Past
<1>2. ASSUME NEW q \in Procs, HandsOut(q)', call'[q].id = e.id
      PROVE  FALSE
  <2>1. CASE q = p
    <3>1. call'[p].pc = "done"
      BY <1>0 DEF PublishDecision, Success
    <3> QED
      BY <1>2, <2>1, <3>1 DEF HandsOut
  <2>2. CASE q # p
    <3>1. call'[q] = call[q]
      BY <1>0, <2>2 DEF PublishDecision
    <3> QED
      BY <1>0, <1>2, <2>2, <3>1 DEF HandsOut, Won, IInv, OneWinner
  <2> QED
    BY <2>1, <2>2
<1> QED
  BY <1>0, <1>1, <1>2 DEF Fits, Past

LEMMA OrderlyStep ==
    ASSUME Roomy, IInv, FeedInv, [FeedNext]_allVars, NEW s \in Subs
    PROVE  Orderly(s)'
<1>0. /\ [Next]_vars /\ Orderly(s) /\ feed \in [Subs -> Seq(Event)]
  BY QueueSteps DEF FeedInv, IInv, Typed, TypeOK
<1>1. CASE feed' = feed
  BY <1>0, <1>1, OrderlyTakes
<1>2. ASSUME NEW r \in Reqs, Announce(r) PROVE Orderly(s)'
  <2>1. feed'[s] = IF s \in subs THEN Push(feed[s], Request(r)) ELSE feed[s]
    BY <1>2 DEF Announce, Published, Request
  <2> QED
    BY <1>0, <1>2, <2>1, RequestEvent, AnnounceFits, OrderlyTakes, OrderlyGains
<1>3. ASSUME NEW p \in Procs, PublishDecision(p) PROVE Orderly(s)'
  <2>1. call[p].id \in Reqs
    BY <1>3 DEF IInv, Typed, CallsTyped, PublishDecision, Free
  <2>2. PICK e \in Event : /\ e.type # "requested" /\ e.id = call[p].id
                           /\ feed' = Published(e)
    BY <1>3, <2>1 DEF PublishDecision, Event
  <2>3. feed'[s] = IF s \in subs THEN Push(feed[s], e) ELSE feed[s]
    BY <2>2 DEF Published
  <2> QED
    BY <1>0, <1>3, <2>2, <2>3, DecisionFits, OrderlyTakes, OrderlyGains
<1>4. ASSUME NEW t \in Subs, Attach(t) \/ Replay(t) \/ ReplayFails(t) \/ Stream(t) \/ Detach(t)
      PROVE  Orderly(s)'
  <2>1. \/ feed'[s] = feed[s] \/ feed'[s] = <<>>
        \/ feed[s] # <<>> /\ feed'[s] = Tail(feed[s])
    BY <1>0, <1>4 DEF Attach, Replay, ReplayFails, Stream, Detach, Subscribe, Unsubscribe, Take, vars
  <2> QED
    BY <1>0, <2>1, OrderlyTakes
<1>5. CASE FeedRestart
  <2>1. feed'[s] = <<>>
    BY <1>5 DEF FeedRestart, Restart
  <2> QED
    BY <1>0, <2>1, OrderlyTakes
<1> QED
  BY <1>1, <1>2, <1>3, <1>4, <1>5, FeedFrame
-----------------------------------------------------------------------------
(* Connections and cards.                                                  *)

LEMMA FeedTypesStep ==
    ASSUME IInv, FeedInv, [FeedNext]_allVars
    PROVE  FeedTypes' /\ Connected'
<1>0. FeedTypes /\ Connected /\ feed \in [Subs -> Seq(Event)] /\ subs \subseteq Subs
  BY DEF FeedInv, IInv, Typed, TypeOK
<1>1. CASE subs' = subs /\ UNCHANGED feedVars
  BY <1>0, <1>1 DEF FeedTypes, Connected, feedVars
<1>2. CASE \E r \in Reqs : Announce(r) /\ UNCHANGED feedVars
  BY <1>1, <1>2 DEF Announce
<1>3. CASE \E p \in Procs : PublishDecision(p) /\ UNCHANGED feedVars
  BY <1>1, <1>3 DEF PublishDecision
<1>4. ASSUME NEW s \in Subs, Attach(s) PROVE FeedTypes' /\ Connected'
  BY <1>0, <1>4 DEF Attach, Subscribe, FeedTypes, Connected
<1>5. ASSUME NEW s \in Subs, Detach(s) PROVE FeedTypes' /\ Connected'
  BY <1>0, <1>5 DEF Detach, Unsubscribe, FeedTypes, Connected
<1>6. ASSUME NEW s \in Subs, Replay(s) PROVE FeedTypes' /\ Connected'
  <2>1. Pending \subseteq Reqs
    BY DEF Pending
  <2>2. FeedTypes'
    BY <1>0, <1>6, <2>1 DEF Replay, FeedTypes
  <2>3. Connected'
    BY <1>0, <1>6 DEF Replay, Connected, FeedTypes, vars
  <2> QED
    BY <2>2, <2>3
<1>9. ASSUME NEW s \in Subs, ReplayFails(s) PROVE FeedTypes' /\ Connected'
  <2>1. Pending \ Queued(s) \subseteq Reqs
    BY DEF Pending
  <2>2. FeedTypes'
    BY <1>0, <1>9, <2>1 DEF ReplayFails, FeedTypes
  <2>3. Connected'
    BY <1>0, <1>9 DEF ReplayFails, Connected, FeedTypes, vars
  <2> QED
    BY <2>2, <2>3
<1>7. ASSUME NEW s \in Subs, Stream(s) PROVE FeedTypes' /\ Connected'
  <2>1. Head(feed[s]).id \in Reqs
    BY <1>0, <1>7, TailPlace DEF Stream, Take, Event
  <2> DEFINE e == Head(feed[s])
  <2> HIDE DEF e
  <2>2. \/ UNCHANGED <<sent, cards>>
        \/ /\ cards' = [cards EXCEPT ![s] = Shown(@, e)]
           /\ sent' = IF e.type = "requested" THEN [sent EXCEPT ![s] = @ \cup {e.id}] ELSE sent
    BY <1>7 DEF Stream, e
  <2>3. \A c \in SUBSET Reqs : Shown(c, e) \in SUBSET Reqs
    BY <2>1 DEF Shown, e
  <2>4. sent' \in [Subs -> SUBSET Reqs]
    <3>1. sent \in [Subs -> SUBSET Reqs] /\ e.id \in Reqs
      BY <1>0, <2>1 DEF FeedTypes, e
    <3> QED
      BY <2>2, <3>1
  <2>5. cards' \in [Subs -> SUBSET Reqs]
    <3>1. cards \in [Subs -> SUBSET Reqs] /\ Shown(cards[s], e) \in SUBSET Reqs
      BY <1>0, <2>3 DEF FeedTypes
    <3>2. cards' = cards \/ cards' = [cards EXCEPT ![s] = Shown(cards[s], e)]
      BY <2>2
    <3> QED
      BY <3>1, <3>2
  <2> QED
    BY <1>0, <1>7, <2>4, <2>5 DEF Stream, Take, FeedTypes, Connected
<1>8. CASE FeedRestart
  BY <1>0, <1>8 DEF FeedRestart, Restart, FeedTypes, Connected
<1> QED
  BY <1>1, <1>2, <1>3, <1>4, <1>5, <1>6, <1>7, <1>8, <1>9, FeedFrame

LEMMA SentShownKept ==
    ASSUME IInv, [Next]_vars, NEW s \in Subs, SentShown(s), sent[s] \subseteq Reqs,
           sent'[s] \subseteq sent[s], cards[s] \subseteq cards'[s]
    PROVE  SentShown(s)'
<1>1. ASSUME NEW r \in sent[s]
      PROVE  /\ handler'[r] \notin {"idle", "insert"}
             /\ row'[r].state = "pending" => r \in cards[s]
  <2>0. Typed /\ Fresh /\ r \in Reqs /\ handler[r] \notin {"idle", "insert"}
        /\ (row[r].state = "pending" => r \in cards[s])
    BY <1>1 DEF IInv, SentShown
  <2>1. handler'[r] \notin {"idle", "insert"}
    BY <2>0, HandlerMoves
  <2>2. row'[r].state = "pending" => row[r].state = "pending"
    BY <2>0, StillPending
  <2> QED
    BY <2>0, <2>1, <2>2
<1> QED
  BY <1>1 DEF SentShown

(* One turn of the select loop, with the event it takes.                   *)
LEMMA StreamFact ==
    ASSUME IInv, FeedInv, NEW s \in Subs, Stream(s)
    PROVE  \E e \in Event :
             /\ feed[s] \in Seq(Event) /\ feed[s] # <<>> /\ e = Head(feed[s])
             /\ feed'[s] = Tail(feed[s]) /\ Past(e) /\ conn' = conn
             /\ \A t \in Subs : t # s => /\ feed'[t] = feed[t] /\ cards'[t] = cards[t]
                                         /\ sent'[t] = sent[t]
             /\ \/ /\ e.type = "requested" /\ e.id \in sent[s]
                   /\ sent' = sent /\ cards' = cards
                \/ /\ e.type = "requested"
                   /\ sent'[s] = sent[s] \cup {e.id} /\ cards'[s] = cards[s] \cup {e.id}
                \/ /\ e.type # "requested"
                   /\ sent'[s] = sent[s] /\ cards'[s] = cards[s] \ {e.id}
<1>0. /\ feed \in [Subs -> Seq(Event)] /\ cards \in [Subs -> SUBSET Reqs]
      /\ sent \in [Subs -> SUBSET Reqs] /\ Orderly(s)
  BY DEF FeedInv, FeedTypes, IInv, Typed, TypeOK
<1>1. feed[s] \in Seq(Event) /\ feed[s] # <<>> /\ feed' = [feed EXCEPT ![s] = Tail(@)]
      /\ conn' = conn
  BY <1>0 DEF Stream, Take
<1>2. PICK e \in Event : e = Head(feed[s])
  BY <1>1, TailPlace
<1>3. Past(e)
  <2>1. e = feed[s][1] /\ 1 \in 1..Len(feed[s])
    BY <1>1, <1>2, TailPlace
  <2> QED
    BY <1>0, <2>1 DEF Orderly
<1>4. IF e.type = "requested" /\ e.id \in sent[s]
      THEN UNCHANGED <<sent, cards>>
      ELSE /\ cards' = [cards EXCEPT ![s] = Shown(@, e)]
           /\ sent' = IF e.type = "requested" THEN [sent EXCEPT ![s] = @ \cup {e.id}]
                                              ELSE sent
  BY <1>2 DEF Stream
<1>5. \A t \in Subs : t # s => /\ feed'[t] = feed[t] /\ cards'[t] = cards[t]
                               /\ sent'[t] = sent[t]
  BY <1>0, <1>1, <1>4
<1>6. feed'[s] = Tail(feed[s])
  BY <1>0, <1>1
<1>7. \/ /\ e.type = "requested" /\ e.id \in sent[s]
         /\ sent' = sent /\ cards' = cards
      \/ /\ e.type = "requested"
         /\ sent'[s] = sent[s] \cup {e.id} /\ cards'[s] = cards[s] \cup {e.id}
      \/ /\ e.type # "requested"
         /\ sent'[s] = sent[s] /\ cards'[s] = cards[s] \ {e.id}
  BY <1>0, <1>4 DEF Shown
<1> QED
  BY <1>1, <1>2, <1>3, <1>5, <1>6, <1>7

LEMMA SentShownStep ==
    ASSUME IInv, FeedInv, [FeedNext]_allVars, NEW s \in Subs
    PROVE  SentShown(s)'
<1>0. /\ [Next]_vars /\ SentShown(s) /\ sent \in [Subs -> SUBSET Reqs]
      /\ cards \in [Subs -> SUBSET Reqs] /\ Typed /\ Fresh
  BY QueueSteps DEF FeedInv, FeedTypes, IInv
<1>1. CASE UNCHANGED feedVars
  BY <1>0, <1>1, SentShownKept DEF feedVars
<1>2. ASSUME NEW t \in Subs, Attach(t) \/ Detach(t) PROVE SentShown(s)'
  <2>1. sent'[s] \subseteq sent[s] /\ cards' = cards
    BY <1>0, <1>2 DEF Attach, Detach
  <2> QED
    BY <1>0, <2>1, SentShownKept
<1>3. ASSUME NEW t \in Subs, Replay(t) PROVE SentShown(s)'
  <2>1. CASE t = s
    <3>1. sent'[s] = Pending /\ cards'[s] = cards[s] \cup Pending /\ row' = row /\ handler' = handler
      BY <1>0, <1>3, <2>1 DEF Replay, vars
    <3>2. \A r \in Pending : handler[r] \notin {"idle", "insert"}
      BY <1>0 DEF Pending, Fresh
    <3> QED
      BY <3>1, <3>2 DEF SentShown
  <2>2. CASE t # s
    <3>1. sent'[s] = sent[s] /\ cards'[s] = cards[s]
      BY <1>0, <1>3, <2>2 DEF Replay
    <3> QED
      BY <1>0, <3>1, SentShownKept
  <2> QED
    BY <2>1, <2>2
<1>6. ASSUME NEW t \in Subs, ReplayFails(t) PROVE SentShown(s)'
  BY <1>0, <1>6, SentShownKept DEF ReplayFails
<1>4. ASSUME NEW t \in Subs, Stream(t) PROVE SentShown(s)'
  <2>0. row' = row /\ handler' = handler
    BY <1>4 DEF Stream, Take
  <2>1. PICK e \in Event :
             /\ Past(e)
             /\ \A u \in Subs : u # t => cards'[u] = cards[u] /\ sent'[u] = sent[u]
             /\ \/ sent' = sent /\ cards' = cards
                \/ /\ e.type = "requested"
                   /\ sent'[t] = sent[t] \cup {e.id} /\ cards'[t] = cards[t] \cup {e.id}
                \/ /\ e.type # "requested"
                   /\ sent'[t] = sent[t] /\ cards'[t] = cards[t] \ {e.id}
    BY <1>4, StreamFact
  <2>2. CASE t # s \/ (sent' = sent /\ cards' = cards)
    BY <1>0, <2>1, <2>2, SentShownKept
  <2>3. CASE t = s /\ e.type = "requested" /\ sent'[s] = sent[s] \cup {e.id}
             /\ cards'[s] = cards[s] \cup {e.id}
    BY <1>0, <2>0, <2>1, <2>3 DEF SentShown, Past, Announced
  <2>4. CASE t = s /\ e.type # "requested" /\ sent'[s] = sent[s]
             /\ cards'[s] = cards[s] \ {e.id}
    <3>1. row[e.id].state # "pending"
      BY <2>1, <2>4 DEF Past, Terminal
    <3> QED
      BY <1>0, <2>0, <2>4, <3>1 DEF SentShown
  <2> QED
    BY <2>1, <2>2, <2>3, <2>4
<1>5. CASE FeedRestart
  BY <1>0, <1>5, SentShownKept DEF FeedRestart
<1> QED
  BY <1>1, <1>2, <1>3, <1>4, <1>5, <1>6, FeedFrame DEF feedVars
-----------------------------------------------------------------------------
(* Every open approval has a card or an event on its way.                  *)

LEMMA AnnounceAlone ==
    ASSUME Typed, [FeedNext]_allVars, NEW r \in Reqs, Announce(r)
    PROVE  UNCHANGED feedVars
<1>0. handler[r] = "announce" /\ handler'[r] = "parked"
  BY DEF Typed, TypeOK, Announce
<1>1. ASSUME NEW s \in Subs, Attach(s) \/ Replay(s) \/ ReplayFails(s) \/ Stream(s) \/ Detach(s) PROVE FALSE
  BY <1>0, <1>1 DEF Attach, Replay, ReplayFails, Stream, Detach, Subscribe, Unsubscribe, Take, vars
<1>2. ~FeedRestart
  BY <1>0 DEF FeedRestart, Restart
<1> QED
  BY <1>1, <1>2 DEF FeedNext, allVars, feedVars

LEMMA RestartAlone ==
    ASSUME Typed, [FeedNext]_allVars, Restart
    PROVE  FeedRestart
<1>0. restarts \in Nat /\ restarts' = restarts + 1 /\ restarts' # restarts
  BY ConstantsAssumption DEF Typed, TypeOK, Restart
<1>1. ~QueueNext
  BY <1>0 DEF QueueNext, Ask, HandlerStep, HookTimeout, Decide, CallStep,
       Settle, Deliver, PublishDecision, Reconcile, Abort, SweepSelect, SweepNext, SweepAbort,
       Tick, Shutdown, Refuse, Insert, Register, Announce, Answer, GiveUp, AnswerCancelled
<1>2. ASSUME NEW s \in Subs, Attach(s) \/ Replay(s) \/ ReplayFails(s) \/ Stream(s) \/ Detach(s) PROVE FALSE
  BY <1>0, <1>2 DEF Attach, Replay, ReplayFails, Stream, Detach, Subscribe, Unsubscribe, Take, vars
<1> QED
  BY <1>0, <1>1, <1>2 DEF FeedNext, allVars, vars

LEMMA OnItsWayKept ==
    ASSUME NEW s \in Subs, NEW r \in Reqs, OnItsWay(s, r), cards[s] \subseteq cards'[s],
           unread'[s] = unread[s],
           feed[s] \in Seq(Event),
           \/ feed'[s] = feed[s]
           \/ \E e \in Event : feed'[s] = Append(feed[s], e)
    PROVE  OnItsWay(s, r)'
<1>1. PICK q \in Seq(Event) : q = feed[s]
  OBVIOUS
<1>2. ASSUME NEW i \in 1..Len(q), q[i] = Request(r) PROVE OnItsWay(s, r)'
  <2>1. CASE feed'[s] = feed[s]
    BY <1>1, <1>2, <2>1 DEF OnItsWay
  <2>2. ASSUME NEW e \in Event, feed'[s] = Append(feed[s], e) PROVE OnItsWay(s, r)'
    <3>1. PICK w \in Seq(Event) : w = Append(q, e)
      BY AppendPlace
    <3>2. Len(w) = Len(q) + 1 /\ w[i] = q[i] /\ w = feed'[s]
      BY <1>1, <2>2, <3>1, AppendPlace
    <3>3. i \in 1..Len(w)
      BY <3>2
    <3> QED
      BY <1>2, <3>2, <3>3 DEF OnItsWay
  <2> QED
    BY <2>1, <2>2
<1> QED
  BY <1>1, <1>2 DEF OnItsWay

LEMMA PublishedKeeps ==
    ASSUME Roomy, IInv, FeedInv, NEW s \in Subs, NEW e \in Event,
           Fits(feed[s], e), feed' = Published(e)
    PROVE  /\ feed'[s] = feed[s] \/ feed'[s] = Append(feed[s], e)
           /\ conn[s] # "off" => feed'[s] = Append(feed[s], e)
<1>1. feed[s] \in Seq(Event) /\ Once(feed[s])
  BY DEF FeedInv, IInv, Typed, TypeOK, Orderly
<1>2. Push(feed[s], e) = Append(feed[s], e)
  BY <1>1, PushAppends
<1> QED
  BY <1>2 DEF Published, FeedInv, Connected

LEMMA AnnouncedOnItsWay ==
    ASSUME Roomy, IInv, FeedInv, NEW s \in Subs, NEW r \in Reqs, Announce(r), conn[s] # "off"
    PROVE  OnItsWay(s, r)'
<1>0. feed[s] \in Seq(Event) /\ Orderly(s)
  BY DEF FeedInv, IInv, Typed, TypeOK
<1>1. PICK e \in Event : e = Request(r)
  BY RequestEvent
<1>2. feed' = Published(e) /\ Fits(feed[s], e)
  BY <1>0, <1>1, AnnounceFits DEF Announce, Request
<1>3. feed'[s] = Append(feed[s], e)
  BY <1>2, PublishedKeeps
<1>4. PICK q \in Seq(Event) : q = feed[s]
  BY <1>0
<1>5. PICK w \in Seq(Event) : w = Append(q, e)
  BY AppendPlace
<1>6. w = feed'[s] /\ Len(q) \in Nat /\ Len(w) = Len(q) + 1 /\ w[Len(q) + 1] = e
  BY <1>3, <1>4, <1>5, AppendPlace
<1>7. Len(q) + 1 \in 1..Len(w)
  BY <1>6
<1> QED
  BY <1>1, <1>6, <1>7 DEF OnItsWay, Request

LEMMA StreamShows ==
    ASSUME IInv, FeedInv, NEW s \in Subs, Stream(s), NEW r \in Reqs,
           row[r].state = "pending", OnItsWay(s, r)
    PROVE  OnItsWay(s, r)'
<1>0. SentShown(s)
  BY DEF FeedInv
<1>1. PICK e \in Event :
             /\ feed[s] \in Seq(Event) /\ feed[s] # <<>> /\ e = Head(feed[s])
             /\ feed'[s] = Tail(feed[s]) /\ Past(e)
             /\ \/ /\ e.type = "requested" /\ e.id \in sent[s]
                   /\ sent' = sent /\ cards' = cards
                \/ /\ e.type = "requested"
                   /\ sent'[s] = sent[s] \cup {e.id} /\ cards'[s] = cards[s] \cup {e.id}
                \/ /\ e.type # "requested"
                   /\ sent'[s] = sent[s] /\ cards'[s] = cards[s] \ {e.id}
  BY StreamFact
<1>2. r \in cards[s] => r \in cards'[s]
  <2>1. e.type # "requested" => e.id # r
    BY <1>1 DEF Past, Terminal
  <2> QED
    BY <1>1, <2>1
<1>3. e = Request(r) => r \in cards'[s]
  BY <1>0, <1>1 DEF SentShown, Request
<1>4. PICK q \in Seq(Event) : q = feed[s] /\ q # <<>> /\ Tail(q) = feed'[s] /\ e = Head(q)
  BY <1>1
<1>5. ASSUME NEW i \in 1..Len(q), q[i] = Request(r), e # Request(r) PROVE OnItsWay(s, r)'
  <2>1. i # 1 /\ Len(q) \in Nat
    BY <1>4, <1>5, TailPlace
  <2>2. PICK w \in Seq(Event) : w = Tail(q)
    BY <1>4, TailPlace
  <2>3. Len(w) = Len(q) - 1 /\ \A j \in 1..Len(w) : w[j] = q[j + 1]
    BY <1>4, <2>2, TailPlace
  <2>4. i - 1 \in 1..Len(w) /\ (i - 1) + 1 = i
    BY <2>1, <2>3
  <2>5. w[i - 1] = Request(r)
    BY <1>5, <2>3, <2>4
  <2> QED
    BY <1>4, <2>2, <2>4, <2>5 DEF OnItsWay, Request
<1>6. unread' = unread
  BY DEF Stream
<1> QED
  BY <1>2, <1>3, <1>4, <1>5, <1>6 DEF OnItsWay

LEMMA OpenShownStep ==
    ASSUME Roomy, IInv, FeedInv, [FeedNext]_allVars, NEW s \in Subs
    PROVE  OpenShown(s)'
<1>0. /\ [Next]_vars /\ Typed /\ Fresh /\ OpenShown(s) /\ SentShown(s) /\ Orderly(s)
      /\ feed[s] \in Seq(Event) /\ feed \in [Subs -> Seq(Event)] /\ FeedTypes
      /\ conn \in [Subs -> {"off", "subscribed", "live"}]
      /\ cards \in [Subs -> SUBSET Reqs] /\ unread \in [Subs -> SUBSET Reqs]
  BY QueueSteps DEF FeedInv, FeedTypes, IInv, Typed, TypeOK
<1> SUFFICES ASSUME conn'[s] = "live", NEW r \in Reqs, Open(r)'
             PROVE  OnItsWay(s, r)'
  BY DEF OpenShown
<1>1. CASE Announce(r)
  <2>1. conn' = conn
    BY <1>0, <1>1, AnnounceAlone DEF feedVars
  <2> QED
    BY <1>1, <2>1, AnnouncedOnItsWay
<1>2. CASE Restart
  BY <1>0, <1>2, RestartAlone DEF FeedRestart
<1>3. CASE Open(r)
  <2>1. CASE feed' = feed /\ UNCHANGED feedVars
    BY <1>0, <1>3, <2>1, OnItsWayKept DEF feedVars, OpenShown
  <2>2. ASSUME NEW t \in Reqs, Announce(t), UNCHANGED feedVars PROVE OnItsWay(s, r)'
    <3>1. PICK e \in Event : feed' = Published(e) /\ Fits(feed[s], e)
      BY <1>0, <2>2, RequestEvent, AnnounceFits DEF Announce, Request
    <3>2. \/ feed'[s] = feed[s]
          \/ \E x \in Event : feed'[s] = Append(feed[s], x)
      BY <3>1, PublishedKeeps
    <3> QED
      BY <1>0, <1>3, <2>2, <3>2, OnItsWayKept DEF feedVars, OpenShown
  <2>3. ASSUME NEW p \in Procs, PublishDecision(p), UNCHANGED feedVars PROVE OnItsWay(s, r)'
    <3>1. call[p].id \in Reqs
      BY <2>3 DEF IInv, Typed, CallsTyped, PublishDecision, Free
    <3>2. PICK e \in Event : /\ e.type # "requested" /\ e.id = call[p].id
                             /\ feed' = Published(e)
      BY <2>3, <3>1 DEF PublishDecision, Event
    <3>3. Fits(feed[s], e)
      BY <1>0, <2>3, <3>2, DecisionFits
    <3>4. \/ feed'[s] = feed[s]
          \/ \E x \in Event : feed'[s] = Append(feed[s], x)
      BY <3>2, <3>3, PublishedKeeps
    <3> QED
      BY <1>0, <1>3, <2>3, <3>4, OnItsWayKept DEF feedVars, OpenShown
  <2>4. ASSUME NEW t \in Subs, Attach(t) \/ Detach(t) PROVE OnItsWay(s, r)'
    <3>1. t # s
      BY <1>0, <2>4 DEF Attach, Detach
    <3>2. feed'[s] = feed[s] /\ cards' = cards /\ conn'[s] = conn[s] /\ unread'[s] = unread[s]
      BY <1>0, <2>4, <3>1 DEF Attach, Detach, Subscribe, Unsubscribe
    <3> QED
      BY <1>0, <1>3, <3>2, OnItsWayKept DEF OpenShown
  <2>5. ASSUME NEW t \in Subs, Replay(t) PROVE OnItsWay(s, r)'
    <3>1. CASE t = s
      <4>1. r \in Pending /\ cards'[s] = cards[s] \cup Pending
        BY <1>0, <1>3, <2>5, <3>1 DEF Replay, Pending, Open
      <4> QED
        BY <4>1 DEF OnItsWay
    <3>2. CASE t # s
      <4>1. feed'[s] = feed[s] /\ cards'[s] = cards[s] /\ conn'[s] = conn[s] /\ unread'[s] = unread[s]
        BY <1>0, <2>5, <3>2 DEF Replay, vars
      <4> QED
        BY <1>0, <1>3, <4>1, OnItsWayKept DEF OpenShown
    <3> QED
      BY <3>1, <3>2
  <2>6. ASSUME NEW t \in Subs, Stream(t) PROVE OnItsWay(s, r)'
    <3>0. conn' = conn /\ row[r].state = "pending" /\ OnItsWay(s, r)
      BY <1>0, <1>3, <2>6 DEF Stream, Open, OpenShown
    <3>1. CASE t = s
      BY <2>6, <3>0, <3>1, StreamShows
    <3>2. CASE t # s
      <4>1. feed'[s] = feed[s] /\ cards'[s] = cards[s] /\ unread'[s] = unread[s]
        BY <2>6, <3>2, StreamFact DEF Stream
      <4> QED
        BY <1>0, <3>0, <4>1, OnItsWayKept
    <3> QED
      BY <3>1, <3>2
  <2>7. ASSUME NEW t \in Subs, ReplayFails(t) PROVE OnItsWay(s, r)'
    <3>1. CASE t = s
      <4>1. /\ r \in Pending /\ feed' = feed /\ cards' = cards
           /\ unread'[s] = Pending \ (Queued(s) \cup cards[s])
        BY <1>0, <1>3, <2>7, <3>1 DEF ReplayFails, Pending, Open, vars
      <4> QED
        BY <4>1 DEF OnItsWay, Queued, Request
    <3>2. CASE t # s
      <4>1. feed'[s] = feed[s] /\ cards'[s] = cards[s] /\ conn'[s] = conn[s] /\ unread'[s] = unread[s]
        BY <1>0, <2>7, <3>2 DEF ReplayFails, vars
      <4> QED
        BY <1>0, <1>3, <4>1, OnItsWayKept DEF OpenShown
    <3> QED
      BY <3>1, <3>2
  <2>8. CASE FeedRestart
    BY <2>8 DEF FeedRestart
  <2> QED
    BY <2>1, <2>2, <2>3, <2>4, <2>5, <2>6, <2>7, <2>8, FeedFrame
<1> QED
  BY <1>0, <1>1, <1>2, <1>3, OpenBefore
-----------------------------------------------------------------------------
LEMMA FeedInitInv == FeedInit => IInv /\ FeedInv
<1> SUFFICES ASSUME FeedInit PROVE IInv /\ FeedInv
  OBVIOUS
<1>1. IInv
  BY InitInv DEF FeedInit
<1>2. FeedTypes /\ Connected
  BY DEF FeedInit, Init, FeedTypes, Connected
<1>3. ASSUME NEW s \in Subs PROVE Orderly(s) /\ SentShown(s) /\ OpenShown(s)
  BY <1>3 DEF FeedInit, Init, Orderly, Once, SentShown, OpenShown
<1> QED
  BY <1>1, <1>2, <1>3 DEF FeedInv

LEMMA FeedNextInv == Roomy /\ IInv /\ FeedInv /\ [FeedNext]_allVars => IInv' /\ FeedInv'
BY NextInv, QueueSteps, FeedTypesStep, OrderlyStep, SentShownStep, OpenShownStep DEF FeedInv

(* The queue under its browsers is the queue: composing the connection     *)
(* handlers of ws_events.go with it adds no step it does not have, so what *)
(* is proved of the queue holds under them.                                *)
THEOREM FeedRunsQueue == FeedSpec => Spec
BY QueueSteps, PTL DEF FeedSpec, FeedInit, Spec

(* However INSERT, publication, subscription and the replay of pending     *)
(* rows interleave, and across reconnections and restarts, a browser that  *)
(* has drained its channel shows every open approval that was announced,   *)
(* but for those that only a Pending query that failed would have brought. *)
(* The capacity counts: a full channel loses its oldest event.             *)
THEOREM NothingMissed ==
    ASSUME IsFiniteSet(Reqs), 2 * Cardinality(Reqs) <= SubCap
    PROVE  FeedSpec => []NoRequestMissed
<1>0. Roomy
  BY DEF Roomy
<1>1. IInv /\ FeedInv /\ [FeedNext]_allVars => IInv' /\ FeedInv'
  BY <1>0, FeedNextInv
<1>2. IInv /\ FeedInv => NoRequestMissed
  BY DEF FeedInv, NoRequestMissed, OpenShown, Open, OnItsWay, CaughtUp
<1> QED
  BY <1>1, <1>2, FeedInitInv, PTL DEF FeedSpec
===============================================================================
