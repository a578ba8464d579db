------------------------- MODULE ApprovalQueueProofs -------------------------
(***************************************************************************)
(* Proofs about ApprovalQueue for every set of requests, deciders,         *)
(* sweepers, subscribers and edits, and every TTL, patience and bound.     *)
(***************************************************************************)
EXTENDS ApprovalQueueRefinement, TLAPS

(* The part of the inductive invariant that types need: a call in progress *)
(* names a request and a decision, and an INSERT fits the bounded clock.   *)
CallsTyped ==
    \A p \in Procs : ~Free(p) => call[p].id \in Reqs /\ call[p].want \in Submission

InsertFits ==
    \A r \in Reqs : handler[r] = "insert" => now + TTL <= MaxTime

Typed == TypeOK /\ CallsTyped /\ InsertFits
-----------------------------------------------------------------------------
LEMMA ProcsFact == Deciders \subseteq Procs /\ Sweepers \subseteq Procs /\ Reqs \subseteq Procs
BY DEF Procs

LEMMA DecisionFacts ==
    /\ UserSubmission \subseteq Submission
    /\ Plain("expired") \in Submission /\ Plain("cancelled") \in Submission
    /\ \A d \in Submission : d.verdict \in Verdicts /\ d.input \in Edits \cup {NoEdit}
    /\ \A d \in Submission : Handed(d) \in Decision
    /\ \A v \in Verdicts \ {"edited"} : Plain(v) \in Decision
    /\ \A d \in Decision : d.verdict \in Verdicts /\ d.input \in Edits \cup {NoEdit}
    /\ Nothing \notin Decision
    /\ Decision \subseteq HookView
    /\ \A v \in {"idle", "waiting", "timeout", "eof"} : Plain(v) \in HookView
<1>1. /\ UserSubmission \subseteq Submission
      /\ Plain("expired") \in Submission /\ Plain("cancelled") \in Submission
  BY DEF Submission
<1>2. \A v \in Verdicts \ {"edited"} : Plain(v) \in Decision
  BY DEF Decision
<1>3. \A d \in Decision : d.verdict \in Verdicts /\ d.input \in Edits \cup {NoEdit}
  BY DEF Decision, Edit, Plain, Verdicts
<1>4. Nothing \notin Decision
  BY <1>3 DEF Nothing, Verdicts
<1>5. /\ Decision \subseteq HookView
      /\ \A v \in {"idle", "waiting", "timeout", "eof"} : Plain(v) \in HookView
  BY DEF HookView
<1>6. \A d \in Submission : d.verdict \in Verdicts /\ d.input \in Edits \cup {NoEdit}
  BY DEF Submission, UserSubmission, Edit, Plain, Verdicts
<1>7. ASSUME NEW d \in Submission PROVE Handed(d) \in Decision
  <2>1. CASE d.verdict = "edited"
    BY <2>1 DEF Submission, UserSubmission, Plain, Handed, Decision
  <2>2. CASE d.verdict # "edited"
    BY <1>2, <1>6, <2>2 DEF Handed
  <2> QED
    BY <2>1, <2>2
<1> QED
  BY <1>1, <1>2, <1>3, <1>4, <1>5, <1>6, <1>7

(* Push keeps a channel within its capacity.                               *)
LEMMA PushFact ==
    ASSUME NEW q \in Seq(Event), Len(q) <= SubCap, NEW e \in Event
    PROVE  Push(q, e) \in Seq(Event) /\ Len(Push(q, e)) <= SubCap
<1>1. SubCap \in Nat \ {0}
  BY ConstantsAssumption
<1>2. CASE Len(q) < SubCap
  BY <1>1, <1>2 DEF Push
<1>3. CASE ~(Len(q) < SubCap)
  <2>1. q # <<>>
    BY <1>1, <1>3
  <2>2. Tail(q) \in Seq(Event) /\ Len(Tail(q)) = Len(q) - 1
    BY <2>1
  <2> QED
    BY <1>1, <1>3, <2>2 DEF Push
<1> QED
  BY <1>2, <1>3

LEMMA PublishedFact ==
    ASSUME TypeOK, NEW e \in Event
    PROVE  /\ Published(e) \in [Subs -> Seq(Event)]
           /\ \A s \in Subs : Len(Published(e)[s]) <= SubCap
BY PushFact DEF TypeOK, Published
-----------------------------------------------------------------------------
LEMMA EmptyValues ==
    /\ AbsentRow \in Row /\ IdleCall \in Call /\ Plain("idle") \in HookView
    /\ \A r \in {"already", "error"} : Failure(r) \in Call
    /\ \A c \in Call, r \in {"ok", "replayed", "expired"} : Success(c, r) \in Call
<1>1. AbsentRow \in Row
  BY ConstantsAssumption DEF AbsentRow, Row
<1>2. IdleCall \in Call
  BY ConstantsAssumption DEF IdleCall, Call
<1>3. \A r \in {"already", "error"} : Failure(r) \in Call
  BY ConstantsAssumption DEF Call, Failure
<1>4. \A c \in Call, r \in {"ok", "replayed", "expired"} : Success(c, r) \in Call
  BY ConstantsAssumption DEF Call, Success
<1> QED
  BY <1>1, <1>2, <1>3, <1>4, DecisionFacts

LEMMA InitTyped == Init => Typed
<1> SUFFICES ASSUME Init PROVE Typed
  OBVIOUS
<1>1. TypeOK
  <2>1. now \in 0..MaxTime /\ restarts \in 0..MaxRestarts /\ asked \in [Reqs -> 0..MaxTime]
    BY ConstantsAssumption DEF Init
  <2>2. row \in [Reqs -> Row] /\ call \in [Procs -> Call] /\ hook \in [Reqs -> HookView]
    BY EmptyValues DEF Init
  <2>3. /\ waiters \subseteq Reqs /\ subs \subseteq Subs /\ stopping \in BOOLEAN
        /\ ch \in [Reqs -> Decision \cup {Nothing}]
        /\ handler \in [Reqs -> {"idle", "insert", "register", "announce", "parked",
                                "cancelling", "gone"}]
        /\ sweep \in [Sweepers -> SUBSET Reqs]
    BY DEF Init
  <2>4. feed \in [Subs -> Seq(Event)] /\ \A s \in Subs : Len(feed[s]) <= SubCap
    BY ConstantsAssumption DEF Init
  <2> QED
    BY <2>1, <2>2, <2>3, <2>4 DEF TypeOK
<1>2. CallsTyped
  BY DEF Init, CallsTyped, Free, IdleCall
<1>3. InsertFits
  BY DEF Init, InsertFits
<1> QED
  BY <1>1, <1>2, <1>3 DEF Typed
-----------------------------------------------------------------------------
(* A decision taken by a well-typed call is a decision.                    *)
LEMMA AppliedFact ==
    ASSUME NEW c, c.want \in Submission
    PROVE  /\ Applied(c) \in Submission
           /\ Handed(Applied(c)) \in Decision
           /\ StateForVerdict[Applied(c).verdict] \in Terminal
           /\ Applied(c).input \in Edits \cup {NoEdit}
<1>1. Applied(c) \in Submission
  BY DecisionFacts DEF Applied, Verdicts
<1> QED
  BY <1>1, DecisionFacts DEF StateForVerdict, Terminal, Verdicts

LEMMA DecidedFact ==
    ASSUME NEW o \in Row, NEW c, c.want \in Submission, c.at \in 0..MaxTime
    PROVE  Decided(o, Applied(c), c.at) \in Row
BY AppliedFact DEF Decided, Row

LEMMA InCallFact ==
    ASSUME NEW r \in Reqs, NEW d \in Submission, NEW t \in 0..MaxTime,
           NEW pc \in {"settle", "deliver", "publish", "reconcile"}
    PROVE  /\ InCall(pc, r, d, t) \in Call
           /\ InCall(pc, r, d, t).pc = pc
           /\ InCall(pc, r, d, t).id = r /\ InCall(pc, r, d, t).want = d
BY DEF InCall, Call

LEMMA LostFact ==
    ASSUME NEW p, NEW c, c.id \in Reqs, c.want \in Submission
    PROVE  /\ Lost(p, c) \in Call
           /\ Lost(p, c).pc # "done" => Lost(p, c).id \in Reqs /\ Lost(p, c).want \in Submission
<1>1. 0 \in 0..MaxTime
  BY ConstantsAssumption
<1>2. Failure("already") \in Call /\ Failure("already").pc = "done"
  BY EmptyValues DEF Failure
<1> QED
  BY <1>1, <1>2, InCallFact DEF Lost

\* One goroutine replaces its call by a well-typed one.
LEMMA CallChanged ==
    ASSUME Typed, NEW p \in Procs, NEW v \in Call,
           v.pc \in {"idle", "done"} \/ (v.id \in Reqs /\ v.want \in Submission),
           call' = [call EXCEPT ![p] = v]
    PROVE  call' \in [Procs -> Call] /\ CallsTyped'
BY DEF Typed, TypeOK, CallsTyped, Free

LEMMA BeginFact ==
    ASSUME Typed, NEW p \in Procs, NEW r \in Reqs, NEW d \in Submission, Begin(p, r, d)
    PROVE  call' \in [Procs -> Call] /\ CallsTyped'
<1> DEFINE c == InCall("settle", r, d, now)
<1> DEFINE v == IF row[r].state = "pending" THEN c ELSE Lost(p, c)
<1>1. now \in 0..MaxTime
  BY DEF Typed, TypeOK
<1>2. c \in Call /\ c.id \in Reqs /\ c.want \in Submission
  BY <1>1, InCallFact
<1>3. v \in Call /\ (v.pc = "done" \/ (v.id \in Reqs /\ v.want \in Submission))
  BY <1>2, LostFact
<1>4. call' = [call EXCEPT ![p] = v]
  BY DEF Begin
<1> HIDE DEF v
<1> QED
  BY <1>3, <1>4, CallChanged
-----------------------------------------------------------------------------
(* One lemma per group of actions.                                         *)

LEMMA CallsTypedStep ==
    ASSUME Typed, NEW p \in Procs, CallStep(p) \/ Abort(p)
    PROVE  Typed'
<1> DEFINE c == call[p]
<1>0. /\ c \in Call
      /\ ~Free(p) => c.id \in Reqs /\ c.want \in Submission
      /\ c.at \in 0..MaxTime
  BY DEF Typed, TypeOK, CallsTyped, Call
<1>1. CASE Settle(p)
  <2>1. c.id \in Reqs /\ c.want \in Submission
    BY <1>0, <1>1 DEF Settle, Free
  <2>2. row' \in [Reqs -> Row]
    <3>1. row[c.id] \in Row
      BY <2>1 DEF Typed, TypeOK
    <3>2. Decided(row[c.id], Applied(c), c.at) \in Row
      BY <1>0, <2>1, <3>1, DecidedFact
    <3> QED
      BY <1>1, <2>1, <3>2 DEF Settle, Typed, TypeOK
  <2>3. CASE row[c.id].state = "pending"
    <3>1. call' \in [Procs -> Call] /\ CallsTyped'
      BY <1>0, <1>1, <2>1, <2>3, CallChanged, InCallFact DEF Settle
    <3> QED
      BY <1>1, <2>2, <3>1 DEF Settle, Typed, TypeOK, InsertFits
  <2>4. CASE row[c.id].state # "pending"
    <3>1. call' \in [Procs -> Call] /\ CallsTyped'
      BY <1>0, <1>1, <2>1, <2>4, CallChanged, LostFact DEF Settle
    <3> QED
      BY <1>1, <2>2, <3>1 DEF Settle, Typed, TypeOK, InsertFits
  <2> QED
    BY <2>3, <2>4
<1>2. CASE Deliver(p)
  <2>1. c.id \in Reqs /\ c.want \in Submission
    BY <1>0, <1>2 DEF Deliver, Free
  <2>2. call' \in [Procs -> Call] /\ CallsTyped'
    <3> DEFINE v == InCall("publish", c.id, c.want, c.at)
    <3>1. v \in Call /\ v.id \in Reqs /\ v.want \in Submission
      BY <1>0, <2>1, InCallFact
    <3>2. call' = [call EXCEPT ![p] = v]
      BY <1>2 DEF Deliver
    <3> HIDE DEF v
    <3> QED
      BY <3>1, <3>2, CallChanged
  <2>3. ch' \in [Reqs -> Decision \cup {Nothing}]
    BY <1>2, <2>1, AppliedFact DEF Deliver, Typed, TypeOK
  <2> QED
    BY <1>2, <2>2, <2>3 DEF Deliver, Typed, TypeOK, InsertFits
<1>3. CASE PublishDecision(p)
  <2>1. c.id \in Reqs /\ c.want \in Submission
    BY <1>0, <1>3 DEF PublishDecision, Free
  <2>2. call' \in [Procs -> Call] /\ CallsTyped'
    <3>1. Success(c, IF Overdue(c) THEN "expired" ELSE "ok") \in Call
      BY <1>0, EmptyValues
    <3>2. Success(c, IF Overdue(c) THEN "expired" ELSE "ok").pc = "done"
      BY DEF Success
    <3> QED
      BY <1>3, <3>1, <3>2, CallChanged DEF PublishDecision
  <2>3. /\ feed' \in [Subs -> Seq(Event)]
        /\ \A s \in Subs : Len(feed'[s]) <= SubCap
    <3> DEFINE e == [type |-> IF Applied(c).verdict = "expired" THEN "expired" ELSE "decided",
                     id |-> c.id]
    <3>1. e \in Event
      BY <2>1 DEF Event
    <3>2. feed' = Published(e)
      BY <1>3 DEF PublishDecision
    <3> HIDE DEF e
    <3> QED
      BY <3>1, <3>2, PublishedFact DEF Typed
  <2> QED
    BY <1>3, <2>2, <2>3 DEF PublishDecision, Typed, TypeOK, InsertFits
<1>4. CASE Reconcile(p)
  <2>1. call' \in [Procs -> Call] /\ CallsTyped'
    <3>1. Success(c, "replayed") \in Call /\ Failure("already") \in Call
      BY <1>0, EmptyValues
    <3>2. Success(c, "replayed").pc = "done" /\ Failure("already").pc = "done"
      BY DEF Success, Failure
    <3> QED
      BY <1>4, <3>1, <3>2, CallChanged DEF Reconcile
  <2> QED
    BY <1>4, <2>1 DEF Reconcile, Typed, TypeOK, InsertFits
<1>5. CASE Abort(p)
  <2>1. Failure("error") \in Call /\ Failure("error").pc = "done"
    BY EmptyValues DEF Failure
  <2>2. call' \in [Procs -> Call] /\ CallsTyped'
    BY <1>5, <2>1, CallChanged DEF Abort
  <2> QED
    BY <1>5, <2>2 DEF Abort, Typed, TypeOK, InsertFits
<1> QED
  BY <1>1, <1>2, <1>3, <1>4, <1>5 DEF CallStep

LEMMA DecidersTyped ==
    ASSUME Typed, NEW p \in Deciders, NEW r \in Reqs, NEW d \in UserSubmission, Decide(p, r, d)
    PROVE  Typed'
<1>1. p \in Procs /\ d \in Submission /\ Begin(p, r, d)
  BY ProcsFact, DecisionFacts DEF Decide
<1>2. call' \in [Procs -> Call] /\ CallsTyped'
  BY <1>1, BeginFact
<1> QED
  BY <1>2 DEF Decide, Typed, TypeOK, InsertFits

LEMMA SweepersTyped ==
    ASSUME Typed, NEW p \in Sweepers, SweepSelect(p) \/ SweepNext(p) \/ SweepAbort(p)
    PROVE  Typed'
<1>1. CASE SweepSelect(p)
  BY <1>1 DEF SweepSelect, Typed, TypeOK, InsertFits, CallsTyped, Free
<1>2. CASE SweepNext(p)
  <2>1. PICK r \in sweep[p] : /\ Begin(p, r, Plain("expired"))
                              /\ sweep' = [sweep EXCEPT ![p] = @ \ {r}]
    BY <1>2 DEF SweepNext
  <2>2. r \in Reqs /\ p \in Procs /\ Plain("expired") \in Submission
    BY ProcsFact, DecisionFacts DEF Typed, TypeOK, Verdicts
  <2>3. call' \in [Procs -> Call] /\ CallsTyped'
    BY <2>1, <2>2, BeginFact
  <2>4. sweep' \in [Sweepers -> SUBSET Reqs]
    BY <2>1 DEF Typed, TypeOK
  <2> QED
    BY <1>2, <2>3, <2>4 DEF SweepNext, Typed, TypeOK, InsertFits
<1>3. CASE SweepAbort(p)
  BY <1>3 DEF SweepAbort, Typed, TypeOK, InsertFits, CallsTyped, Free
<1> QED
  BY <1>1, <1>2, <1>3

LEMMA AskTyped ==
    ASSUME Typed, NEW r \in Reqs, Ask(r)
    PROVE  Typed'
<1>1. hook' \in [Reqs -> HookView]
  BY DecisionFacts DEF Ask, Typed, TypeOK
<1>2. /\ asked' \in [Reqs -> 0..MaxTime]
      /\ handler' \in [Reqs -> {"idle", "insert", "register", "announce", "parked",
                                "cancelling", "gone"}]
  BY DEF Ask, Typed, TypeOK
<1>3. InsertFits'
  BY DEF Ask, Typed, TypeOK, InsertFits
<1> QED
  BY <1>1, <1>2, <1>3 DEF Ask, Typed, TypeOK, CallsTyped, Free

LEMMA HandlersTyped ==
    ASSUME Typed, NEW r \in Reqs, HandlerStep(r)
    PROVE  Typed'
<1>0. ASSUME NEW d \in HookView, Respond(r, d)
      PROVE  /\ hook' \in [Reqs -> HookView]
             /\ handler' \in [Reqs -> {"idle", "insert", "register", "announce", "parked",
                                       "cancelling", "gone"}]
             /\ now' = now => InsertFits'
  BY <1>0 DEF Respond, Typed, TypeOK, InsertFits
<1>1. CASE Refuse(r)
  <2>1. Plain("cancelled") \in HookView
    BY DecisionFacts DEF Verdicts
  <2>2. Respond(r, Plain("cancelled"))
    BY <1>1 DEF Refuse
  <2> QED
    BY <1>0, <1>1, <2>1, <2>2 DEF Refuse, Typed, TypeOK, CallsTyped, Free
<1>2. CASE Insert(r)
  <2> DEFINE new == [state |-> "pending", edited |-> NoEdit, expires |-> now + TTL,
                     decidedAt |-> 0]
  <2>1. new \in Row
    <3>1. now + TTL \in 0..MaxTime /\ 0 \in 0..MaxTime
      BY <1>2, ConstantsAssumption DEF Insert, Typed, TypeOK, InsertFits
    <3> QED
      BY <3>1 DEF Row
  <2>2. row' = [row EXCEPT ![r] = new]
    BY <1>2 DEF Insert
  <2> HIDE DEF new
  <2>3. row' \in [Reqs -> Row]
    BY <2>1, <2>2 DEF Typed, TypeOK
  <2> QED
    BY <1>2, <2>3 DEF Insert, Typed, TypeOK, InsertFits, CallsTyped, Free
<1>3. CASE Register(r)
  BY <1>3 DEF Register, Typed, TypeOK, InsertFits, CallsTyped, Free
<1>4. CASE Announce(r)
  <2>1. [type |-> "requested", id |-> r] \in Event
    BY DEF Event
  <2>2. feed' \in [Subs -> Seq(Event)] /\ \A s \in Subs : Len(feed'[s]) <= SubCap
    BY <1>4, <2>1, PublishedFact DEF Announce, Typed
  <2> QED
    BY <1>4, <2>2 DEF Announce, Typed, TypeOK, InsertFits, CallsTyped, Free
<1>5. CASE Answer(r)
  <2>1. ch[r] \in HookView
    BY <1>5, DecisionFacts DEF Answer, Typed, TypeOK
  <2>2. Respond(r, ch[r])
    BY <1>5 DEF Answer
  <2> QED
    BY <1>0, <1>5, <2>1, <2>2 DEF Answer, Typed, TypeOK, CallsTyped, Free
<1>6. CASE GiveUp(r)
  <2>1. r \in Procs /\ Plain("cancelled") \in Submission
    BY ProcsFact, DecisionFacts DEF Verdicts
  <2>2. call' \in [Procs -> Call] /\ CallsTyped'
    BY <1>6, <2>1, BeginFact DEF GiveUp
  <2> QED
    BY <1>6, <2>2 DEF GiveUp, Typed, TypeOK, InsertFits
<1>7. CASE AnswerCancelled(r)
  <2>1. Plain("cancelled") \in HookView
    BY DecisionFacts DEF Verdicts
  <2>2. Respond(r, Plain("cancelled"))
    BY <1>7 DEF AnswerCancelled
  <2> QED
    BY <1>0, <1>7, <2>1, <2>2 DEF AnswerCancelled, Typed, TypeOK, CallsTyped, Free
<1> QED
  BY <1>1, <1>2, <1>3, <1>4, <1>5, <1>6, <1>7 DEF HandlerStep

LEMMA EnvironmentTyped ==
    ASSUME Typed, (\E r \in Reqs : HookTimeout(r)) \/ Tick \/ Shutdown \/ Restart \/ SubscriberNext
    PROVE  Typed'
<1>1. ASSUME NEW r \in Reqs, HookTimeout(r) PROVE Typed'
  BY <1>1, DecisionFacts DEF HookTimeout, Typed, TypeOK, InsertFits, CallsTyped, Free
<1>2. CASE Tick
  <2>1. now' \in 0..MaxTime
    BY <1>2, ConstantsAssumption DEF Tick, Typed, TypeOK
  <2>2. InsertFits'
    BY <1>2 DEF Tick, InsertFits
  <2> QED
    BY <1>2, <2>1, <2>2 DEF Tick, Typed, TypeOK, CallsTyped, Free
<1>3. CASE Shutdown
  BY <1>3 DEF Shutdown, Typed, TypeOK, InsertFits, CallsTyped, Free
<1>4. CASE Restart
  <2>1. hook' \in [Reqs -> HookView]
    BY <1>4, DecisionFacts DEF Restart, Typed, TypeOK
  <2>2. /\ ch' \in [Reqs -> Decision \cup {Nothing}]
        /\ handler' \in [Reqs -> {"idle", "insert", "register", "announce", "parked",
                                  "cancelling", "gone"}]
        /\ InsertFits'
    BY <1>4 DEF Restart, InsertFits
  <2>3. call' \in [Procs -> Call] /\ CallsTyped'
    BY <1>4, EmptyValues DEF Restart, CallsTyped, Free, IdleCall
  <2>4. feed' \in [Subs -> Seq(Event)] /\ \A s \in Subs : Len(feed'[s]) <= SubCap
    BY <1>4, ConstantsAssumption DEF Restart
  <2>5. restarts' \in 0..MaxRestarts /\ sweep' \in [Sweepers -> SUBSET Reqs]
    BY <1>4, ConstantsAssumption DEF Restart, Typed, TypeOK
  <2> QED
    BY <1>4, <2>1, <2>2, <2>3, <2>4, <2>5 DEF Restart, Typed, TypeOK
<1>5. ASSUME NEW s \in Subs, Subscribe(s) \/ Unsubscribe(s) \/ Take(s) PROVE Typed'
  <2>1. feed' \in [Subs -> Seq(Event)] /\ \A t \in Subs : Len(feed'[t]) <= SubCap
    <3>1. CASE Take(s)
      <4>1. feed[s] \in Seq(Event) /\ feed[s] # <<>> /\ Len(feed[s]) <= SubCap
        BY <3>1 DEF Take, Typed, TypeOK
      <4>2. Tail(feed[s]) \in Seq(Event) /\ Len(Tail(feed[s])) <= SubCap
        BY <4>1, ConstantsAssumption
      <4> QED
        BY <3>1, <4>2 DEF Take, Typed, TypeOK
    <3>2. CASE Subscribe(s) \/ Unsubscribe(s)
      <4>1. <<>> \in Seq(Event) /\ Len(<<>>) <= SubCap
        BY ConstantsAssumption
      <4>2. feed' = [feed EXCEPT ![s] = <<>>]
        BY <3>2 DEF Subscribe, Unsubscribe
      <4> QED
        BY <4>1, <4>2 DEF Typed, TypeOK
    <3> QED
      BY <1>5, <3>1, <3>2
  <2>2. subs' \subseteq Subs
    BY <1>5 DEF Subscribe, Unsubscribe, Take, Typed, TypeOK
  <2> QED
    BY <1>5, <2>1, <2>2 DEF Subscribe, Unsubscribe, Take, Typed, TypeOK, InsertFits,
                             CallsTyped, Free
<1> QED
  BY <1>1, <1>2, <1>3, <1>4, <1>5 DEF SubscriberNext

LEMMA StutterTyped ==
    ASSUME Typed, UNCHANGED vars
    PROVE  Typed'
BY DEF vars, Typed, TypeOK, InsertFits, CallsTyped, Free

LEMMA NextTyped == Typed /\ [Next]_vars => Typed'
<1> SUFFICES ASSUME Typed, [Next]_vars PROVE Typed'
  OBVIOUS
<1>1. ASSUME NEW r \in Reqs, Ask(r) \/ HandlerStep(r) \/ HookTimeout(r) PROVE Typed'
  BY <1>1, AskTyped, HandlersTyped, EnvironmentTyped
<1>2. ASSUME NEW p \in Deciders, NEW r \in Reqs, NEW d \in UserSubmission, Decide(p, r, d)
      PROVE  Typed'
  BY <1>2, DecidersTyped
<1>3. ASSUME NEW p \in Procs, CallStep(p) \/ Abort(p) PROVE Typed'
  BY <1>3, CallsTypedStep
<1>4. ASSUME NEW p \in Sweepers, SweepSelect(p) \/ SweepNext(p) \/ SweepAbort(p)
      PROVE  Typed'
  BY <1>4, SweepersTyped
<1>5. CASE Tick \/ Shutdown \/ SubscriberNext \/ Restart
  BY <1>5, EnvironmentTyped
<1>6. CASE UNCHANGED vars
  BY <1>6, StutterTyped
<1> QED
  BY <1>1, <1>2, <1>3, <1>4, <1>5, <1>6 DEF Next, QueueNext

LEMMA AlwaysTyped == Spec => []Typed
BY InitTyped, NextTyped, PTL DEF Spec

(* Every reachable state is well typed: in particular no goroutine ever     *)
(* works on an id or a verdict the queue does not know, and no subscriber   *)
(* channel exceeds its capacity.                                            *)
THEOREM TypeCorrect == Spec => []TypeOK
<1>1. Typed => TypeOK
  BY DEF Typed
<1> QED
  BY <1>1, AlwaysTyped, PTL
-----------------------------------------------------------------------------
(***************************************************************************)
(* The safety of ApprovalQueue, for every value of its constants.          *)
(*                                                                         *)
(* The inductive invariant IInv says who may still write what.  A hook     *)
(* that has not asked has no handler, row or waiter (Fresh), so an INSERT  *)
(* never meets a row of its own id; with the state = 'pending' guard of    *)
(* the UPDATE this makes terminal rows final (TerminalFinal), and then     *)
(* everything that was once copied from a terminal row stays true of it:   *)
(* a channel (ChannelRecords), a winner between UPDATE and publication     *)
(* and an acknowledged caller (CallSound).                                 *)
(***************************************************************************)

Fresh ==
    \A r \in Reqs :
        /\ hook[r] = Plain("idle") => handler[r] = "idle"
        /\ handler[r] \in {"idle", "insert"} => row[r].state = "absent"
        /\ handler[r] \in {"idle", "insert", "register"} => r \notin waiters /\ ch[r] = Nothing

ChannelRecords == \A r \in Reqs : ch[r] # Nothing => Records(r, ch[r])

(* What a call knows of its row: a winner has yet to hand out what the row  *)
(* records, and an acknowledged caller asked for it.                       *)
CallSound(p) ==
    /\ call[p].pc \in {"deliver", "publish"} => Records(call[p].id, Applied(call[p]))
    /\ Acknowledged(p) => /\ call[p].id \in Reqs /\ call[p].want \in Submission
                          /\ Records(call[p].id, call[p].want)
    /\ Won(p) => call[p].id \in Reqs /\ row[call[p].id].state \in Terminal
    /\ call[p].pc = "done" /\ call[p].res = "expired" => row[call[p].id].state = "expired"

CallsSound == \A p \in Procs : CallSound(p)

IInv ==
    /\ Typed
    /\ Fresh
    /\ WaiterChannelEmpty
    /\ ChannelRecords
    /\ CallsSound
    /\ OneWinner
    /\ AnswerMatchesRow
    /\ OneOutcomeTold
-----------------------------------------------------------------------------
(* Which actions change what.                                              *)

LEMMA RowFrame ==
    ASSUME [Next]_vars
    PROVE  row' = row \/ (\E p \in Procs : Settle(p)) \/ (\E r \in Reqs : Insert(r))
BY DEF Next, QueueNext, SubscriberNext, vars, Ask, HandlerStep, HookTimeout, Decide, CallStep,
       Abort, SweepSelect, SweepNext, SweepAbort, Tick, Shutdown, Restart, Refuse, Register,
       Announce, Answer, GiveUp, AnswerCancelled, Deliver, PublishDecision, Reconcile,
       Subscribe, Unsubscribe, Take

LEMMA ChannelFrame ==
    ASSUME [Next]_vars
    PROVE  \/ ch' = ch /\ waiters' = waiters
           \/ \E p \in Procs : Deliver(p)
           \/ \E r \in Reqs : Register(r)
           \/ Restart
BY DEF Next, QueueNext, SubscriberNext, vars, Ask, HandlerStep, HookTimeout, Decide, CallStep,
       Abort, SweepSelect, SweepNext, SweepAbort, Tick, Shutdown, Refuse, Insert,
       Announce, Answer, GiveUp, AnswerCancelled, Settle, PublishDecision, Reconcile,
       Subscribe, Unsubscribe, Take

LEMMA HookFrame ==
    ASSUME [Next]_vars
    PROVE  \/ hook' = hook /\ handler' = handler
           \/ \E r \in Reqs : Ask(r) \/ HandlerStep(r) \/ HookTimeout(r)
           \/ Restart
BY DEF Next, QueueNext, SubscriberNext, vars, Decide, CallStep, Settle, Deliver,
       Abort, SweepSelect, SweepNext, SweepAbort, Tick, Shutdown,
       PublishDecision, Reconcile, Subscribe, Unsubscribe, Take

LEMMA CallFrame ==
    ASSUME Typed, [Next]_vars
    PROVE  \/ call' = call
           \/ \E p \in Procs, r \in Reqs, d \in Submission : Begin(p, r, d) /\ row' = row
           \/ \E p \in Procs : CallStep(p) \/ Abort(p)
           \/ Restart
<1>1. ASSUME NEW r \in Reqs, Ask(r) \/ HandlerStep(r) \/ HookTimeout(r)
      PROVE  call' = call \/ GiveUp(r)
  BY <1>1 DEF Ask, HandlerStep, HookTimeout, Refuse, Insert, Register, Announce, Answer,
              AnswerCancelled
<1>2. ASSUME NEW r \in Reqs, GiveUp(r)
      PROVE  r \in Procs /\ Plain("cancelled") \in Submission /\ Begin(r, r, Plain("cancelled"))
                /\ row' = row
  BY <1>2, ProcsFact, DecisionFacts DEF GiveUp, Verdicts
<1>3. ASSUME NEW p \in Deciders, NEW r \in Reqs, NEW d \in UserSubmission, Decide(p, r, d)
      PROVE  p \in Procs /\ d \in Submission /\ Begin(p, r, d) /\ row' = row
  BY <1>3, ProcsFact, DecisionFacts DEF Decide
<1>4. ASSUME NEW p \in Sweepers, SweepNext(p)
      PROVE  /\ p \in Procs /\ Plain("expired") \in Submission /\ row' = row
             /\ \E r \in Reqs : Begin(p, r, Plain("expired"))
  BY <1>4, ProcsFact, DecisionFacts DEF SweepNext, Verdicts, Typed, TypeOK
<1>5. ASSUME NEW p \in Sweepers, SweepSelect(p) \/ SweepAbort(p)
      PROVE  call' = call
  BY <1>5 DEF SweepSelect, SweepAbort
<1>6. CASE Tick \/ Shutdown \/ SubscriberNext \/ UNCHANGED vars
  BY <1>6 DEF Tick, Shutdown, SubscriberNext, Subscribe, Unsubscribe, Take, vars
<1> QED
  BY <1>1, <1>2, <1>3, <1>4, <1>5, <1>6 DEF Next, QueueNext
-----------------------------------------------------------------------------
(* Terminal rows are final.                                                *)

RowsKept ==
    \A r \in Reqs : /\ row[r].state \in Terminal => row'[r] = row[r]
                    /\ row[r].state # "absent" => row'[r].expires = row[r].expires

LEMMA RowsKeptStep ==
    ASSUME Typed, Fresh, [Next]_vars
    PROVE  RowsKept
<1>1. CASE row' = row
  BY <1>1 DEF RowsKept
<1>2. ASSUME NEW p \in Procs, Settle(p) PROVE RowsKept
  <2>1. CASE row[call[p].id].state = "pending"
    <3>1. row' = [row EXCEPT ![call[p].id] = Decided(@, Applied(call[p]), call[p].at)]
      BY <1>2, <2>1 DEF Settle
    <3> QED
      BY <2>1, <3>1 DEF Typed, TypeOK, RowsKept, Decided, Terminal
  <2>2. CASE row[call[p].id].state # "pending"
    BY <1>2, <2>2 DEF Settle, RowsKept
  <2> QED
    BY <2>1, <2>2
<1>3. ASSUME NEW r \in Reqs, Insert(r) PROVE RowsKept
  <2>1. row[r].state = "absent"
    BY <1>3 DEF Insert, Fresh
  <2>2. \A q \in Reqs : q # r => row'[q] = row[q]
    BY <1>3 DEF Insert, Typed, TypeOK
  <2> QED
    BY <2>1, <2>2 DEF RowsKept, Terminal
<1> QED
  BY <1>1, <1>2, <1>3, RowFrame

LEMMA RecordsTerminal ==
    ASSUME NEW r \in Reqs, NEW d \in Decision \cup Submission, Records(r, d)
    PROVE  row[r].state \in Terminal
BY DecisionFacts DEF Records, StateForVerdict, Terminal, Verdicts

LEMMA RecordsKept ==
    ASSUME RowsKept, NEW r \in Reqs, NEW d \in Decision \cup Submission, Records(r, d)
    PROVE  Records(r, d)'
BY RecordsTerminal DEF RowsKept, Records
-----------------------------------------------------------------------------
(* Handlers, waiters and channels.                                         *)

LEMMA PlainIdle ==
    /\ \A v \in Verdicts \cup {"waiting", "timeout", "eof"} : Plain(v) # Plain("idle")
    /\ \A d \in Decision : d # Plain("idle") /\ d # Nothing
<1>1. \A v, w : Plain(v) = Plain(w) => v = w
  BY DEF Plain
<1>2. \A d \in Decision : d.verdict \in Verdicts
  BY DecisionFacts
<1>3. Plain("idle").verdict = "idle" /\ Nothing.verdict = "none"
  BY DEF Plain, Nothing
<1> QED
  BY <1>1, <1>2, <1>3 DEF Verdicts

LEMMA FreshStep ==
    ASSUME Typed, Fresh, WaiterChannelEmpty, [Next]_vars
    PROVE  Fresh'
<1>1. ASSUME NEW r \in Reqs, hook'[r] = Plain("idle") PROVE handler'[r] = "idle"
  <2>1. CASE hook' = hook /\ handler' = handler
    BY <1>1, <2>1 DEF Fresh
  <2>2. ASSUME NEW q \in Reqs, Ask(q) PROVE handler'[r] = "idle"
    BY <1>1, <2>2, PlainIdle DEF Ask, Fresh, Typed, TypeOK
  <2>3. ASSUME NEW q \in Reqs, HookTimeout(q) PROVE handler'[r] = "idle"
    BY <1>1, <2>3, PlainIdle DEF HookTimeout, Fresh, Typed, TypeOK
  <2>4. ASSUME NEW q \in Reqs, NEW d \in Decision, Respond(q, d), handler[q] # "idle"
        PROVE  handler'[r] = "idle"
    BY <1>1, <2>4, PlainIdle DEF Respond, Fresh, Typed, TypeOK
  <2>5. ASSUME NEW q \in Reqs, HandlerStep(q) PROVE handler'[r] = "idle"
    <3>1. CASE Refuse(q)
      BY <2>4, <3>1, DecisionFacts DEF Refuse, Verdicts
    <3>2. CASE Answer(q)
      <4>1. ch[q] \in Decision
        BY <3>2 DEF Answer, Typed, TypeOK
      <4> QED
        BY <2>4, <3>2, <4>1 DEF Answer
    <3>3. CASE AnswerCancelled(q)
      BY <2>4, <3>3, DecisionFacts DEF AnswerCancelled, Verdicts
    <3>4. CASE Insert(q) \/ Register(q) \/ Announce(q) \/ GiveUp(q)
      BY <1>1, <3>4 DEF Insert, Register, Announce, GiveUp, Fresh, Typed, TypeOK
    <3> QED
      BY <2>5, <3>1, <3>2, <3>3, <3>4 DEF HandlerStep
  <2>6. CASE Restart
    <3>1. hook[r] = Plain("idle")
      BY <1>1, <2>6, PlainIdle DEF Restart
    <3> QED
      BY <2>6, <3>1 DEF Restart, Fresh
  <2> QED
    BY <2>1, <2>2, <2>3, <2>5, <2>6, HookFrame
<1>2. ASSUME NEW r \in Reqs, handler'[r] \in {"idle", "insert"}
      PROVE  handler[r] \in {"idle", "insert"} /\ row'[r] = row[r]
  <2>1. handler[r] \in {"idle", "insert"}
    <3>1. CASE handler' = handler
      BY <1>2, <3>1
    <3>2. ASSUME NEW q \in Reqs, Ask(q) \/ HandlerStep(q) \/ HookTimeout(q)
          PROVE  handler[r] \in {"idle", "insert"}
      BY <1>2, <3>2 DEF Ask, HandlerStep, HookTimeout, Refuse, Insert, Register, Announce,
                        Answer, GiveUp, AnswerCancelled, Respond, Fresh, Typed, TypeOK
    <3>3. CASE Restart
      BY <1>2, <3>3 DEF Restart
    <3> QED
      BY <3>1, <3>2, <3>3, HookFrame
  <2>2. row[r].state = "absent"
    BY <2>1 DEF Fresh
  <2>3. ASSUME NEW p \in Procs, Settle(p) PROVE row'[r] = row[r]
    BY <2>2, <2>3 DEF Settle, Typed, TypeOK
  <2>4. ASSUME NEW q \in Reqs, Insert(q) PROVE row'[r] = row[r]
    BY <1>2, <2>4 DEF Insert, Typed, TypeOK
  <2> QED
    BY <2>1, <2>3, <2>4, RowFrame
<1>3. ASSUME NEW r \in Reqs, handler'[r] \in {"idle", "insert", "register"}
      PROVE  r \notin waiters' /\ ch'[r] = Nothing
  <2>1. handler[r] \in {"idle", "insert", "register"}
    <3>1. CASE handler' = handler
      BY <1>3, <3>1
    <3>2. ASSUME NEW q \in Reqs, Ask(q) \/ HandlerStep(q) \/ HookTimeout(q)
          PROVE  handler[r] \in {"idle", "insert", "register"}
      BY <1>3, <3>2 DEF Ask, HandlerStep, HookTimeout, Refuse, Insert, Register, Announce,
                        Answer, GiveUp, AnswerCancelled, Respond, Fresh, Typed, TypeOK
    <3>3. CASE Restart
      BY <1>3, <3>3 DEF Restart
    <3> QED
      BY <3>1, <3>2, <3>3, HookFrame
  <2>2. r \notin waiters /\ ch[r] = Nothing
    BY <2>1 DEF Fresh
  <2>3. ASSUME NEW p \in Procs, Deliver(p) PROVE r \notin waiters' /\ ch'[r] = Nothing
    BY <2>2, <2>3 DEF Deliver, Typed, TypeOK
  <2>4. ASSUME NEW q \in Reqs, Register(q) PROVE r \notin waiters' /\ ch'[r] = Nothing
    BY <1>3, <2>2, <2>4 DEF Register, Typed, TypeOK
  <2>5. CASE Restart
    BY <2>5 DEF Restart
  <2> QED
    BY <2>2, <2>3, <2>4, <2>5, ChannelFrame
<1> QED
  BY <1>1, <1>2, <1>3 DEF Fresh

LEMMA WaiterStep ==
    ASSUME Typed, Fresh, WaiterChannelEmpty, [Next]_vars
    PROVE  WaiterChannelEmpty'
<1> DEFINE Served == {"announce", "parked", "cancelling", "gone"}
<1> SUFFICES ASSUME NEW r \in waiters'
             PROVE  ch'[r] = Nothing /\ handler'[r] \in Served
  BY DEF WaiterChannelEmpty
<1>0. r \in Reqs
  BY NextTyped DEF Typed, TypeOK
<1>1. ASSUME NEW q \in Reqs, Register(q) PROVE ch'[r] = Nothing /\ handler'[r] \in Served
  BY <1>0, <1>1 DEF Register, Fresh, WaiterChannelEmpty, Typed, TypeOK
<1>2. CASE Restart
  BY <1>2 DEF Restart
<1>3. ASSUME r \in waiters, ch'[r] = Nothing PROVE handler'[r] \in Served
  <2>1. handler[r] \in Served
    BY <1>3 DEF WaiterChannelEmpty
  <2>2. CASE handler' = handler
    BY <2>1, <2>2
  <2>3. ASSUME NEW q \in Reqs, Ask(q) \/ HandlerStep(q) \/ HookTimeout(q)
        PROVE  handler'[r] \in Served
    BY <1>0, <2>1, <2>3 DEF Ask, HandlerStep, HookTimeout, Refuse, Insert, Register, Announce,
                Answer, GiveUp, AnswerCancelled, Respond, Fresh, Typed, TypeOK
  <2> QED
    BY <1>2, <2>2, <2>3, HookFrame
<1>4. CASE ch' = ch /\ waiters' = waiters
  BY <1>3, <1>4 DEF WaiterChannelEmpty
<1>5. ASSUME NEW p \in Procs, Deliver(p) PROVE ch'[r] = Nothing /\ handler'[r] \in Served
  <2>1. r \in waiters /\ r # call[p].id
    BY <1>5 DEF Deliver
  <2>2. ch'[r] = ch[r]
    BY <1>0, <1>5, <2>1 DEF Deliver, Typed, TypeOK
  <2> QED
    BY <1>3, <2>1, <2>2 DEF WaiterChannelEmpty
<1> QED
  BY <1>1, <1>2, <1>4, <1>5, ChannelFrame
-----------------------------------------------------------------------------
(* Calls.                                                                  *)

\* Only its own goroutine, or a restart, changes a call.
LEMMA OwnCall ==
    ASSUME Typed, [Next]_vars, NEW p \in Procs, call'[p] # call[p]
    PROVE  \/ \E r \in Reqs, d \in Submission : Begin(p, r, d) /\ row' = row
           \/ CallStep(p) \/ Abort(p)
           \/ Restart
<1>1. ASSUME NEW q \in Procs, NEW r \in Reqs, NEW d \in Submission, Begin(q, r, d)
      PROVE  p = q
  BY <1>1 DEF Begin, Typed, TypeOK
<1>2. ASSUME NEW q \in Procs, CallStep(q) \/ Abort(q)
      PROVE  p = q
  BY <1>2 DEF CallStep, Settle, Deliver, PublishDecision, Reconcile, Abort, Typed, TypeOK
<1> QED
  BY <1>1, <1>2, CallFrame

LEMMA CallSoundKept ==
    ASSUME Typed, RowsKept, NEW p \in Procs, CallSound(p), call'[p] = call[p]
    PROVE  CallSound(p)'
<1> DEFINE c == call[p]
<1>1. CASE c.pc \in {"deliver", "publish"}
  <2>1. c.id \in Reqs /\ row[c.id].state \in Terminal
    BY <1>1 DEF CallSound, Won
  <2>2. row'[c.id] = row[c.id]
    BY <2>1 DEF RowsKept
  <2> QED
    BY <1>1, <2>1, <2>2 DEF CallSound, Acknowledged, Won, Records, Applied, Overdue
<1>2. CASE c.pc = "done" /\ c.res \in {"ok", "expired", "replayed"}
  <2>1. c.id \in Reqs /\ row[c.id].state \in Terminal
    BY <1>2, RecordsTerminal DEF CallSound, Won, Acknowledged
  <2>2. row'[c.id] = row[c.id]
    BY <2>1 DEF RowsKept
  <2> QED
    BY <1>2, <2>1, <2>2 DEF CallSound, Acknowledged, Won, Records
<1>3. CASE c.pc \notin {"deliver", "publish"} /\ ~(c.pc = "done" /\ c.res \in {"ok", "expired", "replayed"})
  BY <1>3 DEF CallSound, Acknowledged, Won
<1> QED
  BY <1>1, <1>2, <1>3

LEMMA CallSoundStep ==
    ASSUME Typed, Fresh, CallsSound, [Next]_vars, NEW p \in Procs
    PROVE  CallSound(p)'
<1> DEFINE c == call[p]
<1>0. /\ RowsKept /\ CallSound(p)
      /\ call \in [Procs -> Call] /\ row \in [Reqs -> Row]
      /\ ~Free(p) => c.id \in Reqs /\ c.want \in Submission
  BY RowsKeptStep DEF CallsSound, Typed, CallsTyped, TypeOK
<1>1. CASE call'[p] = c
  BY <1>0, <1>1, CallSoundKept
<1>2. ASSUME NEW r \in Reqs, NEW d \in Submission, Begin(p, r, d), row' = row
      PROVE  CallSound(p)'
  <2>1. call'[p].pc \in {"settle", "reconcile"} \/ call'[p].res = "already"
    BY <1>0, <1>2 DEF Begin, Lost, InCall, Failure
  <2>2. call'[p].pc \in {"settle", "reconcile", "done"}
    BY <1>0, <1>2 DEF Begin, Lost, InCall, Failure
  <2> QED
    BY <2>1, <2>2 DEF CallSound, Acknowledged, Won
<1>3. CASE Settle(p)
  <2>0. c.id \in Reqs /\ c.want \in Submission
    BY <1>0, <1>3 DEF Settle, Free
  <2>1. CASE row[c.id].state = "pending"
    <3>1. /\ row'[c.id] = Decided(row[c.id], Applied(c), c.at)
          /\ call'[p] = InCall("deliver", c.id, c.want, c.at)
      BY <1>0, <1>3, <2>0, <2>1 DEF Settle
    <3>2. /\ row'[c.id].state = StateForVerdict[Applied(c).verdict]
          /\ row'[c.id].edited = Applied(c).input
          /\ row'[c.id].expires = row[c.id].expires
      BY <3>1 DEF Decided
    <3>3. /\ call'[p].pc = "deliver" /\ call'[p].id = c.id /\ call'[p].want = c.want
          /\ call'[p].at = c.at
      BY <3>1 DEF InCall
    <3>4. Applied(call[p])' = Applied(c)
      BY <3>2, <3>3 DEF Applied, Overdue
    <3>5. Records(call[p].id, Applied(call[p]))'
      BY <3>2, <3>3, <3>4 DEF Records
    <3>6. row'[c.id].state \in Terminal
      BY <2>0, <3>2, AppliedFact
    <3> QED
      BY <2>0, <3>3, <3>5, <3>6 DEF CallSound, Acknowledged, Won
  <2>2. CASE row[c.id].state # "pending"
    <3>1. call'[p].pc = "reconcile" \/ (call'[p].pc = "done" /\ call'[p].res = "already")
      BY <1>0, <1>3, <2>2 DEF Settle, Lost, InCall, Failure
    <3> QED
      BY <3>1 DEF CallSound, Acknowledged, Won
  <2> QED
    BY <2>1, <2>2
<1>4. CASE Deliver(p)
  <2>1. /\ call'[p].pc = "publish" /\ call'[p].id = c.id /\ call'[p].want = c.want
        /\ call'[p].at = c.at /\ row' = row
    BY <1>0, <1>4 DEF Deliver, InCall
  <2> QED
    BY <1>0, <1>4, <2>1 DEF Deliver, CallSound, Acknowledged, Won, Records, Applied, Overdue
<1>5. CASE PublishDecision(p)
  <2>0. c.id \in Reqs /\ c.want \in Submission /\ row' = row /\ c.pc = "publish"
    BY <1>0, <1>5 DEF PublishDecision, Free
  <2>1. /\ call'[p].pc = "done" /\ call'[p].id = c.id /\ call'[p].want = c.want
        /\ call'[p].res = IF Overdue(c) THEN "expired" ELSE "ok"
    BY <1>0, <1>5 DEF PublishDecision, Success
  <2>2. row[c.id].state \in Terminal
    BY <1>0, <2>0 DEF CallSound, Won
  <2>3. ~Overdue(c) => Records(c.id, c.want)
    BY <1>0, <2>0 DEF CallSound, Applied
  <2>4. Overdue(c) => row[c.id].state = "expired"
    BY <1>0, <2>0 DEF CallSound, Applied, Records, Plain, StateForVerdict, Verdicts
  <2> QED
    BY <2>0, <2>1, <2>2, <2>3, <2>4 DEF CallSound, Acknowledged, Won, Records
<1>6. CASE Reconcile(p)
  <2>0. c.id \in Reqs /\ c.want \in Submission /\ row' = row
    BY <1>0, <1>6 DEF Reconcile, Free
  <2>1. CASE Records(c.id, c.want)
    <3>1. /\ call'[p].pc = "done" /\ call'[p].id = c.id /\ call'[p].want = c.want
          /\ call'[p].res = "replayed"
      BY <1>0, <1>6, <2>1 DEF Reconcile, Success
    <3> QED
      BY <2>0, <2>1, <3>1 DEF CallSound, Acknowledged, Won, Records
  <2>2. CASE ~Records(c.id, c.want)
    <3>1. call'[p].pc = "done" /\ call'[p].res = "already"
      BY <1>0, <1>6, <2>2 DEF Reconcile, Failure
    <3> QED
      BY <3>1 DEF CallSound, Acknowledged, Won
  <2> QED
    BY <2>1, <2>2
<1>7. CASE Abort(p)
  <2>1. call'[p].pc = "done" /\ call'[p].res = "error"
    BY <1>0, <1>7 DEF Abort, Failure
  <2> QED
    BY <2>1 DEF CallSound, Acknowledged, Won
<1>8. CASE Restart
  <2>1. call'[p].pc = "idle"
    BY <1>8 DEF Restart, IdleCall
  <2> QED
    BY <2>1 DEF CallSound, Acknowledged, Won
<1> QED
  BY <1>1, <1>2, <1>3, <1>4, <1>5, <1>6, <1>7, <1>8, OwnCall DEF CallStep

\* The only way to become a winner is the UPDATE of a pending row.
LEMMA NewWinner ==
    ASSUME Typed, [Next]_vars, NEW p \in Procs, Won(p)'
    PROVE  /\ call'[p].id = call[p].id
           /\ Won(p) \/ (/\ Settle(p) /\ row[call[p].id].state = "pending"
                         /\ call[p].pc = "settle" /\ call'[p].pc = "deliver")
<1> DEFINE c == call[p]
<1>0. call \in [Procs -> Call]
  BY DEF Typed, TypeOK
<1>1. CASE call'[p] = c
  BY <1>1 DEF Won
<1>2. ASSUME NEW r \in Reqs, NEW d \in Submission, Begin(p, r, d)
      PROVE  FALSE
  <2>1. call'[p].pc \in {"settle", "reconcile"} \/ (call'[p].pc = "done" /\ call'[p].res = "already")
    BY <1>0, <1>2 DEF Begin, Lost, InCall, Failure
  <2> QED
    BY <2>1 DEF Won
<1>3. CASE Settle(p)
  <2>1. CASE row[c.id].state = "pending"
    BY <1>0, <1>3, <2>1 DEF Settle, InCall
  <2>2. CASE row[c.id].state # "pending"
    <3>1. call'[p].pc = "reconcile" \/ (call'[p].pc = "done" /\ call'[p].res = "already")
      BY <1>0, <1>3, <2>2 DEF Settle, Lost, InCall, Failure
    <3> QED
      BY <3>1 DEF Won
  <2> QED
    BY <2>1, <2>2
<1>4. CASE Deliver(p)
  BY <1>0, <1>4 DEF Deliver, InCall, Won
<1>5. CASE PublishDecision(p)
  BY <1>0, <1>5 DEF PublishDecision, Success, Won
<1>6. CASE Reconcile(p) \/ Abort(p)
  <2>1. call'[p].pc = "done" /\ call'[p].res \in {"replayed", "already", "error"}
    BY <1>0, <1>6 DEF Reconcile, Abort, Success, Failure
  <2> QED
    BY <2>1 DEF Won
<1>7. CASE Restart
  BY <1>7 DEF Restart, IdleCall, Won
<1> QED
  BY <1>1, <1>2, <1>3, <1>4, <1>5, <1>6, <1>7, OwnCall DEF CallStep

LEMMA OneWinnerStep ==
    ASSUME Typed, CallsSound, OneWinner, [Next]_vars
    PROVE  OneWinner'
<1> SUFFICES ASSUME NEW p \in Procs, NEW q \in Procs, Won(p)', Won(q)',
                    call'[p].id = call'[q].id, p # q
             PROVE  FALSE
  BY DEF OneWinner
<1>1. call[p].id = call[q].id
  BY NewWinner
<1>2. ~(Won(p) /\ Won(q))
  BY <1>1 DEF OneWinner
<1>3. ASSUME NEW a \in Procs, NEW b \in Procs, Won(a), Won(b)', ~Won(b),
             call[a].id = call[b].id
      PROVE  FALSE
  <2>1. row[call[b].id].state = "pending"
    BY <1>3, NewWinner
  <2>2. row[call[a].id].state \in Terminal
    BY <1>3 DEF CallsSound, CallSound
  <2> QED
    BY <1>3, <2>1, <2>2 DEF Terminal
<1>4. CASE ~Won(p) /\ ~Won(q)
  <2>1. Settle(p) /\ call[q].pc = "settle" /\ call'[q].pc = "deliver"
    BY <1>4, NewWinner
  <2>2. call'[q] = call[q]
    BY <2>1 DEF Settle, Typed, TypeOK
  <2> QED
    BY <2>1, <2>2
<1> QED
  BY <1>1, <1>2, <1>3, <1>4
-----------------------------------------------------------------------------
(* Rows, channels and hooks.                                               *)

\* An event that tells its row's outcome goes on to do so.
LEMMA TellsKept ==
    ASSUME RowsKept, NEW e \in Event, TellsRow(e)
    PROVE  TellsRow(e)'
BY DEF RowsKept, TellsRow, Event, Terminal

\* What is published with a decision is what was recorded.
LEMMA PublishedTells ==
    ASSUME Typed, CallsSound, NEW p \in Procs, PublishDecision(p)
    PROVE  \E e \in Event : TellsRow(e) /\ feed' = Published(e)
<1> DEFINE c == call[p]
           e == [type |-> IF Applied(c).verdict = "expired" THEN "expired" ELSE "decided",
                 id |-> c.id]
<1>1. c.pc = "publish" /\ feed' = Published(e)
  BY DEF PublishDecision
<1>2. c.id \in Reqs /\ c.want \in Submission
  BY <1>1 DEF Typed, CallsTyped, Free
<1>3. Applied(c) \in Submission /\ Applied(c).verdict \in Verdicts
  BY <1>2, AppliedFact, DecisionFacts
<1>4. row[c.id].state = StateForVerdict[Applied(c).verdict]
  BY <1>1 DEF CallsSound, CallSound, Records
<1>5. e \in Event /\ e.id = c.id
      /\ e.type = IF Applied(c).verdict = "expired" THEN "expired" ELSE "decided"
  BY <1>2 DEF Event
<1>6. TellsRow(e)
  BY <1>3, <1>4, <1>5 DEF TellsRow, StateForVerdict, Verdicts, Terminal
<1> QED
  BY <1>1, <1>5, <1>6

\* Channels of subscribers lose events, or get one that was published.
LEMMA PublishFrame ==
    ASSUME Typed, CallsSound, [Next]_vars
    PROVE  \/ feed' = feed
           \/ \E e \in Event : TellsRow(e) /\ feed' = Published(e)
           \/ \E s \in Subs : feed[s] # <<>> /\ feed' = [feed EXCEPT ![s] = Tail(@)]
           \/ \E s \in Subs : feed' = [feed EXCEPT ![s] = <<>>]
           \/ feed' = [s \in Subs |-> <<>>]
<1>1. ASSUME NEW r \in Reqs, Announce(r)
      PROVE  \E e \in Event : TellsRow(e) /\ feed' = Published(e)
  BY <1>1 DEF Announce, TellsRow, Event
<1>2. ASSUME NEW r \in Reqs, Ask(r) \/ HandlerStep(r) \/ HookTimeout(r), ~Announce(r)
      PROVE  feed' = feed
  BY <1>2 DEF Ask, HandlerStep, HookTimeout, Refuse, Insert, Register, Answer, GiveUp,
              AnswerCancelled
<1>3. ASSUME NEW p \in Procs, CallStep(p) \/ Abort(p), ~PublishDecision(p)
      PROVE  feed' = feed
  BY <1>3 DEF CallStep, Abort, Settle, Deliver, Reconcile
<1>4. ASSUME NEW p \in Deciders, NEW r \in Reqs, NEW d \in UserSubmission, Decide(p, r, d)
      PROVE  feed' = feed
  BY <1>4 DEF Decide
<1>5. ASSUME NEW p \in Sweepers, SweepSelect(p) \/ SweepNext(p) \/ SweepAbort(p)
      PROVE  feed' = feed
  BY <1>5 DEF SweepSelect, SweepNext, SweepAbort
<1>6. CASE Tick \/ Shutdown \/ UNCHANGED vars
  BY <1>6 DEF Tick, Shutdown, vars
<1>7. ASSUME NEW s \in Subs, Subscribe(s) \/ Unsubscribe(s) \/ Take(s)
      PROVE  \/ feed[s] # <<>> /\ feed' = [feed EXCEPT ![s] = Tail(@)]
             \/ feed' = [feed EXCEPT ![s] = <<>>]
  BY <1>7 DEF Subscribe, Unsubscribe, Take
<1>8. CASE Restart
  BY <1>8 DEF Restart
<1> QED
  BY <1>1, <1>2, <1>3, <1>4, <1>5, <1>6, <1>7, <1>8, PublishedTells
     DEF Next, QueueNext, SubscriberNext

\* What is in a channel after a step was there before, or has just been published.
LEMMA FeedOrigin ==
    ASSUME Typed, CallsSound, [Next]_vars, NEW s \in Subs, NEW i \in 1..Len(feed'[s])
    PROVE  \/ \E k \in 1..Len(feed[s]) : feed'[s][i] = feed[s][k]
           \/ feed'[s][i] \in Event /\ TellsRow(feed'[s][i])
<1>0. feed \in [Subs -> Seq(Event)] /\ feed[s] \in Seq(Event)
  BY DEF Typed, TypeOK
<1>1. CASE feed'[s] = feed[s]
  BY <1>0, <1>1
<1>2. ASSUME NEW e \in Event, TellsRow(e), feed' = Published(e)
      PROVE  \/ \E k \in 1..Len(feed[s]) : feed'[s][i] = feed[s][k]
             \/ feed'[s][i] \in Event /\ TellsRow(feed'[s][i])
  <2>1. feed'[s] = feed[s] \/ feed'[s] = Append(feed[s], e) \/ feed'[s] = Append(Tail(feed[s]), e)
    BY <1>2 DEF Published, Push
  <2>2. CASE feed'[s] = Append(feed[s], e)
    <3>1. i \in 1..Len(feed[s]) \/ feed'[s][i] = e
      BY <1>0, <2>2
    <3>2. i \in 1..Len(feed[s]) => feed'[s][i] = feed[s][i]
      BY <1>0, <2>2
    <3> QED
      BY <1>2, <3>1, <3>2
  <2>3. CASE feed'[s] = Append(Tail(feed[s]), e) /\ feed[s] # <<>>
    <3>1. Tail(feed[s]) \in Seq(Event) /\ Len(Tail(feed[s])) = Len(feed[s]) - 1
          /\ \A k \in 1..Len(Tail(feed[s])) : Tail(feed[s])[k] = feed[s][k + 1]
      BY <1>0, <2>3
    <3>2. i \in 1..Len(Tail(feed[s])) \/ feed'[s][i] = e
      BY <2>3, <3>1
    <3>3. i \in 1..Len(Tail(feed[s])) => i + 1 \in 1..Len(feed[s]) /\ feed'[s][i] = feed[s][i + 1]
      BY <1>0, <2>3, <3>1
    <3> QED
      BY <1>2, <3>2, <3>3
  <2>4. CASE feed[s] = <<>>
    <3>1. Len(feed[s]) < SubCap
      BY <2>4, ConstantsAssumption
    <3> QED
      BY <1>1, <1>2, <2>2, <3>1 DEF Published, Push
  <2> QED
    BY <1>1, <2>1, <2>2, <2>3, <2>4
<1>3. CASE feed'[s] = <<>>
  BY <1>3
<1>4. CASE feed[s] # <<>> /\ feed'[s] = Tail(feed[s])
  <2>1. i + 1 \in 1..Len(feed[s]) /\ feed'[s][i] = feed[s][i + 1]
    BY <1>0, <1>4
  <2> QED
    BY <2>1
<1> QED
  BY <1>0, <1>1, <1>2, <1>3, <1>4, PublishFrame

LEMMA OutcomeStep ==
    ASSUME Typed, CallsSound, CallsSound', OneOutcomeTold, RowsKept, [Next]_vars
    PROVE  OneOutcomeTold'
<1>0. feed \in [Subs -> Seq(Event)]
  BY DEF Typed, TypeOK
<1>1. ASSUME NEW s \in Subs, NEW i \in 1..Len(feed'[s])
      PROVE  TellsRow(feed[s][i])'
  <2>1. feed'[s][i] \in Event /\ TellsRow(feed'[s][i])
    BY <1>0, FeedOrigin DEF OneOutcomeTold
  <2>2. PICK e \in Event : e = feed'[s][i] /\ TellsRow(e)
    BY <2>1
  <2>3. TellsRow(e)'
    BY <2>2, TellsKept
  <2> QED
    BY <2>2, <2>3 DEF TellsRow
<1> QED
  BY <1>1 DEF OneOutcomeTold, CallsSound, CallSound

LEMMA ChannelStep ==
    ASSUME Typed, Fresh, CallsSound, ChannelRecords, [Next]_vars
    PROVE  ChannelRecords'
<1> SUFFICES ASSUME NEW r \in Reqs, ch'[r] # Nothing
             PROVE  Records(r, ch[r])'
  BY DEF ChannelRecords
<1>0. RowsKept
  BY RowsKeptStep
<1>1. CASE ch'[r] = ch[r]
  <2>1. ch[r] \in Decision /\ Records(r, ch[r])
    BY <1>1 DEF ChannelRecords, Typed, TypeOK
  <2>2. PICK d \in Decision : d = ch[r]
    BY <2>1
  <2>3. Records(r, d)'
    BY <1>0, <2>1, <2>2, RecordsKept
  <2> QED
    BY <1>1, <2>2, <2>3 DEF Records
<1>2. ASSUME NEW p \in Procs, Deliver(p), ch'[r] # ch[r]
      PROVE  Records(r, ch[r])'
  <2>1. r = call[p].id /\ ch'[r] = Handed(Applied(call[p])) /\ row' = row
    BY <1>2 DEF Deliver, Typed, TypeOK
  <2>2. Records(r, Applied(call[p]))
    BY <1>2, <2>1 DEF Deliver, CallsSound, CallSound
  <2>3. Records(r, Handed(Applied(call[p])))
    BY <2>2 DEF Records, Handed, Plain
  <2> QED
    BY <2>1, <2>3 DEF Records
<1>3. CASE Restart
  BY <1>3 DEF Restart
<1>4. ASSUME NEW q \in Reqs, Register(q) PROVE ch' = ch
  BY <1>4 DEF Register
<1> QED
  BY <1>1, <1>2, <1>3, <1>4, ChannelFrame

LEMMA AnswerStep ==
    ASSUME Typed, Fresh, ChannelRecords, AnswerMatchesRow, [Next]_vars
    PROVE  AnswerMatchesRow'
<1> DEFINE V == UserVerdict \cup {"expired"}
<1> SUFFICES ASSUME NEW r \in Reqs, hook'[r].verdict \in V
             PROVE  Records(r, hook[r])'
  BY DEF AnswerMatchesRow
<1>0. RowsKept /\ hook \in [Reqs -> HookView]
  BY RowsKeptStep DEF Typed, TypeOK
<1>1. \A v \in {"idle", "waiting", "timeout", "eof", "cancelled"} : Plain(v).verdict \notin V
  BY DEF Plain, UserVerdict
<1>2. ASSUME NEW d \in Decision, Records(r, d), hook'[r] = d
      PROVE  Records(r, hook[r])'
  <2>1. Records(r, d)'
    BY <1>0, <1>2, RecordsKept
  <2> QED
    BY <1>2, <2>1 DEF Records
<1>3. CASE hook'[r] = hook[r]
  <2>1. Records(r, hook[r])
    BY <1>3 DEF AnswerMatchesRow
  <2>2. hook[r] \in Decision
    BY <1>0, <1>1, <1>3 DEF HookView
  <2> QED
    BY <1>2, <1>3, <2>1, <2>2
<1>4. ASSUME NEW q \in Reqs, Ask(q) \/ HookTimeout(q), hook'[r] # hook[r]
      PROVE  FALSE
  BY <1>0, <1>1, <1>4 DEF Ask, HookTimeout
<1>5. ASSUME NEW q \in Reqs, HandlerStep(q), hook'[r] # hook[r]
      PROVE  Records(r, hook[r])'
  <2>1. CASE Refuse(q) \/ AnswerCancelled(q)
    BY <1>0, <1>1, <1>5, <2>1 DEF Refuse, AnswerCancelled, Respond
  <2>2. CASE Answer(q)
    <3>1. q = r /\ hook'[r] = ch[r] /\ ch[r] # Nothing
      BY <1>0, <1>5, <2>2 DEF Answer, Respond
    <3>2. ch[r] \in Decision /\ Records(r, ch[r])
      BY <3>1 DEF ChannelRecords, Typed, TypeOK
    <3> QED
      BY <1>2, <3>1, <3>2
  <2>3. CASE Insert(q) \/ Register(q) \/ Announce(q) \/ GiveUp(q)
    BY <1>5, <2>3 DEF Insert, Register, Announce, GiveUp
  <2> QED
    BY <1>5, <2>1, <2>2, <2>3 DEF HandlerStep
<1>6. CASE Restart
  <2>1. hook'[r] = hook[r] \/ hook'[r] = Plain("eof")
    BY <1>6 DEF Restart
  <2> QED
    BY <1>1, <1>3, <2>1
<1> QED
  BY <1>3, <1>4, <1>5, <1>6, HookFrame
-----------------------------------------------------------------------------
(* The inductive invariant and what follows from it.                       *)

LEMMA InitInv == Init => IInv
<1> SUFFICES ASSUME Init PROVE IInv
  OBVIOUS
<1>1. Typed
  BY InitTyped
<1>2. Fresh /\ WaiterChannelEmpty /\ ChannelRecords
  BY DEF Init, Fresh, WaiterChannelEmpty, ChannelRecords, AbsentRow
<1>5. OneOutcomeTold
  BY DEF Init, OneOutcomeTold, IdleCall
<1>3. CallsSound /\ OneWinner
  BY DEF Init, CallsSound, CallSound, OneWinner, Won, Acknowledged, IdleCall
<1>4. AnswerMatchesRow
  BY DEF Init, AnswerMatchesRow, UserVerdict, Plain
<1> QED
  BY <1>1, <1>2, <1>3, <1>4, <1>5 DEF IInv

LEMMA NextInv == IInv /\ [Next]_vars => IInv'
<1> SUFFICES ASSUME IInv, [Next]_vars PROVE IInv'
  OBVIOUS
<1>1. Typed' /\ Fresh' /\ WaiterChannelEmpty'
  BY NextTyped, FreshStep, WaiterStep DEF IInv
<1>2. CallsSound'
  BY CallSoundStep DEF IInv, CallsSound
<1>3. OneWinner' /\ ChannelRecords' /\ AnswerMatchesRow'
  BY OneWinnerStep, ChannelStep, AnswerStep DEF IInv
<1>4. OneOutcomeTold'
  BY <1>2, OutcomeStep, RowsKeptStep DEF IInv
<1> QED
  BY <1>1, <1>2, <1>3, <1>4 DEF IInv

LEMMA AlwaysInv == Spec => []IInv
BY InitInv, NextInv, PTL DEF Spec

(* A hook is only ever told what the approvals table records.              *)
THEOREM AnswersAreRecorded == Spec => []AnswerMatchesRow
<1>1. IInv => AnswerMatchesRow
  BY DEF IInv
<1> QED
  BY <1>1, AlwaysInv, PTL

(* Subscribers and users are told the outcome on record, whenever the      *)
(* deadline passes and whoever wins.                                       *)
THEOREM OutcomeIsShared == Spec => []OneOutcomeTold
<1>1. IInv => OneOutcomeTold
  BY DEF IInv
<1> QED
  BY <1>1, AlwaysInv, PTL

(* A caller that got a success for its decision, first or replayed, finds  *)
(* exactly that decision on record, so two such callers agree.             *)
THEOREM AcknowledgedIsRecorded == Spec => []AcksAgree
<1>1. IInv => AcksAgree
  BY ProcsFact DEF IInv, CallsSound, CallSound, AcksAgree
<1> QED
  BY <1>1, AlwaysInv, PTL

(* Of all goroutines that try to settle one approval, one does.            *)
THEOREM SettledOnce == Spec => []OneWinner
<1>1. IInv => OneWinner
  BY DEF IInv
<1> QED
  BY <1>1, AlwaysInv, PTL

(* The send on a waiter's channel never blocks and its close never panics. *)
THEOREM DeliveryNeverBlocks == Spec => []WaiterChannelEmpty
<1>1. IInv => WaiterChannelEmpty
  BY DEF IInv
<1> QED
  BY <1>1, AlwaysInv, PTL

(* A decided row never changes again and a deadline never moves, across    *)
(* races and restarts of the daemon.                                       *)
THEOREM TerminalRowsFinal == Spec => TerminalFinal
<1>1. IInv /\ [Next]_vars => [RowsKept]_vars
  BY RowsKeptStep DEF IInv
<1>2. Spec => [][RowsKept]_vars
  BY <1>1, AlwaysInv, PTL DEF Spec
<1> QED
  BY <1>2, PTL DEF TerminalFinal, RowsKept
-----------------------------------------------------------------------------
(* The queue implements ApprovalSpec: each step maps to one step of the    *)
(* one-decision specification or to a stutter.                             *)

(* The two directions of the verdict tables.                               *)
LEMMA TablesInverse ==
    \A d \in Decision \cup Submission :
        /\ VerdictForState[StateForVerdict[d.verdict]] = d.verdict
        /\ StateForVerdict[d.verdict] = "edited" <=> d.verdict = "edited"
<1>1. \A v \in Verdicts : /\ VerdictForState[StateForVerdict[v]] = v
                          /\ StateForVerdict[v] = "edited" <=> v = "edited"
  BY DEF Verdicts, StateForVerdict, VerdictForState, Terminal
<1> QED
  BY <1>1, DecisionFacts

LEMMA DecisionForm ==
    \A d \in Decision : d = [verdict |-> d.verdict, input |-> d.input]
BY DEF Decision, Plain, Edit

LEMMA PlainInput ==
    ASSUME NEW d \in Decision, d.verdict # "edited"
    PROVE  d.input = NoEdit
BY DEF Decision, Plain, Edit

LEMMA RecordedFact ==
    ASSUME NEW r \in Reqs, NEW d \in Decision, Records(r, d)
    PROVE  Recorded(r) = d
<1>1. /\ VerdictForState[row[r].state] = d.verdict
      /\ row[r].state = "edited" <=> d.verdict = "edited"
  BY TablesInverse DEF Records
<1>2. (IF row[r].state = "edited" THEN row[r].edited ELSE NoEdit) = d.input
  <2>1. CASE d.verdict = "edited"
    BY <1>1, <2>1 DEF Records
  <2>2. CASE d.verdict # "edited"
    BY <1>1, <2>2, PlainInput
  <2> QED
    BY <2>1, <2>2
<1>3. Recorded(r) = [verdict |-> d.verdict, input |-> d.input]
  BY <1>1, <1>2 DEF Recorded
<1> QED
  BY <1>3, DecisionForm

LEMMA DecisionOutcomes == Decision = Abs!Outcomes
<1> DEFINE A == {Plain(v) : v \in Verdicts \ {"edited"}}
           B == [verdict : {"approve", "deny", "expired", "cancelled"}, input : {NoEdit}]
<1>1. ASSUME NEW v \in Verdicts \ {"edited"} PROVE Plain(v) \in B
  BY DEF Plain, Verdicts
<1>2. ASSUME NEW d \in B PROVE d \in A
  <2>1. d.verdict \in Verdicts \ {"edited"} /\ d.input = NoEdit
    BY DEF Verdicts
  <2>2. d = [verdict |-> d.verdict, input |-> d.input]
    OBVIOUS
  <2>3. d = Plain(d.verdict)
    BY <2>1, <2>2 DEF Plain
  <2> QED
    BY <2>1, <2>3
<1>3. A \subseteq B
  BY <1>1
<1>4. B \subseteq A
  BY <1>2
<1>5. A = B
  BY <1>3, <1>4
<1>6. Decision = A \cup Edit
  BY DEF Decision
<1>7. Abs!Outcomes = B \cup Edit
  BY DEF Abs!Outcomes, Edit
<1> QED
  BY <1>5, <1>6, <1>7

LEMMA UndecidedForm ==
    ASSUME NEW r \in Reqs
    PROVE  /\ row[r].state = "absent" => Recorded(r) = Abs!None
           /\ row[r].state = "pending" => Recorded(r) = Abs!Open
BY DEF Recorded, VerdictForState, Abs!None, Abs!Open

LEMMA LearnedForm ==
    ASSUME Typed, NEW r \in Reqs
    PROVE  /\ hook[r] \in {Plain("idle"), Plain("waiting")} => Learned(r) = Abs!Silent
           /\ hook[r] \in {Plain("timeout"), Plain("eof"), Plain("cancelled")}
                => Learned(r) = Abs!Abandoned
           /\ hook[r] \in Decision /\ hook[r] # Plain("cancelled") => Learned(r) = hook[r]
<1>1. hook[r] \in Decision /\ hook[r] # Plain("cancelled")
        => hook[r].verdict \notin {"idle", "waiting", "timeout", "eof", "cancelled"}
  BY DEF Decision, Plain, Edit, Verdicts
<1> QED
  BY <1>1 DEF Learned, Plain, Abs!Silent, Abs!Abandoned
-----------------------------------------------------------------------------
(* Each kind of step.                                                      *)

\* A step that changes no row, and maps some waiting hooks to abandoned ones.
LEMMA AbandonMaps ==
    ASSUME Typed, row' = row, NEW S \in SUBSET Reqs,
           \A r \in S : Learned(r) = Abs!Silent /\ Learned(r)' = Abs!Abandoned,
           \A r \in Reqs \ S : Learned(r)' = Learned(r)
    PROVE  Abs!SpecNext
<1>1. [r \in Reqs |-> Recorded(r)]' = [r \in Reqs |-> Recorded(r)]
  BY DEF Recorded
<1>2. [r \in Reqs |-> Learned(r)]'
        = [r \in Reqs |-> IF r \in S THEN Abs!Abandoned ELSE Learned(r)]
  OBVIOUS
<1>3. Abs!Abandon(S)
  BY <1>1, <1>2 DEF Abs!Abandon
<1> QED
  BY <1>3 DEF Abs!SpecNext

LEMMA HookSteps ==
    ASSUME IInv, Typed', [Next]_vars, row' = row
    PROVE  Abs!SpecNext \/ UNCHANGED Abs!specVars
<1>0. Typed /\ hook \in [Reqs -> HookView] /\ hook' \in [Reqs -> HookView]
  BY DEF IInv, Typed, TypeOK
<1>1. ASSUME hook' = hook PROVE UNCHANGED Abs!specVars
  BY <1>1 DEF Abs!specVars, Recorded, Learned
<1>2. ASSUME NEW r \in Reqs, NEW d \in {Plain("timeout"), Plain("eof"), Plain("cancelled")},
             hook[r] \in {Plain("idle"), Plain("waiting")},
             hook' = [hook EXCEPT ![r] = d]
      PROVE  Abs!SpecNext
  <2>1. Learned(r) = Abs!Silent
    BY <1>0, <1>2, LearnedForm
  <2>2. Learned(r)' = Abs!Abandoned
    BY <1>0, <1>2 DEF Learned, Plain, Abs!Abandoned
  <2>3. \A q \in Reqs \ {r} : Learned(q)' = Learned(q)
    BY <1>0, <1>2 DEF Learned
  <2> DEFINE S == {r}
  <2>4. /\ \A q \in S : Learned(q) = Abs!Silent /\ Learned(q)' = Abs!Abandoned
        /\ \A q \in Reqs \ S : Learned(q)' = Learned(q)
        /\ S \in SUBSET Reqs
    BY <2>1, <2>2, <2>3
  <2> HIDE DEF S
  <2> QED
    BY <1>0, <2>4, AbandonMaps
<1>3. ASSUME NEW r \in Reqs, hook[r] = Plain("idle"),
             hook' = [hook EXCEPT ![r] = Plain("waiting")]
      PROVE  UNCHANGED Abs!specVars
  <2>1. Learned(r)' = Learned(r)
    <3>1. hook'[r] = Plain("waiting")
      BY <1>0, <1>3
    <3> QED
      BY <1>3, <3>1 DEF Learned, Plain
  <2>2. \A q \in Reqs \ {r} : Learned(q)' = Learned(q)
    BY <1>0, <1>3 DEF Learned
  <2> QED
    BY <2>1, <2>2 DEF Abs!specVars, Recorded
<1>4. ASSUME NEW r \in Reqs, Ask(r) PROVE Abs!SpecNext \/ UNCHANGED Abs!specVars
  BY <1>2, <1>3, <1>4 DEF Ask
<1>5. ASSUME NEW r \in Reqs, HookTimeout(r) PROVE Abs!SpecNext
  BY <1>2, <1>5 DEF HookTimeout
<1>6. ASSUME NEW r \in Reqs, Respond(r, Plain("cancelled"))
      PROVE  Abs!SpecNext \/ UNCHANGED Abs!specVars
  BY <1>1, <1>2, <1>6 DEF Respond
<1>7. ASSUME NEW r \in Reqs, Answer(r) PROVE Abs!SpecNext \/ UNCHANGED Abs!specVars
  <2>1. ch[r] \in Decision /\ Records(r, ch[r])
    BY <1>7 DEF Answer, IInv, ChannelRecords, Typed, TypeOK
  <2>2. CASE hook[r] # Plain("waiting")
    BY <1>1, <1>7, <2>2 DEF Answer, Respond
  <2>3. CASE hook[r] = Plain("waiting") /\ ch[r] = Plain("cancelled")
    BY <1>2, <1>7, <2>3 DEF Answer, Respond
  <2>4. CASE hook[r] = Plain("waiting") /\ ch[r] # Plain("cancelled")
    <3>1. Recorded(r) = ch[r] /\ ch[r] \in Abs!Outcomes
      BY <2>1, RecordedFact, DecisionOutcomes
    <3>2. hook' = [hook EXCEPT ![r] = ch[r]]
      BY <1>7, <2>4 DEF Answer, Respond
    <3>3. Learned(r) = Abs!Silent
      BY <1>0, <2>4, LearnedForm
    <3>4. Learned(r)' = ch[r]
      <4>1. hook'[r] = ch[r]
        BY <1>0, <3>2
      <4>2. ch[r].verdict \notin {"idle", "waiting", "timeout", "eof", "cancelled"}
        BY <2>1, <2>4 DEF Decision, Plain, Edit, Verdicts
      <4> QED
        BY <4>1, <4>2 DEF Learned
    <3>5. \A q \in Reqs \ {r} : Learned(q)' = Learned(q)
      BY <1>0, <3>2 DEF Learned
    <3>6. [q \in Reqs |-> Learned(q)]' = [[q \in Reqs |-> Learned(q)] EXCEPT ![r] = Recorded(r)]
      BY <3>1, <3>4, <3>5
    <3>7. [q \in Reqs |-> Recorded(q)]' = [q \in Reqs |-> Recorded(q)]
      BY DEF Recorded
    <3>8. Abs!Tell(r)
      BY <3>1, <3>3, <3>6, <3>7 DEF Abs!Tell
    <3> QED
      BY <3>8 DEF Abs!SpecNext
  <2> QED
    BY <2>2, <2>3, <2>4
<1>8. ASSUME NEW r \in Reqs, HandlerStep(r) PROVE Abs!SpecNext \/ UNCHANGED Abs!specVars
  <2>1. CASE Refuse(r) \/ AnswerCancelled(r)
    BY <1>6, <2>1 DEF Refuse, AnswerCancelled
  <2>2. CASE Insert(r) \/ Register(r) \/ Announce(r) \/ GiveUp(r)
    BY <1>1, <2>2 DEF Insert, Register, Announce, GiveUp
  <2> QED
    BY <1>7, <1>8, <2>1, <2>2 DEF HandlerStep
<1>9. CASE Restart
  <2> DEFINE S == {r \in Reqs : hook[r] = Plain("waiting")}
  <2>1. \A r \in S : Learned(r) = Abs!Silent /\ hook'[r] = Plain("eof")
    BY <1>0, <1>9, LearnedForm DEF Restart
  <2>2. \A r \in S : Learned(r)' = Abs!Abandoned
    BY <2>1 DEF Learned, Plain, Abs!Abandoned
  <2>3. \A r \in Reqs \ S : Learned(r)' = Learned(r)
    BY <1>9 DEF Restart, Learned
  <2> HIDE DEF S
  <2>4. S \in SUBSET Reqs
    BY DEF S
  <2> QED
    BY <1>0, <2>1, <2>2, <2>3, <2>4, AbandonMaps
<1> QED
  BY <1>1, <1>4, <1>5, <1>8, <1>9, HookFrame

LEMMA RowSteps ==
    ASSUME IInv, Typed', [Next]_vars, row' # row
    PROVE  Abs!SpecNext
<1>0. Typed /\ row \in [Reqs -> Row]
  BY DEF IInv, Typed, TypeOK
<1>1. ASSUME NEW r \in Reqs, NEW v, row' = [row EXCEPT ![r] = v]
      PROVE  [q \in Reqs |-> Recorded(q)]'
                = [[q \in Reqs |-> Recorded(q)] EXCEPT ![r] = Recorded(r)']
  <2>1. \A q \in Reqs \ {r} : Recorded(q)' = Recorded(q)
    BY <1>0, <1>1 DEF Recorded
  <2> QED
    BY <2>1
<1>2. ASSUME NEW r \in Reqs, Insert(r) PROVE Abs!SpecNext
  <2>1. row[r].state = "absent" /\ hook' = hook
    BY <1>2 DEF Insert, IInv, Fresh
  <2>2. row'[r].state = "pending" /\ row'[r].edited = NoEdit
    BY <1>0, <1>2 DEF Insert
  <2>3. Recorded(r) = Abs!None /\ Recorded(r)' = Abs!Open
    BY <1>0, <2>1, <2>2, UndecidedForm DEF Recorded, VerdictForState, Abs!Open
  <2>4. [q \in Reqs |-> Recorded(q)]'
          = [[q \in Reqs |-> Recorded(q)] EXCEPT ![r] = Abs!Open]
    BY <1>1, <1>2, <2>3 DEF Insert
  <2>5. [q \in Reqs |-> Learned(q)]' = [q \in Reqs |-> Learned(q)]
    BY <2>1 DEF Learned
  <2>6. Abs!OpenRequest(r)
    BY <2>3, <2>4, <2>5 DEF Abs!OpenRequest
  <2> QED
    BY <2>6 DEF Abs!SpecNext
<1>3. ASSUME NEW p \in Procs, Settle(p) PROVE Abs!SpecNext
  <2> DEFINE c == call[p]
             d == Handed(Applied(c))
  <2>1. c.id \in Reqs /\ c.want \in Submission
    BY <1>0, <1>3 DEF Settle, Free, Typed, CallsTyped
  <2>2. row[c.id].state = "pending" /\ row' = [row EXCEPT ![c.id] = Decided(@, Applied(c), c.at)]
    BY <1>3 DEF Settle
  <2>3. d \in Decision
    BY <2>1, AppliedFact
  <2>4. row'[c.id] = Decided(row[c.id], Applied(c), c.at)
    BY <1>0, <2>1, <2>2
  <2>5. Recorded(c.id) = Abs!Open
    BY <1>0, <2>1, <2>2, UndecidedForm
  <2>6. hook' = hook
    BY <1>3 DEF Settle
  <2>7. [q \in Reqs |-> Learned(q)]' = [q \in Reqs |-> Learned(q)]
    BY <2>6 DEF Learned
  <2>8. PICK r \in Reqs : r = c.id
    BY <2>1
  <2>9. PICK e \in Decision : e = d
    BY <2>3
  <2>10. [q \in Reqs |-> Recorded(q)]' = [[q \in Reqs |-> Recorded(q)] EXCEPT ![r] = e]
    <3> DEFINE w == Applied(c)
    <3>1. w \in Submission /\ e = Handed(w)
      BY <2>1, <2>9, AppliedFact
    <3>2. row'[r].state = StateForVerdict[w.verdict] /\ row'[r].edited = w.input
      BY <2>4, <2>8 DEF Decided
    <3>3. e.verdict = w.verdict /\ (w.verdict = "edited" => e = w)
      BY <3>1 DEF Handed, Plain
    <3> HIDE DEF w
    <3>4. /\ VerdictForState[row'[r].state] = e.verdict
          /\ row'[r].state = "edited" <=> e.verdict = "edited"
      <4>1. /\ VerdictForState[StateForVerdict[w.verdict]] = w.verdict
            /\ StateForVerdict[w.verdict] = "edited" <=> w.verdict = "edited"
        BY <3>1, TablesInverse
      <4> QED
        BY <3>2, <3>3, <4>1
    <3>5. (IF row'[r].state = "edited" THEN row'[r].edited ELSE NoEdit) = e.input
      <4>1. CASE e.verdict = "edited"
        BY <3>2, <3>3, <3>4, <4>1
      <4>2. CASE e.verdict # "edited"
        BY <3>4, <4>2, PlainInput
      <4> QED
        BY <4>1, <4>2
    <3>6. Recorded(r)' = [verdict |-> e.verdict, input |-> e.input]
      BY <3>4, <3>5 DEF Recorded
    <3>7. Recorded(r)' = e
      BY <3>6, DecisionForm
    <3> QED
      BY <1>1, <2>2, <2>8, <3>7
  <2>11. Abs!Settled(r, e)
    BY <2>5, <2>7, <2>8, <2>10 DEF Abs!Settled, Recorded
  <2>12. e \in Abs!Outcomes
    BY DecisionOutcomes
  <2> QED
    BY <2>11, <2>12 DEF Abs!SpecNext
<1> QED
  BY <1>2, <1>3, RowFrame

LEMMA InitMaps == Init => Abs!SpecInit
<1> SUFFICES ASSUME Init PROVE Abs!SpecInit
  OBVIOUS
<1>1. \A r \in Reqs : Recorded(r) = Abs!None
  BY DEF Init, Recorded, VerdictForState, AbsentRow, Abs!None
<1>2. \A r \in Reqs : Learned(r) = Abs!Silent
  BY DEF Init, Learned, Plain, Abs!Silent
<1> QED
  BY <1>1, <1>2 DEF Abs!SpecInit

(* The queue keeps its promise: one decision per request, and a hook that  *)
(* learns a decision learns that one.                                      *)
THEOREM QueueImplementsSpec == Spec => ImplementsSpec
<1>1. IInv /\ IInv' /\ [Next]_vars => [Abs!SpecNext]_(Abs!specVars)
  BY HookSteps, RowSteps DEF IInv
<1> QED
  BY <1>1, InitMaps, AlwaysInv, PTL DEF Spec, ImplementsSpec, Abs!Spec
=============================================================================
