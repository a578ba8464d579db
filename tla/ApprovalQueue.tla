---------------------------- MODULE ApprovalQueue ----------------------------
(***************************************************************************)
(* The approval queue of the daemon: internal/approval/queue.go and        *)
(* expiry.go, the intake handler that parks a hook on it                   *)
(* (internal/daemon/approvals.go, internal/intake/server.go) and the hook  *)
(* client itself (clients/onibi-notify/main.go).                           *)
(*                                                                         *)
(* A request r passes through one hook process, one daemon goroutine that  *)
(* serves it, one row of the approvals table and one in-memory waiter.     *)
(* Deciders (web POST handlers, chat bridges) and the expiry sweepers all  *)
(* end in Queue.Decide, which is split here where another goroutine can    *)
(* run in between: SELECT, UPDATE, delivery to the waiter, publication.    *)
(* SQLite statements are atomic (store.Open sets MaxOpenConns(1)).         *)
(***************************************************************************)
EXTENDS Integers, Sequences, FiniteSets

CONSTANTS
    Reqs,           \* approval ids: one hook invocation each
    Deciders,       \* goroutines that call DecideIdempotently for a user
    Sweepers,       \* goroutines in ExpireOverdue: the ticker's, the startup's
    Subs,           \* /ws/events connections and chat forwarders
    Edits,          \* contents of an edited tool input
    NoEdit,         \* "no edited_json", not in Edits
    NoReq,          \* "no approval id", not in Reqs
    TTL,            \* Queue.ttl
    Patience,       \* approvalRequestTimeout of onibi-notify
    MaxSubscribers, \* Queue.MaxSubscribers
    SubCap,         \* capacity of a subscriber channel (64 in the code)
    MaxTime,        \* bound: last instant of the modelled clock
    MaxRestarts     \* bound: number of daemon restarts

ASSUME ConstantsAssumption ==
    /\ TTL \in Nat \ {0} /\ Patience \in Nat
    /\ MaxTime \in Nat /\ MaxRestarts \in Nat
    /\ SubCap \in Nat \ {0} /\ MaxSubscribers \in Nat
    /\ NoEdit \notin Edits /\ NoReq \notin Reqs
    /\ Deciders \cap Sweepers = {}
    /\ Reqs \cap (Deciders \cup Sweepers) = {}
    /\ TTL <= MaxTime

VARIABLES
    now,        \* wall clock, in the seconds expires_at is stored in
    row,        \* the approvals table
    waiters,    \* keys of Queue.waiters
    ch,         \* content of each waiter's one-slot channel
    handler,    \* program counter of handleApprovalRequest, per request
    hook,       \* what the hook process of each request has been told
    asked,      \* when each hook wrote its request
    call,       \* the Decide call each goroutine is executing, or its result
    sweep,      \* ids an ExpireOverdue has selected and not yet decided
    subs,       \* keys of Queue.subscribers
    feed,       \* content of each subscriber channel
    stopping,   \* the daemon's context has been cancelled
    restarts

vars == <<now, row, waiters, ch, handler, hook, asked, call, sweep, subs, feed,
          stopping, restarts>>
-----------------------------------------------------------------------------
(* Decisions, rows, calls and events.                                      *)

Verdicts == {"approve", "deny", "edited", "expired", "cancelled"}

StateForVerdict ==
    [v \in Verdicts |-> CASE v = "approve" -> "approved"
                         [] v = "deny" -> "denied"
                         [] OTHER -> v]

Terminal == {"approved", "denied", "edited", "expired", "cancelled"}

Plain(v) == [verdict |-> v, input |-> NoEdit]

Edit == [verdict : {"edited"}, input : Edits]

Decision == {Plain(v) : v \in Verdicts \ {"edited"}} \cup Edit

\* What a user may submit: the handler passes edited_input along with any
\* verdict, and finish stores it.
UserSubmission == [verdict : {"approve", "deny"}, input : Edits \cup {NoEdit}] \cup Edit

Submission == UserSubmission \cup {Plain("expired"), Plain("cancelled")}

\* Mutant: UpdatedInput is set whatever the verdict.
HandedRaw(d) == d

\* The Decision made of a submission: only an edit updates the tool input.
Handed(d) == IF d.verdict = "edited" THEN d ELSE Plain(d.verdict)

UserVerdict == {"approve", "deny", "edited"}

Nothing == [verdict |-> "none", input |-> NoEdit]   \* empty channel, no decision

AbsentRow == [state |-> "absent", edited |-> NoEdit, expires |-> 0, decidedAt |-> 0]

IdleCall == [pc |-> "idle", id |-> NoReq, want |-> Nothing, at |-> 0, res |-> "none"]

Procs == Deciders \cup Sweepers \cup Reqs

Event == [type : {"requested", "decided", "expired"}, id : Reqs]

\* What a hook process has seen of its request: not started, blocked in
\* intake.Request, its own read deadline, the socket closed under it, or the
\* daemon's response.
HookView == Decision \cup {Plain(v) : v \in {"idle", "waiting", "timeout", "eof"}}

\* The row carries d; edited_json counts only for an edit.
Records(r, d) ==
    /\ row[r].state = StateForVerdict[d.verdict]
    /\ d.verdict = "edited" => row[r].edited = d.input

Row == [state : {"absent", "pending"} \cup Terminal, edited : Edits \cup {NoEdit},
        expires : 0..MaxTime, decidedAt : 0..MaxTime]

Call == [pc : {"idle", "settle", "deliver", "publish", "reconcile", "done"},
         id : Reqs \cup {NoReq}, want : Submission \cup {Nothing}, at : 0..MaxTime,
         res : {"none", "ok", "replayed", "already", "expired", "error"}]

TypeOK ==
    /\ now \in 0..MaxTime
    /\ row \in [Reqs -> Row]
    /\ waiters \subseteq Reqs
    /\ ch \in [Reqs -> Decision \cup {Nothing}]
    /\ handler \in [Reqs -> {"idle", "insert", "register", "announce", "parked",
                             "cancelling", "gone"}]
    /\ hook \in [Reqs -> HookView]
    /\ asked \in [Reqs -> 0..MaxTime]
    /\ call \in [Procs -> Call]
    /\ sweep \in [Sweepers -> SUBSET Reqs]
    /\ subs \subseteq Subs
    /\ feed \in [Subs -> Seq(Event)]
    /\ \A s \in Subs : Len(feed[s]) <= SubCap
    /\ stopping \in BOOLEAN
    /\ restarts \in 0..MaxRestarts
-----------------------------------------------------------------------------
(* Queue.Subscribe, unsub and publish.                                     *)

Subscribe(s) ==
    /\ s \notin subs
    /\ Cardinality(subs) < MaxSubscribers
    /\ subs' = subs \cup {s}
    /\ feed' = [feed EXCEPT ![s] = <<>>]
    /\ UNCHANGED <<now, row, waiters, ch, handler, hook, asked, call, sweep,
                   stopping, restarts>>

Unsubscribe(s) ==
    /\ s \in subs
    /\ subs' = subs \ {s}
    /\ feed' = [feed EXCEPT ![s] = <<>>]
    /\ UNCHANGED <<now, row, waiters, ch, handler, hook, asked, call, sweep,
                   stopping, restarts>>

\* The subscriber receives from its channel.
Take(s) ==
    /\ s \in subs /\ feed[s] # <<>>
    /\ feed' = [feed EXCEPT ![s] = Tail(@)]
    /\ UNCHANGED <<now, row, waiters, ch, handler, hook, asked, call, sweep,
                   subs, stopping, restarts>>

\* A full channel loses its oldest event.
Push(q, e) == Append(IF Len(q) < SubCap THEN q ELSE Tail(q), e)

Published(e) == [s \in Subs |-> IF s \in subs THEN Push(feed[s], e) ELSE feed[s]]
-----------------------------------------------------------------------------
(* Queue.DecideWithResult and DecideIdempotently, run by goroutine p.      *)

Free(p) == call[p].pc \in {"idle", "done"}

\* A user verdict that was read after expires_at is turned into an expiry.
Overdue(c) == c.want.verdict \in UserVerdict /\ row[c.id].expires <= c.at

Applied(c) == IF Overdue(c) THEN Plain("expired") ELSE c.want

\* A call returns: with the decision it stands for, or with an error.
Success(c, res) == [pc |-> "done", id |-> c.id, want |-> c.want, at |-> 0, res |-> res]
Failure(res) == [pc |-> "done", id |-> NoReq, want |-> Nothing, at |-> 0, res |-> res]

\* A call in progress that has the step pc before it.
InCall(pc, r, d, t) == [pc |-> pc, id |-> r, want |-> d, at |-> t, res |-> "none"]

\* ErrAlreadyDecided: DecideIdempotently reads the row again, Decide returns.
Lost(p, c) ==
    IF p \in Deciders THEN InCall("reconcile", c.id, c.want, 0) ELSE Failure("already")

\* now := time.Now(), then SELECT.
Begin(p, r, d) ==
    /\ Free(p)
    /\ LET c == InCall("settle", r, d, now)
       IN  call' = [call EXCEPT ![p] = IF row[r].state = "pending" THEN c ELSE Lost(p, c)]

Decided(old, d, t) ==
    [state |-> StateForVerdict[d.verdict], edited |-> d.input,
     expires |-> old.expires, decidedAt |-> t]

\* Mutant: UPDATE without AND state = 'pending'.
SettleUnguarded(p) ==
    LET c == call[p] IN
    /\ c.pc = "settle"
    /\ row' = [row EXCEPT ![c.id] = Decided(@, Applied(c), c.at)]
    /\ call' = [call EXCEPT ![p] = InCall("deliver", c.id, c.want, c.at)]
    /\ UNCHANGED <<now, waiters, ch, handler, hook, asked, sweep, subs, feed,
                   stopping, restarts>>

\* Mutant: RowsAffected is not looked at.
SettleUnchecked(p) ==
    LET c == call[p] IN
    /\ c.pc = "settle"
    /\ row' = IF row[c.id].state = "pending"
              THEN [row EXCEPT ![c.id] = Decided(@, Applied(c), c.at)] ELSE row
    /\ call' = [call EXCEPT ![p] = InCall("deliver", c.id, c.want, c.at)]
    /\ UNCHANGED <<now, waiters, ch, handler, hook, asked, sweep, subs, feed,
                   stopping, restarts>>

\* UPDATE ... WHERE id = ? AND state = 'pending'.
Settle(p) ==
    LET c == call[p] IN
    /\ c.pc = "settle"
    /\ IF row[c.id].state = "pending"
       THEN /\ row' = [row EXCEPT ![c.id] = Decided(@, Applied(c), c.at)]
            /\ call' = [call EXCEPT ![p] = InCall("deliver", c.id, c.want, c.at)]
       ELSE /\ call' = [call EXCEPT ![p] = Lost(p, c)]
            /\ UNCHANGED row
    /\ UNCHANGED <<now, waiters, ch, handler, hook, asked, sweep, subs, feed,
                   stopping, restarts>>

\* The caller's context ends before the UPDATE runs: a web client that went
\* away, or a sweeper at shutdown.  Handlers cancel with a background context.
Abort(p) ==
    /\ call[p].pc = "settle"
    /\ p \in Deciders \/ (p \in Sweepers /\ stopping)
    /\ call' = [call EXCEPT ![p] = Failure("error")]
    /\ UNCHANGED <<now, row, waiters, ch, handler, hook, asked, sweep, subs, feed,
                   stopping, restarts>>

\* Mutant: the waiter gets what the caller sent, not what was recorded.
DeliverWanted(p) ==
    LET c == call[p] IN
    /\ c.pc = "deliver"
    /\ waiters' = waiters \ {c.id}
    /\ ch' = IF c.id \in waiters THEN [ch EXCEPT ![c.id] = Handed(c.want)] ELSE ch
    /\ call' = [call EXCEPT ![p] = InCall("publish", c.id, c.want, c.at)]
    /\ UNCHANGED <<now, row, handler, hook, asked, sweep, subs, feed, stopping, restarts>>

\* Mutant: the waiter stays in the map.
DeliverKeepsWaiter(p) ==
    LET c == call[p] IN
    /\ c.pc = "deliver"
    /\ waiters' = waiters
    /\ ch' = IF c.id \in waiters THEN [ch EXCEPT ![c.id] = Handed(Applied(c))] ELSE ch
    /\ call' = [call EXCEPT ![p] = InCall("publish", c.id, c.want, c.at)]
    /\ UNCHANGED <<now, row, handler, hook, asked, sweep, subs, feed, stopping, restarts>>

\* Mutant: an unbuffered channel, and a send that does not wait.
DeliverIfParked(p) ==
    LET c == call[p] IN
    /\ c.pc = "deliver"
    /\ waiters' = waiters \ {c.id}
    /\ ch' = IF c.id \in waiters /\ handler[c.id] = "parked" THEN [ch EXCEPT ![c.id] = Handed(Applied(c))] ELSE ch
    /\ call' = [call EXCEPT ![p] = InCall("publish", c.id, c.want, c.at)]
    /\ UNCHANGED <<now, row, handler, hook, asked, sweep, subs, feed, stopping, restarts>>

\* Remove the waiter under the lock, then fill and close its channel.
Deliver(p) ==
    LET c == call[p] IN
    /\ c.pc = "deliver"
    /\ waiters' = waiters \ {c.id}
    /\ ch' = IF c.id \in waiters THEN [ch EXCEPT ![c.id] = Handed(Applied(c))] ELSE ch
    /\ call' = [call EXCEPT ![p] = InCall("publish", c.id, c.want, c.at)]
    /\ UNCHANGED <<now, row, handler, hook, asked, sweep, subs, feed, stopping, restarts>>

\* Mutant: whether it expired is asked of the clock again.
PublishDecisionAnew(p) ==
    LET c == call[p]
        late == c.want.verdict \notin UserVerdict \/ row[c.id].expires <= now IN
    /\ c.pc = "publish"
    /\ feed' = Published([type |-> IF late THEN "expired" ELSE "decided", id |-> c.id])
    /\ call' = [call EXCEPT ![p] = Success(c, IF Overdue(c) THEN "expired" ELSE "ok")]
    /\ UNCHANGED <<now, row, waiters, ch, handler, hook, asked, sweep, subs, stopping,
                   restarts>>

PublishDecision(p) ==
    LET c == call[p] IN
    /\ c.pc = "publish"
    /\ feed' = Published([type |-> IF Applied(c).verdict = "expired" THEN "expired"
                                   ELSE "decided", id |-> c.id])
    /\ call' = [call EXCEPT ![p] = Success(c, IF Overdue(c) THEN "expired" ELSE "ok")]
    /\ UNCHANGED <<now, row, waiters, ch, handler, hook, asked, sweep, subs, stopping,
                   restarts>>

\* Mutant: the edited input is not compared.
ReconcileStateOnly(p) ==
    LET c == call[p] IN
    /\ c.pc = "reconcile"
    /\ call' = [call EXCEPT ![p] =
                   IF row[c.id].state = StateForVerdict[c.want.verdict]
                   THEN Success(c, "replayed") ELSE Failure("already")]
    /\ UNCHANGED <<now, row, waiters, ch, handler, hook, asked, sweep, subs, feed,
                   stopping, restarts>>

\* The second Get of DecideIdempotently: the same decision again is a replay.
Reconcile(p) ==
    LET c == call[p] IN
    /\ c.pc = "reconcile"
    /\ call' = [call EXCEPT ![p] = IF Records(c.id, c.want) THEN Success(c, "replayed")
                                                          ELSE Failure("already")]
    /\ UNCHANGED <<now, row, waiters, ch, handler, hook, asked, sweep, subs, feed,
                   stopping, restarts>>

CallStep(p) ==
    Settle(p) \/ Deliver(p) \/ PublishDecision(p) \/ Reconcile(p)

\* A user decides a request the queue knows (others are refused, 404).
Decide(p, r, d) ==
    /\ row[r].state # "absent"
    /\ Begin(p, r, d)
    /\ UNCHANGED <<now, row, waiters, ch, handler, hook, asked, sweep, subs, feed,
                   stopping, restarts>>
-----------------------------------------------------------------------------
(* Queue.ExpireOverdue, from Sweeper.Run and RestorePendingApprovals.      *)

\* Mutant: only requests that still have a waiter in memory are swept.
SweepSelectWaiting(p) ==
    /\ ~stopping /\ Free(p) /\ sweep[p] = {}
    /\ sweep' = [sweep EXCEPT ![p] = {r \in waiters : row[r].state = "pending"
                                                     /\ row[r].expires <= now}]
    /\ sweep'[p] # {}
    /\ UNCHANGED <<now, row, waiters, ch, handler, hook, asked, call, subs, feed,
                   stopping, restarts>>

SweepSelect(p) ==
    /\ ~stopping /\ Free(p) /\ sweep[p] = {}
    /\ sweep' = [sweep EXCEPT ![p] = {r \in Reqs : row[r].state = "pending"
                                                  /\ row[r].expires <= now}]
    /\ sweep'[p] # {}
    /\ UNCHANGED <<now, row, waiters, ch, handler, hook, asked, call, subs, feed,
                   stopping, restarts>>

SweepNext(p) ==
    /\ ~stopping
    /\ \E r \in sweep[p] :
          /\ Begin(p, r, Plain("expired"))
          /\ sweep' = [sweep EXCEPT ![p] = @ \ {r}]
    /\ UNCHANGED <<now, row, waiters, ch, handler, hook, asked, subs, feed, stopping,
                   restarts>>

\* At shutdown Decide returns the context's error, and so does ExpireOverdue.
SweepAbort(p) ==
    /\ stopping /\ Free(p) /\ sweep[p] # {}
    /\ sweep' = [sweep EXCEPT ![p] = {}]
    /\ UNCHANGED <<now, row, waiters, ch, handler, hook, asked, call, subs, feed,
                   stopping, restarts>>
-----------------------------------------------------------------------------
(* The hook process and the daemon goroutine that serves it.               *)

\* onibi-notify --wait writes the request; a closed listener fails the dial.
Ask(r) ==
    /\ hook[r] = Plain("idle")
    /\ now + TTL <= MaxTime /\ now + Patience <= MaxTime           \* bound
    /\ hook' = [hook EXCEPT ![r] = Plain(IF stopping THEN "eof" ELSE "waiting")]
    /\ asked' = [asked EXCEPT ![r] = now]
    /\ handler' = [handler EXCEPT ![r] = IF stopping THEN "gone" ELSE "insert"]
    /\ UNCHANGED <<now, row, waiters, ch, call, sweep, subs, feed, stopping, restarts>>

\* The response reaches the hook if it is still reading.
Respond(r, d) ==
    /\ handler' = [handler EXCEPT ![r] = "gone"]
    /\ hook' = IF hook[r] = Plain("waiting") THEN [hook EXCEPT ![r] = d] ELSE hook

\* Unmanaged session, invalid payload, or an INSERT that fails at shutdown.
Refuse(r) ==
    /\ handler[r] = "insert"
    /\ Respond(r, Plain("cancelled"))
    /\ UNCHANGED <<now, row, waiters, ch, asked, call, sweep, subs, feed, stopping,
                   restarts>>

\* Mutant: the TTL is added twice.
InsertLong(r) ==
    /\ handler[r] = "insert" /\ ~stopping
    /\ row' = [row EXCEPT ![r] = [state |-> "pending", edited |-> NoEdit,
                                  expires |-> now + 2 * TTL, decidedAt |-> 0]]
    /\ handler' = [handler EXCEPT ![r] = "register"]
    /\ UNCHANGED <<now, waiters, ch, hook, asked, call, sweep, subs, feed, stopping,
                   restarts>>

\* Queue.request, first step: INSERT.
Insert(r) ==
    /\ handler[r] = "insert" /\ ~stopping
    /\ row' = [row EXCEPT ![r] = [state |-> "pending", edited |-> NoEdit,
                                  expires |-> now + TTL, decidedAt |-> 0]]
    /\ handler' = [handler EXCEPT ![r] = "register"]
    /\ UNCHANGED <<now, waiters, ch, hook, asked, call, sweep, subs, feed, stopping,
                   restarts>>

\* Second step, under Queue.mu: the waiter.
Register(r) ==
    /\ handler[r] = "register"
    /\ waiters' = waiters \cup {r}
    /\ handler' = [handler EXCEPT ![r] = "announce"]
    /\ UNCHANGED <<now, row, ch, hook, asked, call, sweep, subs, feed, stopping, restarts>>

\* Third step, under Queue.mu: approval.requested.
Announce(r) ==
    /\ handler[r] = "announce"
    /\ feed' = Published([type |-> "requested", id |-> r])
    /\ handler' = [handler EXCEPT ![r] = "parked"]
    /\ UNCHANGED <<now, row, waiters, ch, hook, asked, call, sweep, subs, stopping,
                   restarts>>

\* select: case dec := <-ch
Answer(r) ==
    /\ handler[r] = "parked" /\ ch[r] # Nothing
    /\ Respond(r, ch[r])
    /\ UNCHANGED <<now, row, waiters, ch, asked, call, sweep, subs, feed, stopping,
                   restarts>>

\* select: case <-ctx.Done(), chosen at random when both are ready.
GiveUp(r) ==
    /\ handler[r] = "parked" /\ stopping
    /\ Begin(r, r, Plain("cancelled"))
    /\ handler' = [handler EXCEPT ![r] = "cancelling"]
    /\ UNCHANGED <<now, row, waiters, ch, hook, asked, sweep, subs, feed, stopping,
                   restarts>>

\* Whatever Cancel returned, the hook is told "cancelled".
AnswerCancelled(r) ==
    /\ handler[r] = "cancelling" /\ call[r].pc = "done"
    /\ Respond(r, Plain("cancelled"))
    /\ UNCHANGED <<now, row, waiters, ch, asked, call, sweep, subs, feed, stopping,
                   restarts>>

HandlerStep(r) ==
    \/ Refuse(r) \/ Insert(r) \/ Register(r) \/ Announce(r)
    \/ Answer(r) \/ GiveUp(r) \/ AnswerCancelled(r)

\* Mutant: no deadline while the daemon holds the connection.
HookTimeoutLate(r) ==
    /\ hook[r] = Plain("waiting") /\ handler[r] = "gone"
    /\ asked[r] + Patience <= now
    /\ hook' = [hook EXCEPT ![r] = Plain("timeout")]
    /\ UNCHANGED <<now, row, waiters, ch, handler, asked, call, sweep, subs, feed,
                   stopping, restarts>>

\* The read deadline of intake.Request.  The approval_timeout event it sends
\* carries no approval id, so handleEvent only audits it.
HookTimeout(r) ==
    /\ hook[r] = Plain("waiting")
    /\ asked[r] + Patience <= now
    /\ hook' = [hook EXCEPT ![r] = Plain("timeout")]
    /\ UNCHANGED <<now, row, waiters, ch, handler, asked, call, sweep, subs, feed,
                   stopping, restarts>>
-----------------------------------------------------------------------------
(* Time, shutdown and restart.                                             *)

\* Bound: near MaxTime the clock waits for an INSERT that is under way.
Tick ==
    /\ now < MaxTime
    /\ \A r \in Reqs : handler[r] = "insert" => now + 1 + TTL <= MaxTime
    /\ now' = now + 1
    /\ UNCHANGED <<row, waiters, ch, handler, hook, asked, call, sweep, subs, feed,
                   stopping, restarts>>

\* The context of Daemon.Run is cancelled.
Shutdown ==
    /\ ~stopping
    /\ stopping' = TRUE
    /\ UNCHANGED <<now, row, waiters, ch, handler, hook, asked, call, sweep, subs, feed,
                   restarts>>

\* The process ends, by a crash or after Shutdown, and is started again: only
\* the table survives.  RestorePendingApprovals creates no waiter, and its
\* ExpireOverdue is a SweepSelect.  A hook that is still reading gets EOF.
Restart ==
    /\ restarts < MaxRestarts                                        \* bound
    /\ waiters' = {}
    /\ ch' = [r \in Reqs |-> Nothing]
    /\ handler' = [r \in Reqs |-> IF handler[r] = "idle" THEN "idle" ELSE "gone"]
    /\ hook' = [r \in Reqs |-> IF hook[r] = Plain("waiting") THEN Plain("eof") ELSE hook[r]]
    /\ call' = [p \in Procs |-> IdleCall]
    /\ sweep' = [p \in Sweepers |-> {}]
    /\ subs' = {}
    /\ feed' = [s \in Subs |-> <<>>]
    /\ stopping' = FALSE
    /\ restarts' = restarts + 1
    /\ UNCHANGED <<now, row, asked>>
-----------------------------------------------------------------------------
Init ==
    /\ now = 0
    /\ row = [r \in Reqs |-> AbsentRow]
    /\ waiters = {}
    /\ ch = [r \in Reqs |-> Nothing]
    /\ handler = [r \in Reqs |-> "idle"]
    /\ hook = [r \in Reqs |-> Plain("idle")]
    /\ asked = [r \in Reqs |-> 0]
    /\ call = [p \in Procs |-> IdleCall]
    /\ sweep = [p \in Sweepers |-> {}]
    /\ subs = {}
    /\ feed = [s \in Subs |-> <<>>]
    /\ stopping = FALSE
    /\ restarts = 0

QueueNext ==
    \/ \E r \in Reqs : Ask(r) \/ HandlerStep(r) \/ HookTimeout(r)
    \/ \E p \in Deciders, r \in Reqs, d \in UserSubmission : Decide(p, r, d)
    \/ \E p \in Procs : CallStep(p) \/ Abort(p)
    \/ \E p \in Sweepers : SweepSelect(p) \/ SweepNext(p) \/ SweepAbort(p)
    \/ Tick \/ Shutdown

SubscriberNext ==
    \E s \in Subs : Subscribe(s) \/ Unsubscribe(s) \/ Take(s)

Next == QueueNext \/ SubscriberNext \/ Restart

Spec == Init /\ [][Next]_vars

\* Goroutines are scheduled, statements return, the clock and the sweeper's
\* ticker advance.  Users, hooks, shutdowns and restarts owe nothing.
Fairness ==
    /\ WF_vars(Tick)
    /\ \A r \in Reqs : WF_vars(HandlerStep(r)) /\ WF_vars(HookTimeout(r))
    /\ \A p \in Procs : WF_vars(CallStep(p))
    /\ \A p \in Sweepers : WF_vars(SweepSelect(p)) /\ WF_vars(SweepNext(p))

FairSpec == Spec /\ Fairness
-----------------------------------------------------------------------------
(* Safety.                                                                 *)

\* A hook that is told approve, deny, edited or expired is told what the
\* table records, input included (responseForDecision; "cancelled" is also
\* the answer of a handler that gave up, whatever was recorded).
AnswerMatchesRow ==
    \A r \in Reqs : hook[r].verdict \in UserVerdict \cup {"expired"} => Records(r, hook[r])

TellsRow(e) ==
    /\ e.type = "expired" => row[e.id].state = "expired"
    /\ e.type = "decided" => row[e.id].state \in Terminal \ {"expired"}

\* A deadline that passes while an approval is being decided leaves one outcome
\* for everybody.  The clock is read once, before the SELECT, so a verdict that came
\* in time can be recorded after expires_at, with a sweeper between SELECT and UPDATE;
\* the events that browsers and forwarders get and the answer ErrExpired to a user
\* (queue.go:28) nevertheless say what the row records, now and later.
OneOutcomeTold ==
    /\ \A s \in Subs : \A i \in 1..Len(feed[s]) : TellsRow(feed[s][i])
    /\ \A p \in Procs : call[p].pc = "done" /\ call[p].res = "expired"
                            => row[call[p].id].state = "expired"

Acknowledged(p) == call[p].pc = "done" /\ call[p].res \in {"ok", "replayed"}

\* "terminal approval states are final and idempotent" (docs/security.md:16):
\* two users who both got HTTP 200 for one approval sent the same decision,
\* and it is the one on record.
AcksAgree ==
    \A p \in Deciders : Acknowledged(p) => Records(call[p].id, call[p].want)

Won(p) ==
    \/ call[p].pc \in {"deliver", "publish"}
    \/ call[p].pc = "done" /\ call[p].res \in {"ok", "expired"}

\* "concurrent callers cannot double-decide" (queue.go:244): of all callers,
\* users, sweepers and cancelling handlers, one wins each approval.
OneWinner ==
    \A p, q \in Procs : Won(p) /\ Won(q) /\ call[p].id = call[q].id => p = q

\* deliver fills a channel it took out of the map: while a waiter is
\* registered its channel is still empty and open, so the send cannot block
\* and close cannot panic ("guaranteed to succeed", queue.go:433).
WaiterChannelEmpty ==
    \A r \in waiters : ch[r] = Nothing /\ handler[r] \in {"announce", "parked", "cancelling", "gone"}

\* The UPDATE guard, the stale reads and a restart together never change a
\* row that is decided, and never move a deadline.
TerminalFinal ==
    [][\A r \in Reqs : /\ row[r].state \in Terminal => row'[r] = row[r]
                       /\ row[r].state # "absent" => row'[r].expires = row[r].expires]_vars

(* Liveness.                                                               *)

\* Every recorded request is decided at last, by a user or by a sweeper, in
\* this run of the daemon or, after a restart, in the next one.
EventuallySettled ==
    \A r \in Reqs : row[r].state = "pending" ~> (row[r].state # "pending" \/ stopping)

\* A hook never blocks its agent for ever (intake.Request has a deadline).
HookReleased ==
    \A r \in Reqs : hook[r] = Plain("waiting") ~> hook[r] # Plain("waiting")

\* A handler whose waiter was registered before the decision gets it.
RegisteredWaiterServed ==
    \A r \in Reqs : (r \in waiters /\ row[r].state = "pending")
                        ~> (handler[r] = "gone" \/ stopping)

(* What comments and docs say and the code does not do.                    *)

\* "The channel receives exactly one Decision" (queue.go:99): a parked handler
\* is released.
EveryWaiterServed ==
    \A r \in Reqs : handler[r] = "parked" ~> (handler[r] = "gone" \/ stopping)

\* "approval request lifetime before default-deny" (config/settings.go:457):
\* the hook of a request that expired is not told to go ahead by its own
\* timeout, which onibi-notify answers as "cancelled", exit status 0.
ExpiryReachesHook ==
    \A r \in Reqs : row[r].state = "expired" => hook[r] # Plain("timeout")
=============================================================================
