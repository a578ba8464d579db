----------------------------- MODULE ApprovalFeed -----------------------------
(***************************************************************************)
(* The approval half of /ws/events composed with the approval queue: the   *)
(* connection handler of internal/web/ws_events.go subscribes, replays the *)
(* pending rows and then streams its channel; the browser keeps a card per *)
(* open approval (frontend/src/approval.ts), across connections.           *)
(* The notification forwarders (internal/daemon/chat_bridges.go) follow    *)
(* the same subscribe, replay, stream order with their own "sent" map.     *)
(***************************************************************************)
EXTENDS ApprovalQueue

VARIABLES
    conn,   \* program counter of handleWSEvents, per browser
    sent,   \* sentApprovalRequests of the connection
    cards,  \* ApprovalOverlay.cards of the browser
    unread  \* history: what the failed replay of the connection did not send

feedVars == <<conn, sent, cards, unread>>
allVars == <<vars, feedVars>>

FeedTypeOK ==
    /\ TypeOK
    /\ conn \in [Subs -> {"off", "subscribed", "live"}]
    /\ sent \in [Subs -> SUBSET Reqs]
    /\ cards \in [Subs -> SUBSET Reqs]
    /\ unread \in [Subs -> SUBSET Reqs]
-----------------------------------------------------------------------------
\* The upgrade is accepted and approvalQueue.Subscribe succeeds.
Attach(s) ==
    /\ conn[s] = "off" /\ ~stopping
    /\ Subscribe(s)
    /\ conn' = [conn EXCEPT ![s] = "subscribed"]
    /\ sent' = [sent EXCEPT ![s] = {}]
    /\ UNCHANGED <<cards, unread>>

\* Mutant: Pending lists the waiters in memory.
PendingWaiters == {r \in waiters : row[r].state = "pending" /\ now < row[r].expires}

\* Queue.Pending: pending and not yet overdue.
Pending == {r \in Reqs : row[r].state = "pending" /\ now < row[r].expires}

\* The pending rows are read and written to the socket as requests.
Replay(s) ==
    /\ conn[s] = "subscribed"
    /\ conn' = [conn EXCEPT ![s] = "live"]
    /\ sent' = [sent EXCEPT ![s] = Pending]
    /\ cards' = [cards EXCEPT ![s] = @ \cup Pending]
    /\ UNCHANGED <<vars, unread>>

Queued(s) == {r \in Reqs : \E i \in 1..Len(feed[s]) :
                               feed[s][i] = [type |-> "requested", id |-> r]}

\* The query fails: that is logged, and the connection streams without a replay.
ReplayFails(s) ==
    /\ conn[s] = "subscribed"
    /\ conn' = [conn EXCEPT ![s] = "live"]
    /\ unread' = [unread EXCEPT ![s] = Pending \ (Queued(s) \cup cards[s])]
    /\ UNCHANGED <<vars, sent, cards>>

\* Mutant: only approval.decided removes a card.
ShownUntilDecided(c, e) ==
    CASE e.type = "requested" -> c \cup {e.id}
      [] e.type = "decided" -> c \ {e.id}
      [] OTHER -> c

\* ApprovalOverlay.handleEnvelope.
Shown(c, e) == IF e.type = "requested" THEN c \cup {e.id} ELSE c \ {e.id}

\* One turn of the select loop: a request already sent is skipped, anything
\* else reaches the browser.
Stream(s) ==
    /\ conn[s] = "live"
    /\ Take(s)
    /\ LET e == Head(feed[s]) IN
         IF e.type = "requested" /\ e.id \in sent[s]
         THEN UNCHANGED <<sent, cards>>
         ELSE /\ cards' = [cards EXCEPT ![s] = Shown(@, e)]
              /\ sent' = IF e.type = "requested" THEN [sent EXCEPT ![s] = @ \cup {e.id}]
                                                 ELSE sent
    /\ UNCHANGED <<conn, unread>>

\* The socket closes; the browser keeps its cards.
Detach(s) ==
    /\ conn[s] # "off"
    /\ Unsubscribe(s)
    /\ conn' = [conn EXCEPT ![s] = "off"]
    /\ unread' = [unread EXCEPT ![s] = {}]
    /\ UNCHANGED <<sent, cards>>

FeedRestart ==
    /\ Restart
    /\ conn' = [s \in Subs |-> "off"]
    /\ unread' = [s \in Subs |-> {}]
    /\ UNCHANGED <<sent, cards>>

FeedInit ==
    /\ Init
    /\ conn = [s \in Subs |-> "off"]
    /\ sent = [s \in Subs |-> {}]
    /\ cards = [s \in Subs |-> {}]
    /\ unread = [s \in Subs |-> {}]

FeedNext ==
    \/ QueueNext /\ UNCHANGED feedVars
    \/ \E s \in Subs : Attach(s) \/ Replay(s) \/ ReplayFails(s) \/ Stream(s) \/ Detach(s)
    \/ FeedRestart

FeedSpec == FeedInit /\ [][FeedNext]_allVars

\* The fairness of the queue, and a browser that reads what it is sent.
FeedFairness ==
    /\ WF_allVars(Tick /\ UNCHANGED feedVars)
    /\ \A r \in Reqs : /\ WF_allVars(HandlerStep(r) /\ UNCHANGED feedVars)
                       /\ WF_allVars(HookTimeout(r) /\ UNCHANGED feedVars)
    /\ \A p \in Procs : WF_allVars(CallStep(p) /\ UNCHANGED feedVars)
    /\ \A p \in Sweepers : /\ WF_allVars(SweepSelect(p) /\ UNCHANGED feedVars)
                           /\ WF_allVars(SweepNext(p) /\ UNCHANGED feedVars)
    /\ \A s \in Subs : WF_allVars(Stream(s))

FairFeedSpec == FeedSpec /\ FeedFairness
-----------------------------------------------------------------------------
CaughtUp(s) == conn[s] = "live" /\ feed[s] = <<>>

Announced(r) == handler[r] \notin {"idle", "insert", "register", "announce"}

\* No approval is missed whatever the order of INSERT, publication, Subscribe
\* and the Pending query, with reconnections and restarts in between: once the
\* connection has drained its channel every open, announced approval is shown.
\* A query that failed costs its own connection what it would have returned and
\* nothing else: what is announced after Subscribe, and what a later connection
\* replays, is shown.  (Channels large enough not to drop: SubCap >= 2 * Cardinality(Reqs).)
NoRequestMissed ==
    \A s \in Subs, r \in Reqs :
        CaughtUp(s) /\ Announced(r) /\ row[r].state = "pending" /\ now < row[r].expires
            => r \in cards[s] \cup unread[s]

\* A card shown while its approval is open does not outlive the approval: the
\* decision, whoever takes it, removes the card, unless the connection ends.
\* The browser keeps reading its socket; the queue is scheduled as in Fairness.
OpenCardRemoved ==
    \A s \in Subs, r \in Reqs :
        (conn[s] = "live" /\ r \in cards[s] /\ Announced(r) /\ row[r].state = "pending")
            ~> (r \notin cards[s] \/ conn[s] = "off" \/ stopping)
==============================================================================
