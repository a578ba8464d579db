----------------------------- MODULE EventFeed -----------------------------
(***************************************************************************)
(* The app events of /ws/events: the bus with its bounded history and its  *)
(* dropping subscriber channel, the handler that replays or sends a        *)
(* snapshot before it streams, and the browser, which closes the socket on *)
(* a gap and asks again from the last event it has.                        *)
(***************************************************************************)
EXTENDS Naturals, Sequences, FiniteSets

CONSTANTS ReplayHistory, \* replayLimit
          ChannelSize,   \* the buffer of a subscriber
          MaxEvents,     \* bound: events of one daemon
          MaxResets,     \* bound: connections that break, and daemons that follow the first
          MaxEpochs

ASSUME EventsAssumption ==
    /\ ReplayHistory \in Nat \ {0} /\ ChannelSize \in Nat \ {0}
    /\ MaxEvents \in Nat /\ MaxResets \in Nat /\ MaxEpochs \in Nat

VARIABLES seq,      \* EventBus.seq; the history is its last ReplayHistory numbers
          epoch,    \* which daemon
          channel,  \* the subscriber's buffer
          conn,     \* the handler: "none", "hello", "subscribed" or "stream", and what it
                    \* has yet to write before it streams
          line,     \* frames under way to the browser
          lastSeq,  \* EventsWS.lastSeq
          seen,     \* what the page knows: pairs of an epoch and an event
          from,     \* the epoch lastSeq was counted in
          passed,   \* history: events the handler passed over, for want of a snapshot or
                    \* because the page named a position of an earlier daemon
          resets

eventVars == <<seq, epoch, channel, conn, line, lastSeq, seen, from, passed, resets>>

NoConn == [pc |-> "none", todo |-> <<>>]

EventFrame(n) == [type |-> "event", seq |-> n, epoch |-> epoch, mode |-> "none"]
\* the list of sessions at the time it is written: all that has been published
SnapshotFrame == [type |-> "snapshot", seq |-> 0, epoch |-> epoch, mode |-> "none"]
RecoveryFrame(mode, n) == [type |-> "recovery", seq |-> n, epoch |-> epoch, mode |-> mode]

----------------------------------------------------------------------------
(* The bus.                                                                *)

Earliest == IF seq > ReplayHistory THEN seq - ReplayHistory + 1 ELSE 1

\* mutant: a full channel loses the event and not its oldest one
OfferDropsNew(q, n) == IF Len(q) < ChannelSize THEN Append(q, n) ELSE q

\* Publish makes room in a full channel
Offer(q, n) == IF Len(q) < ChannelSize THEN Append(q, n) ELSE Append(Tail(q), n)

Subscribed == conn.pc \in {"subscribed", "stream"}

Publish ==
    /\ seq < MaxEvents
    /\ seq' = seq + 1
    /\ channel' = IF Subscribed THEN Offer(channel, seq + 1) ELSE channel
    /\ UNCHANGED <<epoch, conn, line, lastSeq, seen, from, passed, resets>>

\* mutant: a trimmed history is replayed as if it were whole
TrimmedIgnored(n) == n > seq

\* replaySinceLocked: the browser is behind what is kept, or ahead of this bus
NeedsSnapshot(n) == IF seq = 0 THEN n > 0 ELSE n < Earliest - 1 \/ n > seq

Replay(n) == IF NeedsSnapshot(n) THEN <<>>
             ELSE [i \in 1..Cardinality({m \in Earliest..seq : m > n}) |->
                      EventFrame(seq - Cardinality({m \in Earliest..seq : m > n}) + i)]

----------------------------------------------------------------------------
(* The handler.                                                            *)

Connect ==
    /\ conn = NoConn
    /\ conn' = [NoConn EXCEPT !.pc = "hello"]
    /\ line' = <<>>
    /\ UNCHANGED <<seq, epoch, channel, lastSeq, seen, from, passed, resets>>

EventsTo(n) == {<<epoch, m>> : m \in 1..n}

\* the hello, which has lastSeq; SubscribeFrom; the frames that go out before the stream
Subscribe ==
    /\ conn.pc = "hello"
    /\ LET whole == lastSeq = 0 \/ NeedsSnapshot(lastSeq)
           opening == IF whole THEN <<SnapshotFrame>> ELSE <<>>
           mode == IF whole THEN "snapshot" ELSE "replay"
       IN  /\ conn' = [pc |-> "subscribed",
                       todo |-> opening \o Replay(lastSeq) \o <<RecoveryFrame(mode, seq)>>]
           /\ passed' = IF whole \/ from = epoch THEN passed ELSE passed \cup EventsTo(lastSeq)
    /\ channel' = <<>>
    /\ UNCHANGED <<seq, epoch, line, lastSeq, seen, from, resets>>

WriteNext(frames) ==
    /\ conn.pc = "subscribed"
    /\ line' = line \o frames
    /\ conn' = IF Len(conn.todo) = 1 THEN [pc |-> "stream", todo |-> <<>>]
               ELSE [conn EXCEPT !.todo = Tail(@)]
    /\ UNCHANGED <<seq, epoch, channel, lastSeq, seen, from, resets>>

\* one frame; a snapshot holds what is there when it is written
WriteTodo ==
    /\ WriteNext(LET f == Head(conn.todo)
                 IN  <<IF f.type = "snapshot" THEN [f EXCEPT !.seq = seq] ELSE f>>)
    /\ UNCHANGED passed

\* writeSessionsStatus cannot read the sessions, which is only logged: the handler goes on
\* to the recovery frame, and to the events of a history that is still whole
SnapshotFails ==
    /\ WriteNext(<<>>) /\ Head(conn.todo).type = "snapshot"
    /\ passed' = IF Len(conn.todo) > 2 THEN passed
                 ELSE passed \cup EventsTo(conn.todo[Len(conn.todo)].seq)

Stream ==
    /\ conn.pc = "stream" /\ channel # <<>>
    /\ line' = Append(line, EventFrame(Head(channel)))
    /\ channel' = Tail(channel)
    /\ UNCHANGED <<seq, epoch, conn, lastSeq, seen, from, passed, resets>>

----------------------------------------------------------------------------
(* The browser.                                                            *)

Hangup == /\ conn' = NoConn /\ line' = <<>> /\ channel' = <<>>

\* mutant: goes on after a gap
AppliesAnyway(f) == f.type = "event" => f.seq > lastSeq

\* handleMessage: events one after the other, a replay that ends where they do
Applies(f) ==
    CASE f.type = "event"    -> f.seq = lastSeq + 1
      [] f.type = "recovery" -> f.mode = "snapshot" \/ f.seq = lastSeq
      [] OTHER               -> TRUE

Knows(f) == IF f.type = "snapshot" THEN {<<f.epoch, n>> : n \in 1..f.seq}
            ELSE IF f.type = "event" THEN {<<f.epoch, f.seq>>} ELSE {}

Message ==
    /\ line # <<>>
    /\ LET f == Head(line) IN
       IF Applies(f)
       THEN /\ lastSeq' = IF f.type = "snapshot" THEN lastSeq ELSE f.seq
            /\ from' = IF f.mode = "snapshot" \/ (f.type = "event" /\ lastSeq = 0) THEN epoch ELSE from
            /\ seen' = seen \cup Knows(f)
            /\ line' = Tail(line)
            /\ UNCHANGED <<conn, channel>>
       ELSE /\ Hangup
            /\ UNCHANGED <<lastSeq, from, seen>>
    /\ UNCHANGED <<seq, epoch, passed, resets>>

Break ==
    /\ conn # NoConn /\ resets < MaxResets
    /\ resets' = resets + 1
    /\ Hangup
    /\ UNCHANGED <<seq, epoch, lastSeq, seen, from, passed>>

\* a new daemon counts from zero; the page keeps its lastSeq
RestartBus ==
    /\ epoch < MaxEpochs
    /\ epoch' = epoch + 1 /\ seq' = 0
    /\ Hangup
    /\ UNCHANGED <<lastSeq, seen, from, passed, resets>>

EventsInit ==
    /\ seq = 0 /\ epoch = 0 /\ channel = <<>> /\ conn = NoConn /\ line = <<>>
    /\ lastSeq = 0 /\ seen = {} /\ from = 0 /\ passed = {} /\ resets = 0

FeedStep == Connect \/ Subscribe \/ WriteTodo \/ SnapshotFails \/ Stream \/ Message
EventsNext == Publish \/ FeedStep \/ Break \/ RestartBus

EventsSpec == EventsInit /\ [][EventsNext]_eventVars /\ WF_eventVars(FeedStep)

----------------------------------------------------------------------------
(* Properties.                                                             *)

WasTold(n) == <<epoch, n>> \in seen \cup passed

\* Whatever the page's lastSeq counts, it has been told: by its frame, or by a snapshot
\* that was read after it; but for the events up to the recovery frame of a connection
\* whose snapshot could not be read.  (Not across a restart that the page does not notice,
\* because the new daemon has come as far as the old one had.)
CountedIsKnown ==
    from = epoch => \A n \in 1..lastSeq : WasTold(n)

\* When no more events come, and no more connections break, the page has counted them all
\* and been told each, but for those a failed snapshot should have told, and those up to a
\* position of an earlier daemon that this one took for its own.
CatchesUp == <>[](lastSeq = seq /\ \A n \in 1..seq : WasTold(n))

=============================================================================
