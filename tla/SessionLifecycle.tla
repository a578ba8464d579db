------------------------- MODULE SessionLifecycle -------------------------
(***************************************************************************)
(* The life of a hosted session: the tmux session or pty process that runs *)
(* the agent, the entry in the daemon's Registry, the row in SQLite and    *)
(* the goroutine that captures the pane every two seconds.  Only tmux and  *)
(* the table survive a daemon; restoreSessions puts the three together     *)
(* again while new sessions start, targets die and users end sessions.     *)
(***************************************************************************)
EXTENDS Naturals, FiniteSets

CONSTANTS Sessions,      \* session ids, and the names of tmux targets: a managed session's
                         \* target is named after its id
          Kinds(_),      \* bound: the kinds of session an id is used for
          MaxBoots,      \* bound: daemons that may follow the first one
          MaxOutages     \* bound: times the tmux server may stop answering

ASSUME SessionAssumption ==
    /\ IsFiniteSet(Sessions)
    /\ Sessions \cap {"none", "foreign"} = {}
    /\ \A s \in Sessions : Kinds(s) \subseteq {"managed", "attached", "pty"}
    /\ MaxBoots \in Nat /\ MaxOutages \in Nat

VARIABLES sess,      \* what a session is: [kind, target], fixed when it starts
          tmux,      \* target -> "none", "foreign" or the ONIBI_SESSION_ID it was created with
          reachable, \* do tmux commands get an answer
          row,       \* the sessions table: [state, ended]
          reg,       \* the Registry: "absent", "live" or "ended" (Session.ended)
          starting,  \* sessions registered whose row is not yet written
          loop,      \* captureTmuxLoop: "off", "ok", or "lost" (recoveryDeadline is set)
          ender,     \* "killed": its target is gone, the caller has yet to mark it ended;
                     \* "marking": marked ended in memory, the row still to be written
          restore,   \* restoreSessions: its step, the rows and targets it read, the row in hand
          boots, outages

vars == <<sess, tmux, reachable, row, reg, starting, loop, ender,
          restore, boots, outages>>

States == {"healthy", "reconnecting", "recovering", "orphaned", "failed", "terminated"}

NoSession == [kind |-> "none", target |-> "none"]
NoRow     == [state |-> "absent", ended |-> FALSE]
NewRow    == [state |-> "healthy", ended |-> FALSE]

Idle(pc) == [pc |-> pc, rows |-> {}, found |-> {}, failed |-> FALSE, owned |-> {}, cur |-> "none"]

----------------------------------------------------------------------------
(* The table.                                                              *)

\* validSessionRecoveryTransition
Allowed(state) ==
    CASE state \in {"healthy", "reconnecting", "recovering"} -> States \ {state}
      [] state \in {"orphaned", "failed"} -> {"recovering", "terminated"}
      [] OTHER -> {}

\* SessionTransitionRecovery, whose SELECT and UPDATE are one transaction: an ended
\* row and a transition the table does not allow are left alone
MovedAnyway(r, next) == [r EXCEPT !.state = next]   \* mutant: neither is looked at
Moved(r, next) ==
    IF ~r.ended /\ next \in Allowed(r.state) THEN [r EXCEPT !.state = next] ELSE r

Transition(s, next) == row' = [row EXCEPT ![s] = Moved(row[s], next)]

\* SessionMarkEnded: a row that is not there stays absent, an ended one keeps its end
EndedOnly(r) == IF r.state = "absent" THEN r ELSE [r EXCEPT !.ended = TRUE]   \* mutant
Ended(r) == IF r.state = "absent" THEN r ELSE [state |-> "terminated", ended |-> TRUE]

Active == {s \in Sessions : row[s].state # "absent" /\ ~row[s].ended}

IsTmux(s) == sess[s].kind \in {"managed", "attached"}
Answers(s) == reachable /\ tmux[sess[s].target] # "none"

\* managedTmuxOwnership: asked only of targets that Onibi named
Verified(s) == sess[s].kind = "attached" \/ tmux[sess[s].target] = s

Running == restore.pc # "down"

----------------------------------------------------------------------------
(* Starting.  AttachTmux, StartTmuxSession and SpawnAgent register the     *)
(* session and then write its row.                                         *)

Begin(s, kind, target) ==
    /\ Running /\ sess[s] = NoSession /\ kind \in Kinds(s)
    /\ sess' = [sess EXCEPT ![s] = [kind |-> kind, target |-> target]]
    /\ reg' = [reg EXCEPT ![s] = "live"]
    /\ starting' = starting \cup {s}
    /\ UNCHANGED <<reachable, row, loop, ender, restore, boots, outages>>

StartTmux(s) ==
    /\ reachable /\ tmux[s] = "none"
    /\ tmux' = [tmux EXCEPT ![s] = s]
    /\ Begin(s, "managed", s)

AttachTmux(s, t) ==
    /\ reachable /\ tmux[t] # "none"
    /\ Begin(s, "attached", t)
    /\ UNCHANGED tmux

Spawn(s) == Begin(s, "pty", "none") /\ UNCHANGED tmux

\* SessionUpsertStart, then the goroutine that watches the session
Persist(s) ==
    /\ s \in starting
    /\ starting' = starting \ {s}
    /\ row' = [row EXCEPT ![s] = IF @ = NoRow THEN NewRow ELSE @]
    /\ loop' = [loop EXCEPT ![s] = IF IsTmux(s) THEN "ok" ELSE "off"]
    /\ UNCHANGED <<sess, tmux, reachable, reg, ender, restore, boots, outages>>

----------------------------------------------------------------------------
(* Ending.                                                                 *)

\* the part of markSessionEnded that only the first caller gets past
MarkEnded(s) ==
    /\ reg' = [reg EXCEPT ![s] = "ended"]
    /\ ender' = [ender EXCEPT ![s] = "marking"]
    /\ UNCHANGED <<sess, tmux, reachable, row, starting, loop, restore, boots, outages>>

\* HideSession(end) and ControlSession(kill): nothing follows a KillSession that fails
KillTarget(s) ==
    /\ reg[s] = "live" /\ IsTmux(s) /\ ender[s] = "none"
    /\ Answers(s)
    /\ tmux' = [tmux EXCEPT ![sess[s].target] = "none"]
    /\ ender' = [ender EXCEPT ![s] = "killed"]
    /\ UNCHANGED <<sess, reachable, row, reg, starting, loop, restore, boots, outages>>

KillerMarks(s) == ender[s] = "killed" /\ MarkEnded(s)

\* a SessionExited hook, or for a pty session the end of readLoop, waitHost or a kill;
\* a killer that comes later finds the session ended
Exits(s) == reg[s] = "live" /\ MarkEnded(s)

\* the rest of markSessionEnded
MarkRow(s) ==
    /\ ender[s] = "marking"
    /\ ender' = [ender EXCEPT ![s] = "none"]
    /\ row' = [row EXCEPT ![s] = Ended(@)]
    /\ UNCHANGED <<sess, tmux, reachable, reg, starting, loop, restore, boots, outages>>

----------------------------------------------------------------------------
(* captureTmuxLoop.  A tick that captures while nothing was lost changes   *)
(* only the screen buffer and the last activity.                           *)

Watching(s) == loop[s] # "off" /\ reg[s] = "live"

LoopStops(s) ==
    /\ loop[s] # "off" /\ reg[s] = "ended"
    /\ loop' = [loop EXCEPT ![s] = "off"]
    /\ UNCHANGED row

LoopDisconnects(s) ==
    /\ Watching(s) /\ loop[s] = "ok" /\ ~Answers(s)
    /\ loop' = [loop EXCEPT ![s] = "lost"]
    /\ Transition(s, "reconnecting")

LoopReconnects(s) ==
    /\ Watching(s) /\ loop[s] = "lost" /\ Answers(s)
    /\ loop' = [loop EXCEPT ![s] = "ok"]
    /\ Transition(s, "healthy")

LoopTimesOut(s) ==
    /\ Watching(s) /\ loop[s] = "lost" /\ ~Answers(s)
    /\ loop' = [loop EXCEPT ![s] = "off"]
    /\ Transition(s, "orphaned")

LoopStep(s) ==
    /\ LoopStops(s) \/ LoopDisconnects(s) \/ LoopReconnects(s) \/ LoopTimesOut(s)
    /\ UNCHANGED <<sess, tmux, reachable, reg, starting, ender, restore, boots, outages>>

----------------------------------------------------------------------------
(* restoreSessions, in the goroutine of runStartupMaintenance.             *)

ReadRows ==
    /\ restore.pc = "rows"
    /\ restore' = [restore EXCEPT !.pc = "discover", !.rows = Active]
    /\ UNCHANGED <<row, reg, loop>>

\* ListSessions fails too when no session is left: the tmux server is then gone
Targets == {t \in Sessions : tmux[t] # "none"}
Listed  == reachable /\ Targets # {}

\* ListSessions and Registry.List
Discover ==
    /\ restore.pc = "discover"
    /\ restore' = [restore EXCEPT
                     !.pc = "next",
                     !.failed = ~Listed,
                     !.found = IF Listed THEN Targets ELSE {},
                     !.owned = {sess[s].target : s \in {x \in Sessions : reg[x] # "absent" /\ IsTmux(x)}},
                     !.rows = {s \in @ : reg[s] = "absent"}]
    /\ UNCHANGED <<row, reg, loop>>

\* the row of a pty session, or of a tmux target this daemon already has
RestoreRefuses(s) ==
    /\ restore.pc = "next" /\ s \in restore.rows
    /\ ~IsTmux(s) \/ sess[s].target \in restore.owned
    /\ Transition(s, "failed")
    /\ restore' = [restore EXCEPT !.rows = @ \ {s}]
    /\ UNCHANGED <<reg, loop>>

RestoreBegins(s) ==
    /\ restore.pc = "next" /\ s \in restore.rows
    /\ IsTmux(s) /\ sess[s].target \notin restore.owned
    /\ Transition(s, "recovering")
    /\ restore' = [restore EXCEPT !.pc = "verify", !.cur = s, !.rows = @ \ {s}]
    /\ UNCHANGED <<reg, loop>>

\* discovery, the ownership lookup or the capture failed: nobody tries again.  The
\* lookup fails as well when the session never had the variable.
RestorePostpones ==
    LET s == restore.cur IN
    /\ restore.pc = "verify"
    /\ \/ restore.failed
       \/ sess[s].target \in restore.found /\ (~Answers(s) \/ tmux[sess[s].target] = "foreign")
    /\ Transition(s, "reconnecting")
    /\ restore' = [restore EXCEPT !.pc = "next", !.cur = "none"]
    /\ UNCHANGED <<reg, loop>>

\* mutant: the row is passed over without a transition
RestoreSkips ==
    LET s == restore.cur IN
    /\ restore.pc = "verify" /\ ~restore.failed
    /\ sess[s].target \notin restore.found
    /\ restore' = [restore EXCEPT !.pc = "next", !.cur = "none"]
    /\ UNCHANGED <<row, reg, loop>>

RestoreOrphans ==
    LET s == restore.cur IN
    /\ restore.pc = "verify" /\ ~restore.failed
    /\ \/ sess[s].target \notin restore.found
       \/ Answers(s) /\ ~Verified(s)
    /\ Transition(s, "orphaned")
    /\ restore' = [restore EXCEPT !.pc = "next", !.cur = "none"]
    /\ UNCHANGED <<reg, loop>>

\* mutant: registered, but nobody watches the pane
RestoreRegisters ==
    LET s == restore.cur IN
    /\ restore.pc = "verify" /\ ~restore.failed
    /\ sess[s].target \in restore.found /\ Answers(s) /\ Verified(s)
    /\ reg' = [reg EXCEPT ![s] = "live"]
    /\ restore' = [restore EXCEPT !.pc = "hosted"]
    /\ UNCHANGED <<row, loop>>

\* restoreTmuxSession: the capture loop runs before the row is called healthy
RestoreHosts ==
    LET s == restore.cur IN
    /\ restore.pc = "verify" /\ ~restore.failed
    /\ sess[s].target \in restore.found /\ Answers(s) /\ Verified(s)
    /\ reg' = [reg EXCEPT ![s] = "live"]
    /\ loop' = [loop EXCEPT ![s] = "ok"]
    /\ restore' = [restore EXCEPT !.pc = "hosted"]
    /\ UNCHANGED row

RestoreHeals ==
    LET s == restore.cur IN
    /\ restore.pc = "hosted"
    /\ Transition(s, "healthy")
    /\ restore' = [restore EXCEPT !.pc = "next", !.cur = "none", !.owned = @ \cup {sess[s].target}]
    /\ UNCHANGED <<reg, loop>>

RestoreDone ==
    /\ restore.pc = "next" /\ restore.rows = {}
    /\ restore' = Idle("done")
    /\ UNCHANGED <<row, reg, loop>>

RestoreStep ==
    /\ \/ ReadRows \/ Discover \/ RestorePostpones \/ RestoreOrphans
       \/ RestoreHosts \/ RestoreHeals \/ RestoreDone
       \/ \E s \in Sessions : RestoreRefuses(s) \/ RestoreBegins(s)
    /\ UNCHANGED <<sess, tmux, reachable, starting, ender, boots, outages>>

----------------------------------------------------------------------------
(* tmux, and the daemon's own life.                                        *)

\* the agent exits, or the session is killed outside Onibi
TargetDies(t) ==
    /\ tmux[t] # "none"
    /\ tmux' = [tmux EXCEPT ![t] = "none"]
    /\ UNCHANGED <<reachable, outages>>

\* somebody else creates a tmux session under a name Onibi used
TargetTaken(t) ==
    /\ tmux[t] = "none" /\ sess[t].kind = "managed"
    /\ tmux' = [tmux EXCEPT ![t] = "foreign"]
    /\ UNCHANGED <<reachable, outages>>

\* bound: under the last daemon only, whose restore and loops meet it
Outage ==
    /\ reachable /\ outages < MaxOutages /\ boots = MaxBoots
    /\ reachable' = FALSE /\ outages' = outages + 1
    /\ UNCHANGED tmux

Recovers ==
    /\ ~reachable /\ reachable' = TRUE
    /\ UNCHANGED <<tmux, outages>>

TmuxStep ==
    /\ Outage \/ Recovers \/ \E t \in Sessions : TargetDies(t) \/ TargetTaken(t)
    /\ UNCHANGED <<sess, row, reg, starting, loop, ender, restore, boots>>

\* the daemon stops or is killed: the table and tmux are what is left
Crash ==
    /\ Running /\ boots < MaxBoots
    /\ reg' = [s \in Sessions |-> "absent"]
    /\ loop' = [s \in Sessions |-> "off"]
    /\ starting' = {} /\ ender' = [s \in Sessions |-> "none"]
    /\ restore' = Idle("down")
    /\ boots' = boots + 1
    /\ UNCHANGED <<sess, tmux, reachable, row, outages>>

\* `onibi run` restores what it finds, `onibi start` (SkipRestore) does not
Boot(pc) ==
    /\ ~Running
    /\ restore' = Idle(pc)
    /\ UNCHANGED <<sess, tmux, reachable, row, reg, starting, loop, ender, boots, outages>>

Init ==
    /\ sess = [s \in Sessions |-> NoSession]
    /\ tmux \in [Sessions -> {"none", "foreign"}]   \* the user may have sessions of their own
    /\ \A s \in Sessions : "managed" \in Kinds(s) => tmux[s] = "none"
    /\ reachable = TRUE
    /\ row = [s \in Sessions |-> NoRow]
    /\ reg = [s \in Sessions |-> "absent"]
    /\ starting = {} /\ ender = [s \in Sessions |-> "none"]
    /\ loop = [s \in Sessions |-> "off"]
    /\ restore = Idle("rows")
    /\ boots = 0 /\ outages = 0

StartStep(s) ==
    StartTmux(s) \/ Spawn(s) \/ (\E t \in Sessions : AttachTmux(s, t)) \/ Persist(s)

EndStep(s) == KillTarget(s) \/ KillerMarks(s) \/ Exits(s) \/ MarkRow(s)

Next ==
    \/ \E s \in Sessions : StartStep(s) \/ EndStep(s) \/ LoopStep(s)
    \/ RestoreStep \/ TmuxStep \/ Crash
    \/ Boot("rows") \/ Boot("skipped")

Spec == Init /\ [][Next]_vars

\* goroutines that are ready run, and a stopped daemon is started again; nothing is
\* promised of users, of tmux, or of the agents
Fairness ==
    /\ WF_vars(RestoreStep)
    /\ WF_vars(Boot("rows"))
    /\ \A s \in Sessions : WF_vars(Persist(s)) /\ WF_vars(LoopStep(s))
                           /\ WF_vars(MarkRow(s)) /\ WF_vars(KillerMarks(s))

FairSpec == Spec /\ Fairness

----------------------------------------------------------------------------
(* Properties.                                                             *)

\* The values the state takes; a row that ended calls itself terminated, and only such a row.
TypeOK ==
    /\ sess \in [Sessions -> [kind : {"none", "managed", "attached", "pty"},
                              target : Sessions \cup {"none"}]]
    /\ tmux \in [Sessions -> Sessions \cup {"none", "foreign"}]
    /\ reachable \in BOOLEAN
    /\ row \in [Sessions -> [state : (States \ {"terminated"}) \cup {"absent"}, ended : {FALSE}]
                           \cup [state : {"terminated"}, ended : {TRUE}]]
    /\ reg \in [Sessions -> {"absent", "live", "ended"}]
    /\ loop \in [Sessions -> {"off", "ok", "lost"}]
    /\ starting \subseteq Sessions /\ ender \in [Sessions -> {"none", "killed", "marking"}]
    /\ restore \in [pc : {"rows", "discover", "next", "verify", "hosted", "done", "skipped", "down"},
                    rows : SUBSET Sessions, found : SUBSET Sessions, failed : BOOLEAN,
                    owned : SUBSET Sessions, cur : Sessions \cup {"none"}]
    /\ boots \in 0..MaxBoots /\ outages \in 0..MaxOutages

\* A session that was ended stays ended, whatever the capture loop, the restore pass
\* and the other callers still write to its row.
TerminatedFinal ==
    [][\A s \in Sessions : row[s].ended => row'[s] = row[s]]_vars

\* Once the startup pass is over, a row that calls itself healthy belongs to a session
\* of this daemon, and while that session lives its pane is being watched.
HealthyIsWatched ==
    restore.pc = "done" =>
        \A s \in Active :
            row[s].state = "healthy" =>
                /\ reg[s] # "absent"
                /\ reg[s] = "live" => loop[s] # "off" \/ ~IsTmux(s) \/ s \in starting

\* A row is never left in the middle of its recovery: the pass that put it into
\* "recovering", or the one after a crash, settles it.
RecoveryResolved ==
    \A s \in Sessions :
        row[s].state = "recovering" ~> (row[s].state # "recovering" \/ restore.pc = "skipped")
=============================================================================
