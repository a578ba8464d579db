--------------------------- MODULE SessionProofs ---------------------------
(***************************************************************************)
(* For any number of sessions, daemons and tmux targets, and any order of  *)
(* starts, ends, losses and restore passes: an ended row is left alone,    *)
(* and once the startup pass is over a row that calls itself healthy is    *)
(* one this daemon watches.  The clients that WebAttach adds change none   *)
(* of this: every step of the composition is a step of the sessions, or    *)
(* none of theirs.                                                         *)
(*                                                                         *)
(* What makes the second inductive is who can make a row healthy: a start  *)
(* and a capture loop of this daemon, which watch it, and the restore pass, *)
(* which has every healthy row nobody watches among the rows it still has  *)
(* to look at.                                                             *)
(***************************************************************************)
EXTENDS WebAttach, TLAPS

\* A session whose row is still to be written is registered.
StartingRegistered == \A s \in starting : reg[s] # "absent"

\* A tmux session has a target.
TargetNamed == \A s \in Sessions : IsTmux(s) => sess[s].target \in Sessions

\* The restore pass has a tmux session in hand, and no rows when it is over.
HandKnown ==
    /\ restore.pc \in {"verify", "hosted"} => restore.cur \in Sessions /\ IsTmux(restore.cur)
    /\ restore.pc = "done" => restore.rows = {}

\* A healthy row of a session that lives here is watched, or about to be.
LiveWatched ==
    \A s \in Active : row[s].state = "healthy" /\ reg[s] = "live" =>
        loop[s] # "off" \/ ~IsTmux(s) \/ s \in starting

\* A healthy row of a session that is not here is one the pass still looks at.
Unclaimed(s) == s \in Active /\ row[s].state = "healthy" /\ reg[s] = "absent"
RestoreLooks ==
    restore.pc \in {"discover", "next", "verify", "hosted", "done"} =>
        \A s \in Sessions : Unclaimed(s) => s \in restore.rows

\* A session that was just hosted again, and that the loop has given up meanwhile,
\* can not be called healthy any more.
HostedWatched ==
    restore.pc = "hosted" =>
        /\ reg[restore.cur] # "absent"
        /\ reg[restore.cur] = "live" /\ loop[restore.cur] = "off" =>
               row[restore.cur].state \notin {"reconnecting", "recovering"}

SessionInv ==
    /\ TypeOK /\ TargetNamed /\ StartingRegistered /\ HandKnown
    /\ LiveWatched /\ RestoreLooks /\ HostedWatched
-----------------------------------------------------------------------------
(* The sets of TypeOK, by name, and what is done to a row.                 *)
Sess    == [kind : {"none", "managed", "attached", "pty"}, target : Sessions \cup {"none"}]
Row     == [state : (States \ {"terminated"}) \cup {"absent"}, ended : {FALSE}]
               \cup [state : {"terminated"}, ended : {TRUE}]
Restore == [pc : {"rows", "discover", "next", "verify", "hosted", "done", "skipped", "down"},
            rows : SUBSET Sessions, found : SUBSET Sessions, failed : BOOLEAN,
            owned : SUBSET Sessions, cur : Sessions \cup {"none"}]

MachineOK ==
    /\ tmux \in [Sessions -> Sessions \cup {"none", "foreign"}]
    /\ reachable \in BOOLEAN /\ boots \in 0..MaxBoots /\ outages \in 0..MaxOutages

DaemonOK ==
    /\ sess \in [Sessions -> Sess]
    /\ row \in [Sessions -> Row]
    /\ reg \in [Sessions -> {"absent", "live", "ended"}]
    /\ loop \in [Sessions -> {"off", "ok", "lost"}]
    /\ starting \subseteq Sessions /\ ender \in [Sessions -> {"none", "killed", "marking"}]
    /\ restore \in Restore

LEMMA TypeParts == TypeOK <=> MachineOK /\ DaemonOK
  BY DEF TypeOK, MachineOK, DaemonOK, Sess, Row, Restore

\* The states a transition of the loop or of the restore pass goes to.
Nexts == {"healthy", "reconnecting", "recovering", "orphaned", "failed"}

LEMMA MovedRow ==
    ASSUME NEW r \in Row, NEW next \in Nexts
    PROVE  /\ Moved(r, next) \in Row /\ Moved(r, next).ended = r.ended
           /\ r.ended => Moved(r, next) = r
           /\ r.state = "absent" <=> Moved(r, next).state = "absent"
  BY DEF Row, Nexts, Moved, Allowed, States

\* Only a row that is watched again, or about to be, becomes healthy.
LEMMA MovedHealthy ==
    ASSUME NEW r \in Row, NEW next \in Nexts, Moved(r, next).state = "healthy"
    PROVE  \/ r.state = "healthy" /\ next = "healthy"
           \/ next = "healthy" /\ r.state \in {"reconnecting", "recovering"}
  BY DEF Row, Nexts, Moved, Allowed, States

\* A row that is given up is not one that can be healthy again without a new pass.
LEMMA MovedOrphaned ==
    ASSUME NEW r \in Row PROVE Moved(r, "orphaned").state \notin {"healthy", "reconnecting", "recovering"}
  BY DEF Row, Moved, Allowed, States

LEMMA EndedRow ==
    ASSUME NEW r \in Row
    PROVE  /\ Ended(r) \in Row /\ Ended(r).state \notin {"healthy", "reconnecting", "recovering"}
           /\ r.ended => Ended(r) = r
           /\ r.state # "absent" => Ended(r).ended
  BY DEF Row, Ended, States

LEMMA Rows ==
    /\ NoRow \in Row /\ NoRow.state = "absent" /\ ~NoRow.ended
    /\ NewRow \in Row /\ NewRow.state = "healthy" /\ ~NewRow.ended
<1>1. NoRow \in Row /\ NoRow.state = "absent" /\ ~NoRow.ended
  BY DEF Row, NoRow, States
<1>2. NewRow \in Row /\ NewRow.state = "healthy" /\ ~NewRow.ended
  BY DEF Row, NewRow, States
<1> QED
  BY <1>1, <1>2

\* The fields of the restore pass.
LEMMA IdleRestore ==
    ASSUME NEW pc \in {"rows", "done", "skipped", "down"}
    PROVE  Idle(pc) \in Restore /\ Idle(pc).pc = pc /\ Idle(pc).rows = {}
  BY DEF Restore, Idle
-----------------------------------------------------------------------------
LEMMA InitInv == Init => SessionInv
<1> SUFFICES ASSUME Init PROVE SessionInv
  OBVIOUS
<1>1. MachineOK
  BY SessionAssumption DEF Init, MachineOK
<1>2. DaemonOK
  <2>1. NoSession \in Sess
    BY DEF NoSession, Sess
  <2> QED
    BY <2>1, Rows, IdleRestore DEF Init, DaemonOK
<1>3. Active = {}
  BY Rows DEF Init, Active
<1>4. restore.pc = "rows"
  BY IdleRestore DEF Init
<1> QED
  BY <1>1, <1>2, <1>3, <1>4, TypeParts
     DEF Init, SessionInv, NoSession, IsTmux, TargetNamed, StartingRegistered, HandKnown, LiveWatched, RestoreLooks, HostedWatched

\* Every step keeps the machine's part of the state in its sets.
LEMMA NextMachineOK == TypeOK /\ [Next]_vars => MachineOK'
<1> SUFFICES ASSUME MachineOK, DaemonOK, [Next]_vars PROVE MachineOK'
  BY TypeParts
<1> USE SessionAssumption DEF MachineOK
<1>1. CASE UNCHANGED <<tmux, reachable, boots, outages>>
  BY <1>1
<1>2. ASSUME NEW s \in Sessions, StartTmux(s) \/ KillTarget(s) PROVE MachineOK'
  BY <1>2 DEF StartTmux, Begin, KillTarget
<1>3. CASE TmuxStep
  <2>1. tmux' \in [Sessions -> Sessions \cup {"none", "foreign"}]
    BY <1>3 DEF TmuxStep, TargetDies, TargetTaken, Outage, Recovers
  <2>2. reachable' \in BOOLEAN
    BY <1>3 DEF TmuxStep, TargetDies, TargetTaken, Outage, Recovers
  <2>3. outages' \in 0..MaxOutages /\ boots' = boots
    BY <1>3 DEF TmuxStep, TargetDies, TargetTaken, Outage, Recovers
  <2> QED
    BY <2>1, <2>2, <2>3
<1>4. CASE Crash
  BY <1>4 DEF Crash
<1> QED
  BY <1>1, <1>2, <1>3, <1>4
     DEF Next, vars, StartStep, Spawn, AttachTmux, Begin, Persist, EndStep, KillerMarks, Exits, MarkEnded,
         MarkRow, LoopStep, RestoreStep, Boot

-----------------------------------------------------------------------------
(* The steps of Next as far as they matter to a session of the daemon.     *)
Untouched == UNCHANGED <<sess, row, reg, starting, loop, restore>>

LEMMA NextCases ==
    ASSUME [Next]_vars
    PROVE  \/ Untouched /\ (ender' = ender \/ \E s \in Sessions : ender' = [ender EXCEPT ![s] = "killed"])
           \/ \E s \in Sessions, kind \in {"managed", "attached", "pty"}, t \in Sessions \cup {"none"} :
                 Begin(s, kind, t) /\ (kind # "pty" => t \in Sessions)
           \/ \E s \in Sessions : Persist(s) \/ MarkEnded(s) \/ MarkRow(s) \/ LoopStep(s)
           \/ RestoreStep \/ Crash \/ Boot("rows") \/ Boot("skipped")
<1>1. CASE UNCHANGED vars \/ TmuxStep
  BY <1>1 DEF vars, TmuxStep, Outage, Recovers, TargetDies, TargetTaken, Untouched
<1>2. ASSUME NEW s \in Sessions, StartStep(s)
      PROVE  \/ \E kind \in {"managed", "attached", "pty"}, t \in Sessions \cup {"none"} :
                   Begin(s, kind, t) /\ (kind # "pty" => t \in Sessions)
             \/ Persist(s)
  BY <1>2 DEF StartStep, StartTmux, Spawn, AttachTmux
<1>3. ASSUME NEW s \in Sessions, EndStep(s)
      PROVE  \/ Untouched /\ ender' = [ender EXCEPT ![s] = "killed"]
             \/ MarkEnded(s) \/ MarkRow(s)
  BY <1>3 DEF EndStep, KillTarget, KillerMarks, Exits, Untouched
<1> QED
  BY <1>1, <1>2, <1>3 DEF Next
-----------------------------------------------------------------------------
\* Every step keeps the daemon's part of the state in its sets.
LEMMA NextDaemonOK ==
    DaemonOK /\ TargetNamed /\ HandKnown /\ [Next]_vars => DaemonOK' /\ TargetNamed'
<1> SUFFICES ASSUME DaemonOK, TargetNamed, HandKnown, [Next]_vars PROVE DaemonOK' /\ TargetNamed'
  OBVIOUS
<1> USE DEF DaemonOK, TargetNamed, IsTmux
<1>1. CASE Untouched /\ (ender' = ender \/ \E s \in Sessions : ender' = [ender EXCEPT ![s] = "killed"])
  BY <1>1 DEF Untouched
<1>2. ASSUME NEW s \in Sessions, NEW kind \in {"managed", "attached", "pty"},
             NEW t \in Sessions \cup {"none"}, Begin(s, kind, t), kind # "pty" => t \in Sessions
      PROVE  DaemonOK' /\ TargetNamed'
  <2> DEFINE new == [kind |-> kind, target |-> t]
  <2>1. new \in Sess /\ (new.kind # "pty" => new.target \in Sessions)
    BY <1>2 DEF Sess
  <2>2. sess' = [sess EXCEPT ![s] = new]
    BY <1>2 DEF Begin
  <2> HIDE DEF new
  <2>3. sess' \in [Sessions -> Sess] /\ TargetNamed'
    BY <2>1, <2>2
  <2>4. reg' \in [Sessions -> {"absent", "live", "ended"}] /\ starting' \subseteq Sessions
    BY <1>2 DEF Begin
  <2> QED
    BY <1>2, <2>3, <2>4 DEF Begin
<1>3. ASSUME NEW s \in Sessions, Persist(s) PROVE DaemonOK' /\ TargetNamed'
  BY <1>3, Rows DEF Persist
<1>4. ASSUME NEW s \in Sessions, MarkEnded(s) PROVE DaemonOK' /\ TargetNamed'
  BY <1>4 DEF MarkEnded
<1>5. ASSUME NEW s \in Sessions, MarkRow(s) PROVE DaemonOK' /\ TargetNamed'
  BY <1>5, EndedRow DEF MarkRow
<1>6. ASSUME NEW s \in Sessions, LoopStep(s) PROVE DaemonOK' /\ TargetNamed'
  <2>1. row' \in [Sessions -> Row]
    BY <1>6, MovedRow
       DEF LoopStep, LoopStops, LoopDisconnects, LoopReconnects, LoopTimesOut, Transition, Nexts
  <2>2. loop' \in [Sessions -> {"off", "ok", "lost"}]
    BY <1>6 DEF LoopStep, LoopStops, LoopDisconnects, LoopReconnects, LoopTimesOut
  <2> QED
    BY <1>6, <2>1, <2>2 DEF LoopStep
<1>7. CASE RestoreStep
  <2>1. UNCHANGED <<sess, starting, ender>>
    BY <1>7 DEF RestoreStep
  <2>2. restore' \in Restore
    <3>1. CASE ReadRows
      BY <3>1 DEF ReadRows, Restore, Active
    <3>2. CASE Discover
      <4> DEFINE owned == {sess[s].target : s \in {x \in Sessions : reg[x] # "absent" /\ IsTmux(x)}}
                 found == IF Listed THEN Targets ELSE {}
                 failed == ~Listed
                 rows == {s \in restore.rows : reg[s] = "absent"}
      <4>1. owned \subseteq Sessions
        OBVIOUS
      <4>2. found \subseteq Sessions
        BY DEF Targets
      <4>3. failed \in BOOLEAN
        OBVIOUS
      <4>4. rows \subseteq Sessions
        BY DEF Restore
      <4>5. restore' = [restore EXCEPT !.pc = "next", !.failed = failed, !.found = found,
                                       !.owned = owned, !.rows = rows]
        BY <3>2 DEF Discover
      <4>6. restore \in Restore
        OBVIOUS
      <4> HIDE DEF owned, found, failed, rows, DaemonOK, TargetNamed
      <4> QED
        BY <4>1, <4>2, <4>3, <4>4, <4>5, <4>6 DEF Restore
    <3>3. ASSUME NEW s \in Sessions, RestoreRefuses(s) PROVE restore' \in Restore
      BY <3>3 DEF RestoreRefuses, Restore
    <3>7. ASSUME NEW s \in Sessions, RestoreBegins(s) PROVE restore' \in Restore
      BY <3>7 DEF RestoreBegins, Restore
    <3>4. CASE RestorePostpones \/ RestoreOrphans \/ RestoreHosts
      BY ZenonT(40), <3>4 DEF RestorePostpones, RestoreOrphans, RestoreHosts, Restore
    <3>5. CASE RestoreHeals
      BY <3>5 DEF RestoreHeals, HandKnown, Restore
    <3>6. CASE RestoreDone
      BY <3>6, IdleRestore DEF RestoreDone
    <3> QED
      BY <1>7, <3>1, <3>2, <3>3, <3>4, <3>5, <3>6, <3>7 DEF RestoreStep
  <2>3. row' \in [Sessions -> Row]
    <3>1. row' = row \/ \E s \in Sessions, next \in Nexts : Transition(s, next)
      BY <1>7
         DEF RestoreStep, ReadRows, Discover, RestoreRefuses, RestoreBegins, RestorePostpones, RestoreOrphans,
             RestoreHosts, RestoreHeals, RestoreDone, HandKnown, Nexts
    <3> QED
      BY <3>1, MovedRow DEF Transition
  <2>4. /\ reg' \in [Sessions -> {"absent", "live", "ended"}]
        /\ loop' \in [Sessions -> {"off", "ok", "lost"}]
    BY <1>7
       DEF RestoreStep, ReadRows, Discover, RestoreRefuses, RestoreBegins, RestorePostpones, RestoreOrphans,
           RestoreHosts, RestoreHeals, RestoreDone
  <2> QED
    BY <2>1, <2>2, <2>3, <2>4
<1>8. CASE Crash
  BY <1>8, IdleRestore DEF Crash
<1>9. CASE Boot("rows") \/ Boot("skipped")
  BY <1>9, IdleRestore DEF Boot
<1> QED
  BY <1>1, <1>2, <1>3, <1>4, <1>5, <1>6, <1>7, <1>8, <1>9, NextCases

\* Every step keeps who is registered, and what the pass has in hand.
LEMMA NextHand ==
    SessionInv /\ [Next]_vars => StartingRegistered' /\ HandKnown'
<1> SUFFICES ASSUME DaemonOK, StartingRegistered, HandKnown, [Next]_vars
             PROVE  StartingRegistered' /\ HandKnown'
  BY TypeParts DEF SessionInv
<1> USE DEF DaemonOK, StartingRegistered, HandKnown
<1>1. CASE Untouched
  BY <1>1 DEF Untouched, IsTmux
<1>2. ASSUME NEW s \in Sessions, NEW kind \in {"managed", "attached", "pty"},
             NEW t \in Sessions \cup {"none"}, Begin(s, kind, t)
      PROVE  StartingRegistered' /\ HandKnown'
  <2>1. /\ \A q \in Sessions : IsTmux(q) => q # s /\ sess'[q] = sess[q]
        /\ starting' = starting \cup {s} /\ reg' = [reg EXCEPT ![s] = "live"] /\ restore' = restore
    BY <1>2 DEF Begin, IsTmux, NoSession
  <2> QED
    BY <2>1 DEF IsTmux
<1>3. ASSUME NEW s \in Sessions, Persist(s) \/ MarkEnded(s) \/ MarkRow(s) \/ LoopStep(s)
      PROVE  StartingRegistered' /\ HandKnown'
  <2>1. UNCHANGED <<sess, restore>>
    BY <1>3 DEF Persist, MarkEnded, MarkRow, LoopStep
  <2>2. /\ starting' \subseteq starting
        /\ reg' = reg \/ reg' = [reg EXCEPT ![s] = "ended"]
    BY <1>3 DEF Persist, MarkEnded, MarkRow, LoopStep
  <2> QED
    BY <2>1, <2>2 DEF IsTmux
<1>4. CASE RestoreStep
  <2>1. /\ UNCHANGED <<sess, starting>>
        /\ reg' = reg \/ reg' = [reg EXCEPT ![restore.cur] = "live"]
    BY <1>4
       DEF RestoreStep, ReadRows, Discover, RestoreRefuses, RestoreBegins, RestorePostpones, RestoreOrphans,
           RestoreHosts, RestoreHeals, RestoreDone
  <2>2. /\ restore'.pc \in {"verify", "hosted"} => restore'.cur \in Sessions /\ IsTmux(restore'.cur)
        /\ restore'.pc = "done" => restore'.rows = {}
    <3>1. CASE ReadRows \/ Discover \/ RestorePostpones \/ RestoreOrphans \/ RestoreHeals
      BY ZenonT(40), <3>1 DEF ReadRows, Discover, RestorePostpones, RestoreOrphans, RestoreHeals, Restore
    <3>2. ASSUME NEW s \in Sessions, RestoreRefuses(s) \/ RestoreBegins(s)
          PROVE  /\ restore'.pc \in {"verify", "hosted"} => restore'.cur \in Sessions /\ IsTmux(restore'.cur)
                 /\ restore'.pc # "done"
      BY <3>2 DEF RestoreRefuses, RestoreBegins, Restore
    <3>3. CASE RestoreHosts
      BY <3>3 DEF RestoreHosts, Restore
    <3>4. CASE RestoreDone
      BY <3>4, IdleRestore DEF RestoreDone
    <3> QED
      BY <1>4, <3>1, <3>2, <3>3, <3>4 DEF RestoreStep
  <2> QED
    BY <2>1, <2>2 DEF IsTmux
<1>5. CASE Crash \/ Boot("rows") \/ Boot("skipped")
  BY <1>5, IdleRestore DEF Crash, Boot
<1> QED
  BY <1>1, <1>2, <1>3, <1>4, <1>5, NextCases
-----------------------------------------------------------------------------
\* Where one session, s, is watched if it has to be, and the others keep what they have,
\* all are.
LEMMA OneWatched ==
    ASSUME LiveWatched, NEW s \in Sessions,
           \A q \in Sessions \ {s} :
              /\ row'[q] = row[q] /\ reg'[q] = reg[q] /\ loop'[q] = loop[q] /\ sess'[q] = sess[q]
              /\ q \in starting => q \in starting',
           row'[s].state = "healthy" /\ reg'[s] = "live" =>
              loop'[s] # "off" \/ ~IsTmux(s)' \/ s \in starting'
    PROVE  LiveWatched'
  BY DEF LiveWatched, Active, IsTmux

\* Every step keeps the healthy rows of living sessions watched.
LEMMA NextWatched == SessionInv /\ [Next]_vars => LiveWatched'
<1> SUFFICES ASSUME DaemonOK, HandKnown, LiveWatched, HostedWatched, [Next]_vars
             PROVE  LiveWatched'
  BY TypeParts DEF SessionInv
<1> USE DEF DaemonOK
<1>1. CASE Untouched
  BY <1>1 DEF Untouched, LiveWatched, Active, IsTmux
<1>2. ASSUME NEW s \in Sessions, NEW kind \in {"managed", "attached", "pty"},
             NEW t \in Sessions \cup {"none"}, Begin(s, kind, t)
      PROVE  LiveWatched'
  BY <1>2, OneWatched DEF Begin
<1>3. ASSUME NEW s \in Sessions, Persist(s) PROVE LiveWatched'
  BY <1>3, OneWatched DEF Persist, IsTmux
<1>4. ASSUME NEW s \in Sessions, MarkEnded(s) PROVE LiveWatched'
  BY <1>4, OneWatched DEF MarkEnded
<1>5. ASSUME NEW s \in Sessions, MarkRow(s) PROVE LiveWatched'
  BY <1>5, OneWatched, EndedRow DEF MarkRow
<1>6. ASSUME NEW s \in Sessions, LoopStep(s) PROVE LiveWatched'
  <2>1. CASE LoopStops(s)
    BY <1>6, <2>1, OneWatched DEF LoopStep, LoopStops
  <2>2. CASE LoopDisconnects(s) \/ LoopReconnects(s)
    BY <1>6, <2>2, OneWatched DEF LoopStep, LoopDisconnects, LoopReconnects, Transition
  <2>3. CASE LoopTimesOut(s)
    BY <1>6, <2>3, OneWatched, MovedOrphaned DEF LoopStep, LoopTimesOut, Transition
  <2> QED
    BY <1>6, <2>1, <2>2, <2>3 DEF LoopStep
<1>7. CASE RestoreStep
  <2>1. UNCHANGED <<sess, starting>>
    BY <1>7 DEF RestoreStep
  <2>2. CASE ReadRows \/ Discover \/ RestoreDone
    BY <2>1, <2>2 DEF ReadRows, Discover, RestoreDone, LiveWatched, Active, IsTmux
  <2>3. ASSUME NEW s \in Sessions, RestoreRefuses(s) \/ RestoreBegins(s) PROVE LiveWatched'
    <3>1. /\ UNCHANGED <<reg, loop>>
          /\ Transition(s, "failed") \/ Transition(s, "recovering")
      BY <2>3 DEF RestoreRefuses, RestoreBegins
    <3>2. row'[s].state # "healthy"
      BY <3>1, MovedHealthy DEF Transition, Nexts
    <3> QED
      BY <2>1, <3>1, <3>2, OneWatched DEF Transition
  <2>4. CASE RestorePostpones \/ RestoreOrphans
    <3> DEFINE s == restore.cur
    <3>1. /\ UNCHANGED <<reg, loop>> /\ s \in Sessions
          /\ Transition(s, "reconnecting") \/ Transition(s, "orphaned")
      BY <2>4 DEF RestorePostpones, RestoreOrphans, HandKnown
    <3> HIDE DEF s
    <3>2. row'[s].state # "healthy"
      BY <3>1, MovedHealthy DEF Transition, Nexts
    <3> QED
      BY <2>1, <3>1, <3>2, OneWatched DEF Transition
  <2>5. CASE RestoreHosts
    <3> DEFINE s == restore.cur
    <3>1. /\ row' = row /\ reg' = [reg EXCEPT ![s] = "live"] /\ loop' = [loop EXCEPT ![s] = "ok"]
          /\ s \in Sessions
      BY <2>5 DEF RestoreHosts, HandKnown
    <3> HIDE DEF s
    <3> QED
      BY <2>1, <3>1, OneWatched
  <2>6. CASE RestoreHeals
    <3> DEFINE s == restore.cur
    <3>1. /\ UNCHANGED <<reg, loop>> /\ s \in Sessions /\ Transition(s, "healthy")
          /\ reg[s] = "live" /\ loop[s] = "off" => row[s].state \notin {"reconnecting", "recovering"}
      BY <2>6 DEF RestoreHeals, HandKnown, HostedWatched
    <3> HIDE DEF s
    <3>2. row'[s].state = "healthy" =>
             row[s].state = "healthy" \/ row[s].state \in {"reconnecting", "recovering"}
      BY <3>1, MovedHealthy DEF Transition, Nexts
    <3>3. row[s].state = "healthy" => s \in Active
      BY <3>1 DEF Active, Row
    <3>4. reg[s] = "live" /\ row'[s].state = "healthy" =>
             loop[s] # "off" \/ ~IsTmux(s) \/ s \in starting
      BY <3>1, <3>2, <3>3 DEF LiveWatched
    <3> QED
      BY <2>1, <3>1, <3>4, OneWatched DEF Transition, IsTmux
  <2> QED
    BY <1>7, <2>2, <2>3, <2>4, <2>5, <2>6 DEF RestoreStep
<1>8. CASE Crash \/ Boot("rows") \/ Boot("skipped")
  BY <1>8 DEF Crash, Boot, LiveWatched, Active, IsTmux
<1> QED
  BY <1>1, <1>2, <1>3, <1>4, <1>5, <1>6, <1>7, <1>8, NextCases
-----------------------------------------------------------------------------
\* Where nothing becomes unclaimed, and the pass stays where it is, it has all to look at.
LEMMA NothingUnclaimed ==
    ASSUME RestoreLooks, restore' = restore,
           \A s \in Sessions : Unclaimed(s)' => Unclaimed(s)
    PROVE  RestoreLooks'
  BY DEF RestoreLooks

\* Every step keeps the unclaimed rows before the restore pass.
LEMMA NextLooks == SessionInv /\ [Next]_vars => RestoreLooks'
<1> SUFFICES ASSUME DaemonOK, StartingRegistered, HandKnown, RestoreLooks, HostedWatched, [Next]_vars
             PROVE  RestoreLooks'
  BY TypeParts DEF SessionInv
<1> USE DEF DaemonOK, Unclaimed, Active
<1>1. CASE Untouched
  BY <1>1, NothingUnclaimed DEF Untouched
<1>2. ASSUME NEW s \in Sessions, NEW kind \in {"managed", "attached", "pty"},
             NEW t \in Sessions \cup {"none"}, Begin(s, kind, t)
      PROVE  RestoreLooks'
  BY <1>2, NothingUnclaimed DEF Begin
<1>3. ASSUME NEW s \in Sessions, Persist(s) PROVE RestoreLooks'
  BY <1>3, NothingUnclaimed DEF Persist, StartingRegistered
<1>4. ASSUME NEW s \in Sessions, MarkEnded(s) PROVE RestoreLooks'
  BY <1>4, NothingUnclaimed DEF MarkEnded
<1>5. ASSUME NEW s \in Sessions, MarkRow(s) PROVE RestoreLooks'
  BY <1>5, NothingUnclaimed, EndedRow DEF MarkRow
<1>6. ASSUME NEW s \in Sessions, LoopStep(s) PROVE RestoreLooks'
  <2>1. /\ UNCHANGED <<reg, restore>>
        /\ \A q \in Sessions \ {s} : row'[q] = row[q]
        /\ row' = row \/ reg[s] = "live"
    BY <1>6 DEF LoopStep, LoopStops, LoopDisconnects, LoopReconnects, LoopTimesOut, Watching, Transition
  <2> QED
    BY <2>1, NothingUnclaimed
<1>7. CASE RestoreStep
  <2>1. CASE ReadRows
    BY <2>1 DEF ReadRows, Restore, RestoreLooks
  <2>2. CASE Discover
    <3>1. /\ UNCHANGED <<row, reg>> /\ restore.pc = "discover"
          /\ restore'.rows = {s \in restore.rows : reg[s] = "absent"}
      BY <2>2 DEF Discover, Restore
    <3> QED
      BY <3>1 DEF RestoreLooks
  <2>3. ASSUME NEW s \in Sessions, RestoreRefuses(s) \/ RestoreBegins(s) PROVE RestoreLooks'
    <3>1. /\ reg' = reg /\ restore.pc = "next" /\ restore'.rows = restore.rows \ {s}
          /\ Transition(s, "failed") \/ Transition(s, "recovering")
      BY <2>3 DEF RestoreRefuses, RestoreBegins, Restore
    <3>2. row'[s].state # "healthy" /\ \A q \in Sessions \ {s} : row'[q] = row[q]
      BY <3>1, MovedHealthy DEF Transition, Nexts
    <3> QED
      BY <3>1, <3>2 DEF RestoreLooks
  <2>4. CASE RestorePostpones \/ RestoreOrphans
    <3> DEFINE s == restore.cur
    <3>1. /\ reg' = reg /\ restore.pc = "verify" /\ restore'.rows = restore.rows /\ s \in Sessions
          /\ Transition(s, "reconnecting") \/ Transition(s, "orphaned")
      BY <2>4 DEF RestorePostpones, RestoreOrphans, HandKnown, Restore
    <3> HIDE DEF s
    <3>2. row'[s].state # "healthy" /\ \A q \in Sessions \ {s} : row'[q] = row[q]
      BY <3>1, MovedHealthy DEF Transition, Nexts
    <3> QED
      BY <3>1, <3>2 DEF RestoreLooks
  <2>5. CASE RestoreHosts
    <3>1. /\ row' = row /\ \A s \in Sessions : reg'[s] = "absent" => reg[s] = "absent"
          /\ restore.pc = "verify" /\ restore'.rows = restore.rows
      BY <2>5 DEF RestoreHosts, Restore
    <3> QED
      BY <3>1 DEF RestoreLooks
  <2>6. CASE RestoreHeals
    <3> DEFINE s == restore.cur
    <3>1. /\ reg' = reg /\ restore.pc = "hosted" /\ restore'.rows = restore.rows /\ s \in Sessions
          /\ reg[s] # "absent" /\ Transition(s, "healthy")
      BY <2>6 DEF RestoreHeals, HandKnown, HostedWatched, Restore
    <3> HIDE DEF s
    <3>2. \A q \in Sessions \ {s} : row'[q] = row[q]
      BY <3>1 DEF Transition
    <3> QED
      BY <3>1, <3>2 DEF RestoreLooks
  <2>7. CASE RestoreDone
    BY <2>7 DEF RestoreDone, RestoreLooks
  <2> QED
    BY <1>7, <2>1, <2>2, <2>3, <2>4, <2>5, <2>6, <2>7 DEF RestoreStep
<1>8. CASE Crash \/ Boot("rows") \/ Boot("skipped")
  BY <1>8, IdleRestore DEF Crash, Boot, RestoreLooks
<1> QED
  BY <1>1, <1>2, <1>3, <1>4, <1>5, <1>6, <1>7, <1>8, NextCases
-----------------------------------------------------------------------------
\* Every step keeps a session that was just hosted again from being called healthy
\* when nobody watches it.
LEMMA NextHosted == SessionInv /\ [Next]_vars => HostedWatched'
<1> SUFFICES ASSUME DaemonOK, HandKnown, HostedWatched, [Next]_vars PROVE HostedWatched'
  BY TypeParts DEF SessionInv
<1> USE DEF DaemonOK
<1> DEFINE c == restore.cur
<1>0. restore.pc = "hosted" => /\ c \in Sessions /\ IsTmux(c) /\ reg[c] # "absent"
                               /\ reg[c] = "live" /\ loop[c] = "off" =>
                                     row[c].state \notin {"reconnecting", "recovering"}
  BY DEF HandKnown, HostedWatched
<1>1. CASE Untouched
  BY <1>1 DEF Untouched, HostedWatched
<1>2. ASSUME NEW s \in Sessions, NEW kind \in {"managed", "attached", "pty"},
             NEW t \in Sessions \cup {"none"}, Begin(s, kind, t)
      PROVE  HostedWatched'
  <2>1. /\ UNCHANGED <<restore, row, loop>> /\ ~IsTmux(s) /\ reg' = [reg EXCEPT ![s] = "live"]
    BY <1>2 DEF Begin, IsTmux, NoSession
  <2> QED
    BY <1>0, <2>1 DEF HostedWatched
<1>3. ASSUME NEW s \in Sessions, Persist(s) PROVE HostedWatched'
  BY <1>0, <1>3 DEF Persist, HostedWatched
<1>4. ASSUME NEW s \in Sessions, MarkEnded(s) PROVE HostedWatched'
  BY <1>0, <1>4 DEF MarkEnded, HostedWatched
<1>5. ASSUME NEW s \in Sessions, MarkRow(s) PROVE HostedWatched'
  BY <1>0, <1>5, EndedRow DEF MarkRow, HostedWatched
<1>6. ASSUME NEW s \in Sessions, LoopStep(s) PROVE HostedWatched'
  <2>1. UNCHANGED <<restore, reg>>
    BY <1>6 DEF LoopStep
  <2>2. /\ \A q \in Sessions \ {s} : row'[q] = row[q] /\ loop'[q] = loop[q]
        /\ \/ reg[s] = "ended"
           \/ loop'[s] # "off"
           \/ row'[s].state \notin {"reconnecting", "recovering"}
    BY <1>6, MovedOrphaned
       DEF LoopStep, LoopStops, LoopDisconnects, LoopReconnects, LoopTimesOut, Transition
  <2> QED
    BY <1>0, <2>1, <2>2 DEF HostedWatched
<1>7. CASE RestoreStep
  <2>1. CASE RestoreHosts
    <3>1. /\ restore'.cur = c /\ c \in Sessions
          /\ reg' = [reg EXCEPT ![c] = "live"] /\ loop' = [loop EXCEPT ![c] = "ok"]
      BY <2>1 DEF RestoreHosts, HandKnown, Restore
    <3> QED
      BY <3>1 DEF HostedWatched
  <2>2. CASE ~RestoreHosts
    <3>1. restore'.pc # "hosted"
      BY ZenonT(40), <1>7, <2>2, IdleRestore
         DEF RestoreStep, ReadRows, Discover, RestoreRefuses, RestoreBegins, RestorePostpones, RestoreOrphans,
             RestoreHeals, RestoreDone, Restore
    <3> QED
      BY <3>1 DEF HostedWatched
  <2> QED
    BY <2>1, <2>2
<1>8. CASE Crash \/ Boot("rows") \/ Boot("skipped")
  BY <1>8, IdleRestore DEF Crash, Boot, HostedWatched
<1> QED
  BY <1>1, <1>2, <1>3, <1>4, <1>5, <1>6, <1>7, <1>8, NextCases
-----------------------------------------------------------------------------
LEMMA NextInv == SessionInv /\ [Next]_vars => SessionInv'
<1> SUFFICES ASSUME SessionInv, [Next]_vars PROVE SessionInv'
  OBVIOUS
<1>1. MachineOK'
  BY NextMachineOK DEF SessionInv
<1>2. DaemonOK' /\ TargetNamed'
  BY NextDaemonOK, TypeParts DEF SessionInv
<1>3. (MachineOK /\ DaemonOK => TypeOK)'
  BY TypeParts, PTL
<1>4. StartingRegistered' /\ HandKnown'
  BY NextHand
<1>5. LiveWatched' /\ RestoreLooks' /\ HostedWatched'
  BY NextWatched, NextLooks, NextHosted
<1> QED
  BY <1>1, <1>2, <1>3, <1>4, <1>5 DEF SessionInv

\* The registry, the rows, the restore pass and the capture loops stay in step, as above,
\* whatever starts, ends, dies or crashes.
THEOREM SessionInvariant == Spec => []SessionInv
<1> QED
  BY InitInv, NextInv, PTL DEF Spec

\* No step writes to a row that has ended: markSessionEnded, the capture loop and the
\* restore pass all go through a transaction that leaves it alone.
LEMMA NextFinal ==
    SessionInv /\ [Next]_vars => \A s \in Sessions : row[s].ended => row'[s] = row[s]
<1> SUFFICES ASSUME DaemonOK, HandKnown, [Next]_vars
             PROVE  \A s \in Sessions : row[s].ended => row'[s] = row[s]
  BY TypeParts DEF SessionInv
<1> USE DEF DaemonOK
<1>1. ASSUME NEW s \in Sessions, Persist(s) PROVE \A q \in Sessions : row[q].ended => row'[q] = row[q]
  BY <1>1, Rows DEF Persist
<1>2. ASSUME NEW s \in Sessions, MarkRow(s) PROVE \A q \in Sessions : row[q].ended => row'[q] = row[q]
  BY <1>2, EndedRow DEF MarkRow
<1>3. ASSUME NEW s \in Sessions, NEW next \in Nexts, Transition(s, next)
      PROVE  \A q \in Sessions : row[q].ended => row'[q] = row[q]
  BY <1>3, MovedRow DEF Transition
<1>4. ASSUME NEW s \in Sessions, LoopStep(s)
      PROVE  row' = row \/ \E next \in Nexts : Transition(s, next)
  BY <1>4 DEF LoopStep, LoopStops, LoopDisconnects, LoopReconnects, LoopTimesOut, Nexts
<1>5. ASSUME RestoreStep
      PROVE  row' = row \/ \E s \in Sessions, next \in Nexts : Transition(s, next)
  BY <1>5
     DEF RestoreStep, ReadRows, Discover, RestoreRefuses, RestoreBegins, RestorePostpones, RestoreOrphans,
         RestoreHosts, RestoreHeals, RestoreDone, HandKnown, Nexts
<1>6. \/ row' = row
      \/ \E s \in Sessions : Persist(s) \/ MarkRow(s) \/ LoopStep(s)
      \/ RestoreStep
  BY NextCases DEF Untouched, Begin, MarkEnded, Crash, Boot
<1> QED
  BY <1>1, <1>2, <1>3, <1>4, <1>5, <1>6

\* TerminatedFinal: a session that was ended stays ended, whoever still writes to its row.
THEOREM EndedIsFinal == Spec => TerminatedFinal
<1> DEFINE final == \A s \in Sessions : row[s].ended => row'[s] = row[s]
<1>1. SessionInv /\ [Next]_vars => [final]_vars
  BY NextFinal
<1> HIDE DEF final
<1>2. Spec => [][final]_vars
  BY <1>1, SessionInvariant, PTL DEF Spec
<1> QED
  BY <1>2 DEF TerminatedFinal, final

LEMMA InvWatched == SessionInv => HealthyIsWatched
<1> SUFFICES ASSUME SessionInv, restore.pc = "done", NEW s \in Active, row[s].state = "healthy"
             PROVE  /\ reg[s] # "absent"
                    /\ reg[s] = "live" => loop[s] # "off" \/ ~IsTmux(s) \/ s \in starting
  BY DEF HealthyIsWatched
<1>1. reg[s] # "absent"
  BY DEF SessionInv, HandKnown, RestoreLooks, Unclaimed, Active
<1>2. reg[s] = "live" => loop[s] # "off" \/ ~IsTmux(s) \/ s \in starting
  BY DEF SessionInv, LiveWatched
<1> QED
  BY <1>1, <1>2

\* HealthyIsWatched: once restoreSessions is over, a row that calls itself healthy
\* belongs to a session of this daemon, whose pane is watched while it lives.
THEOREM HealthyAreWatched == Spec => []HealthyIsWatched
<1> QED
  BY SessionInvariant, InvWatched, PTL
-----------------------------------------------------------------------------
LEMMA AttachSteps == [AttachNext]_allvars => [Next]_vars
<1> SUFFICES ASSUME [AttachNext]_allvars PROVE [Next]_vars
  OBVIOUS
<1>1. CASE UNCHANGED allvars \/ (AttachStep /\ UNCHANGED vars)
  BY <1>1 DEF allvars
<1>2. ASSUME NEW q \in Calls, EndKills(q) PROVE [Next]_vars
  <2>1. KillTarget(Viewed) \/ UNCHANGED vars
    BY <1>2 DEF EndKills
  <2>2. Viewed \in Sessions
    BY AttachAssumption
  <2> QED
    BY <2>1, <2>2 DEF Next, EndStep
<1> QED
  BY <1>1, <1>2 DEF AttachNext

\* The composition with the browser's tmux clients implements the sessions alone: its
\* steps end a session's target the way any other end does, or leave sessions alone.
THEOREM AttachImplementsSessions == AttachSpec => Spec
<1>1. AttachInit => Init
  BY DEF AttachInit
<1> QED
  BY <1>1, AttachSteps, PTL DEF AttachSpec, Spec

\* Both properties hold of the composition too.
THEOREM AttachKeepsSessions == AttachSpec => TerminatedFinal /\ []HealthyIsWatched
<1> QED
  BY AttachImplementsSessions, EndedIsFinal, HealthyAreWatched
-----------------------------------------------------------------------------
(* The clients.  An attachment that is under way is the pending one, and     *)
(* there is no client in the map until it ends; only HTTP requests take a    *)
(* client out of the map.                                                    *)

Clients == [life : {"free", "live", "doomed", "dead"}, owner : Requesters \cup {"none"}]
Waiting == [pc : {"idle", "ensure", "wait", "spawn", "attach", "using", "return",
                  "detach", "unmap", "close", "kill"},
            host : Hosts \cup {"none"}, why : Whys \cup {"none"}]

ClientsOK ==
    /\ host \in [Hosts -> Clients]
    /\ mapped \in Hosts \cup {"none"} /\ pending \in Requesters \cup {"none"}
    /\ req \in [Requesters -> Waiting]

OnlyPendingSpawns ==
    /\ \A q \in Requesters : req[q].pc \in {"spawn", "attach"} <=> pending = q
    /\ pending # "none" => mapped = "none"

CallsDisplace ==
    \A q \in Requesters : req[q].pc \in {"detach", "unmap", "close", "kill"} => q \in Calls

AttachInv == ClientsOK /\ OnlyPendingSpawns /\ CallsDisplace /\ HostsOwned

LEMMA NamesDiffer == "none" \notin Hosts /\ "none" \notin Requesters /\ Calls \subseteq Requesters
BY AttachAssumption DEF Requesters

LEMMA DoomedClients ==
    ASSUME ClientsOK, NEW H
    PROVE  /\ Doomed(H) \in [Hosts -> Clients]
           /\ \A h \in Hosts : Doomed(H)[h].life = "live" => host[h].life = "live" /\ h \notin H
BY DEF ClientsOK, Clients, Doomed, Going

\* Every step of the composition is one of these.
LEMMA AttachCases ==
    ASSUME [AttachNext]_allvars
    PROVE  \/ UNCHANGED avars
           \/ Stopped
           \/ \E q \in Requesters :
                 Attach(q) \/ Detach(q) \/ Unmap(q) \/ CloseHost(q) \/ Reuse(q) \/ Wait(q) \/ BeginSpawn(q)
                 \/ DetachOthers(q) \/ SpawnFails(q) \/ Acts(q, FALSE) \/ Acts(q, TRUE) \/ Return(q) \/ Leave(q)
           \/ \E q \in Requesters, h \in Hosts : Spawned(q, h)
           \/ \E q \in Calls, why \in {"phone", "mac", "headless", "end"} : Displace(q, why)
           \/ \E q \in Calls : EndKills(q)
           \/ \E h \in Hosts : HostExits(h) \/ Clear(h)
<1>1. CASE UNCHANGED allvars
  BY <1>1 DEF allvars
<1>2. CASE AttachStep
  BY <1>2 DEF AttachStep, Handler, Ensure, HostStep
<1> QED
  BY <1>1, <1>2 DEF AttachNext

\* What a step of one request does to the requests.
LEMMA RequestMoves ==
    ASSUME ClientsOK, NEW q \in Requesters
    PROVE  /\ Detach(q) \/ CloseHost(q) =>
                /\ pending' = pending /\ mapped' = mapped
                /\ req'[q].pc \in {"idle", "unmap", "ensure", "kill"}
                /\ req[q].pc \in {"detach", "close"}
                /\ \A w \in Requesters \ {q} : req'[w] = req[w]
           /\ Acts(q, FALSE) \/ Acts(q, TRUE) =>
                /\ req' \in [Requesters -> Waiting] /\ pending' = pending /\ mapped' = mapped
                /\ At(q, "using") /\ req'[q].pc = "return" /\ \A w \in Requesters \ {q} : req'[w] = req[w]
<1>1. ASSUME Detach(q) PROVE /\ pending' = pending /\ mapped' = mapped /\ req[q].pc = "detach"
                             /\ req'[q].pc \in {"idle", "unmap"}
                             /\ \A w \in Requesters \ {q} : req'[w] = req[w]
  BY <1>1 DEF Detach, ClientsOK, Waiting, AtRestIf, AtRest, At
<1>2. ASSUME CloseHost(q) PROVE /\ pending' = pending /\ mapped' = mapped /\ req[q].pc = "close"
                                /\ req'[q].pc \in {"idle", "ensure", "kill"}
                                /\ \A w \in Requesters \ {q} : req'[w] = req[w]
  BY <1>2 DEF CloseHost, ClientsOK, Waiting, AtRestIf, AtRest, At
<1>3. ASSUME Acts(q, FALSE) \/ Acts(q, TRUE)
      PROVE  /\ req' = [req EXCEPT ![q] = [@ EXCEPT !.pc = "return", !.host = "none"]]
             /\ At(q, "using") /\ pending' = pending /\ mapped' = mapped
  BY <1>3 DEF Acts
<1>4. [req[q] EXCEPT !.pc = "return", !.host = "none"] \in Waiting
  BY DEF ClientsOK, Waiting
<1>5. [req[q] EXCEPT !.pc = "return", !.host = "none"].pc = "return"
  BY DEF ClientsOK, Waiting
<1> QED
  BY <1>1, <1>2, <1>3, <1>4, <1>5 DEF ClientsOK

LEMMA InitAttach == AttachInit => AttachInv
BY NamesDiffer DEF AttachInit, AttachInv, ClientsOK, Clients, Waiting, OnlyPendingSpawns, CallsDisplace,
   HostsOwned, NoLeakedHost, WaitersAwaited, NoHost, AtRest, At

LEMMA NextClients == AttachInv /\ [AttachNext]_allvars => ClientsOK'
<1> SUFFICES ASSUME AttachInv, [AttachNext]_allvars PROVE ClientsOK'
  OBVIOUS
<1> USE NamesDiffer DEF AttachInv, ClientsOK
<1>d. \A H : Doomed(H) \in [Hosts -> Clients]
  BY DoomedClients
<1>r. AtRest \in Waiting
  BY DEF AtRest, Waiting
<1>f. \A q \in Requesters, r \in Waiting : Finish(q, r) =>
          req' \in [Requesters -> Waiting] /\ pending' \in Requesters \cup {"none"}
  BY DEF Finish, Waiting
<1>v. \A q \in Requesters, h \in Hosts : Serve(q, h) \in Waiting
  BY DEF Serve, Waiting
<1>1. CASE UNCHANGED avars
  BY <1>1 DEF avars
<1>2. CASE Stopped
  BY <1>2, <1>r DEF Stopped, NoHost, Clients
<1>3. ASSUME NEW q \in Requesters, Attach(q) PROVE ClientsOK'
  BY <1>3 DEF Attach, Waiting, Whys
<1>4. ASSUME NEW q \in Requesters, Detach(q) PROVE ClientsOK'
  BY <1>4, <1>d, <1>r DEF Detach, AtRestIf, Waiting
<1>5. ASSUME NEW q \in Requesters, Unmap(q) PROVE ClientsOK'
  BY <1>5 DEF Unmap, Waiting
<1>6. ASSUME NEW q \in Requesters, CloseHost(q) PROVE ClientsOK'
  <2>1. host' \in [Hosts -> Clients] /\ UNCHANGED <<mapped, pending>>
    BY <1>6, <1>d DEF CloseHost
  <2>2. \A pc \in {"ensure", "kill"} : [req[q] EXCEPT !.pc = pc, !.host = "none"] \in Waiting
    BY DEF Waiting
  <2>3. PICK r \in Waiting : req' = [req EXCEPT ![q] = r]
    BY <1>6, <1>r, <2>2 DEF CloseHost, AtRestIf
  <2> QED
    BY <2>1, <2>3
<1>7. ASSUME NEW q \in Requesters, Reuse(q) PROVE ClientsOK'
  BY <1>7, <1>v DEF Reuse
<1>8. ASSUME NEW q \in Requesters, Wait(q) \/ BeginSpawn(q) \/ DetachOthers(q) PROVE ClientsOK'
  BY <1>8, <1>d DEF Wait, BeginSpawn, DetachOthers, Goto, Waiting
<1>9. ASSUME NEW q \in Requesters, SpawnFails(q) PROVE ClientsOK'
  BY <1>9, <1>f, <1>r DEF SpawnFails
<1>10. ASSUME NEW q \in Requesters, Acts(q, FALSE) \/ Acts(q, TRUE) PROVE ClientsOK'
  <2>1. host' = Doomed({req[q].host}) \/ host' = host
    BY <1>10 DEF Acts
  <2>2. host' \in [Hosts -> Clients]
    BY <2>1, <1>d
  <2> QED
    BY <1>10, <2>2, RequestMoves DEF Acts
<1>11. ASSUME NEW q \in Requesters, Return(q) \/ Leave(q) PROVE ClientsOK'
  BY <1>11, <1>d, <1>r DEF Return, Leave
<1>12. ASSUME NEW q \in Requesters, NEW h \in Hosts, Spawned(q, h) PROVE ClientsOK'
  BY <1>12, <1>f, <1>v DEF Spawned, Clients
<1>13. ASSUME NEW q \in Calls, NEW why \in {"phone", "mac", "headless", "end"}, Displace(q, why)
       PROVE  ClientsOK'
  BY <1>13 DEF Displace, Waiting, Whys
<1>14. ASSUME NEW q \in Calls, EndKills(q) PROVE ClientsOK'
  BY <1>14, <1>r DEF EndKills
<1>15. ASSUME NEW h \in Hosts, HostExits(h) \/ Clear(h) PROVE ClientsOK'
  BY <1>15 DEF HostExits, Clear, Clients, NoHost
<1> QED
  BY AttachCases, <1>1, <1>2, <1>3, <1>4, <1>5, <1>6, <1>7, <1>8, <1>9, <1>10, <1>11, <1>12, <1>13, <1>14, <1>15

LEMMA NextPending == AttachInv /\ [AttachNext]_allvars => OnlyPendingSpawns' /\ CallsDisplace'
<1> SUFFICES ASSUME AttachInv, [AttachNext]_allvars PROVE OnlyPendingSpawns' /\ CallsDisplace'
  OBVIOUS
<1> USE NamesDiffer DEF AttachInv, ClientsOK, OnlyPendingSpawns, CallsDisplace
<1>r. AtRest.pc = "idle"
  BY DEF AtRest
<1>v. \A q \in Requesters, h \in Hosts : Serve(q, h).pc \in {"return", "using"}
  BY DEF Serve, Waiting
<1>1. CASE UNCHANGED avars
  BY <1>1 DEF avars
<1>2. CASE Stopped
  BY <1>2, <1>r DEF Stopped
<1>3. ASSUME NEW q \in Requesters, Attach(q) PROVE OnlyPendingSpawns' /\ CallsDisplace'
  BY <1>3 DEF Attach, At
<1>4. ASSUME NEW q \in Requesters, Detach(q) \/ CloseHost(q) PROVE OnlyPendingSpawns' /\ CallsDisplace'
  BY ZenonT(40), <1>4, RequestMoves DEF At
<1>5. ASSUME NEW q \in Requesters, Unmap(q) PROVE OnlyPendingSpawns' /\ CallsDisplace'
  BY <1>5 DEF Unmap, At
<1>6. ASSUME NEW q \in Requesters, Reuse(q) PROVE OnlyPendingSpawns' /\ CallsDisplace'
  BY <1>6, <1>v DEF Reuse, At
<1>7. ASSUME NEW q \in Requesters, Wait(q) \/ BeginSpawn(q) \/ DetachOthers(q)
      PROVE  OnlyPendingSpawns' /\ CallsDisplace'
  <2>1. CASE Wait(q)
    BY <2>1 DEF Wait, Goto, At
  <2>2. CASE BeginSpawn(q)
    BY <2>2 DEF BeginSpawn, Goto, At
  <2>3. CASE DetachOthers(q)
    BY <2>3 DEF DetachOthers, Goto, At
  <2> QED
    BY <1>7, <2>1, <2>2, <2>3
<1>8. ASSUME NEW q \in Requesters, NEW r, r.pc \in {"idle", "return", "using"}, At(q, "attach"), Finish(q, r)
      PROVE  OnlyPendingSpawns' /\ CallsDisplace'
  BY <1>8 DEF Finish, Woken, At
<1>9. ASSUME NEW q \in Requesters, SpawnFails(q) PROVE OnlyPendingSpawns' /\ CallsDisplace'
  BY <1>8, <1>9, <1>r DEF SpawnFails
<1>10. ASSUME NEW q \in Requesters, Acts(q, FALSE) \/ Acts(q, TRUE) PROVE OnlyPendingSpawns' /\ CallsDisplace'
  BY ZenonT(40), <1>10, RequestMoves DEF At
<1>11. ASSUME NEW q \in Requesters, Return(q) \/ Leave(q) PROVE OnlyPendingSpawns' /\ CallsDisplace'
  BY <1>11, <1>r DEF Return, Leave, At
<1>12. ASSUME NEW q \in Requesters, NEW h \in Hosts, Spawned(q, h) PROVE OnlyPendingSpawns' /\ CallsDisplace'
  BY <1>8, <1>12, <1>v DEF Spawned
<1>13. ASSUME NEW q \in Calls, NEW why \in {"phone", "mac", "headless", "end"}, Displace(q, why)
       PROVE  OnlyPendingSpawns' /\ CallsDisplace'
  BY <1>13 DEF Displace, At
<1>14. ASSUME NEW q \in Calls, EndKills(q) PROVE OnlyPendingSpawns' /\ CallsDisplace'
  BY <1>14, <1>r DEF EndKills, At
<1>15. ASSUME NEW h \in Hosts, HostExits(h) \/ Clear(h) PROVE OnlyPendingSpawns' /\ CallsDisplace'
  BY <1>15 DEF HostExits, Clear
<1> QED
  BY AttachCases, <1>1, <1>2, <1>3, <1>4, <1>5, <1>6, <1>7, <1>9, <1>10, <1>11, <1>12, <1>13, <1>14, <1>15

LEMMA NextAwaited == ASSUME AttachInv, [AttachNext]_allvars PROVE WaitersAwaited'
<1> SUFFICES ASSUME NEW w \in Requesters, At(w, "wait")'
             PROVE  pending' # "none"
  <2>1. OnlyPendingSpawns' /\ ClientsOK'
    BY NextPending, NextClients
  <2> QED
    BY <2>1, NamesDiffer DEF WaitersAwaited, OnlyPendingSpawns, ClientsOK
<1> USE NamesDiffer DEF AttachInv, ClientsOK, HostsOwned, WaitersAwaited
<1>r. AtRest.pc = "idle"
  BY DEF AtRest
<1>v. \A q \in Requesters, h \in Hosts : Serve(q, h).pc \in {"return", "using"}
  BY DEF Serve, Waiting
<1>a. At(w, "wait") => pending # "none"
  OBVIOUS
<1>1. CASE UNCHANGED avars
  BY <1>1, <1>a DEF avars, At
<1>2. CASE Stopped
  BY <1>2, <1>r DEF Stopped, At
<1>3. ASSUME NEW q \in Requesters, Attach(q) PROVE pending' # "none"
  BY <1>3, <1>a DEF Attach, At
<1>4. ASSUME NEW q \in Requesters, Detach(q) \/ CloseHost(q) PROVE pending' # "none"
  BY <1>4, <1>a, RequestMoves DEF At
<1>5. ASSUME NEW q \in Requesters, Unmap(q) PROVE pending' # "none"
  BY <1>5, <1>a DEF Unmap, At
<1>6. ASSUME NEW q \in Requesters, Reuse(q) PROVE pending' # "none"
  BY <1>6, <1>a, <1>v DEF Reuse, At
<1>7. ASSUME NEW q \in Requesters, Wait(q) \/ BeginSpawn(q) \/ DetachOthers(q) PROVE pending' # "none"
  <2>1. CASE Wait(q)
    BY <2>1, <1>a DEF Wait, Goto, At
  <2>2. CASE BeginSpawn(q)
    BY <2>2 DEF BeginSpawn, Goto, At
  <2>3. CASE DetachOthers(q)
    BY <2>3, <1>a DEF DetachOthers, Goto, At
  <2> QED
    BY <1>7, <2>1, <2>2, <2>3
<1>8. ASSUME NEW q \in Requesters, NEW r, r.pc \in {"idle", "return", "using"}, Finish(q, r) PROVE FALSE
  BY <1>8 DEF Finish, Woken, At
<1>9. ASSUME NEW q \in Requesters, SpawnFails(q) PROVE FALSE
  BY <1>8, <1>9, <1>r DEF SpawnFails
<1>10. ASSUME NEW q \in Requesters, Acts(q, FALSE) \/ Acts(q, TRUE) PROVE pending' # "none"
  BY <1>10, <1>a, RequestMoves DEF At
<1>11. ASSUME NEW q \in Requesters, Return(q) \/ Leave(q) PROVE pending' # "none"
  BY <1>11, <1>a, <1>r DEF Return, Leave, At
<1>12. ASSUME NEW q \in Requesters, NEW h \in Hosts, Spawned(q, h) PROVE FALSE
  BY <1>8, <1>12, <1>v DEF Spawned
<1>13. ASSUME NEW q \in Calls, NEW why \in {"phone", "mac", "headless", "end"}, Displace(q, why)
       PROVE  pending' # "none"
  BY <1>13, <1>a DEF Displace, At
<1>14. ASSUME NEW q \in Calls, EndKills(q) PROVE pending' # "none"
  BY <1>14, <1>a, <1>r DEF EndKills, At
<1>15. ASSUME NEW h \in Hosts, HostExits(h) \/ Clear(h) PROVE pending' # "none"
  BY <1>15, <1>a DEF HostExits, Clear, At
<1> QED
  BY AttachCases, <1>1, <1>2, <1>3, <1>4, <1>5, <1>6, <1>7, <1>9, <1>10, <1>11, <1>12, <1>13, <1>14, <1>15

\* Whoever has taken h out of the map is still about to close it.
Closes(q, h) == At(q, "close") /\ req[q].host = h

LEMMA NextLeaked == AttachInv /\ [AttachNext]_allvars => NoLeakedHost'
<1> SUFFICES ASSUME AttachInv, [AttachNext]_allvars, NEW k \in Hosts, host'[k].life = "live"
             PROVE  (mapped = k \/ \E c \in Calls : Closes(c, k))'
  BY DEF NoLeakedHost, Closes, At
<1> USE NamesDiffer DEF AttachInv, ClientsOK
<1> DEFINE Kept == (mapped = k \/ \E c \in Calls : Closes(c, k))'
<1>a. host[k].life = "live" => mapped = k \/ \E c \in Calls : Closes(c, k)
  BY DEF HostsOwned, NoLeakedHost, Closes, At
<1>d. \A H : Doomed(H)[k].life = "live" => host[k].life = "live" /\ k \notin H
  BY DoomedClients
\* a step of another request, and one that keeps its hands off the map, changes nothing
<1>o. ASSUME NEW q \in Requesters, host[k].life = "live", mapped' = mapped, ~At(q, "close"),
             \A c \in Requesters \ {q} : At(c, "close") => req'[c] = req[c]
      PROVE  Kept
  BY <1>a, <1>o DEF Closes, At
<1>1. CASE UNCHANGED avars
  BY <1>1, <1>a DEF avars, Closes, At
<1>2. CASE Stopped
  BY <1>2 DEF Stopped, NoHost
<1>3. ASSUME NEW q \in Requesters, Attach(q) PROVE Kept
  BY <1>3, <1>o DEF Attach, At
<1>4. ASSUME NEW q \in Requesters, Detach(q) PROVE Kept
  <2>1. host[k].life = "live"
    BY <1>4, <1>d DEF Detach
  <2> QED
    BY <1>4, <1>o, <2>1 DEF Detach, AtRestIf, At
<1>5. ASSUME NEW q \in Requesters, Unmap(q) PROVE Kept
  <2>1. host[k].life = "live" /\ q \in Calls
    BY <1>5 DEF Unmap, At, CallsDisplace
  <2>2. CASE mapped = k
    BY <1>5, <2>1, <2>2 DEF Unmap, Closes, At, Waiting
  <2>3. CASE \E c \in Calls : Closes(c, k)
    <3>1. PICK c \in Calls : Closes(c, k)
      BY <2>3
    <3> QED
      BY <1>5, <3>1 DEF Unmap, Closes, At
  <2> QED
    BY <1>a, <2>1, <2>2, <2>3
<1>6. ASSUME NEW q \in Requesters, CloseHost(q) PROVE Kept
  <2>1. host[k].life = "live" /\ k # req[q].host
    BY <1>6, <1>d DEF CloseHost
  <2>2. CASE mapped = k
    BY <1>6, <2>2 DEF CloseHost
  <2>3. CASE \E c \in Calls : Closes(c, k)
    <3>1. PICK c \in Calls : Closes(c, k)
      BY <2>3
    <3>2. c # q
      BY <2>1, <3>1 DEF Closes
    <3> QED
      BY <1>6, <3>1, <3>2 DEF CloseHost, AtRestIf, Closes, At
  <2> QED
    BY <1>a, <2>1, <2>2, <2>3
<1>7. ASSUME NEW q \in Requesters, Reuse(q) PROVE Kept
  BY <1>7, <1>o DEF Reuse, At
<1>8. ASSUME NEW q \in Requesters, Wait(q) \/ BeginSpawn(q) \/ DetachOthers(q) PROVE Kept
  <2>1. host[k].life = "live"
    BY <1>8, <1>d DEF Wait, BeginSpawn, DetachOthers
  <2> QED
    BY <1>8, <1>o, <2>1 DEF Wait, BeginSpawn, DetachOthers, Goto, At
<1>9. ASSUME NEW q \in Requesters, SpawnFails(q) PROVE Kept
  BY <1>9, <1>o DEF SpawnFails, Finish, Woken, At
<1>10. ASSUME NEW q \in Requesters, Acts(q, FALSE) \/ Acts(q, TRUE) PROVE Kept
  <2>1. host' = Doomed({req[q].host}) \/ host' = host
    BY <1>10 DEF Acts
  <2>2. host[k].life = "live"
    BY <2>1, <1>d
  <2> QED
    BY <1>10, <1>o, <2>2 DEF Acts, At
<1>11. ASSUME NEW q \in Requesters, Return(q) \/ Leave(q) PROVE Kept
  <2>1. host[k].life = "live"
    BY <1>11, <1>d DEF Return, Leave
  <2> QED
    BY <1>11, <1>o, <2>1 DEF Return, Leave, At
\* nothing was in the map, so no client loses its place there
<1>12. ASSUME NEW q \in Requesters, NEW h \in Hosts, Spawned(q, h) PROVE Kept
  <2>1. CASE k = h
    BY <1>12, <2>1 DEF Spawned
  <2>2. CASE k # h
    <3>1. host[k].life = "live"
      BY <1>12, <2>2 DEF Spawned
    <3>2. mapped = "none"
      BY <1>12 DEF Spawned, At, OnlyPendingSpawns
    <3>3. PICK c \in Calls : Closes(c, k)
      BY <1>a, <3>1, <3>2
    <3> QED
      BY <1>12, <3>3 DEF Spawned, Finish, Woken, Closes, At
  <2> QED
    BY <2>1, <2>2
<1>13. ASSUME NEW q \in Calls, NEW why \in {"phone", "mac", "headless", "end"}, Displace(q, why) PROVE Kept
  BY <1>13, <1>o DEF Displace, At
<1>14. ASSUME NEW q \in Calls, EndKills(q) PROVE Kept
  BY <1>14, <1>o DEF EndKills, At
<1>15. ASSUME NEW h \in Hosts, HostExits(h) \/ Clear(h) PROVE Kept
  <2>1. k # h /\ host[k].life = "live" /\ req' = req
    BY <1>15 DEF HostExits, Clear, NoHost
  <2>2. mapped = k => mapped' = k
    BY <1>15, <2>1 DEF HostExits, Clear
  <2> QED
    BY <1>a, <2>1, <2>2 DEF Closes, At
<1> QED
  BY AttachCases, <1>1, <1>2, <1>3, <1>4, <1>5, <1>6, <1>7, <1>8, <1>9, <1>10, <1>11, <1>12, <1>13, <1>14, <1>15

THEOREM AttachInvariant == AttachSpec => []AttachInv
<1>1. AttachInv /\ [AttachNext]_allvars => AttachInv'
  BY NextClients, NextPending, NextAwaited, NextLeaked DEF AttachInv, HostsOwned
<1> QED
  BY InitAttach, <1>1, PTL DEF AttachSpec

\* HostsOwned: whoever displaces, kills or loses a tmux client, one that lives can still
\* be found by whoever has to close it, and nobody waits for an attachment that is over.
THEOREM ClientsAreOwned == AttachSpec => []HostsOwned
<1>1. AttachInv => HostsOwned
  BY DEF AttachInv
<1> QED
  BY <1>1, AttachInvariant, PTL

=============================================================================
