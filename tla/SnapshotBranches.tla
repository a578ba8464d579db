-------------------------- MODULE SnapshotBranches --------------------------
(***************************************************************************)
(* Session snapshots: `onibi snapshot`, restore and fork, by the CLI over  *)
(* the intake socket and by the phone.  A snapshot is a row; the transcript *)
(* a fork branches from is not in it.  The transcript is looked up by the  *)
(* working directory, the newest file of that directory, and a fork        *)
(* rewrites it in place before it starts the branch.                       *)
(***************************************************************************)
EXTENDS Naturals, Sequences, FiniteSets

CONSTANTS Sessions,           \* sessions, running or not yet started
          Dirs, Names,        \* working directories, names of snapshots
          Nothing,            \* no directory, no file, no fork
          MaxTurns, MaxRows, MaxForks, MaxSeconds

ASSUME SnapshotAssumption ==
    /\ Nothing \notin Dirs \cup Sessions
    /\ {MaxTurns, MaxRows, MaxForks, MaxSeconds} \subseteq Nat

VARIABLES dir,         \* where a session runs; Nothing before it starts
          running,     \* sessions in the registry whose process runs
          transcript,  \* the turns in the file of each session
          newest,      \* the session whose file was modified last in a directory
          snapshots,   \* the rows of the table
          fork,        \* the fork under way
          branch,      \* the last fork that has rewritten a transcript
          disturbed,   \* rows whose transcript is no longer the one they saw
          second, turns, forks, taken

sourceVars == <<dir, running, transcript, newest>>
snapshotVars == <<sourceVars, snapshots, fork, branch, disturbed, second, turns, forks, taken>>

SnapshotsInit ==
    /\ \E first \in Sessions, d \in Dirs :
          /\ dir = [s \in Sessions |-> IF s = first THEN d ELSE Nothing]
          /\ running = {first}
    /\ transcript = [s \in Sessions |-> <<>>]
    /\ newest = [d \in Dirs |-> Nothing]
    /\ snapshots = {} /\ fork = Nothing /\ branch = Nothing /\ disturbed = {}
    /\ second = 0 /\ turns = 0 /\ forks = 0 /\ taken = 0

RowsIn(d) == {r.id : r \in {x \in snapshots : x.dir = d}}

-----------------------------------------------------------------------------
(* The agents *)

\* a prompt or an answer; the first one of another session hides the file of the others
Turn(s) ==
    /\ s \in running /\ turns < MaxTurns /\ turns' = turns + 1
    /\ transcript' = [transcript EXCEPT ![s] = Append(@, <<"turn", turns>>)]
    /\ newest' = [newest EXCEPT ![dir[s]] = s]
    /\ disturbed' = IF newest[dir[s]] \in {s, Nothing} THEN disturbed ELSE disturbed \cup RowsIn(dir[s])
    /\ UNCHANGED <<dir, running, snapshots, fork, branch, second, forks, taken>>

End(s) ==
    /\ s \in running
    /\ running' = running \ {s}
    /\ UNCHANGED <<dir, transcript, newest, snapshots, fork, branch, disturbed, second, turns, forks, taken>>

\* a session is added to the registry with a fresh identity
Register(s, d) ==
    /\ dir[s] = Nothing
    /\ dir' = [dir EXCEPT ![s] = d]
    /\ running' = running \cup {s}

StartSession(s, d) ==
    /\ Register(s, d)
    /\ UNCHANGED <<transcript, newest, snapshots, fork, branch, disturbed, second, turns, forks, taken>>

-----------------------------------------------------------------------------
(* Snapshots *)

HasTranscript(d) == newest[d] # Nothing

\* the newest transcript of the directory, of which the row keeps the size; another session may have written it
Seen(d) == IF HasTranscript(d) THEN transcript[newest[d]] ELSE <<>>

RowOf(s, name) == [id |-> taken, name |-> name, dir |-> dir[s], at |-> second, seen |-> Seen(dir[s])]

Take(s, name) ==
    /\ s \in running /\ taken < MaxRows /\ taken' = taken + 1
    /\ snapshots' = snapshots \cup {RowOf(s, name)}
    /\ disturbed' = IF newest[dir[s]] \in {s, Nothing} THEN disturbed ELSE disturbed \cup {taken}
    /\ UNCHANGED <<sourceVars, fork, branch, second, turns, forks>>

Delete(name) ==
    /\ \E r \in snapshots : r.name = name
    /\ snapshots' = {r \in snapshots : r.name # name}
    /\ UNCHANGED <<sourceVars, fork, branch, disturbed, second, turns, forks, taken>>

\* one of the rows of that name with the latest second
Latest(name) ==
    {r \in snapshots : r.name = name /\ \A x \in snapshots : x.name = name => x.at <= r.at}

\* the command of the snapshot runs again, in a session of its own; the transcript stays
Restore(name, s) ==
    /\ \E r \in Latest(name) : Register(s, r.dir)
    /\ UNCHANGED <<transcript, newest, snapshots, fork, branch, disturbed, second, turns, forks, taken>>

-----------------------------------------------------------------------------
(* Fork: read the transcript, write the branch beside it, rename, start *)

Shorter(a, b) == IF a < b THEN a ELSE b

\* mutant: turn n itself is left out
FirstTurnsLess(lines, n) == SubSeq(lines, 1, Shorter(n, Len(lines)) - 1)

FirstTurns(lines, n) == SubSeq(lines, 1, Shorter(n, Len(lines)))

\* the row the owner means, and those that no second tells apart from it
LastTaken(name) == CHOOSE r \in snapshots : r.name = name /\ \A x \in snapshots : x.name = name => x.id <= r.id
SameSecond(name) == {r \in snapshots : r.name = name /\ r.at = LastTaken(name).at}

ForkRead(name, n) ==
    /\ fork = Nothing /\ forks < MaxForks /\ forks' = forks + 1
    /\ \E r \in Latest(name) :
          /\ newest[r.dir] # Nothing
          /\ fork' = [row |-> r, turn |-> n, file |-> newest[r.dir],
                      lines |-> Append(FirstTurns(transcript[newest[r.dir]], n), <<"prompt", forks>>),
                      renamed |-> FALSE, meant |-> LastTaken(name),
                      clear |-> LastTaken(name).id \notin disturbed /\ Cardinality(SameSecond(name)) = 1]
    /\ UNCHANGED <<sourceVars, snapshots, branch, disturbed, second, turns, taken>>

\* what the agent has appended since is gone
ForkRename ==
    /\ fork # Nothing /\ ~fork.renamed
    /\ transcript' = [transcript EXCEPT ![fork.file] = fork.lines]
    /\ newest' = [newest EXCEPT ![dir[fork.file]] = fork.file]
    /\ branch' = fork
    /\ fork' = [fork EXCEPT !.renamed = TRUE]
    /\ disturbed' = disturbed \cup RowsIn(dir[fork.file])
    /\ UNCHANGED <<dir, running, snapshots, second, turns, forks, taken>>

ForkStart(s) ==
    /\ fork # Nothing /\ fork.renamed
    /\ Register(s, fork.row.dir)
    /\ fork' = Nothing
    /\ UNCHANGED <<transcript, newest, snapshots, branch, disturbed, second, turns, forks, taken>>

\* a write, or the start of the branch, fails; a rewritten transcript stays rewritten
ForkFails ==
    /\ fork # Nothing /\ fork' = Nothing
    /\ UNCHANGED <<sourceVars, snapshots, branch, disturbed, second, turns, forks, taken>>

SecondPasses ==
    /\ second < MaxSeconds /\ second' = second + 1
    /\ UNCHANGED <<sourceVars, snapshots, fork, branch, disturbed, turns, forks, taken>>

-----------------------------------------------------------------------------
SnapshotsNext ==
    \/ \E s \in Sessions : Turn(s) \/ End(s) \/ ForkStart(s)
    \/ \E s \in Sessions, d \in Dirs : StartSession(s, d)
    \/ \E s \in Sessions, name \in Names : Take(s, name) \/ Restore(name, s)
    \/ \E name \in Names : Delete(name) \/ \E n \in 0 .. MaxTurns : ForkRead(name, n)
    \/ ForkRename \/ ForkFails \/ SecondPasses

SnapshotsSpec == SnapshotsInit /\ [][SnapshotsNext]_snapshotVars

(* A fork branches from the snapshot that was named: the branch starts with
   the turns that the transcript of the snapshotted session had when the
   newest snapshot of that name was taken, as far as the chosen turn, and goes
   on with the new prompt.  The exceptions are a transcript that another
   session of the directory, or an earlier fork, has taken the place of
   (FindClaude is given no session; rewriteTranscriptForFork works in place),
   and two snapshots of one name within a second. *)
BranchFaithful ==
    branch # Nothing /\ branch.clear =>
        LET kept == Len(branch.lines) - 1
            owed == Shorter(branch.turn, Len(branch.meant.seen))
        IN  /\ owed <= kept /\ kept <= branch.turn
            /\ SubSeq(branch.lines, 1, owed) = SubSeq(branch.meant.seen, 1, owed)
            /\ branch.lines[kept + 1][1] = "prompt"
=============================================================================
