----------------------------- MODULE HookInstall -----------------------------
(***************************************************************************)
(* The provider adapters (internal/adapters): `onibi agent install`, its   *)
(* --uninstall, `onibi system uninstall` and `onibi doctor --fix` edit a   *)
(* hook file that belongs to the coding agent and to its user, save what   *)
(* was there, and record the hash of what they wrote in the store.         *)
(*                                                                         *)
(* The eight adapters share one life and differ in a few policies: one     *)
(* record per adapter names them, and the actions read the record.         *)
(*                                                                         *)
(* A file is Absent, Garbage (it does not parse), or for every event a     *)
(* sequence of matcher groups, each a sequence of hooks.  A plugin source  *)
(* (amp, opencode, pi) is one hook.  "old" and "new" are the hooks of the  *)
(* previous and of this release, "edited" one the user altered; all three  *)
(* are recognised as Onibi's.  A hash is the text it is taken of.          *)
(***************************************************************************)
EXTENDS Naturals, Sequences, FiniteSets

CONSTANTS
    Agents,         \* names of the adapters to check
    HookEvents,     \* events a JSON adapter hooks
    OwnerHooks,     \* hooks of the user
    Absent, Garbage, NoRecord,
    MaxCommands,    \* bound: commands started
    MaxEdits,       \* bound: edits of the file by the user or the provider
    MaxKills        \* bound: commands that die (or return an error) half way

\* keeps: what install leaves of the file; skips: when install has nothing to
\* do; saves, savesLast: when install and uninstall back the file up first;
\* removes: uninstall deletes the file; creates: uninstall of an absent file
\* writes an empty one; needs: events that make the hooks count as present.
Claude == [keeps |-> "groups", skips |-> "never", saves |-> "always",
           savesLast |-> "always", removes |-> FALSE, creates |-> TRUE, needs |-> "every"]
Codex == [keeps |-> "hooks", skips |-> "never", saves |-> "always",
          savesLast |-> "always", removes |-> FALSE, creates |-> TRUE, needs |-> "some"]
Gemini == [keeps |-> "hooks", skips |-> "verified", saves |-> "unverified",
           savesLast |-> "unverified", removes |-> FALSE, creates |-> FALSE, needs |-> "some"]
Goose == [keeps |-> "hooks", skips |-> "verified", saves |-> "unverified",
          savesLast |-> "unverified", removes |-> FALSE, creates |-> FALSE, needs |-> "some"]
Copilot == [keeps |-> "nothing", skips |-> "verified", saves |-> "always",
            savesLast |-> "unverified", removes |-> TRUE, creates |-> FALSE, needs |-> "some"]
Amp == [keeps |-> "nothing", skips |-> "same", saves |-> "always",
        savesLast |-> "unverified", removes |-> TRUE, creates |-> FALSE, needs |-> "body"]
OpenCode == [keeps |-> "nothing", skips |-> "same", saves |-> "always",
             savesLast |-> "unverified", removes |-> TRUE, creates |-> FALSE, needs |-> "body"]
Pi == [keeps |-> "nothing", skips |-> "never", saves |-> "always",
       savesLast |-> "always", removes |-> TRUE, creates |-> FALSE, needs |-> "body"]

Adapter == [claude |-> Claude, codex |-> Codex, gemini |-> Gemini, goose |-> Goose,
            copilot |-> Copilot, amp |-> Amp, opencode |-> OpenCode, pi |-> Pi]

Hooks == {"old", "new", "edited"} \cup OwnerHooks

\* Absent, Garbage and NoRecord stand for no file and no record: none of them is
\* a text that parses, or one that a hash is taken of.
ASSUME HookInstallAssumption ==
    /\ Agents \subseteq DOMAIN Adapter /\ HookEvents # {}
    /\ {MaxCommands, MaxEdits, MaxKills} \subseteq Nat
    /\ {"old", "new", "edited"} \cap OwnerHooks = {}
    /\ Absent # Garbage
    /\ \A S \in {HookEvents, {"body"}} :
          /\ {Absent, Garbage, NoRecord} \cap [S -> Seq(Seq(Hooks))] = {}
          /\ NoRecord \notin [S -> Seq(Hooks)]

VARIABLES
    agent,      \* the adapter this behaviour is about
    file,       \* the provider's hook file
    rec,        \* hooks row: the managed text recorded at install, or NoRecord
    saved,      \* hook-backups: files whole or torn, and hook_backups rows
    command,    \* the command under way, and what it has read
    adopted,    \* history: the record was taken from the file by doctor --fix
    spent       \* bound: commands, edits and kills so far

hookVars == <<agent, file, rec, saved, command, adopted, spent>>

policy == Adapter[agent]
Slots == IF policy.needs = "body" THEN {"body"} ELSE HookEvents
Empty == [e \in Slots |-> <<>>]

Idle == [op |-> "none", pc |-> "idle", read |-> Absent, source |-> Absent, calm |-> TRUE]
-----------------------------------------------------------------------------
\* isManaged of each adapter, and extractEventHook for a group of claude.
Managed(h) == h \in {"old", "new", "edited"}
ManagedGroup(g) == \E i \in DOMAIN g : Managed(g[i])

\* A missing file and an empty one read as a configuration without hooks.
Parsed(f) == IF f = Absent THEN Empty ELSE f

\* Where the hooks of an event are: group and place in the group.
Places(groups) == UNION {{i} \X DOMAIN groups[i] : i \in DOMAIN groups}
ManagedPlaces(groups) == {p \in Places(groups) : Managed(groups[p[1]][p[2]])}

\* The elements of s that are at the places of keep, in their order.
Picked(s, keep) ==
    [n \in 1 .. Cardinality(keep) |->
        s[CHOOSE i \in keep : Cardinality({j \in keep : j <= i}) = n]]

\* The managed hooks of an event, group by group.
UpTo(p, q) == q[1] < p[1] \/ (q[1] = p[1] /\ q[2] <= p[2])
ManagedHooks(groups) ==
    LET found == ManagedPlaces(groups)
        nth(n) == CHOOSE p \in found : Cardinality({q \in found : UpTo(p, q)}) = n
    IN  [n \in 1 .. Cardinality(found) |-> groups[nth(n)[1]][nth(n)[2]]]

\* Mutant: a group that holds an Onibi hook goes as a whole.
WithoutHooksWhole(groups) ==
    Picked(groups, {i \in DOMAIN groups : ~ManagedGroup(groups[i])})

\* removeManaged: hooks leave their group, groups without hooks leave the event.
WithoutHooks(groups) ==
    LET others(g) == {j \in DOMAIN g : ~Managed(g[j])}
    IN  Picked([i \in DOMAIN groups |-> Picked(groups[i], others(groups[i]))],
               {i \in DOMAIN groups : others(groups[i]) # {}})

\* removeEventHook and mergeEventHook of claude: the group goes as a whole.
WithoutGroups(groups) == Picked(groups, {i \in DOMAIN groups : ~ManagedGroup(groups[i])})

Cleaned(c) ==
    [e \in Slots |-> CASE policy.keeps = "groups" -> WithoutGroups(c[e])
                       [] policy.keeps = "hooks" -> WithoutHooks(c[e])
                       [] OTHER -> <<>>]

\* Mutant: what an earlier install wrote is left in place.
InstalledTwice(c) == [e \in Slots |-> Append(c[e], <<"new">>)]

\* What install writes: what it keeps, then one group of its own per event.
Installed(c) == [e \in Slots |-> Append(Cleaned(c)[e], <<"new">>)]

\* ManagedBody: the text the hash is taken of; claude takes the first managed
\* group of an event with whatever else is in it, the plugins the whole file.
Body(c) ==
    CASE policy.needs = "body" -> c
      [] policy.needs = "every" ->
           [e \in Slots |-> Head(Picked(c[e], {i \in DOMAIN c[e] : ManagedGroup(c[e][i])}))]
      [] OTHER -> [e \in Slots |-> ManagedHooks(c[e])]

\* What ManagedBody, or the marker of a plugin, calls present.
Present(c) ==
    LET hooked(e) == \E i \in DOMAIN c[e] : ManagedGroup(c[e][i])
    IN  IF policy.needs = "every" THEN \A e \in Slots : hooked(e) ELSE \E e \in Slots : hooked(e)

Readable == file # Garbage
HashMatches == rec = Body(Parsed(file))

\* VerifyHash.
Verified == Readable /\ Present(Parsed(file)) /\ HashMatches

HooksOf(c) ==
    IF c = Garbage THEN {}
    ELSE UNION {{c[e][p[1]][p[2]] : p \in Places(c[e])} : e \in Slots}

\* installedVersion: that of some managed hook, as the order of a Go map has it.
\* A hook the user altered keeps its version.
Versions(c) == {IF h = "old" THEN "old" ELSE "new" : h \in {x \in HooksOf(c) : Managed(x)}}

\* Status and ApplyManagedStatus: what doctor and `agent inspect` go by.
Statuses ==
    IF ~Readable \/ ~Present(Parsed(file))
    THEN {[installed |-> FALSE, recorded |-> FALSE, tampered |-> FALSE, outdated |-> FALSE]}
    ELSE {[installed |-> TRUE, recorded |-> rec # NoRecord,
           tampered |-> rec # NoRecord /\ ~HashMatches,
           outdated |-> v = "old"] : v \in Versions(Parsed(file))}

\* hookDriftRows: the row of one expected event, from the first managed hook of
\* that event in ObservedHooks.
DriftRow(info, e) ==
    LET found == ManagedHooks(Parsed(file)[e])
    IN  CASE found = <<>> -> "missing"
          [] found # <<>> /\ Head(found) # "new" -> "changed"
          [] found # <<>> /\ Head(found) = "new" /\ ~info.recorded -> "hash-missing"
          [] found # <<>> /\ Head(found) = "new" /\ info.recorded /\ info.tampered -> "hash-mismatch"
          [] OTHER -> IF info.outdated THEN "outdated" ELSE "ok"
-----------------------------------------------------------------------------
Start(op) ==
    /\ command.pc \in {"idle", "done", "failed"}
    /\ spent.commands < MaxCommands                                  \* bound
    /\ spent' = [spent EXCEPT !.commands = @ + 1]
    /\ command' = [op |-> op, pc |-> "backup", read |-> file, source |-> Absent, calm |-> TRUE]

Stop(op, pc) ==
    /\ command.pc \in {"idle", "done", "failed"}
    /\ spent.commands < MaxCommands                                  \* bound
    /\ spent' = [spent EXCEPT !.commands = @ + 1]
    /\ command' = [op |-> op, pc |-> pc, read |-> file, source |-> Absent, calm |-> TRUE]

\* Mutant: hooks that verify are not reinstalled, whatever their release.
NothingToDoAnyVersion ==
    CASE policy.skips = "verified" -> Verified
      [] policy.skips = "same" -> file = Installed(Empty) /\ Verified
      [] OTHER -> FALSE

\* The early return of Install.
NothingToDo ==
    CASE policy.skips = "verified" -> Verified /\ "new" \in Versions(Parsed(file))
      [] policy.skips = "same" -> file = Installed(Empty) /\ Verified
      [] OTHER -> FALSE

MustInstall ==
    ~NothingToDo \/ (policy.skips = "verified" /\ {"old", "new"} \subseteq Versions(Parsed(file)))

\* The adapters that merge parse the file first and give up on one that does not.
Parses == policy.keeps # "nothing"

\* Install up to its first write; `onibi agent install`, the first-run wizard
\* and doctor --fix all come here.
BeginInstall ==
    /\ \/ NothingToDo /\ Stop("install", "done")
       \/ MustInstall /\ Parses /\ ~Readable /\ Stop("install", "failed")
       \/ MustInstall /\ (Parses => Readable) /\ Start("install")
    /\ UNCHANGED <<agent, file, rec, saved, adopted>>

\* Uninstall: a rewriting adapter that finds no file only drops its record,
\* unless it is one that writes an empty file.
BeginUninstall ==
    /\ \/ Parses /\ ~Readable /\ Stop("uninstall", "failed")
       \/ Parses /\ file = Absent /\ ~policy.creates /\ Stop("uninstall", "forget")
       \/ (Parses => Readable /\ (file # Absent \/ policy.creates)) /\ Start("uninstall")
    /\ UNCHANGED <<agent, file, rec, saved, adopted>>

\* `onibi system uninstall`: only what Status calls installed is uninstalled.
BeginSystemUninstall ==
    \E info \in Statuses :
        IF info.installed THEN BeginUninstall
        ELSE Stop("skip", "done") /\ UNCHANGED <<agent, file, rec, saved, adopted>>

\* Adopt: what is in the file becomes the record.
Adopt ==
    /\ Stop("adopt", "done")
    /\ rec' = Body(Parsed(file))
    /\ adopted' = TRUE
    /\ UNCHANGED <<agent, file, saved>>

\* fixHookHashes: refuse what was tampered with, reinstall what is outdated,
\* adopt what has no record.
Fix ==
    \E info \in Statuses :
        /\ info.installed /\ ~info.tampered
        /\ \/ info.outdated /\ info.recorded /\ BeginInstall
           \/ ~info.recorded /\ Adopt
-----------------------------------------------------------------------------
At(pc) == command.pc = pc
Goto(pc) == command' = [command EXCEPT !.pc = pc]
AfterBackup == IF command.op = "install" \/ ~policy.removes THEN "write" ELSE "remove"

\* BackupOriginal reads the file again; a source the store has a row for is not
\* saved twice, a file that is already there is not written again.
Backup ==
    LET when == IF command.op = "install" THEN policy.saves ELSE policy.savesLast
        due == file # Absent /\ (when = "always" \/ ~Verified) /\ file \notin saved.rows
    IN  /\ At("backup")
        /\ \/ ~due /\ Goto(AfterBackup) /\ UNCHANGED saved
           \/ due /\ file \in saved.whole \cup saved.torn
              /\ command' = [command EXCEPT !.pc = "row", !.source = file] /\ UNCHANGED saved
           \/ due /\ file \notin saved.whole \cup saved.torn
              /\ command' = [command EXCEPT !.pc = "fill", !.source = file]
              /\ saved' = [saved EXCEPT !.torn = @ \cup {file}]
        /\ UNCHANGED <<agent, file, rec, adopted, spent>>

BackupFill ==
    /\ At("fill") /\ Goto("row")
    /\ saved' = [saved EXCEPT !.torn = @ \ {command.source}, !.whole = @ \cup {command.source}]
    /\ UNCHANGED <<agent, file, rec, adopted, spent>>

BackupRow ==
    /\ At("row") /\ Goto(AfterBackup)
    /\ saved' = [saved EXCEPT !.rows = @ \cup {command.source}]
    /\ UNCHANGED <<agent, file, rec, adopted, spent>>

\* WriteFile through a temporary file and a rename: all of it or nothing.
WriteFile ==
    /\ At("write")
    /\ LET c == IF Parses THEN Parsed(command.read) ELSE Empty IN
         IF command.op = "install" THEN file' = Installed(c) /\ Goto("record")
                                   ELSE file' = Cleaned(c) /\ Goto("forget")
    /\ UNCHANGED <<agent, rec, saved, adopted, spent>>

\* Install of a JSON adapter reads its hooks back from the disk to record them,
\* and claude fails if one is missing; a plugin's record is what was written.
Record ==
    /\ At("record")
    /\ IF policy.needs = "body"
       THEN rec' = Installed(Empty) /\ adopted' = FALSE /\ Goto("done")
       ELSE IF ~Readable \/ (policy.needs = "every" /\ ~Present(Parsed(file)))
            THEN UNCHANGED <<rec, adopted>> /\ Goto("failed")
            ELSE rec' = Body(Parsed(file)) /\ adopted' = ~command.calm /\ Goto("done")
    /\ UNCHANGED <<agent, file, saved, spent>>

Delete ==
    /\ At("remove") /\ Goto("forget")
    /\ file' = Absent
    /\ UNCHANGED <<agent, rec, saved, adopted, spent>>

\* DeleteRecord.
Forget ==
    /\ At("forget") /\ Goto("done")
    /\ rec' = NoRecord
    /\ UNCHANGED <<agent, file, saved, adopted, spent>>

\* The command dies, or one of its steps returns an error: what it did stays.
Kill ==
    /\ command.pc \notin {"idle", "done", "failed"}
    /\ spent.kills < MaxKills                                        \* bound
    /\ spent' = [spent EXCEPT !.kills = @ + 1]
    /\ Goto("failed")
    /\ UNCHANGED <<agent, file, rec, saved, adopted>>
-----------------------------------------------------------------------------
\* What the user and the provider do to an event: a hook more, in a group of its
\* own or in the one at place i; no hooks; Onibi's altered; only a hook of theirs.
NewGroup(groups, h) == Append(groups, <<h>>)
InGroup(groups, i, h) == [groups EXCEPT ![i] = Append(@, h)]
Altered(groups) ==
    [i \in DOMAIN groups |->
        [j \in DOMAIN groups[i] |-> IF Managed(groups[i][j]) THEN "edited" ELSE groups[i][j]]]

\* The file copilot reads its Onibi hooks from is Onibi's own: the user does not
\* add hooks to it.
EventEdits(groups) ==
    {<<>>, Altered(groups)} \cup
    CASE policy.needs = "body" -> {<< <<h>> >> : h \in OwnerHooks}
      [] policy.removes /\ policy.needs # "body" -> {}
      [] OTHER -> {NewGroup(groups, h) : h \in OwnerHooks} \cup
                  {InGroup(groups, i, h) : i \in DOMAIN groups, h \in OwnerHooks}

Edits(f) ==
    LET c == Parsed(f)
        changed(e) == {[c EXCEPT ![e] = groups] : groups \in EventEdits(c[e])}
    IN  {Absent} \cup
        IF f = Garbage THEN {Empty}
        ELSE (UNION {changed(e) : e \in Slots}) \cup
             IF policy.needs = "body" THEN {} ELSE {Garbage}

Edit ==
    /\ spent.edits < MaxEdits                                        \* bound
    /\ spent' = [spent EXCEPT !.edits = @ + 1]
    /\ file' \in Edits(file) \ {file}
    /\ command' = [command EXCEPT !.calm = FALSE]
    /\ UNCHANGED <<agent, rec, saved, adopted>>

\* A file the previous release installed into, with or without an event that is
\* new in this one, or one Onibi never saw.
HookInit ==
    /\ agent \in Agents
    /\ \/ rec = NoRecord /\ file \in {Absent} \cup
             {[e \in Slots |-> IF e = f THEN << <<h>> >> ELSE <<>>] : f \in Slots, h \in OwnerHooks}
       \/ \E known \in (SUBSET Slots) \ {{}} :
             /\ file = [e \in Slots |-> IF e \in known THEN << <<"old">> >> ELSE <<>>]
             /\ rec = IF policy.needs = "every" THEN [e \in known |-> <<"old">>] ELSE Body(file)
    /\ saved = [whole |-> {}, torn |-> {}, rows |-> {}]
    /\ command = Idle
    /\ adopted = FALSE
    /\ spent = [commands |-> 0, edits |-> 0, kills |-> 0]

HookNext ==
    \/ BeginInstall \/ BeginUninstall \/ BeginSystemUninstall \/ Fix
    \/ Backup \/ BackupFill \/ BackupRow \/ WriteFile \/ Record \/ Delete \/ Forget
    \/ Kill \/ Edit

HookSpec == HookInit /\ [][HookNext]_hookVars
-----------------------------------------------------------------------------
\* The user's hooks of a file.
Owned(f) ==
    CASE f = Absent -> {}
      [] f = Garbage -> {Garbage}
      [] OTHER -> HooksOf(f) \ {"old", "new", "edited"}

\* The texts whose backup is whole and known to the store.
Restorable == saved.rows \ saved.torn

\* Whatever install, uninstall, adopt and repair were run before, and wherever
\* they were cut off, a hook of the user that is in the file when a command
\* starts, and that nobody takes out meanwhile, is afterwards in the file or in
\* a whole backup the store knows (docs/adapter-contract.md: the original config
\* is backed up before modification).  One case is lost, and no other: the write
\* of the backup of this very text was cut before, and the torn file it left is
\* taken for the backup from then on (BackupOriginal, os.ErrExist).
OwnerContentKept ==
    [][ (WriteFile \/ Delete) /\ command.calm /\ file \notin saved.torn =>
            Owned(file) \subseteq Owned(file') \cup UNION {Owned(f) : f \in Restorable} ]_hookVars

\* Installing again, after any mix of kills, edits and releases, does not leave
\* two Onibi hooks on one event (the provider would ask for approval twice).
OneHookPerEvent ==
    file \notin {Absent, Garbage} =>
        \A e \in Slots : Cardinality(ManagedPlaces(file[e])) <= 1

\* An install that says [OK], with nobody at the file meanwhile, leaves hooks
\* that `onibi agent inspect` finds in order, whatever state it started from.
\* The exception: gemini, goose and copilot trust a record that doctor --fix
\* took, or an install finished, over a file the user had changed.
InstallTakes ==
    (At("done") /\ command.op = "install" /\ command.calm /\ ~(adopted /\ policy.skips = "verified"))
        => \A info \in Statuses, e \in Slots : DriftRow(info, e) = "ok"
=============================================================================
