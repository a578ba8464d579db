----------------------------- MODULE DaemonRun -----------------------------
(***************************************************************************)
(* The daemon process: what Daemon.Run starts and in which order it all    *)
(* ends, the socket file that hooks and commands reach it by, and the      *)
(* background service that keeps one daemon running.                       *)
(*                                                                         *)
(* A daemon owns the socket file only by name: the file is removed by name *)
(* before a listener is bound, by name when the listener closes, and by    *)
(* name again when Serve returns.  Several daemons may be started: the     *)
(* service (Service), `onibi run`, which first asks whether a daemon       *)
(* answers, and `onibi start`, which does not.                             *)
(***************************************************************************)
EXTENDS Naturals, FiniteSets

CONSTANTS Daemons,      \* the processes that may be daemons
          Service,      \* the one the service manager runs
          NoFile,       \* no socket file
          Stale,        \* the socket file of a process that is gone
          MaxStarts, MaxCrashes, MaxInstalls

ASSUME DaemonAssumption == /\ Service \in Daemons
                           /\ {NoFile, Stale} \cap Daemons = {}
                           /\ {MaxStarts, MaxCrashes, MaxInstalls} \subseteq Nat

VARIABLES process,      \* "off", "opening" the database, "running"
          live,         \* the context of Run is not cancelled
          web,          \* the goroutine of the web server
          intake,       \* the goroutine of the intake server
          ownPort,      \* the web address is not the one everyone uses
          path,         \* whose socket the file leads to
          overlapped,   \* history: daemons whose check or removal overlapped a bind, and the one that bound
          unseated,     \* history: daemons whose socket file another one removed as it closed
          unit,         \* the service file is installed
          loaded,       \* the service manager supervises Service
          manager,      \* step of a service command
          crashed,      \* Service ended abnormally
          starts, crashes, installs

daemonVars == <<process, live, web, intake, ownPort, path, overlapped, unseated>>
serviceVars == <<unit, loaded, manager, crashed>>
countVars == <<starts, crashes, installs>>
runVars == <<daemonVars, serviceVars, countVars>>

RunTypeOK ==
    /\ process \in [Daemons -> {"off", "opening", "running"}]
    /\ live \in [Daemons -> BOOLEAN]
    /\ web \in [Daemons -> {"ended", "starting", "listening"}]
    /\ intake \in [Daemons -> {"ended", "check", "clear", "bind", "serving", "closed"}]
    /\ ownPort \in [Daemons -> BOOLEAN]
    /\ path \in Daemons \cup {NoFile, Stale}
    /\ overlapped \subseteq Daemons /\ unseated \subseteq Daemons
    /\ unit \in BOOLEAN /\ loaded \in BOOLEAN /\ crashed \in BOOLEAN
    /\ manager \in {"idle", "stop", "start", "wait", "disable", "delete"}
    /\ starts \in 0 .. MaxStarts /\ crashes \in 0 .. MaxCrashes /\ installs \in 0 .. MaxInstalls

RunInit ==
    /\ process = [d \in Daemons |-> "off"]
    /\ live = [d \in Daemons |-> FALSE]
    /\ web = [d \in Daemons |-> "ended"]
    /\ intake = [d \in Daemons |-> "ended"]
    /\ ownPort = [d \in Daemons |-> FALSE]
    /\ path = NoFile /\ overlapped = {} /\ unseated = {}
    /\ unit = FALSE /\ loaded = FALSE /\ manager = "idle" /\ crashed = FALSE
    /\ starts = 0 /\ crashes = 0 /\ installs = 0

\* Something accepts connections on the socket file.
SocketActive == path \in Daemons

-----------------------------------------------------------------------------
(* The process *)

\* the process is started and reads its configuration; run has to find no daemon that answers
Begin(d) ==
    /\ process[d] = "off"
    /\ process' = [process EXCEPT ![d] = "opening"]

\* onibi run refuses beside a daemon; onibi start goes on, and may use an address of its own
Start(d) ==
    /\ d # Service /\ starts < MaxStarts
    /\ starts' = starts + 1
    /\ Begin(d)
    /\ \E own \in BOOLEAN : ownPort' = [ownPort EXCEPT ![d] = own]
    /\ UNCHANGED <<live, web, intake, path, overlapped, unseated, serviceVars, crashes, installs>>

\* the service runs `onibi run`; its exit status for a refusal is not abnormal, so it is not tried again
Serve == IF SocketActive THEN UNCHANGED process ELSE Begin(Service)

\* Run: every goroutine is started
Run(d) ==
    /\ process[d] = "opening"
    /\ process' = [process EXCEPT ![d] = "running"]
    /\ live' = [live EXCEPT ![d] = TRUE]
    /\ web' = [web EXCEPT ![d] = "starting"]
    /\ intake' = [intake EXCEPT ![d] = "check"]
    /\ overlapped' = overlapped \ {d} /\ unseated' = unseated \ {d}
    /\ UNCHANGED <<ownPort, path, serviceVars, countVars>>

\* a certificate that cannot be made ends the process before anything runs
RunFails(d) ==
    /\ process[d] = "opening"
    /\ process' = [process EXCEPT ![d] = "off"]
    /\ UNCHANGED <<live, web, intake, ownPort, path, overlapped, unseated, serviceVars, countVars>>

\* a signal, the end of every session of `onibi run agent`, or a bridge that fails
Cancel(d) ==
    /\ process[d] = "running" /\ live[d]
    /\ live' = [live EXCEPT ![d] = FALSE]
    /\ UNCHANGED <<process, web, intake, ownPort, path, overlapped, unseated, serviceVars, countVars>>

\* Run waits for every goroutine
Return(d) ==
    /\ process[d] = "running" /\ ~live[d]
    /\ web[d] = "ended" /\ intake[d] = "ended"
    /\ process' = [process EXCEPT ![d] = "off"]
    /\ UNCHANGED <<live, web, intake, ownPort, path, overlapped, unseated, serviceVars, countVars>>

Crash(d) ==
    /\ process[d] # "off" /\ crashes < MaxCrashes
    /\ crashes' = crashes + 1
    /\ process' = [process EXCEPT ![d] = "off"]
    /\ live' = [live EXCEPT ![d] = FALSE]
    /\ web' = [web EXCEPT ![d] = "ended"]
    /\ intake' = [intake EXCEPT ![d] = "ended"]
    /\ path' = IF path = d THEN Stale ELSE path
    /\ crashed' = (crashed \/ d = Service)
    /\ UNCHANGED <<ownPort, overlapped, unseated, unit, loaded, manager, starts, installs>>

-----------------------------------------------------------------------------
(* The web server: an address in use cancels the whole daemon *)

PortTaken(d) == \E e \in Daemons \ {d} : web[e] = "listening" /\ ownPort[e] = ownPort[d]

WebListen(d) ==
    /\ web[d] = "starting"
    /\ IF ~live[d] \/ PortTaken(d)
       THEN /\ web' = [web EXCEPT ![d] = "ended"]
            /\ live' = [live EXCEPT ![d] = FALSE]
       ELSE /\ web' = [web EXCEPT ![d] = "listening"]
            /\ UNCHANGED live
    /\ UNCHANGED <<process, intake, ownPort, path, overlapped, unseated, serviceVars, countVars>>

WebShutdown(d) ==
    /\ web[d] = "listening" /\ ~live[d]
    /\ web' = [web EXCEPT ![d] = "ended"]
    /\ UNCHANGED <<process, live, intake, ownPort, path, overlapped, unseated, serviceVars, countVars>>

-----------------------------------------------------------------------------
(* The intake server *)

AtIntake(d, from, to) ==
    /\ intake[d] = from
    /\ intake' = [intake EXCEPT ![d] = to]
    /\ UNCHANGED <<process, live, web, ownPort, serviceVars, countVars>>

\* another daemon answers: Serve returns, Run only logs it
InUse(d) ==
    /\ SocketActive
    /\ AtIntake(d, "check", "ended")
    /\ UNCHANGED <<path, overlapped, unseated>>

\* mutant: the socket file is removed without asking who answers on it
NotInUseUnasked(d) ==
    /\ AtIntake(d, "check", "clear")
    /\ UNCHANGED <<path, overlapped, unseated>>

NotInUse(d) ==
    /\ ~SocketActive
    /\ AtIntake(d, "check", "clear")
    /\ UNCHANGED <<path, overlapped, unseated>>

Clear(d) ==
    /\ AtIntake(d, "clear", "bind")
    /\ path' = NoFile
    /\ UNCHANGED <<overlapped, unseated>>

\* the others between their check and their bind, or between closing and returning
Overlapping(d) == {e \in Daemons \ {d} : intake[e] \in {"clear", "bind", "closed"}}

Bind(d) ==
    /\ path = NoFile
    /\ AtIntake(d, "bind", "serving")
    /\ path' = d
    /\ overlapped' = IF Overlapping(d) = {} THEN overlapped ELSE overlapped \cup {d} \cup Overlapping(d)
    /\ UNCHANGED unseated

\* the file is there again: listen fails, and nothing is removed
BindFails(d) ==
    /\ path # NoFile
    /\ AtIntake(d, "bind", "ended")
    /\ UNCHANGED <<path, overlapped, unseated>>

\* the listener unlinks its path, whoever's socket is there by now
Close(d) ==
    /\ ~live[d]
    /\ AtIntake(d, "serving", "closed")
    /\ path' = NoFile
    /\ unseated' = unseated \cup ({path} \cap (Daemons \ {d}))
    /\ UNCHANGED overlapped

\* the deferred remove of Serve
Unlink(d) ==
    /\ AtIntake(d, "closed", "ended")
    /\ path' = NoFile
    /\ UNCHANGED <<overlapped, unseated>>

-----------------------------------------------------------------------------
(* The service manager: launchd when Install stops the old service first,
   systemd when it only starts one that is not running *)

Command(step) == /\ manager = "idle" /\ installs < MaxInstalls
                 /\ installs' = installs + 1
                 /\ manager' = step

InstallService ==
    /\ \E step \in {"stop", "start"} : Command(step)
    /\ unit' = TRUE
    /\ UNCHANGED <<daemonVars, loaded, crashed, starts, crashes>>

\* the manager terminates its process
StopService ==
    /\ loaded' = FALSE /\ crashed' = FALSE
    /\ live' = [live EXCEPT ![Service] = FALSE]
    /\ process' = [process EXCEPT ![Service] = IF @ = "opening" THEN "off" ELSE @]

BootOut ==
    /\ manager = "stop" /\ manager' = "start"
    /\ StopService
    /\ UNCHANGED <<web, intake, ownPort, path, overlapped, unseated, unit, countVars>>

\* one process of the service at a time
Bootstrap ==
    /\ manager = "start" /\ manager' = "wait"
    /\ loaded' = TRUE /\ crashed' = FALSE
    /\ IF process[Service] = "off" THEN Serve ELSE UNCHANGED process
    /\ UNCHANGED <<live, web, intake, ownPort, path, overlapped, unseated, unit, countVars>>

\* the command waits for a daemon that answers, for at most thirty seconds
Installed ==
    /\ manager = "wait" /\ manager' = "idle"
    /\ UNCHANGED <<daemonVars, unit, loaded, crashed, countVars>>

UninstallService ==
    /\ Command("disable")
    /\ UNCHANGED <<daemonVars, unit, loaded, crashed, starts, crashes>>

Disable ==
    /\ manager = "disable" /\ manager' = "delete"
    /\ StopService
    /\ UNCHANGED <<web, intake, ownPort, path, overlapped, unseated, unit, countVars>>

DeleteUnit ==
    /\ manager = "delete" /\ manager' = "idle"
    /\ unit' = FALSE
    /\ UNCHANGED <<daemonVars, loaded, crashed, countVars>>

\* KeepAlive with Crashed, Restart=on-abnormal
StartsAgain == loaded /\ crashed

\* a service that ended abnormally is started again
Restart ==
    /\ StartsAgain /\ process[Service] = "off"
    /\ crashed' = FALSE
    /\ Serve
    /\ UNCHANGED <<live, web, intake, ownPort, path, overlapped, unseated, unit, loaded, manager, countVars>>

-----------------------------------------------------------------------------
DaemonStep(d) ==
    \/ Run(d) \/ Return(d) \/ WebListen(d) \/ WebShutdown(d)
    \/ InUse(d) \/ NotInUse(d) \/ Clear(d) \/ Bind(d) \/ BindFails(d) \/ Close(d) \/ Unlink(d)

RunNext ==
    \/ \E d \in Daemons : DaemonStep(d) \/ Start(d) \/ RunFails(d) \/ Cancel(d) \/ Crash(d)
    \/ InstallService \/ BootOut \/ Bootstrap \/ Installed
    \/ UninstallService \/ Disable \/ DeleteUnit \/ Restart

RunSpec == RunInit /\ [][RunNext]_runVars

(* A daemon whose intake serves is the one that hooks and commands reach,
   across crashes, restarts of the service, refused starts and daemons that end
   beside it, with two exceptions that intake.Serve leaves open, as it removes
   the file by name at three places.  When it bound, another daemon was between
   its check and its bind, or between closing its listener and returning.  Or a
   daemon that had lost its own file in one of the two ways, and served on
   unreached, closed later and removed the file of this one, which had found
   nobody answering and started by itself.  Nobody else takes a daemon's file. *)
SoleDaemonReachable ==
    \A d \in Daemons : intake[d] = "serving" /\ d \notin overlapped \cup unseated => path = d
=============================================================================
