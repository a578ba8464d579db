------------------------- MODULE HostStateProofs --------------------------
(***************************************************************************)
(* What the daemon and the commands keep on the host, and meet in: the     *)
(* socket, config.yaml, the local certificates, the secret store and the   *)
(* rows sealed with its key.  For any number of processes, starts, crashes *)
(* and failures, whoever comes later finds what the one before was told it *)
(* had left.                                                               *)
(***************************************************************************)
EXTENDS DaemonRun, StoredKeys, LocalCertificates, ConfigFile, SnapshotBranches, FiniteSetTheorems, TLAPS
-----------------------------------------------------------------------------
(* The socket of the intake.  What makes it inductive is that a daemon that
   serves, and did not bind while another was between its check and its bind
   or between its close and its return, is alone with the socket file: nobody
   else has a removal or a bind before it, and nobody gets there, as the check
   finds the daemon; but for a daemon that serves without its file, which
   unseats this one when it closes. *)
\* Where the file is about to be touched: past the check, and not yet back from Serve.
Touching == {"clear", "bind", "closed"}

\* The daemon of the socket file is alone with it.
AloneWithSocket ==
    \A d \in Daemons : intake[d] = "serving" /\ d \notin overlapped \cup unseated =>
        /\ path = d
        /\ \A e \in Daemons \ {d} : intake[e] \notin Touching

RunInv == RunTypeOK /\ AloneWithSocket
-----------------------------------------------------------------------------
\* The parts of the state that the socket is about stay as they are.
SocketUntouched == UNCHANGED <<intake, path, overlapped, unseated>>

\* One daemon leaves the file alone from now on, or does not reach it yet.
LEMMA LeavesKeepsAlone ==
    ASSUME RunInv, NEW d \in Daemons, NEW to \in {"ended", "check"},
           intake' = [intake EXCEPT ![d] = to],
           \/ path' = path
           \/ path = d
           \/ intake[d] \in Touching,
           \/ UNCHANGED <<overlapped, unseated>>
           \/ overlapped' = overlapped \ {d} /\ unseated' = unseated \ {d}
    PROVE  AloneWithSocket'
  BY DEF RunInv, RunTypeOK, AloneWithSocket, Touching

\* A step of a daemon that may touch the file: nobody else was alone with it.
LEMMA TouchesKeepsAlone ==
    ASSUME RunInv, NEW d \in Daemons, intake[d] \in Touching,
           NEW to \in {"bind", "closed"},
           intake' = [intake EXCEPT ![d] = to],
           UNCHANGED <<overlapped, unseated>>
    PROVE  AloneWithSocket'
  BY DEF RunInv, RunTypeOK, AloneWithSocket, Touching

\* The bounds are numbers.
LEMMA BoundsAreNat == MaxStarts \in Nat /\ MaxCrashes \in Nat /\ MaxInstalls \in Nat
  BY DaemonAssumption

\* The initial states satisfy the invariant: no process runs.
LEMMA InitInv == RunInit => RunInv
<1> SUFFICES ASSUME RunInit PROVE RunInv
  OBVIOUS
<1>1. RunTypeOK
  <2>1. 0 \in 0 .. MaxStarts /\ 0 \in 0 .. MaxCrashes /\ 0 \in 0 .. MaxInstalls
    BY BoundsAreNat
  <2> QED
    BY <2>1 DEF RunInit, RunTypeOK
<1>2. AloneWithSocket
  BY DEF RunInit, AloneWithSocket
<1> QED
  BY <1>1, <1>2 DEF RunInv
-----------------------------------------------------------------------------
\* Every step keeps the values of the state in their sets.
LEMMA NextTypeOK == RunTypeOK /\ [RunNext]_runVars => RunTypeOK'
<1> SUFFICES ASSUME RunTypeOK, [RunNext]_runVars PROVE RunTypeOK'
  OBVIOUS
<1> USE BoundsAreNat, DaemonAssumption DEF RunTypeOK
<1>1. ASSUME NEW d \in Daemons, DaemonStep(d) PROVE RunTypeOK'
  <2>1. CASE Run(d)
    BY <2>1 DEF Run, serviceVars, countVars
  <2>2. CASE Return(d)
    BY <2>2 DEF Return, serviceVars, countVars
  <2>3. CASE WebListen(d) \/ WebShutdown(d)
    BY <2>3 DEF WebListen, WebShutdown, serviceVars, countVars
  <2>4. CASE InUse(d) \/ NotInUse(d) \/ Clear(d)
    BY <2>4 DEF InUse, NotInUse, Clear, AtIntake, serviceVars, countVars
  <2>5. CASE Bind(d) \/ BindFails(d)
    BY <2>5 DEF Bind, BindFails, Overlapping, AtIntake, serviceVars, countVars
  <2>6. CASE Close(d) \/ Unlink(d)
    BY <2>6 DEF Close, Unlink, AtIntake, serviceVars, countVars
  <2> QED
    BY <1>1, <2>1, <2>2, <2>3, <2>4, <2>5, <2>6 DEF DaemonStep
<1>2. ASSUME NEW d \in Daemons, Start(d) PROVE RunTypeOK'
  BY <1>2 DEF Start, Begin, serviceVars
<1>3. ASSUME NEW d \in Daemons, RunFails(d) \/ Cancel(d) PROVE RunTypeOK'
  BY <1>3 DEF RunFails, Cancel, serviceVars, countVars
<1>4. ASSUME NEW d \in Daemons, Crash(d) PROVE RunTypeOK'
  BY <1>4 DEF Crash
<1>5. CASE InstallService \/ UninstallService
  <2>1. /\ installs < MaxInstalls /\ installs' = installs + 1
        /\ manager' \in {"stop", "start", "disable"}
        /\ UNCHANGED <<daemonVars, loaded, crashed, starts, crashes>>
    BY <1>5 DEF InstallService, UninstallService, Command
  <2>2. installs' \in 0 .. MaxInstalls
    BY <2>1
  <2>3. unit' \in BOOLEAN
    BY <1>5 DEF InstallService, UninstallService
  <2> QED
    BY <2>1, <2>2, <2>3 DEF daemonVars
<1>6. CASE BootOut \/ Disable
  BY <1>6 DEF BootOut, Disable, StopService, countVars
<1>7. CASE Bootstrap \/ Restart
  BY <1>7 DEF Bootstrap, Restart, Serve, Begin, StartsAgain, countVars
<1>8. CASE Installed \/ DeleteUnit
  BY <1>8 DEF Installed, DeleteUnit, daemonVars, countVars
<1>9. CASE UNCHANGED runVars
  BY <1>9 DEF runVars, daemonVars, serviceVars, countVars
<1> QED
  BY <1>1, <1>2, <1>3, <1>4, <1>5, <1>6, <1>7, <1>8, <1>9 DEF RunNext

\* Every step keeps the daemon of the socket file alone with it.
LEMMA NextAlone == RunInv /\ [RunNext]_runVars => AloneWithSocket'
<1> SUFFICES ASSUME RunInv, [RunNext]_runVars PROVE AloneWithSocket'
  OBVIOUS
<1>1. ASSUME SocketUntouched PROVE AloneWithSocket'
  BY <1>1 DEF SocketUntouched, RunInv, AloneWithSocket
<1>2. ASSUME NEW d \in Daemons, DaemonStep(d) PROVE AloneWithSocket'
  <2>1. CASE Run(d)
    BY <2>1, LeavesKeepsAlone DEF Run
  <2>2. CASE Return(d) \/ WebListen(d) \/ WebShutdown(d)
    BY <1>1, <2>2 DEF Return, WebListen, WebShutdown, SocketUntouched
  <2>3. CASE InUse(d) \/ BindFails(d)
    BY <2>3, LeavesKeepsAlone DEF InUse, BindFails, AtIntake
  <2>4. CASE NotInUse(d)  \* nobody serves alone, or the check would have found it
    <3>1. path \notin Daemons /\ intake' = [intake EXCEPT ![d] = "clear"]
          /\ UNCHANGED <<path, overlapped, unseated>>
      BY <2>4 DEF NotInUse, SocketActive, AtIntake
    <3> QED
      BY <3>1 DEF RunInv, RunTypeOK, AloneWithSocket
  <2>5. CASE Clear(d)
    BY <2>5, TouchesKeepsAlone DEF Clear, AtIntake, Touching
  <2>8. CASE Close(d)                     \* whose file it removed is unseated
    <3>1. /\ intake[d] = "serving" /\ intake' = [intake EXCEPT ![d] = "closed"]
          /\ overlapped' = overlapped /\ unseated' = unseated \cup ({path} \cap (Daemons \ {d}))
      BY <2>8 DEF Close, AtIntake
    <3>2. ASSUME NEW e \in Daemons, intake'[e] = "serving", e \notin overlapped' \cup unseated'
          PROVE FALSE                    \* e had the file, and lost it here
      BY <3>1, <3>2 DEF RunInv, RunTypeOK, AloneWithSocket
    <3> QED
      BY <3>2 DEF AloneWithSocket
  <2>6. CASE Bind(d)
    <3>1. /\ intake[d] = "bind" /\ intake' = [intake EXCEPT ![d] = "serving"]
          /\ path' = d
          /\ overlapped' = IF Overlapping(d) = {} THEN overlapped
                           ELSE overlapped \cup {d} \cup Overlapping(d)
          /\ unseated' = unseated /\ path = NoFile
      BY <2>6 DEF Bind, AtIntake
    <3>2. ASSUME NEW e \in Daemons, e # d, intake'[e] = "serving", e \notin overlapped' \cup unseated'
          PROVE FALSE                    \* e was alone, and d at its bind
      BY <3>1, <3>2, DaemonAssumption DEF RunInv, RunTypeOK, AloneWithSocket, Touching
    <3>3. ASSUME d \notin overlapped'
          PROVE \A e \in Daemons \ {d} : intake'[e] \notin Touching
      BY <3>1, <3>3 DEF Overlapping, RunInv, RunTypeOK, Touching
    <3> QED
      BY <3>1, <3>2, <3>3 DEF AloneWithSocket
  <2>7. CASE Unlink(d)
    BY <2>7, LeavesKeepsAlone DEF Unlink, AtIntake, Touching
  <2> QED
    BY <1>2, <2>1, <2>2, <2>3, <2>4, <2>5, <2>6, <2>7, <2>8 DEF DaemonStep
<1>3. ASSUME NEW d \in Daemons, Start(d) \/ RunFails(d) \/ Cancel(d) PROVE AloneWithSocket'
  BY <1>1, <1>3 DEF Start, RunFails, Cancel, SocketUntouched
<1>4. ASSUME NEW d \in Daemons, Crash(d) PROVE AloneWithSocket'
  BY <1>4, LeavesKeepsAlone DEF Crash
<1>5. CASE InstallService \/ UninstallService \/ Installed \/ DeleteUnit
  BY <1>1, <1>5 DEF InstallService, UninstallService, Installed, DeleteUnit,
                    daemonVars, SocketUntouched
<1>6. CASE BootOut \/ Disable \/ Bootstrap \/ Restart
  BY <1>1, <1>6 DEF BootOut, Disable, Bootstrap, Restart, SocketUntouched
<1>7. CASE UNCHANGED runVars
  BY <1>1, <1>7 DEF runVars, daemonVars, SocketUntouched
<1> QED
  BY <1>2, <1>3, <1>4, <1>5, <1>6, <1>7 DEF RunNext

\* The invariant holds in every reachable state.
THEOREM RunInvariant == RunSpec => []RunInv
<1>1. RunInv /\ [RunNext]_runVars => RunInv'
  BY NextTypeOK, NextAlone DEF RunInv
<1> QED
  BY InitInv, <1>1, PTL DEF RunSpec

(* The daemon whose intake serves is the one that hooks and commands reach,
   but for the two ways in which removals by name take its file: one that
   overlapped its bind, and one by a daemon that had lost its own before. *)
THEOREM ReachesSoleDaemon == RunSpec => []SoleDaemonReachable
<1>1. RunInv => SoleDaemonReachable
  BY DEF RunInv, AloneWithSocket, SoleDaemonReachable
<1> QED
  BY RunInvariant, <1>1, PTL

-----------------------------------------------------------------------------
(* config.yaml.  Whatever a command is about to write stands for the values
   it was given, and a text with sections that migrate cuts out is not
   overwritten before it is in config.yaml.pre-v1. *)

Settings == [Keys -> Values]

ConfigTypeOK ==
    /\ config \in Texts \cup {NoConfig}
    /\ written \in Texts /\ wanted \in Settings
    /\ fileStep \in {"idle", "backup", "write", "rename"}
    /\ job.text \in Texts /\ job.values \in Settings /\ job.replaces \in BOOLEAN

(* The command under way. *)
JobSound ==
    /\ fileStep # "idle" => Effective(job.text) = job.values
    /\ fileStep = "backup" => backup = NoConfig /\ ~job.replaces
    /\ fileStep = "rename" => tmp = job.text
    /\ fileStep \in {"write", "rename"} =>
          IF job.replaces THEN ~job.text.legacy
          ELSE config = NoConfig \/ ~config.legacy \/ backup = config

ConfigInv == ConfigTypeOK /\ JobSound /\ ConfigKept

\* What load makes of any text is a value for every key.
LEMMA EffectiveType == \A text \in Texts : Effective(text) \in Settings
<1> SUFFICES ASSUME NEW text \in Texts PROVE Effective(text) \in Settings
  OBVIOUS
<1>1. \A k \in Keys : text.values[k] \in Values \cup {Unset}
  BY DEF Texts
<1>2. "default" \in Values
  BY DEF Values
<1> QED
  BY <1>1, <1>2 DEF Effective, Settings

(* Save, then Load: nothing of the values is lost, although an override
   that inherits is not spelled out. *)
LEMMA MarshalLoads ==
    ASSUME NEW values \in Settings
    PROVE  /\ Marshal(values) \in Texts /\ ~Marshal(values).legacy
           /\ Effective(Marshal(values)) = values
<1> DEFINE text == Marshal(values)
<1>1. \A k \in Keys : values[k] \in Values /\ values[k] # Unset
  BY ConfigAssumption DEF Settings
<1>2. /\ text.legacy = FALSE
      /\ text.values = [k \in Keys |-> IF k \in Overrides /\ values[k] = "default" THEN Unset ELSE values[k]]
  BY DEF Marshal
<1>3. text \in Texts
  BY <1>1 DEF Marshal, Texts
<1>4. \A k \in Keys : (IF text.values[k] = Unset THEN "default" ELSE text.values[k]) = values[k]
  BY <1>1, <1>2
<1>5. Effective(text) = [k \in Keys |-> values[k]]
  BY <1>4 DEF Effective
<1>6. values = [k \in Keys |-> values[k]]
  BY DEF Settings
<1> HIDE DEF text
<1> QED
  BY <1>2, <1>3, <1>5, <1>6 DEF text

\* What migrate cuts out is out.
LEMMA CutFact ==
    ASSUME NEW text \in Texts
    PROVE  Cut(text) \in Texts /\ Effective(Cut(text)) = Effective(text)
BY DEF Cut, Texts, Effective

\* The defaults are values of the keys.
LEMMA DefaultsType == Defaults \in Settings
BY DEF Defaults, Settings, Values

\* A command that begins to write: what it wants stands in the text it will write.
LEMMA CommandBegins ==
    ASSUME ConfigInv, NEW first \in {"backup", "write"}, NEW text \in Texts, NEW values \in Settings,
           NEW replaces \in BOOLEAN, BeginCommand(first, text, values, replaces),
           Effective(text) = values, first = "backup" => backup = NoConfig /\ ~replaces,
           first = "write" => IF replaces THEN ~text.legacy ELSE config = NoConfig \/ ~config.legacy
    PROVE  ConfigInv'
<1>1. /\ fileStep' = first /\ job'.text = text /\ job'.values = values /\ job'.replaces = replaces
      /\ UNCHANGED <<config, tmp, backup, wanted, written>>
  BY DEF BeginCommand, fileVars
<1>2. ConfigTypeOK'
  BY <1>1 DEF ConfigInv, ConfigTypeOK
<1>3. JobSound'
  BY <1>1 DEF JobSound, Effective
<1>4. ConfigKept'
  BY <1>1 DEF ConfigInv, ConfigKept, Loads, Valid, Effective
<1> QED
  BY <1>2, <1>3, <1>4 DEF ConfigInv

\* `onibi config set` edits the text that is there.
LEMMA SetKeyKeeps ==
    ASSUME ConfigInv, NEW k \in Keys, NEW v \in Given, SetKey(k, v)
    PROVE  ConfigInv'
<1> DEFINE values == [Current EXCEPT ![k] = v]
<1>1. Current \in Settings
  BY EffectiveType, DefaultsType DEF Current, ConfigInv, ConfigTypeOK
<1>2. v \in Values
  BY DEF SetKey, Given
<1>3. values \in Settings
  BY <1>1, <1>2 DEF Settings
<1>4. BeginCommand("write", Marshal(values), values, FALSE) /\ (config # NoConfig => ~config.legacy)
  BY DEF SetKey, Loads
<1> HIDE DEF values
<1> QED
  BY <1>3, <1>4, MarshalLoads, CommandBegins

\* `onibi config init` writes the defaults.
LEMMA InitConfigKeeps == ConfigInv /\ InitConfig => ConfigInv'
<1> SUFFICES ASSUME ConfigInv, InitConfig PROVE ConfigInv'
  OBVIOUS
<1>1. PICK replaces \in BOOLEAN : replaces = (config # NoConfig)
  OBVIOUS
<1>2. BeginCommand("write", Marshal(Defaults), Defaults, replaces)
  BY <1>1 DEF InitConfig
<1> QED
  BY <1>1, <1>2, DefaultsType, MarshalLoads, CommandBegins

\* `onibi config migrate` has a text to save before it overwrites it.
LEMMA MigrateKeeps == ConfigInv /\ Migrate => ConfigInv'
<1> SUFFICES ASSUME ConfigInv, Migrate PROVE ConfigInv'
  OBVIOUS
<1>1. PICK text \in Texts : text = config
  BY DEF ConfigInv, ConfigTypeOK, Migrate
<1>2. /\ BeginCommand("backup", Cut(text), Effective(text), FALSE) /\ backup = NoConfig
  BY <1>1 DEF Migrate
<1> QED
  BY <1>2, CutFact, EffectiveType, CommandBegins

\* The backup is the text that is about to be overwritten.
LEMMA WriteBackupKeeps == ConfigInv /\ WriteBackup => ConfigInv'
<1> SUFFICES ASSUME ConfigInv, WriteBackup PROVE ConfigInv'
  OBVIOUS
<1>1. /\ fileStep = "backup" /\ fileStep' = "write" /\ backup' = config /\ backup = NoConfig
      /\ UNCHANGED <<config, tmp, job, wanted, written>>
      /\ job'.text = job.text /\ job'.values = job.values /\ job'.replaces = job.replaces
  BY DEF WriteBackup, ConfigInv, JobSound
<1>2. ConfigTypeOK'
  BY <1>1 DEF ConfigInv, ConfigTypeOK
<1>3. ASSUME written'.legacy PROVE written' \in {config', backup'}
  BY <1>1, <1>3, ConfigAssumption DEF ConfigInv, ConfigTypeOK, ConfigKept
<1>4. ConfigKept'
  BY <1>1, <1>3 DEF ConfigInv, ConfigKept, Loads, Valid, Effective
<1>5. job.replaces = FALSE \/ job.replaces = TRUE
  BY DEF ConfigInv, ConfigTypeOK
<1>6. Effective(job.text)' = Effective(job.text)
  BY <1>1 DEF Effective
<1>7. ~job.replaces' /\ Effective(job.text)' = job.values'
  BY <1>1, <1>5, <1>6 DEF ConfigInv, JobSound
<1>8. JobSound'
  BY <1>1, <1>7 DEF JobSound
<1> QED
  BY <1>2, <1>4, <1>8 DEF ConfigInv

\* The temporary file changes nothing yet.
LEMMA WriteTmpKeeps == ConfigInv /\ WriteTmp => ConfigInv'
<1> SUFFICES ASSUME ConfigInv, WriteTmp PROVE ConfigInv'
  OBVIOUS
<1>1. /\ fileStep = "write" /\ fileStep' = "rename" /\ tmp' = job.text
      /\ UNCHANGED <<config, backup, job, wanted, written>>
  BY DEF WriteTmp
<1>2. ConfigTypeOK'
  BY <1>1 DEF ConfigInv, ConfigTypeOK
<1>3. JobSound' /\ ConfigKept'
  BY <1>1 DEF ConfigInv, JobSound, ConfigKept, Loads, Valid, Effective
<1> QED
  BY <1>2, <1>3 DEF ConfigInv

\* The rename is where the new text appears.
LEMMA RenameKeeps == ConfigInv /\ Rename => ConfigInv'
<1> SUFFICES ASSUME ConfigInv, Rename PROVE ConfigInv'
  OBVIOUS
<1>1. /\ fileStep = "rename" /\ fileStep' = "idle" /\ config' = job.text /\ wanted' = job.values
      /\ written' = IF job.replaces THEN job.text ELSE written
      /\ UNCHANGED <<backup, job>>
  BY DEF Rename, ConfigInv, JobSound
<1>2. ConfigTypeOK'
  BY <1>1 DEF ConfigInv, ConfigTypeOK
<1>3. Effective(config)' = wanted'
  BY <1>1 DEF ConfigInv, JobSound, Effective
<1>4. ASSUME written'.legacy PROVE written' \in {config', backup'}
  <2>1. ~job.replaces /\ written' = written /\ written \in Texts
    BY <1>1, <1>4 DEF ConfigInv, ConfigTypeOK, JobSound
  <2>2. written # NoConfig
    BY <2>1, ConfigAssumption
  <2>3. written = config \/ written = backup
    BY <1>4, <2>1 DEF ConfigInv, ConfigKept
  <2> QED
    BY <1>1, <1>4, <2>1, <2>2, <2>3 DEF ConfigInv, JobSound
<1>5. JobSound' /\ ConfigKept'
  BY <1>1, <1>3, <1>4 DEF JobSound, ConfigKept
<1> QED
  BY <1>2, <1>5 DEF ConfigInv

\* A command that dies half way leaves the file as it was.
LEMMA InterruptedKeeps == ConfigInv /\ Interrupted => ConfigInv'
<1> SUFFICES ASSUME ConfigInv, Interrupted PROVE ConfigInv'
  OBVIOUS
<1>1. /\ fileStep' = "idle" /\ backup' \in IF fileStep = "backup" THEN {backup, CutShort} ELSE {backup}
      /\ UNCHANGED <<config, job, wanted, written>>
  BY DEF Interrupted
<1>2. ConfigTypeOK'
  BY <1>1 DEF ConfigInv, ConfigTypeOK
<1>3. ASSUME written'.legacy PROVE written' \in {config', backup'}
  BY <1>1, <1>3, ConfigAssumption DEF ConfigInv, ConfigTypeOK, ConfigKept, JobSound
<1>4. JobSound' /\ ConfigKept'
  BY <1>1, <1>3 DEF ConfigInv, JobSound, ConfigKept, Loads, Valid, Effective
<1> QED
  BY <1>2, <1>4 DEF ConfigInv

\* An owner who edits the file.
LEMMA EditKeeps == ConfigInv /\ Edit => ConfigInv'
<1> SUFFICES ASSUME ConfigInv, Edit PROVE ConfigInv'
  OBVIOUS
<1>1. PICK text \in Texts : text = config'
  BY DEF Edit
<1>2. /\ fileStep = "idle" /\ UNCHANGED <<tmp, backup, fileStep, job>>
      /\ written' = text /\ wanted' = Effective(text)
  BY <1>1 DEF Edit, Effective
<1>3. ConfigTypeOK'
  BY <1>1, <1>2, EffectiveType DEF ConfigInv, ConfigTypeOK
<1>4. JobSound' /\ ConfigKept'
  BY <1>1, <1>2 DEF JobSound, ConfigKept, Effective
<1> QED
  BY <1>3, <1>4 DEF ConfigInv

\* The invariant holds at first.
LEMMA InitConfigInv == ConfigInit => ConfigInv
<1> SUFFICES ASSUME ConfigInit PROVE ConfigInv
  OBVIOUS
<1>1. /\ config = NoConfig /\ fileStep = "idle" /\ wanted = Defaults /\ written = Marshal(Defaults)
      /\ job.text = Marshal(Defaults) /\ job.values = Defaults /\ job.replaces = FALSE
  BY DEF ConfigInit
<1>2. Marshal(Defaults) \in Texts /\ ~Marshal(Defaults).legacy
  BY DefaultsType, MarshalLoads
<1> QED
  BY <1>1, <1>2, DefaultsType DEF ConfigInv, ConfigTypeOK, JobSound, ConfigKept

\* Every step keeps it.
LEMMA NextConfig == ConfigInv /\ [ConfigNext]_configVars => ConfigInv'
<1> SUFFICES ASSUME ConfigInv, [ConfigNext]_configVars PROVE ConfigInv'
  OBVIOUS
<1>1. CASE UNCHANGED configVars
  BY <1>1 DEF configVars, fileVars, ConfigInv, ConfigTypeOK, JobSound, ConfigKept, Loads, Valid, Effective
<1> QED
  BY <1>1, SetKeyKeeps, InitConfigKeeps, MigrateKeeps, WriteBackupKeeps, WriteTmpKeeps, RenameKeeps,
     InterruptedKeeps, EditKeeps DEF ConfigNext

(* What `config set`, `config init` and `config migrate` leave behind, also
   when they are killed at any of their writes: config.yaml means what was
   asked for, and a text that migrate cuts is still whole somewhere. *)
THEOREM ConfigurationKept == ConfigSpec => []ConfigKept
<1>1. ConfigInv => ConfigKept
  BY DEF ConfigInv
<1> QED
  BY <1>1, InitConfigInv, NextConfig, PTL DEF ConfigSpec

-----------------------------------------------------------------------------
(* The local certificate.  From the profile on, a command works with the
   authority that is on the disk; from the server on, the profile is that
   authority's; and the certificate it writes is one of the addresses the
   machine has. *)

ServerSteps == {"server", "server cert", "server key", "server check", "retry server"}

\* Nothing is answered before the command ends.
AnswersAtEnd == step # "idle" => answer.is = "none"

AuthorityOnDisk ==
    step \in {"profile"} \cup ServerSteps =>
        ca.cert = caCert /\ ca.key = caKey /\ Whole(caCert) /\ Whole(caKey)

ProfileOfAuthority == step \in ServerSteps => profile = ca.cert.key

FreshServer ==
    /\ step \in {"server cert", "server key", "server check"} =>
           ~made.cert.old /\ made.cert.covers = addresses
    /\ step \in {"server key", "server check"} => serverCert = made.cert

CertInv == AnswersAtEnd /\ AuthorityOnDisk /\ ProfileOfAuthority /\ FreshServer /\ CertificateTrusted

\* The invariant holds at first.
LEMMA CertInitInv == CertInit => CertInv
BY DEF CertInit, CertInv, AnswersAtEnd, AuthorityOnDisk, ProfileOfAuthority, FreshServer, CertificateTrusted,
       Outcome, ServerSteps

(* A step that does not end the command: what holds of the disk and of the
   answer stays to be shown for its place only. *)
LEMMA CommandGoesOn ==
    ASSUME CertInv, answer'.is = "none",
           AuthorityOnDisk', ProfileOfAuthority', FreshServer'
    PROVE  CertInv'
BY DEF CertInv, AnswersAtEnd, CertificateTrusted

\* The steps up to the profile: the authority is loaded or made.
LEMMA AuthorityKeeps ==
    CertInv /\ (BeginCert \/ LoadCA \/ NewCA \/ WriteCACert \/ WriteCAKey \/ ReadBackCA \/ WriteProfile) => CertInv'
<1> SUFFICES ASSUME CertInv,
                    BeginCert \/ LoadCA \/ NewCA \/ WriteCACert \/ WriteCAKey \/ ReadBackCA \/ WriteProfile
             PROVE  CertInv'
  OBVIOUS
<1>1. CASE BeginCert
  BY <1>1, CommandGoesOn DEF BeginCert, Goto, Outcome, AuthorityOnDisk, ProfileOfAuthority, FreshServer, ServerSteps
<1>2. CASE LoadCA
  BY <1>2, CommandGoesOn
     DEF LoadCA, UsableCA, Goto, CertInv, AnswersAtEnd, AuthorityOnDisk, ProfileOfAuthority, FreshServer, ServerSteps,
         certFiles, Whole
<1>3. CASE NewCA \/ WriteCACert \/ WriteCAKey
  <2>1. step' \in {"ca cert", "ca key", "ca check"} /\ step # "idle" /\ UNCHANGED answer
    BY <1>3 DEF NewCA, WriteCACert, WriteCAKey, Goto
  <2> QED
    BY <2>1, CommandGoesOn
       DEF CertInv, AnswersAtEnd, AuthorityOnDisk, ProfileOfAuthority, FreshServer, ServerSteps
<1>4. CASE ReadBackCA
  BY <1>4, CommandGoesOn
     DEF ReadBackCA, Goto, CertInv, AnswersAtEnd, AuthorityOnDisk, ProfileOfAuthority, FreshServer, ServerSteps,
         certFiles, Whole
<1>5. CASE WriteProfile
  BY <1>5, CommandGoesOn
     DEF WriteProfile, Goto, CertInv, AnswersAtEnd, AuthorityOnDisk, ProfileOfAuthority, FreshServer, ServerSteps, Whole
<1> QED
  BY <1>1, <1>2, <1>3, <1>4, <1>5

(* The three ways in which a command ends by itself. *)
LEMMA EndKeeps == CertInv /\ (ServeLoaded \/ ReadBackServer \/ NewServerFails) => CertInv'
<1> SUFFICES ASSUME CertInv, ServeLoaded \/ ReadBackServer \/ NewServerFails PROVE CertInv'
  OBVIOUS
<1>1. step' = "idle" /\ step \in ServerSteps /\ UNCHANGED <<caCert, caKey, profile, addresses>>
  BY DEF ServeLoaded, ReadBackServer, NewServerFails, Goto, ServerSteps, certFiles
<1>2. AnswersAtEnd' /\ AuthorityOnDisk' /\ ProfileOfAuthority' /\ FreshServer'
  BY <1>1 DEF AnswersAtEnd, AuthorityOnDisk, ProfileOfAuthority, FreshServer, ServerSteps
<1>3. profile = ca.cert.key /\ ca.cert = caCert /\ ca.key = caKey /\ Whole(caCert) /\ Whole(caKey)
  BY <1>1 DEF CertInv, ProfileOfAuthority, AuthorityOnDisk
<1>4. CASE ServeLoaded \/ ReadBackServer
  <2>1. /\ answer' = Outcome("ok", [cert |-> serverCert, key |-> serverKey])
        /\ serverKey = serverCert.key /\ serverCert.signer = ca.cert.key
        /\ ~serverCert.old /\ addresses \subseteq serverCert.covers
    BY <1>4 DEF ServeLoaded, UsableServer, CoversAll, ReadBackServer, CertInv, FreshServer
  <2>2. answer'.is = "ok" /\ answer'.cert = serverCert /\ answer'.key = serverKey
    BY <2>1 DEF Outcome
  <2>3. CertificateTrusted'
    BY <1>1, <1>3, <2>1, <2>2 DEF CertificateTrusted
  <2> QED
    BY <1>2, <2>3 DEF CertInv
<1>5. CASE NewServerFails
  <2>1. answer'.is = "failed" /\ ca.key # ca.cert.key
    BY <1>5 DEF NewServerFails, Outcome
  <2>2. CertificateTrusted'
    BY <1>1, <1>3, <2>1 DEF CertificateTrusted, Whole
  <2> QED
    BY <1>2, <2>2 DEF CertInv
<1> QED
  BY <1>4, <1>5

\* A new server certificate is of the authority and of the addresses of now.
LEMMA ServerKeeps == CertInv /\ (NewServer \/ WriteServerCert \/ WriteServerKey) => CertInv'
<1> SUFFICES ASSUME CertInv, NewServer \/ WriteServerCert \/ WriteServerKey PROVE CertInv'
  OBVIOUS
<1>1. /\ step \in ServerSteps /\ step' \in ServerSteps
      /\ UNCHANGED <<caCert, caKey, profile, ca, answer, addresses>>
  BY DEF NewServer, WriteServerCert, WriteServerKey, Goto, ServerSteps, certFiles
<1>2. answer'.is = "none" /\ AuthorityOnDisk' /\ ProfileOfAuthority'
  BY <1>1 DEF CertInv, AnswersAtEnd, AuthorityOnDisk, ProfileOfAuthority, Whole, ServerSteps
<1>3. CASE NewServer
  <2>1. step' = "server cert" /\ ~made'.cert.old /\ made'.cert.covers = addresses
    BY <1>3 DEF NewServer, Goto
  <2> QED
    BY <1>1, <1>2, <2>1, CommandGoesOn DEF FreshServer
<1>4. CASE WriteServerCert
  <2>1. step = "server cert" /\ step' = "server key" /\ serverCert' = made.cert /\ UNCHANGED made
    BY <1>4 DEF WriteServerCert, Goto
  <2> QED
    BY <1>1, <1>2, <2>1, CommandGoesOn DEF CertInv, FreshServer
<1>5. CASE WriteServerKey
  <2>1. step = "server key" /\ step' = "server check" /\ UNCHANGED <<made, serverCert>>
    BY <1>5 DEF WriteServerKey, Goto
  <2> QED
    BY <1>1, <1>2, <2>1, CommandGoesOn DEF CertInv, FreshServer
<1> QED
  BY <1>3, <1>4, <1>5

(* A fault ends the command, or sends it back to make the pair again. *)
LEMMA FaultKeeps == CertInv /\ (Killed \/ CAWriteFails \/ ServerWriteFails \/ ProfileFails) => CertInv'
<1> SUFFICES ASSUME CertInv, Killed \/ CAWriteFails \/ ServerWriteFails \/ ProfileFails PROVE CertInv'
  OBVIOUS
<1>1. CASE step' = "idle"
  <2>1. answer'.is = "none" \/ (answer'.is = "failed" /\ faulted')
    <3>1. Outcome("none", NoPair).is = "none" /\ Outcome("failed", NoPair).is = "failed"
      BY DEF Outcome
    <3>2. CASE Killed
      BY <3>1, <3>2 DEF Killed
    <3>3. ASSUME NEW files, NEW retry, WriteFails(files, retry), retry # "idle"
          PROVE  answer' = Outcome("failed", NoPair) /\ faulted' = TRUE
      BY <1>1, <3>3 DEF WriteFails
    <3>4. CASE CAWriteFails \/ ServerWriteFails
      BY <3>1, <3>3, <3>4 DEF CAWriteFails, ServerWriteFails
    <3>5. CASE ProfileFails
      BY <1>1, <3>1, <3>5 DEF ProfileFails
    <3> QED
      BY <3>2, <3>4, <3>5
  <2>2. AnswersAtEnd' /\ AuthorityOnDisk' /\ ProfileOfAuthority' /\ FreshServer'
    BY <1>1 DEF AnswersAtEnd, AuthorityOnDisk, ProfileOfAuthority, FreshServer, ServerSteps
  <2> QED
    BY <2>1, <2>2 DEF CertInv, CertificateTrusted
<1>2. CASE step' = "retry ca" /\ step # "idle" /\ UNCHANGED answer
  <2>1. answer'.is = "none" /\ AuthorityOnDisk' /\ ProfileOfAuthority' /\ FreshServer'
    BY <1>2 DEF CertInv, AnswersAtEnd, AuthorityOnDisk, ProfileOfAuthority, FreshServer, ServerSteps
  <2> QED
    BY <2>1, CommandGoesOn
<1>3. CASE /\ step' = "retry server" /\ step \in ServerSteps
           /\ UNCHANGED <<answer, caCert, caKey, profile, ca, addresses>>
  <2>1. answer'.is = "none" /\ AuthorityOnDisk' /\ ProfileOfAuthority' /\ FreshServer'
    BY <1>3 DEF CertInv, AnswersAtEnd, AuthorityOnDisk, ProfileOfAuthority, FreshServer, ServerSteps, Whole
  <2> QED
    BY <2>1, CommandGoesOn
<1> QED
  BY <1>1, <1>2, <1>3 DEF Killed, CAWriteFails, ServerWriteFails, ProfileFails, WriteFails, ServerSteps

(* Between two commands: the last answer is withdrawn. *)
LEMMA BetweenKeeps == CertInv /\ (CAAges \/ ServerAges \/ Moved) => CertInv'
<1> SUFFICES ASSUME CertInv, CAAges \/ ServerAges \/ Moved PROVE CertInv'
  OBVIOUS
<1>1. step' = "idle" /\ answer'.is = "none"
  BY DEF CAAges, ServerAges, Moved, Outcome
<1> QED
  BY <1>1, CommandGoesOn DEF AuthorityOnDisk, ProfileOfAuthority, FreshServer, ServerSteps

\* Every step keeps the invariant.
LEMMA CertNextInv == CertInv /\ [CertNext]_certVars => CertInv'
<1> SUFFICES ASSUME CertInv, [CertNext]_certVars PROVE CertInv'
  OBVIOUS
<1>1. CASE UNCHANGED certVars
  BY <1>1 DEF certVars, certFiles, CertInv, AnswersAtEnd, AuthorityOnDisk, ProfileOfAuthority, FreshServer,
              CertificateTrusted, Whole
<1> QED
  BY <1>1, AuthorityKeeps, EndKeeps, ServerKeeps, FaultKeeps, BetweenKeeps DEF CertNext

(* Whatever earlier commands have left on the disk, what is served is signed
   by the authority of the profile and covers the machine's addresses. *)
THEOREM ServedIsTrusted == CertSpec => []CertificateTrusted
<1>1. CertInv => CertificateTrusted
  BY DEF CertInv
<1> QED
  BY <1>1, CertInitInv, CertNextInv, PTL DEF CertSpec

-----------------------------------------------------------------------------
(* The secret store.  As long as no other command changes the file, it has not
   changed since a command read it, and what that command writes is the file
   with its own secret.  What a raced command touches is in doubt. *)

Secret == Nat \cup {Missing}
Secrets == [KeyNames -> Secret]
Call == [stage : {"idle", "get", "read", "open", "flush", "rename", "readback"}, on : Backends,
         name : KeyNames, value : Secret, readback : {"none", "any", "own"}, entries : Secrets,
         raced : BOOLEAN]

SecretTypeOK ==
    /\ held \in [Backends -> Secrets] /\ asTold \in [Backends -> Secrets]
    /\ unsure \in [Backends -> [KeyNames -> SUBSET Secret]]
    /\ envTmp \in Secrets \cup {NoTmp} /\ calls \in [Commands -> Call]
    /\ late \subseteq KeyNames \X Secret
    /\ doubt \in [Backends -> SUBSET KeyNames] /\ given \in [KeyNames -> SUBSET Secret]
    /\ secretsMade \in Nat

(* Two commands that change the same file, or entry, are both raced. *)
OneWriter ==
    /\ \A c, d \in Commands :
           c # d /\ Writing(c) /\ Writing(d) /\ calls[d].on = calls[c].on
           /\ calls[d].name \in Touched(calls[c].on, calls[c].name) => calls[c].raced
    /\ \A c \in Commands :
           Writing(c) /\ calls[c].raced => Touched(calls[c].on, calls[c].name) \subseteq doubt[calls[c].on]

(* The file a command writes, from its read to its rename. *)
FileSteps ==
    \A c \in Commands :
        /\ calls[c].stage \in {"open", "flush", "rename"} =>
               /\ calls[c].on = "dotenv"
               /\ ~calls[c].raced => calls[c].entries = [held["dotenv"] EXCEPT ![calls[c].name] = calls[c].value]
        /\ calls[c].stage = "flush" /\ ~calls[c].raced => envTmp = Nowhere
        /\ calls[c].stage = "rename" /\ ~calls[c].raced => envTmp = calls[c].entries

LateUnsure == \A x \in late : x[2] \in unsure["keyring"][x[1]]

SecretInv == SecretTypeOK /\ OneWriter /\ FileSteps /\ LateUnsure /\ SecretsAsTold

\* A store with nothing in it.
LEMMA NowhereFact == Nowhere \in Secrets /\ Nowhere # NoTmp /\ \A n \in KeyNames : Nowhere[n] = Missing
BY SecretAssumption DEF Nowhere, Secrets, Secret

\* A command that is not in a call.
LEMMA IdleFact == Idle \in Call /\ Idle.stage = "idle"
BY NowhereFact DEF Idle, Call, Backends, KeyNames, Secret

\* The record of a call, one field at a time.
LEMMA CallFields ==
    ASSUME SecretTypeOK, NEW c \in Commands
    PROVE  /\ calls[c] \in Call /\ calls[c].on \in Backends /\ calls[c].name \in KeyNames
           /\ calls[c].value \in Secret /\ calls[c].entries \in Secrets
           /\ calls[c].raced \in BOOLEAN
BY DEF SecretTypeOK, Call

(* One command goes to another stage of its call. *)
LEMMA StageMoves ==
    ASSUME SecretTypeOK, NEW c \in Commands,
           NEW stage \in {"get", "read", "open", "flush", "rename", "readback"}, Stage(c, stage)
    PROVE  /\ calls' \in [Commands -> Call]
           /\ calls'[c].stage = stage /\ calls'[c].on = calls[c].on /\ calls'[c].name = calls[c].name
           /\ calls'[c].value = calls[c].value /\ calls'[c].entries = calls[c].entries
           /\ calls'[c].readback = calls[c].readback /\ calls'[c].raced = calls[c].raced
           /\ \A d \in Commands \ {c} : calls'[d] = calls[d]
<1>1. PICK new : new = [calls[c] EXCEPT !.stage = stage]
  OBVIOUS
<1>2. /\ new \in Call /\ new.stage = stage /\ new.on = calls[c].on /\ new.name = calls[c].name
      /\ new.value = calls[c].value /\ new.entries = calls[c].entries /\ new.readback = calls[c].readback
      /\ new.raced = calls[c].raced
  BY <1>1, CallFields DEF Call
<1>3. calls' = [calls EXCEPT ![c] = new] /\ calls \in [Commands -> Call]
  BY <1>1 DEF Stage, SecretTypeOK
<1> QED
  BY <1>2, <1>3

\* A call returns: nothing but its record changes.
LEMMA ReturnMoves ==
    ASSUME SecretTypeOK, NEW c \in Commands, ReturnCall(c)
    PROVE  /\ calls' \in [Commands -> Call] /\ calls'[c].stage = "idle"
           /\ \A d \in Commands \ {c} : calls'[d] = calls[d]
BY IdleFact DEF ReturnCall, SecretTypeOK

(* No command begins to write, and none is in less doubt. *)
LEMMA WritersStay ==
    ASSUME OneWriter, UNCHANGED doubt,
           \A d \in Commands : calls'[d].stage \notin {"idle", "get"} =>
               /\ Writing(d)
               /\ calls'[d].on = calls[d].on /\ calls'[d].name = calls[d].name /\ calls'[d].raced = calls[d].raced
    PROVE  OneWriter'
<1>1. \A d \in Commands : Writing(d)' => /\ Writing(d)
                                         /\ calls'[d].on = calls[d].on /\ calls'[d].name = calls[d].name
                                         /\ calls'[d].raced = calls[d].raced
  BY DEF Writing
<1>2. \A on, n : Touched(on, n)' = Touched(on, n)
  BY DEF Touched
<1>3. ASSUME NEW d \in Commands, NEW e \in Commands, d # e, Writing(d)', Writing(e)',
             calls'[e].on = calls'[d].on, calls'[e].name \in Touched(calls'[d].on, calls'[d].name)
      PROVE  calls'[d].raced
  <2>1. /\ Writing(d) /\ calls'[d].on = calls[d].on /\ calls'[d].name = calls[d].name /\ calls'[d].raced = calls[d].raced
        /\ Writing(e) /\ calls'[e].on = calls[e].on /\ calls'[e].name = calls[e].name
    BY <1>1, <1>3
  <2>2. calls[e].on = calls[d].on /\ calls[e].name \in Touched(calls[d].on, calls[d].name)
    BY <1>3, <2>1
  <2>3. calls[d].raced
    BY <1>3, <2>1, <2>2 DEF OneWriter
  <2> QED
    BY <2>1, <2>3
<1>4. ASSUME NEW d \in Commands, Writing(d)', calls'[d].raced
      PROVE  Touched(calls'[d].on, calls'[d].name) \subseteq doubt'[calls'[d].on]
  <2>1. /\ Writing(d) /\ calls'[d].on = calls[d].on /\ calls'[d].name = calls[d].name /\ calls[d].raced
    BY <1>1, <1>4
  <2>2. Touched(calls[d].on, calls[d].name) \subseteq doubt[calls[d].on]
    BY <2>1 DEF OneWriter
  <2> QED
    BY <2>1, <2>2
<1> QED
  BY <1>2, <1>3, <1>4 DEF OneWriter

(* The secrets, when a command that is writing goes on writing, and has
   changed at most the secret it is about. *)
LEMMA KeptWhileWriting ==
    ASSUME SecretInv, NEW c \in Commands,
           \A d \in Commands \ {c} : calls'[d] = calls[d],
           calls'[c].on = calls[c].on, calls'[c].name = calls[c].name, calls'[c].value = calls[c].value,
           calls'[c].stage \notin {"idle", "get"},
           UNCHANGED <<asTold, unsure, doubt>>,
           \A b \in Backends, n \in KeyNames :
               \/ n \in doubt[b]
               \/ held'[b][n] = held[b][n]
               \/ b = calls[c].on /\ n = calls[c].name /\ held'[b][n] = calls[c].value
    PROVE  SecretsAsTold'
<1> SUFFICES ASSUME NEW b \in Backends, NEW n \in KeyNames, n \notin doubt[b]
             PROVE  \/ held'[b][n] \in {asTold[b][n]} \cup unsure[b][n]
                    \/ \E d \in Commands : Writing(d)' /\ calls'[d].on = b /\ calls'[d].name = n
                                           /\ calls'[d].value = held'[b][n]
  BY DEF SecretsAsTold
<1>1. Writing(c)' /\ \A d \in Commands \ {c} : Writing(d)' = Writing(d)
  BY DEF Writing
<1>2. CASE held'[b][n] = held[b][n]
  BY <1>1, <1>2 DEF SecretInv, SecretsAsTold
<1>3. CASE b = calls[c].on /\ n = calls[c].name /\ held'[b][n] = calls[c].value
  BY <1>1, <1>3
<1> QED
  BY <1>2, <1>3

(* A call that returns without an error has told what is there. *)
LEMMA ReportKeeps ==
    ASSUME SecretInv, NEW c \in Commands, NEW value \in Secret, Report(c, value), Writing(c),
           UNCHANGED late,
           ~calls[c].raced => held'[calls[c].on][calls[c].name] = value,
           \A b \in Backends, n \in KeyNames :
               b # calls[c].on \/ n # calls[c].name => n \in doubt[b] \/ held'[b][n] = held[b][n]
    PROVE  /\ SecretsAsTold' /\ LateUnsure' /\ OneWriter'
           /\ asTold' \in [Backends -> Secrets] /\ unsure' \in [Backends -> [KeyNames -> SUBSET Secret]]
        /\ doubt' \in [Backends -> SUBSET KeyNames]
           /\ doubt' \in [Backends -> SUBSET KeyNames]
           /\ calls' \in [Commands -> Call] /\ calls'[c].stage = "idle"
           /\ \A d \in Commands \ {c} : calls'[d] = calls[d]
<1>1. PICK be \in Backends, name \in KeyNames : be = calls[c].on /\ name = calls[c].name
  BY CallFields DEF SecretInv
<1> DEFINE left == IF be = "keyring" THEN {x[2] : x \in {y \in late : y[1] = name}} ELSE {}
<1>2. /\ asTold' = [asTold EXCEPT ![be][name] = value]
      /\ unsure' = [unsure EXCEPT ![be][name] = left]
      /\ doubt' = IF calls[c].raced THEN doubt ELSE [doubt EXCEPT ![be] = doubt[be] \ {name}]
      /\ ReturnCall(c)
  BY <1>1 DEF Report
<1>3. /\ calls' \in [Commands -> Call] /\ calls'[c].stage = "idle"
      /\ \A d \in Commands \ {c} : calls'[d] = calls[d]
  BY <1>2, ReturnMoves DEF SecretInv
<1>4. left \subseteq Secret
  BY DEF SecretInv, SecretTypeOK
<1>5. /\ asTold \in [Backends -> [KeyNames -> Secret]]
      /\ unsure \in [Backends -> [KeyNames -> SUBSET Secret]] /\ late \subseteq KeyNames \X Secret
  BY DEF SecretInv, SecretTypeOK, Secrets
<1>6. \A x \in late : x[1] = name /\ be = "keyring" => x[2] \in left
  OBVIOUS
<1> HIDE DEF left
<1>7. /\ asTold' \in [Backends -> Secrets]
      /\ \A b \in Backends, n \in KeyNames :
             asTold'[b][n] = IF b = be /\ n = name THEN value ELSE asTold[b][n]
  BY <1>2, <1>5 DEF Secrets
<1>8. /\ unsure' \in [Backends -> [KeyNames -> SUBSET Secret]]
      /\ \A b \in Backends, n \in KeyNames :
             unsure'[b][n] = IF b = be /\ n = name THEN left ELSE unsure[b][n]
  BY <1>2, <1>4, <1>5
<1>9. LateUnsure'
  <2> SUFFICES ASSUME NEW x \in late PROVE x[2] \in unsure'["keyring"][x[1]]
    BY DEF LateUnsure
  <2>1. x[1] \in KeyNames /\ x[2] \in unsure["keyring"][x[1]] /\ "keyring" \in Backends
    BY <1>5 DEF SecretInv, LateUnsure, Backends
  <2> QED
    BY <1>6, <1>8, <2>1
<1>81. doubt \in [Backends -> SUBSET KeyNames]
  BY DEF SecretInv, SecretTypeOK
<1>82. /\ doubt' \in [Backends -> SUBSET KeyNames]
       /\ \A b \in Backends, n \in KeyNames :
              n \in doubt'[b] <=> n \in doubt[b] /\ (~calls[c].raced => b # be \/ n # name)
  BY <1>2, <1>81
<1>10. OneWriter'
  <2>1. ASSUME NEW d \in Commands, Writing(d)', calls'[d].raced
        PROVE  Touched(calls'[d].on, calls'[d].name) \subseteq doubt'[calls'[d].on]
    <3>1. d # c /\ calls'[d] = calls[d] /\ Writing(d)
      BY <1>3, <2>1 DEF Writing
    <3>2. calls[d].on \in Backends /\ calls[d].name \in KeyNames
      BY CallFields DEF SecretInv
    <3>3. Touched(calls[d].on, calls[d].name) \subseteq doubt[calls[d].on]
      BY <2>1, <3>1 DEF SecretInv, OneWriter
    <3>4. Touched(calls[d].on, calls[d].name) \subseteq KeyNames
      BY <3>2 DEF Touched
    <3>5. ~calls[c].raced /\ calls[d].on = be => name \notin Touched(calls[d].on, calls[d].name)
      BY <1>1, <3>1, <3>2 DEF SecretInv, OneWriter, Touched
    <3> QED
      BY <1>82, <3>1, <3>2, <3>3, <3>4, <3>5
  <2>2. ASSUME NEW d \in Commands, NEW e \in Commands, d # e, Writing(d)', Writing(e)',
               calls'[e].on = calls'[d].on, calls'[e].name \in Touched(calls'[d].on, calls'[d].name)
        PROVE  calls'[d].raced
    <3>1. d # c /\ e # c /\ calls'[d] = calls[d] /\ calls'[e] = calls[e] /\ Writing(d) /\ Writing(e)
      BY <1>3, <2>2 DEF Writing
    <3>2. calls[e].on = calls[d].on /\ calls[e].name \in Touched(calls[d].on, calls[d].name)
      BY <2>2, <3>1
    <3> QED
      BY <2>2, <3>1, <3>2 DEF SecretInv, OneWriter
  <2>3. \A on, n : Touched(on, n)' = Touched(on, n)
    BY DEF Touched
  <2> QED
    BY <2>1, <2>2, <2>3 DEF OneWriter
<1>11. ASSUME NEW b \in Backends, NEW n \in KeyNames, n \notin doubt'[b]
       PROVE  \/ held'[b][n] \in {asTold'[b][n]} \cup unsure'[b][n]
              \/ \E d \in Commands : Writing(d)' /\ calls'[d].on = b /\ calls'[d].name = n
                                     /\ calls'[d].value = held'[b][n]
  <2>1. CASE b = be /\ n = name
    <3>1. ~calls[c].raced
      BY <1>1, <1>11, <1>82, <2>1 DEF SecretInv, OneWriter, Touched
    <3> QED
      BY <1>1, <1>7, <2>1, <3>1
  <2>2. CASE ~(b = be /\ n = name)
    <3>0. n \notin doubt[b]
      BY <1>11, <1>82, <2>2
    <3>1. /\ held'[b][n] = held[b][n] /\ asTold'[b][n] = asTold[b][n] /\ unsure'[b][n] = unsure[b][n]
          /\ \A d \in Commands \ {c} : Writing(d)' = Writing(d)
      BY <1>1, <1>3, <1>7, <1>8, <2>2, <3>0 DEF Writing
    <3>2. \/ held[b][n] \in {asTold[b][n]} \cup unsure[b][n]
          \/ \E d \in Commands : Writing(d) /\ calls[d].on = b /\ calls[d].name = n
                                 /\ calls[d].value = held[b][n]
      BY <3>0 DEF SecretInv, SecretsAsTold
    <3> QED
      BY <1>1, <1>3, <2>2, <3>1, <3>2
  <2> QED
    BY <2>1, <2>2
<1>12. SecretsAsTold'
  BY <1>11 DEF SecretsAsTold
<1> QED
  BY <1>3, <1>7, <1>8, <1>82, <1>9, <1>10, <1>12

(* The files of the commands that do not move, when the file of the secrets
   and the one beside it stay, or when the command that moves is alone. *)
LEMMA OtherFilesStay ==
    ASSUME SecretInv, NEW c \in Commands,
           \A d \in Commands \ {c} : calls'[d] = calls[d],
           \/ UNCHANGED <<held, envTmp>>
           \/ Writing(c) /\ calls[c].on = "dotenv"
           \/ UNCHANGED envTmp /\ held'["dotenv"] = held["dotenv"]
    PROVE  \A d \in Commands \ {c} :
               /\ calls'[d].stage \in {"open", "flush", "rename"} =>
                      /\ calls'[d].on = "dotenv"
                      /\ ~calls'[d].raced => calls'[d].entries = [held'["dotenv"] EXCEPT ![calls'[d].name] = calls'[d].value]
               /\ calls'[d].stage = "flush" /\ ~calls'[d].raced => envTmp' = Nowhere
               /\ calls'[d].stage = "rename" /\ ~calls'[d].raced => envTmp' = calls'[d].entries
<1> SUFFICES ASSUME NEW d \in Commands \ {c}
             PROVE  /\ calls[d].stage \in {"open", "flush", "rename"} =>
                           /\ calls[d].on = "dotenv"
                           /\ ~calls[d].raced => calls[d].entries = [held'["dotenv"] EXCEPT ![calls[d].name] = calls[d].value]
                    /\ calls[d].stage = "flush" /\ ~calls[d].raced => envTmp' = Nowhere
                    /\ calls[d].stage = "rename" /\ ~calls[d].raced => envTmp' = calls[d].entries
  OBVIOUS
<1>1. /\ calls[d].stage \in {"open", "flush", "rename"} =>
             /\ calls[d].on = "dotenv"
             /\ ~calls[d].raced => calls[d].entries = [held["dotenv"] EXCEPT ![calls[d].name] = calls[d].value]
      /\ calls[d].stage = "flush" /\ ~calls[d].raced => envTmp = Nowhere
      /\ calls[d].stage = "rename" /\ ~calls[d].raced => envTmp = calls[d].entries
  BY DEF SecretInv, FileSteps
<1>2. CASE UNCHANGED envTmp /\ held'["dotenv"] = held["dotenv"]
  BY <1>1, <1>2
<1>3. CASE Writing(c) /\ calls[c].on = "dotenv"
  <2>1. calls[d].stage \in {"open", "flush", "rename"} => calls[d].raced
    BY <1>1, <1>3, CallFields DEF SecretInv, OneWriter, Writing, Touched
  <2> QED
    BY <1>1, <2>1
<1> QED
  BY <1>2, <1>3

-----------------------------------------------------------------------------
(* What a step of one command has to show, when it keeps to its own call. *)
LEMMA CallKeeps ==
    ASSUME SecretInv, NEW c \in Commands,
           SecretTypeOK', OneWriter', LateUnsure', SecretsAsTold',
           \A d \in Commands \ {c} : calls'[d] = calls[d],
           \/ UNCHANGED <<held, envTmp>>
           \/ Writing(c) /\ calls[c].on = "dotenv"
           \/ UNCHANGED envTmp /\ held'["dotenv"] = held["dotenv"],
           calls'[c].stage \in {"open", "flush", "rename"} =>
               /\ calls'[c].on = "dotenv"
               /\ ~calls'[c].raced => calls'[c].entries = [held'["dotenv"] EXCEPT ![calls'[c].name] = calls'[c].value],
           calls'[c].stage = "flush" /\ ~calls'[c].raced => envTmp' = Nowhere,
           calls'[c].stage = "rename" /\ ~calls'[c].raced => envTmp' = calls'[c].entries
    PROVE  SecretInv'
<1>1. \A d \in Commands \ {c} :
               /\ calls'[d].stage \in {"open", "flush", "rename"} =>
                      /\ calls'[d].on = "dotenv"
                      /\ ~calls'[d].raced => calls'[d].entries = [held'["dotenv"] EXCEPT ![calls'[d].name] = calls'[d].value]
               /\ calls'[d].stage = "flush" /\ ~calls'[d].raced => envTmp' = Nowhere
               /\ calls'[d].stage = "rename" /\ ~calls'[d].raced => envTmp' = calls'[d].entries
  BY OtherFilesStay
<1>2. FileSteps'
  BY <1>1 DEF FileSteps
<1> QED
  BY <1>2 DEF SecretInv

(* A command that rests, or only reads, changes no secret. *)
LEMMA RestKeeps ==
    ASSUME SecretInv, NEW c \in Commands, NEW new \in Call, calls' = [calls EXCEPT ![c] = new],
           calls[c].stage \in {"idle", "get"}, new.stage \in {"idle", "get"},
           UNCHANGED <<held, envTmp, late, asTold, unsure, doubt, given>>, secretsMade' \in Nat
    PROVE  SecretInv'
<1>1. /\ calls' \in [Commands -> Call] /\ calls'[c] = new
      /\ \A d \in Commands \ {c} : calls'[d] = calls[d]
  BY DEF SecretInv, SecretTypeOK
<1>2. SecretTypeOK'
  BY <1>1 DEF SecretInv, SecretTypeOK
<1>3. OneWriter' /\ LateUnsure'
  BY <1>1 DEF SecretInv, OneWriter, Writing, LateUnsure, Touched
<1>4. SecretsAsTold'
  <2>1. \A d \in Commands : Writing(d) => d # c /\ calls'[d] = calls[d] /\ Writing(d)'
    BY <1>1 DEF Writing
  <2> QED
    BY <2>1 DEF SecretInv, SecretsAsTold
<1> QED
  BY <1>1, <1>2, <1>3, <1>4, CallKeeps

(* A call begins to change a secret: nothing is stored yet. *)
LEMMA BeginKeeps ==
    ASSUME SecretInv, NEW c \in Commands, NEW call \in Call, BeginSet(c, call),
           calls[c].stage \in {"idle", "get"}, call.stage \in {"idle", "get"},
           UNCHANGED <<held, envTmp, late, asTold, unsure>>, secretsMade' \in Nat
    PROVE  SecretInv'
<1>1. PICK rivals : rivals = Rivals(c, call.on, call.name)
  OBVIOUS
<1>2. PICK raced \in BOOLEAN : raced = (rivals # {})
  OBVIOUS
<1>3. PICK new : new = [call EXCEPT !.stage = "read", !.raced = raced]
  OBVIOUS
<1>4. /\ new \in Call /\ new.stage = "read" /\ new.on = call.on /\ new.name = call.name
      /\ new.value = call.value /\ new.raced = raced
      /\ call.on \in Backends /\ call.name \in KeyNames /\ call.value \in Secret
  BY <1>3 DEF Call
<1>5. /\ calls' = [d \in Commands |-> IF d = c THEN new ELSE [calls[d] EXCEPT !.raced = calls[d].raced \/ d \in rivals]]
      /\ doubt' = [doubt EXCEPT ![call.on] =
                      IF rivals = {} THEN doubt[call.on] ELSE doubt[call.on] \cup Touched(call.on, call.name)]
      /\ given' = [given EXCEPT ![call.name] = given[call.name] \cup {call.value}]
  BY <1>1, <1>2, <1>3 DEF BeginSet
<1>6. \A d \in Commands \ {c} :
          /\ calls'[d] \in Call /\ calls'[d].stage = calls[d].stage /\ calls'[d].on = calls[d].on
          /\ calls'[d].name = calls[d].name /\ calls'[d].value = calls[d].value
          /\ calls'[d].entries = calls[d].entries /\ calls'[d].raced = (calls[d].raced \/ d \in rivals)
  <2> SUFFICES ASSUME NEW d \in Commands \ {c}
               PROVE  /\ calls'[d] \in Call /\ calls'[d].stage = calls[d].stage /\ calls'[d].on = calls[d].on
                      /\ calls'[d].name = calls[d].name /\ calls'[d].value = calls[d].value
                      /\ calls'[d].entries = calls[d].entries /\ calls'[d].raced = (calls[d].raced \/ d \in rivals)
    OBVIOUS
  <2>1. PICK now \in BOOLEAN : now = (calls[d].raced \/ d \in rivals)
    OBVIOUS
  <2>2. calls'[d] = [calls[d] EXCEPT !.raced = now] /\ calls[d] \in Call
    BY <1>5, <2>1, CallFields DEF SecretInv
  <2> QED
    BY <2>1, <2>2 DEF Call
<1>7. calls' \in [Commands -> Call] /\ calls'[c] = new
  BY <1>4, <1>5, <1>6
<1>8. doubt \in [Backends -> SUBSET KeyNames] /\ given \in [KeyNames -> SUBSET Secret] /\ SecretTypeOK
  BY DEF SecretInv, SecretTypeOK
<1>9. Touched(call.on, call.name) \subseteq KeyNames
  BY <1>4 DEF Touched
<1>10. /\ doubt' \in [Backends -> SUBSET KeyNames]
       /\ \A b \in Backends : doubt[b] \subseteq doubt'[b]
       /\ rivals # {} => Touched(call.on, call.name) \subseteq doubt'[call.on]
  BY <1>4, <1>5, <1>8, <1>9
<1>11. SecretTypeOK'
  BY <1>4, <1>5, <1>7, <1>8, <1>10 DEF SecretTypeOK
<1>12. /\ \A d \in Commands \ {c} : Writing(d)' = Writing(d)
       /\ ~Writing(c) /\ \A d \in rivals : d \in Commands \ {c} /\ Writing(d) /\ calls[d].on = call.on
                                          /\ calls[d].name \in Touched(call.on, call.name)
       /\ \A d \in Commands \ {c} : Writing(d) /\ calls[d].on = call.on
                                    /\ calls[d].name \in Touched(call.on, call.name) => d \in rivals
  BY <1>1, <1>6 DEF Writing, Rivals
<1>13. \A on, n : Touched(on, n)' = Touched(on, n)
  BY DEF Touched
<1>14. ASSUME NEW d \in Commands, NEW e \in Commands, d # e, Writing(d)', Writing(e)',
              calls'[e].on = calls'[d].on, calls'[e].name \in Touched(calls'[d].on, calls'[d].name)
       PROVE  calls'[d].raced
  <2>1. CASE d = c
    BY <1>2, <1>4, <1>6, <1>7, <1>12, <1>14, <2>1
  <2>2. CASE e = c
    <3>1. calls[d].name \in KeyNames
      BY CallFields DEF SecretInv
    <3>2. d \in rivals
      BY <1>4, <1>6, <1>7, <1>12, <1>14, <2>2, <3>1 DEF Touched
    <3> QED
      BY <1>6, <1>14, <2>2, <3>2
  <2>3. CASE d # c /\ e # c
    <3>1. Writing(d) /\ Writing(e)
      BY <1>12, <1>14, <2>3
    <3>2. calls[e].on = calls[d].on /\ calls[e].name \in Touched(calls[d].on, calls[d].name)
      BY <1>6, <1>14, <2>3
    <3>3. calls[d].raced
      BY <1>14, <3>1, <3>2 DEF SecretInv, OneWriter
    <3> QED
      BY <1>6, <2>3, <3>3
  <2> QED
    BY <2>1, <2>2, <2>3
<1>15. ASSUME NEW d \in Commands, Writing(d)', calls'[d].raced
       PROVE  Touched(calls'[d].on, calls'[d].name) \subseteq doubt'[calls'[d].on]
  <2>1. CASE d = c
    BY <1>2, <1>4, <1>7, <1>10, <1>15, <2>1
  <2>2. CASE d # c /\ calls[d].raced
    <3>1. Touched(calls[d].on, calls[d].name) \subseteq doubt[calls[d].on] /\ calls[d].on \in Backends
      BY <1>12, <1>15, <2>2, CallFields DEF SecretInv, OneWriter
    <3> QED
      BY <1>6, <1>10, <2>2, <3>1
  <2>3. CASE d # c /\ d \in rivals
    <3>1. calls'[d].on = call.on /\ calls'[d].name \in Touched(call.on, call.name)
      BY <1>6, <1>12, <2>3
    <3>2. Touched(calls'[d].on, calls'[d].name) \subseteq Touched(call.on, call.name)
      BY <3>1 DEF Touched
    <3> QED
      BY <1>10, <2>3, <3>1, <3>2
  <2> QED
    BY <1>6, <1>15, <2>1, <2>2, <2>3
<1>16. OneWriter'
  BY <1>13, <1>14, <1>15 DEF OneWriter
<1>17. LateUnsure'
  BY DEF SecretInv, LateUnsure
<1>18. FileSteps'
  <2> SUFFICES ASSUME NEW d \in Commands
               PROVE  /\ calls'[d].stage \in {"open", "flush", "rename"} =>
                             /\ calls'[d].on = "dotenv"
                             /\ ~calls'[d].raced => calls'[d].entries = [held["dotenv"] EXCEPT ![calls'[d].name] = calls'[d].value]
                      /\ calls'[d].stage = "flush" /\ ~calls'[d].raced => envTmp = Nowhere
                      /\ calls'[d].stage = "rename" /\ ~calls'[d].raced => envTmp = calls'[d].entries
    BY DEF FileSteps
  <2>1. CASE d = c
    BY <1>4, <1>7, <2>1
  <2>2. CASE d # c
    BY <1>6, <2>2 DEF SecretInv, FileSteps
  <2> QED
    BY <2>1, <2>2
<1>19. SecretsAsTold'
  <2> SUFFICES ASSUME NEW b \in Backends, NEW n \in KeyNames, n \notin doubt'[b]
               PROVE  \/ held[b][n] \in {asTold[b][n]} \cup unsure[b][n]
                      \/ \E d \in Commands : Writing(d)' /\ calls'[d].on = b /\ calls'[d].name = n
                                             /\ calls'[d].value = held[b][n]
    BY DEF SecretsAsTold
  <2>1. n \notin doubt[b]
    BY <1>10
  <2>2. \A d \in Commands : Writing(d) => d # c
    BY <1>12
  <2> QED
    BY <1>6, <1>12, <2>1, <2>2 DEF SecretInv, SecretsAsTold
<1> QED
  BY <1>11, <1>16, <1>17, <1>18, <1>19 DEF SecretInv

\* StoreKey begins with a read.
LEMMA GetKeeps == ASSUME SecretInv, NEW c \in Commands, Get(c) PROVE SecretInv'
<1>1. PICK be \in Backends :
          calls' = [calls EXCEPT ![c] = [Opened(be) EXCEPT !.stage = "get", !.readback = "any"]]
  BY DEF Get
<1>2. PICK new : new = [Opened(be) EXCEPT !.stage = "get", !.readback = "any"]
  OBVIOUS
<1>3. new \in Call /\ new.stage = "get"
  BY <1>2, IdleFact DEF Opened, Call
<1>4. calls' = [calls EXCEPT ![c] = new] /\ calls[c].stage = "idle"
      /\ UNCHANGED <<held, envTmp, late, asTold, unsure, doubt, given, secretsMade>>
  BY <1>1, <1>2 DEF Get
<1>5. secretsMade' \in Nat
  BY <1>4 DEF SecretInv, SecretTypeOK
<1> QED
  BY <1>3, <1>4, <1>5, RestKeeps

\* The call with which a secret is set.
SetOf(be, n, v) == [Opened(be) EXCEPT !.name = n, !.value = v,
                                      !.readback = IF n = StoreKeyName THEN "own" ELSE "none"]

LEMMA SetCall ==
    ASSUME NEW be \in Backends, NEW n \in KeyNames, NEW v \in Secret
    PROVE  /\ SetOf(be, n, v) \in Call /\ SetOf(be, n, v).stage = "idle"
           /\ SetOf(be, n, v).entries = Nowhere
<1>1. PICK readback \in {"own", "none"} : readback = IF n = StoreKeyName THEN "own" ELSE "none"
  OBVIOUS
<1>2. PICK call : call = [Opened(be) EXCEPT !.name = n, !.value = v, !.readback = readback]
  OBVIOUS
<1>3. call \in Call /\ call.stage = "idle" /\ call.entries = Nowhere
  BY <1>2, IdleFact DEF Opened, Call, Idle
<1>4. SetOf(be, n, v) = call
  BY <1>1, <1>2 DEF SetOf
<1> QED
  BY <1>3, <1>4

\* A secret is made, and set.
LEMMA SetKeeps == ASSUME SecretInv, NEW c \in Commands, Set(c) PROVE SecretInv'
<1>1. secretsMade \in Nat /\ secretsMade' = secretsMade + 1 /\ calls[c].stage = "idle"
      /\ UNCHANGED <<held, envTmp, late, asTold, unsure>>
  BY DEF SecretInv, SecretTypeOK, Set
<1>2. {secretsMade + 1, Missing} \subseteq Secret /\ secretsMade' \in Nat
  BY <1>1 DEF Secret
<1>3. PICK be \in Backends, n \in KeyNames, v \in Secret :
          BeginSet(c, SetOf(be, n, v))
  BY <1>2 DEF Set, SetOf
<1>4. PICK call : call = SetOf(be, n, v)
  OBVIOUS
<1>5. call \in Call /\ call.stage = "idle" /\ BeginSet(c, call)
  BY <1>3, <1>4, SetCall
<1> QED
  BY <1>1, <1>2, <1>5, BeginKeeps

\* StoreKey reads a key, or makes one and sets it.
LEMMA GotKeyKeeps == ASSUME SecretInv, NEW c \in Commands, GotKey(c) PROVE SecretInv'
<1>1. calls[c].stage = "get" /\ UNCHANGED <<held, envTmp, late, asTold, unsure>> /\ secretsMade \in Nat
  BY DEF GotKey, SecretInv, SecretTypeOK
<1>2. CASE held[calls[c].on][StoreKeyName] # Missing
  BY <1>1, <1>2, IdleFact, RestKeeps DEF GotKey, ReturnCall
<1>3. CASE held[calls[c].on][StoreKeyName] = Missing
  <2>1. PICK call : call = [calls[c] EXCEPT !.value = secretsMade + 1]
    OBVIOUS
  <2>2. secretsMade + 1 \in Secret /\ calls[c] \in Call
    BY <1>1, CallFields DEF SecretInv, Secret
  <2>3. call \in Call /\ call.stage = "get"
    BY <1>1, <2>1, <2>2 DEF Call
  <2>4. BeginSet(c, call) /\ secretsMade' = secretsMade + 1
    BY <1>3, <2>1 DEF GotKey
  <2>5. secretsMade' \in Nat
    BY <1>1, <2>4
  <2> QED
    BY <1>1, <2>3, <2>4, <2>5, BeginKeeps
<1> QED
  BY <1>2, <1>3

\* setDotenv reads the whole file.
LEMMA ReadDotenvKeeps == ASSUME SecretInv, NEW c \in Commands, ReadDotenv(c) PROVE SecretInv'
<1>1. /\ calls[c].stage = "read" /\ calls[c].on = "dotenv" /\ calls[c].name \in KeyNames /\ calls[c].value \in Secret
      /\ UNCHANGED <<held, envTmp, late, given, secretsMade>> /\ SecretTypeOK /\ "dotenv" \in Backends /\ Writing(c)
  BY CallFields DEF ReadDotenv, SecretInv, Backends, Writing
<1>2. CASE calls[c].value = Missing /\ held["dotenv"][calls[c].name] = Missing
  <2>1. Report(c, Missing) /\ Missing \in Secret
    BY <1>2 DEF ReadDotenv, Secret
  <2>2. /\ SecretsAsTold' /\ LateUnsure' /\ OneWriter'
        /\ asTold' \in [Backends -> Secrets] /\ unsure' \in [Backends -> [KeyNames -> SUBSET Secret]]
        /\ doubt' \in [Backends -> SUBSET KeyNames]
        /\ calls' \in [Commands -> Call] /\ calls'[c].stage = "idle"
        /\ \A d \in Commands \ {c} : calls'[d] = calls[d]
    BY <1>1, <1>2, <2>1, ReportKeeps
  <2>3. SecretTypeOK'
    BY <1>1, <2>2 DEF SecretTypeOK
  <2> QED
    BY <1>1, <2>2, <2>3, CallKeeps
<1>3. CASE ~(calls[c].value = Missing /\ held["dotenv"][calls[c].name] = Missing)
  <2>1. PICK entries : entries = [held["dotenv"] EXCEPT ![calls[c].name] = calls[c].value]
    OBVIOUS
  <2>2. entries \in Secrets
    BY <1>1, <2>1 DEF SecretTypeOK, Secrets
  <2>3. PICK new : new = [calls[c] EXCEPT !.stage = "open", !.entries = entries]
    OBVIOUS
  <2>4. /\ new \in Call /\ new.stage = "open" /\ new.on = calls[c].on /\ new.name = calls[c].name
        /\ new.value = calls[c].value /\ new.entries = entries /\ new.raced = calls[c].raced
    BY <1>1, <2>2, <2>3, CallFields DEF Call
  <2>5. calls' = [calls EXCEPT ![c] = new] /\ UNCHANGED <<asTold, unsure, doubt>>
    BY <1>1, <1>3, <2>1, <2>3 DEF ReadDotenv, SecretTypeOK
  <2>6. /\ calls' \in [Commands -> Call] /\ calls'[c] = new /\ \A d \in Commands \ {c} : calls'[d] = calls[d]
    BY <1>1, <2>4, <2>5 DEF SecretTypeOK
  <2>7. SecretTypeOK'
    BY <1>1, <2>5, <2>6 DEF SecretTypeOK
  <2>8. OneWriter' /\ LateUnsure'
    BY <1>1, <2>4, <2>5, <2>6, WritersStay DEF SecretInv, LateUnsure, Writing
  <2>9. SecretsAsTold'
    BY <1>1, <2>4, <2>5, <2>6, KeptWhileWriting
  <2> QED
    BY <1>1, <2>1, <2>4, <2>6, <2>7, <2>8, <2>9, CallKeeps
<1> QED
  BY <1>2, <1>3

\* The temporary file is truncated.
LEMMA OpenTmpKeeps == ASSUME SecretInv, NEW c \in Commands, OpenTmp(c) PROVE SecretInv'
<1>1. /\ calls[c].stage = "open" /\ Stage(c, "flush") /\ envTmp' = Nowhere
      /\ UNCHANGED <<held, late, asTold, unsure, doubt, given, secretsMade>> /\ SecretTypeOK
  BY DEF OpenTmp, SecretInv
<1>2. /\ calls' \in [Commands -> Call]
      /\ calls'[c].stage = "flush" /\ calls'[c].on = calls[c].on /\ calls'[c].name = calls[c].name
      /\ calls'[c].value = calls[c].value /\ calls'[c].entries = calls[c].entries /\ calls'[c].raced = calls[c].raced
      /\ \A d \in Commands \ {c} : calls'[d] = calls[d]
  BY <1>1, StageMoves
<1>3. Writing(c) /\ calls[c].on = "dotenv"
      /\ (~calls[c].raced => calls[c].entries = [held["dotenv"] EXCEPT ![calls[c].name] = calls[c].value])
  BY <1>1 DEF SecretInv, FileSteps, Writing
<1>4. SecretTypeOK'
  BY <1>1, <1>2, NowhereFact DEF SecretTypeOK
<1>5. OneWriter' /\ LateUnsure'
  BY <1>1, <1>2, <1>3, WritersStay DEF SecretInv, LateUnsure, Writing
<1>6. SecretsAsTold'
  BY <1>1, <1>2, KeptWhileWriting
<1> QED
  BY <1>1, <1>2, <1>3, <1>4, <1>5, <1>6, CallKeeps

\* Its entries are written.
LEMMA FlushTmpKeeps == ASSUME SecretInv, NEW c \in Commands, FlushTmp(c) PROVE SecretInv'
<1> DEFINE over(old) == {[n \in KeyNames |-> IF n \in keep THEN old[n] ELSE calls[c].entries[n]] :
                             keep \in SUBSET {n \in KeyNames : old[n] # Missing}}
<1>1. /\ calls[c].stage = "flush" /\ Stage(c, "rename")
      /\ UNCHANGED <<late, asTold, unsure, doubt, given, secretsMade>> /\ SecretTypeOK
      /\ IF envTmp = NoTmp
         THEN (\E new \in over(held["dotenv"]) : held' = [held EXCEPT !["dotenv"] = new]) /\ UNCHANGED envTmp
         ELSE (\E new \in over(envTmp) : envTmp' = new) /\ UNCHANGED held
  BY DEF FlushTmp, SecretInv
<1>2. /\ calls' \in [Commands -> Call]
      /\ calls'[c].stage = "rename" /\ calls'[c].on = calls[c].on /\ calls'[c].name = calls[c].name
      /\ calls'[c].value = calls[c].value /\ calls'[c].entries = calls[c].entries /\ calls'[c].raced = calls[c].raced
      /\ \A d \in Commands \ {c} : calls'[d] = calls[d]
  BY <1>1, StageMoves
<1>3. /\ Writing(c) /\ calls[c].on = "dotenv" /\ "dotenv" \in Backends /\ calls[c].entries \in Secrets
      /\ ~calls[c].raced => /\ envTmp = Nowhere
                    /\ calls[c].entries = [held["dotenv"] EXCEPT ![calls[c].name] = calls[c].value]
  BY <1>1, CallFields DEF SecretInv, FileSteps, Writing, Backends
<1>4. \A old \in Secrets : over(old) \subseteq Secrets
  BY <1>3 DEF Secrets
<1>5. over(Nowhere) = {calls[c].entries}
  <2>1. {n \in KeyNames : Nowhere[n] # Missing} = {}
    BY NowhereFact
  <2>2. over(Nowhere) = {[n \in KeyNames |-> calls[c].entries[n]]}
    BY <2>1
  <2> QED
    BY <1>3, <2>2 DEF Secrets
<1>6. held \in [Backends -> Secrets] /\ (envTmp # NoTmp => envTmp \in Secrets)
  BY <1>1 DEF SecretTypeOK
<1> HIDE DEF over
<1>7. held' \in [Backends -> Secrets] /\ envTmp' \in Secrets \cup {NoTmp}
  BY <1>1, <1>3, <1>4, <1>6
<1>8. /\ ~calls[c].raced => UNCHANGED held /\ envTmp' = calls[c].entries
      /\ calls[c].raced => doubt["dotenv"] = KeyNames /\ held'["keyring"] = held["keyring"]
  <2>1. calls[c].raced => KeyNames \subseteq doubt["dotenv"] /\ doubt["dotenv"] \subseteq KeyNames
    BY <1>1, <1>3 DEF SecretInv, OneWriter, Touched, SecretTypeOK
  <2>2. held'["keyring"] = held["keyring"]
    BY <1>1, <1>6 DEF Backends
  <2> QED
    BY <1>1, <1>3, <1>5, <2>1, <2>2, NowhereFact
<1>9. SecretTypeOK'
  BY <1>1, <1>2, <1>7 DEF SecretTypeOK
<1>10. OneWriter' /\ LateUnsure'
  BY <1>1, <1>2, <1>3, WritersStay DEF SecretInv, LateUnsure, Writing
<1>11. SecretsAsTold'
  <2>1. \A b \in Backends, n \in KeyNames : n \in doubt[b] \/ held'[b][n] = held[b][n]
    BY <1>8 DEF Backends
  <2> QED
    BY <1>1, <1>2, <2>1, KeptWhileWriting
<1> QED
  BY <1>1, <1>2, <1>3, <1>8, <1>9, <1>10, <1>11, CallKeeps

(* A command has stored its own secret, and no other that is in no doubt. *)
StoresOwn(c) ==
    /\ ~calls[c].raced => held'[calls[c].on][calls[c].name] = calls[c].value
    /\ \A b \in Backends, n \in KeyNames :
           b # calls[c].on \/ n # calls[c].name => n \in doubt[b] \/ held'[b][n] = held[b][n]
    /\ calls[c].on = "dotenv" \/ (UNCHANGED envTmp /\ held'["dotenv"] = held["dotenv"])

(* A command has stored its secret: it reads back, or says so. *)
LEMMA StoredKeeps ==
    ASSUME SecretInv, NEW c \in Commands, Writing(c), Stored(c),
           held' \in [Backends -> Secrets], envTmp' \in Secrets \cup {NoTmp},
           UNCHANGED <<late, given, secretsMade>>, StoresOwn(c)
    PROVE  SecretInv'
<1> USE DEF StoresOwn
<1>0. SecretTypeOK /\ calls[c].value \in Secret /\ calls[c].on \in Backends
  BY CallFields DEF SecretInv
<1>1. CASE calls[c].readback # "none"
  <2>1. Stage(c, "readback") /\ UNCHANGED <<asTold, unsure, doubt>>
    BY <1>1 DEF Stored
  <2>2. /\ calls' \in [Commands -> Call]
        /\ calls'[c].stage = "readback" /\ calls'[c].on = calls[c].on /\ calls'[c].name = calls[c].name
        /\ calls'[c].value = calls[c].value /\ calls'[c].raced = calls[c].raced
        /\ \A d \in Commands \ {c} : calls'[d] = calls[d]
    BY <1>0, <2>1, StageMoves
  <2>3. SecretTypeOK'
    BY <1>0, <2>1, <2>2 DEF SecretTypeOK
  <2>4. OneWriter' /\ LateUnsure'
    BY <2>1, <2>2, WritersStay DEF SecretInv, LateUnsure, Writing
  <2>5. SecretsAsTold'
    <3>1. calls[c].raced => calls[c].name \in doubt[calls[c].on]
      BY <1>0, CallFields DEF SecretInv, OneWriter, Touched
    <3>2. \A b \in Backends, n \in KeyNames :
              \/ n \in doubt[b]
              \/ held'[b][n] = held[b][n]
              \/ b = calls[c].on /\ n = calls[c].name /\ held'[b][n] = calls[c].value
      BY <3>1
    <3> QED
      BY <2>1, <2>2, <3>2, KeptWhileWriting
  <2> QED
    BY <1>0, <2>2, <2>3, <2>4, <2>5, CallKeeps DEF Backends
<1>2. CASE calls[c].readback = "none"
  <2>1. Report(c, calls[c].value)
    BY <1>2 DEF Stored
  <2>2. /\ SecretsAsTold' /\ LateUnsure' /\ OneWriter'
        /\ asTold' \in [Backends -> Secrets] /\ unsure' \in [Backends -> [KeyNames -> SUBSET Secret]]
        /\ doubt' \in [Backends -> SUBSET KeyNames]
        /\ calls' \in [Commands -> Call] /\ calls'[c].stage = "idle"
        /\ \A d \in Commands \ {c} : calls'[d] = calls[d]
    BY <1>0, <2>1, ReportKeeps
  <2>3. SecretTypeOK'
    BY <1>0, <2>2 DEF SecretTypeOK
  <2> QED
    BY <1>0, <2>2, <2>3, CallKeeps DEF Backends
<1> QED
  BY <1>1, <1>2

\* The rename replaces the file.
LEMMA RenameTmpKeeps == ASSUME SecretInv, NEW c \in Commands, RenameTmp(c) PROVE SecretInv'
<1>1. /\ calls[c].stage = "rename" /\ UNCHANGED <<late, given, secretsMade>> /\ SecretTypeOK
      /\ "dotenv" \in Backends /\ calls[c].entries \in Secrets /\ calls[c].name \in KeyNames
  BY CallFields DEF RenameTmp, SecretInv, Backends
<1>2. /\ Writing(c) /\ calls[c].on = "dotenv"
      /\ ~calls[c].raced => /\ envTmp = calls[c].entries
                    /\ calls[c].entries = [held["dotenv"] EXCEPT ![calls[c].name] = calls[c].value]
  BY <1>1 DEF SecretInv, FileSteps, Writing
<1>3. CASE envTmp = NoTmp
  <2>1. calls[c].raced /\ calls[c].name \in doubt[calls[c].on]
    BY <1>1, <1>2, <1>3, SecretAssumption DEF Secrets, Secret, SecretInv, OneWriter, Touched
  <2>2. ReturnCall(c) /\ UNCHANGED <<held, envTmp, asTold, unsure, doubt>>
    BY <1>3 DEF RenameTmp
  <2>3. calls' \in [Commands -> Call] /\ calls'[c].stage = "idle" /\ \A d \in Commands \ {c} : calls'[d] = calls[d]
    BY <1>1, <2>2, ReturnMoves
  <2>4. SecretTypeOK'
    BY <1>1, <2>2, <2>3 DEF SecretTypeOK
  <2>5. OneWriter' /\ LateUnsure'
    BY <1>1, <2>2, <2>3, WritersStay DEF SecretInv, LateUnsure, Writing
  <2>6. SecretsAsTold'
    BY <2>1, <2>2, <2>3 DEF SecretInv, SecretsAsTold, Writing
  <2> QED
    BY <1>1, <2>2, <2>3, <2>4, <2>5, <2>6, CallKeeps
<1>4. CASE envTmp # NoTmp
  <2>1. held' = [held EXCEPT !["dotenv"] = envTmp] /\ envTmp' = NoTmp /\ Stored(c)
    BY <1>4 DEF RenameTmp
  <2>2. held \in [Backends -> Secrets] /\ envTmp \in Secrets
    BY <1>1, <1>4 DEF SecretTypeOK
  <2>3. held' \in [Backends -> Secrets]
    BY <1>1, <2>1, <2>2
  <2>4. ASSUME ~calls[c].raced
        PROVE  /\ held'["dotenv"][calls[c].name] = calls[c].value
               /\ \A b \in Backends, n \in KeyNames : b # "dotenv" \/ n # calls[c].name => held'[b][n] = held[b][n]
    <3>1. held["dotenv"] \in [KeyNames -> Secret]
      BY <1>1, <2>2 DEF Secrets
    <3>2. held' = [held EXCEPT !["dotenv"] = [held["dotenv"] EXCEPT ![calls[c].name] = calls[c].value]]
      BY <1>2, <2>1, <2>4
    <3>3. held'["dotenv"] = [held["dotenv"] EXCEPT ![calls[c].name] = calls[c].value]
      BY <1>1, <2>2, <3>2
    <3>4. \A b \in Backends : b # "dotenv" => held'[b] = held[b]
      BY <2>2, <3>2
    <3> QED
      BY <1>1, <3>1, <3>3, <3>4
  <2>5. ASSUME calls[c].raced
        PROVE  \A b \in Backends, n \in KeyNames : n \in doubt[b] \/ held'[b][n] = held[b][n]
    <3>1. KeyNames \subseteq doubt["dotenv"]
      BY <1>2, <2>5 DEF SecretInv, OneWriter, Touched
    <3>2. held'["keyring"] = held["keyring"]
      BY <2>1, <2>2 DEF Backends
    <3> QED
      BY <3>1, <3>2 DEF Backends
  <2>6. \A b \in Backends, n \in KeyNames :
            b # calls[c].on \/ n # calls[c].name => n \in doubt[b] \/ held'[b][n] = held[b][n]
    BY <1>2, <2>4, <2>5
  <2>7. ~calls[c].raced => held'[calls[c].on][calls[c].name] = calls[c].value
    BY <1>2, <2>4
  <2>8. UNCHANGED <<late, given, secretsMade>> /\ Stored(c) /\ envTmp' \in Secrets \cup {NoTmp}
    BY <1>1, <2>1
  <2>9. StoresOwn(c)
    BY <1>2, <2>6, <2>7 DEF StoresOwn
  <2> QED
    BY <1>2, <2>3, <2>8, <2>9, StoredKeeps
<1> QED
  BY <1>3, <1>4

\* The keyring takes the secret, or gives the command up and takes it later.
LEMMA SetKeyringKeeps == ASSUME SecretInv, NEW c \in Commands, SetKeyring(c) PROVE SecretInv'
<1>1. /\ calls[c].stage = "read" /\ calls[c].on = "keyring" /\ Stored(c)
      /\ held' = [held EXCEPT !["keyring"][calls[c].name] = calls[c].value]
      /\ UNCHANGED <<envTmp, late, given, secretsMade>>
      /\ SecretTypeOK /\ calls[c].name \in KeyNames /\ calls[c].value \in Secret /\ "keyring" \in Backends
  BY CallFields DEF SetKeyring, SecretInv, Backends
<1>2. held \in [Backends -> [KeyNames -> Secret]] /\ envTmp' \in Secrets \cup {NoTmp}
  BY <1>1 DEF SecretTypeOK, Secrets
<1>3. /\ held' \in [Backends -> Secrets]
      /\ \A b \in Backends, n \in KeyNames :
             held'[b][n] = IF b = "keyring" /\ n = calls[c].name THEN calls[c].value ELSE held[b][n]
  BY <1>1, <1>2 DEF Secrets
<1>4. Writing(c)
  BY <1>1 DEF Writing
<1>5. held'["dotenv"] = held["dotenv"]
  BY <1>1, <1>2 DEF Backends
<1> QED
  BY <1>1, <1>2, <1>3, <1>4, <1>5, StoredKeeps DEF StoresOwn

\* A write to the keyring that was given up takes place.
LEMMA LandLateKeeps == ASSUME SecretInv, NEW x \in late, LandLate(x) PROVE SecretInv'
<1>1. PICK name \in KeyNames, value \in Secret : x = <<name, value>>
  BY DEF SecretInv, SecretTypeOK
<1>2. /\ held' = [held EXCEPT !["keyring"][name] = value] /\ late' = late \ {x}
      /\ UNCHANGED <<envTmp, calls, asTold, unsure, doubt, given, secretsMade>> /\ SecretTypeOK
  BY <1>1 DEF LandLate, SecretInv
<1>3. held \in [Backends -> [KeyNames -> Secret]] /\ "keyring" \in Backends /\ "dotenv" \in Backends
  BY <1>2 DEF SecretTypeOK, Secrets, Backends
<1>4. /\ held' \in [Backends -> Secrets] /\ held'["dotenv"] = held["dotenv"]
      /\ \A b \in Backends, n \in KeyNames :
             held'[b][n] = IF b = "keyring" /\ n = name THEN value ELSE held[b][n]
  BY <1>2, <1>3 DEF Secrets
<1>5. SecretTypeOK' /\ LateUnsure' /\ OneWriter'
  BY <1>2, <1>4 DEF SecretInv, SecretTypeOK, LateUnsure, OneWriter, Writing, Touched
<1>6. FileSteps'
  BY <1>2, <1>4 DEF SecretInv, FileSteps
<1>7. value \in unsure["keyring"][name]
  BY <1>1 DEF SecretInv, LateUnsure
<1>8. SecretsAsTold'
  BY <1>2, <1>4, <1>7 DEF SecretInv, SecretsAsTold, Writing
<1> QED
  BY <1>5, <1>6, <1>8 DEF SecretInv

\* What was written is read back.
LEMMA ReadBackKeeps == ASSUME SecretInv, NEW c \in Commands, ReadBack(c) PROVE SecretInv'
<1>1. /\ calls[c].stage = "readback" /\ UNCHANGED <<held, envTmp, late, given, secretsMade>> /\ SecretTypeOK
      /\ calls[c].on \in Backends /\ calls[c].name \in KeyNames /\ Writing(c)
  BY CallFields DEF ReadBack, SecretInv, Writing
<1>2. PICK now \in Secret : now = held[calls[c].on][calls[c].name]
  BY <1>1 DEF SecretTypeOK, Secrets
<1>3. CASE Report(c, now)
  <2>2. /\ SecretsAsTold' /\ LateUnsure' /\ OneWriter'
        /\ asTold' \in [Backends -> Secrets] /\ unsure' \in [Backends -> [KeyNames -> SUBSET Secret]]
        /\ doubt' \in [Backends -> SUBSET KeyNames]
        /\ calls' \in [Commands -> Call] /\ calls'[c].stage = "idle"
        /\ \A d \in Commands \ {c} : calls'[d] = calls[d]
    BY <1>1, <1>2, <1>3, ReportKeeps
  <2>3. SecretTypeOK'
    BY <1>1, <2>2 DEF SecretTypeOK
  <2> QED
    BY <1>1, <2>2, <2>3, CallKeeps
<1>4. CASE now # calls[c].value /\ ReturnCall(c) /\ UNCHANGED <<asTold, unsure, doubt>>
  <2>1. calls' \in [Commands -> Call] /\ calls'[c].stage = "idle" /\ \A d \in Commands \ {c} : calls'[d] = calls[d]
    BY <1>1, <1>4, ReturnMoves
  <2>2. SecretTypeOK'
    BY <1>1, <1>4, <2>1 DEF SecretTypeOK
  <2>3. OneWriter' /\ LateUnsure'
    BY <1>1, <1>4, <2>1, WritersStay DEF SecretInv, LateUnsure, Writing
  <2>4. ASSUME NEW b \in Backends, NEW n \in KeyNames, n \notin doubt[b]
        PROVE  \/ held[b][n] \in {asTold[b][n]} \cup unsure[b][n]
               \/ \E d \in Commands : Writing(d)' /\ calls'[d].on = b /\ calls'[d].name = n
                                      /\ calls'[d].value = held[b][n]
    <3>1. ASSUME NEW d \in Commands, Writing(d), calls[d].on = b, calls[d].name = n, calls[d].value = held[b][n]
          PROVE  d # c /\ calls'[d] = calls[d] /\ Writing(d)'
      BY <1>2, <1>4, <2>1, <3>1 DEF Writing
    <3> QED
      BY <2>4, <3>1 DEF SecretInv, SecretsAsTold
  <2>5. SecretsAsTold'
    BY <1>1, <1>4, <2>4 DEF SecretsAsTold
  <2> QED
    BY <1>1, <2>1, <2>2, <2>3, <2>5, CallKeeps
<1> QED
  BY <1>2, <1>3, <1>4 DEF ReadBack

\* A write that fails.
LEMMA FailCallKeeps == ASSUME SecretInv, NEW c \in Commands, FailCall(c) PROVE SecretInv'
<1>0. PICK on \in Backends, name \in KeyNames, value \in Secret :
          on = calls[c].on /\ name = calls[c].name /\ value = calls[c].value
  BY CallFields DEF SecretInv
<1>1. /\ ReturnCall(c) /\ UNCHANGED <<held, asTold, doubt, given, secretsMade>> /\ SecretTypeOK
      /\ envTmp' = envTmp \/ (calls[c].stage = "flush" /\ envTmp' = NoTmp)
      /\ unsure' = IF Writing(c) THEN [unsure EXCEPT ![on][name] = @ \cup {value}] ELSE unsure
      /\ late' = IF on = "keyring" /\ calls[c].stage = "read" THEN late \cup {<<name, value>>} ELSE late
  BY <1>0 DEF FailCall, SecretInv
<1>2. calls' \in [Commands -> Call] /\ calls'[c].stage = "idle" /\ \A d \in Commands \ {c} : calls'[d] = calls[d]
  BY <1>1, ReturnMoves
<1>3. unsure \in [Backends -> [KeyNames -> SUBSET Secret]]
  BY <1>1 DEF SecretTypeOK
<1>4. /\ unsure' \in [Backends -> [KeyNames -> SUBSET Secret]]
      /\ \A b \in Backends, n \in KeyNames : unsure[b][n] \subseteq unsure'[b][n]
      /\ Writing(c) => value \in unsure'[on][name]
  <2>1. CASE Writing(c)
    <3>1. PICK more \in SUBSET Secret : more = unsure[on][name] \cup {value}
      BY <1>3
    <3>2. unsure' = [unsure EXCEPT ![on][name] = more]
      BY <1>1, <2>1, <3>1
    <3>3. /\ unsure' \in [Backends -> [KeyNames -> SUBSET Secret]]
          /\ \A b \in Backends, n \in KeyNames :
                 unsure'[b][n] = IF b = on /\ n = name THEN more ELSE unsure[b][n]
      BY <1>3, <3>2
    <3> QED
      BY <3>1, <3>3
  <2>2. CASE ~Writing(c)
    BY <1>1, <1>3, <2>2
  <2> QED
    BY <2>1, <2>2
<1>5. SecretTypeOK'
  BY <1>1, <1>2, <1>4 DEF SecretTypeOK
<1>6. OneWriter'
  BY <1>1, <1>2, WritersStay DEF SecretInv, Writing
<1>7. LateUnsure'
  <2> SUFFICES ASSUME NEW x \in late' PROVE x[2] \in unsure'["keyring"][x[1]]
    BY DEF LateUnsure
  <2>1. CASE x \in late
    <3>1. x[2] \in unsure["keyring"][x[1]] /\ x[1] \in KeyNames /\ "keyring" \in Backends
      BY <1>1, <2>1 DEF SecretInv, LateUnsure, SecretTypeOK, Backends
    <3> QED
      BY <1>4, <3>1
  <2>2. CASE x = <<name, value>> /\ on = "keyring" /\ calls[c].stage = "read"
    BY <1>4, <2>2 DEF Writing
  <2> QED
    BY <1>1, <2>1, <2>2
<1>8. ASSUME NEW b \in Backends, NEW n \in KeyNames, n \notin doubt[b]
      PROVE  \/ held[b][n] \in {asTold[b][n]} \cup unsure'[b][n]
             \/ \E d \in Commands : Writing(d)' /\ calls'[d].on = b /\ calls'[d].name = n
                                    /\ calls'[d].value = held[b][n]
  <2>1. CASE held[b][n] \in {asTold[b][n]} \cup unsure[b][n]
    BY <1>4, <2>1
  <2>2. ASSUME NEW d \in Commands, Writing(d), calls[d].on = b, calls[d].name = n, calls[d].value = held[b][n]
        PROVE  \/ held[b][n] \in unsure'[b][n]
               \/ Writing(d)' /\ calls'[d].on = b /\ calls'[d].name = n /\ calls'[d].value = held[b][n]
    BY <1>0, <1>2, <1>4, <2>2 DEF Writing
  <2> QED
    BY <1>8, <2>1, <2>2 DEF SecretInv, SecretsAsTold
<1>9. SecretsAsTold'
  BY <1>1, <1>8 DEF SecretsAsTold
<1>10. calls[c].stage = "flush" => Writing(c) /\ calls[c].on = "dotenv"
  BY DEF SecretInv, FileSteps, Writing
<1> QED
  BY <1>1, <1>2, <1>5, <1>6, <1>7, <1>9, <1>10, CallKeeps

\* The invariant holds at first.
LEMMA SecretInitInv == SecretInit => SecretInv
<1> SUFFICES ASSUME SecretInit PROVE SecretInv
  OBVIOUS
<1>1. SecretTypeOK
  BY NowhereFact, IdleFact DEF SecretInit, SecretTypeOK
<1>2. \A c \in Commands : calls[c].stage = "idle"
  BY IdleFact DEF SecretInit
<1>3. SecretsAsTold
  BY DEF SecretInit, SecretsAsTold
<1> QED
  BY <1>1, <1>2, <1>3 DEF SecretInit, SecretInv, OneWriter, FileSteps, LateUnsure, Writing, Touched

\* A stuttering step.
LEMMA SecretsStay == SecretInv /\ UNCHANGED secretVars => SecretInv'
<1> SUFFICES ASSUME SecretInv, UNCHANGED secretVars PROVE SecretInv'
  OBVIOUS
<1>1. UNCHANGED <<held, envTmp, calls, late, asTold, unsure, doubt, given, secretsMade>>
  BY DEF secretVars
<1>2. SecretTypeOK' /\ FileSteps' /\ LateUnsure'
  BY <1>1 DEF SecretInv, SecretTypeOK, FileSteps, LateUnsure
<1>3. OneWriter' /\ SecretsAsTold'
  BY <1>1 DEF SecretInv, OneWriter, SecretsAsTold, Writing, Touched
<1> QED
  BY <1>2, <1>3 DEF SecretInv

\* Every step keeps the invariant.
LEMMA SecretNextInv == SecretInv /\ [SecretNext]_secretVars => SecretInv'
<1> SUFFICES ASSUME SecretInv, [SecretNext]_secretVars PROVE SecretInv'
  OBVIOUS
<1>1. ASSUME NEW c \in Commands,
             \/ Get(c) \/ Set(c) \/ GotKey(c) \/ ReadDotenv(c) \/ OpenTmp(c) \/ FlushTmp(c)
             \/ RenameTmp(c) \/ SetKeyring(c) \/ ReadBack(c) \/ FailCall(c)
      PROVE  SecretInv'
  BY <1>1, GetKeeps, SetKeeps, GotKeyKeeps, ReadDotenvKeeps, OpenTmpKeeps, FlushTmpKeeps, RenameTmpKeeps,
     SetKeyringKeeps, ReadBackKeeps, FailCallKeeps
<1>2. ASSUME NEW x \in late, LandLate(x) PROVE SecretInv'
  BY <1>2, LandLateKeeps
<1> QED
  BY <1>1, <1>2, SecretsStay DEF SecretNext

(* No secret is under a name it was not set under: nor in the file, the one
   beside it, a call, or a write to come. *)
Right(g, n) == g[n] \cup {Missing}
Proper(g, f) == \A n \in KeyNames : f[n] \in Right(g, n)

SecretsProper ==
    /\ \A b \in Backends : Proper(given, held[b])
    /\ envTmp # NoTmp => Proper(given, envTmp)
    /\ \A c \in Commands : Proper(given, calls[c].entries) /\ calls[c].value \in Right(given, calls[c].name)
    /\ \A x \in late : x[2] \in Right(given, x[1])

PlaceInv == SecretTypeOK /\ SecretsProper

\* A command begins to set a secret under a name.
LEMMA BeginProper ==
    ASSUME PlaceInv, NEW c \in Commands, NEW call \in Call, BeginSet(c, call), Proper(given, call.entries),
           UNCHANGED <<held, envTmp, late>>
    PROVE  SecretsProper'
<1>1. given' = [given EXCEPT ![call.name] = given[call.name] \cup {call.value}] /\ call.name \in KeyNames
  BY DEF BeginSet, Call
<1>2. \A n \in KeyNames : Right(given, n) \subseteq Right(given', n)
  BY <1>1 DEF PlaceInv, SecretTypeOK, Right
<1>3. call.value \in Right(given', call.name)
  BY <1>1 DEF PlaceInv, SecretTypeOK, Right
<1>4. \A f : Proper(given, f) => Proper(given', f)
  BY <1>2 DEF Proper
<1>5. \A d \in Commands : \/ calls'[d].entries = calls[d].entries /\ calls'[d].value = calls[d].value
                             /\ calls'[d].name = calls[d].name
                          \/ d = c /\ calls'[d].entries = call.entries /\ calls'[d].value = call.value
                             /\ calls'[d].name = call.name
  <2> SUFFICES ASSUME NEW d \in Commands
               PROVE  \/ calls'[d].entries = calls[d].entries /\ calls'[d].value = calls[d].value
                         /\ calls'[d].name = calls[d].name
                      \/ d = c /\ calls'[d].entries = call.entries /\ calls'[d].value = call.value
                         /\ calls'[d].name = call.name
    OBVIOUS
  <2>1. calls[d] \in Call
    BY CallFields DEF PlaceInv
  <2>2. \E raced : calls'[d] = IF d = c THEN [call EXCEPT !.stage = "read", !.raced = raced]
                                       ELSE [calls[d] EXCEPT !.raced = raced]
    BY DEF BeginSet
  <2> QED
    BY <2>1, <2>2 DEF Call
<1>6. \A d \in Commands : calls[d].name \in KeyNames
  BY CallFields DEF PlaceInv
<1>7. \A x \in late : x[1] \in KeyNames
  BY DEF PlaceInv, SecretTypeOK
<1>8. \A d \in Commands : Proper(given', calls'[d].entries) /\ calls'[d].value \in Right(given', calls'[d].name)
  BY <1>2, <1>3, <1>4, <1>5, <1>6 DEF PlaceInv, SecretsProper
<1> QED
  <2>1. \A b \in Backends : Proper(given', held'[b])
    BY <1>4 DEF PlaceInv, SecretsProper
  <2>2. envTmp' # NoTmp => Proper(given', envTmp')
    BY <1>4 DEF PlaceInv, SecretsProper
  <2>3. \A x \in late' : x[2] \in Right(given', x[1])
    BY <1>2, <1>7 DEF PlaceInv, SecretsProper
  <2> QED
    BY <1>8, <2>1, <2>2, <2>3 DEF SecretsProper

\* A step in which no name gets a new secret.
LEMMA StepProper ==
    ASSUME PlaceInv, UNCHANGED given,
           \A b \in Backends : Proper(given, held'[b]), envTmp' = NoTmp \/ Proper(given, envTmp'),
           \A c \in Commands : Proper(given, calls'[c].entries) /\ calls'[c].value \in Right(given, calls'[c].name),
           \A x \in late' : x[2] \in Right(given, x[1])
    PROVE  SecretsProper'
BY DEF SecretsProper

\* The call of a command that is in none.
LEMMA IdleProper == Proper(given, Idle.entries) /\ Idle.value \in Right(given, Idle.name)
BY NowhereFact DEF Idle, Proper, Right

\* The calls, over the steps that end one or move it on.
LEMMA CallsProper ==
    ASSUME PlaceInv, NEW c \in Commands,
           ReturnCall(c) \/ \E stage \in {"get", "read", "open", "flush", "rename", "readback"} : Stage(c, stage)
    PROVE  \A d \in Commands : Proper(given, calls'[d].entries) /\ calls'[d].value \in Right(given, calls'[d].name)
<1>1. CASE ReturnCall(c)
  <2>1. \A d \in Commands : calls'[d] = IF d = c THEN Idle ELSE calls[d]
    BY <1>1 DEF ReturnCall, PlaceInv, SecretTypeOK
  <2> QED
    BY <2>1, IdleProper DEF PlaceInv, SecretsProper
<1>2. CASE \E stage \in {"get", "read", "open", "flush", "rename", "readback"} : Stage(c, stage)
  <2>1. \A d \in Commands : calls'[d].entries = calls[d].entries /\ calls'[d].value = calls[d].value
                            /\ calls'[d].name = calls[d].name
    BY <1>2, StageMoves DEF PlaceInv
  <2> QED
    BY <2>1 DEF PlaceInv, SecretsProper
<1> QED
  BY <1>1, <1>2

\* What a step of the file or of the keyring writes was set under its name.
LEMMA StepsProper ==
    ASSUME PlaceInv, NEW c \in Commands,
           \/ Get(c) \/ Set(c) \/ GotKey(c) \/ ReadDotenv(c) \/ OpenTmp(c) \/ FlushTmp(c)
           \/ RenameTmp(c) \/ SetKeyring(c) \/ ReadBack(c) \/ FailCall(c)
    PROVE  SecretsProper'
<1>0. /\ SecretTypeOK /\ calls[c] \in Call /\ calls[c].on \in Backends /\ calls[c].name \in KeyNames
      /\ calls[c].value \in Secret /\ Proper(given, calls[c].entries) /\ calls[c].value \in Right(given, calls[c].name)
      /\ \A b \in Backends : Proper(given, held[b])
      /\ envTmp # NoTmp => Proper(given, envTmp)
      /\ \A d \in Commands : Proper(given, calls[d].entries) /\ calls[d].value \in Right(given, calls[d].name)
      /\ \A x \in late : x[2] \in Right(given, x[1])
      /\ "dotenv" \in Backends /\ "keyring" \in Backends
  BY CallFields DEF PlaceInv, SecretsProper, Backends
<1>1. ASSUME NEW be \in Backends, calls' = [calls EXCEPT ![c] = [Opened(be) EXCEPT !.stage = "get", !.readback = "any"]],
             UNCHANGED <<held, envTmp, late, given>>
      PROVE  SecretsProper'
  <2>1. \A d \in Commands : \/ calls'[d] = calls[d]
                            \/ calls'[d].entries = Idle.entries /\ calls'[d].value = Idle.value /\ calls'[d].name = Idle.name
    BY <1>0, <1>1, IdleFact DEF Opened, Idle, SecretTypeOK
  <2> QED
    BY <1>0, <1>1, <2>1, IdleProper, StepProper
<1>2. CASE Get(c)
  BY <1>1, <1>2 DEF Get
<1>3. CASE Set(c)
  <2>1. {secretsMade + 1, Missing} \subseteq Secret
    BY <1>0 DEF SecretTypeOK, Secret
  <2>2. PICK be \in Backends, n \in KeyNames, v \in Secret :
            BeginSet(c, SetOf(be, n, v))
    BY <1>3, <2>1 DEF Set, SetOf
  <2>3. PICK call : call = SetOf(be, n, v)
    OBVIOUS
  <2>4. call \in Call /\ BeginSet(c, call) /\ Proper(given, call.entries)
    BY <2>2, <2>3, SetCall, NowhereFact DEF Proper, Right
  <2> QED
    BY <1>3, <2>4, BeginProper DEF Set
<1>4. CASE GotKey(c)
  <2>1. CASE held[calls[c].on][StoreKeyName] # Missing
    BY <1>0, <1>4, <2>1, CallsProper, StepProper DEF GotKey
  <2>2. CASE held[calls[c].on][StoreKeyName] = Missing
    <3>1. PICK call : call = [calls[c] EXCEPT !.value = secretsMade + 1]
      OBVIOUS
    <3>2. secretsMade + 1 \in Secret
      BY <1>0 DEF SecretTypeOK, Secret
    <3>3. call \in Call /\ call.entries = calls[c].entries
      BY <1>0, <3>1, <3>2 DEF Call
    <3>4. BeginSet(c, call) /\ UNCHANGED <<held, envTmp, late>>
      BY <1>4, <2>2, <3>1 DEF GotKey
    <3> QED
      BY <1>0, <3>3, <3>4, BeginProper
  <2> QED
    BY <2>1, <2>2
<1>5. CASE ReadDotenv(c)
  <2>1. UNCHANGED <<held, envTmp, late, given>>
    BY <1>5 DEF ReadDotenv
  <2>2. CASE Report(c, Missing)
    BY <1>0, <2>1, <2>2, CallsProper, StepProper DEF Report
  <2>3. CASE calls' = [calls EXCEPT ![c].stage = "open",
                                    ![c].entries = [held["dotenv"] EXCEPT ![calls[c].name] = calls[c].value]]
    <3>1. PICK entries : entries = [held["dotenv"] EXCEPT ![calls[c].name] = calls[c].value]
      OBVIOUS
    <3>2. Proper(given, entries)
      BY <1>0, <3>1 DEF Proper, SecretTypeOK, Secrets
    <3>3. \A d \in Commands : \/ calls'[d] = calls[d]
                              \/ calls'[d].entries = entries /\ calls'[d].value = calls[d].value
                                 /\ calls'[d].name = calls[d].name
      BY <1>0, <2>3, <3>1 DEF SecretTypeOK, Call
    <3>4. \A d \in Commands : Proper(given, calls'[d].entries) /\ calls'[d].value \in Right(given, calls'[d].name)
      BY <1>0, <3>2, <3>3
    <3> QED
      BY <1>0, <2>1, <3>4, StepProper
  <2> QED
    BY <1>5, <2>2, <2>3 DEF ReadDotenv
<1>6. CASE OpenTmp(c)
  BY <1>0, <1>6, NowhereFact, CallsProper, StepProper DEF OpenTmp, Proper, Right
<1>7. CASE FlushTmp(c)
  <2> DEFINE over(old) == {[n \in KeyNames |-> IF n \in keep THEN old[n] ELSE calls[c].entries[n]] :
                               keep \in SUBSET {n \in KeyNames : old[n] # Missing}}
  <2>1. /\ Stage(c, "rename") /\ UNCHANGED <<late, given>>
        /\ IF envTmp = NoTmp
           THEN (\E new \in over(held["dotenv"]) : held' = [held EXCEPT !["dotenv"] = new]) /\ UNCHANGED envTmp
           ELSE (\E new \in over(envTmp) : envTmp' = new) /\ UNCHANGED held
    BY <1>7 DEF FlushTmp
  <2>2. ASSUME NEW old, Proper(given, old), NEW new \in over(old) PROVE Proper(given, new)
    BY <1>0, <2>2 DEF Proper
  <2> HIDE DEF over
  <2>3. (\A b \in Backends : Proper(given, held'[b])) /\ (envTmp' = NoTmp \/ Proper(given, envTmp'))
    <3>1. CASE envTmp = NoTmp
      <4>1. PICK new \in over(held["dotenv"]) : held' = [held EXCEPT !["dotenv"] = new]
        BY <2>1, <3>1
      <4>2. Proper(given, new)
        BY <1>0, <2>2
      <4>3. \A b \in Backends : held'[b] = IF b = "dotenv" THEN new ELSE held[b]
        BY <1>0, <4>1 DEF SecretTypeOK
      <4> QED
        BY <1>0, <2>1, <3>1, <4>2, <4>3
    <3>2. CASE envTmp # NoTmp
      BY <1>0, <2>1, <2>2, <3>2
    <3> QED
      BY <3>1, <3>2
  <2> QED
    BY <1>0, <2>1, <2>3, CallsProper, StepProper
<1>8. CASE RenameTmp(c)
  <2>1. UNCHANGED <<late, given>> /\ (Stored(c) \/ ReturnCall(c))
    BY <1>8 DEF RenameTmp
  <2>2. ReturnCall(c) \/ Stage(c, "readback")
    BY <2>1 DEF Stored, Report
  <2>3. \/ UNCHANGED <<held, envTmp>>
        \/ envTmp # NoTmp /\ envTmp' = NoTmp /\ held' = [held EXCEPT !["dotenv"] = envTmp]
    BY <1>8 DEF RenameTmp
  <2>4. (\A b \in Backends : Proper(given, held'[b])) /\ (envTmp' = NoTmp \/ Proper(given, envTmp'))
    BY <1>0, <2>3 DEF SecretTypeOK
  <2> QED
    BY <1>0, <2>1, <2>2, <2>4, CallsProper, StepProper
<1>9. CASE SetKeyring(c)
  <2>1. UNCHANGED <<late, given, envTmp>> /\ (ReturnCall(c) \/ Stage(c, "readback"))
        /\ held' = [held EXCEPT !["keyring"] = [held["keyring"] EXCEPT ![calls[c].name] = calls[c].value]]
    BY <1>9 DEF SetKeyring, Stored, Report
  <2>2. PICK new : new = [held["keyring"] EXCEPT ![calls[c].name] = calls[c].value]
    OBVIOUS
  <2>3. Proper(given, new)
    BY <1>0, <2>2 DEF Proper, SecretTypeOK, Secrets
  <2>4. \A b \in Backends : Proper(given, held'[b])
    BY <1>0, <2>1, <2>2, <2>3 DEF SecretTypeOK
  <2> QED
    BY <1>0, <2>1, <2>4, CallsProper, StepProper
<1>10. CASE ReadBack(c)
  BY <1>0, <1>10, CallsProper, StepProper DEF ReadBack, Report
<1>11. CASE FailCall(c)
  <2>1. /\ UNCHANGED <<held, given>> /\ ReturnCall(c)
        /\ envTmp' = envTmp \/ envTmp' = NoTmp
        /\ late' = late \/ late' = late \cup {<<calls[c].name, calls[c].value>>}
    BY <1>11 DEF FailCall
  <2>2. \A x \in late' : x[2] \in Right(given, x[1])
    BY <1>0, <2>1
  <2> QED
    BY <1>0, <2>1, <2>2, CallsProper, StepProper
<1> QED
  BY <1>2, <1>3, <1>4, <1>5, <1>6, <1>7, <1>8, <1>9, <1>10, <1>11

\* A write of the keyring that lands late.
LEMMA LandLateProper == ASSUME PlaceInv, NEW x \in late, LandLate(x) PROVE SecretsProper'
<1>1. PICK name \in KeyNames, value \in Secret : x = <<name, value>>
  BY DEF PlaceInv, SecretTypeOK
<1>2. /\ held' = [held EXCEPT !["keyring"] = [held["keyring"] EXCEPT ![name] = value]]
      /\ late' = late \ {x} /\ UNCHANGED <<envTmp, calls, given>> /\ value \in Right(given, name)
  BY <1>1 DEF LandLate, PlaceInv, SecretsProper
<1>3. PICK new : new = [held["keyring"] EXCEPT ![name] = value]
  OBVIOUS
<1>4. Proper(given, new)
  BY <1>2, <1>3 DEF PlaceInv, SecretsProper, Proper, SecretTypeOK, Secrets, Backends
<1>5. \A b \in Backends : Proper(given, held'[b])
  BY <1>2, <1>3, <1>4 DEF PlaceInv, SecretsProper, SecretTypeOK
<1> QED
  BY <1>2, <1>5, StepProper DEF PlaceInv, SecretsProper

\* Every step keeps the secrets in their places.
LEMMA ProperNext == SecretInv /\ SecretsProper /\ [SecretNext]_secretVars => SecretsProper'
<1> SUFFICES ASSUME SecretInv, SecretsProper, [SecretNext]_secretVars PROVE SecretsProper'
  OBVIOUS
<1>1. PlaceInv
  BY DEF PlaceInv, SecretInv
<1>2. CASE UNCHANGED secretVars
  BY <1>2 DEF secretVars, SecretsProper, Proper, Right
<1> QED
  BY <1>1, <1>2, StepsProper, LandLateProper DEF SecretNext

\* A secret a command was told it stored is there, and none is misplaced.
LEMMA SecretsSafe == SecretSpec => []SecretsKept
<1>1. SecretInit => SecretsProper
  BY IdleProper, NowhereFact DEF SecretInit, SecretsProper, Proper, Right
<1>2. SecretInv /\ SecretsProper => SecretsKept
  BY DEF SecretInv, SecretsProper, Proper, Right, SecretsKept, SecretsInPlace
<1> QED
  BY <1>1, <1>2, SecretInitInv, SecretNextInv, ProperNext, PTL DEF SecretSpec

-----------------------------------------------------------------------------
(* The encrypted store.  A row that rekey has sealed is settled: its columns
   open with one key, and a session is revoked, so no daemon writes its
   verifier with the key it has read before.  Rows of the two tables that
   rekey covers are never taken away. *)

Row == [key : Nat \cup {Plain}, verifier : Nat \cup {NoKey}, revoked : BOOLEAN]
Rekeying == [pc : {"idle", "pairings", "sessions", "commit", "secret", "done"},
             old : Nat \cup {NoKey}, new : Nat \cup {NoKey}, box : Nat \cup {NoKey},
             found : SUBSET Slots, verified : SUBSET Slots, had : SUBSET Slots,
             result : {"none", "ok", "failed", "stranded", "rolled back"}, unsure : BOOLEAN,
             under : Nat \cup {NoKey}, rows : SUBSET Slots]

Steps == {"pairings", "sessions", "commit"}

StoreTypeOK ==
    /\ secret \in Nat /\ box \in Nat \cup {NoKey} /\ keysMade \in Nat /\ secret <= keysMade
    /\ sealed \in [Slots -> Row \cup {NoRow}]
    /\ cmd \in Rekeying

(* The rows the command has read, and the keys it goes from and to. *)
CommandReads ==
    /\ cmd.pc # "idle" => cmd.old \in Nat /\ cmd.new \in Nat /\ cmd.old < cmd.new /\ cmd.new <= keysMade
    /\ cmd.found \subseteq PlainOnce /\ cmd.verified \subseteq SessionRows /\ cmd.rows \subseteq PlainOnce
    /\ \A s \in cmd.found : There(s)
    /\ cmd.under = NoKey => cmd.rows = {}
    /\ cmd.pc = "sessions" => cmd.rows \cap Pairings \subseteq cmd.found
    /\ cmd.pc = "commit" => cmd.rows \subseteq cmd.found

Settled(s) == sealed[s].key # Plain /\ (s \in SessionRows => sealed[s].revoked)

SealedWith(key) == \A s \in cmd.rows : There(s) /\ Opens(s, key) /\ Settled(s)

EndsUnder ==
    CASE cmd.result = "failed" -> NoKey
      [] cmd.result = "stranded" -> cmd.new
      [] OTHER -> IF cmd.unsure THEN cmd.old ELSE secret

(* Which key the secret store holds, and which one the rows are sealed with. *)
KeysAgree ==
    /\ cmd.pc \in Steps \cup {"secret"} /\ ~cmd.unsure => secret = cmd.old
    /\ cmd.pc \in Steps => cmd.under = (IF Rollback THEN cmd.new ELSE NoKey) /\ (cmd.unsure => Rollback)
    /\ cmd.pc = "secret" => cmd.under = cmd.new /\ ~cmd.unsure
    /\ cmd.under # NoKey => SealedWith(cmd.under)
    /\ cmd.pc = "done" => cmd.under = EndsUnder

StoreInv == StoreTypeOK /\ CommandReads /\ KeysAgree

\* The tables that rekey covers are none of the others.
LEMMA CoveredApart ==
    /\ PlainOnce \subseteq Slots /\ SessionRows \subseteq PlainOnce
    /\ \A s \in PlainOnce : s # Subscription /\ s # Snapshot /\ s # Legacy
BY DEF PlainOnce, Slots, Pairings, SessionRows, Others, Subscription, Snapshot, Legacy

\* A row is not the absence of one.
LEMMA RowFact == \A row \in Row : row # NoRow
BY StoreAssumption DEF Row

\* A row that is just sealed.
LEMMA SealedRowFact ==
    ASSUME NEW key \in Nat
    PROVE  SealedRow(key) \in Row
BY DEF SealedRow, Row

(* A step that leaves the command and the secret alone: rows that are there
   stay, and settled ones stay as they are. *)
LEMMA RowsStay ==
    ASSUME StoreInv, UNCHANGED <<secret, cmd, keysMade>>, box' \in Nat \cup {NoKey},
           sealed' \in [Slots -> Row \cup {NoRow}],
           \A s \in PlainOnce : There(s) => sealed'[s] # NoRow /\ (Settled(s) => sealed'[s] = sealed[s])
    PROVE  StoreInv'
<1>1. StoreTypeOK'
  BY DEF StoreInv, StoreTypeOK
<1>2. \A s \in cmd.found : There(s)'
  BY DEF StoreInv, CommandReads, There
<1>3. CommandReads'
  BY <1>2 DEF StoreInv, CommandReads
<1>4. ASSUME NEW key, SealedWith(key) PROVE SealedWith(key)'
  BY <1>4 DEF SealedWith, Opens, Settled, There, StoreInv, CommandReads
<1>5. EndsUnder' = EndsUnder /\ Rollback' = Rollback
  BY DEF EndsUnder, Rollback
<1>6. KeysAgree'
  BY <1>4, <1>5 DEF StoreInv, KeysAgree, SealedWith
<1> QED
  BY <1>1, <1>3, <1>6 DEF StoreInv

\* The upgrade seals plain rows, and leaves the others.
LEMMA UpgradedFact ==
    ASSUME StoreTypeOK, NEW key \in Nat
    PROVE  /\ Upgraded(key) \in [Slots -> Row \cup {NoRow}]
           /\ \A s \in Slots : There(s) => Upgraded(key)[s] # NoRow
           /\ \A s \in Slots : There(s) /\ sealed[s].key # Plain => Upgraded(key)[s] = sealed[s]
<1>1. \A s \in Slots : There(s) => sealed[s] \in Row /\ [sealed[s] EXCEPT !.key = key] \in Row
  BY DEF StoreTypeOK, There, Row
<1> QED
  BY <1>1, RowFact DEF StoreTypeOK, Upgraded, There

\* A daemon opens the store.
LEMMA OpenStoreKeeps == StoreInv /\ OpenStore => StoreInv'
<1> SUFFICES ASSUME StoreInv, OpenStore PROVE StoreInv'
  OBVIOUS
<1>1. secret \in Nat /\ StoreTypeOK /\ sealed' = Upgraded(secret) /\ box' = secret /\ UNCHANGED <<secret, keysMade, cmd>>
  BY DEF OpenStore, StoreInv, StoreTypeOK
<1>2. /\ sealed' \in [Slots -> Row \cup {NoRow}]
      /\ \A s \in Slots : There(s) => sealed'[s] # NoRow
      /\ \A s \in Slots : There(s) /\ sealed[s].key # Plain => sealed'[s] = sealed[s]
  BY <1>1, UpgradedFact
<1>3. UNCHANGED keysMade /\ box' \in Nat \cup {NoKey}
  BY <1>1
<1> QED
  BY <1>1, <1>2, <1>3, CoveredApart, RowsStay DEF Settled

\* A daemon inserts a row, with the key it has read.
LEMMA PutKeeps == StoreInv /\ Put => StoreInv'
<1> SUFFICES ASSUME StoreInv, Put PROVE StoreInv'
  OBVIOUS
<1>1. PICK s \in Slots : /\ box # NoKey /\ (~There(s) \/ s = Subscription)
                         /\ sealed' = [sealed EXCEPT ![s] = SealedRow(box)]
  BY DEF Put
<1>2. box \in Nat /\ UNCHANGED <<secret, box, keysMade, cmd>> /\ sealed \in [Slots -> Row \cup {NoRow}] /\ keysMade \in Nat
  BY <1>1 DEF Put, StoreInv, StoreTypeOK
<1>3. sealed' \in [Slots -> Row \cup {NoRow}]
  BY <1>1, <1>2, SealedRowFact
<1>4. \A z \in PlainOnce : There(z) => sealed'[z] = sealed[z]
  BY <1>1, <1>2, CoveredApart DEF There
<1> QED
  BY <1>2, <1>3, <1>4, RowsStay DEF There

\* A daemon writes the verifier of a session, or revokes it.
LEMMA SessionRowsKeep == StoreInv /\ (SetVerifier \/ RevokeSession) => StoreInv'
<1> SUFFICES ASSUME StoreInv, SetVerifier \/ RevokeSession PROVE StoreInv'
  OBVIOUS
<1>0. PICK s \in SessionRows : /\ There(s) /\ ~sealed[s].revoked
                              /\ \/ box # NoKey /\ sealed' = [sealed EXCEPT ![s] = [sealed[s] EXCEPT !.verifier = box]]
                                 \/ sealed' = [sealed EXCEPT ![s] = [sealed[s] EXCEPT !.revoked = TRUE]]
  BY DEF SetVerifier, RevokeSession
<1>1. PICK new : /\ sealed' = [sealed EXCEPT ![s] = new]
                 /\ \/ box # NoKey /\ new = [sealed[s] EXCEPT !.verifier = box]
                    \/ new = [sealed[s] EXCEPT !.revoked = TRUE]
  BY <1>0
<1>2. UNCHANGED <<secret, box, keysMade, cmd>> /\ sealed \in [Slots -> Row \cup {NoRow}] /\ keysMade \in Nat
      /\ box \in Nat \cup {NoKey}
  BY DEF SetVerifier, RevokeSession, StoreInv, StoreTypeOK
<1>3. sealed[s] \in Row
  BY <1>0, <1>2, CoveredApart DEF There
<1>4. new \in Row
  BY <1>0, <1>1, <1>2, <1>3 DEF Row
<1>5. sealed' \in [Slots -> Row \cup {NoRow}]
  BY <1>1, <1>2, <1>4
<1>6. \A z \in PlainOnce : sealed'[z] = IF z = s THEN new ELSE sealed[z]
  BY <1>1, <1>2, CoveredApart
<1> QED
  BY <1>0, <1>1, <1>2, <1>4, <1>5, <1>6, RowFact, RowsStay DEF There, Settled

(* What the daemon, or the rotation of the push keys, takes away is none of
   the rows rekey covers. *)
LEMMA OtherRowsKeep == StoreInv /\ (CloseStore \/ RemoveRow \/ EnsurePush \/ RotatePush) => StoreInv'
<1> SUFFICES ASSUME StoreInv, CloseStore \/ RemoveRow \/ EnsurePush \/ RotatePush PROVE StoreInv'
  OBVIOUS
<1>1. UNCHANGED <<secret, keysMade, cmd>> /\ sealed \in [Slots -> Row \cup {NoRow}] /\ keysMade \in Nat
      /\ box' \in Nat \cup {NoKey}
  BY DEF CloseStore, RemoveRow, EnsurePush, RotatePush, StoreInv, StoreTypeOK
<1>2. PICK gone \in SUBSET {Subscription, Snapshot, Legacy} :
          sealed' = [s \in Slots |-> IF s \in gone THEN NoRow ELSE sealed[s]]
  <2>0. ASSUME UNCHANGED sealed
        PROVE  \E gone \in SUBSET {Subscription, Snapshot, Legacy} :
                   sealed' = [s \in Slots |-> IF s \in gone THEN NoRow ELSE sealed[s]]
    <3>1. PICK gone \in SUBSET {Subscription, Snapshot, Legacy} : gone = {}
      OBVIOUS
    <3>2. sealed' = [s \in Slots |-> IF s \in gone THEN NoRow ELSE sealed[s]]
      BY <1>1, <2>0, <3>1
    <3> QED
      BY <3>2
  <2>1. CASE CloseStore
    BY <1>1, <2>1, <2>0 DEF CloseStore
  <2>2. CASE RemoveRow
    <3>1. PICK s \in {Subscription, Snapshot} : sealed' = [sealed EXCEPT ![s] = NoRow]
      BY <2>2 DEF RemoveRow
    <3>2. sealed' = [z \in Slots |-> IF z \in {s} THEN NoRow ELSE sealed[z]]
      BY <1>1, <3>1
    <3> QED
      BY <3>1, <3>2
  <2>3. ASSUME NEW n \in 1 .. 3, Rotated(n)
        PROVE  \E gone \in SUBSET {Subscription, Snapshot, Legacy} :
                   sealed' = [s \in Slots |-> IF s \in gone THEN NoRow ELSE sealed[s]]
    <3> DEFINE gone == {s \in {Subscription, Legacy} : (n >= 2 /\ s = Legacy) \/ (n >= 3 /\ s = Subscription)}
    <3>1. sealed' = [s \in Slots |-> IF (n >= 2 /\ s = Legacy) \/ (n >= 3 /\ s = Subscription)
                                     THEN NoRow ELSE sealed[s]]
      BY <2>3 DEF Rotated
    <3>2. \A s : s \in gone <=> (n >= 2 /\ s = Legacy) \/ (n >= 3 /\ s = Subscription)
      OBVIOUS
    <3>3. gone \in SUBSET {Subscription, Snapshot, Legacy}
      OBVIOUS
    <3> HIDE DEF gone
    <3>4. sealed' = [s \in Slots |-> IF s \in gone THEN NoRow ELSE sealed[s]]
      BY <3>1, <3>2
    <3> QED
      BY <3>3, <3>4
  <2>4. CASE EnsurePush
    <3>1. CASE UNCHANGED sealed
      BY <2>0, <3>1
    <3>2. CASE sealed' = [sealed EXCEPT ![Legacy] = NoRow]
      <4>1. sealed' = [s \in Slots |-> IF s \in {Legacy} THEN NoRow ELSE sealed[s]]
        BY <1>1, <3>2
      <4> QED
        BY <4>1
    <3>3. CASE Rotated(3)
      BY <2>3, <3>3
    <3> QED
      BY <2>4, <3>1, <3>2, <3>3 DEF EnsurePush
  <2>5. CASE RotatePush
    BY <2>3, <2>5 DEF RotatePush
  <2> QED
    BY <2>1, <2>2, <2>4, <2>5
<1>3. sealed' \in [Slots -> Row \cup {NoRow}]
  BY <1>1, <1>2
<1>4. \A s \in PlainOnce : sealed'[s] = sealed[s]
  BY <1>2, CoveredApart
<1> QED
  BY <1>1, <1>3, <1>4, RowsStay DEF There

-----------------------------------------------------------------------------
(* The command.  Its record, one field at a time. *)
LEMMA CmdFields ==
    ASSUME StoreTypeOK
    PROVE  /\ cmd.pc \in {"idle", "pairings", "sessions", "commit", "secret", "done"}
           /\ cmd.old \in Nat \cup {NoKey} /\ cmd.new \in Nat \cup {NoKey} /\ cmd.box \in Nat \cup {NoKey}
           /\ cmd.found \in SUBSET Slots /\ cmd.verified \in SUBSET Slots /\ cmd.had \in SUBSET Slots
           /\ cmd.result \in {"none", "ok", "failed", "stranded", "rolled back"} /\ cmd.unsure \in BOOLEAN
           /\ cmd.under \in Nat \cup {NoKey} /\ cmd.rows \in SUBSET Slots
BY DEF StoreTypeOK, Rekeying

\* No command runs.
LEMMA NoCommandFact ==
    /\ NoCommand \in Rekeying /\ NoCommand.pc = "idle" /\ NoCommand.found = {} /\ NoCommand.verified = {}
    /\ NoCommand.unsure = FALSE /\ NoCommand.result = "none" /\ NoCommand.under = NoKey /\ NoCommand.rows = {}
BY DEF NoCommand, Rekeying

\* The command reads the key, and makes another.
LEMMA BeginRekeyKeeps == StoreInv /\ BeginRekey => StoreInv'
<1> SUFFICES ASSUME StoreInv, BeginRekey PROVE StoreInv'
  OBVIOUS
<1>1. /\ secret \in Nat /\ StoreTypeOK /\ keysMade \in Nat /\ keysMade' = keysMade + 1 /\ secret <= keysMade
      /\ sealed' = Upgraded(secret) /\ UNCHANGED <<secret, box>>
  BY DEF BeginRekey, StoreInv, StoreTypeOK
<1>2. sealed' \in [Slots -> Row \cup {NoRow}]
  BY <1>1, UpgradedFact
<1>3. PICK new \in Nat, had \in SUBSET Slots :
          /\ new = keysMade + 1
          /\ cmd' = [NoCommand EXCEPT !.pc = "pairings", !.old = secret, !.new = new, !.box = secret, !.had = had]
  <2>1. PICK had \in SUBSET Slots : had = {s \in Slots : There(s)}
    OBVIOUS
  <2>2. PICK new \in Nat : new = keysMade + 1
    BY <1>1
  <2>3. cmd' = [NoCommand EXCEPT !.pc = "pairings", !.old = secret, !.new = keysMade', !.box = secret,
                                 !.had = {s \in Slots : There(s)}]
    BY DEF BeginRekey
  <2> QED
    BY <1>1, <2>1, <2>2, <2>3
<1>4. /\ cmd' \in Rekeying /\ cmd'.pc = "pairings" /\ cmd'.old = secret /\ cmd'.new = new /\ cmd'.box = secret
      /\ cmd'.found = {} /\ cmd'.verified = {} /\ cmd'.unsure = FALSE /\ cmd'.under = NoKey /\ cmd'.rows = {}
  BY <1>1, <1>3, NoCommandFact DEF Rekeying
<1>5. secret < new /\ new <= keysMade' /\ secret # new
  BY <1>1, <1>3
<1>6. StoreTypeOK' /\ CommandReads' /\ KeysAgree'
  BY <1>1, <1>2, <1>3, <1>4, <1>5 DEF StoreTypeOK, CommandReads, KeysAgree, Rollback, Steps
<1> QED
  BY <1>6 DEF StoreInv

(* A step of the command that changes nothing but its record. *)
LEMMA CommandMoves ==
    ASSUME StoreInv, UNCHANGED <<secret, box, sealed, keysMade>>, cmd' \in Rekeying,
           cmd'.old = cmd.old, cmd'.new = cmd.new, cmd'.under = cmd.under, cmd'.rows = cmd.rows,
           cmd.pc # "idle", cmd'.pc # "idle",
           cmd'.found \subseteq PlainOnce, cmd'.verified \subseteq SessionRows,
           \A s \in cmd'.found : There(s),
           cmd'.pc = "sessions" => cmd.rows \cap Pairings \subseteq cmd'.found,
           cmd'.pc = "commit" => cmd.rows \subseteq cmd'.found,
           KeysAgree'
    PROVE  StoreInv'
<1>1. StoreTypeOK'
  BY DEF StoreInv, StoreTypeOK
<1>2. CommandReads'
  BY DEF StoreInv, CommandReads, There
<1> QED
  BY <1>1, <1>2 DEF StoreInv

(* What is sealed stays so when only the command's record changes. *)
LEMMA SealedStays ==
    ASSUME StoreInv, UNCHANGED sealed, cmd'.rows = cmd.rows, cmd'.under = cmd.under
    PROVE  cmd'.under # NoKey => SealedWith(cmd.under)'
BY DEF StoreInv, KeysAgree, SealedWith, There, Opens, Settled

\* The command ends: without having written anything, or while it rolled back.
LEMMA FailFact ==
    ASSUME StoreTypeOK
    PROVE  /\ Fail \in Rekeying /\ Fail.pc = "done" /\ Fail.result = (IF Rollback THEN "stranded" ELSE "failed")
           /\ Fail.old = cmd.old /\ Fail.new = cmd.new /\ Fail.unsure = cmd.unsure
           /\ Fail.found = cmd.found /\ Fail.verified = cmd.verified
           /\ Fail.under = cmd.under /\ Fail.rows = cmd.rows
<1>1. PICK result \in {"failed", "stranded"} : result = IF Rollback THEN "stranded" ELSE "failed"
  OBVIOUS
<1>2. Fail = [cmd EXCEPT !.pc = "done", !.result = result] /\ cmd \in Rekeying
  BY <1>1 DEF Fail, StoreTypeOK
<1> QED
  BY <1>1, <1>2 DEF Rekeying

\* A command that failed left its rows under the key it had sealed them with.
LEMMA FailKeeps ==
    ASSUME StoreInv, UNCHANGED <<secret, box, sealed, keysMade>>, cmd.pc \in Steps, cmd' = Fail
    PROVE  StoreInv'
<1>1. StoreTypeOK /\ cmd.pc # "idle" /\ "done" \notin Steps
  BY DEF StoreInv, Steps
<1>2. /\ cmd' \in Rekeying /\ cmd'.pc = "done" /\ cmd'.result = (IF Rollback THEN "stranded" ELSE "failed")
      /\ cmd'.old = cmd.old /\ cmd'.new = cmd.new /\ cmd'.unsure = cmd.unsure
      /\ cmd'.found = cmd.found /\ cmd'.verified = cmd.verified
      /\ cmd'.under = cmd.under /\ cmd'.rows = cmd.rows
  BY <1>1, FailFact
<1>3. cmd'.under = EndsUnder'
  BY <1>1, <1>2 DEF StoreInv, KeysAgree, EndsUnder
<1>4. KeysAgree'
  BY <1>1, <1>2, <1>3, SealedStays DEF KeysAgree
<1> QED
  BY <1>1, <1>2, <1>4, CommandMoves DEF StoreInv, CommandReads

\* The two queries of the rows to seal.
LEMMA ReadKeeps == StoreInv /\ (ReadPairings \/ ReadSessions) => StoreInv'
<1> SUFFICES ASSUME StoreInv, ReadPairings \/ ReadSessions PROVE StoreInv'
  OBVIOUS
<1>1. /\ UNCHANGED <<secret, box, sealed, keysMade>> /\ cmd \in Rekeying /\ StoreTypeOK
      /\ cmd.pc \in {"pairings", "sessions"} /\ cmd.found \in SUBSET Slots /\ cmd.verified \in SUBSET Slots
      /\ cmd.found \subseteq PlainOnce /\ cmd.verified \subseteq SessionRows /\ \A s \in cmd.found : There(s)
      /\ cmd.rows \subseteq PlainOnce /\ \A s \in cmd.rows : There(s)
      /\ cmd.pc = "sessions" => cmd.rows \cap Pairings \subseteq cmd.found
      /\ cmd.pc \in Steps
  BY CmdFields DEF ReadPairings, ReadSessions, StoreInv, StoreTypeOK, CommandReads, KeysAgree, SealedWith, Steps
<1>2. CASE cmd' = Fail
  BY <1>1, <1>2, FailKeeps
<1>3. CASE cmd' # Fail
  <2>1. PICK pc \in {"sessions", "commit"}, found \in SUBSET PlainOnce, verified \in SUBSET SessionRows :
            /\ cmd' = [cmd EXCEPT !.pc = pc, !.found = found, !.verified = verified]
            /\ \A s \in found : There(s)
            /\ IF pc = "sessions" THEN cmd.rows \cap Pairings \subseteq found ELSE cmd.rows \subseteq found
    <3>1. CASE ReadPairings
      <4>1. PICK found : found = {s \in Pairings : There(s)}
        OBVIOUS
      <4>2. cmd' = [cmd EXCEPT !.pc = "sessions", !.found = found]
        BY <1>3, <3>1, <4>1 DEF ReadPairings
      <4>3. cmd' = [cmd EXCEPT !.pc = "sessions", !.found = found, !.verified = cmd.verified]
        BY <1>1, <4>2 DEF Rekeying
      <4>4. found \in SUBSET PlainOnce /\ (\A s \in found : There(s)) /\ cmd.rows \cap Pairings \subseteq found
        BY <1>1, <4>1 DEF PlainOnce
      <4> QED
        BY <1>1, <4>3, <4>4
    <3>2. CASE ReadSessions
      <4>1. PICK found : found = cmd.found \cup {s \in SessionRows : There(s)}
        OBVIOUS
      <4>2. PICK verified \in SUBSET SessionRows : verified = {s \in SessionRows : There(s) /\ sealed[s].verifier # NoKey}
        OBVIOUS
      <4>3. cmd' = [cmd EXCEPT !.pc = "commit", !.found = found, !.verified = verified] /\ cmd.pc = "sessions"
        BY <1>1, <1>3, <3>2, <4>1, <4>2 DEF ReadSessions, Rekeying
      <4>4. found \in SUBSET PlainOnce /\ (\A s \in found : There(s)) /\ cmd.rows \subseteq found
        BY <1>1, <4>1, <4>3 DEF PlainOnce
      <4> QED
        BY <4>3, <4>4
    <3> QED
      BY <3>1, <3>2
  <2>2. found \in SUBSET Slots /\ verified \in SUBSET Slots
    BY CoveredApart
  <2>3. /\ cmd' \in Rekeying /\ cmd'.pc = pc /\ cmd'.found = found /\ cmd'.verified = verified
        /\ cmd'.old = cmd.old /\ cmd'.new = cmd.new /\ cmd'.unsure = cmd.unsure /\ cmd'.box = cmd.box
        /\ cmd'.under = cmd.under /\ cmd'.rows = cmd.rows
    BY <1>1, <2>1, <2>2 DEF Rekeying
  <2>4. KeysAgree'
    BY <1>1, <2>3, SealedStays DEF StoreInv, KeysAgree, Rollback, Steps
  <2>5. cmd.pc # "idle" /\ cmd'.pc # "idle"
    BY <1>1, <2>3
  <2> QED
    BY <1>1, <2>1, <2>3, <2>4, <2>5, CommandMoves
<1> QED
  BY <1>2, <1>3

(* The transaction: every row that was found is sealed with one key, and the
   sessions are revoked. *)
LEMMA CommitSeals ==
    ASSUME StoreInv, NEW key \in Nat,
           sealed' = [s \in Slots |-> IF s \in cmd.found /\ There(s) THEN Resealed(s, key) ELSE sealed[s]]
    PROVE  /\ sealed' \in [Slots -> Row \cup {NoRow}]
           /\ \A s \in cmd.found : /\ sealed'[s] # NoRow
                                   /\ sealed'[s].key = key /\ sealed'[s].verifier \in {NoKey, key}
                                   /\ s \in SessionRows => sealed'[s].revoked
<1>1. sealed \in [Slots -> Row \cup {NoRow}] /\ cmd.found \subseteq Slots /\ \A s \in cmd.found : There(s)
  BY CoveredApart DEF StoreInv, StoreTypeOK, CommandReads
<1>2. ASSUME NEW s \in cmd.found
      PROVE  /\ Resealed(s, key) \in Row /\ Resealed(s, key).key = key
             /\ Resealed(s, key).verifier \in {NoKey, key} /\ (s \in SessionRows => Resealed(s, key).revoked)
  <2>1. sealed[s] \in Row
    BY <1>1 DEF There
  <2>2. PICK revoked \in BOOLEAN : revoked = (sealed[s].revoked \/ s \in SessionRows)
    OBVIOUS
  <2>3. PICK verifier \in {NoKey, key} : verifier = IF s \in cmd.verified THEN key ELSE NoKey
    OBVIOUS
  <2>4. Resealed(s, key) = [key |-> key, verifier |-> verifier, revoked |-> revoked]
    BY <2>2, <2>3 DEF Resealed
  <2>5. verifier \in Nat \cup {NoKey} /\ key \in Nat \cup {Plain}
    OBVIOUS
  <2>6. Resealed(s, key) \in Row
    BY <2>4, <2>5 DEF Row
  <2>7. s \in SessionRows => revoked
    BY <2>2
  <2> QED
    BY <2>3, <2>4, <2>6, <2>7
<1> QED
  BY <1>1, <1>2, RowFact

\* The transaction.
LEMMA CommitKeeps == StoreInv /\ CommitRekey => StoreInv'
<1> SUFFICES ASSUME StoreInv, CommitRekey PROVE StoreInv'
  OBVIOUS
<1>1. /\ cmd.pc = "commit" /\ UNCHANGED <<secret, box, keysMade>> /\ cmd \in Rekeying /\ StoreTypeOK
      /\ cmd.old \in Nat /\ cmd.new \in Nat /\ cmd.old < cmd.new /\ cmd.new <= keysMade
      /\ cmd.found \subseteq PlainOnce /\ cmd.verified \subseteq SessionRows /\ cmd.rows \subseteq cmd.found
      /\ ~cmd.unsure => secret = cmd.old
      /\ cmd.unsure => Rollback
  BY DEF CommitRekey, StoreInv, StoreTypeOK, CommandReads, KeysAgree, Steps
<1>2. PICK key \in Nat : key = IF Rollback THEN cmd.old ELSE cmd.new
  BY <1>1
<1>3. sealed' = [s \in Slots |-> IF s \in cmd.found /\ There(s) THEN Resealed(s, key) ELSE sealed[s]]
  BY <1>2 DEF CommitRekey
<1>4. /\ sealed' \in [Slots -> Row \cup {NoRow}]
      /\ \A s \in cmd.found : /\ sealed'[s] # NoRow
                              /\ sealed'[s].key = key /\ sealed'[s].verifier \in {NoKey, key}
                              /\ s \in SessionRows => sealed'[s].revoked
  BY <1>3, CommitSeals
<1>5. PICK pc \in {"done", "secret"}, result \in {"none", "ok", "failed", "stranded", "rolled back"} :
          /\ pc = IF Rollback THEN "done" ELSE "secret"
          /\ result = IF Rollback THEN "rolled back" ELSE cmd.result
  BY CmdFields DEF StoreInv
<1>6. PICK rows \in SUBSET Slots : rows = cmd.rows \cup cmd.found
  BY CmdFields DEF StoreInv
<1>7. cmd' = [cmd EXCEPT !.pc = pc, !.result = result, !.under = key, !.rows = rows]
  BY <1>1, <1>2, <1>5, <1>6 DEF CommitRekey, Rekeying
<1>8. /\ cmd' \in Rekeying /\ cmd'.found = cmd.found /\ cmd'.verified = cmd.verified
      /\ cmd'.old = cmd.old /\ cmd'.new = cmd.new /\ cmd'.unsure = cmd.unsure
      /\ cmd'.pc = pc /\ cmd'.result = result /\ cmd'.under = key /\ cmd'.rows = cmd.found
  BY <1>1, <1>6, <1>7 DEF Rekeying
<1>9. key # Plain /\ key # NoKey
  BY StoreAssumption
<1>10. StoreTypeOK' /\ CommandReads'
  BY <1>1, <1>4, <1>5, <1>8, <1>9 DEF StoreTypeOK, CommandReads, There
<1>11. \A s \in cmd'.rows : There(s)' /\ Opens(s, key)' /\ Settled(s)'
  BY <1>4, <1>8, <1>9 DEF Opens, Settled, There
<1>12. KeysAgree'
  <2>1. CASE Rollback
    <3>1. cmd'.pc = "done" /\ cmd'.result = "rolled back" /\ cmd'.under = cmd.old
      BY <1>2, <1>5, <1>8, <2>1
    <3>2. EndsUnder' = cmd.old
      BY <1>1, <1>8, <3>1 DEF EndsUnder
    <3> QED
      BY <1>8, <1>11, <3>1, <3>2 DEF KeysAgree, Steps, SealedWith
  <2>2. CASE ~Rollback
    <3>1. cmd'.pc = "secret" /\ cmd'.under = cmd'.new /\ ~cmd'.unsure
      BY <1>1, <1>2, <1>5, <1>8, <2>2
    <3> QED
      BY <1>1, <1>8, <1>11, <3>1 DEF KeysAgree, Steps, SealedWith
  <2> QED
    BY <2>1, <2>2
<1> QED
  BY <1>10, <1>12 DEF StoreInv

\* The new key goes to the secret store, or the rows go back to the old one.
LEMMA StoreSecretKeeps == StoreInv /\ StoreSecret => StoreInv'
<1> SUFFICES ASSUME StoreInv, StoreSecret PROVE StoreInv'
  OBVIOUS
<1>1. /\ cmd.pc = "secret" /\ UNCHANGED <<box, sealed, keysMade>> /\ cmd \in Rekeying /\ StoreTypeOK
      /\ cmd.old \in Nat /\ cmd.new \in Nat /\ cmd.old < cmd.new /\ cmd.new <= keysMade
      /\ cmd.found \subseteq PlainOnce /\ cmd.verified \subseteq SessionRows
      /\ \A s \in cmd.found : There(s)
      /\ cmd.under = cmd.new /\ ~cmd.unsure /\ secret = cmd.old
  BY DEF StoreSecret, StoreInv, StoreTypeOK, CommandReads, KeysAgree
<1>2. PICK unsure1 \in BOOLEAN, pc \in {"pairings", "done"}, result \in {"none", "ok", "failed", "stranded", "rolled back"},
           key \in Nat \cup {NoKey} :
          /\ cmd' = [cmd EXCEPT !.pc = pc, !.box = key, !.result = result, !.unsure = unsure1]
          /\ \/ secret' = cmd.new /\ pc = "done" /\ result = "ok" /\ ~unsure1
             \/ secret' = secret /\ pc = "pairings" /\ key = cmd.new /\ ~unsure1
             \/ secret' = cmd.new /\ pc = "pairings" /\ key = cmd.new /\ unsure1
  <2>1. CASE secret' = cmd.new /\ cmd' = [cmd EXCEPT !.pc = "done", !.result = "ok"]
    <3>1. cmd' = [cmd EXCEPT !.pc = "done", !.box = cmd.box, !.result = "ok", !.unsure = FALSE]
      BY <1>1, <2>1 DEF Rekeying
    <3> QED
      BY <2>1, <3>1, CmdFields DEF StoreInv
  <2>2. CASE secret' = secret /\ cmd' = RollBack
    <3>1. cmd' = [cmd EXCEPT !.pc = "pairings", !.box = cmd.new, !.result = cmd.result, !.unsure = FALSE]
      BY <1>1, <2>2 DEF Rekeying, RollBack
    <3> QED
      BY <1>1, <2>2, <3>1, CmdFields DEF StoreInv
  <2>3. CASE secret' = cmd.new /\ cmd' = [RollBack EXCEPT !.unsure = TRUE]
    <3>1. cmd' = [cmd EXCEPT !.pc = "pairings", !.box = cmd.new, !.result = cmd.result, !.unsure = TRUE]
      BY <1>1, <2>3 DEF Rekeying, RollBack
    <3> QED
      BY <1>1, <2>3, <3>1, CmdFields DEF StoreInv
  <2> QED
    BY <2>1, <2>2, <2>3 DEF StoreSecret
<1>3. /\ cmd' \in Rekeying /\ cmd'.pc = pc /\ cmd'.found = cmd.found /\ cmd'.verified = cmd.verified
      /\ cmd'.old = cmd.old /\ cmd'.new = cmd.new /\ cmd'.box = key /\ cmd'.result = result
      /\ cmd'.unsure = unsure1 /\ cmd'.under = cmd.under /\ cmd'.rows = cmd.rows
  BY <1>1, <1>2 DEF Rekeying
<1>4. secret' \in Nat /\ secret' <= keysMade
  BY <1>1, <1>2 DEF StoreTypeOK
<1>5. StoreTypeOK' /\ CommandReads'
  BY <1>1, <1>3, <1>4 DEF StoreInv, StoreTypeOK, CommandReads, There
<1>6. pc = "done" => cmd'.under = EndsUnder'
  BY <1>1, <1>2, <1>3 DEF EndsUnder
<1>7. KeysAgree'
  BY <1>1, <1>2, <1>3, <1>6, SealedStays DEF KeysAgree, Rollback, Steps
<1> QED
  BY <1>5, <1>7 DEF StoreInv

\* The command dies.
LEMMA KillRekeyKeeps == StoreInv /\ KillRekey => StoreInv'
<1> SUFFICES ASSUME StoreInv, KillRekey PROVE StoreInv'
  OBVIOUS
<1>1. /\ cmd.pc \notin {"idle", "done"} /\ UNCHANGED <<secret, box, sealed, keysMade>> /\ cmd \in Rekeying /\ StoreTypeOK
      /\ cmd.pc \in Steps \cup {"secret"}
  BY CmdFields DEF KillRekey, StoreInv, StoreTypeOK, Steps
<1>2. PICK result \in {"failed", "stranded"} : result = IF cmd.under = NoKey THEN "failed" ELSE "stranded"
  OBVIOUS
<1>3. cmd' = [cmd EXCEPT !.pc = "done", !.result = result]
  BY <1>2 DEF KillRekey
<1>4. /\ cmd' \in Rekeying /\ cmd'.pc = "done" /\ cmd'.found = cmd.found /\ cmd'.verified = cmd.verified
      /\ cmd'.old = cmd.old /\ cmd'.new = cmd.new /\ cmd'.result = result /\ cmd'.unsure = cmd.unsure
      /\ cmd'.under = cmd.under /\ cmd'.rows = cmd.rows
  BY <1>1, <1>3 DEF Rekeying
<1>5. cmd.under = NoKey \/ cmd.under = cmd.new
  BY <1>1 DEF StoreInv, KeysAgree
<1>6. cmd'.under = EndsUnder'
  BY <1>2, <1>4, <1>5 DEF EndsUnder
<1>7. KeysAgree'
  BY <1>4, <1>6, SealedStays, <1>1 DEF KeysAgree, Steps
<1> QED
  BY <1>1, <1>4, <1>7, CommandMoves DEF StoreInv, CommandReads

\* The invariant holds at first.
LEMMA StoreInitInv == StoreInit => StoreInv
<1> SUFFICES ASSUME StoreInit PROVE StoreInv
  OBVIOUS
<1>1. SealedRow(0) \in Row /\ SealedRow(Plain) \in Row
  BY DEF SealedRow, Row
<1>2. sealed \in [Slots -> Row \cup {NoRow}]
  BY <1>1 DEF StoreInit
<1>3. cmd = NoCommand /\ secret = 0 /\ box = NoKey /\ keysMade = 0
  BY DEF StoreInit
<1>4. "idle" \notin Steps \cup {"secret", "done"}
  BY DEF Steps
<1> QED
  BY <1>2, <1>3, <1>4, NoCommandFact DEF StoreInv, StoreTypeOK, CommandReads, KeysAgree

\* A stuttering step.
LEMMA StoreStays == StoreInv /\ UNCHANGED storeVars => StoreInv'
<1> SUFFICES ASSUME StoreInv, UNCHANGED storeVars PROVE StoreInv'
  OBVIOUS
<1>1. UNCHANGED <<secret, cmd, box, keysMade, sealed>>
  BY DEF storeVars
<1>2. box' \in Nat \cup {NoKey} /\ sealed' \in [Slots -> Row \cup {NoRow}]
  BY <1>1 DEF StoreInv, StoreTypeOK
<1> QED
  BY <1>1, <1>2, RowsStay DEF There

\* Every step keeps the invariant.
LEMMA StoreNextInv == StoreInv /\ [StoreNext]_storeVars => StoreInv'
BY OpenStoreKeeps, PutKeeps, SessionRowsKeep, OtherRowsKeep, BeginRekeyKeeps, ReadKeeps, CommitKeeps,
   StoreSecretKeeps, KillRekeyKeeps, StoreStays DEF StoreNext

\* The rows of a rekey are under one key, whichever way it ends.
LEMMA RekeySafe == StoreSpec => []RekeyKeepsRows
<1>1. StoreInv => RekeyKeepsRows
  BY DEF StoreInv, KeysAgree, SealedWith, Settled, EndsUnder, RekeyKeepsRows
<1> QED
  BY <1>1, StoreInitInv, StoreNextInv, PTL DEF StoreSpec

-----------------------------------------------------------------------------

(* A rekey leaves the rows it found under one key, whichever way it ends, the
   one its outcome names; a secret stays where and what it was stored as, but
   for those two commands changed at once. *)
THEOREM KeysAreKept == StoreSpec /\ SecretSpec => []KeysKept
BY RekeySafe, SecretsSafe, PTL DEF KeysKept

-----------------------------------------------------------------------------
(* Snapshots and forks.  The newest file of a directory is that of a session
   which runs there; as long as no other file has taken its place, it begins
   with what every row of that directory has seen.  Rows are numbered in the
   order of their seconds, and of each name there is a last one. *)

Line == {"turn", "prompt"} \X Nat
SnapshotRow == [id : Nat, name : Names, dir : Dirs, at : Nat, seen : Seq(Line)]
Forking == [row : SnapshotRow, turn : Nat, file : Sessions, lines : Seq(Line), renamed : BOOLEAN,
            meant : SnapshotRow, clear : BOOLEAN]

SnapshotsTypeOK ==
    /\ dir \in [Sessions -> Dirs \cup {Nothing}]
    /\ running \in SUBSET Sessions /\ \A s \in running : dir[s] # Nothing
    /\ transcript \in [Sessions -> Seq(Line)]
    /\ newest \in [Dirs -> Sessions \cup {Nothing}]
    /\ \A d \in Dirs : newest[d] # Nothing => dir[newest[d]] = d
    /\ snapshots \in SUBSET SnapshotRow /\ IsFiniteSet(snapshots)
    /\ second \in Nat /\ turns \in Nat /\ forks \in Nat /\ taken \in Nat

RowsInOrder ==
    /\ \A r \in snapshots : r.id < taken /\ r.at <= second
    /\ \A r \in snapshots : \A x \in snapshots : x.id <= r.id => x.at <= r.at
    /\ \A r \in snapshots : \E last \in snapshots :
           last.name = r.name /\ \A x \in snapshots : x.name = r.name => x.id <= last.id

\* One text begins with another.
Begins(part, whole) == Len(part) <= Len(whole) /\ \A i \in 1 .. Len(part) : whole[i] = part[i]

SeenIsKept == \A r \in snapshots : r.id \notin disturbed => Begins(r.seen, Seen(r.dir))

\* What BranchFaithful asks of the text of a fork.
BranchOf(part, lines, n) ==
    LET kept == Len(lines) - 1
        owed == Shorter(n, Len(part))
    IN  /\ owed <= kept /\ kept <= n
        /\ SubSeq(lines, 1, owed) = SubSeq(part, 1, owed)
        /\ lines[kept + 1][1] = "prompt"

BranchesFrom(f) == f.clear => BranchOf(f.meant.seen, f.lines, f.turn)

ForkSound ==
    /\ fork # Nothing => fork \in Forking /\ dir[fork.file] # Nothing
    /\ fork # Nothing /\ ~fork.renamed => BranchesFrom(fork)
    /\ branch # Nothing => BranchesFrom(branch)

SnapshotsInv == SnapshotsTypeOK /\ RowsInOrder /\ SeenIsKept /\ ForkSound

\* Cutting two texts of which one begins with the other.
LEMMA CutAgrees ==
    ASSUME NEW S, NEW part \in Seq(S), NEW whole \in Seq(S), NEW n \in Nat, NEW x \in S, Begins(part, whole),
           x[1] = "prompt", NEW lines, lines = Append(FirstTurns(whole, n), x)
    PROVE  lines \in Seq(S) /\ BranchOf(part, lines, n)
<1> DEFINE k == Shorter(n, Len(whole))
           o == Shorter(n, Len(part))
           cut == FirstTurns(whole, n)
<1>1. /\ k \in Nat /\ o \in Nat /\ o <= k /\ k <= n /\ k <= Len(whole) /\ o <= Len(part)
      /\ Len(part) \in Nat /\ Len(whole) \in Nat /\ Len(part) <= Len(whole)
  BY DEF Shorter, Begins
<1>2. cut = SubSeq(whole, 1, k)
  BY DEF FirstTurns
<1> HIDE DEF k, o, cut
<1>3. cut \in Seq(S) /\ Len(cut) = k /\ \A i \in 1 .. k : cut[i] = whole[i]
  BY <1>1, <1>2
<1>4. /\ lines \in Seq(S) /\ Len(lines) = k + 1 /\ lines[k + 1] = x
      /\ \A i \in 1 .. k : lines[i] = whole[i]
  BY <1>1, <1>2, <1>3 DEF cut
<1>5. \A i \in 1 .. o : lines[i] = part[i]
  BY <1>1, <1>4 DEF Begins
<1>6. SubSeq(lines, 1, o) = [i \in 1 .. o |-> lines[i]] /\ SubSeq(part, 1, o) = [i \in 1 .. o |-> part[i]]
  BY <1>1, <1>4
<1>7. SubSeq(lines, 1, o) = SubSeq(part, 1, o)
  BY <1>5, <1>6
<1>8. Len(lines) - 1 = k /\ o <= k /\ k <= n
  BY <1>1, <1>4
<1> QED
  BY <1>1, <1>4, <1>7, <1>8 DEF o, BranchOf

\* What a directory shows, and its files.
LEMMA SeenFact ==
    ASSUME SnapshotsTypeOK, NEW d \in Dirs
    PROVE  /\ Seen(d) \in Seq(Line) /\ d # Nothing
           /\ newest[d] # Nothing => newest[d] \in Sessions /\ Seen(d) = transcript[newest[d]]
           /\ newest[d] = Nothing => Seen(d) = <<>>
<1>1. newest[d] \in Sessions \cup {Nothing} /\ <<>> \in Seq(Line)
  BY DEF SnapshotsTypeOK
<1> QED
  BY <1>1, SnapshotAssumption DEF SnapshotsTypeOK, Seen, HasTranscript

\* A session is added, or one ends: the files stay.
LEMMA SessionsKeep ==
    ASSUME SnapshotsInv, dir' \in [Sessions -> Dirs \cup {Nothing}], running' \in SUBSET Sessions,
           \A s \in Sessions : dir[s] # Nothing => dir'[s] = dir[s],
           \A s \in running' : dir'[s] # Nothing,
           UNCHANGED <<transcript, newest, snapshots, branch, disturbed, turns, forks, taken>>,
           second' \in Nat, second' >= second,
           UNCHANGED fork \/ fork' = Nothing
    PROVE  SnapshotsInv'
<1>1. \A d \in Dirs : newest[d] # Nothing => newest[d] \in Sessions /\ dir[newest[d]] = d /\ d # Nothing
  BY SeenFact DEF SnapshotsInv, SnapshotsTypeOK
<1>2. SnapshotsTypeOK'
  BY <1>1 DEF SnapshotsInv, SnapshotsTypeOK
<1>3. \A r \in snapshots : r.at \in Nat
  BY DEF SnapshotsInv, SnapshotsTypeOK, SnapshotRow
<1>4. RowsInOrder'
  BY <1>3 DEF SnapshotsInv, SnapshotsTypeOK, RowsInOrder
<1>5. SeenIsKept'
  BY DEF SnapshotsInv, SeenIsKept, Seen, HasTranscript
<1>6. ForkSound'
  BY DEF SnapshotsInv, ForkSound, Forking
<1> QED
  BY <1>2, <1>4, <1>5, <1>6 DEF SnapshotsInv

\* A session registers with a directory.
LEMMA RegisterKeeps ==
    ASSUME SnapshotsInv, NEW s \in Sessions, NEW d \in Dirs, Register(s, d),
           UNCHANGED <<transcript, newest, snapshots, branch, disturbed, second, turns, forks, taken>>,
           UNCHANGED fork \/ fork' = Nothing
    PROVE  SnapshotsInv'
<1>1. /\ dir' = [dir EXCEPT ![s] = d] /\ dir[s] = Nothing /\ running' = running \cup {s}
      /\ dir \in [Sessions -> Dirs \cup {Nothing}] /\ second \in Nat
      /\ running \in SUBSET Sessions /\ \A z \in running : dir[z] # Nothing
      /\ d # Nothing
  BY SnapshotAssumption DEF Register, SnapshotsInv, SnapshotsTypeOK
<1>2. second' \in Nat /\ second' >= second
  BY <1>1
<1> QED
  BY <1>1, <1>2, SessionsKeep

\* What changes no directory's sessions.
LEMMA QuietKeeps ==
    ASSUME SnapshotsInv,
           \/ \E s \in Sessions : End(s)
           \/ ForkFails \/ SecondPasses \/ UNCHANGED snapshotVars
    PROVE  SnapshotsInv'
<1>1. /\ UNCHANGED <<dir, transcript, newest, snapshots, branch, disturbed, turns, forks, taken>>
      /\ running' \in SUBSET running
      /\ second' = second \/ second' = second + 1
      /\ UNCHANGED fork \/ fork' = Nothing
  BY DEF End, ForkFails, SecondPasses, snapshotVars, sourceVars
<1>2. second' \in Nat /\ second' >= second /\ dir' \in [Sessions -> Dirs \cup {Nothing}]
      /\ running' \in SUBSET Sessions /\ \A s \in running' : dir'[s] # Nothing
  BY <1>1 DEF SnapshotsInv, SnapshotsTypeOK
<1> QED
  BY <1>1, <1>2, SessionsKeep

-----------------------------------------------------------------------------
\* One file is written; rows whose directory shows another file are disturbed.
LEMMA WrittenKeeps ==
    ASSUME SnapshotsInv, NEW s \in Sessions, dir[s] # Nothing, NEW lines \in Seq(Line),
           transcript' = [transcript EXCEPT ![s] = lines],
           newest' = [newest EXCEPT ![dir[s]] = s],
           UNCHANGED <<dir, running, snapshots, second, forks, taken>>, turns' \in Nat,
           disturbed \subseteq disturbed',
           \/ Begins(Seen(dir[s]), lines)
           \/ RowsIn(dir[s]) \subseteq disturbed'
    PROVE  SnapshotsTypeOK' /\ RowsInOrder' /\ SeenIsKept'
<1>1. dir[s] \in Dirs /\ dir[s] # Nothing
  BY DEF SnapshotsInv, SnapshotsTypeOK
<1>2. SnapshotsTypeOK'
  BY <1>1 DEF SnapshotsInv, SnapshotsTypeOK
<1>3. RowsInOrder'
  BY DEF SnapshotsInv, RowsInOrder
<1>4. ASSUME NEW r \in snapshots, r.id \notin disturbed' PROVE Begins(r.seen, Seen(r.dir)')
  <2>1. r \in SnapshotRow /\ r.dir \in Dirs /\ r.seen \in Seq(Line) /\ Begins(r.seen, Seen(r.dir))
    BY <1>4 DEF SnapshotsInv, SnapshotsTypeOK, SnapshotRow, SeenIsKept
  <2>2. CASE r.dir = dir[s]
    <3>1. Seen(r.dir)' = lines
      BY <1>1, <2>2, SnapshotAssumption DEF Seen, HasTranscript, SnapshotsInv, SnapshotsTypeOK
    <3>2. r.id \in RowsIn(dir[s])
      BY <2>2 DEF RowsIn
    <3>3. Begins(Seen(r.dir), lines)
      BY <1>4, <2>2, <3>2
    <3>4. Seen(r.dir) \in Seq(Line)
      BY <2>1, SeenFact DEF SnapshotsInv
    <3> QED
      BY <2>1, <3>1, <3>3, <3>4 DEF Begins
  <2>3. CASE r.dir # dir[s]
    <3>1. newest'[r.dir] = newest[r.dir]
      BY <1>1, <2>1, <2>3 DEF SnapshotsInv, SnapshotsTypeOK
    <3>2. newest[r.dir] # Nothing => newest[r.dir] \in Sessions /\ newest[r.dir] # s
      BY <2>1, <2>3, SeenFact DEF SnapshotsInv, SnapshotsTypeOK
    <3>3. newest[r.dir] # Nothing => transcript'[newest[r.dir]] = transcript[newest[r.dir]]
      BY <3>2 DEF SnapshotsInv, SnapshotsTypeOK
    <3>4. Seen(r.dir)' = Seen(r.dir)
      BY <3>1, <3>3 DEF Seen, HasTranscript
    <3> QED
      BY <2>1, <3>4
  <2> QED
    BY <2>2, <2>3
<1>5. SeenIsKept'
  BY <1>4 DEF SeenIsKept
<1> QED
  BY <1>2, <1>3, <1>5

\* A prompt or an answer.
LEMMA TurnKeeps == ASSUME SnapshotsInv, NEW s \in Sessions, Turn(s) PROVE SnapshotsInv'
<1> DEFINE lines == Append(transcript[s], <<"turn", turns>>)
<1>1. /\ s \in running /\ dir[s] # Nothing /\ dir[s] \in Dirs /\ turns \in Nat
      /\ transcript[s] \in Seq(Line) /\ <<"turn", turns>> \in Line
  BY DEF Turn, SnapshotsInv, SnapshotsTypeOK, Line
<1>2. lines \in Seq(Line) /\ Len(lines) = Len(transcript[s]) + 1
      /\ Begins(transcript[s], lines) /\ Begins(<<>>, lines)
  BY <1>1 DEF Begins
<1>3. transcript' = [transcript EXCEPT ![s] = lines]
  BY DEF Turn
<1> HIDE DEF lines
<1>4. newest[dir[s]] \in {s, Nothing} => Begins(Seen(dir[s]), lines)
  BY <1>1, <1>2, SeenFact DEF SnapshotsInv
<1>5. /\ newest' = [newest EXCEPT ![dir[s]] = s] /\ turns' = turns + 1
      /\ UNCHANGED <<dir, running, snapshots, fork, branch, second, forks, taken>>
      /\ disturbed \subseteq disturbed'
      /\ newest[dir[s]] \in {s, Nothing} \/ RowsIn(dir[s]) \subseteq disturbed'
  BY DEF Turn
<1>6. turns' \in Nat
  BY <1>1, <1>5
<1>7. SnapshotsTypeOK' /\ RowsInOrder' /\ SeenIsKept'
  BY <1>1, <1>2, <1>3, <1>4, <1>5, <1>6, WrittenKeeps
<1>8. ForkSound'
  BY <1>5 DEF SnapshotsInv, ForkSound
<1> QED
  BY <1>7, <1>8 DEF SnapshotsInv

\* The transcript is replaced by the branch.
LEMMA ForkRenameKeeps == SnapshotsInv /\ ForkRename => SnapshotsInv'
<1> SUFFICES ASSUME SnapshotsInv, ForkRename PROVE SnapshotsInv'
  OBVIOUS
<1>1. /\ fork # Nothing /\ ~fork.renamed /\ fork \in Forking /\ dir[fork.file] # Nothing
      /\ BranchesFrom(fork) /\ turns \in Nat
  BY DEF ForkRename, SnapshotsInv, ForkSound, SnapshotsTypeOK
<1>2. fork.file \in Sessions /\ fork.lines \in Seq(Line)
  BY <1>1 DEF Forking
<1>3. /\ transcript' = [transcript EXCEPT ![fork.file] = fork.lines]
      /\ newest' = [newest EXCEPT ![dir[fork.file]] = fork.file]
      /\ branch' = fork /\ fork' = [fork EXCEPT !.renamed = TRUE]
      /\ disturbed' = disturbed \cup RowsIn(dir[fork.file])
      /\ UNCHANGED <<dir, running, snapshots, second, turns, forks, taken>>
  BY DEF ForkRename
<1>4. turns' \in Nat /\ disturbed \subseteq disturbed' /\ RowsIn(dir[fork.file]) \subseteq disturbed'
  BY <1>1, <1>3
<1>5. SnapshotsTypeOK' /\ RowsInOrder' /\ SeenIsKept'
  BY <1>1, <1>2, <1>3, <1>4, WrittenKeeps
<1>6. fork' \in Forking /\ fork'.renamed /\ fork'.file = fork.file
  <2>1. PICK yes \in BOOLEAN : yes
    OBVIOUS
  <2>2. fork' = [fork EXCEPT !.renamed = yes]
    BY <1>3, <2>1
  <2> QED
    BY <1>1, <2>1, <2>2 DEF Forking
<1>7. ForkSound'
  BY <1>1, <1>3, <1>6 DEF ForkSound
<1> QED
  BY <1>5, <1>7 DEF SnapshotsInv

-----------------------------------------------------------------------------
\* A row is added; it is the last of its name.
LEMMA TakeKeeps ==
    ASSUME SnapshotsInv, NEW s \in Sessions, NEW name \in Names, Take(s, name)
    PROVE  SnapshotsInv'
<1>1. /\ s \in running /\ dir[s] \in Dirs /\ taken \in Nat /\ second \in Nat
      /\ taken' = taken + 1 /\ disturbed \subseteq disturbed'
      /\ UNCHANGED <<dir, running, transcript, newest, fork, branch, second, turns, forks>>
  BY DEF Take, sourceVars, SnapshotsInv, SnapshotsTypeOK
<1>2. PICK row : row = RowOf(s, name)
  OBVIOUS
<1>3. row = [id |-> taken, name |-> name, dir |-> dir[s], at |-> second, seen |-> Seen(dir[s])]
  BY <1>2 DEF RowOf
<1>4. /\ row \in SnapshotRow /\ row.id = taken /\ row.name = name /\ row.at = second
      /\ row.dir = dir[s] /\ row.seen = Seen(dir[s]) /\ Seen(dir[s]) \in Seq(Line)
  BY <1>1, <1>3, SeenFact DEF SnapshotRow, SnapshotsInv
<1>5. snapshots' = snapshots \cup {row}
  BY <1>2 DEF Take
<1>6. IsFiniteSet(snapshots')
  BY <1>5, FS_AddElement DEF SnapshotsInv, SnapshotsTypeOK
<1>7. SnapshotsTypeOK'
  BY <1>1, <1>4, <1>5, <1>6 DEF SnapshotsInv, SnapshotsTypeOK
<1>8. \A r \in snapshots : r.id \in Nat /\ r.id < taken /\ r.at \in Nat /\ r.at <= second
  BY DEF SnapshotsInv, SnapshotsTypeOK, SnapshotRow, RowsInOrder
<1>9. \A r \in snapshots' : r.id < taken' /\ r.at <= second'
  BY <1>1, <1>4, <1>5, <1>8
<1>10. ASSUME NEW r \in snapshots', NEW x \in snapshots', x.id <= r.id PROVE x.at <= r.at
  <2>1. CASE r \in snapshots /\ x \in snapshots
    BY <1>10, <2>1 DEF SnapshotsInv, RowsInOrder
  <2>2. CASE r = row
    BY <1>1, <1>4, <1>5, <1>8, <2>2
  <2>3. CASE r \in snapshots /\ x = row
    BY <1>1, <1>4, <1>8, <1>10, <2>3
  <2> QED
    BY <1>5, <2>1, <2>2, <2>3
<1>11. ASSUME NEW r \in snapshots'
       PROVE  \E last \in snapshots' : last.name = r.name /\ \A x \in snapshots' : x.name = r.name => x.id <= last.id
  <2>1. CASE r.name = name
    <3>1. \A x \in snapshots' : x.id <= row.id
      BY <1>1, <1>4, <1>5, <1>8
    <3> QED
      BY <1>4, <1>5, <2>1, <3>1
  <2>2. CASE r.name # name
    <3>1. r \in snapshots
      BY <1>4, <1>5, <2>2
    <3>2. PICK last \in snapshots : last.name = r.name /\ \A x \in snapshots : x.name = r.name => x.id <= last.id
      BY <3>1 DEF SnapshotsInv, RowsInOrder
    <3> QED
      BY <1>4, <1>5, <2>2, <3>2
  <2> QED
    BY <2>1, <2>2
<1>12. \A d : Seen(d)' = Seen(d)
  BY <1>1 DEF Seen, HasTranscript
<1>13. Begins(row.seen, Seen(row.dir))
  BY <1>4 DEF Begins
<1>14. SeenIsKept'
  BY <1>1, <1>5, <1>12, <1>13 DEF SnapshotsInv, SeenIsKept
<1>15. ForkSound'
  BY <1>1 DEF SnapshotsInv, ForkSound
<1> QED
  BY <1>7, <1>9, <1>10, <1>11, <1>14, <1>15 DEF SnapshotsInv, RowsInOrder

\* All rows of a name go.
LEMMA DeleteKeeps == ASSUME SnapshotsInv, NEW name \in Names, Delete(name) PROVE SnapshotsInv'
<1>1. /\ snapshots' = {r \in snapshots : r.name # name}
      /\ UNCHANGED <<dir, running, transcript, newest, fork, branch, disturbed, second, turns, forks, taken>>
  BY DEF Delete, sourceVars
<1>2. IsFiniteSet(snapshots')
  BY <1>1, FS_Subset DEF SnapshotsInv, SnapshotsTypeOK
<1>3. SnapshotsTypeOK'
  BY <1>1, <1>2 DEF SnapshotsInv, SnapshotsTypeOK
<1>4. ASSUME NEW r \in snapshots'
      PROVE  \E last \in snapshots' : last.name = r.name /\ \A x \in snapshots' : x.name = r.name => x.id <= last.id
  <2>1. PICK last \in snapshots : last.name = r.name /\ \A x \in snapshots : x.name = r.name => x.id <= last.id
    BY <1>1 DEF SnapshotsInv, RowsInOrder
  <2> QED
    BY <1>1, <2>1
<1>5. RowsInOrder'
  BY <1>1, <1>4 DEF SnapshotsInv, RowsInOrder
<1>6. SeenIsKept'
  BY <1>1 DEF SnapshotsInv, SeenIsKept, Seen, HasTranscript
<1>7. ForkSound'
  BY <1>1 DEF SnapshotsInv, ForkSound
<1> QED
  BY <1>3, <1>5, <1>6, <1>7 DEF SnapshotsInv

\* The row that a second tells apart is the one the owner means.
LEMMA MeantFact ==
    ASSUME SnapshotsInv, NEW name \in Names, NEW r \in Latest(name)
    PROVE  /\ r \in snapshots /\ r \in SnapshotRow /\ LastTaken(name) \in snapshots
           /\ Cardinality(SameSecond(name)) = 1 => LastTaken(name) = r
<1>1. r \in snapshots /\ r.name = name /\ \A x \in snapshots : x.name = name => x.at <= r.at
  BY DEF Latest
<1>2. \E last \in snapshots : last.name = name /\ \A x \in snapshots : x.name = name => x.id <= last.id
  BY <1>1 DEF SnapshotsInv, RowsInOrder
<1>3. PICK last : last = LastTaken(name)
  OBVIOUS
<1>4. last \in snapshots /\ last.name = name /\ \A x \in snapshots : x.name = name => x.id <= last.id
  BY <1>2, <1>3 DEF LastTaken
<1>5. r.at <= last.at /\ last.at <= r.at
  BY <1>1, <1>4 DEF SnapshotsInv, RowsInOrder
<1>6. r.at = last.at
  BY <1>1, <1>4, <1>5 DEF SnapshotsInv, SnapshotsTypeOK, SnapshotRow
<1>7. r \in SameSecond(name) /\ last \in SameSecond(name)
  BY <1>1, <1>3, <1>4, <1>6 DEF SameSecond
<1>8. IsFiniteSet(SameSecond(name))
  BY FS_Subset DEF SameSecond, SnapshotsInv, SnapshotsTypeOK
<1>9. Cardinality(SameSecond(name)) = 1 => \E x : SameSecond(name) = {x}
  BY <1>8, FS_Singleton
<1> QED
  BY <1>1, <1>3, <1>4, <1>7, <1>9 DEF SnapshotsInv, SnapshotsTypeOK

\* The fork reads the transcript of the directory.
LEMMA ForkReadKeeps ==
    ASSUME SnapshotsInv, NEW name \in Names, NEW n \in 0 .. MaxTurns, ForkRead(name, n)
    PROVE  SnapshotsInv'
<1>1. /\ forks' = forks + 1 /\ forks \in Nat /\ n \in Nat
      /\ UNCHANGED <<dir, running, transcript, newest, snapshots, branch, disturbed, second, turns, taken>>
  BY SnapshotAssumption DEF ForkRead, sourceVars, SnapshotsInv, SnapshotsTypeOK
<1>2. PICK r \in Latest(name) :
          /\ newest[r.dir] # Nothing
          /\ fork' = [row |-> r, turn |-> n, file |-> newest[r.dir],
                      lines |-> Append(FirstTurns(transcript[newest[r.dir]], n), <<"prompt", forks>>),
                      renamed |-> FALSE, meant |-> LastTaken(name),
                      clear |-> LastTaken(name).id \notin disturbed /\ Cardinality(SameSecond(name)) = 1]
  BY DEF ForkRead
<1>3. PICK meant \in snapshots : meant = LastTaken(name)
  BY <1>2, MeantFact
<1>4. PICK clear \in BOOLEAN : clear = (LastTaken(name).id \notin disturbed /\ Cardinality(SameSecond(name)) = 1)
  OBVIOUS
<1>5. PICK whole : whole = transcript[newest[r.dir]]
  OBVIOUS
<1>6. PICK lines : lines = Append(FirstTurns(whole, n), <<"prompt", forks>>)
  OBVIOUS
<1>7. fork' = [row |-> r, turn |-> n, file |-> newest[r.dir], lines |-> lines, renamed |-> FALSE,
               meant |-> meant, clear |-> clear]
  BY <1>2, <1>3, <1>4, <1>5, <1>6
<1>8. r \in SnapshotRow /\ meant \in SnapshotRow /\ r \in snapshots
  BY <1>2, <1>3, MeantFact DEF SnapshotsInv, SnapshotsTypeOK
<1>9. /\ newest[r.dir] \in Sessions /\ dir[newest[r.dir]] = r.dir /\ r.dir # Nothing
      /\ Seen(r.dir) = whole /\ whole \in Seq(Line)
  BY <1>2, <1>5, <1>8, SeenFact DEF SnapshotsInv, SnapshotsTypeOK, SnapshotRow
<1>10. <<"prompt", forks>> \in Line /\ <<"prompt", forks>>[1] = "prompt"
  BY <1>1 DEF Line
<1>11. lines \in Seq(Line)
  <2>1. Begins(whole, whole)
    BY <1>9 DEF Begins
  <2> QED
    BY <1>1, <1>6, <1>9, <1>10, <2>1, CutAgrees
<1>12. ASSUME clear PROVE BranchesFrom(fork')
  <2>1. meant = r /\ meant.id \notin disturbed
    BY <1>2, <1>3, <1>4, <1>12, MeantFact
  <2>2. Begins(meant.seen, whole) /\ meant.seen \in Seq(Line)
    BY <1>3, <1>8, <1>9, <2>1 DEF SnapshotsInv, SeenIsKept, SnapshotRow
  <2>5. PICK part \in Seq(Line), x \in Line : part = meant.seen /\ x = <<"prompt", forks>>
    BY <1>10, <2>2
  <2>3. BranchOf(part, lines, n)
    <3>1. lines = Append(FirstTurns(whole, n), x) /\ Begins(part, whole) /\ x[1] = "prompt"
      BY <1>6, <1>10, <2>2, <2>5
    <3> QED
      BY <1>1, <1>9, <2>5, <3>1, CutAgrees
  <2>4. fork'.lines = lines /\ fork'.turn = n /\ fork'.meant = meant
    BY <1>7
  <2> QED
    BY <2>3, <2>4, <2>5 DEF BranchesFrom
<1>13. ~clear => BranchesFrom(fork')
  BY <1>7 DEF BranchesFrom
<1>14. fork' \in Forking /\ fork'.file = newest[r.dir]
  BY <1>1, <1>7, <1>8, <1>9, <1>11 DEF Forking
<1>15. ForkSound'
  BY <1>1, <1>9, <1>12, <1>13, <1>14 DEF SnapshotsInv, ForkSound, BranchesFrom
<1>16. SnapshotsTypeOK'
  BY <1>1 DEF SnapshotsInv, SnapshotsTypeOK
<1>17. RowsInOrder' /\ SeenIsKept'
  BY <1>1 DEF SnapshotsInv, RowsInOrder, SeenIsKept, Seen, HasTranscript
<1> QED
  BY <1>15, <1>16, <1>17 DEF SnapshotsInv

-----------------------------------------------------------------------------
\* The invariant holds at first.
LEMMA SnapshotsInitInv == SnapshotsInit => SnapshotsInv
<1> SUFFICES ASSUME SnapshotsInit PROVE SnapshotsInv
  OBVIOUS
<1>1. PICK first \in Sessions, d \in Dirs :
          dir = [s \in Sessions |-> IF s = first THEN d ELSE Nothing] /\ running = {first}
  BY DEF SnapshotsInit
<1>2. d # Nothing
  BY SnapshotAssumption
<1>3. IsFiniteSet(snapshots) /\ snapshots = {}
  BY FS_EmptySet DEF SnapshotsInit
<1>4. SnapshotsTypeOK
  BY <1>1, <1>2, <1>3 DEF SnapshotsInit, SnapshotsTypeOK
<1>5. RowsInOrder /\ SeenIsKept /\ ForkSound
  BY <1>3 DEF SnapshotsInit, RowsInOrder, SeenIsKept, ForkSound
<1> QED
  BY <1>4, <1>5 DEF SnapshotsInv

\* Every step keeps it.
LEMMA SnapshotsNextInv == SnapshotsInv /\ [SnapshotsNext]_snapshotVars => SnapshotsInv'
<1> SUFFICES ASSUME SnapshotsInv, [SnapshotsNext]_snapshotVars PROVE SnapshotsInv'
  OBVIOUS
<1>1. ASSUME NEW s \in Sessions, ForkStart(s) PROVE SnapshotsInv'
  <2>1. fork.row.dir \in Dirs
    BY <1>1 DEF ForkStart, SnapshotsInv, ForkSound, Forking, SnapshotRow
  <2> QED
    BY <1>1, <2>1, RegisterKeeps DEF ForkStart
<1>2. ASSUME NEW s \in Sessions, NEW d \in Dirs, StartSession(s, d) PROVE SnapshotsInv'
  BY <1>2, RegisterKeeps DEF StartSession
<1>3. ASSUME NEW s \in Sessions, NEW name \in Names, Restore(name, s) PROVE SnapshotsInv'
  <2>1. PICK r \in Latest(name) : Register(s, r.dir)
    BY <1>3 DEF Restore
  <2>2. r.dir \in Dirs
    BY <2>1 DEF Latest, SnapshotsInv, SnapshotsTypeOK, SnapshotRow
  <2> QED
    BY <1>3, <2>1, <2>2, RegisterKeeps DEF Restore
<1> QED
  BY <1>1, <1>2, <1>3, TurnKeeps, TakeKeeps, DeleteKeeps, ForkReadKeeps, ForkRenameKeeps, QuietKeeps
     DEF SnapshotsNext

\* However sessions, snapshots, deletions and forks interleave, a fork starts
\* with the turns of the snapshot that was named, where nothing has come before it.
THEOREM BranchKeepsSnapshot == SnapshotsSpec => []BranchFaithful
<1>1. SnapshotsInv => BranchFaithful
  BY DEF SnapshotsInv, ForkSound, BranchesFrom, BranchOf, BranchFaithful
<1> QED
  BY <1>1, SnapshotsInitInv, SnapshotsNextInv, PTL DEF SnapshotsSpec
=============================================================================
