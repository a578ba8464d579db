----------------------------- MODULE ConfigFile -----------------------------
(***************************************************************************)
(* config.yaml and the three commands that write it: `config set`,         *)
(* `config init` and `config migrate`.  A command reads the file once,     *)
(* prepares a whole new text, writes it to config.yaml.tmp and renames it; *)
(* migrate first keeps the old text beside it.  A command may be killed,   *)
(* or a write may fail, at any of these points; the owner also edits the   *)
(* file by hand.  One command runs at a time.                              *)
(***************************************************************************)
EXTENDS Naturals

CONSTANTS Keys,            \* configuration keys
          Overrides,       \* those of one chat service, which default to "inherit"
          NoConfig, CutShort, \* a file that is not there; one cut short
          Unset,           \* a key that a text does not mention
          MaxEdits, MaxCommands

VARIABLES config, tmp, backup,   \* the three files
          fileStep,              \* "idle", "backup", "write" or "rename"
          job,                   \* the text the command writes, the values it stands
                                 \* for, and whether it replaces what the owner wrote
          wanted,                \* what the commands and edits so far amount to
          written,               \* the text the owner, or init, wrote last
          edits, commands

fileVars == <<config, tmp, backup>>
configVars == <<fileVars, fileStep, job, wanted, written, edits, commands>>

\* within the limits, beyond them, not even of the key's type
Values == {"default", "other", "bad"}
Given == Values \cup {"nonsense"}

\* legacy: it has a voice, workspace or team section, which the v1 schema does not know
Texts == [legacy : BOOLEAN, values : [Keys -> Values \cup {Unset}]]

Defaults == [k \in Keys |-> "default"]

ASSUME ConfigAssumption ==
    /\ Overrides \subseteq Keys /\ Unset \notin Values
    /\ {NoConfig, CutShort} \cap Texts = {}

\* what Load makes of a text: its own values over the defaults
Effective(text) == [k \in Keys |-> IF text.values[k] = Unset THEN "default" ELSE text.values[k]]

\* Validate, for every way in and out
Valid(values) == \A k \in Keys : values[k] # "bad"

\* the decoder refuses what the schema does not know
Loads(text) == ~text.legacy /\ Valid(Effective(text))

\* every key is spelled out, an override only when it does not inherit
Marshal(values) ==
    [legacy |-> FALSE,
     values |-> [k \in Keys |-> IF k \in Overrides /\ values[k] = "default" THEN Unset ELSE values[k]]]

Current == IF config = NoConfig THEN Defaults ELSE Effective(config)

ConfigInit ==
    /\ config = NoConfig /\ tmp = NoConfig /\ backup = NoConfig
    /\ fileStep = "idle" /\ job = [text |-> Marshal(Defaults), values |-> Defaults, replaces |-> FALSE]
    /\ wanted = Defaults /\ written = Marshal(Defaults)
    /\ edits = 0 /\ commands = 0

-----------------------------------------------------------------------------
BeginCommand(first, text, values, replaces) ==
    /\ fileStep = "idle" /\ commands < MaxCommands
    /\ commands' = commands + 1
    /\ fileStep' = first /\ job' = [text |-> text, values |-> values, replaces |-> replaces]
    /\ UNCHANGED <<fileVars, wanted, written, edits>>

\* a value that does not parse, or does not validate, ends the command
SetKey(k, v) ==
    /\ config # NoConfig => Loads(config)
    /\ v # "nonsense"
    /\ LET values == [Current EXCEPT ![k] = v]
       IN  Valid(values) /\ BeginCommand("write", Marshal(values), values, FALSE)

\* over a file that is there only with --force
InitConfig == BeginCommand("write", Marshal(Defaults), Defaults, config # NoConfig)

\* the deprecated sections are cut out, the rest of the text stays and has to load
Cut(text) == [text EXCEPT !.legacy = FALSE]

Migrate ==
    /\ config # NoConfig /\ config.legacy /\ Loads(Cut(config))
    /\ backup = NoConfig
    /\ BeginCommand("backup", Cut(config), Effective(config), FALSE)

\* mutant: what is kept is the text without the deprecated sections
WriteBackupCut ==
    /\ fileStep = "backup" /\ fileStep' = "write"
    /\ backup' = job.text
    /\ UNCHANGED <<config, tmp, job, wanted, written, edits, commands>>

WriteBackup ==
    /\ fileStep = "backup" /\ fileStep' = "write"
    /\ backup' = config
    /\ UNCHANGED <<config, tmp, job, wanted, written, edits, commands>>

WriteTmp ==
    /\ fileStep = "write" /\ fileStep' = "rename"
    /\ tmp' = job.text
    /\ UNCHANGED <<config, backup, job, wanted, written, edits, commands>>

Rename ==
    /\ fileStep = "rename" /\ fileStep' = "idle"
    /\ config' = tmp /\ tmp' = NoConfig
    /\ wanted' = job.values
    /\ written' = IF job.replaces THEN job.text ELSE written
    /\ UNCHANGED <<backup, job, edits, commands>>

\* the process is killed, or the write fails
Interrupted ==
    /\ fileStep # "idle" /\ fileStep' = "idle"
    /\ backup' \in IF fileStep = "backup" THEN {backup, CutShort} ELSE {backup}
    /\ tmp' \in IF fileStep = "write" THEN {tmp, CutShort} ELSE {tmp}
    /\ UNCHANGED <<config, job, wanted, written, edits, commands>>

\* by hand: any text, valid or not
Edit ==
    /\ fileStep = "idle" /\ edits < MaxEdits /\ edits' = edits + 1
    /\ config' \in Texts
    /\ written' = config' /\ wanted' = Effective(config')
    /\ UNCHANGED <<tmp, backup, fileStep, job, commands>>

-----------------------------------------------------------------------------
ConfigNext ==
    \/ \E k \in Keys, v \in Given : SetKey(k, v)
    \/ InitConfig \/ Migrate
    \/ WriteBackup \/ WriteTmp \/ Rename \/ Interrupted \/ Edit

ConfigSpec == ConfigInit /\ [][ConfigNext]_configVars

(* No command, and none that is killed or fails at any of its writes, loses
   what the owner has configured: a file that loads means what the edits and
   commands so far amount to (Save spells out what Load filled in), and a text
   with sections that migrate cuts out is still whole, in config.yaml or in
   config.yaml.pre-v1, unless `init --force` replaced it. *)
ConfigKept ==
    /\ config # NoConfig /\ Loads(config) => Effective(config) = wanted
    /\ written.legacy => written \in {config, backup}
=============================================================================
