----------------------------- MODULE SecretStore -----------------------------
(***************************************************************************)
(* Where the master key and the VAPID pair lie: secrets/secrets.go.  A     *)
(* command opens the keyring of the desktop, or, where none opens, a file  *)
(* of KEY="value" lines that every change reads, writes whole beside       *)
(* itself and renames.  Commands are processes of their own, the daemon    *)
(* one of them; nothing locks one out while another writes.                *)
(*                                                                         *)
(* A secret is a number.  How the two places hold it (base64, quoting) is  *)
(* left out, and so is a machine that stops: only processes are killed.    *)
(***************************************************************************)
EXTENDS Naturals, FiniteSets

CONSTANTS
    Commands,      \* processes
    StoreKeyName,  \* the secret that is made on demand and read back
    OtherName,     \* a secret that is only set, read and deleted
    Missing,       \* no such secret
    NoTmp,         \* no temporary file
    MaxSecrets,    \* bound: secrets made
    MaxFailures    \* bound: calls that fail, time out or are killed

KeyNames == {StoreKeyName, OtherName}
Backends == {"keyring", "dotenv"}
Nowhere == [n \in KeyNames |-> Missing]

ASSUME SecretAssumption == NoTmp \notin [KeyNames -> Nat \cup {Missing}]

VARIABLES
    held,          \* what each backend holds
    envTmp,        \* the contents of path + ".tmp"
    calls,         \* the call each command is in
    late,          \* keyring writes whose caller gave up waiting
    asTold,        \* history: what the last finished call of each backend stored
    unsure,        \* history: what calls that failed may have stored
    doubt,         \* history: the secrets two commands changed at once, until one alone sets them
    given,         \* history: the values ever set under a name
    secretsMade, failures

secretVars == <<held, envTmp, calls, late, asTold, unsure, doubt, given, secretsMade, failures>>

\* raced is history: another command was changing the same file or entry meanwhile.
Idle == [stage |-> "idle", on |-> "dotenv", name |-> StoreKeyName, value |-> Missing,
         readback |-> "none", entries |-> Nowhere, raced |-> FALSE]

\* A call is writing from the read it builds on until it has returned.
Writing(c) == calls[c].stage \notin {"idle", "get"}

\* What a change of a secret touches: its own entry, or the whole file.
Touched(be, n) == IF be = "dotenv" THEN KeyNames ELSE {n}
Rivals(c, be, n) ==
    {d \in Commands \ {c} : Writing(d) /\ calls[d].on = be /\ calls[d].name \in Touched(be, n)}

\* A command begins to change a secret.
BeginSet(c, call) ==
    LET rivals == Rivals(c, call.on, call.name)
    IN  /\ calls' = [d \in Commands |->
                        IF d = c THEN [call EXCEPT !.stage = "read", !.raced = rivals # {}]
                        ELSE [calls[d] EXCEPT !.raced = @ \/ d \in rivals]]
        /\ doubt' = [doubt EXCEPT ![call.on] =
                        IF rivals = {} THEN @ ELSE @ \cup Touched(call.on, call.name)]
        /\ given' = [given EXCEPT ![call.name] = @ \cup {call.value}]

Stage(c, stage) == calls' = [calls EXCEPT ![c].stage = stage]
ReturnCall(c) == calls' = [calls EXCEPT ![c] = Idle]
-----------------------------------------------------------------------------
\* Open: the keyring, or the file where it does not open or is not wanted.
Opened(be) == [Idle EXCEPT !.on = be]

\* GetOrCreateStoreKey, or SetStoreKey, Set or Delete with a value of the caller.
Get(c) ==
    /\ calls[c].stage = "idle" /\ secretsMade < MaxSecrets
    /\ \E be \in Backends :
           calls' = [calls EXCEPT ![c] = [Opened(be) EXCEPT !.stage = "get", !.readback = "any"]]
    /\ UNCHANGED <<held, envTmp, late, asTold, unsure, doubt, given, secretsMade, failures>>

Set(c) ==
    /\ calls[c].stage = "idle" /\ secretsMade < MaxSecrets                    \* bound
    /\ secretsMade' = secretsMade + 1
    /\ \E be \in Backends, n \in KeyNames, v \in {secretsMade + 1, Missing} :
           /\ v = Missing => n = OtherName
           /\ BeginSet(c, [Opened(be) EXCEPT !.name = n, !.value = v,
                            !.readback = IF n = StoreKeyName THEN "own" ELSE "none"])
    /\ UNCHANGED <<held, envTmp, late, asTold, unsure, failures>>

\* GetOrCreateStoreKey: the key that is there, or a new one.
GotKey(c) ==
    /\ calls[c].stage = "get"
    /\ IF held[calls[c].on][StoreKeyName] # Missing
       THEN ReturnCall(c) /\ UNCHANGED <<secretsMade, doubt, given>>
       ELSE /\ secretsMade < MaxSecrets /\ secretsMade' = secretsMade + 1                   \* bound
            /\ BeginSet(c, [calls[c] EXCEPT !.value = secretsMade + 1])
    /\ UNCHANGED <<held, envTmp, late, asTold, unsure, failures>>
-----------------------------------------------------------------------------
\* What a call that returns without an error has told its caller.
Report(c, value) ==
    LET be == calls[c].on
        n  == calls[c].name
    IN  /\ asTold' = [asTold EXCEPT ![be][n] = value]
        /\ unsure' = [unsure EXCEPT ![be][n] =
                         IF be = "keyring" THEN {x[2] : x \in {y \in late : y[1] = n}} ELSE {}]
        /\ doubt' = IF calls[c].raced THEN doubt ELSE [doubt EXCEPT ![be] = @ \ {n}]
        /\ ReturnCall(c)

Stored(c) ==
    IF calls[c].readback # "none" THEN Stage(c, "readback") /\ UNCHANGED <<asTold, unsure, doubt>>
    ELSE Report(c, calls[c].value)

\* setDotenv and delDotenv read the file; a secret that is not there needs no deletion.
ReadDotenv(c) ==
    /\ calls[c].stage = "read" /\ calls[c].on = "dotenv"
    /\ IF calls[c].value = Missing /\ held.dotenv[calls[c].name] = Missing
       THEN Report(c, Missing)
       ELSE /\ calls' = [calls EXCEPT ![c].stage = "open",
                             ![c].entries = [held.dotenv EXCEPT ![calls[c].name] = calls[c].value]]
            /\ UNCHANGED <<asTold, unsure, doubt>>
    /\ UNCHANGED <<held, envTmp, late, given, secretsMade, failures>>

\* Mutant: the file itself is opened for writing.
OpenInPlace(c) ==
    /\ calls[c].stage = "open" /\ Stage(c, "flush")
    /\ envTmp' = Nowhere /\ held' = [held EXCEPT !.dotenv = Nowhere]
    /\ UNCHANGED <<late, asTold, unsure, doubt, given, secretsMade, failures>>

\* writeDotenv: the temporary file, which has one name for all, is truncated.
OpenTmp(c) ==
    /\ calls[c].stage = "open" /\ Stage(c, "flush")
    /\ envTmp' = Nowhere
    /\ UNCHANGED <<held, late, asTold, unsure, doubt, given, secretsMade, failures>>

\* The lines go where the opened file is by now: beside the secrets, or, after
\* the rename of another command, over them.  Lines of the other may remain.
FlushTmp(c) ==
    LET over(old) == {[n \in KeyNames |-> IF n \in keep THEN old[n] ELSE calls[c].entries[n]] :
                          keep \in SUBSET {n \in KeyNames : old[n] # Missing}}
    IN  /\ calls[c].stage = "flush" /\ Stage(c, "rename")
        /\ IF envTmp = NoTmp
           THEN /\ \E new \in over(held.dotenv) : held' = [held EXCEPT !.dotenv = new]
                /\ UNCHANGED envTmp
           ELSE (\E new \in over(envTmp) : envTmp' = new) /\ UNCHANGED held
        /\ UNCHANGED <<late, asTold, unsure, doubt, given, secretsMade, failures>>

RenameTmp(c) ==
    /\ calls[c].stage = "rename"
    /\ IF envTmp = NoTmp THEN ReturnCall(c) /\ UNCHANGED <<held, envTmp, asTold, unsure, doubt>>    \* error
       ELSE held' = [held EXCEPT !.dotenv = envTmp] /\ envTmp' = NoTmp /\ Stored(c)
    /\ UNCHANGED <<late, given, secretsMade, failures>>
-----------------------------------------------------------------------------
\* ring.Set, and ring.Remove for a deletion.
SetKeyring(c) ==
    /\ calls[c].stage = "read" /\ calls[c].on = "keyring"
    /\ held' = [held EXCEPT !.keyring[calls[c].name] = calls[c].value]
    /\ Stored(c)
    /\ UNCHANGED <<envTmp, late, given, secretsMade, failures>>

\* A write the keyring did after its caller had gone, when it was unlocked.
LandLate(x) ==
    /\ x \in late /\ late' = late \ {x}
    /\ held' = [held EXCEPT !.keyring[x[1]] = x[2]]
    /\ UNCHANGED <<envTmp, calls, asTold, unsure, doubt, given, secretsMade, failures>>

\* GetOrCreateStoreKey takes whatever key it reads back; SetStoreKey its own only.
ReadBack(c) ==
    /\ calls[c].stage = "readback"
    /\ LET now == held[calls[c].on][calls[c].name]
       IN  IF now = calls[c].value \/ (calls[c].readback = "any" /\ now # Missing)
           THEN Report(c, now)
           ELSE ReturnCall(c) /\ UNCHANGED <<asTold, unsure, doubt>>               \* error
    /\ UNCHANGED <<held, envTmp, late, given, secretsMade, failures>>

\* A call fails, the caller's time runs out, or the process is killed; a write
\* that could not be flushed takes the temporary file away.  A keyring call goes
\* on by itself.
FailCall(c) ==
    /\ calls[c].stage # "idle"
    /\ failures < MaxFailures /\ failures' = failures + 1              \* bound
    /\ IF Writing(c) THEN unsure' = [unsure EXCEPT ![calls[c].on][calls[c].name] = @ \cup {calls[c].value}]
       ELSE UNCHANGED unsure
    /\ late' = IF calls[c].on = "keyring" /\ calls[c].stage = "read"
               THEN late \cup {<<calls[c].name, calls[c].value>>} ELSE late
    /\ envTmp' \in IF calls[c].stage = "flush" THEN {envTmp, NoTmp} ELSE {envTmp}
    /\ ReturnCall(c)
    /\ UNCHANGED <<held, asTold, doubt, given, secretsMade>>

SecretInit ==
    /\ held = [b \in Backends |-> Nowhere] /\ asTold = held
    /\ envTmp = NoTmp /\ calls = [c \in Commands |-> Idle] /\ late = {}
    /\ unsure = [b \in Backends |-> [n \in KeyNames |-> {}]]
    /\ doubt = [b \in Backends |-> {}] /\ given = [n \in KeyNames |-> {}]
    /\ secretsMade = 0 /\ failures = 0

SecretNext ==
    \/ \E c \in Commands : \/ Get(c) \/ Set(c) \/ GotKey(c)
                           \/ ReadDotenv(c) \/ OpenTmp(c) \/ FlushTmp(c) \/ RenameTmp(c)
                           \/ SetKeyring(c) \/ ReadBack(c) \/ FailCall(c)
    \/ \E x \in late : LandLate(x)

SecretSpec == SecretInit /\ [][SecretNext]_secretVars
-----------------------------------------------------------------------------
\* Through failures, kills and keyring calls that land late, each place holds the
\* secrets the last calls said they stored, the one a call is about and every
\* other, or what a call that did not finish was storing.  Except the secrets two
\* commands changed at once, every secret of the file when both changed it: the
\* later rename takes the file back to what its command had read, so a secret the
\* other was told it stored may be gone, or an old one back, until it is set
\* again.  Even then no secret is found under a name it was not set under.
SecretsInPlace == \A b \in Backends, n \in KeyNames : held[b][n] \in given[n] \cup {Missing}

SecretsAsTold ==
    \A b \in Backends, n \in KeyNames :
        \/ n \in doubt[b]
        \/ held[b][n] \in {asTold[b][n]} \cup unsure[b][n]
        \/ \E c \in Commands : Writing(c) /\ calls[c].on = b /\ calls[c].name = n
                               /\ calls[c].value = held[b][n]

SecretsKept == SecretsInPlace /\ SecretsAsTold
=============================================================================
