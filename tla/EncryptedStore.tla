--------------------------- MODULE EncryptedStore ---------------------------
(***************************************************************************)
(* The encrypted columns of the store and the keys they are sealed with:   *)
(* store/sqlite.go, store/rekey.go, `onibi system data rekey`              *)
(* (cli/store.go), the secret store (secrets/secrets.go), snapshots and    *)
(* the VAPID keys of Web Push (web/push.go).                               *)
(*                                                                         *)
(* A daemon reads the master key once and keeps it; the rekey command is   *)
(* another process.  A key is a number, a sealed column the number of its  *)
(* key.  Two processes that upgrade the tables of a release with plain     *)
(* columns at the same moment are not modelled.                            *)
(***************************************************************************)
EXTENDS Naturals, FiniteSets

CONSTANTS
    SessionIds,    \* web sessions
    NoRow, Plain, NoKey,
    MaxKeys,       \* bound: keys made
    MaxPushKeys,   \* bound: VAPID pairs made
    MaxKills       \* bound: commands that die half way

ASSUME StoreAssumption ==
    /\ {MaxKeys, MaxPushKeys, MaxKills} \subseteq Nat
    /\ {NoRow, Plain, NoKey} \cap Nat = {}
    /\ NoRow \notin [key : Nat \cup {Plain}, verifier : Nat \cup {NoKey}, revoked : BOOLEAN]

VARIABLES
    secret,     \* the master key in the secret store
    box,        \* the key in the memory of the daemon, or NoKey
    sealed,     \* the encrypted rows
    keysMade,   \* number of master keys made
    push,       \* VAPID: the pair in the secret store, the public key in kv (0: none)
    cmd,        \* the rekey command
    kills

storeVars == <<secret, box, sealed, keysMade, push, cmd, kills>>

Pairings == {<<"pairing_tokens", 1>>}
SessionRows == {"web_sessions"} \X SessionIds
Subscription == <<"push_subscriptions", 1>>
Snapshot == <<"snapshots", 1>>
Legacy == <<"kv", 1>>                  \* where a release before kept the VAPID pair
Others == {Subscription, Snapshot, Legacy}
Slots == Pairings \cup SessionRows \cup Others

\* Tables whose columns a release before had in plain.
PlainOnce == Pairings \cup SessionRows

There(s) == sealed[s] # NoRow
SealedRow(key) == [key |-> key, verifier |-> NoKey, revoked |-> FALSE]
NoCommand == [pc |-> "idle", old |-> NoKey, new |-> NoKey, box |-> NoKey, found |-> {},
              verified |-> {}, had |-> {}, result |-> "none", unsure |-> FALSE,
              under |-> NoKey, rows |-> {}]      \* history: the key of its last transaction, and the rows
-----------------------------------------------------------------------------
\* migrateEncryptedTables: plain rows are sealed with the key of whoever opens.
Upgraded(key) ==
    [s \in Slots |-> IF s \in PlainOnce /\ There(s) /\ sealed[s].key = Plain THEN [sealed[s] EXCEPT !.key = key] ELSE sealed[s]]

OpenStore ==
    /\ box = NoKey
    /\ box' = secret /\ sealed' = Upgraded(secret)
    /\ UNCHANGED <<secret, keysMade, push, cmd, kills>>

CloseStore ==
    /\ box # NoKey /\ box' = NoKey
    /\ UNCHANGED <<secret, sealed, keysMade, push, cmd, kills>>

\* PutPairingToken, PutWebSession and SnapshotSave insert, PutPushSubscription upserts.
Put ==
    \E s \in Slots \ {Legacy} :
        /\ box # NoKey /\ (~There(s) \/ s = Subscription)
        /\ sealed' = [sealed EXCEPT ![s] = SealedRow(box)]
        /\ UNCHANGED <<secret, box, keysMade, push, cmd, kills>>

\* Mutant: the verifier of a revoked session is written too.
SetVerifierAlways ==
    \E s \in SessionRows :
        /\ box # NoKey /\ There(s)
        /\ sealed' = [sealed EXCEPT ![s].verifier = box]
        /\ UNCHANGED <<secret, box, keysMade, push, cmd, kills>>

\* SetWebSessionKeyVerifier.
SetVerifier ==
    \E s \in SessionRows :
        /\ box # NoKey /\ There(s) /\ ~sealed[s].revoked
        /\ sealed' = [sealed EXCEPT ![s].verifier = box]
        /\ UNCHANGED <<secret, box, keysMade, push, cmd, kills>>

RevokeSession ==
    \E s \in SessionRows :
        /\ There(s) /\ ~sealed[s].revoked
        /\ sealed' = [sealed EXCEPT ![s].revoked = TRUE]
        /\ UNCHANGED <<secret, box, keysMade, push, cmd, kills>>

\* SnapshotDeleteByName, and DeletePushSubscription of an endpoint that is gone.
RemoveRow ==
    \E s \in {Subscription, Snapshot} :
        /\ box # NoKey /\ There(s)
        /\ sealed' = [sealed EXCEPT ![s] = NoRow]
        /\ UNCHANGED <<secret, box, keysMade, push, cmd, kills>>
-----------------------------------------------------------------------------
\* saveVAPIDKeys and syncVAPIDPublicKey, the second one reached or not.
SavePair(synced) ==
    push' = [made |-> push.made + 1, pair |-> push.made + 1,
             public |-> IF synced THEN push.made + 1 ELSE push.public]

\* rotateVAPIDKeysLocked up to its n-th write: the pair, the public key and the
\* legacy row, the subscriptions of the pair before.
Rotated(n) ==
    /\ push.made < MaxPushKeys                                         \* bound
    /\ SavePair(n >= 2)
    /\ sealed' = [s \in Slots |->
                   IF (n >= 2 /\ s = Legacy) \/ (n >= 3 /\ s = Subscription)
                   THEN NoRow ELSE sealed[s]]

HasPair == push.pair # 0
LegacyPair == There(Legacy) /\ sealed[Legacy].key = box

\* EnsureVAPIDKeys: the pair of the secret store, else the legacy row, which the
\* daemon's key has to open, else a new one.
EnsurePush ==
    /\ box # NoKey
    /\ \/ HasPair /\ push' = [push EXCEPT !.public = push.pair] /\ UNCHANGED sealed
       \/ /\ ~HasPair /\ LegacyPair
          /\ push' = [push EXCEPT !.pair = push.public]
          /\ sealed' = [sealed EXCEPT ![Legacy] = NoRow]
       \/ ~HasPair /\ ~There(Legacy) /\ Rotated(3)
    /\ UNCHANGED <<secret, box, keysMade, cmd, kills>>

\* RotateVAPIDKeys, a command of its own that may die between its writes.
RotatePush ==
    /\ \E n \in 1 .. 3 : Rotated(n)
    /\ UNCHANGED <<secret, box, keysMade, cmd, kills>>
-----------------------------------------------------------------------------
\* runStoreRekey opens the store with the key of the secret store and makes one.
BeginRekey ==
    /\ cmd.pc \in {"idle", "done"}
    /\ keysMade < MaxKeys /\ keysMade' = keysMade + 1                              \* bound
    /\ sealed' = Upgraded(secret)
    /\ cmd' = [NoCommand EXCEPT !.pc = "pairings", !.old = secret, !.new = keysMade', !.box = secret,
                                !.had = {s \in Slots : There(s)}]
    /\ UNCHANGED <<secret, box, push, kills>>

Opens(s, key) == There(s) => sealed[s].key = key /\ sealed[s].verifier \in {NoKey, key}

Rollback == cmd.box = cmd.new
Fail == [cmd EXCEPT !.pc = "done", !.result = IF Rollback THEN "stranded" ELSE "failed"]

\* rekeyPairingRows and rekeyWebSessionRows: two queries outside the transaction;
\* a row that does not open ends the command.
ReadPairings ==
    /\ cmd.pc = "pairings"
    /\ cmd' = IF \A s \in Pairings : Opens(s, cmd.box)
              THEN [cmd EXCEPT !.pc = "sessions", !.found = {s \in Pairings : There(s)}]
              ELSE Fail
    /\ UNCHANGED <<secret, box, sealed, keysMade, push, kills>>

ReadSessions ==
    /\ cmd.pc = "sessions"
    /\ cmd' = IF \A s \in SessionRows : Opens(s, cmd.box)
              THEN [cmd EXCEPT !.pc = "commit", !.found = @ \cup {s \in SessionRows : There(s)},
                               !.verified = {s \in SessionRows : There(s) /\ sealed[s].verifier # NoKey}]
              ELSE Fail
    /\ UNCHANGED <<secret, box, sealed, keysMade, push, kills>>

Resealed(s, key) ==
    [key |-> key,
     verifier |-> IF s \in cmd.verified THEN key ELSE NoKey,
     revoked |-> sealed[s].revoked \/ s \in SessionRows]

\* Rekey's transaction, of the rows that were read.
CommitRekey ==
    /\ cmd.pc = "commit"
    /\ LET key == IF Rollback THEN cmd.old ELSE cmd.new IN
         /\ sealed' = [s \in Slots |-> IF s \in cmd.found /\ There(s) THEN Resealed(s, key) ELSE sealed[s]]
         /\ cmd' = [cmd EXCEPT !.pc = IF Rollback THEN "done" ELSE "secret",
                              !.result = IF Rollback THEN "rolled back" ELSE @,
                              !.under = key, !.rows = @ \cup cmd.found]
    /\ UNCHANGED <<secret, box, keysMade, push, kills>>

\* Mutant: the database is left as it is when the key cannot be stored.
AfterRefusal == [cmd EXCEPT !.pc = "done", !.result = "rolled back"]

\* Rekey(oldKey), with a handle that now holds the new key.
RollBack == [cmd EXCEPT !.pc = "pairings", !.box = cmd.new]

\* SetStoreKey: written and read back; or refused; or written and not read back,
\* which the command takes for refused.
StoreSecret ==
    /\ cmd.pc = "secret"
    /\ \/ secret' = cmd.new /\ cmd' = [cmd EXCEPT !.pc = "done", !.result = "ok"]
       \/ UNCHANGED secret /\ cmd' = RollBack
       \/ secret' = cmd.new /\ cmd' = [RollBack EXCEPT !.unsure = TRUE]
    /\ UNCHANGED <<box, sealed, keysMade, push, kills>>

\* Killed after its transaction and before the key is stored, the rows stay with
\* a key nobody has.
KillRekey ==
    /\ cmd.pc \notin {"idle", "done"}
    /\ kills < MaxKills /\ kills' = kills + 1                          \* bound
    /\ cmd' = [cmd EXCEPT !.pc = "done", !.result = IF cmd.under = NoKey THEN "failed" ELSE "stranded"]
    /\ UNCHANGED <<secret, box, sealed, keysMade, push>>

StoreInit ==
    /\ secret = 0 /\ box = NoKey /\ keysMade = 0 /\ kills = 0 /\ cmd = NoCommand
    /\ sealed \in {[s \in Slots |-> NoRow], [s \in Slots |-> SealedRow(0)],
                 [s \in Slots |-> IF s \in PlainOnce THEN SealedRow(Plain) ELSE NoRow]}
    /\ push = IF There(Legacy) THEN [made |-> 1, pair |-> 0, public |-> 1]
                                    ELSE [made |-> 0, pair |-> 0, public |-> 0]

StoreNext ==
    \/ OpenStore \/ CloseStore \/ Put \/ SetVerifier \/ RevokeSession \/ RemoveRow
    \/ EnsurePush \/ RotatePush
    \/ BeginRekey \/ ReadPairings \/ ReadSessions \/ CommitRekey \/ StoreSecret \/ KillRekey

StoreSpec == StoreInit /\ [][StoreNext]_storeVars
-----------------------------------------------------------------------------
\* A rekey that has committed once has all rows it ever found under one key,
\* during the command and after it, however it ends and whatever the daemon does
\* to them meanwhile with the key it read before: never some rows under the old
\* key and some under the new.  All sessions among them are revoked and stay so.
\* Which key it is: the stored one where the command says it succeeded or rolled
\* back (unless the store took a key it could not read back), none where it
\* failed before its transaction; and the new one, which nobody has, where it was
\* killed between transaction and secret store, or could not roll back, for
\* instance because the daemon had made a pairing meanwhile: those rows are lost.
RekeyKeepsRows ==
    /\ cmd.under # NoKey =>
           \A s \in cmd.rows : There(s) /\ Opens(s, cmd.under) /\ (s \in SessionRows => sealed[s].revoked)
    /\ cmd.pc = "done" =>
           cmd.under = CASE cmd.result = "failed" -> NoKey
                         [] cmd.result = "stranded" -> cmd.new
                         [] OTHER -> IF cmd.unsure THEN cmd.old ELSE secret

\* docs/security.md: rekey re-seals encrypted rows.  Not so: the push
\* subscriptions, snapshots and encrypted values of kv keep the old key.
EncryptedRowsResealed ==
    (cmd.pc = "done" /\ cmd.result = "ok") => \A s \in cmd.had : Opens(s, secret)
=============================================================================
