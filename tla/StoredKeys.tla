------------------------------ MODULE StoredKeys ------------------------------
(***************************************************************************)
(* The keys: the secret store holds them, the encrypted store uses them.   *)
(***************************************************************************)
EXTENDS EncryptedStore, SecretStore

(* A rekey leaves the rows it found under one key, in whatever way it ends,
   and a secret that was stored stays what it was.  Not kept, because the code
   does not keep them: the key of rows whose rekey died between its transaction
   and the secret store, and a secret two commands changed at once. *)
KeysKept == RekeyKeepsRows /\ SecretsKept
===============================================================================
