SPECIFICATION StoreSpec
CONSTANTS
 SessionIds = {1,2}
 NoRow=NoRow
 Plain=Plain
 NoKey=NoKey
 MaxKeys=1
 MaxPushKeys=2
 MaxKills=1
INVARIANT EncryptedRowsResealed
CHECK_DEADLOCK FALSE
