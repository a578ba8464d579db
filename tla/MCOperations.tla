---------------------------- MODULE MCOperations ----------------------------
(* One run of systems that share no state: part says which of them moves.   *)
(* The others stay in one of their initial states.                          *)
EXTENDS DaemonRun, OwnerNotices, OwnerBridge, StoredKeys, LocalCertificates, ConfigFile, SnapshotBranches
CONSTANTS MaxEnvelopeBytes, MaxImageBytes, MaxItems

VARIABLES items, rest, carry, pending, painted, split
VARIABLE part

K == INSTANCE KittyTranscoder
kittyVars == <<items, rest, carry, pending, painted, split>>
mcVars == <<runVars, kittyVars, forwardVars, bridgeVars, storeVars, certVars,
            configVars, snapshotVars, secretVars, sendVars, part>>

\* A part that does not move starts in the one state that still names.
Starts(p, init, still) == (part # p => still) /\ init

MCInit ==
    /\ part \in {"daemon", "kitty", "forwarder", "bridge", "store", "certificates",
                 "config", "snapshots", "secrets", "sends"}
    /\ RunInit
    /\ Starts("kitty", K!KittyInit, items = <<CHOOSE i \in K!Item : TRUE>>)
    /\ Starts("forwarder", ForwardInit, /\ channel = "telegram" /\ owner = FALSE
                                        /\ rows = [a \in Ids |-> "none"])
    /\ Starts("bridge", BridgeInit, enrolled = {})
    /\ Starts("store", StoreInit, sealed = [s \in Slots |-> NoRow])
    /\ Starts("certificates", CertInit, addresses = {})
    /\ ConfigInit
    /\ LET first == CHOOSE s \in Sessions : TRUE     \* sessions, and directories, are interchangeable
       IN  dir = [s \in Sessions |-> IF s = first THEN CHOOSE d \in Dirs : TRUE ELSE Nothing]
    /\ SnapshotsInit
    /\ SecretInit
    /\ SendsInit

Moves(p, next, vars) == IF part = p THEN next ELSE UNCHANGED vars

MCNext ==
    /\ UNCHANGED part
    /\ Moves("daemon", RunNext, runVars)
    /\ Moves("kitty", K!ReadChunk, kittyVars)
    /\ Moves("forwarder", ForwardNext, forwardVars)
    /\ Moves("bridge", BridgeNext, bridgeVars)
    /\ Moves("store", StoreNext, storeVars)
    /\ Moves("certificates", CertNext, certVars)
    /\ Moves("config", ConfigNext, configVars)
    /\ Moves("snapshots", SnapshotsNext, snapshotVars)
    /\ Moves("secrets", SecretNext, secretVars)
    /\ Moves("sends", SendsNext, sendVars)

MCSpec == MCInit /\ [][MCNext]_mcVars
-----------------------------------------------------------------------------
\* KittyTranscoder.ImagesTranscoded: images arrive whole and in place however reads cut them.
ImagesTranscoded == part = "kitty" => K!ImagesTranscoded
=============================================================================
