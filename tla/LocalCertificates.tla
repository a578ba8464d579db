-------------------------- MODULE LocalCertificates --------------------------
(***************************************************************************)
(* The certificate of the local HTTPS cockpit.  `onibi start` and the      *)
(* daemon load a local certificate authority and a server certificate from *)
(* five files, and make what is missing, torn, too old or does not cover   *)
(* the addresses of the machine.  Each file is written by a plain          *)
(* os.WriteFile: a command that is killed, or a write that fails, leaves   *)
(* the file as it was or torn, and the files after it unwritten.           *)
(***************************************************************************)
EXTENDS Naturals

CONSTANTS Addresses,      \* addresses the machine may have
          Absent, Torn,   \* a file that is not there; one that does not parse
          MaxKeyPairs,    \* key pairs generated: the names of keys
          MaxFaults       \* commands killed and writes that fail

VARIABLES caCert,     \* [key, old] or Absent or Torn
          caKey,      \* a key
          profile,    \* the authority in the mobileconfig
          serverCert, \* [key, signer, covers, old]
          serverKey,
          addresses,  \* what the machine has now
          step,       \* of the command that runs
          tries,      \* how often it has made the pair
          ca,         \* the authority it has loaded: [cert, key]
          made,       \* the pair it is writing
          answer,     \* of the last command: what it serves if it is "ok"
          faulted,    \* a fault hit this command
          pairs, faults

certFiles == <<caCert, caKey, profile, serverCert, serverKey>>
certVars == <<certFiles, addresses, step, tries, ca, made, answer, faulted, pairs, faults>>

NoPair == [cert |-> Absent, key |-> Absent]
Outcome(is, pair) == [is |-> is, cert |-> pair.cert, key |-> pair.key]
Whole(file) == file \notin {Absent, Torn}

CertInit ==
    /\ caCert = Absent /\ caKey = Absent /\ profile = Absent
    /\ serverCert = Absent /\ serverKey = Absent
    /\ addresses \in SUBSET Addresses
    /\ step = "idle" /\ tries = 0 /\ ca = NoPair /\ made = NoPair
    /\ answer = Outcome("none", NoPair) /\ faulted = FALSE
    /\ pairs = 0 /\ faults = 0

-----------------------------------------------------------------------------
(* One command: GenerateOrLoadCertForHosts *)

Goto(s) == step' = s /\ UNCHANGED <<addresses, faults>>

BeginCert ==
    /\ step = "idle" /\ Goto("load")
    /\ ca' = NoPair /\ made' = NoPair /\ tries' = 0
    /\ answer' = Outcome("none", NoPair) /\ faulted' = FALSE
    /\ UNCHANGED <<certFiles, pairs>>

\* a certificate authority with more than a year to go; that its key fits is not checked
UsableCA == Whole(caCert) /\ Whole(caKey) /\ ~caCert.old

LoadCA ==
    /\ step = "load" /\ UsableCA /\ Goto("profile")
    /\ ca' = [cert |-> caCert, key |-> caKey]
    /\ UNCHANGED <<certFiles, tries, made, answer, faulted, pairs>>

\* a key and its self-signed certificate
NewCA ==
    /\ \/ step = "load" /\ ~UsableCA
       \/ step = "retry ca"
    /\ pairs < MaxKeyPairs /\ pairs' = pairs + 1
    /\ Goto("ca cert") /\ tries' = tries + 1
    /\ made' = [cert |-> [key |-> pairs + 1, old |-> FALSE], key |-> pairs + 1]
    /\ UNCHANGED <<certFiles, ca, answer, faulted>>

WriteCACert ==
    /\ step = "ca cert" /\ Goto("ca key")
    /\ caCert' = made.cert
    /\ UNCHANGED <<caKey, profile, serverCert, serverKey, tries, ca, made, answer, faulted, pairs>>

WriteCAKey ==
    /\ step = "ca key" /\ Goto("ca check")
    /\ caKey' = made.key
    /\ UNCHANGED <<caCert, profile, serverCert, serverKey, tries, ca, made, answer, faulted, pairs>>

\* what is read back is what is used
ReadBackCA ==
    /\ step = "ca check" /\ Whole(caCert) /\ Whole(caKey) /\ Goto("profile")
    /\ ca' = [cert |-> caCert, key |-> caKey]
    /\ UNCHANGED <<certFiles, tries, made, answer, faulted, pairs>>

WriteProfile ==
    /\ step = "profile" /\ Goto("server") /\ tries' = 0
    /\ profile' = ca.cert.key
    /\ UNCHANGED <<caCert, caKey, serverCert, serverKey, ca, made, answer, faulted, pairs>>

\* certIPs: the certificate is good for every address the machine has by now
CoversAll(cert) == addresses \subseteq cert.covers

\* mutant: a certificate of the addresses the machine used to have will do
UsableServerElsewhere ==
    /\ Whole(serverCert) /\ serverKey = serverCert.key
    /\ ~serverCert.old /\ serverCert.signer = ca.cert.key

\* the pair fits, the authority has signed it, it is young enough and covers every address
UsableServer ==
    /\ Whole(serverCert) /\ serverKey = serverCert.key
    /\ ~serverCert.old /\ serverCert.signer = ca.cert.key
    /\ CoversAll(serverCert)

ServeLoaded ==
    /\ step = "server" /\ UsableServer /\ Goto("idle")
    /\ answer' = Outcome("ok", [cert |-> serverCert, key |-> serverKey])
    /\ UNCHANGED <<certFiles, tries, ca, made, faulted, pairs>>

\* x509.CreateCertificate refuses a key that is not the parent's
NewServer ==
    /\ \/ step = "server" /\ ~UsableServer
       \/ step = "retry server"
    /\ ca.key = ca.cert.key
    /\ pairs < MaxKeyPairs /\ pairs' = pairs + 1
    /\ Goto("server cert") /\ tries' = tries + 1
    /\ made' = [cert |-> [key |-> pairs + 1, signer |-> ca.key, covers |-> addresses, old |-> FALSE],
                key |-> pairs + 1]
    /\ UNCHANGED <<certFiles, ca, answer, faulted>>

\* both tries end like this: the server files are removed in between
NewServerFails ==
    /\ step = "server" /\ ~UsableServer /\ ca.key # ca.cert.key
    /\ Goto("idle") /\ answer' = Outcome("failed", NoPair)
    /\ serverCert' = Absent /\ serverKey' = Absent
    /\ UNCHANGED <<caCert, caKey, profile, tries, ca, made, faulted, pairs>>

WriteServerCert ==
    /\ step = "server cert" /\ Goto("server key")
    /\ serverCert' = made.cert
    /\ UNCHANGED <<caCert, caKey, profile, serverKey, tries, ca, made, answer, faulted, pairs>>

WriteServerKey ==
    /\ step = "server key" /\ Goto("server check")
    /\ serverKey' = made.key
    /\ UNCHANGED <<caCert, caKey, profile, serverCert, tries, ca, made, answer, faulted, pairs>>

ReadBackServer ==
    /\ step = "server check" /\ Whole(serverCert) /\ serverKey = serverCert.key
    /\ serverCert.signer = ca.cert.key
    /\ Goto("idle") /\ answer' = Outcome("ok", [cert |-> serverCert, key |-> serverKey])
    /\ UNCHANGED <<certFiles, tries, ca, made, faulted, pairs>>

-----------------------------------------------------------------------------
(* What can go wrong *)

\* the write that the command is at has torn its file, or has not begun
TornWrite ==
    LET torn(at, file) == IF step = at THEN {file, Torn} ELSE {file}
    IN  /\ caCert' \in torn("ca cert", caCert)
        /\ caKey' \in torn("ca key", caKey)
        /\ profile' \in torn("profile", profile)
        /\ serverCert' \in torn("server cert", serverCert)
        /\ serverKey' \in torn("server key", serverKey)

Killed ==
    /\ step # "idle" /\ faults < MaxFaults /\ faults' = faults + 1
    /\ step' = "idle" /\ answer' = Outcome("none", NoPair) /\ TornWrite
    /\ UNCHANGED <<addresses, tries, ca, made, faulted, pairs>>

\* a failed write of a pair is tried again once, with both files of the pair removed
WriteFails(files, retry) ==
    /\ step \in files /\ faults < MaxFaults /\ faults' = faults + 1
    /\ faulted' = TRUE
    /\ IF tries = 1
       THEN step' = retry /\ UNCHANGED answer
       ELSE step' = "idle" /\ answer' = Outcome("failed", NoPair)
    /\ UNCHANGED <<addresses, tries, ca, made, pairs>>

CAWriteFails ==
    /\ WriteFails({"ca cert", "ca key"}, "retry ca")
    /\ IF tries = 1
       THEN caCert' = Absent /\ caKey' = Absent /\ UNCHANGED <<profile, serverCert, serverKey>>
       ELSE TornWrite

ServerWriteFails ==
    /\ WriteFails({"server cert", "server key"}, "retry server")
    /\ IF tries = 1
       THEN serverCert' = Absent /\ serverKey' = Absent /\ UNCHANGED <<caCert, caKey, profile>>
       ELSE TornWrite

\* of a new authority it counts as a failed write of the pair
ProfileFails ==
    /\ step = "profile" /\ faults < MaxFaults /\ faults' = faults + 1
    /\ faulted' = TRUE
    /\ IF tries = 1
       THEN /\ step' = "retry ca" /\ caCert' = Absent /\ caKey' = Absent
            /\ UNCHANGED <<answer, profile, serverCert, serverKey>>
       ELSE step' = "idle" /\ answer' = Outcome("failed", NoPair) /\ TornWrite
    /\ UNCHANGED <<addresses, tries, ca, made, pairs>>

\* between two commands time passes and the machine moves
CAAges ==
    /\ step = "idle" /\ Whole(caCert) /\ caCert' = [caCert EXCEPT !.old = TRUE]
    /\ answer' = Outcome("none", NoPair)
    /\ UNCHANGED <<caKey, profile, serverCert, serverKey, addresses, step, tries, ca, made, faulted, pairs, faults>>

ServerAges ==
    /\ step = "idle" /\ Whole(serverCert) /\ serverCert' = [serverCert EXCEPT !.old = TRUE]
    /\ answer' = Outcome("none", NoPair)
    /\ UNCHANGED <<caCert, caKey, profile, serverKey, addresses, step, tries, ca, made, faulted, pairs, faults>>

Moved ==
    /\ step = "idle" /\ addresses' \in SUBSET Addresses
    /\ answer' = Outcome("none", NoPair)
    /\ UNCHANGED <<certFiles, step, tries, ca, made, faulted, pairs, faults>>

-----------------------------------------------------------------------------
CertNext ==
    \/ BeginCert \/ LoadCA \/ NewCA \/ WriteCACert \/ WriteCAKey \/ ReadBackCA \/ WriteProfile
    \/ ServeLoaded \/ NewServer \/ NewServerFails \/ WriteServerCert \/ WriteServerKey \/ ReadBackServer
    \/ Killed \/ CAWriteFails \/ ServerWriteFails \/ ProfileFails
    \/ CAAges \/ ServerAges \/ Moved

CertSpec == CertInit /\ [][CertNext]_certVars

(* What a command answers, whatever earlier commands left on the disk.  If it
   serves, the pair fits, the profile a phone installs holds the authority
   that signed it, and it covers the machine's addresses.  If it fails though
   no write of its own failed, a killed renewal has left the certificate of
   one authority beside the key of another (createCAOnce writes two files). *)
CertificateTrusted ==
    /\ answer.is = "ok" =>
         /\ answer.key = answer.cert.key
         /\ answer.cert.signer = profile /\ ~answer.cert.old
         /\ addresses \subseteq answer.cert.covers
    /\ answer.is = "failed" /\ ~faulted => Whole(caCert) /\ Whole(caKey) /\ caKey # caCert.key
=============================================================================
