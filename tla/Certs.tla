------------------------------- MODULE Certs -------------------------------
(***************************************************************************)
(* What clipshare cert init, issue and export leave in the certificate     *)
(* directory when a command is cut short between two writes, and what the  *)
(* daemon makes of it when it loads its pair for TLS.                      *)
(*                                                                         *)
(* A certificate is the key it is for and the key that signed it.  Names,  *)
(* dates and addresses in it are left out.  One command runs at a time;    *)
(* the daemon reads while it does.  cert qr reads what export reads and    *)
(* writes nothing to the directory.                                        *)
(***************************************************************************)
EXTENDS FiniteSets, Naturals

CONSTANTS
    Names,         \* devices, by the base name of their files (CertFile)
    Server,        \* the one whose pair the daemon loads
    Ca,            \* the owner of ca.pem and ca.key
    Keys,          \* private keys
    Loaders,       \* the goroutines of the daemon that load the pair
    MaxFaults,     \* bound: commands cut short
    MaxDeletions,  \* bound: times the user deletes ca.pem
    Absent,        \* no file, no key
    Torn           \* a file that was truncated and not yet written

Owners == Names \cup {Ca}
Certificates == [key : Keys, signer : Keys]
Bundles == [cert : Certificates, key : Keys, ca : Certificates]

ASSUME CertsAssumption ==
    /\ Server \in Names /\ Ca \notin Names
    /\ {Absent, Torn} \cap (Keys \cup Certificates \cup Bundles) = {}
    /\ Absent # Torn
    /\ MaxFaults \in Nat /\ MaxDeletions \in Nat

VARIABLES
    cert,          \* each owner's certificate file
    key,           \* each owner's key file
    bundle,        \* each device's .p12 file
    pc,            \* the command: what it does next
    job,           \* what it writes: a pair or a bundle, and for whom
    used,          \* the keys generated so far
    done,          \* the owner whose pair the last command reported as written
    loader,        \* control state of each loader
    loaded,        \* the certificate, the key and the authority it read
    faults, deletions

directory == <<cert, key, bundle>>
command == <<pc, job, used, done>>
daemon == <<loader, loaded>>
vars == <<directory, command, daemon, faults, deletions>>

Readable(file) == file \notin {Absent, Torn}
Matches(o) == Readable(cert[o]) /\ Readable(key[o]) /\ cert[o].key = key[o]

TypeOK ==
    /\ cert \in [Owners -> Certificates \cup {Absent, Torn}]
    /\ key \in [Owners -> Keys \cup {Absent, Torn}]
    /\ bundle \in [Names -> Bundles \cup {Absent, Torn}]
    /\ pc \in {"idle", "openCert", "fillCert", "openKey", "fillKey", "openBundle", "fillBundle"}
    /\ pc \in {"openCert", "fillCert", "openKey", "fillKey"} =>
          job \in [owner : Owners, data : Certificates]
    /\ pc \in {"openBundle", "fillBundle"} => job \in [owner : Names, data : Bundles]
    /\ used \subseteq Keys
    /\ done \in Owners \cup {Absent}
    /\ loader \in [Loaders -> {"down", "cert", "key", "pool", "up", "failed"}]
    /\ loaded \in [Loaders -> [cert : Certificates \cup {Absent, Torn},
                               key : Keys \cup {Absent, Torn},
                               ca : Certificates \cup {Absent, Torn}]]
    /\ faults \in 0 .. MaxFaults /\ deletions \in 0 .. MaxDeletions

Init ==
    /\ cert = [o \in Owners |-> Absent]
    /\ key = [o \in Owners |-> Absent]
    /\ bundle = [n \in Names |-> Absent]
    /\ pc = "idle" /\ job = Absent /\ used = {} /\ done = Absent
    /\ loader = [l \in Loaders |-> "down"]
    /\ loaded = [l \in Loaders |-> [cert |-> Absent, key |-> Absent, ca |-> Absent]]
    /\ faults = 0 /\ deletions = 0

----------------------------------------------------------------------------
(* cert init and cert issue *)

\* NewKey, and a certificate for it.
Begin(o, k, signer) ==
    /\ pc = "idle"
    /\ k \in Keys \ used
    /\ used' = used \cup {k}
    /\ job' = [owner |-> o, data |-> [key |-> k, signer |-> signer]]
    /\ pc' = "openCert"
    /\ done' = Absent
    /\ UNCHANGED <<directory, daemon, faults, deletions>>

\* Fault: an authority that is there is replaced.
InitCAUnasked(k) == Begin(Ca, k, k)

\* certs.Init: any ca.pem, even an empty one, makes it refuse.
InitCA(k) ==
    /\ cert[Ca] = Absent
    /\ Begin(Ca, k, k)

\* Fault: the key is not compared with the certificate.
CanSignUnchecked == Readable(cert[Ca]) /\ Readable(key[Ca])

\* LoadCA, and the library's check that the key belongs to the certificate.
CanSign == Matches(Ca)

Issue(n, k) ==
    /\ CanSign
    /\ Begin(n, k, key[Ca])

\* writePEM: opening truncates, then the block is written.
OpenCert ==
    /\ pc = "openCert"
    /\ cert' = [cert EXCEPT ![job.owner] = Torn]
    /\ pc' = "fillCert"
    /\ UNCHANGED <<key, bundle, job, used, done, daemon, faults, deletions>>

FillCert ==
    /\ pc = "fillCert"
    /\ cert' = [cert EXCEPT ![job.owner] = job.data]
    /\ pc' = "openKey"
    /\ UNCHANGED <<key, bundle, job, used, done, daemon, faults, deletions>>

OpenKey ==
    /\ pc = "openKey"
    /\ key' = [key EXCEPT ![job.owner] = Torn]
    /\ pc' = "fillKey"
    /\ UNCHANGED <<cert, bundle, job, used, done, daemon, faults, deletions>>

FillKey ==
    /\ pc = "fillKey"
    /\ key' = [key EXCEPT ![job.owner] = job.data.key]
    /\ pc' = "idle"
    /\ done' = job.owner
    /\ UNCHANGED <<cert, bundle, job, used, daemon, faults, deletions>>

----------------------------------------------------------------------------
(* cert export *)

\* Fault: the files are copied without being parsed.
ExportUnparsed(n) ==
    /\ pc = "idle"
    /\ Absent \notin {cert[n], key[n], cert[Ca]}
    /\ job' = [owner |-> n, data |-> [cert |-> cert[n], key |-> key[n], ca |-> cert[Ca]]]
    /\ pc' = "openBundle"
    /\ done' = Absent
    /\ UNCHANGED <<directory, used, daemon, faults, deletions>>

\* loadDevice parses the three files and compares nothing; bundle.cert,
\* bundle.key and bundle.ca are what it read.
Export(n) ==
    /\ pc = "idle"
    /\ Readable(cert[n]) /\ Readable(key[n]) /\ Readable(cert[Ca])
    /\ job' = [owner |-> n, data |-> [cert |-> cert[n], key |-> key[n], ca |-> cert[Ca]]]
    /\ pc' = "openBundle"
    /\ done' = Absent
    /\ UNCHANGED <<directory, used, daemon, faults, deletions>>

OpenBundle ==
    /\ pc = "openBundle"
    /\ bundle' = [bundle EXCEPT ![job.owner] = Torn]
    /\ pc' = "fillBundle"
    /\ UNCHANGED <<cert, key, job, used, done, daemon, faults, deletions>>

FillBundle ==
    /\ pc = "fillBundle"
    /\ bundle' = [bundle EXCEPT ![job.owner] = job.data]
    /\ pc' = "idle"
    /\ UNCHANGED <<cert, key, job, used, done, daemon, faults, deletions>>

\* The command dies, or an operation on a file fails and it gives up.
CutShort ==
    /\ pc # "idle"
    /\ faults < MaxFaults
    /\ faults' = faults + 1
    /\ pc' = "idle"
    /\ UNCHANGED <<directory, job, used, done, daemon, deletions>>

\* The user does what Init asks for: "delete it to regenerate".
DeleteCa ==
    /\ pc = "idle"
    /\ cert[Ca] # Absent
    /\ deletions < MaxDeletions
    /\ deletions' = deletions + 1
    /\ cert' = [cert EXCEPT ![Ca] = Absent]
    /\ done' = Absent
    /\ UNCHANGED <<key, bundle, pc, job, used, daemon, faults>>

----------------------------------------------------------------------------
(* The daemon: tlsConfig and peerTLSConfig *)

\* The daemon starts; each loader reads the pair once.
Start(l) ==
    /\ loader[l] \in {"down", "up", "failed"}
    /\ loader' = [loader EXCEPT ![l] = "cert"]
    /\ loaded' = [loaded EXCEPT ![l] = [cert |-> Absent, key |-> Absent, ca |-> Absent]]
    /\ UNCHANGED <<directory, command, faults, deletions>>

LoadCert(l) ==
    /\ loader[l] = "cert"
    /\ loaded' = [loaded EXCEPT ![l].cert = cert[Server]]
    /\ loader' = [loader EXCEPT ![l] = IF cert[Server] = Absent THEN "failed" ELSE "key"]
    /\ UNCHANGED <<directory, command, faults, deletions>>

\* LoadX509KeyPair parses both and compares them.
LoadKey(l) ==
    /\ loader[l] = "key"
    /\ loaded' = [loaded EXCEPT ![l].key = key[Server]]
    /\ loader' = [loader EXCEPT ![l] =
          IF Readable(loaded[l].cert) /\ Readable(key[Server])
                /\ loaded[l].cert.key = key[Server]
          THEN "pool" ELSE "failed"]
    /\ UNCHANGED <<directory, command, faults, deletions>>

\* The authority the daemon will verify its peers against.
LoadPool(l) ==
    /\ loader[l] = "pool"
    /\ loaded' = [loaded EXCEPT ![l].ca = cert[Ca]]
    /\ loader' = [loader EXCEPT ![l] = IF Readable(cert[Ca]) THEN "up" ELSE "failed"]
    /\ UNCHANGED <<directory, command, faults, deletions>>

----------------------------------------------------------------------------
Write == OpenCert \/ FillCert \/ OpenKey \/ FillKey \/ OpenBundle \/ FillBundle
Run == \E k \in Keys : InitCA(k) \/ \E n \in Names : Issue(n, k)
Load(l) == Start(l) \/ LoadCert(l) \/ LoadKey(l) \/ LoadPool(l)

Next == \/ Run \/ Write \/ CutShort \/ DeleteCa
        \/ \E n \in Names : Export(n)
        \/ \E l \in Loaders : Load(l)

Spec == Init /\ [][Next]_vars

----------------------------------------------------------------------------
(* Properties *)

\* As long as the user deletes nothing, a daemon that is up trusts what it
\* serves and every certificate in the directory, those issued after it
\* started included.  It reads certificate, key and authority one after the
\* other while commands rewrite them, and reads them once: whatever it has
\* read must not grow stale (tls.go:14-39, certs.go:47-56, 126-133).
DaemonTrustsDevices ==
    deletions = 0 =>
        \A l \in Loaders : loader[l] = "up" =>
            /\ loaded[l].cert.signer = loaded[l].ca.key
            /\ \A n \in Names : Readable(cert[n]) => cert[n].signer = loaded[l].ca.key

\* A command that reports success has left a whole pair, whatever earlier
\* commands left when they were cut short; a device's pair is signed by the
\* authority in the directory (certs.go:75-82, 122-133).
ReportedIsWhole ==
    done # Absent => /\ Matches(done) /\ Matches(Ca)
                     /\ cert[done].signer = cert[Ca].key

\* As long as the user deletes nothing, every certificate in the directory is
\* signed by the authority in it: no command replaces an authority that
\* devices trust (certs.go:47-56).
LeavesVerify ==
    deletions = 0 =>
        \A n \in Names : Readable(cert[n]) => /\ Readable(cert[Ca])
                                              /\ cert[n].signer = cert[Ca].key

\* Only a command cut short makes export bundle a key with somebody else's
\* certificate (parse.go:19-47, p12.go:13-37).
BundlesMatch ==
    faults = 0 => \A n \in Names : Readable(bundle[n]) => bundle[n].cert.key = bundle[n].key
=============================================================================
