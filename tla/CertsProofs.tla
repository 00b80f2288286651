---------------------------- MODULE CertsProofs ----------------------------
(***************************************************************************)
(* Proofs about Certs, for any devices, keys and loaders and any number of *)
(* commands cut short.                                                     *)
(***************************************************************************)
EXTENDS Certs, TLAPS

USE CertsAssumption

PairSteps == {"openCert", "fillCert", "openKey", "fillKey"}
BundleSteps == {"openBundle", "fillBundle"}

----------------------------------------------------------------------------
(* Types *)

\* The directory, the command and the loaders keep their types (certs.go,
\* parse.go, tls.go).
THEOREM TypeCorrect == Spec => []TypeOK
<1>1. Init => TypeOK
  BY DEF Init, TypeOK, Owners
<1>2. TypeOK /\ [Next]_vars => TypeOK'
  <2> SUFFICES ASSUME TypeOK, [Next]_vars PROVE TypeOK'
    OBVIOUS
  <2>1. CASE UNCHANGED vars
    BY <2>1 DEF TypeOK, vars, directory, command, daemon
  <2>2. ASSUME NEW o \in Owners, NEW k \in Keys, NEW signer \in Keys, Begin(o, k, signer)
        PROVE TypeOK'
    <3>1. job' \in [owner : Owners, data : Certificates]
      BY <2>2 DEF Begin, Certificates
    <3> QED BY <2>2, <3>1 DEF TypeOK, Begin, directory, daemon
  <2>3. ASSUME NEW k \in Keys, InitCA(k) PROVE TypeOK'
    BY <2>2, <2>3 DEF InitCA, Owners
  <2>4. ASSUME NEW n \in Names, NEW k \in Keys, Issue(n, k) PROVE TypeOK'
    <3>1. key[Ca] \in Keys
      BY <2>4 DEF Issue, CanSign, Matches, Readable, TypeOK, Owners
    <3> QED BY <2>2, <2>4, <3>1 DEF Issue, Owners
  <2>5. CASE OpenCert
    BY <2>5 DEF OpenCert, TypeOK, daemon
  <2>6. CASE FillCert
    BY <2>6 DEF FillCert, TypeOK, daemon
  <2>7. CASE OpenKey
    BY <2>7 DEF OpenKey, TypeOK, daemon
  <2>8. CASE FillKey
    <3>1. job.owner \in Owners /\ job.data.key \in Keys
      BY <2>8 DEF FillKey, TypeOK, Certificates
    <3> QED BY <2>8, <3>1 DEF FillKey, TypeOK, daemon
  <2>9. ASSUME NEW n \in Names, Export(n) PROVE TypeOK'
    <3>1. cert[n] \in Certificates /\ key[n] \in Keys /\ cert[Ca] \in Certificates
      BY <2>9 DEF Export, Readable, TypeOK, Owners
    <3>2. job' \in [owner : Names, data : Bundles]
      BY <2>9, <3>1 DEF Export, Bundles
    <3> QED BY <2>9, <3>2 DEF Export, TypeOK, directory, daemon
  <2>10. CASE OpenBundle
    BY <2>10 DEF OpenBundle, TypeOK, daemon
  <2>11. CASE FillBundle
    BY <2>11 DEF FillBundle, TypeOK, daemon
  <2>12. CASE CutShort
    BY <2>12 DEF CutShort, TypeOK, directory, daemon
  <2>13. CASE DeleteCa
    <3>1. deletions' \in 0 .. MaxDeletions
      BY <2>13 DEF DeleteCa, TypeOK
    <3>2. cert' \in [Owners -> Certificates \cup {Absent, Torn}]
      BY <2>13 DEF DeleteCa, TypeOK
    <3> QED BY <2>13, <3>1, <3>2 DEF DeleteCa, TypeOK, daemon
  <2>14. ASSUME NEW l \in Loaders, Start(l) PROVE TypeOK'
    BY <2>14 DEF Start, TypeOK, directory, command
  <2>15. ASSUME NEW l \in Loaders, LoadCert(l) PROVE TypeOK'
    BY <2>15 DEF LoadCert, TypeOK, directory, command, Owners
  <2>16. ASSUME NEW l \in Loaders, LoadKey(l) PROVE TypeOK'
    BY <2>16 DEF LoadKey, TypeOK, directory, command, Owners
  <2>17. ASSUME NEW l \in Loaders, LoadPool(l) PROVE TypeOK'
    BY <2>17 DEF LoadPool, TypeOK, directory, command, Owners
  <2> QED
    BY <2>1, <2>3, <2>4, <2>5, <2>6, <2>7, <2>8, <2>9, <2>10, <2>11, <2>12, <2>13,
       <2>14, <2>15, <2>16, <2>17 DEF Next, Run, Write, Load
<1> QED BY <1>1, <1>2, PTL DEF Spec

----------------------------------------------------------------------------
(* The pairs in the directory *)

\* What the command has written of a pair, and who signs it.
WritesPair ==
    pc \in PairSteps =>
        /\ pc \in {"openKey", "fillKey"} => cert[job.owner] = job.data
        /\ job.owner = Ca => job.data.signer = job.data.key
        /\ job.owner # Ca => Matches(Ca) /\ job.data.signer = cert[Ca].key

\* A new authority takes the place of none.
ReplacesNone ==
    pc \in {"openCert", "fillCert"} /\ job.owner = Ca => ~Readable(cert[Ca])

\* Success is reported when the command is over.
ReportedAtTheEnd == pc # "idle" => done = Absent

CommandOK == TypeOK /\ WritesPair /\ ReplacesNone /\ ReportedAtTheEnd

\* Without a fault, every pair but the one being written is whole.
PairsMatch ==
    faults = 0 =>
        \A n \in Names : Readable(cert[n]) /\ Readable(key[n]) =>
            cert[n].key = key[n] \/ (pc \in {"openKey", "fillKey"} /\ job.owner = n)

BundleJobMatches == faults = 0 /\ pc \in BundleSteps => job.data.cert.key = job.data.key

DirectoryOK == /\ CommandOK /\ ReportedIsWhole /\ LeavesVerify
               /\ PairsMatch /\ BundleJobMatches /\ BundlesMatch

\* A certificate or a key is neither Absent nor Torn.
LEMMA DataReadable ==
    /\ \A x \in Certificates \cup Keys \cup Bundles : Readable(x)
    /\ \A x : Readable(x) /\ x \in Certificates \cup {Absent, Torn} => x \in Certificates
    /\ \A x : Readable(x) /\ x \in Keys \cup {Absent, Torn} => x \in Keys
    /\ ~Readable(Absent) /\ ~Readable(Torn)
BY DEF Readable

LEMMA CommandInductive ==
    CommandOK /\ TypeOK' /\ [Next]_vars =>
        WritesPair' /\ ReplacesNone' /\ ReportedAtTheEnd'
<1> SUFFICES ASSUME CommandOK, TypeOK', [Next]_vars
             PROVE WritesPair' /\ ReplacesNone' /\ ReportedAtTheEnd'
  OBVIOUS
<1> USE DEF CommandOK, WritesPair, ReplacesNone, ReportedAtTheEnd, PairSteps, Matches
<1>1. CASE UNCHANGED <<cert, key, pc, job, done>>
  BY <1>1 DEF Readable
<1>2. ASSUME NEW k \in Keys, InitCA(k) PROVE WritesPair' /\ ReplacesNone' /\ ReportedAtTheEnd'
  BY <1>2, DataReadable DEF InitCA, Begin, directory
<1>3. ASSUME NEW n \in Names, NEW k \in Keys, Issue(n, k)
      PROVE WritesPair' /\ ReplacesNone' /\ ReportedAtTheEnd'
  <2>1. n # Ca
    OBVIOUS
  <2> QED BY <1>3, <2>1 DEF Issue, CanSign, Begin, directory, Readable
<1>4. CASE OpenCert
  BY <1>4, DataReadable DEF OpenCert, TypeOK, Owners
<1>5. CASE FillCert
  BY <1>5, DataReadable DEF FillCert, TypeOK, Owners
<1>6. CASE OpenKey
  BY <1>6, DataReadable DEF OpenKey, TypeOK, Owners
<1>7. CASE FillKey
  BY <1>7 DEF FillKey, TypeOK
<1>8. ASSUME NEW n \in Names, Export(n) PROVE WritesPair' /\ ReplacesNone' /\ ReportedAtTheEnd'
  BY <1>8 DEF Export
<1>9. CASE OpenBundle
  BY <1>9 DEF OpenBundle
<1>10. CASE FillBundle
  BY <1>10 DEF FillBundle
<1>11. CASE CutShort
  BY <1>11 DEF CutShort
<1>12. CASE DeleteCa
  BY <1>12 DEF DeleteCa
<1>13. ASSUME NEW l \in Loaders, Load(l) PROVE UNCHANGED <<cert, key, pc, job, done>>
  BY <1>13 DEF Load, Start, LoadCert, LoadKey, LoadPool, directory, command
<1>14. UNCHANGED vars => UNCHANGED <<cert, key, pc, job, done>>
  BY DEF vars, directory, command
<1> QED
  BY <1>1, <1>2, <1>3, <1>4, <1>5, <1>6, <1>7, <1>8, <1>9, <1>10, <1>11, <1>12, <1>13, <1>14
     DEF Next, Run, Write

LEMMA DirectoryInductive ==
    DirectoryOK /\ CommandOK' /\ [Next]_vars => DirectoryOK'
<1> SUFFICES ASSUME DirectoryOK, CommandOK', [Next]_vars PROVE DirectoryOK'
  OBVIOUS
<1> DEFINE R == ReportedIsWhole /\ LeavesVerify
<1> DEFINE P == PairsMatch /\ BundleJobMatches /\ BundlesMatch
<1> SUFFICES R' /\ P'
  BY DEF DirectoryOK
<1>1. ASSUME UNCHANGED <<cert, key, bundle, pc, job, done, deletions, faults>> PROVE R' /\ P'
  BY <1>1 DEF DirectoryOK, ReportedIsWhole, LeavesVerify, PairsMatch, BundleJobMatches,
              BundlesMatch, Matches, Readable
<1>2. ASSUME NEW o \in Owners, NEW k \in Keys, NEW signer \in Keys, Begin(o, k, signer)
      PROVE R' /\ P'
  <2>1. R'
    BY <1>2 DEF DirectoryOK, Begin, directory, ReportedIsWhole, LeavesVerify, Readable
  <2>2. P'
    BY <1>2 DEF DirectoryOK, Begin, directory, PairsMatch, BundleJobMatches, BundlesMatch,
                Readable, BundleSteps
  <2> QED BY <2>1, <2>2
<1>3. ASSUME NEW k \in Keys, InitCA(k) PROVE R' /\ P'
  BY <1>2, <1>3 DEF InitCA, Owners
<1>4. ASSUME NEW n \in Names, NEW k \in Keys, Issue(n, k) PROVE R' /\ P'
  <2>1. key[Ca] \in Keys
    BY <1>4 DEF Issue, CanSign, Matches, Readable, DirectoryOK, CommandOK, TypeOK, Owners
  <2> QED BY <1>2, <1>4, <2>1 DEF Issue, Owners
<1>5. CASE OpenCert
  <2>1. job.owner \in Owners /\ cert \in [Owners -> Certificates \cup {Absent, Torn}]
    BY <1>5 DEF OpenCert, DirectoryOK, CommandOK, TypeOK
  <2>2. ReportedIsWhole'
    BY <1>5 DEF OpenCert, DirectoryOK, CommandOK, ReportedAtTheEnd, ReportedIsWhole
  <2>3. LeavesVerify'
    BY <1>5, <2>1, DataReadable
       DEF OpenCert, DirectoryOK, CommandOK, ReplacesNone, LeavesVerify, Owners
  <2>4. P'
    BY <1>5, <2>1, DataReadable DEF OpenCert, DirectoryOK, PairsMatch, BundleJobMatches,
       BundlesMatch, BundleSteps, Owners
  <2> QED BY <2>2, <2>3, <2>4
<1>6. CASE FillCert
  <2>1. job.owner \in Owners /\ job.data \in Certificates
        /\ cert \in [Owners -> Certificates \cup {Absent, Torn}]
    BY <1>6 DEF FillCert, DirectoryOK, CommandOK, TypeOK
  <2>2. ReportedIsWhole'
    BY <1>6 DEF FillCert, DirectoryOK, CommandOK, ReportedAtTheEnd, ReportedIsWhole
  <2>3. LeavesVerify'
    <3>1. CASE job.owner = Ca
      BY <1>6, <2>1, <3>1
         DEF FillCert, DirectoryOK, CommandOK, ReplacesNone, LeavesVerify, Owners
    <3>2. CASE job.owner # Ca
      BY <1>6, <2>1, <3>2, DataReadable DEF FillCert, DirectoryOK, CommandOK, WritesPair,
         PairSteps, Matches, LeavesVerify, Owners
    <3> QED BY <3>1, <3>2
  <2>4. P'
    BY <1>6, <2>1, DataReadable DEF FillCert, DirectoryOK, PairsMatch, BundleJobMatches,
       BundlesMatch, BundleSteps, Owners
  <2> QED BY <2>2, <2>3, <2>4
<1>7. CASE OpenKey
  <2>1. job.owner \in Owners /\ key \in [Owners -> Keys \cup {Absent, Torn}]
    BY <1>7 DEF OpenKey, DirectoryOK, CommandOK, TypeOK
  <2>2. R'
    BY <1>7 DEF OpenKey, DirectoryOK, CommandOK, ReportedAtTheEnd, ReportedIsWhole, LeavesVerify,
                Readable
  <2>3. P'
    BY <1>7, <2>1, DataReadable DEF OpenKey, DirectoryOK, PairsMatch, BundleJobMatches,
       BundlesMatch, BundleSteps, Owners
  <2> QED BY <2>2, <2>3
<1>8. CASE FillKey
  <2>1. job.owner \in Owners /\ job.data \in Certificates /\ job.data.key \in Keys
        /\ key \in [Owners -> Keys \cup {Absent, Torn}] /\ cert[job.owner] = job.data
    BY <1>8 DEF FillKey, DirectoryOK, CommandOK, TypeOK, WritesPair, PairSteps, Certificates
  <2>2. LeavesVerify'
    BY <1>8 DEF FillKey, DirectoryOK, LeavesVerify, Readable
  <2>3. Matches(job.owner)'
    BY <1>8, <2>1, DataReadable DEF FillKey, Matches
  <2>4. ReportedIsWhole'
    <3>1. CASE job.owner = Ca
      BY <1>8, <2>1, <2>3, <3>1
         DEF FillKey, DirectoryOK, CommandOK, WritesPair, PairSteps, ReportedIsWhole
    <3>2. CASE job.owner # Ca
      <4>1. Matches(Ca)' /\ cert[job.owner].signer = cert[Ca].key
        BY <1>8, <2>1, <3>2 DEF FillKey, DirectoryOK, CommandOK, WritesPair, PairSteps, Matches,
           Readable, Owners
      <4> QED BY <1>8, <2>3, <4>1 DEF FillKey, ReportedIsWhole
    <3> QED BY <3>1, <3>2
  <2>5. P'
    BY <1>8, <2>1, DataReadable DEF FillKey, DirectoryOK, PairsMatch, BundleJobMatches,
       BundlesMatch, BundleSteps, Owners
  <2> QED BY <2>2, <2>4, <2>5
<1>9. ASSUME NEW n \in Names, Export(n) PROVE R' /\ P'
  <2>1. R'
    BY <1>9 DEF Export, directory, DirectoryOK, ReportedIsWhole, LeavesVerify, Readable
  <2>2. PairsMatch' /\ BundlesMatch'
    BY <1>9 DEF Export, directory, DirectoryOK, PairsMatch, BundlesMatch, Readable
  <2>3. BundleJobMatches'
    BY <1>9 DEF Export, directory, DirectoryOK, PairsMatch, BundleJobMatches
  <2> QED BY <2>1, <2>2, <2>3
<1>10. CASE OpenBundle
  <2>1. R'
    BY <1>10 DEF OpenBundle, DirectoryOK, CommandOK, ReportedAtTheEnd, ReportedIsWhole,
       LeavesVerify, Readable
  <2>2. P'
    BY <1>10, DataReadable DEF OpenBundle, DirectoryOK, CommandOK, TypeOK, PairsMatch,
       BundleJobMatches, BundlesMatch, BundleSteps
  <2> QED BY <2>1, <2>2
<1>11. CASE FillBundle
  <2>1. R'
    BY <1>11 DEF FillBundle, DirectoryOK, CommandOK, ReportedAtTheEnd, ReportedIsWhole,
       LeavesVerify, Readable
  <2>2. P'
    BY <1>11, DataReadable DEF FillBundle, DirectoryOK, CommandOK, TypeOK, PairsMatch,
       BundleJobMatches, BundlesMatch, BundleSteps
  <2> QED BY <2>1, <2>2
<1>12. CASE CutShort
  <2>1. faults' # 0
    BY <1>12 DEF CutShort, DirectoryOK, CommandOK, TypeOK
  <2> QED BY <1>12, <2>1 DEF CutShort, directory, DirectoryOK, CommandOK, ReportedAtTheEnd,
      ReportedIsWhole, LeavesVerify, PairsMatch, BundleJobMatches, BundlesMatch, Readable
<1>13. CASE DeleteCa
  <2>1. deletions' # 0
    BY <1>13 DEF DeleteCa, DirectoryOK, CommandOK, TypeOK
  <2>2. \A n \in Names : cert'[n] = cert[n]
    BY <1>13 DEF DeleteCa, DirectoryOK, CommandOK, TypeOK, Owners
  <2> QED BY <1>13, <2>1, <2>2 DEF DeleteCa, DirectoryOK, ReportedIsWhole, LeavesVerify, PairsMatch,
      BundleJobMatches, BundlesMatch, BundleSteps, Readable
<1>14. ASSUME NEW l \in Loaders, Load(l)
       PROVE UNCHANGED <<cert, key, bundle, pc, job, done, deletions, faults>>
  BY <1>14 DEF Load, Start, LoadCert, LoadKey, LoadPool, directory, command
<1>15. UNCHANGED vars => UNCHANGED <<cert, key, bundle, pc, job, done, deletions, faults>>
  BY DEF vars, directory, command
<1> QED
  BY <1>1, <1>3, <1>4, <1>5, <1>6, <1>7, <1>8, <1>9, <1>10, <1>11, <1>12, <1>13, <1>14, <1>15
     DEF Next, Run, Write

LEMMA DirectoryInvariant == Spec => []DirectoryOK
<1>1. Init => DirectoryOK
  BY DEF Init, DirectoryOK, CommandOK, TypeOK, WritesPair, ReplacesNone, ReportedAtTheEnd,
         ReportedIsWhole, LeavesVerify, PairsMatch, BundleJobMatches, BundlesMatch, PairSteps,
         BundleSteps, Readable, Owners
<1>2. DirectoryOK /\ TypeOK' /\ [Next]_vars => DirectoryOK'
  BY CommandInductive, DirectoryInductive DEF DirectoryOK, CommandOK
<1> QED BY <1>1, <1>2, TypeCorrect, PTL DEF Spec

\* A command that reports success has left a whole pair under the authority
\* in the directory (certs.go:75-82, 122-133).
THEOREM SuccessIsWhole == Spec => []ReportedIsWhole
BY DirectoryInvariant, PTL DEF DirectoryOK

\* No command replaces an authority (certs.go:47-56).
THEOREM TrustIsKept == Spec => []LeavesVerify
BY DirectoryInvariant, PTL DEF DirectoryOK

----------------------------------------------------------------------------
(* What the daemon has read *)

\* Once whole, the authority stays until the user deletes it.
LEMMA AuthorityStays ==
    DirectoryOK /\ [Next]_vars /\ deletions' = 0 /\ Readable(cert[Ca]) =>
        deletions = 0 /\ cert'[Ca] = cert[Ca]
<1> SUFFICES ASSUME DirectoryOK, [Next]_vars, deletions' = 0, Readable(cert[Ca])
             PROVE deletions = 0 /\ cert'[Ca] = cert[Ca]
  OBVIOUS
<1> USE DEF DirectoryOK, CommandOK
<1>1. CASE UNCHANGED <<cert, deletions>>
  BY <1>1
<1>2. CASE OpenCert
  BY <1>2 DEF OpenCert, ReplacesNone, TypeOK, Owners
<1>3. CASE FillCert
  BY <1>3 DEF FillCert, ReplacesNone, TypeOK, Owners
<1>4. CASE DeleteCa
  BY <1>4 DEF DeleteCa, TypeOK
<1>5. Run \/ OpenKey \/ FillKey \/ OpenBundle \/ FillBundle \/ CutShort \/ UNCHANGED vars
        \/ (\E n \in Names : Export(n)) \/ (\E l \in Loaders : Load(l))
           => UNCHANGED <<cert, deletions>>
  BY DEF Run, InitCA, Issue, Begin, OpenKey, FillKey, OpenBundle, FillBundle, CutShort, Export,
         Load, Start, LoadCert, LoadKey, LoadPool, vars, directory
<1> QED BY <1>1, <1>2, <1>3, <1>4, <1>5 DEF Next, Write

\* A certificate that was read whole was signed by the authority that is
\* there; so is the authority that was read.
ReadTrusted ==
    deletions = 0 =>
        \A l \in Loaders :
            /\ loader[l] \in {"pool", "up"} => Readable(loaded[l].cert)
            /\ loader[l] = "up" => Readable(cert[Ca]) /\ loaded[l].ca = cert[Ca]
            /\ loader[l] \in {"key", "pool", "up"} /\ Readable(loaded[l].cert) =>
                  Readable(cert[Ca]) /\ loaded[l].cert.signer = cert[Ca].key

LEMMA ReadTrustedStep ==
    DirectoryOK /\ ReadTrusted /\ [Next]_vars => ReadTrusted'
<1> SUFFICES ASSUME DirectoryOK, ReadTrusted, [Next]_vars, deletions' = 0
             PROVE ReadTrusted'
  BY DEF ReadTrusted
<1>0. deletions = 0 /\ TypeOK /\ LeavesVerify
  <2>1. deletions = 0
    BY DEF Next, Run, InitCA, Issue, Begin, Write, OpenCert, FillCert, OpenKey, FillKey,
           OpenBundle, FillBundle, CutShort, DeleteCa, Export, Load, Start, LoadCert, LoadKey,
           LoadPool, vars, DirectoryOK, CommandOK, TypeOK
  <2> QED BY <2>1 DEF DirectoryOK, CommandOK
<1>1. CASE UNCHANGED <<loader, loaded>>
  <2>1. Readable(cert[Ca]) => cert'[Ca] = cert[Ca]
    BY AuthorityStays
  <2> QED BY <1>0, <1>1, <2>1 DEF ReadTrusted, Readable
<1>2. ASSUME NEW l \in Loaders, Start(l) PROVE ReadTrusted'
  BY <1>0, <1>2, DataReadable DEF Start, ReadTrusted, TypeOK, directory, Readable
<1>3. ASSUME NEW l \in Loaders, LoadCert(l) PROVE ReadTrusted'
  BY <1>0, <1>3 DEF LoadCert, ReadTrusted, LeavesVerify, TypeOK, directory, Readable
<1>4. ASSUME NEW l \in Loaders, LoadKey(l) PROVE ReadTrusted'
  BY <1>0, <1>4 DEF LoadKey, ReadTrusted, TypeOK, directory, Readable
<1>5. ASSUME NEW l \in Loaders, LoadPool(l) PROVE ReadTrusted'
  BY <1>0, <1>5 DEF LoadPool, ReadTrusted, TypeOK, directory, Readable
<1>6. Run \/ Write \/ CutShort \/ DeleteCa \/ (\E n \in Names : Export(n)) \/ UNCHANGED vars
         => UNCHANGED <<loader, loaded>>
  BY DEF Run, InitCA, Issue, Begin, Write, OpenCert, FillCert, OpenKey, FillKey, OpenBundle,
         FillBundle, CutShort, DeleteCa, Export, vars, daemon
<1> QED BY <1>1, <1>2, <1>3, <1>4, <1>5, <1>6 DEF Next, Load

\* While the user deletes nothing, a running daemon trusts what it serves and
\* every certificate in the directory, whatever was rewritten while it loaded
\* or after (tls.go:14-39, certs.go:47-56, 126-133).
THEOREM RunningDaemonTrusts == Spec => []DaemonTrustsDevices
<1>1. Init => ReadTrusted
  BY DEF Init, ReadTrusted
<1>2. DirectoryOK /\ ReadTrusted => DaemonTrustsDevices
  BY DEF ReadTrusted, DaemonTrustsDevices, DirectoryOK, LeavesVerify
<1> QED BY <1>1, <1>2, ReadTrustedStep, DirectoryInvariant, PTL DEF Spec

----------------------------------------------------------------------------
(* Bundles *)

\* Without a fault, what export bundles belongs together (parse.go:19-47).
THEOREM BundlesAreSound == Spec => []BundlesMatch
BY DirectoryInvariant, PTL DEF DirectoryOK
=============================================================================
