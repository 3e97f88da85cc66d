-------------------------- MODULE Startup_proofs --------------------------
(***************************************************************************)
(* Proofs about Startup for any number of replicas and of requests writing *)
(* the audit log, any crashes and database outages: the log is one chain,  *)
(* and replicas that start together leave one seed and one certificate.    *)
(***************************************************************************)
EXTENDS Startup, TLAPS

\* The audit chain: the lock is held from the read to the commit, so what a
\* writer read is still the newest row when it appends.
LastHash == IF chain = <<>> THEN None ELSE HashEvent(chain[Len(chain)])
Locking == \A w \in Writers : writer[w].pc \in {"read", "insert"} <=> chainLock = w
Linking == \A w \in Writers : writer[w].pc = "insert" => writer[w].prev = LastHash
Writing == \A w \in Writers : writer[w].pc # "idle" => writer[w].event \in Events
Audit == Locking /\ Linking /\ Writing /\ ChainUnforked

\* The seed: one transaction has inserted the node, over an empty table; once a
\* removal is on record with nobody seeding, nobody will find the tables empty.
Seeding == \A m \in Managers : stage[m] = "seeding" <=> seeding = m
Unseeded == seeding # None => nodeRows = 0
StaysRemoved == removed => nodeRows = 0 /\ chain # <<>> /\ \A m \in Managers : ~ SeedOpen(m)
Seeds == Seeding /\ Unseeded /\ StaysRemoved /\ nodeRows <= 1

\* The certificate: its reader holds the lock, so what it read is stored still,
\* or was deleted.
Holding == \A m \in Managers : stage[m] = "cert" <=> certLock = m
Reading == \A m \in Managers : stage[m] = "cert" =>
  serves[m] = serverCert \/ (serverCert = None /\ serves[m] \in replaced)
Bare == \A m \in Managers : stage[m] \notin {"cert", "serving"} => serves[m] = None
Certificate == Holding /\ Reading /\ Bare /\ OneServerCert

IndInv == StartupTypeOK /\ Audit /\ Seeds /\ Certificate

-----------------------------------------------------------------------------
(* Steps that leave one of the three alone.                                *)

\* The audit chain as it was.
LEMMA AuditFrame ==
  ASSUME Audit, UNCHANGED <<chain, chainLock, writer>>
  PROVE  Audit'
BY DEF Audit, Locking, Linking, LastHash, Writing, ChainUnforked

\* The seed as it was: nobody comes to seed.
LEMMA SeedsFrame ==
  ASSUME Seeds, UNCHANGED <<nodeRows, seeding, removed>>, chain # <<>> => chain' # <<>>,
         \A m \in Managers : /\ stage'[m] = "seeding" <=> stage[m] = "seeding"
                             /\ stage'[m] = "seedWait" => stage[m] = "seedWait"
  PROVE  Seeds'
BY DEF Seeds, Seeding, Unseeded, StaysRemoved, SeedOpen

\* The certificate as it was: nobody comes to the certificate or leaves it.
LEMMA CertificateFrame ==
  ASSUME Certificate, UNCHANGED <<certLock, serverCert, serves, replaced>>,
         \A m \in Managers : stage'[m] = stage[m] \/ {stage'[m], stage[m]} \cap {"cert", "serving"} = {}
  PROVE  Certificate'
<1>1. \A m \in Managers : /\ stage'[m] = "cert" <=> stage[m] = "cert"
                          /\ stage'[m] = "serving" <=> stage[m] = "serving"
  OBVIOUS
<1> QED BY <1>1 DEF Certificate, Holding, Reading, Bare, OneServerCert

\* A process that is gone holds nothing.
LEMMA GoneStep ==
  ASSUME IndInv, NEW m \in Managers, Gone(m),
         UNCHANGED <<nodeRows, removed, chain, serverCert, replaced>>
  PROVE  /\ Seeds' /\ Certificate'
         /\ {migrating', seeding', certLock'} \subseteq Managers \cup {None}
         /\ stage' \in [Managers -> Stages] /\ waited' \in [Managers -> 0..Window]
         /\ serves' \in [Managers -> ServerCertificate \cup {None}]
<1> USE DEF IndInv, StartupTypeOK
<1>1. /\ stage' \in [Managers -> Stages] /\ stage'[m] = "down"
      /\ \A n \in Managers : n # m => stage'[n] = stage[n]
      /\ serves' \in [Managers -> ServerCertificate \cup {None}] /\ serves'[m] = None
      /\ \A n \in Managers : n # m => serves'[n] = serves[n]
      /\ waited' \in [Managers -> 0..Window]
  BY StartupAssumption DEF Gone, Stages
<1>2. /\ migrating' \in Managers \cup {None} /\ seeding' \in Managers \cup {None} /\ certLock' \in Managers \cup {None}
      /\ seeding' = IF seeding = m THEN None ELSE seeding
      /\ certLock' = IF certLock = m THEN None ELSE certLock
  BY DEF Gone
<1>3. None \notin Managers
  BY StartupAssumption
<1>4. Seeds'
  BY <1>1, <1>2, <1>3 DEF Seeds, Seeding, Unseeded, StaysRemoved, SeedOpen
<1>5. Certificate'
  BY <1>1, <1>2, <1>3 DEF Certificate, Holding, Reading, Bare, OneServerCert
<1> QED BY <1>1, <1>2, <1>4, <1>5

-----------------------------------------------------------------------------
(* Opening the store and seeding.                                          *)

\* A step of a starting replica that comes to no seed and no certificate.
LEMMA OnwardStep ==
  ASSUME IndInv, NEW m \in Managers, NEW to \in Stages, Onward(m, to),
         {stage[m], to} \cap {"seeding", "seedWait", "cert", "serving"} = {},
         UNCHANGED <<nodeRows, seeding, certLock, serverCert, serves, replaced, auditVars>>
  PROVE  stage' \in [Managers -> Stages] /\ Audit' /\ Seeds' /\ Certificate'
<1>1. /\ stage' \in [Managers -> Stages] /\ stage'[m] = to
      /\ \A n \in Managers : n # m => stage'[n] = stage[n]
      /\ UNCHANGED <<chain, chainLock, writer, removed>>
  BY DEF IndInv, StartupTypeOK, Onward, auditVars
<1>2. /\ stage[m] \notin {"seeding", "seedWait", "cert", "serving"}
      /\ to \notin {"seeding", "seedWait", "cert", "serving"}
  OBVIOUS
<1>3. Seeds'
  BY <1>1, <1>2, SeedsFrame DEF IndInv
<1>4. Certificate'
  <2>1. \A n \in Managers : stage'[n] = stage[n] \/ {stage'[n], stage[n]} \cap {"cert", "serving"} = {}
    BY <1>1, <1>2
  <2> QED BY <2>1, CertificateFrame DEF IndInv
<1> QED BY <1>1, <1>3, <1>4, AuditFrame DEF IndInv

\* Launching, retrying and migrating.
LEMMA OpenSteps ==
  ASSUME IndInv, NEW m \in Managers,
         Launch(m) \/ Retry(m) \/ Migrate(m) \/ MigrateCommit(m) \/ MigrateWoken(m)
  PROVE  IndInv'
<1>1. /\ UNCHANGED <<dbUp, day, stops, nodeRows, serverCert, replaced, chain, chainLock, writer, removed>>
      /\ migrated' \in BOOLEAN
  BY DEF IndInv, StartupTypeOK, Launch, Retry, Migrate, MigrateCommit, MigrateWoken, auditVars
<1> DEFINE typed == /\ {migrating', seeding', certLock'} \subseteq Managers \cup {None}
                    /\ stage' \in [Managers -> Stages] /\ waited' \in [Managers -> 0..Window]
                    /\ serves' \in [Managers -> ServerCertificate \cup {None}]
                    /\ Audit' /\ Seeds' /\ Certificate'
<1>2. ASSUME NEW to \in Stages, Onward(m, to), stage[m] \in {"down", "open", "migrating", "migrateWait"},
             to \in {"open", "migrating", "migrateWait", "seed"}, migrating' \in {m, migrating, None},
             UNCHANGED <<seeding, certLock, serves, waited>>
      PROVE  typed
  <2>1. {stage[m], to} \cap {"seeding", "seedWait", "cert", "serving"} = {}
    BY <1>2
  <2>2. stage' \in [Managers -> Stages] /\ Audit' /\ Seeds' /\ Certificate'
    BY <1>1, <1>2, <2>1, OnwardStep DEF auditVars
  <2>3. {migrating', seeding', certLock'} \subseteq Managers \cup {None}
    BY <1>2 DEF IndInv, StartupTypeOK
  <2> QED BY <1>2, <2>2, <2>3 DEF IndInv, StartupTypeOK
<1>3. ASSUME Gone(m) PROVE typed
  BY <1>1, <1>3, GoneStep, AuditFrame DEF IndInv
<1> HIDE DEF typed
<1>4. typed
  <2>1. CASE Launch(m)
    <3>1. /\ Onward(m, "open") /\ stage[m] = "down" /\ migrating' = migrating
          /\ UNCHANGED <<seeding, certLock, serves, waited>>
      BY <2>1 DEF Launch
    <3> QED BY <1>2, <3>1 DEF Stages
  <2>2. CASE Retry(m) /\ Gone(m)
    BY <1>3, <2>2
  <2>3. CASE Retry(m) /\ ~ Gone(m)
    <3>1. /\ waited[m] < Window /\ waited' = [waited EXCEPT ![m] = @ + 1]
          /\ UNCHANGED <<migrating, seeding, certLock, stage, serves>>
      BY <2>3 DEF Retry
    <3>2. waited' \in [Managers -> 0..Window]
      <4>1. waited[m] \in 0..Window /\ Window \in Nat /\ waited \in [Managers -> 0..Window]
        BY StartupAssumption DEF IndInv, StartupTypeOK
      <4>2. waited[m] + 1 \in 0..Window
        BY <3>1, <4>1
      <4> QED BY <3>1, <4>1, <4>2
    <3>3. Audit' /\ Seeds' /\ Certificate'
      BY <1>1, <3>1, AuditFrame, SeedsFrame, CertificateFrame DEF IndInv
    <3> QED BY <3>1, <3>2, <3>3 DEF typed, IndInv, StartupTypeOK
  <2>4. CASE Migrate(m)
    <3>1. /\ stage[m] = "open" /\ UNCHANGED <<seeding, certLock, serves, waited>>
          /\ migrating' \in {m, migrating, None}
          /\ Onward(m, "seed") \/ Onward(m, "migrating") \/ Onward(m, "migrateWait")
      BY <2>4 DEF Migrate
    <3> QED BY <1>2, <3>1 DEF Stages
  <2>5. CASE MigrateCommit(m)
    <3>1. /\ stage[m] = "migrating" /\ UNCHANGED <<seeding, certLock, serves, waited>>
          /\ migrating' \in {m, migrating, None} /\ Onward(m, "seed")
      BY <2>5 DEF MigrateCommit
    <3> QED BY <1>2, <3>1 DEF Stages
  <2>6. CASE MigrateWoken(m) /\ Gone(m)
    BY <1>3, <2>6
  <2>7. CASE MigrateWoken(m) /\ ~ Gone(m)
    <3>1. /\ stage[m] = "migrateWait" /\ UNCHANGED <<seeding, certLock, serves, waited>>
          /\ migrating' \in {m, migrating, None} /\ Onward(m, "migrating")
      BY <2>7 DEF MigrateWoken
    <3> QED BY <1>2, <3>1 DEF Stages
  <2> QED BY <2>1, <2>2, <2>3, <2>4, <2>5, <2>6, <2>7
<1> QED BY <1>1, <1>4 DEF typed, IndInv, StartupTypeOK

\* A seeder that is done goes on to its TLS material.
LEMMA SecureStep ==
  ASSUME StartupTypeOK, NEW m \in Managers, Secure(m)
  PROVE  /\ stage' \in [Managers -> Stages] /\ stage'[m] \in {"own", "lock"}
         /\ \A n \in Managers : n # m => stage'[n] = stage[n]
BY DEF StartupTypeOK, Secure, Onward, Stages

\* A seed is inserted by one transaction at a time, over tables found empty.
LEMMA SeedSteps ==
  ASSUME IndInv, NEW m \in Managers, Seed(m) \/ SeedCommit(m) \/ SeedWoken(m)
  PROVE  IndInv'
<1> USE DEF IndInv, StartupTypeOK
<1>1. /\ UNCHANGED <<dbUp, day, stops, migrated, serverCert, replaced, chain, chainLock, writer, removed>>
      /\ Audit'
  <2>1. UNCHANGED <<dbUp, day, stops, migrated, serverCert, replaced, chain, chainLock, writer, removed>>
    BY DEF Seed, SeedCommit, SeedWoken, auditVars
  <2> QED BY <2>1, AuditFrame
<1>2. CASE SeedWoken(m) /\ Gone(m)
  <2>1. nodeRows' = nodeRows
    BY <1>2 DEF SeedWoken
  <2>2. /\ Seeds' /\ Certificate'
        /\ {migrating', seeding', certLock'} \subseteq Managers \cup {None}
        /\ stage' \in [Managers -> Stages] /\ waited' \in [Managers -> 0..Window]
        /\ serves' \in [Managers -> ServerCertificate \cup {None}]
    BY <1>1, <1>2, <2>1, GoneStep
  <2> QED BY <1>1, <2>1, <2>2
<1>3. CASE ~ (SeedWoken(m) /\ Gone(m))
  <2>0. None \notin Managers
    BY StartupAssumption
  <2>1. /\ UNCHANGED <<migrating, certLock, serves, waited>>
        /\ stage[m] \in {"seed", "seeding", "seedWait"}
    BY <1>3 DEF Seed, SeedCommit, SeedWoken
  <2>2. /\ stage' \in [Managers -> Stages]
        /\ \A n \in Managers : n # m => stage'[n] = stage[n]
        /\ stage'[m] \in {"seeding", "seedWait", "own", "lock"}
        /\ seeding' \in Managers \cup {None} /\ nodeRows' \in Nat
        /\ \/ /\ stage'[m] \in {"own", "lock"} /\ stage[m] = "seed" /\ UNCHANGED <<seeding, nodeRows>>
           \/ /\ stage'[m] = "seedWait" /\ stage[m] = "seed" /\ UNCHANGED <<seeding, nodeRows>> /\ nodeRows = 0 /\ chain = <<>>
           \/ /\ stage'[m] = "seeding" /\ stage[m] = "seed" /\ seeding = None /\ seeding' = m /\ nodeRows' = nodeRows
              /\ nodeRows = 0 /\ chain = <<>>
           \/ /\ stage'[m] = "seeding" /\ stage[m] = "seedWait" /\ seeding = None /\ seeding' = m /\ nodeRows' = nodeRows
              /\ nodeRows = 0
           \/ /\ stage'[m] \in {"own", "lock"} /\ stage[m] = "seeding" /\ seeding' = None /\ nodeRows' = nodeRows + 1
    <3>1. CASE Seed(m)
      <4>1. CASE ~ AllTablesEmpty
        BY <3>1, <4>1, SecureStep DEF Seed
      <4>2. CASE AllTablesEmpty
        BY <3>1, <4>2 DEF Seed, Onward, Stages, AllTablesEmpty
      <4> QED BY <4>1, <4>2
    <3>2. CASE SeedCommit(m)
      BY <3>2, SecureStep DEF SeedCommit
    <3>3. CASE SeedWoken(m)
      <4>1. /\ stage[m] = "seedWait" /\ seeding = None /\ seeding' = m /\ nodeRows' = nodeRows
            /\ ~ nodeRows > 0 /\ stage' = [stage EXCEPT ![m] = "seeding"]
        BY <1>3, <3>3 DEF SeedWoken, Duplicate, Onward
      <4>2. nodeRows = 0
        BY <4>1
      <4>3. stage' \in [Managers -> Stages] /\ stage'[m] = "seeding" /\ \A n \in Managers : n # m => stage'[n] = stage[n]
        BY <4>1 DEF Stages
      <4> HIDE DEF IndInv
      <4> QED BY <4>1, <4>2, <4>3 DEF StartupTypeOK
    <3> QED BY <3>1, <3>2, <3>3
  <2>3. Seeds'
    <3>1. Seeding'
      BY <2>0, <2>1, <2>2 DEF Seeds, Seeding
    <3>2. Unseeded' /\ nodeRows' <= 1
      <4>1. stage[m] = "seeding" => nodeRows = 0
        BY <2>0 DEF Seeds, Seeding, Unseeded
      <4> QED BY <2>2, <4>1 DEF Seeds, Unseeded
    <3>3. StaysRemoved'
      BY <1>1, <2>1, <2>2 DEF Seeds, StaysRemoved, SeedOpen
    <3> QED BY <3>1, <3>2, <3>3 DEF Seeds
  <2>4. Certificate'
    <3>1. \A n \in Managers : stage'[n] = stage[n] \/ {stage'[n], stage[n]} \cap {"cert", "serving"} = {}
      BY <2>1, <2>2
    <3> QED BY <1>1, <2>1, <3>1, CertificateFrame
  <2> QED BY <1>1, <2>1, <2>2, <2>3, <2>4
<1> QED BY <1>2, <1>3

-----------------------------------------------------------------------------
(* The shared certificate.                                                 *)

\* What a step of the certificate leaves alone: the seed and the audit chain.
LEMMA CertificateOnly ==
  ASSUME IndInv, NEW m \in Managers, NEW to \in Stages, Onward(m, to),
         {stage[m], to} \cap {"seeding", "seedWait"} = {},
         UNCHANGED <<dbUp, day, stops, migrated, migrating, nodeRows, seeding, waited, auditVars>>,
         serverCert' \in ServerCertificate \cup {None}, replaced' \subseteq ServerCertificate,
         serves' \in [Managers -> ServerCertificate \cup {None}], certLock' \in Managers \cup {None},
         Certificate'
  PROVE  IndInv'
<1>1. /\ stage' \in [Managers -> Stages] /\ stage'[m] = to
      /\ \A n \in Managers : n # m => stage'[n] = stage[n]
      /\ UNCHANGED <<chain, chainLock, writer, removed>>
  BY DEF IndInv, StartupTypeOK, Onward, auditVars
<1>2. Audit'
  BY <1>1, AuditFrame DEF IndInv
<1>3. Seeds'
  <2>1. stage[m] \notin {"seeding", "seedWait"} /\ to \notin {"seeding", "seedWait"}
    OBVIOUS
  <2> QED BY <1>1, <2>1, SeedsFrame DEF IndInv
<1> QED BY <1>1, <1>2, <1>3 DEF IndInv, StartupTypeOK

\* The stage of one replica moves.
LEMMA StageMoves ==
  ASSUME StartupTypeOK, NEW m \in Managers, NEW to, Onward(m, to)
  PROVE  stage'[m] = to /\ \A n \in Managers : n # m => stage'[n] = stage[n]
BY DEF StartupTypeOK, Onward

\* The lock is taken and the certificate read.
LEMMA CertLockStep ==
  ASSUME IndInv, NEW m \in Managers, CertLock(m)
  PROVE  IndInv'
<1>1. /\ stage[m] = "lock" /\ certLock = None /\ certLock' = m /\ Onward(m, "cert")
      /\ UNCHANGED <<serverCert, replaced>>
      /\ UNCHANGED <<dbUp, day, stops, migrated, migrating, nodeRows, seeding, waited, auditVars>>
  BY DEF CertLock, LockFree
<1>2. /\ serves' \in [Managers -> ServerCertificate \cup {None}] /\ serves'[m] = serverCert
      /\ \A n \in Managers : n # m => serves'[n] = serves[n]
  BY DEF CertLock, IndInv, StartupTypeOK
<1>3. stage'[m] = "cert" /\ \A n \in Managers : n # m => stage'[n] = stage[n]
  BY <1>1, StageMoves DEF IndInv
<1>4. Certificate'
  <2>1. None \notin Managers
    BY StartupAssumption
  <2> QED BY <1>1, <1>2, <1>3, <2>1 DEF IndInv, Certificate, Holding, Reading, Bare, OneServerCert
<1>5. {stage[m], "cert"} \cap {"seeding", "seedWait"} = {}
  BY <1>1
<1> QED BY <1>1, <1>2, <1>4, <1>5, CertificateOnly DEF IndInv, StartupTypeOK, Stages

\* A certificate that isn't due: the one that is stored, or one deleted since.
LEMMA CertKeepStep ==
  ASSUME IndInv, NEW m \in Managers, CertKeep(m)
  PROVE  IndInv'
<1>1. /\ stage[m] = "cert" /\ certLock' = Unlocked(m) /\ Onward(m, "serving")
      /\ UNCHANGED <<serverCert, replaced, serves>>
      /\ UNCHANGED <<dbUp, day, stops, migrated, migrating, nodeRows, seeding, waited, auditVars>>
  BY DEF CertKeep
<1>2. certLock = m /\ certLock' = None
  BY <1>1 DEF IndInv, Certificate, Holding, Unlocked
<1>3. stage'[m] = "serving" /\ \A n \in Managers : n # m => stage'[n] = stage[n]
  BY <1>1, StageMoves DEF IndInv
<1>4. Certificate'
  <2>1. None \notin Managers
    BY StartupAssumption
  <2> QED BY <1>1, <1>2, <1>3, <2>1 DEF IndInv, Certificate, Holding, Reading, Bare, OneServerCert
<1>5. {stage[m], "serving"} \cap {"seeding", "seedWait"} = {}
  BY <1>1
<1> QED BY <1>1, <1>2, <1>4, <1>5, CertificateOnly DEF IndInv, StartupTypeOK, Stages

\* A certificate that is due is replaced: the replicas that serve it serve one
\* that was due when it was replaced.
LEMMA CertRenewStep ==
  ASSUME IndInv, NEW m \in Managers, CertRenew(m)
  PROVE  IndInv'
<1> DEFINE new == [by |-> m, until |-> day + CertLife]
<1>1. /\ stage[m] = "cert" /\ certLock' = Unlocked(m) /\ Onward(m, "serving")
      /\ serverCert' = new /\ serves' = [serves EXCEPT ![m] = new]
      /\ replaced' = IF serves[m] = None THEN replaced ELSE replaced \cup {serves[m]}
      /\ UNCHANGED <<dbUp, day, stops, migrated, migrating, nodeRows, seeding, waited, auditVars>>
  BY DEF CertRenew
<1>2. new \in ServerCertificate /\ new # None
  <2>1. day \in Nat /\ CertLife \in Nat
    BY StartupAssumption DEF IndInv, StartupTypeOK
  <2>2. day + CertLife \in Nat
    BY <2>1
  <2>3. new \in ServerCertificate
    BY <2>2 DEF ServerCertificate
  <2> QED BY <2>3, ServerCertAssumption
<1> HIDE DEF new
<1>3. certLock = m /\ certLock' = None
  BY <1>1 DEF IndInv, Certificate, Holding, Unlocked
<1>4. stage'[m] = "serving" /\ \A n \in Managers : n # m => stage'[n] = stage[n]
  BY <1>1, StageMoves DEF IndInv
<1>5. /\ serves' \in [Managers -> ServerCertificate \cup {None}] /\ serves'[m] = new
      /\ \A n \in Managers : n # m => serves'[n] = serves[n]
  BY <1>1, <1>2 DEF IndInv, StartupTypeOK
<1>6. replaced' \subseteq ServerCertificate
  BY <1>1 DEF IndInv, StartupTypeOK
<1>7. Certificate'
  <2>1. None \notin Managers
    BY StartupAssumption
  <2>2. Holding' /\ Reading' /\ Bare'
    BY <1>1, <1>3, <1>4, <1>5, <2>1 DEF IndInv, Certificate, Holding, Reading, Bare
  <2>3. ASSUME NEW n \in Managers, stage'[n] = "serving", serves'[n] # None
        PROVE  serves'[n] = serverCert' \/ serves'[n] \in replaced'
    <3>1. CASE n = m
      BY <1>1, <1>5, <3>1
    <3>2. CASE n # m
      <4>1. serves[n] = serverCert \/ serves[n] \in replaced
        BY <1>4, <1>5, <2>3, <3>2 DEF IndInv, Certificate, OneServerCert
      <4>2. serves[m] = serverCert \/ (serverCert = None /\ serves[m] \in replaced)
        BY <1>1 DEF IndInv, Certificate, Reading
      <4> QED BY <1>1, <1>5, <2>3, <3>2, <4>1, <4>2
    <3> QED BY <3>1, <3>2
  <2> QED BY <2>2, <2>3 DEF Certificate, OneServerCert
<1>8. {stage[m], "serving"} \cap {"seeding", "seedWait"} = {}
  BY <1>1
<1> QED BY <1>1, <1>2, <1>3, <1>5, <1>6, <1>7, <1>8, CertificateOnly DEF Stages

\* A replica with TLS material of its own deletes the stored certificate.
LEMMA CertDeleteStep ==
  ASSUME IndInv, NEW m \in Managers, CertDelete(m)
  PROVE  IndInv'
<1>1. /\ stage[m] = "own" /\ Onward(m, "serving") /\ serverCert' = None
      /\ replaced' = replaced \cup ({serverCert} \ {None})
      /\ UNCHANGED <<serves, certLock>>
      /\ UNCHANGED <<dbUp, day, stops, migrated, migrating, nodeRows, seeding, waited, auditVars>>
  BY DEF CertDelete
<1>2. stage'[m] = "serving" /\ \A n \in Managers : n # m => stage'[n] = stage[n]
  BY <1>1, StageMoves DEF IndInv
<1>3. serves[m] = None /\ replaced' \subseteq ServerCertificate
  BY <1>1 DEF IndInv, StartupTypeOK, Certificate, Bare
<1>4. Certificate'
  BY <1>1, <1>2, <1>3 DEF IndInv, Certificate, Holding, Reading, Bare, OneServerCert
<1>5. {stage[m], "serving"} \cap {"seeding", "seedWait"} = {}
  BY <1>1
<1> QED BY <1>1, <1>3, <1>4, <1>5, CertificateOnly DEF IndInv, StartupTypeOK, Stages

-----------------------------------------------------------------------------
(* The audit chain.                                                        *)

\* A step of a request that leaves the starting replicas alone.
LEMMA AuditOnly ==
  ASSUME IndInv, UNCHANGED <<dbUp, day, stops, startVars>>, removed' = removed, chain' = chain,
         chainLock' \in Writers \cup {None}, writer' \in [Writers -> Writer], Audit'
  PROVE  IndInv'
<1>1. UNCHANGED <<dbUp, day, stops, migrated, migrating, nodeRows, seeding, certLock, serverCert, serves, replaced,
                  stage, waited>>
  BY DEF startVars
<1>2. Seeds' /\ Certificate'
  BY <1>1, SeedsFrame, CertificateFrame DEF IndInv
<1> QED BY <1>1, <1>2 DEF IndInv, StartupTypeOK

\* A request acts; what it removes is there, and no seed is open over it.
LEMMA ActStep ==
  ASSUME IndInv, NEW w \in Writers, NEW m \in Managers, NEW e \in Events, NEW removal \in BOOLEAN,
         Act(w, m, e, removal)
  PROVE  IndInv'
<1> DEFINE row == [NoWriter EXCEPT !.pc = "lock", !.at = m, !.event = e, !.removal = removal]
<1>1. /\ writer[w] = NoWriter /\ writer' = [writer EXCEPT ![w] = row]
      /\ UNCHANGED <<dbUp, day, stops, migrated, migrating, seeding, certLock, serverCert, serves, replaced, stage,
                     waited, chain, chainLock, removed>>
      /\ removal => nodeRows > 0
      /\ nodeRows' = IF removal THEN nodeRows - 1 ELSE nodeRows
  BY DEF Act
<1>2. row \in Writer /\ row.pc = "lock" /\ row.event = e
  BY DEF NoWriter, Writer
<1> HIDE DEF row
<1>3. /\ writer' \in [Writers -> Writer] /\ writer'[w] = row
      /\ \A v \in Writers : v # w => writer'[v] = writer[v]
  BY <1>1, <1>2 DEF IndInv, StartupTypeOK
<1>4. nodeRows \in Nat /\ nodeRows <= 1
  BY DEF IndInv, StartupTypeOK, Seeds
<1>5. nodeRows' \in Nat /\ nodeRows' <= 1 /\ (nodeRows = 0 => nodeRows' = 0)
  BY <1>1, <1>4
<1>6. Audit'
  <2>1. writer[w].pc = "idle"
    BY <1>1 DEF NoWriter
  <2> QED BY <1>1, <1>2, <1>3, <2>1 DEF IndInv, Audit, Locking, Linking, LastHash, Writing, ChainUnforked
<1>7. Seeds'
  BY <1>1, <1>5 DEF IndInv, Seeds, Seeding, Unseeded, StaysRemoved, SeedOpen
<1>8. Certificate'
  BY <1>1, CertificateFrame DEF IndInv
<1> QED BY <1>1, <1>3, <1>5, <1>6, <1>7, <1>8 DEF IndInv, StartupTypeOK

\* The chain's lock is taken by one writer.
LEMMA AuditLockStep ==
  ASSUME IndInv, NEW w \in Writers, AuditLock(w)
  PROVE  IndInv'
<1> DEFINE row == [writer[w] EXCEPT !.pc = "read"]
<1>1. /\ writer[w].pc = "lock" /\ chainLock = None /\ chainLock' = w /\ writer' = [writer EXCEPT ![w] = row]
      /\ UNCHANGED <<dbUp, day, stops, startVars>> /\ removed' = removed /\ chain' = chain
  BY DEF AuditLock, ChainFree, Step
<1>2. writer \in [Writers -> Writer] /\ writer[w] \in Writer
  BY DEF IndInv, StartupTypeOK
<1>3. row \in Writer /\ row.pc = "read" /\ row.event = writer[w].event
  BY <1>2 DEF Writer
<1> HIDE DEF row
<1>4. /\ writer' \in [Writers -> Writer] /\ writer'[w] = row
      /\ \A v \in Writers : v # w => writer'[v] = writer[v]
  BY <1>1, <1>2, <1>3
<1>5. Audit'
  <2>1. None \notin Writers
    BY StartupAssumption
  <2> QED BY <1>1, <1>3, <1>4, <2>1 DEF IndInv, Audit, Locking, Linking, LastHash, Writing, ChainUnforked
<1> QED BY <1>1, <1>4, <1>5, AuditOnly

\* The newest row is read under the lock.
LEMMA AuditReadStep ==
  ASSUME IndInv, NEW w \in Writers, AuditRead(w)
  PROVE  IndInv'
<1> DEFINE row == [writer[w] EXCEPT !.pc = "insert", !.prev = LastHash]
<1>1. /\ writer[w].pc = "read" /\ writer' = [writer EXCEPT ![w] = row]
      /\ UNCHANGED <<dbUp, day, stops, startVars>> /\ removed' = removed /\ chain' = chain /\ chainLock' = chainLock
  BY DEF AuditRead, LastHash, IndInv, StartupTypeOK
<1>2. writer \in [Writers -> Writer] /\ writer[w] \in Writer
  BY DEF IndInv, StartupTypeOK
<1>3. LastHash \in Events \cup {None}
  <2> DEFINE Row == [event : Events, prev : Events \cup {None}]
  <2>1. chain \in Seq(Row)
    BY DEF IndInv, StartupTypeOK
  <2>2. CASE chain # <<>>
    <3> HIDE DEF Row
    <3>1. Len(chain) \in 1..Len(chain) /\ \A i \in 1..Len(chain) : chain[i] \in Row
      BY <2>1, <2>2
    <3>2. chain[Len(chain)] \in Row
      BY <3>1
    <3> QED BY <2>2, <3>2 DEF Row, LastHash, HashEvent
  <2> QED BY <2>2 DEF LastHash
<1>4. row \in Writer /\ row.pc = "insert" /\ row.event = writer[w].event /\ row.prev = LastHash
  BY <1>2, <1>3 DEF Writer
<1> HIDE DEF row
<1>5. /\ writer' \in [Writers -> Writer] /\ writer'[w] = row
      /\ \A v \in Writers : v # w => writer'[v] = writer[v]
  BY <1>1, <1>2, <1>4
<1>6. Audit'
  <2>1. LastHash' = LastHash
    BY <1>1 DEF LastHash
  <2>2. Locking' /\ Writing'
    BY <1>1, <1>4, <1>5 DEF IndInv, Audit, Locking, Writing
  <2>3. Linking'
    BY <1>1, <1>4, <1>5, <2>1 DEF IndInv, Audit, Linking
  <2>4. ChainUnforked'
    BY <1>1 DEF IndInv, Audit, ChainUnforked
  <2> QED BY <2>2, <2>3, <2>4 DEF Audit
<1>7. chainLock' \in Writers \cup {None}
  BY <1>1 DEF IndInv, StartupTypeOK
<1> QED BY <1>1, <1>5, <1>6, <1>7, AuditOnly

\* The row is appended to the one that was read: nobody appended in between.
LEMMA AuditInsertStep ==
  ASSUME IndInv, NEW w \in Writers, AuditInsert(w)
  PROVE  IndInv'
<1> DEFINE row == [event |-> writer[w].event, prev |-> writer[w].prev]
<1>1. /\ writer[w].pc = "insert" /\ chain' = Append(chain, row) /\ writer' = [writer EXCEPT ![w] = NoWriter]
      /\ chainLock' = IF chainLock = w THEN None ELSE chainLock
      /\ UNCHANGED <<dbUp, day, stops, migrated, migrating, nodeRows, seeding, certLock, serverCert, serves, replaced,
                     stage, waited>>
  BY DEF AuditInsert, startVars
<1>2. /\ writer \in [Writers -> Writer] /\ writer[w] \in Writer
      /\ chain \in Seq([event : Events, prev : Events \cup {None}])
  BY DEF IndInv, StartupTypeOK
<1>3. /\ row \in [event : Events, prev : Events \cup {None}] /\ row.prev = LastHash
  <2>1. writer[w].event \in Events /\ writer[w].prev = LastHash
    BY <1>1 DEF IndInv, Audit, Writing, Linking
  <2>2. writer[w].prev \in Events \cup {None}
    BY <1>2 DEF Writer
  <2> QED BY <2>1, <2>2
<1> HIDE DEF row
<1>4. /\ chain' \in Seq([event : Events, prev : Events \cup {None}]) /\ chain' # <<>>
      /\ Len(chain') = Len(chain) + 1 /\ chain'[Len(chain) + 1] = row
      /\ \A i \in 1..Len(chain) : chain'[i] = chain[i]
  BY <1>1, <1>2, <1>3
<1>5. NoWriter \in Writer /\ NoWriter.pc = "idle"
  BY DEF NoWriter, Writer
<1>6. /\ writer' \in [Writers -> Writer] /\ writer'[w] = NoWriter
      /\ \A v \in Writers : v # w => writer'[v] = writer[v]
  BY <1>1, <1>2, <1>5
<1>7. chainLock = w /\ chainLock' = None
  BY <1>1 DEF IndInv, Audit, Locking
<1>8. Audit'
  <2>1. \A v \in Writers : writer'[v].pc \notin {"read", "insert"}
    BY <1>5, <1>6, <1>7 DEF IndInv, Audit, Locking
  <2>2. Locking'
    BY <1>7, <2>1, StartupAssumption DEF Locking
  <2>3. Linking'
    BY <2>1 DEF Linking
  <2>4. Writing'
    BY <1>5, <1>6 DEF IndInv, Audit, Writing
  <2>5. ASSUME NEW i \in 1..Len(chain')
        PROVE  chain'[i].prev = IF i = 1 THEN None ELSE HashEvent(chain'[i - 1])
    <3>1. Len(chain) \in Nat
      BY <1>2
    <3>2. CASE i \in 1..Len(chain)
      <4>1. chain'[i] = chain[i] /\ (i # 1 => i - 1 \in 1..Len(chain) /\ chain'[i - 1] = chain[i - 1])
        BY <1>4, <3>1, <3>2
      <4>2. chain[i].prev = IF i = 1 THEN None ELSE HashEvent(chain[i - 1])
        BY <3>2 DEF IndInv, Audit, ChainUnforked
      <4> QED BY <4>1, <4>2 DEF HashEvent
    <3>3. CASE i = Len(chain) + 1
      <4>1. chain = <<>> <=> i = 1
        BY <1>2, <3>1, <3>3
      <4>2. i # 1 => i - 1 = Len(chain) /\ Len(chain) \in 1..Len(chain) /\ chain'[i - 1] = chain[Len(chain)]
        BY <1>4, <3>1, <3>3
      <4> QED BY <1>3, <1>4, <3>3, <4>1, <4>2 DEF LastHash, HashEvent
    <3> QED BY <1>4, <3>1, <3>2, <3>3
  <2>6. ChainUnforked'
    BY <2>5 DEF ChainUnforked, HashEvent
  <2> QED BY <2>2, <2>3, <2>4, <2>6 DEF Audit
<1>9. Seeds'
  <2>1. removed' => nodeRows = 0 /\ \A n \in Managers : ~ SeedOpen(n)
    BY DEF AuditInsert, IndInv, Seeds, StaysRemoved
  <2>2. StaysRemoved'
    BY <1>1, <1>4, <2>1 DEF StaysRemoved, SeedOpen
  <2> QED BY <1>1, <2>2 DEF IndInv, Seeds, Seeding, Unseeded
<1>10. Certificate'
  BY <1>1, CertificateFrame DEF IndInv
<1>11. removed' \in BOOLEAN
  BY DEF AuditInsert, IndInv, StartupTypeOK
<1> QED BY <1>1, <1>4, <1>6, <1>7, <1>8, <1>9, <1>10, <1>11 DEF IndInv, StartupTypeOK

-----------------------------------------------------------------------------
(* Failures, and time.                                                     *)

\* Requests that are lost leave the chain as it is and the lock to others.
LEMMA LostStep ==
  ASSUME IndInv, NEW ws, Lost(ws), chain' = chain
  PROVE  Audit' /\ chainLock' \in Writers \cup {None} /\ writer' \in [Writers -> Writer]
<1>1. writer \in [Writers -> Writer] /\ chainLock \in Writers \cup {None}
  BY DEF IndInv, StartupTypeOK
<1>2. NoWriter \in Writer /\ NoWriter.pc = "idle"
  BY DEF NoWriter, Writer
<1>3. \A w \in Writers : writer'[w] = IF w \in ws THEN NoWriter ELSE writer[w]
  BY DEF Lost
<1>4. writer' \in [Writers -> Writer]
  <2>1. \A w \in Writers : (IF w \in ws THEN NoWriter ELSE writer[w]) \in Writer
    BY <1>1, <1>2
  <2> QED BY <2>1 DEF Lost
<1>5. chainLock' = IF chainLock \in ws THEN None ELSE chainLock
  BY DEF Lost
<1>6. Locking' /\ Writing'
  BY <1>1, <1>2, <1>3, <1>5, StartupAssumption DEF IndInv, Audit, Locking, Writing
<1>7. Linking' /\ ChainUnforked'
  <2>1. LastHash' = LastHash
    BY DEF LastHash
  <2> QED BY <1>2, <1>3, <2>1 DEF IndInv, Audit, Linking, ChainUnforked
<1> QED BY <1>1, <1>4, <1>5, <1>6, <1>7 DEF Audit

\* A replica crashes, its requests with it.
LEMMA StopStep ==
  ASSUME IndInv, NEW m \in Managers, Stop(m)
  PROVE  IndInv'
<1>1. /\ stops < MaxStops /\ stops' = stops + 1 /\ Gone(m)
      /\ UNCHANGED <<dbUp, day, migrated, nodeRows, serverCert, replaced, chain, removed>>
  BY DEF Stop
<1>2. stops' \in 0..MaxStops
  <2>1. stops \in 0..MaxStops /\ MaxStops \in Nat
    BY StartupAssumption DEF IndInv, StartupTypeOK
  <2> QED BY <1>1, <2>1
<1>3. Audit' /\ chainLock' \in Writers \cup {None} /\ writer' \in [Writers -> Writer]
  <2> DEFINE ws == {w \in Writers : writer[w].at = m}
  <2>1. Lost(ws)
    BY DEF Stop
  <2> HIDE DEF ws
  <2> QED BY <1>1, <2>1, LostStep
<1>4. /\ Seeds' /\ Certificate'
      /\ {migrating', seeding', certLock'} \subseteq Managers \cup {None}
      /\ stage' \in [Managers -> Stages] /\ waited' \in [Managers -> 0..Window]
      /\ serves' \in [Managers -> ServerCertificate \cup {None}]
  BY <1>1, GoneStep
<1> QED BY <1>1, <1>2, <1>3, <1>4 DEF IndInv, StartupTypeOK

\* The database stops: open transactions and locks go, and replicas that were
\* starting exit or migrate again.
LEMMA DatabaseStopsStep ==
  ASSUME IndInv, NEW again \in SUBSET Managers, DatabaseStops(again)
  PROVE  IndInv'
<1>1. /\ stops < MaxStops /\ stops' = stops + 1 /\ dbUp' = FALSE /\ Lost(Writers)
      /\ migrating' = None /\ seeding' = None /\ certLock' = None
      /\ UNCHANGED <<day, migrated, nodeRows, serverCert, replaced, chain, removed>>
  BY DEF DatabaseStops
<1>2. stops' \in 0..MaxStops
  <2>1. stops \in 0..MaxStops /\ MaxStops \in Nat
    BY StartupAssumption DEF IndInv, StartupTypeOK
  <2> QED BY <1>1, <2>1
<1>3. Audit' /\ chainLock' \in Writers \cup {None} /\ writer' \in [Writers -> Writer]
  BY <1>1, LostStep
<1>4. /\ stage' \in [Managers -> Stages] /\ waited' \in [Managers -> 0..Window]
      /\ serves' \in [Managers -> ServerCertificate \cup {None}]
  <2>1. /\ stage \in [Managers -> Stages] /\ waited \in [Managers -> 0..Window]
        /\ serves \in [Managers -> ServerCertificate \cup {None}] /\ 0 \in 0..Window /\ {"down", "open"} \subseteq Stages
    BY StartupAssumption DEF IndInv, StartupTypeOK, Stages
  <2>2. \A m \in Managers : /\ (IF m \in again THEN "open" ELSE IF Starting(m) THEN "down" ELSE stage[m]) \in Stages
                            /\ (IF Starting(m) /\ m \notin again THEN 0 ELSE waited[m]) \in 0..Window
                            /\ (IF Starting(m) THEN None ELSE serves[m]) \in ServerCertificate \cup {None}
    BY <2>1
  <2> QED BY <2>2 DEF DatabaseStops
<1>5. \A m \in Managers : \/ stage'[m] \in {"down", "open"} /\ serves'[m] = None /\ stage[m] # "serving"
                          \/ /\ stage'[m] = stage[m] /\ serves'[m] = serves[m]
                             /\ stage[m] \in {"down", "open", "serving"}
  BY DEF DatabaseStops, Starting
<1>6. Seeds'
  BY <1>1, <1>5, StartupAssumption DEF IndInv, Seeds, Seeding, Unseeded, StaysRemoved, SeedOpen
<1>7. Certificate'
  BY <1>1, <1>5, StartupAssumption DEF IndInv, Certificate, Holding, Reading, Bare, OneServerCert
<1> QED BY <1>1, <1>2, <1>3, <1>4, <1>6, <1>7 DEF IndInv, StartupTypeOK

\* The database comes back, a day passes.
LEMMA WorldSteps ==
  ASSUME IndInv, DatabaseStarts \/ DayPasses
  PROVE  IndInv'
<1>1. /\ UNCHANGED <<stops, migrated, migrating, nodeRows, seeding, certLock, serverCert, serves, replaced, stage,
                     waited, chain, chainLock, writer, removed>>
      /\ dbUp' \in BOOLEAN
  BY DEF DatabaseStarts, DayPasses, startVars, auditVars, IndInv, StartupTypeOK
<1>2. day' \in 0..MaxDays
  <2>1. day \in 0..MaxDays /\ MaxDays \in Nat
    BY StartupAssumption DEF IndInv, StartupTypeOK
  <2>2. day' = day \/ (day < MaxDays /\ day' = day + 1)
    BY DEF DatabaseStarts, DayPasses
  <2> QED BY <2>1, <2>2
<1>3. Audit' /\ Seeds' /\ Certificate'
  BY <1>1, AuditFrame, SeedsFrame, CertificateFrame DEF IndInv
<1> QED BY <1>1, <1>2, <1>3 DEF IndInv, StartupTypeOK

-----------------------------------------------------------------------------
(* The theorems.                                                           *)

\* Every step keeps the inductive invariant.
LEMMA NextStep ==
  ASSUME IndInv, [StartupNext]_upVars
  PROVE  IndInv'
<1>1. ASSUME NEW m \in Managers, StartStep(m) \/ Stop(m) PROVE IndInv'
  BY <1>1, OpenSteps, SeedSteps, CertLockStep, CertKeepStep, CertRenewStep, CertDeleteStep, StopStep DEF StartStep
<1>2. ASSUME NEW w \in Writers, AuditLock(w) \/ AuditRead(w) \/ AuditInsert(w) PROVE IndInv'
  BY <1>2, AuditLockStep, AuditReadStep, AuditInsertStep
<1>3. ASSUME NEW w \in Writers, NEW m \in Managers, NEW e \in Events, NEW removal \in BOOLEAN,
             Act(w, m, e, removal)
      PROVE  IndInv'
  BY <1>3, ActStep
<1>4. CASE (\E again \in SUBSET Managers : DatabaseStops(again)) \/ DatabaseStarts \/ DayPasses
  BY <1>4, DatabaseStopsStep, WorldSteps
<1>5. CASE UNCHANGED upVars
  <2>1. UNCHANGED <<dbUp, day, stops, migrated, migrating, nodeRows, seeding, certLock, serverCert, serves, replaced,
                    stage, waited, chain, chainLock, writer, removed>>
    BY <1>5 DEF upVars, startVars, auditVars
  <2>2. Audit' /\ Seeds' /\ Certificate'
    BY <2>1, AuditFrame, SeedsFrame, CertificateFrame DEF IndInv
  <2> QED BY <2>1, <2>2 DEF IndInv, StartupTypeOK
<1> QED BY <1>1, <1>2, <1>3, <1>4, <1>5 DEF StartupNext

\* It holds of an empty database before any replica is started.
LEMMA Initially ==
  ASSUME StartupInit
  PROVE  IndInv
<1> USE DEF StartupInit
<1>1. NoWriter \in Writer /\ NoWriter.pc = "idle"
  BY DEF NoWriter, Writer
<1>2. StartupTypeOK
  <2>1. 0 \in 0..Window /\ 0 \in 0..MaxDays /\ 0 \in 0..MaxStops
    BY StartupAssumption
  <2>2. <<>> \in Seq([event : Events, prev : Events \cup {None}])
    OBVIOUS
  <2> QED BY <1>1, <2>1, <2>2 DEF StartupTypeOK, Stages
<1>3. Audit
  BY <1>1, StartupAssumption DEF Audit, Locking, Linking, LastHash, Writing, ChainUnforked
<1>4. Seeds
  BY StartupAssumption DEF Seeds, Seeding, Unseeded, StaysRemoved, SeedOpen
<1>5. Certificate
  BY StartupAssumption DEF Certificate, Holding, Reading, Bare, OneServerCert
<1> QED BY <1>2, <1>3, <1>4, <1>5 DEF IndInv

\* The inductive invariant holds in every reachable state.
LEMMA Invariant == StartupSpec => []IndInv
<1>1. StartupInit => IndInv
  BY Initially
<1>2. IndInv /\ [StartupNext]_upVars => IndInv'
  BY NextStep
<1> QED BY <1>1, <1>2, PTL DEF StartupSpec

\* Types: replicas starting, crashing and serving keep every variable in its
\* type (cmd/manager main, AddAuditEvent).
THEOREM StartupTypeCorrect == StartupSpec => []StartupTypeOK
<1>1. IndInv => StartupTypeOK
  BY DEF IndInv
<1> QED BY <1>1, Invariant, PTL

\* The audit log is one chain, whatever number of requests on whatever number
\* of replicas append to it and whichever of them are lost (AddAuditEvent).
THEOREM OneChain == StartupSpec => []ChainUnforked
<1>1. IndInv => ChainUnforked
  BY DEF IndInv, Audit
<1> QED BY <1>1, Invariant, PTL

\* However many replicas start together, crash and start again, the configured
\* node is seeded at most once and its removal stays, and the replicas that
\* share a certificate serve the stored one, or one replaced when it was due or
\* deleted (SeedIfEmpty, bootstrapServerCert).
THEOREM OneSeedOneCertificate == StartupSpec => []StartedAlike
<1>1. IndInv => StartedAlike
  BY DEF IndInv, Seeds, StaysRemoved, Certificate, StartedAlike, SeededOnce
<1> QED BY <1>1, Invariant, PTL
=============================================================================
