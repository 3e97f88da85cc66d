------------------------------ MODULE Startup ------------------------------
(***************************************************************************)
(* How replicas start against one database (cmd/manager: main, dbconnect,  *)
(* selfsigned; the migrations and the seed of internal/store/postgres) and *)
(* append to the audit chain once they serve (AddAuditEvent).              *)
(*                                                                         *)
(* Replicas start together, crash anywhere and are restarted by their      *)
(* supervisor; the database comes and goes.  A transaction of another      *)
(* replica is invisible until it commits, and an insert of the same key    *)
(* waits for it and then fails.                                            *)
(***************************************************************************)
EXTENDS Levels, Sequences, FiniteSets

CONSTANTS
  Managers,      \* replicas
  Configs,       \* configuration files they may be started with: see Validate
  Writers,       \* slots for requests that write an audit row
  Events,        \* audit events
  Window,        \* dbConnectWindow, in retries: how many fit in it
  RenewBefore, CertLife,   \* bootstrapCertRenewBefore and selfSignedValidity, in ticks
  MaxDays, MaxStops        \* bounds: the clock; crashes and database outages

ASSUME StartupAssumption ==
  /\ {Window, RenewBefore, MaxDays, MaxStops} \subseteq Nat
  /\ CertLife \in Nat /\ CertLife > RenewBefore
  /\ None \notin Managers \cup Writers \cup Events

VARIABLES
  dbUp, day, stops,
  migrated,    \* whether every migration is committed
  migrating,   \* the replica whose migration transaction has applied a step
  nodeRows,    \* committed rows of the configured node
  seeding,     \* the replica whose seed transaction has inserted it
  certLock,    \* the replica that holds bootstrapCertLock
  serverCert,  \* bootstrap_server_cert: the day it expires and who made it, or None
  serves,      \* the stored certificate each replica serves; None with TLS material of its own
  replaced,    \* history: certificates replaced when due, or deleted
  stage, waited,
  chain,       \* audit_events in order: [event, prev]
  chainLock,   \* the writer that holds the audit chain's lock
  writer,      \* requests writing an audit row
  removed      \* history: the configured node's removal was on record while nobody was seeding

startVars == <<migrated, migrating, nodeRows, seeding, certLock, serverCert, serves, replaced, stage, waited>>
auditVars == <<chain, chainLock, writer, removed>>
upVars == <<dbUp, day, stops, startVars, auditVars>>

Stages == {"down", "open", "migrating", "migrateWait", "seed", "seeding", "seedWait",
           "lock", "cert", "own", "serving"}
ServerCertificate == [by : Managers, until : Nat]
Writer == [pc : {"idle", "lock", "read", "insert"}, at : Managers \cup {None},
           event : Events \cup {None}, prev : Events \cup {None}, removal : BOOLEAN]
NoWriter == [pc |-> "idle", at |-> None, event |-> None, prev |-> None, removal |-> FALSE]

\* None stands for no stored certificate, so it is not one.
ASSUME ServerCertAssumption == None \notin ServerCertificate

\* Types.
StartupTypeOK ==
  /\ dbUp \in BOOLEAN /\ migrated \in BOOLEAN /\ removed \in BOOLEAN
  /\ day \in 0..MaxDays /\ stops \in 0..MaxStops /\ nodeRows \in Nat
  /\ {migrating, seeding, certLock} \subseteq Managers \cup {None}
  /\ serverCert \in ServerCertificate \cup {None} /\ replaced \subseteq ServerCertificate
  /\ serves \in [Managers -> ServerCertificate \cup {None}]
  /\ stage \in [Managers -> Stages] /\ waited \in [Managers -> 0..Window]
  /\ chainLock \in Writers \cup {None}
  /\ chain \in Seq([event : Events, prev : Events \cup {None}])
  /\ writer \in [Writers -> Writer]

StartupInit ==
  /\ dbUp = TRUE /\ migrated = FALSE /\ removed = FALSE
  /\ day = 0 /\ stops = 0 /\ nodeRows = 0
  /\ migrating = None /\ seeding = None /\ certLock = None
  /\ serverCert = None /\ replaced = {}
  /\ serves = [m \in Managers |-> None]
  /\ stage = [m \in Managers |-> "down"] /\ waited = [m \in Managers |-> 0]
  /\ chainLock = None /\ chain = <<>>
  /\ writer = [w \in Writers |-> NoWriter]

\* log.Fatalf, or a crash: open transactions roll back and session locks go.
Gone(m) ==
  /\ migrating' = IF migrating = m THEN None ELSE migrating
  /\ seeding' = IF seeding = m THEN None ELSE seeding
  /\ certLock' = IF certLock = m THEN None ELSE certLock
  /\ stage' = [stage EXCEPT ![m] = "down"]
  /\ waited' = [waited EXCEPT ![m] = 0]
  /\ serves' = [serves EXCEPT ![m] = None]

Onward(m, to) == stage' = [stage EXCEPT ![m] = to]

-----------------------------------------------------------------------------
(* Opening the store.                                                      *)

\* validateOperatorCA: the settings of an operator CA in a file need the file.
ValidateOperatorCA(c) == c.crlInFile \/ c.ocspInFile => c.caInFile

\* validateMCP: keys need certificates and the database.
ValidateMCP(c) == c.mcp => ~ c.bypass /\ c.database

\* validate: TLS material is given whole or left out.
Validate(c) ==
  /\ c.bypass \/ c.tls # "half"
  /\ c.nodesComplete /\ ValidateOperatorCA(c) /\ ValidateMCP(c)

\* A file that doesn't validate ends the process.  These replicas share a
\* database.
Loaded == {c \in Configs : Validate(c) /\ c.database /\ ~ c.bypass}

Launch(m) ==
  /\ stage[m] = "down" /\ Loaded # {}
  /\ Onward(m, "open")
  /\ UNCHANGED <<dbUp, day, stops, migrated, migrating, nodeRows, seeding, certLock, serverCert, serves,
                 replaced, waited, auditVars>>

\* openWithRetry: a database that isn't ready is tried again until the window
\* is used up, then the process exits.
Retry(m) ==
  /\ stage[m] = "open" /\ ~ dbUp
  /\ IF waited[m] < Window
     THEN waited' = [waited EXCEPT ![m] = @ + 1] /\ UNCHANGED <<migrating, seeding, certLock, stage, serves>>
     ELSE Gone(m)
  /\ UNCHANGED <<dbUp, day, stops, migrated, nodeRows, serverCert, replaced, auditVars>>

\* migrateSteps: nothing to do, or this replica's transaction applies the
\* steps, or it waits on a row another replica's transaction has inserted.
Migrate(m) ==
  /\ stage[m] = "open" /\ dbUp
  /\ IF migrated THEN Onward(m, "seed") /\ UNCHANGED migrating
     ELSE IF migrating = None THEN Onward(m, "migrating") /\ migrating' = m
     ELSE Onward(m, "migrateWait") /\ UNCHANGED migrating
  /\ UNCHANGED <<dbUp, day, stops, migrated, nodeRows, seeding, certLock, serverCert, serves, replaced, waited,
                 auditVars>>

\* All steps commit together.
MigrateCommit(m) ==
  /\ stage[m] = "migrating" /\ dbUp
  /\ migrated' = TRUE /\ migrating' = None
  /\ Onward(m, "seed")
  /\ UNCHANGED <<dbUp, day, stops, nodeRows, seeding, certLock, serverCert, serves, replaced, waited, auditVars>>

\* The other transaction ended: committed, the waiting insert is a duplicate
\* and this process exits; rolled back, this one goes on.
MigrateWoken(m) ==
  /\ stage[m] = "migrateWait" /\ dbUp /\ migrating = None
  /\ IF migrated THEN Gone(m)
     ELSE /\ migrating' = m /\ Onward(m, "migrating")
          /\ UNCHANGED <<seeding, certLock, waited, serves>>
  /\ UNCHANGED <<dbUp, day, stops, migrated, nodeRows, serverCert, replaced, auditVars>>

-----------------------------------------------------------------------------
(* Seeding the configured nodes.                                           *)

\* allTablesEmpty.
AllTablesEmpty == nodeRows = 0 /\ chain = <<>>

\* buildTLSConfig: a replica with TLS material of its own deletes the stored
\* certificate, one without shares it.
Secure(m) == \E c \in Loaded : Onward(m, IF c.tls = "own" THEN "own" ELSE "lock")

\* SeedIfEmpty: the check, then the inserts in the same transaction.  The name
\* is unique, so an insert beside another replica's waits for it.
Seed(m) ==
  /\ stage[m] = "seed" /\ dbUp
  /\ IF ~ AllTablesEmpty THEN Secure(m) /\ UNCHANGED seeding
     ELSE IF seeding = None THEN Onward(m, "seeding") /\ seeding' = m
     ELSE Onward(m, "seedWait") /\ UNCHANGED seeding
  /\ UNCHANGED <<dbUp, day, stops, migrated, migrating, nodeRows, certLock, serverCert, serves, replaced, waited,
                 auditVars>>

SeedCommit(m) ==
  /\ stage[m] = "seeding" /\ dbUp
  /\ nodeRows' = nodeRows + 1 /\ seeding' = None
  /\ Secure(m)
  /\ UNCHANGED <<dbUp, day, stops, migrated, migrating, certLock, serverCert, serves, replaced, waited, auditVars>>

\* The insert that waited finds a row of that name.
Duplicate == nodeRows > 0

\* A seed transaction that has found the tables empty.
SeedOpen(m) == stage[m] \in {"seeding", "seedWait"}

SeedWoken(m) ==
  /\ stage[m] = "seedWait" /\ dbUp /\ seeding = None
  /\ IF Duplicate THEN Gone(m)
     ELSE /\ seeding' = m /\ Onward(m, "seeding")
          /\ UNCHANGED <<migrating, certLock, waited, serves>>
  /\ UNCHANGED <<dbUp, day, stops, migrated, nodeRows, serverCert, replaced, auditVars>>

-----------------------------------------------------------------------------
(* The shared self-signed server certificate.                              *)

\* Variant: nobody waits for the lock.
NoLock(m) == TRUE

\* pg_advisory_lock: waits for the replica that holds it.
LockFree(m) == certLock = None

\* bootstrapServerCert under WithAdvisoryLock.
CertLock(m) ==
  /\ stage[m] = "lock" /\ dbUp /\ LockFree(m)
  /\ certLock' = m
  /\ serves' = [serves EXCEPT ![m] = serverCert]
  /\ Onward(m, "cert")
  /\ UNCHANGED <<dbUp, day, stops, migrated, migrating, nodeRows, seeding, serverCert, replaced, waited, auditVars>>

\* Variant: the connection goes back to the pool with the lock still held.
StillLocked(m) == certLock

\* WithAdvisoryLock's unlock when the callback returns.
Unlocked(m) == IF certLock = m THEN None ELSE certLock

Due(c) == IF c = None THEN TRUE ELSE c.until - day <= RenewBefore

\* A certificate that was read and isn't due is used as it is.
CertKeep(m) ==
  /\ stage[m] = "cert" /\ ~ Due(serves[m])
  /\ certLock' = Unlocked(m)
  /\ Onward(m, "serving")
  /\ UNCHANGED <<dbUp, day, stops, migrated, migrating, nodeRows, seeding, serverCert, serves, replaced, waited,
                 auditVars>>

\* Otherwise a new one is made and stored over it.
CertRenew(m) ==
  LET new == [by |-> m, until |-> day + CertLife] IN
  /\ stage[m] = "cert" /\ dbUp /\ Due(serves[m])
  /\ serverCert' = new
  /\ serves' = [serves EXCEPT ![m] = new]
  /\ replaced' = IF serves[m] = None THEN replaced ELSE replaced \cup {serves[m]}
  /\ certLock' = Unlocked(m)
  /\ Onward(m, "serving")
  /\ UNCHANGED <<dbUp, day, stops, migrated, migrating, nodeRows, seeding, waited, auditVars>>

\* A replica that starts with real TLS material deletes the stored one.
CertDelete(m) ==
  /\ stage[m] = "own" /\ dbUp
  /\ replaced' = replaced \cup ({serverCert} \ {None})
  /\ serverCert' = None
  /\ Onward(m, "serving")
  /\ UNCHANGED <<dbUp, day, stops, migrated, migrating, nodeRows, seeding, certLock, serves, waited,
                 auditVars>>

-----------------------------------------------------------------------------
(* The audit chain.                                                        *)

Logged == {chain[i].event : i \in 1..Len(chain)}
Step(w, pc) == writer' = [writer EXCEPT ![w].pc = pc]

\* A request does what it records first: here it removes the configured node,
\* or something that leaves these tables alone.
Act(w, m, e, removal) ==
  /\ writer[w] = NoWriter /\ stage[m] = "serving" /\ dbUp
  /\ e \notin Logged \cup {writer[v].event : v \in Writers}
  /\ removal => nodeRows > 0
  /\ nodeRows' = IF removal THEN nodeRows - 1 ELSE nodeRows
  /\ writer' = [writer EXCEPT ![w] = [NoWriter EXCEPT !.pc = "lock", !.at = m, !.event = e, !.removal = removal]]
  /\ UNCHANGED <<dbUp, day, stops, migrated, migrating, seeding, certLock, serverCert, serves, replaced, stage,
                 waited, chain, chainLock, removed>>

\* Variant: appends don't wait for each other.
ChainOpen(w) == TRUE

\* pg_advisory_xact_lock on the chain, held to the commit.
ChainFree(w) == chainLock = None

AuditLock(w) ==
  /\ writer[w].pc = "lock" /\ dbUp /\ ChainFree(w)
  /\ chainLock' = w
  /\ Step(w, "read")
  /\ UNCHANGED <<dbUp, day, stops, startVars, chain, removed>>

\* HashEvent covers every field of a row and the hash before it, so a hash
\* stands for its row.
HashEvent(row) == row.event

\* The newest row's hash.
AuditRead(w) ==
  /\ writer[w].pc = "read" /\ dbUp
  /\ writer' = [writer EXCEPT ![w].pc = "insert",
                              ![w].prev = IF chain = <<>> THEN None ELSE HashEvent(chain[Len(chain)])]
  /\ UNCHANGED <<dbUp, day, stops, startVars, chain, chainLock, removed>>

\* AddAuditEvent's insert and commit.
AuditInsert(w) ==
  /\ writer[w].pc = "insert" /\ dbUp
  /\ chain' = Append(chain, [event |-> writer[w].event, prev |-> writer[w].prev])
  /\ chainLock' = IF chainLock = w THEN None ELSE chainLock
  /\ removed' = (removed \/ (writer[w].removal /\ nodeRows = 0 /\ ~ \E m \in Managers : SeedOpen(m)))
  /\ writer' = [writer EXCEPT ![w] = NoWriter]
  /\ UNCHANGED <<dbUp, day, stops, startVars>>

-----------------------------------------------------------------------------
(* Failures, and time.                                                     *)

\* The requests on lost connections: the store panics, withRecover answers 500
\* and the transaction is rolled back.
Lost(ws) ==
  /\ writer' = [w \in Writers |-> IF w \in ws THEN NoWriter ELSE writer[w]]
  /\ chainLock' = IF chainLock \in ws THEN None ELSE chainLock

Stop(m) ==
  /\ stage[m] # "down" /\ stops < MaxStops
  /\ stops' = stops + 1
  /\ Gone(m)
  /\ Lost({w \in Writers : writer[w].at = m})
  /\ UNCHANGED <<dbUp, day, migrated, nodeRows, serverCert, replaced, chain, removed>>

\* The database stops: every connection breaks, so a replica that is starting
\* exits; openWithRetry tries the migration again where databaseNotReady knows
\* the error.  A request that was about to append panics; the replica goes on
\* serving.
Starting(m) == stage[m] \notin {"down", "open", "serving"}
DatabaseStops(again) ==
  /\ dbUp /\ stops < MaxStops
  /\ \A m \in again : stage[m] \in {"migrating", "migrateWait"}
  /\ stops' = stops + 1
  /\ dbUp' = FALSE
  /\ stage' = [m \in Managers |-> IF m \in again THEN "open" ELSE IF Starting(m) THEN "down" ELSE stage[m]]
  /\ waited' = [m \in Managers |-> IF Starting(m) /\ m \notin again THEN 0 ELSE waited[m]]
  /\ serves' = [m \in Managers |-> IF Starting(m) THEN None ELSE serves[m]]
  /\ migrating' = None /\ seeding' = None /\ certLock' = None
  /\ Lost(Writers)
  /\ UNCHANGED <<day, migrated, nodeRows, serverCert, replaced, chain, removed>>

DatabaseStarts ==
  /\ ~ dbUp
  /\ dbUp' = TRUE
  /\ UNCHANGED <<day, stops, startVars, auditVars>>

DayPasses ==
  /\ day < MaxDays
  /\ day' = day + 1
  /\ UNCHANGED <<dbUp, stops, startVars, auditVars>>

StartStep(m) ==
  \/ Launch(m) \/ Retry(m) \/ Migrate(m) \/ MigrateCommit(m) \/ MigrateWoken(m)
  \/ Seed(m) \/ SeedCommit(m) \/ SeedWoken(m)
  \/ CertLock(m) \/ CertKeep(m) \/ CertRenew(m) \/ CertDelete(m)

StartupNext ==
  \/ \E m \in Managers : StartStep(m) \/ Stop(m)
  \/ \E w \in Writers : AuditLock(w) \/ AuditRead(w) \/ AuditInsert(w)
  \/ \E w \in Writers, m \in Managers, e \in Events, removal \in BOOLEAN : Act(w, m, e, removal)
  \/ (\E again \in SUBSET Managers : DatabaseStops(again)) \/ DatabaseStarts \/ DayPasses

StartupSpec == StartupInit /\ [][StartupNext]_upVars

-----------------------------------------------------------------------------
(* Properties.                                                             *)

\* The audit log is one chain: each row's prev_hash is the row before it, though
\* requests on every replica append at once (AddAuditEvent).
ChainUnforked == \A i \in 1..Len(chain) :
  chain[i].prev = IF i = 1 THEN None ELSE HashEvent(chain[i - 1])

\* Restarts neither duplicate a configured node nor bring back one whose removal
\* was on record before they looked, however many replicas start together
\* (SeedIfEmpty).
SeededOnce == nodeRows <= 1 /\ (removed => nodeRows = 0)

\* Every replica without TLS material of its own serves the stored certificate,
\* or one that was due, or deleted, when it was replaced: replicas starting
\* together agree on one (bootstrapServerCert).
OneServerCert == \A m \in Managers : stage[m] = "serving" /\ serves[m] # None =>
  serves[m] = serverCert \/ serves[m] \in replaced

\* What replicas that start together leave behind: one seed, one certificate.
StartedAlike == SeededOnce /\ OneServerCert

\* A replica that was started comes to serve: losing a migration or seed race,
\* a database that was down for longer than the window, or a crash while holding
\* a lock leaves neither itself nor the others stuck.
StartsEventually == <>[](\A m \in Managers : stage[m] # "down" => stage[m] = "serving")
=============================================================================
