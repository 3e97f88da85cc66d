----------------------------- MODULE Revocation -----------------------------
(***************************************************************************)
(* Revocation data of one operator CA: the manager's denylist and the last *)
(* good CRL in the database, and the copies every replica enforces from    *)
(* (Revocations and Poller of internal/operatorca over the Postgres store).*)
(* Both are keyed by the issuing CA, so one CA shows everything.           *)
(*                                                                         *)
(* A writer commits a transaction that moves the revocation epoch, then    *)
(* updates the memory of its own replica; the other replicas notice the    *)
(* epoch.  Reading rows and installing them are two steps, because nothing *)
(* is locked between them.                                                 *)
(***************************************************************************)
EXTENDS Levels

CONSTANTS
  Replicas,   \* manager processes sharing the database
  Procs,      \* slots for writers: denials, uploads and CRL refreshes
  Serials,    \* certificate serials
  MaxNumber,  \* bound: the newest CRL the CA publishes
  MaxFaults,  \* bound: crashes and database errors
  Recorded    \* whether a refresh attempt has left a CRL row before

ASSUME RevocationAssumption ==
  /\ MaxNumber \in Nat
  /\ MaxFaults \in Nat
  /\ Recorded \in BOOLEAN
  /\ None \notin Replicas \cup Procs \cup Serials \cup Nat

VARIABLES
  \* the database
  denylist,  \* operator_denylist
  stored,    \* operator_crls: no row, 0 for a row without a CRL, or its number
  epoch,     \* operator_revocation_epoch
  rowLock,   \* the transaction that locked the CRL row
  \* each replica
  up,        \* replicas that are running
  denied,    \* Revocations.denylist
  crl,       \* anchorState.crl, by its number; 0 for nil
  last,      \* Poller.last; None while first is set
  poll,      \* the poll in progress
  \* writers
  req,
  faults

dbVars == <<denylist, stored, epoch, rowLock>>
memVars == <<denied, crl>>
vars == <<dbVars, memVars, up, last, poll, req, faults>>

Numbers == 1..MaxNumber

PollStage == {"idle", "read", "install", "crls", "finish"}
PollState == [stage : PollStage, epoch : Nat, seen : SUBSET Serials, num : 0..MaxNumber]
NoPoll == [stage |-> "idle", epoch |-> 0, seen |-> {}, num |-> 0]

Pc == {"idle", "deny", "read", "install", "put", "write", "use"}
Request == [pc : Pc, at : Replicas \cup {None}, serial : Serials \cup {None},
            num : 0..MaxNumber, seen : SUBSET Serials]
NoRequest == [pc |-> "idle", at |-> None, serial |-> None, num |-> 0, seen |-> {}]

\* The CRL a reader of the row finds; 0 when there is none.
StoredNumber == IF stored = None THEN 0 ELSE stored

\* Types, and that a locked CRL row belongs to a writer about to write it (the
\* deferred Rollback of PutOperatorCRL).
TypeOK ==
  /\ denylist \subseteq Serials
  /\ stored \in (0..MaxNumber) \cup {None}
  /\ epoch \in Nat
  /\ rowLock \in Procs \cup {None}
  /\ up \subseteq Replicas
  /\ denied \in [Replicas -> SUBSET Serials]
  /\ crl \in [Replicas -> 0..MaxNumber]
  /\ last \in [Replicas -> Nat \cup {None}]
  /\ poll \in [Replicas -> PollState]
  /\ req \in [Procs -> Request]
  /\ faults \in 0..MaxFaults
  /\ rowLock # None => req[rowLock].pc = "write"

Init ==
  /\ denylist = {}
  /\ stored = IF Recorded THEN 0 ELSE None
  /\ epoch = 0
  /\ rowLock = None
  /\ up = {}
  /\ denied = [r \in Replicas |-> {}]
  /\ crl = [r \in Replicas |-> 0]
  /\ last = [r \in Replicas |-> None]
  /\ poll = [r \in Replicas |-> NoPoll]
  /\ req = [p \in Procs |-> NoRequest]
  /\ faults = 0

-----------------------------------------------------------------------------
(* Replicas.                                                               *)

\* Reload before the replica serves anything; the poller has polled nothing.
Boot(r) ==
  /\ r \notin up
  /\ up' = up \cup {r}
  /\ denied' = [denied EXCEPT ![r] = denylist]
  /\ crl' = [crl EXCEPT ![r] = StoredNumber]
  /\ UNCHANGED <<dbVars, last, poll, req, faults>>

\* The process stops; an open transaction is rolled back and unlocks its row.
Crash(r) ==
  /\ r \in up /\ faults < MaxFaults
  /\ faults' = faults + 1
  /\ up' = up \ {r}
  /\ denied' = [denied EXCEPT ![r] = {}]
  /\ crl' = [crl EXCEPT ![r] = 0]
  /\ last' = [last EXCEPT ![r] = None]
  /\ poll' = [poll EXCEPT ![r] = NoPoll]
  /\ req' = [p \in Procs |-> IF req[p].at = r THEN NoRequest ELSE req[p]]
  /\ rowLock' = IF \E p \in Procs : rowLock = p /\ req[p].at = r THEN None ELSE rowLock
  /\ UNCHANGED <<denylist, stored, epoch>>

\* PollOnce reads the version and finds the epoch moved, or polls for the
\* first time.  (When nothing moved it only notes the time, MarkPolled.)
PollStart(r) ==
  /\ r \in up /\ poll[r].stage = "idle" /\ last[r] # epoch
  /\ poll' = [poll EXCEPT ![r] = [@ EXCEPT !.stage = "read", !.epoch = epoch]]
  /\ UNCHANGED <<dbVars, memVars, up, last, req, faults>>

\* Reload: reloadDenylist reads every entry ...
PollRead(r) ==
  /\ poll[r].stage = "read"
  /\ poll' = [poll EXCEPT ![r] = [@ EXCEPT !.stage = "install", !.seen = denylist]]
  /\ UNCHANGED <<dbVars, memVars, up, last, req, faults>>

\* ... and installs them under the mutex;
PollInstall(r) ==
  /\ poll[r].stage = "install"
  /\ denied' = [denied EXCEPT ![r] = poll[r].seen]
  /\ poll' = [poll EXCEPT ![r] = [@ EXCEPT !.stage = "crls", !.seen = {}]]
  /\ UNCHANGED <<dbVars, crl, up, last, req, faults>>

\* then OperatorCRLs reads the stored CRLs ...
PollCRLs(r) ==
  /\ poll[r].stage = "crls"
  /\ poll' = [poll EXCEPT ![r] = [@ EXCEPT !.stage = "finish", !.num = StoredNumber]]
  /\ UNCHANGED <<dbVars, memVars, up, last, req, faults>>

\* Variant: the epoch is read again when the poll ends.
PollFinishLate(r) ==
  /\ poll[r].stage = "finish"
  /\ crl' = IF poll[r].num = 0 THEN crl ELSE [crl EXCEPT ![r] = poll[r].num]
  /\ last' = [last EXCEPT ![r] = epoch]
  /\ poll' = [poll EXCEPT ![r] = NoPoll]
  /\ UNCHANGED <<dbVars, denied, up, req, faults>>

\* ... and one that differs from the one in use replaces it, older or newer.
\* PollOnce remembers the version it read at its start.
PollFinish(r) ==
  /\ poll[r].stage = "finish"
  /\ crl' = IF poll[r].num = 0 THEN crl ELSE [crl EXCEPT ![r] = poll[r].num]
  /\ last' = [last EXCEPT ![r] = poll[r].epoch]
  /\ poll' = [poll EXCEPT ![r] = NoPoll]
  /\ UNCHANGED <<dbVars, denied, up, req, faults>>

\* A query of the poll fails: the last good state and version stay.
PollFail(r) ==
  /\ poll[r].stage \in {"read", "crls"} /\ faults < MaxFaults
  /\ faults' = faults + 1
  /\ poll' = [poll EXCEPT ![r] = NoPoll]
  /\ UNCHANGED <<dbVars, memVars, up, last, req>>

-----------------------------------------------------------------------------
(* Deny: RevokeOperatorCredential and the first-run supersede.             *)

DenyCall(p, r, s) ==
  /\ req[p].pc = "idle" /\ r \in up
  /\ req' = [req EXCEPT ![p] = [NoRequest EXCEPT !.pc = "deny", !.at = r, !.serial = s]]
  /\ UNCHANGED <<dbVars, memVars, up, last, poll, faults>>

\* AddOperatorDenylistEntry: the entry and the epoch in one transaction; an
\* entry that is already there moves nothing.
DenyCommit(p) ==
  /\ req[p].pc = "deny"
  /\ denylist' = denylist \cup {req[p].serial}
  /\ epoch' = IF req[p].serial \in denylist THEN epoch ELSE epoch + 1
  /\ req' = [req EXCEPT ![p].pc = "read"]
  /\ UNCHANGED <<stored, rowLock, memVars, up, last, poll, faults>>

\* reloadDenylist on the writing replica, in the same two steps as the poll's.
DenyRead(p) ==
  /\ req[p].pc = "read"
  /\ req' = [req EXCEPT ![p] = [@ EXCEPT !.pc = "install", !.seen = denylist]]
  /\ UNCHANGED <<dbVars, memVars, up, last, poll, faults>>

DenyInstall(p) ==
  /\ req[p].pc = "install"
  /\ denied' = [denied EXCEPT ![req[p].at] = req[p].seen]
  /\ req' = [req EXCEPT ![p] = NoRequest]
  /\ UNCHANGED <<dbVars, crl, up, last, poll, faults>>

\* A query fails, before or after the entry was committed.
DenyFail(p) ==
  /\ req[p].pc \in {"deny", "read"} /\ faults < MaxFaults
  /\ faults' = faults + 1
  /\ req' = [req EXCEPT ![p] = NoRequest]
  /\ UNCHANGED <<dbVars, memVars, up, last, poll>>

-----------------------------------------------------------------------------
(* StoreCRL: UploadOperatorCRL and the refresher.                          *)

PutCall(p, r, n) ==
  /\ req[p].pc = "idle" /\ r \in up
  /\ req' = [req EXCEPT ![p] = [NoRequest EXCEPT !.pc = "put", !.at = r, !.num = n]]
  /\ UNCHANGED <<dbVars, memVars, up, last, poll, faults>>

\* Variant: a plain SELECT.
NeverLocked(p) == None

\* SELECT FOR UPDATE locks a row there is, and nothing where there is none.
RowLocked(p) == IF stored = None THEN None ELSE p

\* putCRLTx: the SELECT FOR UPDATE, and AcceptNewer, which refuses what is not
\* newer.
PutDecide(p) ==
  /\ req[p].pc = "put" /\ rowLock = None
  /\ \/ /\ req[p].num > StoredNumber
        /\ req' = [req EXCEPT ![p].pc = "write"]
        /\ rowLock' = RowLocked(p)
     \/ /\ req[p].num =< StoredNumber
        /\ req' = [req EXCEPT ![p] = NoRequest]
        /\ UNCHANGED rowLock
  /\ UNCHANGED <<denylist, stored, epoch, memVars, up, last, poll, faults>>

\* Variant: the epoch stays.
PutCommitNoEpoch(p) ==
  /\ req[p].pc = "write" /\ rowLock \in {None, p}
  /\ stored' = req[p].num
  /\ rowLock' = None
  /\ req' = [req EXCEPT ![p].pc = "use"]
  /\ UNCHANGED <<denylist, epoch, memVars, up, last, poll, faults>>

\* INSERT ... ON CONFLICT DO UPDATE, which waits for whoever has the row
\* locked, bumpEpoch and COMMIT.
PutCommit(p) ==
  /\ req[p].pc = "write" /\ rowLock \in {None, p}
  /\ stored' = req[p].num
  /\ epoch' = epoch + 1
  /\ rowLock' = None
  /\ req' = [req EXCEPT ![p].pc = "use"]
  /\ UNCHANGED <<denylist, memVars, up, last, poll, faults>>

\* The transaction is rolled back.
PutFail(p) ==
  /\ req[p].pc \in {"put", "write"} /\ faults < MaxFaults
  /\ faults' = faults + 1
  /\ rowLock' = IF rowLock = p THEN None ELSE rowLock
  /\ req' = [req EXCEPT ![p] = NoRequest]
  /\ UNCHANGED <<denylist, stored, epoch, memVars, up, last, poll>>

\* The writing replica uses the CRL at once.
UseCRL(p) ==
  /\ req[p].pc = "use"
  /\ crl' = [crl EXCEPT ![req[p].at] = req[p].num]
  /\ req' = [req EXCEPT ![p] = NoRequest]
  /\ UNCHANGED <<dbVars, denied, up, last, poll, faults>>

\* RecordOperatorCRLAttempt of a refresh that failed or found nothing new: it
\* leaves a row without a CRL where there was none.
RecordAttempt ==
  /\ up # {} /\ stored = None
  /\ stored' = 0
  /\ UNCHANGED <<denylist, epoch, rowLock, memVars, up, last, poll, req, faults>>

-----------------------------------------------------------------------------
(* The specification.                                                      *)

PollStep(r) == PollStart(r) \/ PollRead(r) \/ PollInstall(r) \/ PollCRLs(r) \/ PollFinish(r)

ProcStep(p) ==
  \/ DenyCommit(p) \/ DenyRead(p) \/ DenyInstall(p)
  \/ PutDecide(p) \/ PutCommit(p) \/ UseCRL(p)

Environment ==
  \/ \E r \in Replicas : Boot(r) \/ Crash(r) \/ PollFail(r)
  \/ \E p \in Procs : DenyFail(p) \/ PutFail(p)
  \/ \E p \in Procs, r \in Replicas, s \in Serials : DenyCall(p, r, s)
  \/ \E p \in Procs, r \in Replicas, n \in Numbers : PutCall(p, r, n)
  \/ RecordAttempt

Next ==
  \/ \E r \in Replicas : PollStep(r)
  \/ \E p \in Procs : ProcStep(p)
  \/ Environment

Spec == Init /\ [][Next]_vars

-----------------------------------------------------------------------------
(* Properties.                                                             *)

\* The poller of r has seen the newest epoch, and neither it nor a writer on r
\* is about to install something.
Current(r) ==
  /\ r \in up /\ last[r] = epoch /\ poll[r].stage = "idle"
  /\ \A p \in Procs : req[p].at = r => req[p].pc \notin {"read", "install", "use"}

\* A replica that has nothing left to do for the newest epoch enforces the whole
\* denylist (Deny, PollOnce, AddOperatorDenylistEntry): it is not stuck with an
\* older copy until some later revocation moves the epoch.
DenylistCurrent == \A r \in Replicas : Current(r) => denied[r] = denylist

\* The same for the CRL (StoreCRL, Reload): such a replica uses the stored one.
CRLCurrent == \A r \in Replicas : Current(r) => crl[r] = StoredNumber

\* The stored CRL is never replaced by an older one, whichever writers overlap at
\* the row lock and fail there (PutOperatorCRL's lock around AcceptNewer; before
\* a row is recorded there is nothing to lock).
NoRollback == [][stored # None => stored' # None /\ stored' >= stored]_vars

-----------------------------------------------------------------------------
(* The inductive invariants of the proofs (Revocation_proofs).             *)

\* A denial names a serial.
Asked == \A p \in Procs : req[p].pc = "deny" => req[p].serial \in Serials

\* Where a CRL row exists, a writer that AcceptNewer let through holds the row,
\* and its CRL is still newer than the stored one.
Decided ==
  /\ stored # None
  /\ \A p \in Procs : req[p].pc = "write" => rowLock = p /\ req[p].num > stored

-----------------------------------------------------------------------------
(* Liveness: replicas are started again, and pollers and writers go on.    *)

\* Once the writers are done every running replica enforces what is stored,
\* whatever crashed or failed on the way.
Converges == <>[](\A r \in up : denied[r] = denylist /\ crl[r] = StoredNumber)

=============================================================================
