---------------------------- MODULE OperatorCAs ----------------------------
(***************************************************************************)
(* The registered operator CAs after first run: rotation, retirement and   *)
(* settings changes through the fleet API on any replica, and how every    *)
(* replica's trust store follows the database (internal/fleet, TrustStore  *)
(* and Poller of internal/operatorca, internal/store/postgres).            *)
(*                                                                         *)
(* A write is a database transaction in two steps: the statements, which   *)
(* take row locks and read the clock for updated_at, and the commit, which *)
(* makes them visible.  What the poll compares is the number of rows and   *)
(* the newest updated_at.                                                  *)
(***************************************************************************)
EXTENDS Levels

CONSTANTS
  TrustReplicas, \* manager processes sharing the database
  CAProcs,     \* slots for API requests being served at the same time
  CAs,         \* operator CA certificates somebody may register
  FirstCA,     \* the one first run registered
  MaxWrites,   \* bound: write transactions
  MaxCAFaults  \* bound: crashes and database errors

ASSUME OperatorCAsAssumption ==
  /\ FirstCA \in CAs
  /\ MaxWrites \in Nat
  /\ MaxCAFaults \in Nat
  /\ None \notin TrustReplicas \cup CAs \cup CAProcs

VARIABLES
  \* the database
  state,     \* operator_cas.state, "none" where there is no row
  setting,   \* the CRL source and OCSP columns, named by the write that set them
  newest,    \* the newest updated_at of a visible row
  clock,     \* clock_timestamp()
  pending,   \* the uncommitted row versions of each request's transaction
  \* each replica
  running,   \* replicas that are running
  gen,       \* the trust generation: the trusted rows as last read
  polling,   \* the version a running poll has read
  lastSeen,  \* Poller.last; None before the first poll
  \* requests
  caReq,
  caFaults

caTables == <<state, setting, newest, clock, pending>>
trustVars == <<running, gen, polling, lastSeen>>
casVars == <<caTables, trustVars, caReq, caFaults>>

CAState == {"none", "active", "retiring", "retired"}
Trusted == {a \in CAs : state[a] \in {"active", "retiring"}}
Row == [state : CAState, setting : Nat]
Anchors == [CAs -> Row \cup {None}]
Version == [rows : SUBSET CAs, newest : Nat]
ASSUME RowAssumption == None \notin Row \cup Version

CAPc == {"idle", "rotate", "retire", "set", "commit", "apply"}
CARequest == [pc : CAPc, at : TrustReplicas \cup {None}, ca : CAs \cup {None}]
NoCARequest == [pc |-> "idle", at |-> None, ca |-> None]

\* A transaction: the time its statements read, and the row versions it wrote.
Tx == [at : Nat, rows : [CAs -> Row \cup {None}]]
NoTx == [at |-> 0, rows |-> [a \in CAs |-> None]]
Locked(p) == {a \in CAs : pending[p].rows[a] # None}

\* Types, and that only a request about to commit has an open transaction (the
\* deferred Rollback of every store method).
CAsTypeOK ==
  /\ state \in [CAs -> CAState]
  /\ setting \in [CAs -> Nat]
  /\ newest \in Nat
  /\ clock \in Nat
  /\ pending \in [CAProcs -> Tx]
  /\ running \subseteq TrustReplicas
  /\ gen \in [TrustReplicas -> Anchors]
  /\ polling \in [TrustReplicas -> Version \cup {None}]
  /\ lastSeen \in [TrustReplicas -> Version \cup {None}]
  /\ caReq \in [CAProcs -> CARequest]
  /\ caFaults \in 0..MaxCAFaults
  /\ \A p \in CAProcs : pending[p] # NoTx => caReq[p].pc = "commit"

\* TrustStore.load, and what settingsOf compares of it.
Load == [a \in CAs |-> IF a \in Trusted THEN [state |-> state[a], setting |-> setting[a]] ELSE None]

\* OperatorTrustVersion: rows are never deleted, so the count stands for the set.
TrustVersion == [rows |-> {a \in CAs : state[a] # "none"}, newest |-> newest]

\* First run has closed: one active operator CA, no replica running yet.
CAsInit ==
  /\ state = [a \in CAs |-> IF a = FirstCA THEN "active" ELSE "none"]
  /\ setting = [a \in CAs |-> 0]
  /\ newest = 0 /\ clock = 0
  /\ pending = [p \in CAProcs |-> NoTx]
  /\ running = {}
  /\ gen = [r \in TrustReplicas |-> [a \in CAs |-> None]]
  /\ polling = [r \in TrustReplicas |-> None]
  /\ lastSeen = [r \in TrustReplicas |-> None]
  /\ caReq = [p \in CAProcs |-> NoCARequest]
  /\ caFaults = 0

-----------------------------------------------------------------------------
(* Replicas.                                                               *)

\* NewTrustStore loads the rows; the poller starts with first set.
TrustBoot(r) ==
  /\ r \notin running
  /\ running' = running \cup {r}
  /\ gen' = [gen EXCEPT ![r] = Load]
  /\ UNCHANGED <<caTables, polling, lastSeen, caReq, caFaults>>

\* The process stops.  A transaction that has not committed is rolled back.
TrustCrash(r) ==
  /\ r \in running /\ caFaults < MaxCAFaults
  /\ caFaults' = caFaults + 1
  /\ running' = running \ {r}
  /\ gen' = [gen EXCEPT ![r] = [a \in CAs |-> None]]
  /\ polling' = [polling EXCEPT ![r] = None]
  /\ lastSeen' = [lastSeen EXCEPT ![r] = None]
  /\ caReq' = [p \in CAProcs |-> IF caReq[p].at = r THEN NoCARequest ELSE caReq[p]]
  /\ pending' = [p \in CAProcs |-> IF caReq[p].at = r THEN NoTx ELSE pending[p]]
  /\ UNCHANGED <<state, setting, newest, clock>>

\* PollOnce reads the version ...
PollVersion(r) ==
  /\ r \in running /\ polling[r] = None
  /\ polling' = [polling EXCEPT ![r] = TrustVersion]
  /\ UNCHANGED <<caTables, running, gen, lastSeen, caReq, caFaults>>

\* Variant: the version is read again after the rebuild decision.
PollRebuildLate(r) ==
  /\ polling[r] # None
  /\ gen' = IF polling[r] # lastSeen[r] THEN [gen EXCEPT ![r] = Load] ELSE gen
  /\ lastSeen' = [lastSeen EXCEPT ![r] = TrustVersion]
  /\ polling' = [polling EXCEPT ![r] = None]
  /\ UNCHANGED <<caTables, running, caReq, caFaults>>

\* ... rebuilds if it moved (Rebuild reads the rows under its mutex and installs
\* them), and remembers the version it read.
PollRebuild(r) ==
  /\ polling[r] # None
  /\ gen' = IF polling[r] # lastSeen[r] THEN [gen EXCEPT ![r] = Load] ELSE gen
  /\ lastSeen' = [lastSeen EXCEPT ![r] = polling[r]]
  /\ polling' = [polling EXCEPT ![r] = None]
  /\ UNCHANGED <<caTables, running, caReq, caFaults>>

\* A query of the poll fails: the last good state and version stay.
PollFails(r) ==
  /\ polling[r] # None /\ caFaults < MaxCAFaults
  /\ caFaults' = caFaults + 1
  /\ polling' = [polling EXCEPT ![r] = None]
  /\ UNCHANGED <<caTables, running, gen, lastSeen, caReq>>

-----------------------------------------------------------------------------
(* Requests.                                                               *)

Admit(p, r, a, pc) ==
  /\ caReq[p].pc = "idle" /\ r \in running
  /\ caReq' = [caReq EXCEPT ![p] = [pc |-> pc, at |-> r, ca |-> a]]
  /\ UNCHANGED <<caTables, trustVars, caFaults>>

\* RegisterOperatorCA up to the store call: refused while a row is retiring.
RegisterCall(p, r, a) ==
  /\ \A b \in CAs : state[b] # "retiring"
  /\ Admit(p, r, a, "rotate")

\* Variant: the active row can be retired, its replacement follows.
RetireAny(p, r, a) == a \in Trusted /\ Admit(p, r, a, "retire")

\* RetireOperatorCA up to the store call: only a retiring row passes.
RetireCall(p, r, a) == state[a] = "retiring" /\ Admit(p, r, a, "retire")

\* SetOperatorCACRLSource and SetOperatorCAOCSP up to the store call.
SetCall(p, r, a) == a \in Trusted /\ Admit(p, r, a, "set")

\* The statements of a transaction write rows and keep their locks.
Execute(p, rows) ==
  /\ clock < MaxWrites
  /\ clock' = clock + 1
  /\ pending' = [pending EXCEPT ![p] = [at |-> clock + 1, rows |-> rows]]
  /\ caReq' = [caReq EXCEPT ![p].pc = "commit"]
  /\ UNCHANGED <<state, setting, newest, trustVars, caFaults>>

\* The store call reports an error and changes nothing.
Refused(p) ==
  /\ caReq' = [caReq EXCEPT ![p] = NoCARequest]
  /\ UNCHANGED <<caTables, trustVars, caFaults>>

\* Nobody else's transaction holds a row of as.
Free(p, as) == \A q \in CAProcs \ {p} : Locked(q) \cap as = {}

\* Variant: a plain SELECT reads the rows a second rotation is about to move.
RowsFreeAlways(p) == TRUE

\* The FOR UPDATE of a rotation waits for the trusted rows and its own, and the
\* one-active index makes a second insert of an active row wait as well.
RowsFree(p) ==
  /\ Free(p, Trusted \cup {caReq[p].ca})
  /\ \A q \in CAProcs \ {p} : \A b \in Locked(q) : pending[q].rows[b].state # "active"

\* RotateOperatorCA: the trusted rows are locked first.
Rotate(p) ==
  /\ caReq[p].pc = "rotate"
  /\ LET a == caReq[p].ca IN
     /\ RowsFree(p)
     /\ \/ a \in Trusted /\ Refused(p)
        \/ (\E b \in CAs : state[b] = "retiring") /\ Refused(p)
        \/ /\ \A b \in Trusted : b # a /\ state[b] = "active"
           /\ Execute(p, [b \in CAs |-> IF b = a THEN [state |-> "active", setting |-> clock + 1]
                                        ELSE IF b \in Trusted
                                               THEN [state |-> "retiring", setting |-> setting[b]]
                                               ELSE None])

\* SetOperatorCAState(retired): an UPDATE by fingerprint, whatever the state.
Retire(p) ==
  /\ caReq[p].pc = "retire"
  /\ Free(p, {caReq[p].ca})
  /\ Execute(p, [b \in CAs |-> IF b = caReq[p].ca THEN [state |-> "retired", setting |-> setting[b]]
                               ELSE None])

\* SetOperatorCACRLSource, SetOperatorCAOCSP: only a trusted row is changed.
Set(p) ==
  /\ caReq[p].pc = "set"
  /\ Free(p, {caReq[p].ca})
  /\ \/ /\ caReq[p].ca \in Trusted
        /\ Execute(p, [b \in CAs |-> IF b = caReq[p].ca
                                       THEN [state |-> state[b], setting |-> clock + 1] ELSE None])
     \/ caReq[p].ca \notin Trusted /\ Refused(p)

\* Variant: updated_at stays what it was.
CommitUnstamped(p) ==
  /\ caReq[p].pc = "commit"
  /\ state' = [a \in CAs |-> IF a \in Locked(p) THEN pending[p].rows[a].state ELSE state[a]]
  /\ setting' = [a \in CAs |-> IF a \in Locked(p) THEN pending[p].rows[a].setting ELSE setting[a]]
  /\ pending' = [pending EXCEPT ![p] = NoTx]
  /\ caReq' = [caReq EXCEPT ![p].pc = "apply"]
  /\ UNCHANGED <<newest, clock, trustVars, caFaults>>

\* COMMIT: the row versions become visible and the locks are released.
Commit(p) ==
  /\ caReq[p].pc = "commit"
  /\ state' = [a \in CAs |-> IF a \in Locked(p) THEN pending[p].rows[a].state ELSE state[a]]
  /\ setting' = [a \in CAs |-> IF a \in Locked(p) THEN pending[p].rows[a].setting ELSE setting[a]]
  /\ newest' = IF pending[p].at > newest THEN pending[p].at ELSE newest
  /\ pending' = [pending EXCEPT ![p] = NoTx]
  /\ caReq' = [caReq EXCEPT ![p].pc = "apply"]
  /\ UNCHANGED <<clock, trustVars, caFaults>>

\* applyTrustChange: Rebuild on the replica that served the request.
Apply(p) ==
  /\ caReq[p].pc = "apply"
  /\ gen' = [gen EXCEPT ![caReq[p].at] = Load]
  /\ caReq' = [caReq EXCEPT ![p] = NoCARequest]
  /\ UNCHANGED <<caTables, running, polling, lastSeen, caFaults>>

\* A query of the request fails: its transaction is rolled back, or, when it
\* is the Rebuild, the stored change is left to the poll.
Abort(p) ==
  /\ caReq[p].pc # "idle" /\ caFaults < MaxCAFaults
  /\ caFaults' = caFaults + 1
  /\ pending' = [pending EXCEPT ![p] = NoTx]
  /\ caReq' = [caReq EXCEPT ![p] = NoCARequest]
  /\ UNCHANGED <<state, setting, newest, clock, trustVars>>

-----------------------------------------------------------------------------
(* The specification.                                                      *)

CAStep(p) == Rotate(p) \/ Retire(p) \/ Set(p) \/ Commit(p) \/ Apply(p)

Call(p, r, a) == RegisterCall(p, r, a) \/ RetireCall(p, r, a) \/ SetCall(p, r, a)

CAsNext ==
  \/ \E r \in TrustReplicas : TrustBoot(r) \/ TrustCrash(r) \/ PollVersion(r) \/ PollRebuild(r) \/ PollFails(r)
  \/ \E p \in CAProcs : CAStep(p) \/ Abort(p)
  \/ \E p \in CAProcs, r \in TrustReplicas, a \in CAs : Call(p, r, a)

CAsSpec == CAsInit /\ [][CAsNext]_casVars

-----------------------------------------------------------------------------
(* Properties.                                                             *)

\* Two rotations can't both pass the retiring check: there is never a second
\* active or a second retiring operator CA (RotateOperatorCA).
OneOfEach ==
  \A a, b \in CAs : state[a] = state[b] /\ state[a] \in {"active", "retiring"} => a = b

\* Rotation and retirement always leave an active operator CA
\* (RetireOperatorCA refuses the active one).
ActiveKept == \E a \in CAs : state[a] = "active"

\* A replica whose poller has seen the current trust version, and that is not
\* about to rebuild after its own write, trusts exactly the rows of the
\* database: no change hides behind an unchanged version (OperatorTrustVersion,
\* PollOnce).
Applying(r) == \E p \in CAProcs : caReq[p].pc = "apply" /\ caReq[p].at = r

NothingMissed ==
  \A r \in running : lastSeen[r] = TrustVersion /\ ~Applying(r) => gen[r] = Load

\* Every running replica ends up trusting what the database says, once the writes end:
\* a retired operator CA stops signing in everywhere.
TrustConverges == <>[](\A r \in running : gen[r] = Load)

=============================================================================
