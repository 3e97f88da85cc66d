------------------------- MODULE OperatorCAs_proofs -------------------------
(***************************************************************************)
(* Proofs about OperatorCAs for any number of replicas, API requests at    *)
(* the same time, operator CAs, writes and faults.                         *)
(***************************************************************************)
EXTENDS OperatorCAs, TLAPS

\* A request in progress has its operator CA and its replica.
Placed == \A p \in CAProcs : caReq[p].pc # "idle" =>
  caReq[p].ca \in CAs /\ caReq[p].at \in TrustReplicas

\* A transaction that retires rows, or rewrites trusted ones as they are.
Mild(p) == \A b \in CAs : pending[p].rows[b] # None =>
  \/ pending[p].rows[b].state = "retired"
  \/ pending[p].rows[b].state = state[b] /\ state[b] \in {"active", "retiring"}

\* A rotation that brings in a: it has locked every trusted row.
Brings(p, a) ==
  /\ state[a] \notin {"active", "retiring"}
  /\ pending[p].rows[a] # None /\ pending[p].rows[a].state = "active"
  /\ \A b \in CAs \ {a} :
       IF state[b] \in {"active", "retiring"}
       THEN state[b] = "active" /\ pending[p].rows[b] # None /\ pending[p].rows[b].state = "retiring"
       ELSE pending[p].rows[b] = None
Rotating(p) == \E a \in CAs : Brings(p, a)

\* The inductive invariant: transactions hold different rows, each is mild or a
\* rotation, and there is one rotation at a time.
Separate == \A p, q \in CAProcs : p # q =>
  \A b \in CAs : pending[p].rows[b] = None \/ pending[q].rows[b] = None
Shaped == \A p \in CAProcs : Mild(p) \/ Rotating(p)
Alone == \A p, q \in CAProcs : p # q => ~ (Rotating(p) /\ Rotating(q))
Locking == Separate /\ Shaped /\ Alone
IndInv == CAsTypeOK /\ Placed /\ Locking /\ OneOfEach

-----------------------------------------------------------------------------
(* Types.                                                                  *)

\* Requests and transactions that handlers build have their types.
LEMMA Forms ==
  /\ NoCARequest \in CARequest /\ NoTx \in Tx
  /\ \A k \in CAPc, r \in TrustReplicas, a \in CAs : [pc |-> k, at |-> r, ca |-> a] \in CARequest
  /\ \A q \in CARequest, k \in CAPc : [q EXCEPT !.pc = k] \in CARequest
  /\ \A t \in Nat, rows \in [CAs -> Row \cup {None}] : [at |-> t, rows |-> rows] \in Tx
  /\ \A s \in CAState, n \in Nat : [state |-> s, setting |-> n] \in Row
BY DEF NoCARequest, CARequest, NoTx, Tx, CAPc, Row

\* What a replica loads is a trust generation, and what it polls a version.
LEMMA LoadType == ASSUME CAsTypeOK PROVE Load \in Anchors /\ TrustVersion \in Version
<1>1. \A a \in CAs : [state |-> state[a], setting |-> setting[a]] \in Row
  BY Forms DEF CAsTypeOK
<1>2. Load \in Anchors
  BY <1>1 DEF Load, Anchors
<1>3. TrustVersion \in Version
  BY DEF TrustVersion, Version, CAsTypeOK
<1> QED BY <1>2, <1>3

\* An empty transaction locks nothing.
LEMMA NothingLocked == \A b \in CAs : NoTx.rows[b] = None
BY DEF NoTx

\* A replica's own steps keep the types.
LEMMA ReplicaTypes ==
  ASSUME CAsTypeOK, Placed, NEW r \in TrustReplicas,
         TrustBoot(r) \/ PollVersion(r) \/ PollRebuild(r) \/ PollFails(r)
  PROVE  CAsTypeOK' /\ Placed' /\ state' = state /\ pending' = pending
<1>1. Load \in Anchors /\ TrustVersion \in Version
  BY LoadType
<1>2. state' = state /\ pending' = pending /\ caReq' = caReq
  BY DEF TrustBoot, PollVersion, PollRebuild, PollFails, caTables
<1>3. gen' \in [TrustReplicas -> Anchors]
  BY <1>1 DEF CAsTypeOK, TrustBoot, PollVersion, PollRebuild, PollFails
<1>4. polling' \in [TrustReplicas -> Version \cup {None}] /\ lastSeen' \in [TrustReplicas -> Version \cup {None}]
  BY <1>1 DEF CAsTypeOK, TrustBoot, PollVersion, PollRebuild, PollFails
<1>5. running' \subseteq TrustReplicas /\ caFaults' \in 0..MaxCAFaults
  BY OperatorCAsAssumption DEF CAsTypeOK, TrustBoot, PollVersion, PollRebuild, PollFails
<1>6. setting' = setting /\ newest' = newest /\ clock' = clock
  BY DEF TrustBoot, PollVersion, PollRebuild, PollFails, caTables
<1> QED BY <1>2, <1>3, <1>4, <1>5, <1>6 DEF CAsTypeOK, Placed

\* A crash forgets a replica's memory and rolls its transactions back.
LEMMA CrashTypes ==
  ASSUME CAsTypeOK, Placed, NEW r \in TrustReplicas, TrustCrash(r)
  PROVE  /\ CAsTypeOK' /\ Placed' /\ state' = state
         /\ \A p \in CAProcs : pending'[p] \in {pending[p], NoTx}
<1>1. caReq' \in [CAProcs -> CARequest] /\ pending' \in [CAProcs -> Tx]
  BY Forms DEF CAsTypeOK, TrustCrash
<1>2. \A p \in CAProcs : caReq'[p] \in {caReq[p], NoCARequest} /\ pending'[p] \in {pending[p], NoTx}
  BY DEF TrustCrash
<1>3. Placed' /\ \A p \in CAProcs : pending'[p] # NoTx => caReq'[p].pc = "commit"
  <2>1. NoCARequest.pc = "idle"
    BY DEF NoCARequest
  <2> QED BY <2>1 DEF Placed, CAsTypeOK, TrustCrash
<1>4. [a \in CAs |-> None] \in Anchors
  BY DEF Anchors
<1> QED BY <1>1, <1>2, <1>3, <1>4, OperatorCAsAssumption DEF CAsTypeOK, TrustCrash

\* A request that is admitted, refused or applied writes nothing.
LEMMA RequestTypes ==
  ASSUME CAsTypeOK, Placed, NEW p \in CAProcs,
         \/ \E r \in TrustReplicas, a \in CAs : Call(p, r, a)
         \/ Refused(p) /\ caReq[p].pc # "commit"
         \/ Apply(p)
  PROVE  CAsTypeOK' /\ Placed' /\ state' = state /\ pending' = pending
<1>1. CASE \E r \in TrustReplicas, a \in CAs : Call(p, r, a)
  <2>1. PICK r \in TrustReplicas, a \in CAs, k \in {"rotate", "retire", "set"} : Admit(p, r, a, k)
    BY <1>1 DEF Call, RegisterCall, RetireCall, SetCall
  <2>2. [pc |-> k, at |-> r, ca |-> a] \in CARequest
    BY Forms DEF CAPc
  <2> QED BY <2>1, <2>2 DEF Admit, caTables, trustVars, CAsTypeOK, Placed
<1>2. CASE Refused(p) /\ caReq[p].pc # "commit"
  BY <1>2, Forms DEF Refused, caTables, trustVars, CAsTypeOK, Placed, NoCARequest
<1>3. CASE Apply(p)
  BY <1>3, Forms, LoadType DEF Apply, caTables, CAsTypeOK, Placed, NoCARequest
<1> QED BY <1>1, <1>2, <1>3

\* A request whose query fails drops its transaction.
LEMMA AbortTypes ==
  ASSUME CAsTypeOK, Placed, NEW p \in CAProcs, Abort(p)
  PROVE  /\ CAsTypeOK' /\ Placed' /\ state' = state
         /\ \A q \in CAProcs : pending'[q] \in {pending[q], NoTx}
BY Forms, OperatorCAsAssumption DEF Abort, trustVars, CAsTypeOK, Placed, NoCARequest

\* The statements of a transaction.
LEMMA ExecuteTypes ==
  ASSUME CAsTypeOK, Placed, NEW p \in CAProcs, caReq[p].pc # "idle",
         NEW rows \in [CAs -> Row \cup {None}], Execute(p, rows)
  PROVE  /\ CAsTypeOK' /\ Placed' /\ state' = state
         /\ pending'[p].rows = rows
         /\ \A q \in CAProcs \ {p} : pending'[q] = pending[q]
<1>1. [at |-> clock + 1, rows |-> rows] \in Tx /\ clock + 1 \in Nat
  BY Forms DEF CAsTypeOK
<1>2. caReq[p] \in CARequest /\ [caReq[p] EXCEPT !.pc = "commit"] \in CARequest
  BY Forms DEF CAsTypeOK, CAPc
<1>3. caReq'[p].pc = "commit" /\ caReq'[p].ca = caReq[p].ca /\ caReq'[p].at = caReq[p].at
  BY <1>2 DEF Execute, CARequest, CAsTypeOK
<1> QED BY <1>1, <1>2, <1>3 DEF Execute, trustVars, CAsTypeOK, Placed

\* The commit.
LEMMA CommitTypes ==
  ASSUME CAsTypeOK, Placed, NEW p \in CAProcs, Commit(p)
  PROVE  /\ CAsTypeOK' /\ Placed'
         /\ pending'[p] = NoTx /\ \A q \in CAProcs \ {p} : pending'[q] = pending[q]
         /\ \A b \in CAs : state'[b] = IF pending[p].rows[b] # None THEN pending[p].rows[b].state ELSE state[b]
<1>1. pending[p].at \in Nat /\ pending[p].rows \in [CAs -> Row \cup {None}]
  BY DEF CAsTypeOK, Tx
<1>2. \A b \in Locked(p) : b \in CAs /\ pending[p].rows[b].state \in CAState /\ pending[p].rows[b].setting \in Nat
  BY <1>1 DEF Locked, Row
<1>3. state' \in [CAs -> CAState] /\ setting' \in [CAs -> Nat] /\ newest' \in Nat
  BY <1>1, <1>2 DEF Commit, CAsTypeOK
<1>4. caReq[p] \in CARequest /\ [caReq[p] EXCEPT !.pc = "apply"] \in CARequest
  BY Forms DEF CAsTypeOK, CAPc
<1>5. caReq'[p].pc = "apply" /\ caReq'[p].ca = caReq[p].ca /\ caReq'[p].at = caReq[p].at
  BY <1>4 DEF Commit, CARequest, CAsTypeOK
<1>6. \A b \in CAs : state'[b] = IF pending[p].rows[b] # None THEN pending[p].rows[b].state ELSE state[b]
  BY DEF Commit, Locked
<1> QED BY <1>3, <1>4, <1>5, <1>6, Forms DEF Commit, trustVars, CAsTypeOK, Placed

-----------------------------------------------------------------------------
(* Locks.                                                                  *)

\* Rolling transactions back, or leaving all as it is, keeps the invariant.
LEMMA DroppedKeeps ==
  ASSUME Locking, OneOfEach, state' = state,
         \A p \in CAProcs : pending'[p] \in {pending[p], NoTx}
  PROVE  Locking' /\ OneOfEach'
<1>1. \A p \in CAProcs, b \in CAs : pending'[p].rows[b] \in {pending[p].rows[b], None}
  BY NothingLocked
<1>2. Separate'
  BY <1>1 DEF Locking, Separate
<1>3. \A p \in CAProcs : pending'[p] = pending[p] => (Mild(p)' <=> Mild(p)) /\ (Rotating(p)' <=> Rotating(p))
  BY DEF Mild, Rotating, Brings
<1>4. \A p \in CAProcs : pending'[p] = NoTx => Mild(p)' /\ ~ Rotating(p)'
  BY NothingLocked DEF Mild, Rotating, Brings
<1>5. Shaped' /\ Alone'
  BY <1>3, <1>4 DEF Locking, Shaped, Alone
<1> QED BY <1>2, <1>5 DEF Locking, OneOfEach

\* Statements that find their rows free keep the invariant, if what they write
\* is mild, or a rotation beside no other.
LEMMA ExecuteKeeps ==
  ASSUME Locking, OneOfEach, NEW p \in CAProcs, state' = state,
         \A q \in CAProcs \ {p} : pending'[q] = pending[q],
         \A q \in CAProcs \ {p}, b \in CAs : pending'[p].rows[b] # None => pending[q].rows[b] = None,
         \/ Mild(p)' /\ ~ Rotating(p)'
         \/ Rotating(p)' /\ \A q \in CAProcs \ {p} : ~ Rotating(q)
  PROVE  Locking' /\ OneOfEach'
<1>1. Separate'
  BY DEF Locking, Separate
<1>2. \A q \in CAProcs \ {p} : (Mild(q)' <=> Mild(q)) /\ (Rotating(q)' <=> Rotating(q))
  BY DEF Mild, Rotating, Brings
<1>3. Shaped' /\ Alone'
  BY <1>2 DEF Locking, Shaped, Alone
<1> QED BY <1>1, <1>3 DEF Locking, OneOfEach

\* A commit keeps the invariant.
LEMMA CommitKeeps ==
  ASSUME CAsTypeOK, Locking, OneOfEach, NEW p \in CAProcs,
         pending'[p] = NoTx, \A q \in CAProcs \ {p} : pending'[q] = pending[q],
         \A b \in CAs : state'[b] = IF pending[p].rows[b] # None THEN pending[p].rows[b].state ELSE state[b]
  PROVE  Locking' /\ OneOfEach'
<1>1. Separate'
  BY NothingLocked DEF Locking, Separate
<1>2. Mild(p)' /\ ~ Rotating(p)'
  BY NothingLocked DEF Mild, Rotating, Brings
<1>3. \A q \in CAProcs \ {p}, b \in CAs : pending[q].rows[b] # None => state'[b] = state[b]
  BY DEF Locking, Separate
<1>4. \A q \in CAProcs \ {p} : Mild(q) => Mild(q)'
  BY <1>3 DEF Mild
<1>5. ASSUME NEW q \in CAProcs \ {p}, NEW a \in CAs, Brings(q, a) PROVE Brings(q, a)'
  <2>1. Mild(p)
    BY <1>5 DEF Locking, Shaped, Alone, Rotating
  <2>2. \A b \in CAs : state[b] \in {"active", "retiring"} => pending[p].rows[b] = None
    BY <1>5 DEF Brings, Locking, Separate
  <2>3. \A b \in CAs : pending[p].rows[b] # None => pending[p].rows[b].state = "retired"
    BY <2>1, <2>2 DEF Mild
  <2>4. \A b \in CAs : state'[b] = state[b] \/ (state'[b] = "retired" /\ state[b] \notin {"active", "retiring"})
    BY <2>2, <2>3
  <2> QED BY <1>3, <1>5, <2>4 DEF Brings
<1>6. \A q \in CAProcs \ {p} : Rotating(q)' => Rotating(q) \/ Mild(q)
  BY DEF Locking, Shaped
<1>7. Shaped'
  BY <1>2, <1>4, <1>5 DEF Locking, Shaped, Rotating
<1>8. ASSUME NEW q \in CAProcs \ {p}, Rotating(q)' PROVE Rotating(q)
  <2>1. PICK a \in CAs : Brings(q, a)'
    BY <1>8 DEF Rotating
  <2>2. pending[q].rows[a] # None /\ pending[q].rows[a].state = "active" /\ state[a] \notin {"active", "retiring"}
    BY <1>3, <2>1 DEF Brings
  <2>3. ~ Mild(q)
    BY <2>2 DEF Mild
  <2> QED BY <2>3 DEF Locking, Shaped
<1>9. Alone'
  BY <1>2, <1>8 DEF Locking, Alone
<1>10. OneOfEach'
  <2>1. CASE Mild(p)
    <3>1. \A b \in CAs : state'[b] \in {"active", "retiring"} => state'[b] = state[b]
      BY <2>1 DEF Mild
    <3> QED BY <3>1 DEF OneOfEach
  <2>2. CASE Rotating(p)
    <3>1. PICK a \in CAs : Brings(p, a)
      BY <2>2 DEF Rotating
    <3>2. state'[a] = "active"
      BY <3>1 DEF Brings
    <3>3. \A b \in CAs \ {a} : state'[b] # "active" /\ (state'[b] = "retiring" => state[b] = "active")
      BY <3>1 DEF Brings
    <3> QED BY <3>2, <3>3 DEF OneOfEach
  <2> QED BY <2>1, <2>2 DEF Locking, Shaped
<1> QED BY <1>1, <1>7, <1>9, <1>10 DEF Locking

-----------------------------------------------------------------------------
(* The steps of a request.                                                 *)

\* RotateOperatorCA: it finds the trusted rows free and nobody else bringing in
\* an active row.
LEMMA RotateKeeps ==
  ASSUME IndInv, NEW p \in CAProcs, Rotate(p)
  PROVE  IndInv'
<1> DEFINE a == caReq[p].ca
           rows == [b \in CAs |-> IF b = a THEN [state |-> "active", setting |-> clock + 1]
                                 ELSE IF b \in Trusted THEN [state |-> "retiring", setting |-> setting[b]]
                                 ELSE None]
<1>1. caReq[p].pc = "rotate" /\ a \in CAs
  BY DEF Rotate, IndInv, Placed
<1>2. CASE Refused(p)
  <2>1. CAsTypeOK' /\ Placed' /\ state' = state /\ pending' = pending
    BY <1>1, <1>2, RequestTypes DEF IndInv
  <2> QED BY <2>1, DroppedKeeps DEF IndInv
<1>3. CASE Execute(p, rows) /\ \A b \in Trusted : b # a /\ state[b] = "active"
  <2>1. rows \in [CAs -> Row \cup {None}]
    BY Forms DEF IndInv, CAsTypeOK, CAState
  <2>2. /\ CAsTypeOK' /\ Placed' /\ state' = state /\ pending'[p].rows = rows
        /\ \A q \in CAProcs \ {p} : pending'[q] = pending[q]
    <3> HIDE DEF rows
    <3> QED BY <1>1, <1>3, <2>1, ExecuteTypes DEF IndInv
  <2>3. \A n \in Nat, s \in CAState : [state |-> s, setting |-> n] # None
    BY Forms, RowAssumption
  <2>4. \A b \in CAs : b = a => rows[b] # None /\ rows[b].state = "active"
    BY <2>3 DEF IndInv, CAsTypeOK, CAState
  <2>5. \A b \in Trusted : rows[b] # None /\ rows[b].state = "retiring"
    BY <1>3, <2>3 DEF IndInv, CAsTypeOK, CAState, Trusted
  <2>6. \A b \in CAs \ {a} : b \notin Trusted => rows[b] = None
    OBVIOUS
  <2>7. ASSUME NEW c \in CAs, c = a PROVE Brings(p, c)'
    <3>1. /\ state'[c] \notin {"active", "retiring"}
          /\ pending'[p].rows[c] # None /\ pending'[p].rows[c].state = "active"
      BY <1>1, <1>3, <2>2, <2>4, <2>7 DEF Trusted
    <3>2. \A b \in CAs \ {c} : state'[b] \in {"active", "retiring"} =>
            state'[b] = "active" /\ pending'[p].rows[b] # None /\ pending'[p].rows[b].state = "retiring"
      BY <1>3, <2>2, <2>5 DEF Trusted
    <3>3. \A b \in CAs \ {c} : state'[b] \notin {"active", "retiring"} => pending'[p].rows[b] = None
      BY <2>2, <2>6, <2>7 DEF Trusted
    <3> QED BY <3>1, <3>2, <3>3 DEF Brings
  <2>8. Free(p, Trusted \cup {a})
    BY DEF Rotate, RowsFree
  <2>9. \A q \in CAProcs \ {p}, b \in CAs : pending'[p].rows[b] # None => pending[q].rows[b] = None
    BY <2>2, <2>6, <2>8 DEF Free, Locked
  <2>10. \A q \in CAProcs \ {p} : ~ Rotating(q)
    BY DEF Rotate, RowsFree, Rotating, Brings, Locked
  <2>11. Rotating(p)'
    BY <1>1, <2>7 DEF Rotating
  <2> QED BY <2>2, <2>9, <2>10, <2>11, ExecuteKeeps DEF IndInv
<1> QED BY <1>2, <1>3 DEF Rotate

\* A write of one row, retired or as it was, finds it free.
LEMMA WriteKeeps ==
  ASSUME IndInv, NEW p \in CAProcs, caReq[p].pc # "idle", Free(p, {caReq[p].ca}),
         NEW s \in CAState, NEW n \in Nat,
         \/ s = "retired"
         \/ s = state[caReq[p].ca] /\ s \in {"active", "retiring"},
         Execute(p, [b \in CAs |-> IF b = caReq[p].ca THEN [state |-> s, setting |-> n] ELSE None])
  PROVE  IndInv'
<1> DEFINE a == caReq[p].ca
           rows == [b \in CAs |-> IF b = a THEN [state |-> s, setting |-> n] ELSE None]
<1>1. a \in CAs
  BY DEF IndInv, Placed
<1>2. rows \in [CAs -> Row \cup {None}]
  BY Forms
<1>3. /\ CAsTypeOK' /\ Placed' /\ state' = state /\ pending'[p].rows = rows
      /\ \A q \in CAProcs \ {p} : pending'[q] = pending[q]
  <2> HIDE DEF rows
  <2> QED BY <1>2, ExecuteTypes DEF IndInv, rows
<1>4. rows[a].state = s /\ \A b \in CAs \ {a} : rows[b] = None
  BY <1>1
<1>5. \A q \in CAProcs \ {p}, b \in CAs : pending'[p].rows[b] # None => pending[q].rows[b] = None
  BY <1>1, <1>3, <1>4 DEF Free, Locked
<1>6. \A b \in CAs : pending'[p].rows[b] # None =>
        /\ pending'[p].rows[b].state = s
        /\ s = "retired" \/ (s = state'[b] /\ s \in {"active", "retiring"})
  BY <1>1, <1>3, <1>4
<1>7. Mild(p)'
  BY <1>6 DEF Mild
<1>8. ~ Rotating(p)'
  BY <1>6 DEF Rotating, Brings
<1> QED BY <1>3, <1>5, <1>7, <1>8, ExecuteKeeps DEF IndInv

\* Every step of the system keeps the invariant.
LEMMA StepKeeps == ASSUME IndInv, [CAsNext]_casVars PROVE IndInv'
<1>1. CASE UNCHANGED casVars
  <2>1. CAsTypeOK' /\ Placed'
    BY <1>1 DEF IndInv, casVars, caTables, trustVars, CAsTypeOK, Placed
  <2>2. Locking' /\ OneOfEach'
    BY <1>1, DroppedKeeps DEF IndInv, casVars, caTables
  <2> QED BY <2>1, <2>2 DEF IndInv
<1>2. ASSUME NEW r \in TrustReplicas,
             TrustBoot(r) \/ PollVersion(r) \/ PollRebuild(r) \/ PollFails(r)
      PROVE  IndInv'
  <2>1. CAsTypeOK' /\ Placed' /\ state' = state /\ pending' = pending
    BY <1>2, ReplicaTypes DEF IndInv
  <2> QED BY <2>1, DroppedKeeps DEF IndInv
<1>3. ASSUME NEW r \in TrustReplicas, TrustCrash(r) PROVE IndInv'
  BY <1>3, CrashTypes, DroppedKeeps DEF IndInv
<1>4. ASSUME NEW p \in CAProcs, CAStep(p) PROVE IndInv'
  <2>1. CASE Rotate(p)
    BY <2>1, RotateKeeps
  <2>2. CASE Retire(p)
    <3>1. setting[caReq[p].ca] \in Nat /\ "retired" \in CAState
      BY <2>2 DEF Retire, IndInv, Placed, CAsTypeOK, CAState
    <3>2. Execute(p, [b \in CAs |-> IF b = caReq[p].ca
                        THEN [state |-> "retired", setting |-> setting[caReq[p].ca]] ELSE None])
      BY <2>2 DEF Retire
    <3> QED BY <2>2, <3>1, <3>2, WriteKeeps DEF Retire
  <2>3. CASE Set(p)
    <3>1. CASE caReq[p].ca \in Trusted
      <4>1. state[caReq[p].ca] \in CAState /\ clock + 1 \in Nat /\ state[caReq[p].ca] \in {"active", "retiring"}
        BY <3>1 DEF IndInv, CAsTypeOK, Trusted
      <4>2. Execute(p, [b \in CAs |-> IF b = caReq[p].ca
                          THEN [state |-> state[caReq[p].ca], setting |-> clock + 1] ELSE None])
        BY <2>3, <3>1 DEF Set
      <4> QED BY <2>3, <4>1, <4>2, WriteKeeps DEF Set
    <3>2. CASE caReq[p].ca \notin Trusted
      <4>1. CAsTypeOK' /\ Placed' /\ state' = state /\ pending' = pending
        BY <2>3, <3>2, RequestTypes DEF IndInv, Set
      <4> QED BY <4>1, DroppedKeeps DEF IndInv
    <3> QED BY <3>1, <3>2
  <2>4. CASE Commit(p)
    BY <2>4, CommitTypes, CommitKeeps DEF IndInv
  <2>5. CASE Apply(p)
    <3>1. CAsTypeOK' /\ Placed' /\ state' = state /\ pending' = pending
      BY <2>5, RequestTypes DEF IndInv
    <3> QED BY <3>1, DroppedKeeps DEF IndInv
  <2> QED BY <1>4, <2>1, <2>2, <2>3, <2>4, <2>5 DEF CAStep
<1>5. ASSUME NEW p \in CAProcs, Abort(p) PROVE IndInv'
  BY <1>5, AbortTypes, DroppedKeeps DEF IndInv
<1>6. ASSUME NEW p \in CAProcs, NEW r \in TrustReplicas, NEW a \in CAs, Call(p, r, a) PROVE IndInv'
  <2>1. CAsTypeOK' /\ Placed' /\ state' = state /\ pending' = pending
    BY <1>6, RequestTypes DEF IndInv
  <2> QED BY <2>1, DroppedKeeps DEF IndInv
<1> QED BY <1>1, <1>2, <1>3, <1>4, <1>5, <1>6 DEF CAsNext

\* First run leaves one active operator CA and no transaction.
LEMMA InitHolds == CAsInit => IndInv
<1> SUFFICES ASSUME CAsInit PROVE IndInv
  OBVIOUS
<1>1. CAsTypeOK /\ Placed
  BY Forms, OperatorCAsAssumption DEF CAsInit, CAsTypeOK, Placed, CAState, Anchors, NoCARequest
<1>2. Locking
  BY NothingLocked DEF CAsInit, Locking, Separate, Shaped, Alone, Mild, Rotating, Brings
<1>3. OneOfEach
  BY DEF CAsInit, OneOfEach
<1> QED BY <1>1, <1>2, <1>3 DEF IndInv

-----------------------------------------------------------------------------
(* Theorems.                                                               *)

\* The invariant holds in every state.
LEMMA Inductive == CAsSpec => []IndInv
BY InitHolds, StepKeeps, PTL DEF CAsSpec

\* Rows, transactions, generations and requests keep their types, and only a
\* request about to commit has an open transaction.
THEOREM TypeCorrect == CAsSpec => []CAsTypeOK
<1>1. IndInv => CAsTypeOK
  BY DEF IndInv
<1> QED BY <1>1, Inductive, PTL

\* However many rotations, retirements and settings changes overlap on however
\* many replicas, and whichever of them fail, there is never a second active or
\* a second retiring operator CA (RotateOperatorCA).
THEOREM RotationsExclude == CAsSpec => []OneOfEach
<1>1. IndInv => OneOfEach
  BY DEF IndInv
<1> QED BY <1>1, Inductive, PTL

-----------------------------------------------------------------------------
(* One request at a time.                                                  *)

\* A retirement is of a row that is retiring, and no transaction retires the
\* active row.
Spares(p) ==
  /\ caReq[p].pc = "retire" => state[caReq[p].ca] = "retiring"
  /\ \A b \in CAs : pending[p].rows[b] # None /\ pending[p].rows[b].state = "retired" => state[b] # "active"
Kept == ActiveKept /\ \A p \in CAProcs : Spares(p)

\* A transaction is newer than every visible row.
Fresh == newest =< clock /\ \A p \in CAProcs : caReq[p].pc = "commit" =>
  pending[p].at > newest /\ pending[p].at =< clock

\* A replica that polled the version t of the rows ld trusts them; no version it
\* has read, v or l, is newer than the newest row.
Watching(l, v, g, n, t, ld) ==
  /\ l # None => l.newest =< n
  /\ v # None => v.newest =< n
  /\ l # None /\ l = t => g = ld
Watched == \A r \in TrustReplicas : Watching(lastSeen[r], polling[r], gen[r], newest, TrustVersion, Load)

Serial == Kept /\ Fresh /\ Watched

\* Rows that stay show the same version and load the same.
LEMMA SameRows ==
  ASSUME UNCHANGED <<state, setting, newest>>
  PROVE  UNCHANGED <<TrustVersion, Load>>
BY DEF TrustVersion, Load, Trusted

\* The rows stay, and so does what the replicas have; transactions may go.
LEMMA SerialFrame ==
  ASSUME Serial, UNCHANGED <<state, setting, newest, clock, gen, polling, lastSeen>>,
         \A p \in CAProcs : pending'[p] \in {pending[p], NoTx},
         \A p \in CAProcs : caReq'[p].pc = "commit" => caReq'[p] = caReq[p] /\ pending'[p] = pending[p],
         \A p \in CAProcs : caReq'[p].pc = "retire" => caReq'[p] = caReq[p] \/ state[caReq'[p].ca] = "retiring"
  PROVE  Serial'
<1>1. Kept'
  <2>1. ActiveKept'
    BY DEF Serial, Kept, ActiveKept
  <2>2. ASSUME NEW p \in CAProcs PROVE Spares(p)'
    BY NothingLocked DEF Serial, Kept, Spares
  <2> QED BY <2>1, <2>2 DEF Kept
<1>2. Fresh'
  BY DEF Serial, Fresh
<1>3. Watched'
  BY SameRows DEF Serial, Watched
<1> QED BY <1>1, <1>2, <1>3 DEF Serial

\* A replica's steps: only what it has read changes.
LEMMA ReplicaWatches ==
  ASSUME IndInv, Serial, NEW r \in TrustReplicas,
         TrustBoot(r) \/ PollVersion(r) \/ PollRebuild(r) \/ PollFails(r)
  PROVE  Serial'
<1>1. UNCHANGED <<state, setting, newest, clock, pending, caReq>>
  BY DEF TrustBoot, PollVersion, PollRebuild, PollFails, caTables
<1>2. Kept' /\ Fresh'
  BY <1>1 DEF Serial, Kept, ActiveKept, Spares, Fresh
<1>3. UNCHANGED <<TrustVersion, Load>>
  BY <1>1, SameRows
<1>4. \A s \in TrustReplicas \ {r} : UNCHANGED <<gen[s], polling[s], lastSeen[s]>>
  BY DEF TrustBoot, PollVersion, PollRebuild, PollFails, IndInv, CAsTypeOK
<1>5. Watching(lastSeen[r], polling[r], gen[r], newest, TrustVersion, Load)
  BY DEF Serial, Watched
<1>6. TrustVersion.newest = newest /\ newest \in Nat
  BY DEF TrustVersion, IndInv, CAsTypeOK
<1>7. Watching(lastSeen[r], polling[r], gen[r], newest, TrustVersion, Load)'
  <2>1. CASE TrustBoot(r)
    <3>1. gen'[r] = Load /\ UNCHANGED <<polling, lastSeen>>
      BY <2>1 DEF TrustBoot, IndInv, CAsTypeOK
    <3> QED BY <1>1, <1>3, <1>5, <3>1 DEF Watching
  <2>2. CASE PollVersion(r)
    <3>1. polling'[r] = TrustVersion /\ UNCHANGED <<gen, lastSeen>>
      BY <2>2 DEF PollVersion, IndInv, CAsTypeOK
    <3> QED BY <1>1, <1>3, <1>5, <1>6, <3>1 DEF Watching
  <2>3. CASE PollRebuild(r)
    <3>1. /\ gen'[r] = IF polling[r] # lastSeen[r] THEN Load ELSE gen[r]
          /\ lastSeen'[r] = polling[r] /\ polling'[r] = None
      BY <2>3 DEF PollRebuild, IndInv, CAsTypeOK
    <3> QED BY <1>1, <1>3, <1>5, <3>1 DEF Watching
  <2>4. CASE PollFails(r)
    <3>1. polling'[r] = None /\ UNCHANGED <<gen, lastSeen>>
      BY <2>4 DEF PollFails, IndInv, CAsTypeOK
    <3> QED BY <1>1, <1>3, <1>5, <3>1 DEF Watching
  <2> QED BY <2>1, <2>2, <2>3, <2>4
<1>8. Watched'
  BY <1>1, <1>3, <1>4, <1>7 DEF Serial, Watched
<1> QED BY <1>2, <1>8 DEF Serial

\* A crash.
LEMMA CrashWatches ==
  ASSUME IndInv, Serial, NEW r \in TrustReplicas, TrustCrash(r)
  PROVE  Serial'
<1>1. UNCHANGED <<state, setting, newest, clock>>
  BY DEF TrustCrash
<1>2. \A p \in CAProcs : \/ caReq'[p] = caReq[p] /\ pending'[p] = pending[p]
                         \/ caReq'[p] = NoCARequest /\ pending'[p] = NoTx
  BY DEF TrustCrash
<1>3. Kept' /\ Fresh'
  BY <1>1, <1>2, NothingLocked DEF Serial, Kept, ActiveKept, Spares, Fresh, NoCARequest
<1>4. \A s \in TrustReplicas \ {r} : UNCHANGED <<gen[s], polling[s], lastSeen[s]>>
  BY DEF TrustCrash, IndInv, CAsTypeOK
<1>5. polling'[r] = None /\ lastSeen'[r] = None
  BY DEF TrustCrash, IndInv, CAsTypeOK
<1>6. Watched'
  BY <1>1, <1>4, <1>5, SameRows DEF Serial, Watched, Watching
<1> QED BY <1>3, <1>6 DEF Serial

\* The statements of a transaction, which is newer than every visible row.
LEMMA ExecuteSerial ==
  ASSUME IndInv, Serial, \A p, q \in CAProcs : p = q, NEW p \in CAProcs, NEW rows,
         Execute(p, rows),
         \A b \in CAs : rows[b] # None /\ rows[b].state = "retired" => state[b] # "active"
  PROVE  Serial'
<1>1. UNCHANGED <<state, setting, newest, gen, polling, lastSeen>> /\ clock' = clock + 1
      /\ pending' = [pending EXCEPT ![p] = [at |-> clock + 1, rows |-> rows]]
  BY DEF Execute, trustVars
<1>2. pending'[p].at = clock + 1 /\ pending'[p].rows = rows /\ clock \in Nat /\ newest \in Nat
  BY <1>1 DEF IndInv, CAsTypeOK
<1>3. caReq'[p].pc = "commit"
  BY DEF Execute, IndInv, CAsTypeOK, CARequest
<1>4. \A q \in CAProcs : q = p
  OBVIOUS
<1>5. Kept'
  BY <1>1, <1>2, <1>3, <1>4 DEF Serial, Kept, ActiveKept, Spares
<1>6. Fresh'
  <2>1. clock + 1 > newest /\ newest =< clock + 1 /\ clock + 1 =< clock + 1
    BY <1>2 DEF Serial, Fresh
  <2> QED BY <1>1, <1>2, <1>4, <2>1 DEF Fresh
<1>7. Watched'
  BY <1>1, SameRows DEF Serial, Watched
<1> QED BY <1>5, <1>6, <1>7 DEF Serial

\* A commit moves the version past every one that was polled, and leaves an
\* active row.
LEMMA CommitSerial ==
  ASSUME IndInv, Serial, \A p, q \in CAProcs : p = q, NEW p \in CAProcs, Commit(p)
  PROVE  Serial'
<1>1. pending[p].at > newest /\ pending[p].at \in Nat /\ newest \in Nat /\ clock \in Nat
  BY DEF Commit, Serial, Fresh, IndInv, CAsTypeOK, Tx
<1>2. newest' = pending[p].at /\ newest' > newest /\ newest' \in Nat
  BY <1>1 DEF Commit
<1>3. caReq'[p].pc = "apply" /\ pending'[p] = NoTx /\ \A q \in CAProcs : q = p
  BY DEF Commit, IndInv, CAsTypeOK, CARequest
<1>4. \A b \in CAs : state'[b] = IF pending[p].rows[b] # None THEN pending[p].rows[b].state ELSE state[b]
  BY DEF Commit, Locked
<1>5. ActiveKept'
  <2>1. CASE Rotating(p)
    <3>1. PICK a \in CAs : Brings(p, a)
      BY <2>1 DEF Rotating
    <3> QED BY <1>4, <3>1 DEF Brings, ActiveKept
  <2>2. CASE Mild(p)
    <3>1. PICK a \in CAs : state[a] = "active"
      BY DEF Serial, Kept, ActiveKept
    <3>2. state'[a] = "active"
      BY <1>4, <2>2, <3>1 DEF Mild, Serial, Kept, Spares
    <3> QED BY <3>2 DEF ActiveKept
  <2> QED BY <2>1, <2>2 DEF IndInv, Locking, Shaped
<1>6. Kept'
  BY <1>3, <1>5, NothingLocked DEF Kept, Spares
<1>7. newest' =< clock'
  <2>1. pending[p].at =< clock
    BY DEF Serial, Fresh, Commit
  <2> QED BY <1>1, <1>2, <2>1 DEF Commit
<1>8. Fresh'
  BY <1>3, <1>7 DEF Fresh
<1>9. ASSUME NEW r \in TrustReplicas
      PROVE  Watching(lastSeen[r], polling[r], gen[r], newest, TrustVersion, Load)'
  <2>1. UNCHANGED <<lastSeen, polling, gen>>
    BY DEF Commit, trustVars
  <2>2. Watching(lastSeen[r], polling[r], gen[r], newest, TrustVersion, Load)
    BY DEF Serial, Watched
  <2>3. (lastSeen[r] # None => lastSeen[r].newest \in Nat) /\ (polling[r] # None => polling[r].newest \in Nat)
    BY DEF IndInv, CAsTypeOK, Version
  <2>4. (lastSeen[r] # None => lastSeen[r].newest < newest') /\ (polling[r] # None => polling[r].newest < newest')
    BY <1>1, <1>2, <2>2, <2>3 DEF Watching
  <2>5. TrustVersion'.newest = newest'
    BY DEF TrustVersion
  <2>6. lastSeen[r] # None => lastSeen[r] # TrustVersion'
    BY <1>2, <2>3, <2>4, <2>5
  <2> QED BY <1>2, <2>1, <2>3, <2>4, <2>6 DEF Watching
<1> QED BY <1>6, <1>8, <1>9 DEF Serial, Watched

\* The steps of a request, where there is one at a time.
LEMMA RequestSerial ==
  ASSUME IndInv, Serial, \A p, q \in CAProcs : p = q, NEW p \in CAProcs,
         \/ CAStep(p) \/ Abort(p) \/ \E r \in TrustReplicas, a \in CAs : Call(p, r, a)
  PROVE  Serial'
<1>0. caReq[p] \in CARequest /\ \A q \in CAProcs : q = p
  BY DEF IndInv, CAsTypeOK
<1>1. ASSUME Refused(p) PROVE Serial'
  <2>1. caReq'[p].pc = "idle" /\ UNCHANGED <<state, setting, newest, clock, pending, gen, polling, lastSeen>>
    BY <1>1 DEF Refused, NoCARequest, caTables, trustVars, IndInv, CAsTypeOK
  <2> QED BY <1>0, <2>1, SerialFrame
<1>2. CASE Rotate(p)
  <2> DEFINE a == caReq[p].ca
             rows == [b \in CAs |-> IF b = a THEN [state |-> "active", setting |-> clock + 1]
                                    ELSE IF b \in Trusted THEN [state |-> "retiring", setting |-> setting[b]]
                                    ELSE None]
  <2>1. \A b \in CAs : rows[b] # None => rows[b].state # "retired"
    OBVIOUS
  <2>2. Refused(p) \/ Execute(p, rows)
    BY <1>2 DEF Rotate
  <2> HIDE DEF rows
  <2> QED BY <1>1, <2>1, <2>2, ExecuteSerial
<1>3. CASE Retire(p)
  <2> DEFINE rows == [b \in CAs |-> IF b = caReq[p].ca THEN [state |-> "retired", setting |-> setting[b]] ELSE None]
  <2>1. state[caReq[p].ca] = "retiring"
    BY <1>3 DEF Retire, Serial, Kept, Spares
  <2>2. \A b \in CAs : rows[b] # None => state[b] # "active"
    BY <2>1
  <2>3. Execute(p, rows)
    BY <1>3 DEF Retire
  <2> HIDE DEF rows
  <2> QED BY <2>2, <2>3, ExecuteSerial
<1>4. CASE Set(p)
  <2> DEFINE rows == [b \in CAs |-> IF b = caReq[p].ca THEN [state |-> state[b], setting |-> clock + 1] ELSE None]
  <2>1. \A b \in CAs : rows[b] # None /\ rows[b].state = "retired" => state[b] # "active"
    OBVIOUS
  <2>2. Refused(p) \/ Execute(p, rows)
    BY <1>4 DEF Set
  <2> HIDE DEF rows
  <2> QED BY <1>1, <2>1, <2>2, ExecuteSerial
<1>5. CASE Apply(p)
  <2>1. caReq'[p].pc = "idle" /\ UNCHANGED <<state, setting, newest, clock, pending, polling, lastSeen>>
    BY <1>5 DEF Apply, NoCARequest, caTables, IndInv, CAsTypeOK
  <2>2. \A r \in TrustReplicas : gen'[r] = gen[r] \/ gen'[r] = Load
    BY <1>5 DEF Apply, IndInv, CAsTypeOK
  <2>3. Kept' /\ Fresh'
    BY <1>0, <2>1 DEF Serial, Kept, ActiveKept, Spares, Fresh
  <2>4. Watched'
    BY <2>1, <2>2, SameRows DEF Serial, Watched, Watching
  <2> QED BY <2>3, <2>4 DEF Serial
<1>6. CASE Abort(p)
  <2>1. caReq'[p].pc = "idle" /\ UNCHANGED <<state, setting, newest, clock, gen, polling, lastSeen>>
        /\ pending'[p] = NoTx
    BY <1>6 DEF Abort, NoCARequest, trustVars, IndInv, CAsTypeOK
  <2> QED BY <1>0, <2>1, SerialFrame
<1>7. ASSUME NEW r \in TrustReplicas, NEW a \in CAs, Call(p, r, a) PROVE Serial'
  <2>1. PICK k \in {"rotate", "retire", "set"} : Admit(p, r, a, k) /\ (k = "retire" => state[a] = "retiring")
    BY <1>7 DEF Call, RegisterCall, RetireCall, SetCall
  <2>2. caReq'[p].pc = k /\ caReq'[p].ca = a
        /\ UNCHANGED <<state, setting, newest, clock, pending, gen, polling, lastSeen>>
    BY <2>1 DEF Admit, caTables, trustVars, IndInv, CAsTypeOK
  <2> QED BY <1>0, <2>1, <2>2, SerialFrame
<1> QED BY <1>2, <1>3, <1>4, <1>5, <1>6, <1>7, CommitSerial DEF CAStep

\* What holds where there is one request at a time.
LEMMA SerialHolds ==
  ASSUME \A p, q \in CAProcs : p = q
  PROVE  CAsSpec => []Serial
<1>1. CAsInit => Serial
  <2> SUFFICES ASSUME CAsInit PROVE Serial
    OBVIOUS
  <2>1. Kept
    BY NothingLocked, OperatorCAsAssumption DEF CAsInit, Kept, ActiveKept, Spares, NoCARequest
  <2>2. Fresh /\ Watched
    BY DEF CAsInit, Fresh, Watched, Watching, NoCARequest
  <2> QED BY <2>1, <2>2 DEF Serial
<1>2. ASSUME IndInv, Serial, [CAsNext]_casVars PROVE Serial'
  <2>1. CASE UNCHANGED casVars
    BY <1>2, <2>1, SerialFrame DEF casVars, caTables, trustVars
  <2> QED BY <1>2, <2>1, ReplicaWatches, CrashWatches, RequestSerial DEF CAsNext
<1> QED BY <1>1, <1>2, Inductive, PTL DEF CAsSpec

\* Where API writes don't overlap, rotation and retirement always leave an active
\* operator CA (RotateOperatorCA, RetireOperatorCA).  Overlapping ones may not.
THEOREM ActiveRemains ==
  ASSUME \A p, q \in CAProcs : p = q
  PROVE  CAsSpec => []ActiveKept
<1>1. Serial => ActiveKept
  BY DEF Serial, Kept
<1> QED BY <1>1, SerialHolds, PTL

\* Where API writes don't overlap, no change hides behind an unchanged trust
\* version, however many replicas poll, crash or fail: one whose poller has seen
\* the current version, and that is not about to rebuild, trusts exactly the rows
\* of the database (OperatorTrustVersion, PollOnce).  Overlapping ones may.
THEOREM NoChangeMissed ==
  ASSUME \A p, q \in CAProcs : p = q
  PROVE  CAsSpec => []NothingMissed
<1>1. IndInv /\ Serial => NothingMissed
  <2> SUFFICES ASSUME IndInv, Serial, NEW r \in running, lastSeen[r] = TrustVersion
               PROVE  gen[r] = Load
    BY DEF NothingMissed
  <2>1. TrustVersion # None /\ r \in TrustReplicas
    BY LoadType, RowAssumption DEF IndInv, CAsTypeOK
  <2> QED BY <2>1 DEF Serial, Watched, Watching
<1> QED BY <1>1, Inductive, SerialHolds, PTL
=============================================================================
