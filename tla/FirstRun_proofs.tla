--------------------------- MODULE FirstRun_proofs ---------------------------
(***************************************************************************)
(* Proofs about FirstRun for any number of replicas, requests, tokens,     *)
(* sessions, operator CAs, certificates, faults and resets.                *)
(***************************************************************************)
EXTENDS FirstRun, FiniteSetTheorems, TLAPS

-----------------------------------------------------------------------------
(* Types: each action keeps TypeOK and Placed.                             *)

\* The requests that handlers build are requests.
LEMMA RequestForms ==
  /\ NoRequest \in Request
  /\ \A r \in Replicas : [NoRequest EXCEPT !.pc = "issue", !.at = r] \in Request
  /\ \A r \in Replicas, t \in Tokens :
       [NoRequest EXCEPT !.pc = "start", !.at = r, !.tok = t] \in Request
  /\ \A r \in Replicas, s \in Sessions, k \in Pc, a \in CAs \cup {None}, c \in Certs \cup {None} :
       [NoRequest EXCEPT !.pc = k, !.at = r, !.sess = s, !.ca = a, !.cert = c] \in Request
  /\ \A q \in Request, k \in Pc : [q EXCEPT !.pc = k] \in Request
  /\ \A q \in Request, k \in Pc, cs \in SUBSET Certs : [q EXCEPT !.pc = k, !.todo = cs] \in Request
  /\ \A q \in Request, cs \in SUBSET Certs : [q EXCEPT !.todo = cs] \in Request
BY DEF NoRequest, Request, Pc

\* fail leaves the window below its limit, the session table a table, and the
\* slot empty or about to issue a token on the same replica.
LEMMA FailTypes ==
  ASSUME TypeOK, NEW p \in Procs, NEW r \in up, NEW ss \in [Sessions -> SessionState],
         Fail(p, r, ss)
  PROVE  /\ fails' \in [Replicas -> 0..(GlobalFailures - 1)]
         /\ session' \in [Sessions -> SessionState]
         /\ req' \in [Procs -> Request]
         /\ \A o \in Procs \ {p} : req'[o] = req[o]
         /\ req'[p].pc \in {"idle", "issue"}
         /\ req'[p].pc # "idle" => req'[p].at = r
<1>1. r \in Replicas /\ fails[r] \in 0..(GlobalFailures - 1)
  BY DEF TypeOK
<1>2. EndAll(ss) \in [Sessions -> SessionState]
  BY DEF EndAll, SessionState
<1>3. CASE fails[r] + 1 < GlobalFailures
  <2>1. fails' = [fails EXCEPT ![r] = fails[r] + 1] /\ session' = ss
        /\ req' = [req EXCEPT ![p] = NoRequest]
    BY <1>3 DEF Fail
  <2>2. fails[r] + 1 \in 0..(GlobalFailures - 1)
    BY <1>1, <1>3, FirstRunAssumption
  <2> QED BY <2>1, <2>2, RequestForms DEF TypeOK, NoRequest
<1>4. CASE ~(fails[r] + 1 < GlobalFailures)
  <2>1. fails' = [fails EXCEPT ![r] = 0] /\ session' = EndAll(ss)
        /\ req' = [req EXCEPT ![p] = [NoRequest EXCEPT !.pc = "issue", !.at = r]]
    BY <1>4 DEF Fail
  <2>2. 0 \in 0..(GlobalFailures - 1)
    BY FirstRunAssumption
  <2>3. req' \in [Procs -> Request] /\ req'[p] = [NoRequest EXCEPT !.pc = "issue", !.at = r]
        /\ \A o \in Procs \ {p} : req'[o] = req[o]
    BY <1>1, <2>1, RequestForms DEF TypeOK
  <2> QED BY <1>2, <2>1, <2>2, <2>3 DEF TypeOK, NoRequest
<1> QED BY <1>3, <1>4

\* The steps of a replica's own goroutines, its start and its polls.
LEMMA ReplicaTypes ==
  ASSUME TypeOK, Placed, NEW r \in Replicas,
         ReplicaStep(r) \/ Boot(r) \/ Poll(r) \/ RefuseClosed(r)
  PROVE  TypeOK' /\ Placed'
<1>1. CASE Boot(r)
  BY <1>1 DEF TypeOK, Placed, Boot, Active, extVars, outVars
<1>2. CASE Tick(r)
  BY <1>2 DEF TypeOK, Placed, Tick, MarkClosed, Stop, extVars, outVars
<1>3. CASE TickLock(r)
  BY <1>3 DEF TypeOK, Placed, TickLock, extVars, outVars
<1>4. CASE TickIssue(r)
  BY <1>4 DEF TypeOK, Placed, TickIssue, Issue, Stop, TokenState, extVars, outVars
<1>5. CASE Banner(r)
  BY <1>5 DEF TypeOK, Placed, Banner, dbVars
<1>6. CASE Poll(r)
  BY <1>6 DEF TypeOK, Placed, Poll, Active, dbVars, extVars, outVars
<1>7. CASE RefuseClosed(r)
  BY <1>7 DEF TypeOK, Placed, RefuseClosed, MarkClosed, Stop, extVars, outVars
<1> QED BY <1>1, <1>2, <1>3, <1>4, <1>5, <1>6, <1>7 DEF ReplicaStep

\* The admin request that closes first run.
LEMMA ObserveTypes ==
  ASSUME TypeOK, Placed, NEW r \in Replicas, NEW c \in Certs, Observe(r, c)
  PROVE  TypeOK' /\ Placed'
BY DEF TypeOK, Placed, Observe, CloseBootstrap, MarkClosed, Stop, EndAll, Deleted, TokenState, SessionState,
       extVars, outVars

\* A crash empties the replica's slots and memory.
LEMMA CrashTypes ==
  ASSUME TypeOK, Placed, NEW r \in Replicas, Crash(r)
  PROVE  TypeOK' /\ Placed'
<1>1. req' \in [Procs -> Request]
  BY RequestForms DEF TypeOK, Crash
<1>2. faults' \in 0..MaxFaults /\ 0 \in 0..(GlobalFailures - 1)
  BY FirstRunAssumption DEF TypeOK, Crash
<1>3. fails' \in [Replicas -> 0..(GlobalFailures - 1)]
  BY <1>2 DEF TypeOK, Crash
<1>4. Placed'
  BY DEF TypeOK, Placed, Crash, NoRequest
<1> QED BY <1>1, <1>2, <1>3, <1>4 DEF TypeOK, Crash

\* The lock connection, the clock and the break-glass command.
LEMMA OutsideTypes ==
  ASSUME TypeOK, Placed,
         \/ LockLost \/ ResetLock \/ ResetProbe \/ ResetCommit
         \/ \E t \in Tokens : ExpireToken(t)
         \/ \E s \in Sessions : LapseSession(s)
         \/ \E r \in Replicas : ForgetFailures(r)
  PROVE  TypeOK' /\ Placed'
<1>1. CASE LockLost
  BY <1>1, FirstRunAssumption DEF TypeOK, Placed, LockLost, repVars
<1>2. CASE ResetLock
  BY <1>2 DEF TypeOK, Placed, ResetLock, repVars
<1>3. CASE ResetProbe
  BY <1>3 DEF TypeOK, Placed, ResetProbe, repVars
<1>4. CASE ResetCommit
  <2>1. resets' \in 0..MaxResets
    BY <1>4, FirstRunAssumption DEF TypeOK, Placed, ResetCommit
  <2>2. token' \in [Tokens -> TokenState] /\ session' \in [Sessions -> SessionState]
    BY <1>4 DEF TypeOK, ResetCommit, Deleted, TokenState, SessionState
  <2>3. ca' \in [CAs -> CAState]
    BY <1>4 DEF TypeOK, ResetCommit, CAState
  <2>4. Placed'
    BY <1>4 DEF TypeOK, Placed, ResetCommit, repVars
  <2> QED BY <1>4, <2>1, <2>2, <2>3, <2>4 DEF TypeOK, ResetCommit, repVars
<1>5. ASSUME NEW t \in Tokens, ExpireToken(t) PROVE TypeOK' /\ Placed'
  BY <1>5 DEF TypeOK, Placed, ExpireToken, TokenState, repVars, extVars, outVars
<1>6. ASSUME NEW s \in Sessions, LapseSession(s) PROVE TypeOK' /\ Placed'
  BY <1>6 DEF TypeOK, Placed, LapseSession, SessionState, repVars, extVars, outVars
<1>7. ASSUME NEW r \in Replicas, ForgetFailures(r) PROVE TypeOK' /\ Placed'
  <2>1. fails' \in [Replicas -> 0..(GlobalFailures - 1)]
    BY <1>7, FirstRunAssumption DEF TypeOK, ForgetFailures
  <2> QED BY <1>7, <2>1 DEF TypeOK, Placed, ForgetFailures, dbVars, extVars, outVars
<1> QED BY <1>1, <1>2, <1>3, <1>4, <1>5, <1>6, <1>7

\* A database error ends a tick or a request.
LEMMA ErrorTypes ==
  ASSUME TypeOK, Placed, DatabaseError
  PROVE  TypeOK' /\ Placed'
<1>1. ASSUME NEW r \in Replicas, IssueFails(r) PROVE TypeOK' /\ Placed'
  <2>1. faults' \in 0..MaxFaults
    BY <1>1, FirstRunAssumption DEF TypeOK, IssueFails
  <2> QED BY <1>1, <2>1 DEF TypeOK, Placed, IssueFails, dbVars
<1>2. ASSUME NEW p \in Procs, RequestFails(p) PROVE TypeOK' /\ Placed'
  <2>1. faults' \in 0..MaxFaults
    BY <1>2, FirstRunAssumption DEF TypeOK, RequestFails
  <2>2. handed' \subseteq Sessions
    BY <1>2 DEF TypeOK, RequestFails, Request
  <2>3. req' \in [Procs -> Request]
    BY <1>2, RequestForms DEF TypeOK, RequestFails
  <2>4. Placed'
    BY <1>2 DEF TypeOK, Placed, RequestFails, NoRequest, repVars
  <2> QED BY <1>2, <2>1, <2>2, <2>3, <2>4 DEF TypeOK, RequestFails, dbVars, repVars
<1> QED BY <1>1, <1>2 DEF DatabaseError

\* A request's call: the gate and the session check.
LEMMA CallTypes ==
  ASSUME TypeOK, Placed, NEW p \in Procs, NEW r \in Replicas, Call(p, r)
  PROVE  TypeOK' /\ Placed'
<1>1. ASSUME NEW t \in Tokens, StartCall(p, r, t) PROVE TypeOK' /\ Placed'
  <2>1. req' \in [Procs -> Request]
    BY <1>1, RequestForms DEF TypeOK, StartCall
  <2>2. Placed'
    BY <1>1 DEF TypeOK, Placed, StartCall, Admitted, NoRequest, repVars, outVars
  <2> QED BY <1>1, <2>1, <2>2 DEF TypeOK, StartCall, dbVars, repVars, outVars
<1>2. ASSUME NEW s \in Sessions, NEW k \in {"register", "reconfirm", "submit"},
             NEW a \in CAs \cup {None}, NEW c \in Certs \cup {None},
             k = "submit" => c \in Certs, SessionCall(p, r, s, k, a, c)
      PROVE  TypeOK' /\ Placed'
  <2>1. r \in up
    BY <1>2 DEF SessionCall, Admitted
  <2>2. CASE session[s] = "live"
    <3> DEFINE q == [NoRequest EXCEPT !.pc = k, !.at = r, !.sess = s, !.ca = a, !.cert = c]
    <3>1. req' = [req EXCEPT ![p] = q] /\ UNCHANGED <<session, fails>>
      BY <1>2, <2>2 DEF SessionCall
    <3>2. q \in Request
      BY <1>2, RequestForms DEF Pc
    <3>3. q.pc = k /\ q.at = r /\ q.cert = c
      BY DEF NoRequest
    <3> HIDE DEF q
    <3>4. req' \in [Procs -> Request]
      BY <3>1, <3>2 DEF TypeOK
    <3>5. Placed'
      BY <1>2, <2>1, <3>1, <3>3 DEF TypeOK, Placed, SessionCall, outVars
    <3> QED BY <1>2, <3>1, <3>4, <3>5 DEF TypeOK, SessionCall, outVars
  <2>3. CASE session[s] # "live"
    <3> DEFINE ss == IF session[s] = "lapsed" THEN [session EXCEPT ![s] = "ended"] ELSE session
    <3>1. ss \in [Sessions -> SessionState]
      BY DEF TypeOK, SessionState
    <3>2. Fail(p, r, ss)
      BY <1>2, <2>3 DEF SessionCall
    <3> HIDE DEF ss
    <3>3. /\ fails' \in [Replicas -> 0..(GlobalFailures - 1)]
          /\ session' \in [Sessions -> SessionState]
          /\ req' \in [Procs -> Request]
          /\ \A o \in Procs \ {p} : req'[o] = req[o]
          /\ req'[p].pc \in {"idle", "issue"}
          /\ req'[p].pc # "idle" => req'[p].at = r
      BY <2>1, <3>1, <3>2, FailTypes
    <3>4. Placed'
      BY <1>2, <2>1, <3>3 DEF TypeOK, Placed, SessionCall, outVars
    <3> QED BY <1>2, <3>3, <3>4 DEF TypeOK, SessionCall, outVars
  <2> QED BY <2>2, <2>3
<1>3. ASSUME NEW s \in Sessions, NEW a \in CAs, RegisterCall(p, r, s, a) \/ ReconfirmCall(p, r, s, a)
      PROVE  TypeOK' /\ Placed'
  BY <1>2, <1>3 DEF RegisterCall, ReconfirmCall
<1>4. ASSUME NEW s \in Sessions, NEW c \in Certs, SubmitCall(p, r, s, c)
      PROVE  TypeOK' /\ Placed'
  BY <1>2, <1>4 DEF SubmitCall
<1> QED BY <1>1, <1>3, <1>4 DEF Call

\* The later transactions of a request.
LEMMA ProcTypes ==
  ASSUME TypeOK, Placed, NEW p \in Procs, ProcStep(p)
  PROVE  TypeOK' /\ Placed'
<1>1. CASE StartCommit(p)
  <2>1. req[p] \in Request /\ req[p].at \in up
    BY <1>1 DEF TypeOK, Placed, StartCommit
  <2>2. CASE ~closed /\ token[req[p].tok] = "live"
    <3>1. PICK s \in Sessions : /\ session' = [EndAll(session) EXCEPT ![s] = "live"]
                                /\ token' = [token EXCEPT ![req[p].tok] = "used"]
                                /\ req' = [req EXCEPT ![p].pc = "issue", ![p].sess = s]
                                /\ UNCHANGED fails
      BY <1>1, <2>2 DEF StartCommit
    <3>2. session' \in [Sessions -> SessionState] /\ token' \in [Tokens -> TokenState]
      BY <3>1 DEF TypeOK, EndAll, SessionState, TokenState
    <3>3. req' \in [Procs -> Request]
      BY <2>1, <3>1 DEF TypeOK, Request, Pc
    <3>4. Placed'
      BY <1>1, <2>1, <3>1 DEF TypeOK, Placed, StartCommit, Request, outVars
    <3> QED BY <1>1, <3>1, <3>2, <3>3, <3>4 DEF TypeOK, StartCommit, outVars
  <2>3. CASE closed \/ token[req[p].tok] # "live"
    <3>1. Fail(p, req[p].at, session) /\ UNCHANGED token
      BY <1>1, <2>3 DEF StartCommit
    <3>2. /\ fails' \in [Replicas -> 0..(GlobalFailures - 1)]
          /\ session' \in [Sessions -> SessionState]
          /\ req' \in [Procs -> Request]
          /\ \A o \in Procs \ {p} : req'[o] = req[o]
          /\ req'[p].pc \in {"idle", "issue"}
          /\ req'[p].pc # "idle" => req'[p].at = req[p].at
      BY <2>1, <3>1, FailTypes DEF TypeOK
    <3>3. Placed'
      BY <1>1, <2>1, <3>2 DEF TypeOK, Placed, StartCommit, outVars
    <3> QED BY <1>1, <3>1, <3>2, <3>3 DEF TypeOK, StartCommit, outVars
  <2> QED BY <2>2, <2>3
<1>2. CASE IssueNext(p)
  <2>1. req' \in [Procs -> Request]
    BY <1>2, RequestForms DEF TypeOK, IssueNext
  <2>2. handed' \subseteq Sessions
    BY <1>2 DEF TypeOK, IssueNext, Request
  <2>3. token' \in [Tokens -> TokenState] /\ unprinted' \in [Replicas -> SUBSET Tokens]
    BY <1>2 DEF TypeOK, IssueNext, Issue, TokenState
  <2>4. Placed'
    BY <1>2 DEF TypeOK, Placed, IssueNext, NoRequest
  <2> QED BY <1>2, <2>1, <2>2, <2>3, <2>4 DEF TypeOK, IssueNext
<1>3. CASE Refuse(p)
  <2>1. req[p].at \in up
    BY <1>3 DEF Placed, Refuse
  <2>2. Fail(p, req[p].at, session)
    BY <1>3 DEF Refuse
  <2>3. /\ fails' \in [Replicas -> 0..(GlobalFailures - 1)]
        /\ session' \in [Sessions -> SessionState]
        /\ req' \in [Procs -> Request]
        /\ \A o \in Procs \ {p} : req'[o] = req[o]
        /\ req'[p].pc \in {"idle", "issue"}
        /\ req'[p].pc # "idle" => req'[p].at = req[p].at
    BY <2>1, <2>2, FailTypes DEF TypeOK
  <2>4. trust' \in [Replicas -> SUBSET CAs]
    BY <1>3 DEF TypeOK, Refuse, Active
  <2>5. Placed'
    BY <1>3, <2>1, <2>3 DEF TypeOK, Placed, Refuse, outVars
  <2> QED BY <1>3, <2>3, <2>4, <2>5 DEF TypeOK, Refuse, outVars
<1>4. CASE RegisterCommit(p)
  <2>1. req' \in [Procs -> Request]
    <3>1. req[p] \in Request /\ "rebuild" \in Pc
      BY DEF TypeOK, Pc
    <3>2. req' = [req EXCEPT ![p] = [req[p] EXCEPT !.pc = "rebuild"]]
          \/ req' = [req EXCEPT ![p] = NoRequest]
      BY <1>4 DEF RegisterCommit
    <3>3. NoRequest \in Request /\ [req[p] EXCEPT !.pc = "rebuild"] \in Request
      BY <3>1, RequestForms
    <3> QED BY <3>2, <3>3 DEF TypeOK
  <2>2. ca' \in [CAs -> CAState] /\ confirmedBy' \in [CAs -> Sessions \cup {None}]
    BY <1>4 DEF TypeOK, RegisterCommit, Registered, CAState, Request
  <2>3. Placed'
    <3>1. /\ \A o \in Procs \ {p} : req'[o] = req[o]
          /\ req'[p].pc \in {"rebuild", "idle"} /\ (req'[p].pc # "idle" => req'[p].at = req[p].at)
      BY <1>4 DEF TypeOK, RegisterCommit, Request, NoRequest
    <3>2. req[p].at \in up
      BY <1>4 DEF Placed, RegisterCommit
    <3> QED BY <1>4, <3>1, <3>2 DEF Placed, RegisterCommit, repVars, outVars
  <2> QED BY <1>4, <2>1, <2>2, <2>3 DEF TypeOK, RegisterCommit, repVars, outVars
<1>5. CASE RegisterRebuild(p)
  <2>1. req' \in [Procs -> Request]
    BY <1>5, RequestForms DEF TypeOK, RegisterRebuild
  <2>2. Placed'
    BY <1>5 DEF TypeOK, Placed, RegisterRebuild, NoRequest, outVars
  <2> QED BY <1>5, <2>1, <2>2 DEF TypeOK, RegisterRebuild, Active, dbVars, outVars
<1>6. CASE ReconfirmRead(p)
  <2>1. req' \in [Procs -> Request]
    BY <1>6, RequestForms DEF TypeOK, ReconfirmRead, Pc
  <2>2. Placed'
    BY <1>6 DEF TypeOK, Placed, ReconfirmRead, Request, repVars, outVars
  <2> QED BY <1>6, <2>1, <2>2 DEF TypeOK, ReconfirmRead, dbVars, repVars, outVars
<1>7. CASE ConfirmWrite(p)
  <2>1. req' \in [Procs -> Request]
    BY <1>7, RequestForms DEF TypeOK, ConfirmWrite
  <2>2. confirmedBy' \in [CAs -> Sessions \cup {None}]
    BY <1>7 DEF TypeOK, ConfirmWrite, Request
  <2>3. Placed'
    BY <1>7 DEF TypeOK, Placed, ConfirmWrite, NoRequest, repVars, outVars
  <2> QED BY <1>7, <2>1, <2>2, <2>3 DEF TypeOK, ConfirmWrite, repVars, outVars
<1>8. CASE SubmitCheck(p)
  <2>1. req' \in [Procs -> Request]
    BY <1>8, RequestForms DEF TypeOK, SubmitCheck, Pc
  <2>2. Placed'
    BY <1>8 DEF TypeOK, Placed, SubmitCheck, Request, outVars
  <2> QED BY <1>8, <2>1, <2>2 DEF TypeOK, SubmitCheck, Active, dbVars, outVars
<1>9. CASE SupersedeRead(p)
  <2>1. req' \in [Procs -> Request]
    <3> DEFINE cs == firstAdmins \ {req[p].cert}
    <3>1. req[p] \in Request /\ "supersede" \in Pc /\ cs \in SUBSET Certs
      BY DEF TypeOK, Pc
    <3>2. req' = [req EXCEPT ![p] = [req[p] EXCEPT !.pc = "supersede", !.todo = cs]]
      BY <1>9 DEF SupersedeRead, TypeOK
    <3> QED BY <3>1, <3>2, RequestForms DEF TypeOK
  <2>2. Placed'
    BY <1>9 DEF TypeOK, Placed, SupersedeRead, Request, repVars, outVars
  <2> QED BY <1>9, <2>1, <2>2 DEF TypeOK, SupersedeRead, dbVars, repVars, outVars
<1>10. CASE RecordFirstAdmin(p)
  <2>1. req' \in [Procs -> Request]
    BY <1>10, RequestForms DEF TypeOK, RecordFirstAdmin
  <2>2. firstAdmins' \subseteq Certs /\ submitted' \subseteq Certs
    BY <1>10 DEF TypeOK, Placed, RecordFirstAdmin
  <2>3. Placed'
    BY <1>10 DEF TypeOK, Placed, RecordFirstAdmin, NoRequest, repVars
  <2> QED BY <1>10, <2>1, <2>2, <2>3 DEF TypeOK, RecordFirstAdmin, repVars
<1>11. ASSUME NEW c \in Certs, SupersedeDeny(p, c) PROVE TypeOK' /\ Placed'
  <2>1. req' \in [Procs -> Request]
    <3> DEFINE cs == req[p].todo \ {c}
    <3>1. req[p] \in Request /\ cs \in SUBSET Certs
      BY DEF TypeOK, Request
    <3>2. req' = [req EXCEPT ![p] = [req[p] EXCEPT !.todo = cs]]
      BY <1>11 DEF SupersedeDeny
    <3> QED BY <3>1, <3>2, RequestForms DEF TypeOK
  <2>2. denylist' \subseteq Certs /\ denied' \in [Replicas -> SUBSET Certs]
    BY <1>11 DEF TypeOK, SupersedeDeny
  <2>3. Placed'
    BY <1>11 DEF TypeOK, Placed, SupersedeDeny, Request, outVars
  <2> QED BY <1>11, <2>1, <2>2, <2>3 DEF TypeOK, SupersedeDeny, outVars
<1> QED BY <1>1, <1>2, <1>3, <1>4, <1>5, <1>6, <1>7, <1>8, <1>9, <1>10, <1>11 DEF ProcStep

\* Every step keeps the types.
LEMMA TypeStep ==
  ASSUME TypeOK, Placed, [Next]_vars
  PROVE  TypeOK' /\ Placed'
<1>1. CASE UNCHANGED vars
  BY <1>1 DEF TypeOK, Placed, vars, dbVars, repVars, extVars, outVars
<1>2. CASE \E r \in Replicas : ReplicaStep(r) \/ Boot(r) \/ Poll(r) \/ RefuseClosed(r)
  BY <1>2, ReplicaTypes
<1>3. CASE \E p \in Procs : ProcStep(p)
  BY <1>3, ProcTypes
<1>4. CASE \E p \in Procs, r \in Replicas : Call(p, r)
  BY <1>4, CallTypes
<1>5. CASE \E r \in Replicas, c \in Certs : Observe(r, c)
  BY <1>5, ObserveTypes
<1>6. CASE \E r \in Replicas : Crash(r)
  BY <1>6, CrashTypes
<1>7. CASE \/ LockLost \/ ResetLock \/ ResetProbe \/ ResetCommit
           \/ \E t \in Tokens : ExpireToken(t)
           \/ \E s \in Sessions : LapseSession(s)
           \/ \E r \in Replicas : ForgetFailures(r)
  BY <1>7, OutsideTypes
<1>8. CASE DatabaseError
  BY <1>8, ErrorTypes
<1> QED BY <1>1, <1>2, <1>3, <1>4, <1>5, <1>6, <1>7, <1>8 DEF Next, Environment

\* The initial state has its types.
LEMMA InitTypes == Init => TypeOK /\ Placed
<1> SUFFICES ASSUME Init PROVE TypeOK /\ Placed
  OBVIOUS
<1>1. req \in [Procs -> Request]
  BY RequestForms DEF Init
<1>2. 0 \in 0..(GlobalFailures - 1) /\ faults \in 0..MaxFaults /\ resets \in 0..MaxResets
  BY FirstRunAssumption DEF Init
<1> QED BY <1>1, <1>2 DEF Init, TypeOK, Placed, TokenState, SessionState, CAState, NoRequest

\* Type correctness: the tables, the replicas' memory and the request slots
\* keep their types, the failure window stays below its limit and the bounds
\* hold (all handlers of internal/bootstrap).
THEOREM TypeCorrect == Spec => []TypeOK
<1>1. TypeOK /\ Placed /\ [Next]_vars => (TypeOK /\ Placed)'
  BY TypeStep
<1> QED BY InitTypes, <1>1, PTL DEF Spec

-----------------------------------------------------------------------------
(* Safety: each action keeps Inv.  Only a few statements touch the tables   *)
(* the invariant is about.                                                  *)

\* IssueBootstrapToken leaves its own row as the only unused one.
LEMMA IssueKeeps ==
  ASSUME TypeOK, NEW t \in Tokens, Issue(t)
  PROVE  ~closed /\ Unused' = {t}
BY DEF TypeOK, Issue, Unused, TokenState

\* Ending sessions and deleting rows leaves none open and none unused.
LEMMA EndedAndDeleted ==
  /\ \A ss \in [Sessions -> SessionState], s \in Sessions : EndAll(ss)[s] \notin {"live", "lapsed"}
  /\ \A t \in Tokens : token \in [Tokens -> TokenState] => Deleted(token)[t] \in {"none", "gone"}
  /\ \A s \in Sessions : session \in [Sessions -> SessionState] => Deleted(session)[s] \in {"none", "gone"}
BY DEF EndAll, Deleted

\* fail never opens a session.
LEMMA FailKeeps ==
  ASSUME TypeOK, NEW p \in Procs, NEW r \in Replicas, NEW ss \in [Sessions -> SessionState],
         \A s \in Sessions : ss[s] \in {"live", "lapsed"} => s \in Open,
         Fail(p, r, ss)
  PROVE  Open' \subseteq Open
BY DEF Fail, EndAll, Open

\* A step that leaves the latch, the tables and the CAs alone keeps Inv, also
\* when it closes a session or spends a token.
LEMMA Shrinks ==
  ASSUME Inv, closed' = closed, Unused' \subseteq Unused, Open' \subseteq Open,
         Active' \subseteq Active
  PROVE  Inv'
BY DEF Inv, OneUnusedToken, OneOpenSession, ClosedEndsAll, OneActiveCA

\* The invariant through a replica's own steps: its token goroutine issues behind
\* lockOpen, and everything else leaves tokens, sessions and CAs alone.
LEMMA ReplicaKeeps ==
  ASSUME TypeOK, Inv, NEW r \in Replicas,
         ReplicaStep(r) \/ Boot(r) \/ Poll(r) \/ RefuseClosed(r) \/ Crash(r) \/ ForgetFailures(r)
  PROVE  Inv'
<1>1. CASE TickIssue(r) /\ \E t \in Tokens : Issue(t)
  <2>1. ~closed /\ OneUnusedToken'
    BY <1>1, IssueKeeps DEF OneUnusedToken
  <2>2. closed' = closed /\ Open' = Open /\ Active' = Active
    BY <1>1 DEF TickIssue, Open, Active
  <2> QED BY <2>1, <2>2 DEF Inv, OneOpenSession, ClosedEndsAll, OneActiveCA
<1>2. CASE TickIssue(r) /\ ~ \E t \in Tokens : Issue(t)
  BY <1>2, Shrinks DEF TickIssue, Unused, Open, Active
<1>3. CASE Tick(r) \/ TickLock(r) \/ Boot(r) \/ RefuseClosed(r) \/ Crash(r)
  <2>1. UNCHANGED <<closed, token, session, ca>>
    BY <1>3 DEF Tick, TickLock, Boot, RefuseClosed, Crash
  <2> QED BY <2>1, Shrinks DEF Unused, Open, Active
<1>4. CASE Banner(r) \/ Poll(r) \/ ForgetFailures(r)
  <2>1. UNCHANGED <<closed, token, session, ca>>
    BY <1>4 DEF Banner, Poll, ForgetFailures, dbVars
  <2> QED BY <2>1, Shrinks DEF Unused, Open, Active
<1> QED BY <1>1, <1>2, <1>3, <1>4 DEF ReplicaStep

\* The close ends the sessions and deletes the tokens with the latch row.
LEMMA ObserveKeeps ==
  ASSUME TypeOK, Inv, NEW r \in Replicas, NEW c \in Certs, Observe(r, c)
  PROVE  Inv'
<1>1. Active' = Active
  BY DEF Observe, CloseBootstrap, Active
<1>2. CASE closed
  <2>1. closed' = closed /\ Unused' = Unused /\ Open' = Open
    BY <1>2 DEF Observe, CloseBootstrap, Unused, Open, TypeOK
  <2> QED BY <1>1, <2>1, Shrinks
<1>3. CASE ~closed
  <2>1. session' = EndAll(session) /\ token' = Deleted(token)
    BY <1>3 DEF Observe, CloseBootstrap
  <2>2. Unused' = {} /\ Open' = {}
    BY <2>1, EndedAndDeleted DEF TypeOK, Unused, Open
  <2> QED BY <1>1, <2>2 DEF Inv, OneUnusedToken, OneOpenSession, ClosedEndsAll, OneActiveCA
<1> QED BY <1>2, <1>3

\* Through crashes, lost locks, the break-glass command and the clock.
LEMMA OutsideKeeps ==
  ASSUME TypeOK, Inv,
         \/ LockLost \/ ResetLock \/ ResetProbe \/ ResetCommit \/ DatabaseError
         \/ \E t \in Tokens : ExpireToken(t)
         \/ \E s \in Sessions : LapseSession(s)
  PROVE  Inv'
<1>1. CASE LockLost \/ ResetLock \/ ResetProbe \/ DatabaseError
  <2>1. UNCHANGED <<closed, token, session, ca>>
    BY <1>1 DEF LockLost, ResetLock, ResetProbe, DatabaseError, IssueFails, RequestFails, dbVars
  <2> QED BY <2>1, Shrinks DEF Unused, Open, Active
<1>2. CASE ResetCommit
  <2>1. Unused' = {} /\ Open' = {}
    BY <1>2, EndedAndDeleted DEF TypeOK, ResetCommit, Unused, Open
  <2>2. Active' = {}
    BY <1>2 DEF TypeOK, ResetCommit, Active
  <2> QED BY <2>1, <2>2 DEF Inv, OneUnusedToken, OneOpenSession, ClosedEndsAll, OneActiveCA
<1>3. ASSUME NEW t \in Tokens, ExpireToken(t) PROVE Inv'
  <2>1. Unused' \subseteq Unused
    BY <1>3 DEF TypeOK, ExpireToken, Unused
  <2> QED BY <1>3, <2>1, Shrinks DEF ExpireToken, Open, Active
<1>4. ASSUME NEW s \in Sessions, LapseSession(s) PROVE Inv'
  <2>1. Open' \subseteq Open
    BY <1>4 DEF TypeOK, LapseSession, Open
  <2> QED BY <1>4, <2>1, Shrinks DEF LapseSession, Unused, Active
<1> QED BY <1>1, <1>2, <1>3, <1>4

\* Through the start of a request.
LEMMA CallKeeps ==
  ASSUME TypeOK, Inv, NEW p \in Procs, NEW r \in Replicas, Call(p, r)
  PROVE  Inv'
<1>1. ASSUME NEW t \in Tokens, StartCall(p, r, t) PROVE Inv'
  BY <1>1, Shrinks DEF StartCall, dbVars, Unused, Open, Active
<1>2. ASSUME NEW s \in Sessions, NEW k, NEW a, NEW c, SessionCall(p, r, s, k, a, c)
      PROVE  Inv'
  <2>1. UNCHANGED <<closed, token, ca>>
    BY <1>2 DEF SessionCall
  <2>2. CASE session[s] = "live"
    BY <1>2, <2>1, <2>2, Shrinks DEF SessionCall, Unused, Open, Active
  <2>3. CASE session[s] # "live"
    <3> DEFINE ss == IF session[s] = "lapsed" THEN [session EXCEPT ![s] = "ended"] ELSE session
    <3>1. ss \in [Sessions -> SessionState]
          /\ \A u \in Sessions : ss[u] \in {"live", "lapsed"} => u \in Open
      BY DEF TypeOK, SessionState, Open
    <3>2. Fail(p, r, ss)
      BY <1>2, <2>3 DEF SessionCall
    <3> HIDE DEF ss
    <3>3. Open' \subseteq Open
      BY <3>1, <3>2, FailKeeps
    <3> QED BY <2>1, <3>3, Shrinks DEF Unused, Active
  <2> QED BY <2>2, <2>3
<1> QED BY <1>1, <1>2 DEF Call, RegisterCall, ReconfirmCall, SubmitCall

\* Through the transactions of a request.
LEMMA ProcKeeps ==
  ASSUME TypeOK, Placed, Inv, NEW p \in Procs, ProcStep(p)
  PROVE  Inv'
<1>1. CASE StartCommit(p)
  <2>1. UNCHANGED <<closed, ca>> /\ Active' = Active
    BY <1>1 DEF StartCommit, Active
  <2>2. CASE ~closed /\ token[req[p].tok] = "live"
    <3>1. PICK s \in Sessions : /\ session' = [EndAll(session) EXCEPT ![s] = "live"]
                                /\ token' = [token EXCEPT ![req[p].tok] = "used"]
      BY <1>1, <2>2 DEF StartCommit
    <3>2. Unused' \subseteq Unused
      BY <3>1 DEF TypeOK, Unused
    <3>3. Open' = {s}
      BY <3>1 DEF TypeOK, Open, EndAll, SessionState
    <3> QED BY <2>1, <2>2, <3>2, <3>3
        DEF Inv, OneUnusedToken, OneOpenSession, ClosedEndsAll, OneActiveCA
  <2>3. CASE closed \/ token[req[p].tok] # "live"
    <3>1. Fail(p, req[p].at, session) /\ UNCHANGED token
      BY <1>1, <2>3 DEF StartCommit
    <3>2. req[p].at \in Replicas
      BY <1>1 DEF TypeOK, Placed, StartCommit
    <3>3. Open' \subseteq Open
      BY <3>1, <3>2, FailKeeps DEF TypeOK, Open
    <3> QED BY <2>1, <3>1, <3>3, Shrinks DEF Unused
  <2> QED BY <2>2, <2>3
<1>2. CASE IssueNext(p)
  <2>1. closed' = closed /\ Open' = Open /\ Active' = Active
    BY <1>2 DEF IssueNext, Open, Active
  <2>2. CASE \E t \in Tokens : Issue(t)
    <3>1. ~closed /\ OneUnusedToken'
      BY <2>2, IssueKeeps DEF OneUnusedToken
    <3> QED BY <2>1, <3>1 DEF Inv, OneOpenSession, ClosedEndsAll, OneActiveCA
  <2>3. CASE ~ \E t \in Tokens : Issue(t)
    BY <1>2, <2>1, <2>3, Shrinks DEF IssueNext, Unused
  <2> QED BY <2>2, <2>3
<1>3. CASE Refuse(p)
  <2>1. Fail(p, req[p].at, session) /\ UNCHANGED <<closed, token, ca>>
    BY <1>3 DEF Refuse
  <2>2. req[p].at \in Replicas
    BY <1>3 DEF TypeOK, Placed, Refuse
  <2>3. Open' \subseteq Open
    BY <2>1, <2>2, FailKeeps DEF TypeOK, Open
  <2> QED BY <2>1, <2>3, Shrinks DEF Unused, Active
<1>4. CASE RegisterCommit(p)
  <2>1. UNCHANGED <<closed, token, session>>
    BY <1>4 DEF RegisterCommit
  <2>2. CASE ~closed
    <3>1. Active' \subseteq {req[p].ca}
      BY <1>4, <2>2 DEF RegisterCommit, Registered, Active
    <3> QED BY <2>1, <3>1
        DEF Inv, OneUnusedToken, OneOpenSession, ClosedEndsAll, OneActiveCA, Unused, Open
  <2>3. CASE closed
    BY <1>4, <2>1, <2>3, Shrinks DEF RegisterCommit, Unused, Open, Active
  <2> QED BY <2>2, <2>3
<1>5. CASE RegisterRebuild(p) \/ ReconfirmRead(p) \/ SubmitCheck(p) \/ SupersedeRead(p)
  <2>1. UNCHANGED <<closed, token, session, ca>>
    BY <1>5 DEF RegisterRebuild, ReconfirmRead, SubmitCheck, SupersedeRead, dbVars
  <2> QED BY <2>1, Shrinks DEF Unused, Open, Active
<1>6. CASE ConfirmWrite(p) \/ RecordFirstAdmin(p) \/ \E c \in Certs : SupersedeDeny(p, c)
  <2>1. UNCHANGED <<closed, token, session, ca>>
    BY <1>6 DEF ConfirmWrite, RecordFirstAdmin, SupersedeDeny
  <2> QED BY <2>1, Shrinks DEF Unused, Open, Active
<1> QED BY <1>1, <1>2, <1>3, <1>4, <1>5, <1>6 DEF ProcStep

\* IndInv is inductive.
LEMMA Inductive ==
  ASSUME IndInv, [Next]_vars
  PROVE  IndInv'
<1>1. TypeOK /\ Placed /\ Inv
  BY DEF IndInv
<1>2. TypeOK' /\ Placed'
  BY <1>1, TypeStep
<1>3. Inv'
  <2>1. CASE UNCHANGED vars
    BY <1>1, <2>1, Shrinks DEF vars, dbVars, Unused, Open, Active
  <2>2. CASE \E r \in Replicas : \/ ReplicaStep(r) \/ Boot(r) \/ Poll(r) \/ RefuseClosed(r)
                                 \/ Crash(r) \/ ForgetFailures(r)
    BY <1>1, <2>2, ReplicaKeeps
  <2>3. CASE \E p \in Procs : ProcStep(p)
    BY <1>1, <2>3, ProcKeeps
  <2>4. CASE \E p \in Procs, r \in Replicas : Call(p, r)
    BY <1>1, <2>4, CallKeeps
  <2>5. CASE \E r \in Replicas, c \in Certs : Observe(r, c)
    BY <1>1, <2>5, ObserveKeeps
  <2>6. CASE \/ LockLost \/ ResetLock \/ ResetProbe \/ ResetCommit \/ DatabaseError
             \/ \E t \in Tokens : ExpireToken(t)
             \/ \E s \in Sessions : LapseSession(s)
    BY <1>1, <2>6, OutsideKeeps
  <2> QED BY <2>1, <2>2, <2>3, <2>4, <2>5, <2>6 DEF Next, Environment
<1> QED BY <1>2, <1>3 DEF IndInv

\* The initial state satisfies the invariant.
LEMMA InitInv == Init => IndInv
<1>1. Init => Inv
  BY DEF Init, Inv, OneUnusedToken, OneOpenSession, ClosedEndsAll, OneActiveCA, Unused, Open, Active
<1> QED BY <1>1, InitTypes DEF IndInv

\* The inductive invariant holds at all times.
LEMMA Invariant == Spec => []IndInv
<1>1. IndInv /\ [Next]_vars => IndInv'
  BY Inductive
<1> QED BY InitInv, <1>1, PTL DEF Spec

\* After the close nothing is left behind: no usable token, no open session,
\* whatever was in flight (CloseBootstrap against lockOpen's writers).
THEOREM CloseIsComplete == Spec => []ClosedEndsAll
<1>1. IndInv => ClosedEndsAll
  BY DEF IndInv, Inv
<1> QED BY Invariant, <1>1, PTL

\* At most one unused token, however many replicas believe they hold the
\* token lock (IssueBootstrapToken).
THEOREM TokenUnique == Spec => []OneUnusedToken
<1>1. IndInv => OneUnusedToken
  BY DEF IndInv, Inv
<1> QED BY Invariant, <1>1, PTL

\* At most one session that has not ended (StartBootstrapSession).
THEOREM SessionUnique == Spec => []OneOpenSession
<1>1. IndInv => OneOpenSession
  BY DEF IndInv, Inv
<1> QED BY Invariant, <1>1, PTL

\* At most one operator CA is active (RegisterFirstRunOperatorCA).
THEOREM ActiveUnique == Spec => []OneActiveCA
<1>1. IndInv => OneActiveCA
  BY DEF IndInv, Inv
<1> QED BY Invariant, <1>1, PTL

\* No step registers, retires or reactivates an operator CA while first run is
\* closed and stays closed (lockOpen in RegisterFirstRunOperatorCA).
THEOREM TrustFrozen == Spec => ClosedFreezesTrust
<1>1. ASSUME [Next]_vars, closed, closed' PROVE ca' = ca
  <2>1. CASE UNCHANGED vars
    BY <2>1 DEF vars, dbVars
  <2>2. ASSUME NEW r \in Replicas,
               \/ ReplicaStep(r) \/ Boot(r) \/ Poll(r) \/ RefuseClosed(r)
               \/ Crash(r) \/ ForgetFailures(r)
        PROVE  ca' = ca
    BY <2>2 DEF ReplicaStep, Tick, TickLock, TickIssue, Banner, Boot, Poll, RefuseClosed, Crash,
       ForgetFailures, dbVars
  <2>3. ASSUME NEW p \in Procs, ProcStep(p) PROVE ca' = ca
    BY <1>1, <2>3 DEF ProcStep, StartCommit, IssueNext, Refuse, RegisterCommit, RegisterRebuild,
       ReconfirmRead, ConfirmWrite, SubmitCheck, SupersedeRead, SupersedeDeny, RecordFirstAdmin, dbVars
  <2>4. ASSUME NEW p \in Procs, NEW r \in Replicas, Call(p, r) PROVE ca' = ca
    BY <2>4 DEF Call, StartCall, RegisterCall, ReconfirmCall, SubmitCall, SessionCall, dbVars
  <2>5. ASSUME NEW r \in Replicas, NEW c \in Certs, Observe(r, c) PROVE ca' = ca
    BY <2>5 DEF Observe, CloseBootstrap
  <2>6. CASE \/ LockLost \/ ResetLock \/ ResetProbe \/ ResetCommit \/ DatabaseError
             \/ \E t \in Tokens : ExpireToken(t)
             \/ \E s \in Sessions : LapseSession(s)
    BY <1>1, <2>6 DEF LockLost, ResetLock, ResetProbe, ResetCommit, ExpireToken, LapseSession,
       DatabaseError, IssueFails, RequestFails, dbVars
  <2> QED BY <1>1, <2>1, <2>2, <2>3, <2>4, <2>5, <2>6 DEF Next, Environment
<1>2. [Next]_vars => [closed /\ closed' => ca' = ca]_vars
  BY <1>1
<1> QED BY <1>2, PTL DEF Spec, ClosedFreezesTrust

-----------------------------------------------------------------------------
(* A token starts one session: tokens are counted against sessions.        *)

\* Sessions that were started, tokens that can't be used any more.
Started == {s \in Sessions : session[s] # "none"}
Spent == {t \in Tokens : token[t] \in {"used", "gone"}}
Counted == IsFiniteSet(Started) /\ IsFiniteSet(Spent) /\ SingleUse

\* A step that starts no session, and at most spends unused tokens.
Spends == Started' = Started /\ Spent \subseteq Spent' /\ Spent' \subseteq Spent \cup Unused

\* Such a step keeps the count, as there is at most one unused token.
LEMMA SpendsKeeps ==
  ASSUME Counted, OneUnusedToken, Spends
  PROVE  Counted'
<1>1. IsFiniteSet(Unused)
  <2>1. CASE Unused = {}
    BY <2>1, FS_EmptySet
  <2>2. CASE Unused # {}
    <3>1. PICK t \in Unused : Unused = {t}
      BY <2>2 DEF OneUnusedToken
    <3> QED BY <3>1, FS_Singleton
  <2> QED BY <2>1, <2>2
<1>2. IsFiniteSet(Spent \cup Unused)
  BY <1>1, FS_Union DEF Counted
<1>3. IsFiniteSet(Spent')
  BY <1>2, FS_Subset DEF Spends
<1>4. Cardinality(Spent) =< Cardinality(Spent')
  BY <1>3, FS_Subset DEF Spends
<1>5. Cardinality(Started) \in Nat /\ Cardinality(Spent) \in Nat /\ Cardinality(Spent') \in Nat
  BY <1>3, FS_CardinalityType DEF Counted
<1>6. Cardinality(Started) =< Cardinality(Spent)
  BY DEF Counted, SingleUse, Started, Spent
<1>7. Cardinality(Started') =< Cardinality(Spent')
  BY <1>4, <1>5, <1>6 DEF Spends
<1> QED BY <1>3, <1>7 DEF Counted, SingleUse, Started, Spent, Spends

\* A session that is started spends the token it was started with.
LEMMA StartKeeps ==
  ASSUME Counted, NEW s, NEW t, s \notin Started, t \notin Spent,
         Started' = Started \cup {s}, Spent' = Spent \cup {t}
  PROVE  Counted'
<1>1. Cardinality(Started) =< Cardinality(Spent)
  BY DEF Counted, SingleUse, Started, Spent
<1>2. IsFiniteSet(Started) /\ IsFiniteSet(Spent)
  BY DEF Counted
<1> HIDE DEF Started, Spent
<1>3. Cardinality(Started) \in Nat /\ Cardinality(Spent) \in Nat
  BY <1>2, FS_CardinalityType
<1>4. IsFiniteSet(Started') /\ Cardinality(Started') = Cardinality(Started) + 1
  BY <1>2, FS_AddElement
<1>5. IsFiniteSet(Spent') /\ Cardinality(Spent') = Cardinality(Spent) + 1
  BY <1>2, FS_AddElement
<1>6. Cardinality(Started') =< Cardinality(Spent')
  BY <1>1, <1>3, <1>4, <1>5
<1> QED BY <1>4, <1>5, <1>6 DEF Counted, SingleUse, Started, Spent

\* IssueBootstrapToken spends the unused row; ending and deleting rows starts
\* no session and spends no token that was not there.
LEMMA IssueSpends ==
  ASSUME TypeOK, NEW t \in Tokens, Issue(t)
  PROVE  Spent \subseteq Spent' /\ Spent' \subseteq Spent \cup Unused
BY DEF TypeOK, Issue, Spent, Unused

\* fail starts no session.
LEMMA FailSpends ==
  ASSUME NEW p, NEW r, NEW ss \in [Sessions -> SessionState],
         \A s \in Sessions : ss[s] # "none" <=> session[s] # "none",
         Fail(p, r, ss)
  PROVE  Started' = Started
<1>1. \A s \in Sessions : EndAll(ss)[s] # "none" <=> ss[s] # "none"
  BY DEF EndAll
<1>2. session' = ss \/ session' = EndAll(ss)
  BY DEF Fail
<1> QED BY <1>1, <1>2 DEF Started

\* Every step but a session's start.
LEMMA QuietSpends ==
  ASSUME session' = session, token' = token
  PROVE  Spends
BY DEF Spends, Started, Spent

\* The steps of a request.
LEMMA ProcCounts ==
  ASSUME TypeOK, Placed, OneUnusedToken, Counted, NEW p \in Procs, ProcStep(p)
  PROVE  Counted'
<1>1. CASE StartCommit(p)
  <2> DEFINE t == req[p].tok
  <2>1. CASE ~closed /\ token[t] = "live"
    <3>1. PICK s \in Sessions : /\ session[s] = "none"
                                /\ token' = [token EXCEPT ![t] = "used"]
                                /\ session' = [EndAll(session) EXCEPT ![s] = "live"]
      BY <1>1, <2>1 DEF StartCommit
    <3>2. Started' = Started \cup {s} /\ s \notin Started
      BY <3>1 DEF TypeOK, Started, EndAll
    <3>3. t \in Tokens
      BY <1>1 DEF StartCommit, Placed
    <3>4. Spent' = Spent \cup {t} /\ t \notin Spent
      BY <2>1, <3>1, <3>3 DEF TypeOK, Spent
    <3> QED BY <3>2, <3>4, StartKeeps
  <2>2. CASE closed \/ token[t] # "live"
    <3>1. Fail(p, req[p].at, session) /\ UNCHANGED token
      BY <1>1, <2>2 DEF StartCommit
    <3>2. Started' = Started
      BY <3>1, FailSpends DEF TypeOK
    <3> QED BY <3>1, <3>2, SpendsKeeps DEF Spends, Spent
  <2> QED BY <2>1, <2>2
<1>2. CASE IssueNext(p)
  <2>1. Started' = Started
    BY <1>2 DEF IssueNext, Started
  <2>2. CASE \E t \in Tokens : Issue(t)
    BY <2>1, <2>2, IssueSpends, SpendsKeeps DEF Spends
  <2>3. CASE UNCHANGED token
    BY <2>1, <2>3, SpendsKeeps DEF Spends, Spent
  <2> QED BY <1>2, <2>2, <2>3 DEF IssueNext
<1>3. CASE Refuse(p)
  <2>1. Fail(p, req[p].at, session) /\ UNCHANGED token
    BY <1>3 DEF Refuse
  <2>2. Started' = Started
    BY <2>1, FailSpends DEF TypeOK
  <2> QED BY <2>1, <2>2, SpendsKeeps DEF Spends, Spent
<1>4. CASE RegisterCommit(p) \/ RegisterRebuild(p) \/ ReconfirmRead(p) \/ ConfirmWrite(p) \/ SubmitCheck(p)
           \/ SupersedeRead(p) \/ RecordFirstAdmin(p) \/ \E c \in Certs : SupersedeDeny(p, c)
  <2>1. UNCHANGED <<session, token>>
    BY <1>4 DEF RegisterCommit, RegisterRebuild, ReconfirmRead, ConfirmWrite, SubmitCheck, SupersedeRead,
                RecordFirstAdmin, SupersedeDeny, dbVars
  <2> QED BY <2>1, QuietSpends, SpendsKeeps
<1> QED BY <1>1, <1>2, <1>3, <1>4 DEF ProcStep

\* Every other step.
LEMMA OtherCounts ==
  ASSUME TypeOK, OneUnusedToken, Counted, [Next]_vars, ~ \E p \in Procs : ProcStep(p)
  PROVE  Counted'
<1>1. CASE UNCHANGED vars
  BY <1>1, QuietSpends, SpendsKeeps DEF vars, dbVars
<1>2. ASSUME NEW r \in Replicas, TickIssue(r) PROVE Counted'
  <2>1. Started' = Started
    BY <1>2 DEF TickIssue, Started
  <2>2. CASE \E t \in Tokens : Issue(t)
    BY <2>1, <2>2, IssueSpends, SpendsKeeps DEF Spends
  <2>3. CASE UNCHANGED token
    BY <2>1, <2>3, SpendsKeeps DEF Spends, Spent
  <2> QED BY <1>2, <2>2, <2>3 DEF TickIssue
<1>3. ASSUME NEW r \in Replicas,
             \/ Tick(r) \/ TickLock(r) \/ Banner(r) \/ Boot(r) \/ Poll(r) \/ RefuseClosed(r)
             \/ Crash(r) \/ ForgetFailures(r)
      PROVE  Counted'
  <2>1. UNCHANGED <<session, token>>
    BY <1>3 DEF Tick, TickLock, Banner, Boot, Poll, RefuseClosed, Crash, ForgetFailures, dbVars
  <2> QED BY <2>1, QuietSpends, SpendsKeeps
<1>4. ASSUME NEW r \in Replicas, NEW c \in Certs, Observe(r, c) PROVE Counted'
  <2>1. \/ session' = EndAll(session) /\ token' = Deleted(token)
        \/ UNCHANGED <<session, token>>
    BY <1>4 DEF Observe, CloseBootstrap
  <2>2. CASE session' = EndAll(session) /\ token' = Deleted(token)
    <3>1. Started' = Started
      BY <2>2 DEF Started, EndAll
    <3>2. Spent \subseteq Spent' /\ Spent' \subseteq Spent \cup Unused
      BY <2>2 DEF TypeOK, Spent, Unused, Deleted, TokenState
    <3> QED BY <3>1, <3>2, SpendsKeeps DEF Spends
  <2> QED BY <2>1, <2>2, QuietSpends, SpendsKeeps
<1>5. CASE ResetCommit
  <2>1. Started' = Started
    BY <1>5 DEF TypeOK, ResetCommit, Started, Deleted
  <2>2. Spent \subseteq Spent' /\ Spent' \subseteq Spent \cup Unused
    BY <1>5 DEF TypeOK, ResetCommit, Spent, Unused, Deleted, TokenState
  <2> QED BY <2>1, <2>2, SpendsKeeps DEF Spends
<1>6. CASE LockLost \/ ResetLock \/ ResetProbe \/ DatabaseError
  <2>1. UNCHANGED <<session, token>>
    BY <1>6 DEF LockLost, ResetLock, ResetProbe, DatabaseError, IssueFails, RequestFails, dbVars
  <2> QED BY <2>1, QuietSpends, SpendsKeeps
<1>7. ASSUME NEW t \in Tokens, ExpireToken(t) PROVE Counted'
  <2>1. Started' = Started /\ Spent' = Spent
    BY <1>7 DEF TypeOK, ExpireToken, Started, Spent
  <2> QED BY <2>1, SpendsKeeps DEF Spends
<1>8. ASSUME NEW s \in Sessions, LapseSession(s) PROVE Counted'
  <2>1. Started' = Started /\ Spent' = Spent
    BY <1>8 DEF TypeOK, LapseSession, Started, Spent
  <2> QED BY <2>1, SpendsKeeps DEF Spends
<1>9. ASSUME NEW p \in Procs, NEW r \in Replicas, Call(p, r) PROVE Counted'
  <2>1. ASSUME NEW t \in Tokens, StartCall(p, r, t) PROVE Counted'
    BY <2>1, QuietSpends, SpendsKeeps DEF StartCall, dbVars
  <2>2. ASSUME NEW s \in Sessions, NEW k, NEW a, NEW c, SessionCall(p, r, s, k, a, c) PROVE Counted'
    <3>1. CASE session[s] = "live"
      BY <2>2, <3>1, QuietSpends, SpendsKeeps DEF SessionCall
    <3>2. CASE session[s] # "live"
      <4> DEFINE ss == IF session[s] = "lapsed" THEN [session EXCEPT ![s] = "ended"] ELSE session
      <4>1. ss \in [Sessions -> SessionState] /\ \A u \in Sessions : ss[u] # "none" <=> session[u] # "none"
        BY DEF TypeOK, SessionState
      <4>2. Fail(p, r, ss) /\ UNCHANGED token
        BY <2>2, <3>2 DEF SessionCall
      <4> HIDE DEF ss
      <4>3. Started' = Started
        BY <4>1, <4>2, FailSpends
      <4> QED BY <4>2, <4>3, SpendsKeeps DEF Spends, Spent
    <3> QED BY <3>1, <3>2
  <2> QED BY <1>9, <2>1, <2>2 DEF Call, RegisterCall, ReconfirmCall, SubmitCall
<1> QED BY <1>1, <1>2, <1>3, <1>4, <1>5, <1>6, <1>7, <1>8, <1>9 DEF Next, Environment, ReplicaStep

\* However many requests present tokens at the same time, on however many
\* replicas, there are never more sessions than spent tokens: a token starts
\* at most one (the conditional UPDATE of StartBootstrapSession).
THEOREM TokensAreSingleUse == Spec => []SingleUse
<1>1. Init => Counted
  <2> SUFFICES ASSUME Init PROVE Counted
    OBVIOUS
  <2>1. Started = {} /\ Spent = {}
    BY DEF Init, Started, Spent
  <2>2. Cardinality({}) =< Cardinality({})
    BY FS_EmptySet
  <2>3. IsFiniteSet(Started) /\ IsFiniteSet(Spent)
    BY <2>1, FS_EmptySet
  <2>4. Cardinality(Started) =< Cardinality(Spent)
    BY <2>1, <2>2
  <2> QED BY <2>3, <2>4 DEF Counted, SingleUse, Started, Spent
<1>2. IndInv /\ Counted /\ [Next]_vars => Counted'
  BY ProcCounts, OtherCounts DEF IndInv, Inv
<1>3. Counted => SingleUse
  BY DEF Counted
<1> QED BY <1>1, <1>2, <1>3, Invariant, PTL DEF Spec

-----------------------------------------------------------------------------
(* One first admin, when submissions don't overlap.                        *)

\* A replica's copy of the denylist has nothing the denylist has not; a
\* submission has still to deny whatever earlier certificate is usable.
Superseding ==
  /\ \A r \in Replicas : denied[r] \subseteq denylist
  /\ submitted \subseteq firstAdmins
  /\ \A p \in Procs : req[p].pc = "supersede" => submitted \ denylist \subseteq req[p].todo \cup {req[p].cert}
  /\ NewestFirstAdmin

\* A step that records no certificate, and goes on with no submission but where
\* it has still to deny what is usable.
LEMMA SupersedingFrame ==
  ASSUME Superseding, submitted' = submitted, firstAdmins \subseteq firstAdmins', denylist \subseteq denylist',
         \A r \in Replicas : denied'[r] \subseteq denylist',
         \A p \in Procs : req'[p].pc = "supersede" =>
           req'[p] = req[p] \/ submitted \ denylist' \subseteq req'[p].todo \cup {req'[p].cert}
  PROVE  Superseding'
BY DEF Superseding, NewestFirstAdmin

\* What fail does to a request.
LEMMA FailEnds ==
  ASSUME TypeOK, NEW p \in Procs, NEW r, NEW ss, Fail(p, r, ss)
  PROVE  \A o \in Procs : req'[o].pc = "supersede" => req'[o] = req[o]
<1>1. PICK q : q.pc # "supersede" /\ req' = [req EXCEPT ![p] = q]
  BY DEF Fail, NoRequest
<1> QED BY <1>1 DEF TypeOK

\* The steps of a submission.
LEMMA SubmitKeeps ==
  ASSUME TypeOK, Placed, Superseding, \A p, q \in Procs : p = q, NEW p \in Procs,
         \/ SubmitCheck(p) \/ SupersedeRead(p) \/ RecordFirstAdmin(p)
         \/ \E c \in Certs : SupersedeDeny(p, c)
  PROVE  Superseding'
<1>0. req[p] \in Request /\ \A o \in Procs : o = p
  BY DEF TypeOK
<1>1. CASE SubmitCheck(p)
  <2>1. req'[p].pc = "earlier"
    BY <1>0, <1>1 DEF SubmitCheck, TypeOK, Request
  <2> QED BY <1>0, <1>1, <2>1, SupersedingFrame DEF SubmitCheck, Superseding, dbVars, outVars
<1>2. CASE SupersedeRead(p)
  <2>1. req'[p].todo = firstAdmins \ {req[p].cert} /\ req'[p].cert = req[p].cert
    BY <1>0, <1>2 DEF SupersedeRead, TypeOK, Request
  <2> QED BY <1>0, <1>2, <2>1, SupersedingFrame DEF SupersedeRead, Superseding, dbVars, repVars, outVars
<1>3. ASSUME NEW c \in Certs, SupersedeDeny(p, c) PROVE Superseding'
  <2>1. req'[p].todo = req[p].todo \ {c} /\ req'[p].cert = req[p].cert
    BY <1>0, <1>3 DEF SupersedeDeny, TypeOK, Request
  <2>2. c \in denylist' /\ denylist \subseteq denylist' /\ \A r \in Replicas : denied'[r] \subseteq denylist'
    BY <1>3, <1>0 DEF SupersedeDeny, Superseding, TypeOK, Placed
  <2>3. submitted \ denylist \subseteq req[p].todo \cup {req[p].cert}
    BY <1>3 DEF SupersedeDeny, Superseding
  <2>4. submitted \ denylist' \subseteq req'[p].todo \cup {req'[p].cert}
    BY <2>1, <2>2, <2>3
  <2> QED BY <1>0, <1>3, <2>2, <2>4, SupersedingFrame DEF SupersedeDeny, outVars
<1>4. CASE RecordFirstAdmin(p)
  <2>1. req'[p].pc = "idle"
    BY <1>4 DEF RecordFirstAdmin, TypeOK, NoRequest
  <2>2. submitted' \ denylist' \subseteq {req[p].cert}
    BY <1>4 DEF RecordFirstAdmin, Superseding
  <2>3. submitted' \subseteq firstAdmins' /\ \A r \in Replicas : denied'[r] \subseteq denylist'
    BY <1>4 DEF RecordFirstAdmin, Superseding, repVars
  <2> QED BY <1>0, <2>1, <2>2, <2>3 DEF Superseding, NewestFirstAdmin
<1> QED BY <1>1, <1>2, <1>3, <1>4

\* Every other step of a request.
LEMMA ProcSupersedes ==
  ASSUME TypeOK, Placed, Superseding, \A p, q \in Procs : p = q, NEW p \in Procs, ProcStep(p)
  PROVE  Superseding'
<1>1. CASE StartCommit(p) \/ Refuse(p)
  <2>1. \A o \in Procs : req'[o].pc = "supersede" => req'[o] = req[o]
    <3>1. ASSUME NEW s \in Sessions, req' = [req EXCEPT ![p].pc = "issue", ![p].sess = s]
          PROVE  \A o \in Procs : req'[o].pc = "supersede" => req'[o] = req[o]
      <4>1. req'[p].pc = "issue"
        BY <3>1 DEF TypeOK, Request
      <4> QED BY <3>1, <4>1 DEF TypeOK
    <3> QED BY <1>1, <3>1, FailEnds DEF StartCommit, Refuse
  <2>2. UNCHANGED <<submitted, firstAdmins, denylist, denied>>
    BY <1>1 DEF StartCommit, Refuse, outVars
  <2> QED BY <2>1, <2>2, SupersedingFrame DEF Superseding
<1>2. CASE IssueNext(p) \/ RegisterRebuild(p) \/ ConfirmWrite(p)
  <2>1. req' = [req EXCEPT ![p] = NoRequest]
    BY <1>2 DEF IssueNext, RegisterRebuild, ConfirmWrite
  <2>2. \A o \in Procs : req'[o].pc = "supersede" => req'[o] = req[o]
    BY <2>1 DEF TypeOK, NoRequest
  <2>3. UNCHANGED <<submitted, firstAdmins, denylist>> /\ \A r \in Replicas : denied'[r] \subseteq denylist
    BY <1>2 DEF IssueNext, RegisterRebuild, ConfirmWrite, Superseding, TypeOK, dbVars, repVars, outVars
  <2> QED BY <2>2, <2>3, SupersedingFrame
<1>3. CASE RegisterCommit(p) \/ ReconfirmRead(p)
  <2>1. \/ req' = [req EXCEPT ![p] = NoRequest]
        \/ req' = [req EXCEPT ![p].pc = "rebuild"]
        \/ req' = [req EXCEPT ![p].pc = "confirm"]
    BY <1>3 DEF RegisterCommit, ReconfirmRead
  <2>2. \A o \in Procs : req'[o].pc = "supersede" => req'[o] = req[o]
    BY <2>1 DEF TypeOK, Request, NoRequest
  <2>3. UNCHANGED <<submitted, firstAdmins, denylist, denied>>
    BY <1>3 DEF RegisterCommit, ReconfirmRead, dbVars, repVars, outVars
  <2> QED BY <2>2, <2>3, SupersedingFrame DEF Superseding
<1> QED BY <1>1, <1>2, <1>3, SubmitKeeps DEF ProcStep

\* Every step that is not a request's.
LEMMA OtherSupersedes ==
  ASSUME TypeOK, Superseding, [Next]_vars, ~ \E p \in Procs : ProcStep(p)
  PROVE  Superseding'
<1>1. CASE UNCHANGED vars
  BY <1>1, SupersedingFrame DEF vars, dbVars, repVars, extVars, outVars, Superseding
<1>2. ASSUME NEW r \in Replicas,
             \/ Tick(r) \/ TickLock(r) \/ TickIssue(r) \/ Banner(r) \/ RefuseClosed(r) \/ ForgetFailures(r)
      PROVE  Superseding'
  <2>1. UNCHANGED <<submitted, firstAdmins, denylist, denied, req>>
    BY <1>2 DEF Tick, TickLock, TickIssue, Banner, RefuseClosed, ForgetFailures, dbVars, extVars, outVars
  <2> QED BY <2>1, SupersedingFrame DEF Superseding
<1>3. ASSUME NEW r \in Replicas, Boot(r) \/ Poll(r) PROVE Superseding'
  <2>1. UNCHANGED <<submitted, firstAdmins, denylist, req>> /\ denied' = [denied EXCEPT ![r] = denylist]
    BY <1>3 DEF Boot, Poll, dbVars, extVars, outVars
  <2>2. \A o \in Replicas : denied'[o] \subseteq denylist
    BY <2>1 DEF Superseding, TypeOK
  <2> QED BY <2>1, <2>2, SupersedingFrame
<1>4. ASSUME NEW r \in Replicas, Crash(r) PROVE Superseding'
  <2>1. UNCHANGED <<submitted, firstAdmins, denylist>> /\ \A o \in Replicas : denied'[o] \subseteq denylist
    BY <1>4 DEF Crash, Superseding, TypeOK
  <2>2. \A p \in Procs : req'[p] = NoRequest \/ req'[p] = req[p]
    BY <1>4 DEF Crash
  <2> QED BY <2>1, <2>2, SupersedingFrame DEF NoRequest
<1>5. ASSUME NEW r \in Replicas, NEW c \in Certs, Observe(r, c) PROVE Superseding'
  <2>1. UNCHANGED <<submitted, denylist, denied, req>> /\ firstAdmins \subseteq firstAdmins'
    BY <1>5 DEF Observe, extVars, outVars
  <2> QED BY <2>1, SupersedingFrame DEF Superseding
<1>6. CASE \/ LockLost \/ ResetLock \/ ResetProbe \/ ResetCommit
           \/ \E t \in Tokens : ExpireToken(t)
           \/ \E s \in Sessions : LapseSession(s)
           \/ \E r \in Replicas : IssueFails(r)
  <2>1. UNCHANGED <<submitted, firstAdmins, denylist, denied, req>>
    BY <1>6 DEF LockLost, ResetLock, ResetProbe, ResetCommit, ExpireToken, LapseSession, IssueFails,
                dbVars, repVars, extVars, outVars
  <2> QED BY <2>1, SupersedingFrame DEF Superseding
<1>7. ASSUME NEW p \in Procs, RequestFails(p) PROVE Superseding'
  <2>1. UNCHANGED <<submitted, firstAdmins, denylist, denied>> /\ req' = [req EXCEPT ![p] = NoRequest]
    BY <1>7 DEF RequestFails, dbVars, repVars
  <2>2. \A o \in Procs : req'[o].pc = "supersede" => req'[o] = req[o]
    BY <2>1 DEF TypeOK, NoRequest
  <2> QED BY <2>1, <2>2, SupersedingFrame DEF Superseding
<1>8. ASSUME NEW p \in Procs, NEW r \in Replicas, Call(p, r) PROVE Superseding'
  <2>1. UNCHANGED <<submitted, firstAdmins, denylist, denied>>
    BY <1>8 DEF Call, StartCall, RegisterCall, ReconfirmCall, SubmitCall, SessionCall, dbVars, repVars, outVars
  <2>2. ASSUME NEW s, NEW k \in {"register", "reconfirm", "submit"}, NEW a, NEW c, SessionCall(p, r, s, k, a, c)
        PROVE  \A o \in Procs : req'[o].pc = "supersede" => req'[o] = req[o]
    <3>1. ASSUME req' = [req EXCEPT ![p] = [NoRequest EXCEPT
                           !.pc = k, !.at = r, !.sess = s, !.ca = a, !.cert = c]]
          PROVE  \A o \in Procs : req'[o].pc = "supersede" => req'[o] = req[o]
      BY <3>1 DEF TypeOK, NoRequest
    <3> QED BY <2>2, <3>1, FailEnds DEF SessionCall
  <2>3. ASSUME NEW t, StartCall(p, r, t)
        PROVE  \A o \in Procs : req'[o].pc = "supersede" => req'[o] = req[o]
    BY <2>3 DEF StartCall, TypeOK, NoRequest
  <2>4. \A o \in Procs : req'[o].pc = "supersede" => req'[o] = req[o]
    BY <1>8, <2>2, <2>3 DEF Call, RegisterCall, ReconfirmCall, SubmitCall
  <2> QED BY <2>1, <2>4, SupersedingFrame DEF Superseding
<1> QED BY <1>1, <1>2, <1>3, <1>4, <1>5, <1>6, <1>7, <1>8 DEF Next, Environment, ReplicaStep, DatabaseError

\* Where requests are served one at a time, at most one of the certificates
\* submitted in first run is not on the denylist, whichever replica serves each
\* submission, however old its copy of the denylist is, and wherever a crash or
\* an error cuts it short (supersede, RecordFirstAdmin).  With two submissions at
\* a time this is not so.
THEOREM OneFirstAdmin ==
  ASSUME \A p, q \in Procs : p = q
  PROVE  Spec => []NewestFirstAdmin
<1>1. Init => Superseding
  BY DEF Init, Superseding, NewestFirstAdmin, NoRequest
<1>2. IndInv /\ Superseding /\ [Next]_vars => Superseding'
  BY ProcSupersedes, OtherSupersedes DEF IndInv
<1>3. Superseding => NewestFirstAdmin
  BY DEF Superseding
<1> QED BY <1>1, <1>2, <1>3, Invariant, PTL DEF Spec
=============================================================================
