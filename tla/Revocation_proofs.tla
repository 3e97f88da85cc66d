------------------------- MODULE Revocation_proofs -------------------------
(***************************************************************************)
(* Proofs about Revocation for any number of replicas, writers, serials,   *)
(* CRLs and faults.                                                        *)
(***************************************************************************)
EXTENDS Revocation, TLAPS

\* The requests that handlers build, and the steps of a poll, have their types.
LEMMA Forms ==
  /\ NoRequest \in Request /\ NoPoll \in PollState
  /\ \A r \in Replicas, s \in Serials :
       [NoRequest EXCEPT !.pc = "deny", !.at = r, !.serial = s] \in Request
  /\ \A r \in Replicas, n \in Numbers :
       [NoRequest EXCEPT !.pc = "put", !.at = r, !.num = n] \in Request
  /\ \A q \in Request, k \in Pc : [q EXCEPT !.pc = k] \in Request
  /\ \A q \in Request, k \in Pc, ss \in SUBSET Serials :
       [q EXCEPT !.pc = k, !.seen = ss] \in Request
  /\ \A q \in PollState, k \in PollStage, e \in Nat :
       [q EXCEPT !.stage = k, !.epoch = e] \in PollState
  /\ \A q \in PollState, k \in PollStage, ss \in SUBSET Serials :
       [q EXCEPT !.stage = k, !.seen = ss] \in PollState
  /\ \A q \in PollState, k \in PollStage, n \in 0..MaxNumber :
       [q EXCEPT !.stage = k, !.num = n] \in PollState
<1>1. 0 \in 0..MaxNumber /\ Numbers \subseteq 0..MaxNumber
  BY RevocationAssumption DEF Numbers
<1> QED BY <1>1 DEF NoRequest, NoPoll, Request, PollState, Pc, PollStage

\* The number a reader finds is a number.
LEMMA StoredType == ASSUME TypeOK PROVE StoredNumber \in 0..MaxNumber
BY RevocationAssumption DEF TypeOK, StoredNumber

\* The places a request goes on to.
LEMMA Labels == {"read", "install", "write", "use"} \subseteq Pc
BY DEF Pc

\* A request that goes on in its slot stays a request.
LEMMA Moved ==
  ASSUME TypeOK, NEW p \in Procs, NEW k \in Pc, req' = [req EXCEPT ![p].pc = k]
  PROVE  /\ req' \in [Procs -> Request]
         /\ req'[p].pc = k /\ req'[p].num = req[p].num
         /\ \A o \in Procs \ {p} : req'[o] = req[o]
<1>1. req[p] \in Request /\ req'[p] = [req[p] EXCEPT !.pc = k]
  BY DEF TypeOK
<1>2. req'[p] \in Request /\ req'[p].pc = k /\ req'[p].num = req[p].num
  BY <1>1 DEF Request
<1> QED BY <1>2 DEF TypeOK

\* So does one that keeps what it has read.
LEMMA MovedSeen ==
  ASSUME TypeOK, NEW p \in Procs, NEW k \in Pc, NEW ss \in SUBSET Serials,
         req' = [req EXCEPT ![p] = [@ EXCEPT !.pc = k, !.seen = ss]]
  PROVE  /\ req' \in [Procs -> Request]
         /\ req'[p].pc = k
         /\ \A o \in Procs \ {p} : req'[o] = req[o]
<1>1. req[p] \in Request /\ req'[p] = [req[p] EXCEPT !.pc = k, !.seen = ss]
  BY DEF TypeOK
<1>2. req'[p] \in Request /\ req'[p].pc = k
  BY <1>1 DEF Request
<1> QED BY <1>2 DEF TypeOK

\* The poll, and a replica's start.
LEMMA ReplicaTypes ==
  ASSUME TypeOK, Asked, NEW r \in Replicas, PollStep(r) \/ PollFail(r) \/ Boot(r)
  PROVE  TypeOK' /\ Asked'
<1>1. CASE Boot(r)
  BY <1>1, StoredType DEF TypeOK, Asked, Boot, dbVars
<1>2. CASE PollStart(r)
  BY <1>2, Forms DEF TypeOK, Asked, PollStart, PollStage, dbVars, memVars
<1>3. CASE PollRead(r)
  BY <1>3, Forms DEF TypeOK, Asked, PollRead, PollStage, dbVars, memVars
<1>4. CASE PollInstall(r)
  <2>1. poll[r].seen \in SUBSET Serials
    BY DEF TypeOK, PollState
  <2> QED BY <1>4, <2>1, Forms DEF TypeOK, Asked, PollInstall, PollStage, dbVars
<1>5. CASE PollCRLs(r)
  <2>1. [poll[r] EXCEPT !.stage = "finish", !.num = StoredNumber] \in PollState
    BY Forms, StoredType DEF TypeOK, PollStage
  <2>2. poll' \in [Replicas -> PollState]
    BY <1>5, <2>1 DEF TypeOK, PollCRLs
  <2> QED BY <1>5, <2>2 DEF TypeOK, Asked, PollCRLs, dbVars, memVars
<1>6. CASE PollFinish(r)
  <2>1. poll[r].num \in 0..MaxNumber /\ poll[r].epoch \in Nat
    BY DEF TypeOK, PollState
  <2> QED BY <1>6, <2>1, Forms DEF TypeOK, Asked, PollFinish, dbVars
<1>7. CASE PollFail(r)
  <2>1. faults' \in 0..MaxFaults
    BY <1>7, RevocationAssumption DEF TypeOK, PollFail
  <2> QED BY <1>7, <2>1, Forms DEF TypeOK, Asked, PollFail, dbVars, memVars
<1> QED BY <1>1, <1>2, <1>3, <1>4, <1>5, <1>6, <1>7 DEF PollStep

\* A crash drops the requests of its replica and unlocks what they locked.
LEMMA CrashTypes ==
  ASSUME TypeOK, Asked, NEW r \in Replicas, Crash(r)
  PROVE  TypeOK' /\ Asked'
<1>1. req' \in [Procs -> Request] /\ \A p \in Procs : req'[p] = NoRequest \/ req'[p] = req[p]
  BY Forms DEF TypeOK, Crash
<1>2. rowLock' # None => rowLock' = rowLock /\ rowLock \in Procs /\ req'[rowLock] = req[rowLock]
  BY DEF TypeOK, Crash
<1>3. 0 \in 0..MaxNumber /\ faults' \in 0..MaxFaults
  BY RevocationAssumption DEF TypeOK, Crash
<1>4. NoPoll \in PollState
  BY Forms
<1>5. Asked'
  BY <1>1 DEF Asked, NoRequest
<1> QED BY <1>1, <1>2, <1>3, <1>4, <1>5 DEF TypeOK, Crash

\* The writers.
LEMMA DenyTypes ==
  ASSUME TypeOK, Asked, NEW p \in Procs,
         \/ DenyCommit(p) \/ DenyRead(p) \/ DenyInstall(p) \/ DenyFail(p)
         \/ \E r \in Replicas, s \in Serials : DenyCall(p, r, s)
  PROVE  TypeOK' /\ Asked'
<1>1. CASE DenyCommit(p)
  <2>1. req[p].serial \in Serials
    BY <1>1 DEF Asked, DenyCommit
  <2>2. req'[p].pc = "read" /\ rowLock # p /\ req' \in [Procs -> Request]
        /\ \A o \in Procs \ {p} : req'[o] = req[o]
    BY <1>1, Moved, Labels, RevocationAssumption DEF TypeOK, DenyCommit
  <2> QED BY <1>1, <2>1, <2>2 DEF TypeOK, Asked, DenyCommit, memVars
<1>2. CASE DenyRead(p)
  <2>1. req'[p].pc = "install" /\ req' \in [Procs -> Request]
        /\ \A o \in Procs \ {p} : req'[o] = req[o]
    <3>1. denylist \in SUBSET Serials /\ "install" \in Pc
      BY Labels DEF TypeOK
    <3> QED BY <1>2, <3>1, MovedSeen DEF DenyRead
  <2>2. rowLock # p
    BY <1>2, RevocationAssumption DEF TypeOK, DenyRead
  <2> QED BY <1>2, <2>1, <2>2 DEF TypeOK, Asked, DenyRead, dbVars, memVars
<1>3. CASE DenyInstall(p)
  <2>1. req[p].seen \in SUBSET Serials
    BY DEF TypeOK, Request
  <2>2. req'[p].pc = "idle" /\ rowLock # p /\ req' \in [Procs -> Request]
        /\ \A o \in Procs \ {p} : req'[o] = req[o]
    BY <1>3, Forms, RevocationAssumption DEF TypeOK, DenyInstall, NoRequest, dbVars
  <2> QED BY <1>3, <2>1, <2>2 DEF TypeOK, Asked, DenyInstall, dbVars
<1>4. CASE DenyFail(p)
  <2>1. req'[p].pc = "idle" /\ rowLock # p /\ req' \in [Procs -> Request]
        /\ \A o \in Procs \ {p} : req'[o] = req[o]
    BY <1>4, Forms, RevocationAssumption DEF TypeOK, DenyFail, NoRequest, dbVars
  <2>2. faults' \in 0..MaxFaults
    BY <1>4, RevocationAssumption DEF TypeOK, DenyFail
  <2> QED BY <1>4, <2>1, <2>2 DEF TypeOK, Asked, DenyFail, dbVars, memVars
<1>5. ASSUME NEW r \in Replicas, NEW s \in Serials, DenyCall(p, r, s)
      PROVE  TypeOK' /\ Asked'
  <2>1. req'[p].pc = "deny" /\ req'[p].serial = s /\ rowLock # p /\ req' \in [Procs -> Request]
        /\ \A o \in Procs \ {p} : req'[o] = req[o]
    BY <1>5, Forms, RevocationAssumption DEF TypeOK, DenyCall, NoRequest, dbVars
  <2> QED BY <1>5, <2>1 DEF TypeOK, Asked, DenyCall, dbVars, memVars
<1> QED BY <1>1, <1>2, <1>3, <1>4, <1>5

\* The writers of a CRL.
LEMMA PutTypes ==
  ASSUME TypeOK, Asked, NEW p \in Procs,
         \/ PutDecide(p) \/ PutCommit(p) \/ UseCRL(p) \/ PutFail(p)
         \/ \E r \in Replicas, n \in Numbers : PutCall(p, r, n)
  PROVE  TypeOK' /\ Asked'
<1>1. CASE PutDecide(p)
  <2>1. req' \in [Procs -> Request] /\ req'[p].pc \in {"write", "idle"}
        /\ \A o \in Procs \ {p} : req'[o] = req[o]
    <3>1. CASE req' = [req EXCEPT ![p].pc = "write"]
      BY <3>1, Moved, Labels
    <3>2. CASE req' = [req EXCEPT ![p] = NoRequest]
      BY <3>2, Forms DEF TypeOK, NoRequest
    <3> QED BY <1>1, <3>1, <3>2 DEF PutDecide, RowLocked
  <2>2. rowLock' \in {None, p} /\ (rowLock' = p => req'[p].pc = "write")
    BY <1>1, Moved, Labels, RevocationAssumption DEF PutDecide, RowLocked
  <2> QED BY <1>1, <2>1, <2>2 DEF TypeOK, Asked, PutDecide, RowLocked, memVars
<1>2. CASE PutCommit(p)
  <2>1. req' \in [Procs -> Request] /\ req'[p].pc = "use"
        /\ \A o \in Procs \ {p} : req'[o] = req[o]
    BY <1>2, Moved, Labels DEF PutCommit
  <2>2. req[p].num \in 0..MaxNumber
    BY DEF TypeOK, Request
  <2> QED BY <1>2, <2>1, <2>2 DEF TypeOK, Asked, PutCommit, memVars
<1>3. CASE UseCRL(p)
  <2>1. req[p].num \in 0..MaxNumber
    BY DEF TypeOK, Request
  <2>2. req'[p].pc = "idle" /\ rowLock # p /\ req' \in [Procs -> Request]
        /\ \A o \in Procs \ {p} : req'[o] = req[o]
    BY <1>3, Forms, RevocationAssumption DEF TypeOK, UseCRL, NoRequest, dbVars
  <2> QED BY <1>3, <2>1, <2>2 DEF TypeOK, Asked, UseCRL, dbVars
<1>4. CASE PutFail(p)
  <2>1. req'[p].pc = "idle" /\ rowLock' # p /\ req' \in [Procs -> Request]
        /\ (rowLock' # None => rowLock' = rowLock)
        /\ \A o \in Procs \ {p} : req'[o] = req[o]
    BY <1>4, Forms, RevocationAssumption DEF TypeOK, PutFail, NoRequest
  <2>2. faults' \in 0..MaxFaults
    BY <1>4, RevocationAssumption DEF TypeOK, PutFail
  <2> QED BY <1>4, <2>1, <2>2 DEF TypeOK, Asked, PutFail, memVars
<1>5. ASSUME NEW r \in Replicas, NEW n \in Numbers, PutCall(p, r, n)
      PROVE  TypeOK' /\ Asked'
  <2>1. req'[p].pc = "put" /\ rowLock # p /\ req' \in [Procs -> Request]
        /\ \A o \in Procs \ {p} : req'[o] = req[o]
    BY <1>5, Forms, RevocationAssumption DEF TypeOK, PutCall, NoRequest, dbVars
  <2> QED BY <1>5, <2>1 DEF TypeOK, Asked, PutCall, dbVars, memVars
<1> QED BY <1>1, <1>2, <1>3, <1>4, <1>5

\* Every step keeps the types.
LEMMA TypeStep == TypeOK /\ Asked /\ [Next]_vars => TypeOK' /\ Asked'
<1> SUFFICES ASSUME TypeOK, Asked, [Next]_vars PROVE TypeOK' /\ Asked'
  OBVIOUS
<1>1. ASSUME NEW r \in Replicas, PollStep(r) \/ PollFail(r) \/ Boot(r) PROVE TypeOK' /\ Asked'
  BY <1>1, ReplicaTypes
<1>2. ASSUME NEW r \in Replicas, Crash(r) PROVE TypeOK' /\ Asked'
  BY <1>2, CrashTypes
<1>3. ASSUME NEW p \in Procs,
             \/ DenyCommit(p) \/ DenyRead(p) \/ DenyInstall(p) \/ DenyFail(p)
             \/ \E r \in Replicas, s \in Serials : DenyCall(p, r, s)
      PROVE  TypeOK' /\ Asked'
  BY <1>3, DenyTypes
<1>4. ASSUME NEW p \in Procs,
             \/ PutDecide(p) \/ PutCommit(p) \/ UseCRL(p) \/ PutFail(p)
             \/ \E r \in Replicas, n \in Numbers : PutCall(p, r, n)
      PROVE  TypeOK' /\ Asked'
  BY <1>4, PutTypes
<1>5. CASE RecordAttempt
  BY <1>5, RevocationAssumption DEF TypeOK, Asked, RecordAttempt, memVars
<1>6. CASE UNCHANGED vars
  BY <1>6 DEF TypeOK, Asked, vars, dbVars, memVars
<1> QED BY <1>1, <1>2, <1>3, <1>4, <1>5, <1>6 DEF Next, Environment, ProcStep

\* The initial state has its types.
LEMMA InitTypes == Init => TypeOK /\ Asked
<1> SUFFICES ASSUME Init PROVE TypeOK /\ Asked
  OBVIOUS
<1>1. 0 \in 0..MaxNumber /\ faults \in 0..MaxFaults /\ epoch \in Nat
  BY RevocationAssumption DEF Init
<1>2. req \in [Procs -> Request] /\ poll \in [Replicas -> PollState]
  BY Forms DEF Init
<1>3. Asked
  BY DEF Init, Asked, NoRequest
<1> QED BY <1>1, <1>2, <1>3 DEF Init, TypeOK

\* Every variable has its type at all times, and a locked CRL row belongs to a
\* writer about to write it.
THEOREM TypeCorrect == Spec => []TypeOK
<1>1. Init => TypeOK /\ Asked
  BY InitTypes
<1>2. TypeOK /\ Asked /\ [Next]_vars => (TypeOK /\ Asked)'
  BY TypeStep
<1> QED BY <1>1, <1>2, PTL DEF Spec

-----------------------------------------------------------------------------
(* Anti-rollback.                                                          *)

\* A step that leaves the row, its lock and the writers in place keeps Decided.
LEMMA DecidedFrame ==
  ASSUME Decided, stored' = stored, rowLock' = rowLock,
         \A p \in Procs : req'[p].pc = "write" => req'[p] = req[p]
  PROVE  Decided'
BY DEF Decided

\* Where the CRL row exists, every step keeps Decided and never lowers the
\* stored number.
LEMMA DecidedStep ==
  ASSUME TypeOK, Decided, [Next]_vars
  PROVE  Decided' /\ stored' >= stored
<1>0. stored \in 0..MaxNumber
  BY DEF TypeOK, Decided
<1>1. ASSUME NEW r \in Replicas, PollStep(r) \/ PollFail(r) \/ Boot(r)
      PROVE  Decided' /\ stored' = stored
  <2>1. stored' = stored /\ rowLock' = rowLock /\ req' = req
    BY <1>1 DEF PollStep, PollStart, PollRead, PollInstall, PollCRLs, PollFinish, PollFail, Boot,
                dbVars
  <2> QED BY <2>1, DecidedFrame
<1>2. ASSUME NEW r \in Replicas, Crash(r)
      PROVE  Decided' /\ stored' = stored
  <2>1. \A p \in Procs : req'[p] = IF req[p].at = r THEN NoRequest ELSE req[p]
    BY <1>2 DEF Crash
  <2>2. ASSUME NEW p \in Procs, req'[p].pc = "write"
        PROVE  rowLock' = p /\ req'[p].num > stored'
    <3>1. req'[p] = req[p] /\ req[p].at # r
      BY <2>1, <2>2 DEF NoRequest
    <3>2. rowLock = p /\ req[p].num > stored
      BY <2>2, <3>1 DEF Decided
    <3> QED BY <1>2, <3>1, <3>2 DEF Crash
  <2> QED BY <1>2, <2>2 DEF Decided, Crash
<1>3. ASSUME NEW p \in Procs,
             \/ DenyCommit(p) \/ DenyRead(p) \/ DenyInstall(p) \/ DenyFail(p)
             \/ \E r \in Replicas, s \in Serials : DenyCall(p, r, s)
      PROVE  Decided' /\ stored' = stored
  <2>1. stored' = stored /\ rowLock' = rowLock
    BY <1>3 DEF DenyCommit, DenyRead, DenyInstall, DenyFail, DenyCall, dbVars
  <2>2. req'[p].pc # "write" /\ \A o \in Procs \ {p} : req'[o] = req[o]
    <3>1. CASE DenyCommit(p)
      BY <3>1, Moved, Labels DEF DenyCommit
    <3>2. CASE DenyRead(p)
      <4>1. denylist \in SUBSET Serials /\ "install" \in Pc
        BY Labels DEF TypeOK
      <4> QED BY <3>2, <4>1, MovedSeen DEF DenyRead
    <3>3. CASE DenyInstall(p) \/ DenyFail(p) \/ \E r \in Replicas, s \in Serials : DenyCall(p, r, s)
      <4>1. PICK q : q.pc # "write" /\ req' = [req EXCEPT ![p] = q]
        BY <3>3 DEF DenyInstall, DenyFail, DenyCall, NoRequest
      <4> QED BY <4>1 DEF TypeOK
    <3> QED BY <1>3, <3>1, <3>2, <3>3
  <2> QED BY <2>1, <2>2, DecidedFrame
<1>4. ASSUME NEW p \in Procs, PutDecide(p)
      PROVE  Decided' /\ stored' = stored
  <2>1. \A o \in Procs : req[o].pc # "write"
    BY <1>4, RevocationAssumption DEF PutDecide, Decided
  <2>2. \A o \in Procs \ {p} : req'[o] = req[o]
    BY <1>4 DEF TypeOK, PutDecide
  <2>3. CASE req' = [req EXCEPT ![p].pc = "write"]
    <3>1. req'[p].num = req[p].num /\ req'[p].pc = "write"
      BY <2>3, Moved, Labels
    <3>2. req' # [req EXCEPT ![p] = NoRequest]
      BY <3>1 DEF TypeOK, NoRequest
    <3>3. rowLock' = p /\ req[p].num > stored
      BY <1>4, <3>2 DEF PutDecide, RowLocked, Decided, StoredNumber
    <3> QED BY <1>4, <2>1, <2>2, <3>1, <3>3 DEF PutDecide, Decided
  <2>4. CASE req' = [req EXCEPT ![p] = NoRequest]
    <3>1. req'[p].pc = "idle"
      BY <2>4 DEF TypeOK, NoRequest
    <3> QED BY <1>4, <2>1, <2>2, <3>1 DEF PutDecide, Decided
  <2> QED BY <1>4, <2>3, <2>4 DEF PutDecide
<1>5. ASSUME NEW p \in Procs, PutCommit(p)
      PROVE  Decided' /\ stored' >= stored
  <2>1. rowLock = p /\ req[p].num > stored /\ req[p].num \in 0..MaxNumber /\ stored' = req[p].num
    BY <1>5 DEF PutCommit, Decided, TypeOK, Request
  <2>2. \A o \in Procs \ {p} : req'[o] = req[o] /\ req[o].pc # "write"
    BY <1>5, <2>1 DEF TypeOK, PutCommit, Decided
  <2>3. req'[p].pc = "use"
    BY <1>5 DEF TypeOK, PutCommit, Request
  <2>4. stored' >= stored /\ stored' # None
    BY <1>0, <2>1, RevocationAssumption
  <2> QED BY <2>2, <2>3, <2>4 DEF Decided
<1>6. ASSUME NEW p \in Procs, UseCRL(p) \/ \E r \in Replicas, n \in Numbers : PutCall(p, r, n)
      PROVE  Decided' /\ stored' = stored
  <2>1. stored' = stored /\ rowLock' = rowLock
    BY <1>6 DEF UseCRL, PutCall, dbVars
  <2>2. PICK q : q.pc # "write" /\ req' = [req EXCEPT ![p] = q]
    BY <1>6 DEF UseCRL, PutCall, NoRequest
  <2>3. req'[p].pc # "write" /\ \A o \in Procs \ {p} : req'[o] = req[o]
    BY <2>2 DEF TypeOK
  <2> QED BY <2>1, <2>3, DecidedFrame
<1>7. ASSUME NEW p \in Procs, PutFail(p)
      PROVE  Decided' /\ stored' = stored
  <2>1. req'[p].pc = "idle" /\ \A o \in Procs \ {p} : req'[o] = req[o]
    BY <1>7 DEF TypeOK, PutFail, NoRequest
  <2>2. \A o \in Procs \ {p} : req[o].pc = "write" => rowLock' = o
    BY <1>7 DEF PutFail, Decided
  <2> QED BY <1>7, <2>1, <2>2 DEF PutFail, Decided
<1>8. CASE RecordAttempt
  BY <1>8 DEF RecordAttempt, Decided
<1>9. CASE UNCHANGED vars
  BY <1>0, <1>9 DEF Decided, vars, dbVars
<1>10. stored' = stored => stored' >= stored
  BY <1>0
<1> QED BY <1>1, <1>2, <1>3, <1>4, <1>5, <1>6, <1>7, <1>8, <1>9, <1>10 DEF Next, Environment, ProcStep

\* Once a refresh attempt has left a CRL row, the stored CRL is never replaced by
\* an older one, however many writers overlap, crash or fail (PutOperatorCRL).
THEOREM AntiRollback == ASSUME Recorded PROVE Spec => NoRollback
<1>1. Init => TypeOK /\ Asked /\ Decided
  BY InitTypes, RevocationAssumption DEF Init, Decided, NoRequest
<1>2. TypeOK /\ Asked /\ Decided /\ [Next]_vars => (TypeOK /\ Asked /\ Decided)'
  BY TypeStep, DecidedStep
<1>3. TypeOK /\ Decided /\ Decided' /\ [Next]_vars
        => [stored # None => stored' # None /\ stored' >= stored]_vars
  BY DecidedStep DEF Decided
<1> QED BY <1>1, <1>2, <1>3, PTL DEF Spec, NoRollback

-----------------------------------------------------------------------------
(* Copies, with one writer at a time.                                      *)

\* What a poll q holds, on a replica that has seen the epoch l and has the copy
\* x of the denylist, where e is the epoch, d the denylist and n the stored CRL:
\* while it runs its replica is behind, and if nothing was written since it
\* began, what it has read is what is stored.
Reading(q, l, x, e, d, n) ==
  /\ q.stage # "idle" => l # e /\ q.epoch =< e
  /\ q.stage = "install" /\ q.epoch = e => q.seen = d
  /\ q.stage \in {"crls", "finish"} /\ q.epoch = e => x = d
  /\ q.stage = "finish" /\ q.epoch = e => q.num = n
  /\ q.stage = "finish" /\ n = 0 => q.num = 0

\* A replica that has seen the newest epoch has what is stored, and without a
\* stored CRL no replica has one.
Synced(l, x, c, e, d, n) ==
  /\ l # None => l =< e
  /\ l = e => x = d /\ c = n
  /\ n = 0 => c = 0

\* What the only writer holds is what it found or left in the database.
Writing(q, d, n) ==
  /\ q.pc # "idle" => q.at \in Replicas
  /\ q.pc = "install" => q.seen = d
  /\ q.pc = "write" => q.num > n
  /\ q.pc = "use" => q.num = n

Following(r) ==
  /\ Reading(poll[r], last[r], denied[r], epoch, denylist, StoredNumber)
  /\ Synced(last[r], denied[r], crl[r], epoch, denylist, StoredNumber)
Copies == (\A r \in Replicas : Following(r)) /\ \A p \in Procs : Writing(req[p], denylist, StoredNumber)

\* A step of a replica that leaves the database and the writers alone.
LEMMA ReplicaCopies ==
  ASSUME Copies, NEW r \in Replicas, UNCHANGED <<denylist, stored, epoch, req>>,
         \A s \in Replicas \ {r} : UNCHANGED <<denied[s], crl[s], last[s], poll[s]>>,
         Following(r)'
  PROVE  Copies'
<1>1. UNCHANGED StoredNumber
  BY DEF StoredNumber
<1>2. \A s \in Replicas \ {r} : Following(s)'
  BY <1>1 DEF Copies, Following
<1> QED BY <1>1, <1>2 DEF Copies

\* A step of the writer, or a crash, that leaves what the database has.
LEMMA WriterCopies ==
  ASSUME Copies, UNCHANGED <<denylist, epoch, StoredNumber, memVars, last, poll>>,
         \A p \in Procs : Writing(req[p], denylist, StoredNumber)'
  PROVE  Copies'
BY DEF Copies, Following, memVars

\* A write that moves the epoch leaves every replica behind.
LEMMA EpochCopies ==
  ASSUME TypeOK, Copies, epoch' = epoch + 1, UNCHANGED <<memVars, last, poll>>,
         StoredNumber' = StoredNumber \/ StoredNumber' # 0,
         \A p \in Procs : Writing(req[p], denylist, StoredNumber)'
  PROVE  Copies'
<1>1. ASSUME NEW r \in Replicas PROVE Following(r)'
  <2>1. epoch \in Nat /\ last[r] \in Nat \cup {None} /\ poll[r].epoch \in Nat /\ epoch + 1 # None
    BY RevocationAssumption DEF TypeOK, PollState
  <2>2. Following(r)
    BY DEF Copies
  <2>3. Synced(last[r], denied[r], crl[r], epoch, denylist, StoredNumber)'
    BY <2>1, <2>2 DEF Following, Synced, memVars
  <2>4. last[r]' # epoch' /\ poll[r]'.epoch = poll[r].epoch
    BY <2>1, <2>2 DEF Following, Synced
  <2>5. poll[r].stage # "idle" => poll[r].epoch =< epoch' /\ poll[r].epoch # epoch'
    BY <2>1, <2>2 DEF Following, Reading
  <2>6. Reading(poll[r], last[r], denied[r], epoch, denylist, StoredNumber)'
    BY <2>2, <2>4, <2>5 DEF Following, Reading
  <2> QED BY <2>3, <2>6 DEF Following
<1> QED BY <1>1 DEF Copies

\* The replica's steps.
LEMMA PollCopies ==
  ASSUME TypeOK, Copies, NEW r \in Replicas, PollStep(r) \/ PollFail(r) \/ Boot(r)
  PROVE  Copies'
<1> DEFINE q == poll[r]
<1>1. q \in PollState /\ epoch \in Nat /\ last[r] \in Nat \cup {None} /\ q.epoch \in Nat
  BY DEF TypeOK, PollState
<1>2. Following(r) /\ UNCHANGED <<denylist, stored, epoch, req>> /\ UNCHANGED StoredNumber
  BY DEF Copies, PollStep, PollStart, PollRead, PollInstall, PollCRLs, PollFinish, PollFail, Boot, dbVars,
         StoredNumber
<1>3. CASE PollStart(r)
  <2>1. poll'[r].stage = "read" /\ poll'[r].epoch = epoch
    BY <1>1, <1>3 DEF PollStart, PollState, TypeOK
  <2>2. UNCHANGED <<denied, crl, last>> /\ last[r] # epoch /\ \A s \in Replicas \ {r} : poll'[s] = poll[s]
    BY <1>3 DEF PollStart, memVars, TypeOK
  <2>3. Following(r)'
    BY <1>1, <1>2, <2>1, <2>2 DEF Following, Reading, Synced
  <2> QED BY <1>2, <2>2, <2>3, ReplicaCopies
<1>4. CASE PollRead(r)
  <2>1. poll'[r].stage = "install" /\ poll'[r].epoch = q.epoch /\ poll'[r].seen = denylist
    BY <1>1, <1>4 DEF PollRead, PollState, TypeOK
  <2>2. UNCHANGED <<denied, crl, last>> /\ q.stage = "read" /\ \A s \in Replicas \ {r} : poll'[s] = poll[s]
    BY <1>4 DEF PollRead, memVars, TypeOK
  <2>3. Following(r)'
    BY <1>1, <1>2, <2>1, <2>2 DEF Following, Reading, Synced
  <2> QED BY <1>2, <2>2, <2>3, ReplicaCopies
<1>5. CASE PollInstall(r)
  <2>1. poll'[r].stage = "crls" /\ poll'[r].epoch = q.epoch
    BY <1>1, <1>5 DEF PollInstall, PollState, TypeOK
  <2>2. UNCHANGED <<crl, last>> /\ q.stage = "install"
        /\ \A s \in Replicas \ {r} : poll'[s] = poll[s] /\ denied'[s] = denied[s]
    BY <1>5 DEF PollInstall, TypeOK
  <2>3. denied'[r] = q.seen
    BY <1>5 DEF PollInstall, TypeOK
  <2>4. Following(r)'
    BY <1>1, <1>2, <2>1, <2>2, <2>3 DEF Following, Reading, Synced
  <2> QED BY <1>2, <2>2, <2>4, ReplicaCopies
<1>6. CASE PollCRLs(r)
  <2>1. poll'[r].stage = "finish" /\ poll'[r].epoch = q.epoch /\ poll'[r].num = StoredNumber
    BY <1>1, <1>6 DEF PollCRLs, PollState, TypeOK
  <2>2. UNCHANGED <<denied, crl, last>> /\ q.stage = "crls" /\ \A s \in Replicas \ {r} : poll'[s] = poll[s]
    BY <1>6 DEF PollCRLs, memVars, TypeOK
  <2>3. Following(r)'
    BY <1>1, <1>2, <2>1, <2>2 DEF Following, Reading, Synced
  <2> QED BY <1>2, <2>2, <2>3, ReplicaCopies
<1>7. CASE PollFinish(r)
  <2>1. poll'[r] = NoPoll /\ q.stage = "finish" /\ last'[r] = q.epoch
    BY <1>7 DEF PollFinish, TypeOK
  <2>2. UNCHANGED denied
        /\ \A s \in Replicas \ {r} : poll'[s] = poll[s] /\ last'[s] = last[s] /\ crl'[s] = crl[s]
    BY <1>7 DEF PollFinish, TypeOK
  <2>3. crl'[r] = IF q.num = 0 THEN crl[r] ELSE q.num
    BY <1>7 DEF PollFinish, TypeOK
  <2>4. Synced(last[r], denied[r], crl[r], epoch, denylist, StoredNumber)'
    BY <1>1, <1>2, <2>1, <2>2, <2>3 DEF Following, Reading, Synced
  <2>5. Following(r)'
    BY <2>1, <2>4 DEF Following, Reading, NoPoll
  <2> QED BY <1>2, <2>2, <2>5, ReplicaCopies
<1>8. CASE PollFail(r)
  <2>1. poll'[r] = NoPoll /\ \A s \in Replicas \ {r} : poll'[s] = poll[s]
    BY <1>8 DEF PollFail, TypeOK
  <2>2. UNCHANGED <<denied, crl, last>>
    BY <1>8 DEF PollFail, memVars
  <2>3. Following(r)'
    BY <1>2, <2>1, <2>2 DEF Following, Reading, Synced, NoPoll
  <2> QED BY <1>2, <2>1, <2>2, <2>3, ReplicaCopies
<1>9. CASE Boot(r)
  <2>1. denied'[r] = denylist /\ crl'[r] = StoredNumber
        /\ \A s \in Replicas \ {r} : denied'[s] = denied[s] /\ crl'[s] = crl[s]
    BY <1>9 DEF Boot, TypeOK
  <2>2. UNCHANGED <<last, poll>>
    BY <1>9 DEF Boot
  <2>3. Following(r)'
    BY <1>2, <2>1, <2>2 DEF Following, Reading, Synced
  <2> QED BY <1>2, <2>1, <2>2, <2>3, ReplicaCopies
<1> QED BY <1>3, <1>4, <1>5, <1>6, <1>7, <1>8, <1>9 DEF PollStep

\* A crash: nothing has been seen and nothing is held.
LEMMA CrashCopies ==
  ASSUME TypeOK, Copies, NEW r \in Replicas, Crash(r)
  PROVE  Copies'
<1>1. denied'[r] = {} /\ crl'[r] = 0 /\ last'[r] = None /\ poll'[r] = NoPoll
  BY DEF TypeOK, Crash
<1>2. \A s \in Replicas \ {r} : UNCHANGED <<denied[s], crl[s], last[s], poll[s]>>
  BY DEF TypeOK, Crash
<1>3. UNCHANGED <<denylist, stored, epoch, StoredNumber>> /\ epoch # None
  BY RevocationAssumption DEF TypeOK, Crash, StoredNumber
<1>4. Following(r)'
  BY <1>1, <1>3 DEF Following, Reading, Synced, NoPoll
<1>5. \A s \in Replicas \ {r} : Following(s)'
  BY <1>2, <1>3 DEF Copies, Following
<1>6. \A p \in Procs : req'[p] = NoRequest \/ req'[p] = req[p]
  BY DEF Crash
<1>7. \A p \in Procs : Writing(req[p], denylist, StoredNumber)'
  BY <1>3, <1>6 DEF Copies, Writing, NoRequest
<1> QED BY <1>4, <1>5, <1>7 DEF Copies

\* A request that does not hold anything to install.
LEMMA WritingForms ==
  ASSUME NEW d, NEW n
  PROVE  /\ Writing(NoRequest, d, n)
         /\ \A q : q.at \in Replicas /\ q.pc \in {"deny", "read", "put"} => Writing(q, d, n)
BY DEF Writing, NoRequest

\* The steps of a writer, where there is one at a time.
LEMMA WriterStep ==
  ASSUME TypeOK, Asked, Copies, \A p, q \in Procs : p = q, NEW p \in Procs,
         \/ ProcStep(p) \/ DenyFail(p) \/ PutFail(p)
         \/ \E r \in Replicas, s \in Serials : DenyCall(p, r, s)
         \/ \E r \in Replicas, n \in Numbers : PutCall(p, r, n)
  PROVE  Copies'
<1> DEFINE q == req[p]
<1>0. \A o \in Procs : o = p
  OBVIOUS
<1>1. q \in Request /\ Writing(q, denylist, StoredNumber) /\ StoredNumber \in 0..MaxNumber /\ q.num \in 0..MaxNumber
  BY StoredType DEF TypeOK, Copies, Request
<1>2. CASE DenyCommit(p)
  <2>1. req'[p].pc = "read" /\ req'[p].at = q.at /\ q.at \in Replicas
    BY <1>1, <1>2 DEF DenyCommit, Request, TypeOK, Writing
  <2>2. UNCHANGED <<memVars, last, poll, StoredNumber>>
    BY <1>2 DEF DenyCommit, StoredNumber
  <2>3. \A o \in Procs : Writing(req[o], denylist, StoredNumber)'
    BY <1>0, <2>1, WritingForms
  <2>4. CASE q.serial \in denylist
    <3>1. UNCHANGED <<denylist, epoch>>
      BY <1>2, <2>4 DEF DenyCommit
    <3> QED BY <2>2, <2>3, <3>1, WriterCopies
  <2>5. CASE q.serial \notin denylist
    <3>1. epoch' = epoch + 1
      BY <1>2, <2>5 DEF DenyCommit
    <3> QED BY <2>2, <2>3, <3>1, EpochCopies
  <2> QED BY <2>4, <2>5
<1>3. CASE DenyRead(p)
  <2>1. req'[p].pc = "install" /\ req'[p].at = q.at /\ q.at \in Replicas /\ req'[p].seen = denylist
    BY <1>1, <1>3 DEF DenyRead, Request, TypeOK, Writing
  <2>2. UNCHANGED <<denylist, epoch, StoredNumber, memVars, last, poll>>
    BY <1>3 DEF DenyRead, dbVars, StoredNumber
  <2>3. \A o \in Procs : Writing(req[o], denylist, StoredNumber)'
    BY <1>0, <2>1, <2>2 DEF Writing
  <2> QED BY <2>2, <2>3, WriterCopies
<1>4. CASE DenyInstall(p)
  <2>1. q.seen = denylist /\ q.at \in Replicas /\ req'[p] = NoRequest
    BY <1>1, <1>4 DEF DenyInstall, TypeOK, Writing
  <2>2. UNCHANGED <<denylist, epoch, StoredNumber, crl, last, poll>>
    BY <1>4 DEF DenyInstall, dbVars, StoredNumber
  <2>3. \A s \in Replicas : denied'[s] = IF s = q.at THEN denylist ELSE denied[s]
    BY <1>4, <2>1 DEF DenyInstall, TypeOK
  <2>4. \A s \in Replicas : Following(s)'
    BY <2>2, <2>3 DEF Copies, Following, Reading, Synced
  <2>5. \A o \in Procs : Writing(req[o], denylist, StoredNumber)'
    BY <1>0, <2>1, WritingForms
  <2> QED BY <2>4, <2>5 DEF Copies
<1>5. CASE PutDecide(p)
  <2>1. UNCHANGED <<denylist, epoch, StoredNumber, memVars, last, poll>>
    BY <1>5 DEF PutDecide, StoredNumber
  <2>2. \/ req'[p] = NoRequest
        \/ /\ req'[p].pc = "write" /\ req'[p].at = q.at /\ req'[p].num = q.num
           /\ q.at \in Replicas /\ q.num > StoredNumber
    BY <1>1, <1>5 DEF PutDecide, Request, TypeOK, Writing
  <2>3. \A o \in Procs : Writing(req[o], denylist, StoredNumber)'
    BY <1>0, <2>1, <2>2 DEF Writing, NoRequest
  <2> QED BY <2>1, <2>3, WriterCopies
<1>6. CASE PutCommit(p)
  <2>1. req'[p].pc = "use" /\ req'[p].at = q.at /\ req'[p].num = q.num /\ q.at \in Replicas /\ q.num > StoredNumber
    BY <1>1, <1>6 DEF PutCommit, Request, TypeOK, Writing
  <2>2. stored' = q.num /\ StoredNumber' = q.num /\ q.num # 0
    BY <1>1, <1>6, <2>1, RevocationAssumption DEF PutCommit, StoredNumber
  <2>3. epoch' = epoch + 1 /\ UNCHANGED <<memVars, last, poll>>
    BY <1>6 DEF PutCommit
  <2>4. \A o \in Procs : Writing(req[o], denylist, StoredNumber)'
    BY <1>0, <2>1, <2>2 DEF Writing
  <2> QED BY <2>2, <2>3, <2>4, EpochCopies
<1>7. CASE UseCRL(p)
  <2>1. q.num = StoredNumber /\ q.at \in Replicas /\ req'[p] = NoRequest
    BY <1>1, <1>7 DEF UseCRL, TypeOK, Writing
  <2>2. UNCHANGED <<denylist, epoch, StoredNumber, denied, last, poll>>
    BY <1>7 DEF UseCRL, dbVars, StoredNumber
  <2>3. \A s \in Replicas : crl'[s] = IF s = q.at THEN StoredNumber ELSE crl[s]
    BY <1>7, <2>1 DEF UseCRL, TypeOK
  <2>4. \A s \in Replicas : Following(s)'
    BY <2>2, <2>3 DEF Copies, Following, Reading, Synced
  <2>5. \A o \in Procs : Writing(req[o], denylist, StoredNumber)'
    BY <1>0, <2>1, WritingForms
  <2> QED BY <2>4, <2>5 DEF Copies
<1>8. CASE DenyFail(p) \/ PutFail(p)
  <2>1. UNCHANGED <<denylist, epoch, StoredNumber, memVars, last, poll>> /\ req'[p] = NoRequest
    BY <1>8 DEF DenyFail, PutFail, dbVars, StoredNumber, TypeOK
  <2>2. \A o \in Procs : Writing(req[o], denylist, StoredNumber)'
    BY <1>0, <2>1, WritingForms
  <2> QED BY <2>1, <2>2, WriterCopies
<1>9. ASSUME NEW r \in Replicas, (\E s \in Serials : DenyCall(p, r, s)) \/ \E n \in Numbers : PutCall(p, r, n)
      PROVE  Copies'
  <2>1. UNCHANGED <<denylist, epoch, StoredNumber, memVars, last, poll>>
    BY <1>9 DEF DenyCall, PutCall, dbVars, StoredNumber
  <2>2. req'[p].at = r /\ req'[p].pc \in {"deny", "put"}
    <3>1. PICK x : x.at = r /\ x.pc \in {"deny", "put"} /\ req' = [req EXCEPT ![p] = x]
      BY <1>9 DEF DenyCall, PutCall, NoRequest
    <3> QED BY <3>1 DEF TypeOK
  <2>3. \A o \in Procs : Writing(req[o], denylist, StoredNumber)'
    BY <1>0, <2>2, WritingForms
  <2> QED BY <2>1, <2>3, WriterCopies
<1> QED BY <1>2, <1>3, <1>4, <1>5, <1>6, <1>7, <1>8, <1>9 DEF ProcStep

\* Every step keeps the copies, where there is one writer at a time.
LEMMA CopiesStep ==
  ASSUME TypeOK, Asked, Copies, \A p, q \in Procs : p = q, [Next]_vars
  PROVE  Copies'
<1>1. CASE UNCHANGED vars
  BY <1>1 DEF vars, dbVars, memVars, Copies, Following, StoredNumber
<1>2. CASE RecordAttempt
  <2>1. UNCHANGED <<denylist, epoch, StoredNumber, memVars, last, poll, req>>
    BY <1>2, RevocationAssumption DEF RecordAttempt, StoredNumber
  <2>2. \A o \in Procs : Writing(req[o], denylist, StoredNumber)'
    BY <2>1 DEF Copies
  <2> QED BY <2>1, <2>2, WriterCopies
<1> QED BY <1>1, <1>2, PollCopies, CrashCopies, WriterStep DEF Next, Environment

\* The copies as long as there is one writer at a time.
LEMMA CopiesHold ==
  ASSUME \A p, q \in Procs : p = q
  PROVE  Spec => []Copies
<1>1. Init => Copies
  <2> SUFFICES ASSUME Init PROVE Copies
    OBVIOUS
  <2>1. StoredNumber = 0 /\ epoch = 0 /\ 0 # None
    BY RevocationAssumption DEF Init, StoredNumber
  <2>2. \A r \in Replicas : Following(r)
    BY <2>1 DEF Init, Following, Reading, Synced, NoPoll
  <2> QED BY <2>2, WritingForms DEF Init, Copies
<1>2. TypeOK /\ Asked /\ Copies /\ [Next]_vars => Copies'
  BY CopiesStep
<1> QED BY <1>1, <1>2, InitTypes, TypeStep, PTL DEF Spec

\* Where denials and CRL uploads don't overlap, a replica that has nothing left
\* to do for the newest epoch enforces the whole denylist, whatever polls,
\* crashes and errors came between (Deny, PollOnce).  With two writers at a time
\* this is not so.
THEOREM DenylistFollowed ==
  ASSUME \A p, q \in Procs : p = q
  PROVE  Spec => []DenylistCurrent
<1>1. Copies => DenylistCurrent
  BY DEF Copies, Following, Synced, DenylistCurrent, Current
<1> QED BY <1>1, CopiesHold, PTL

\* The same for the CRL (StoreCRL, Reload): such a replica uses the stored one.
THEOREM CRLFollowed ==
  ASSUME \A p, q \in Procs : p = q
  PROVE  Spec => []CRLCurrent
<1>1. Copies => CRLCurrent
  BY DEF Copies, Following, Synced, CRLCurrent, Current
<1> QED BY <1>1, CopiesHold, PTL

=============================================================================
