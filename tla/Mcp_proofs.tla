----------------------------- MODULE Mcp_proofs -----------------------------
(***************************************************************************)
(* Proofs about what an agent is given and may do, for any number of       *)
(* logins, keys, clients, approvals, tool calls and deciders at the same   *)
(* time.  StepUp: what runs under an approval, and that the approvals      *)
(* table implements OneShot.  McpLogin: a login is worth one key, the one  *)
(* its operator consented to.                                              *)
(***************************************************************************)
EXTENDS StepUp, McpLogin, TLAPS

(***************************************************************************)
(* StepUp.                                                                 *)
(***************************************************************************)
Running == {"run", "push"}

\* A call record x that passed Use's checks on its approval.
Held(x) ==
  /\ x.ref \in Ids /\ approvals[x.ref] # None
  /\ approvals[x.ref].key = x.key /\ approvals[x.ref].req = x.req
  /\ approvals[x.ref].status \in {"approved", "used"}
  /\ approvals[x.ref].by >= MinLevel(x.req.tool)

\* Requests in progress have what they need.
Asking == \A c \in Calls : call[c].pc # "idle" => call[c].req \in Requests /\ call[c].key \in Keys
Known == \A c \in Calls :
  /\ call[c].ref # None => approvals[call[c].ref] # None
  /\ call[c].pc = "use" => call[c].ref # None
  /\ call[c].pc = "push" => call[c].saw \in Bodies
Deciding == \A d \in Deciders : decision[d].pc = "commit" =>
  decision[d].id \in Ids /\ approvals[decision[d].id] # None

\* A call about to spend its approval has passed the checks, one about to run
\* has spent it for itself alone, and what ran did so once.
Spending == \A c \in Calls : call[c].pc = "spend" => Held(call[c])
Holding == \A c \in Calls : call[c].pc \in Running =>
  Held(call[c]) /\ approvals[call[c].ref].status = "used" /\ ran[call[c].ref].n = 0
Apart == \A c, d \in Calls : c # d /\ call[c].pc \in Running /\ call[d].pc \in Running =>
  call[c].ref # call[d].ref
RanOnce == \A i \in Ids : ran[i].n > 0 => approvals[i] # None /\ ran[i].n = 1

Placed == Asking /\ Known /\ Deciding
Inv == Spending /\ Holding /\ Apart /\ RanOnce /\ RunsAsRaised
IndInv == TypeOK /\ Placed /\ Inv

-----------------------------------------------------------------------------
(* Types.                                                                  *)

\* What a summary shows, and what a request asks for, is an outcome.
LEMMA RequestForms ==
  ASSUME NEW r \in Requests
  PROVE  /\ r.tool \in Tools /\ r.arg \in Args(r.tool)
         /\ r.tool \in {"profile_create", "profile_update", "cert_issue_from_csr"} => r.arg \in Bodies
         /\ r.tool = "adapter_set_enabled" => r.arg \in {"on", "off"}
<1>1. PICK t \in Tools : r \in [tool : {t}, arg : Args(t)]
  BY DEF Requests
<1>2. r.tool = t /\ r.arg \in Args(t)
  BY <1>1
<1> QED BY <1>2 DEF Args

\* A summary shows an outcome, for every tool and every profile there is.
LEMMA DescribedType ==
  ASSUME NEW r \in Requests, catalog \in Bodies \cup {Absent}, carried \in Bodies \cup {Absent}
  PROVE  Described(r) \in Outcomes
<1>1. /\ r.tool \in Tools
      /\ r.tool \in {"profile_create", "profile_update", "cert_issue_from_csr"} => r.arg \in Bodies
      /\ r.tool = "adapter_set_enabled" => r.arg \in {"on", "off"}
  BY RequestForms
<1> QED BY <1>1, StepUpAssumption DEF Described, Outcomes

\* Records that the steps build have their types.
LEMMA CallForms ==
  /\ NoCall \in CallState /\ NoCall.pc = "idle" /\ NoCall.ref = None
  /\ \A x \in CallState :
       /\ x.ref \in Ids \cup {None} /\ x.at \in Nat /\ x.saw \in Outcomes /\ x.level \in Levels
       /\ x.key \in Keys \cup {None} /\ x.req \in Requests \cup {None}
BY DEF NoCall, CallState, Levels, Viewer, Admin, Outcomes, Absent

\* Decision slots are empty or hold a whole decision.
LEMMA DecisionForms ==
  /\ NoDecision \in DecisionState /\ NoDecision.pc = "idle"
  /\ \A i \in Ids, b \in BOOLEAN, l \in Levels, t \in Nat :
       [pc |-> "commit", id |-> i, approve |-> b, level |-> l, at |-> t] \in DecisionState
BY DEF NoDecision, DecisionState, Levels, Viewer, Admin

\* What a call record may become: it is well formed, its approval exists, and
\* it comes to spend or to run only with the checks passed.
Sound(c, x) ==
  /\ x \in CallState
  /\ x.pc # "idle" => x.req \in Requests /\ x.key \in Keys
  /\ x.ref # None => approvals[x.ref] # None
  /\ x.pc = "use" => x.ref # None
  /\ x.pc = "push" => x.saw \in Bodies
  /\ x.pc = "spend" => Held(x)
  /\ x.pc \in Running => /\ call[c].pc \in Running
                         /\ x.key = call[c].key /\ x.req = call[c].req /\ x.ref = call[c].ref

\* Leaving a slot is sound.
LEMMA LeavingSound ==
  ASSUME NEW c \in Calls
  PROVE  Sound(c, NoCall)
BY CallForms, StepUpAssumption DEF Sound, Running

\* A call that moves on to a step before the approval is spent is sound.
LEMMA MovingSound ==
  ASSUME IndInv, NEW c \in Calls, call[c].pc # "idle",
         NEW pc \in {"request", "use", "issue"}, NEW o \in Outcomes,
         pc = "use" => call[c].ref # None
  PROVE  Sound(c, [call[c] EXCEPT !.pc = pc, !.saw = o])
<1> DEFINE x == [call[c] EXCEPT !.pc = pc, !.saw = o]
<1>1. call[c] \in CallState
  BY DEF IndInv, TypeOK
<1>2. x \in CallState /\ x.pc = pc /\ x.req = call[c].req /\ x.key = call[c].key /\ x.ref = call[c].ref
  BY <1>1 DEF CallState
<1> HIDE DEF x
<1>3. x.req \in Requests /\ x.key \in Keys /\ (x.ref # None => approvals[x.ref] # None)
  BY <1>2 DEF IndInv, Placed, Asking, Known
<1>4. Sound(c, x)
  BY <1>2, <1>3 DEF Sound, Running
<1> QED BY <1>4 DEF x

-----------------------------------------------------------------------------
(* Steps by what they change.                                              *)

\* Every step of a call that changes neither the approvals nor the history.
LEMMA CallMoves ==
  ASSUME IndInv, NEW c \in Calls, NEW x, Sound(c, x),
         call' = [call EXCEPT ![c] = x],
         UNCHANGED <<approvals, ran, decision>>
  PROVE  call' \in [Calls -> CallState] /\ Placed' /\ Inv'
<1> USE DEF IndInv, TypeOK
<1>1. call' \in [Calls -> CallState] /\ call'[c] = x /\ \A d \in Calls : d # c => call'[d] = call[d]
  BY DEF Sound
<1>2. Asking' /\ Known' /\ Deciding'
  BY <1>1 DEF Sound, Placed, Asking, Known, Deciding
<1>3. Spending'
  BY <1>1 DEF Sound, Inv, Spending, Held
<1>4. Holding'
  BY <1>1 DEF Sound, Inv, Holding, Held
<1>5. Apart'
  BY <1>1 DEF Sound, Inv, Apart
<1>6. RanOnce' /\ RunsAsRaised'
  BY DEF Inv, RanOnce, RunsAsRaised
<1> QED BY <1>1, <1>2, <1>3, <1>4, <1>5, <1>6 DEF Placed, Inv

\* A step that leaves the calls, the approvals and the history alone.
LEMMA OthersMove ==
  ASSUME IndInv, UNCHANGED <<approvals, ran, call>>, Deciding'
  PROVE  Placed' /\ Inv'
BY DEF IndInv, Placed, Asking, Known, Inv, Spending, Holding, Held, Apart, RanOnce, RunsAsRaised

\* An operation runs under the approval its call holds.
LEMMA RunMoves ==
  ASSUME IndInv, NEW c \in Calls, NEW o \in Outcomes,
         call[c].pc \in Running, Ran(c, o), End(c),
         UNCHANGED <<approvals, decision>>
  PROVE  /\ call' \in [Calls -> CallState] /\ ran' \in [Ids -> Run]
         /\ Placed' /\ Inv'
         /\ ran[call[c].ref].n = 0 /\ approvals[call[c].ref].status = "used"
         /\ ran'[call[c].ref].n = 1
<1> DEFINE i == call[c].ref
           r == [n |-> 1, req |-> call[c].req, key |-> call[c].key, after |-> o]
<1> USE DEF IndInv, TypeOK
<1>1. /\ i \in Ids /\ approvals[i] # None /\ approvals[i].status = "used" /\ ran[i].n = 0
      /\ approvals[i].key = call[c].key /\ approvals[i].req = call[c].req
      /\ approvals[i].by >= MinLevel(call[c].req.tool)
      /\ call[c].req \in Requests /\ call[c].key \in Keys
  BY DEF Inv, Holding, Held, Placed, Asking, Running
<1>2. r \in Run /\ r.n = 1 /\ r.req = call[c].req /\ r.key = call[c].key
  BY <1>1 DEF Run
<1>3. ran' = [ran EXCEPT ![i] = r]
  BY <1>1 DEF Ran
<1>4. ran' \in [Ids -> Run] /\ ran'[i] = r /\ \A j \in Ids : j # i => ran'[j] = ran[j]
  BY <1>1, <1>2, <1>3
<1>5. /\ call' \in [Calls -> CallState] /\ call'[c] = NoCall
      /\ \A d \in Calls : d # c => call'[d] = call[d]
  BY CallForms DEF End
<1> HIDE DEF i, r
<1>6. Asking' /\ Known' /\ Deciding'
  BY <1>5, CallForms DEF Placed, Asking, Known, Deciding
<1>7. Spending'
  BY <1>5, CallForms DEF Inv, Spending, Held
<1>8. \A d \in Calls : call'[d].pc \in Running => d # c /\ call[d].ref \in Ids /\ call[d].ref # i
  BY <1>5, CallForms DEF Inv, Apart, Holding, Held, i, Running
<1>9. Holding'
  BY <1>4, <1>5, <1>8 DEF Inv, Holding, Held
<1>10. Apart'
  BY <1>5, <1>8 DEF Inv, Apart
<1>11. RanOnce'
  BY <1>1, <1>2, <1>4 DEF Inv, RanOnce
<1>12. RunsAsRaised'
  BY <1>1, <1>2, <1>4 DEF Inv, RunsAsRaised
<1> QED BY <1>1, <1>2, <1>4, <1>5, <1>6, <1>7, <1>9, <1>10, <1>11, <1>12 DEF Placed, Inv, i

\* An approval is raised under a fresh id, pending.
LEMMA RaiseMoves ==
  ASSUME IndInv, NEW c \in Calls, NEW i \in Ids, RaiseApproval(c, i)
  PROVE  /\ call' \in [Calls -> CallState] /\ approvals' \in [Ids -> Approval \cup {None}]
         /\ Placed' /\ Inv'
         /\ approvals'[i] # None /\ approvals'[i].status = "pending"
<1> DEFINE row == NewApproval(c)
<1> USE DEF IndInv, TypeOK, RaiseApproval
<1>1. call[c] \in CallState /\ call[c].req \in Requests /\ call[c].key \in Keys
  BY DEF Placed, Asking
<1>2. call[c].saw \in Outcomes /\ now + TTL \in Nat
  BY <1>1, CallForms, StepUpAssumption
<1>3. row \in Approval /\ row.status = "pending"
  BY <1>1, <1>2 DEF NewApproval, Approval
<1>4. approvals[i] = None /\ approvals' = [approvals EXCEPT ![i] = row]
  BY DEF AddApproval
<1> HIDE DEF row
<1>5. /\ approvals' \in [Ids -> Approval \cup {None}] /\ approvals'[i] = row /\ row # None
      /\ \A j \in Ids : j # i => approvals'[j] = approvals[j]
  BY <1>3, <1>4, ApprovalAssumption
<1>6. /\ call' \in [Calls -> CallState] /\ call'[c] = NoCall
      /\ \A d \in Calls : d # c => call'[d] = call[d]
  BY CallForms DEF End
<1>7. Asking' /\ Known' /\ Deciding'
  BY <1>4, <1>5, <1>6, CallForms, StepUpAssumption DEF Placed, Asking, Known, Deciding
<1>8. Spending' /\ Holding' /\ Apart'
  BY <1>4, <1>5, <1>6, CallForms DEF Inv, Spending, Holding, Apart, Held, Running
<1>9. RanOnce' /\ RunsAsRaised'
  BY <1>4, <1>5 DEF Inv, RanOnce, RunsAsRaised
<1> QED BY <1>3, <1>5, <1>6, <1>7, <1>8, <1>9 DEF Placed, Inv

\* A decision changes a pending approval, and nothing but its decision.
LEMMA DecisionMoves ==
  ASSUME IndInv, NEW d \in Deciders, DecideCommit(d)
  PROVE  /\ decision' \in [Deciders -> DecisionState] /\ approvals' \in [Ids -> Approval \cup {None}]
         /\ Placed' /\ Inv'
         /\ \/ approvals' = approvals
            \/ \E i \in Ids :
                 /\ approvals[i] # None /\ approvals[i].status = "pending"
                 /\ approvals'[i] # None /\ approvals'[i].status \in {"approved", "denied"}
                 /\ \A j \in Ids : j # i => approvals'[j] = approvals[j]
<1> DEFINE i == decision[d].id
           s == IF decision[d].approve THEN "approved" ELSE "denied"
           row == [approvals[i] EXCEPT !.status = s, !.by = decision[d].level, !.decidedAt = decision[d].at]
<1> USE DEF IndInv, TypeOK, DecideCommit
<1>1. i \in Ids /\ approvals[i] \in Approval
  BY DEF Placed, Deciding
<1>2. decision[d].level \in Levels /\ decision[d].at \in Nat /\ s \in {"approved", "denied"}
  BY DEF DecisionState
<1>3. decision' \in [Deciders -> DecisionState]
  BY DecisionForms
<1>4. \A e \in Deciders : decision'[e].pc = "commit" => decision'[e] = decision[e]
  BY DecisionForms
<1>5. CASE approvals[i].status = "pending" /\ approvals[i].exp > decision[d].at
  <2>1. approvals' = [approvals EXCEPT ![i] = row]
    BY <1>1, <1>5 DEF DecideApproval
  <2>2. row \in Approval /\ row.status = s
    BY <1>1, <1>2 DEF Approval
  <2> HIDE DEF row
  <2>3. /\ approvals' \in [Ids -> Approval \cup {None}] /\ approvals'[i] = row
        /\ \A j \in Ids : j # i => approvals'[j] = approvals[j]
    BY <1>1, <2>1, <2>2
  <2> HIDE DEF i, s
  <2>4. \A j \in Ids : approvals[j] # None => approvals'[j] # None
    BY <2>2, <2>3, ApprovalAssumption
  <2>5. Asking' /\ Known' /\ Deciding'
    <3>1. \A c \in Calls : call[c].ref \in Ids \cup {None}
      BY CallForms
    <3> QED BY <1>4, <2>4, <3>1 DEF Placed, Asking, Known, Deciding
  <2>6. Spending' /\ Holding' /\ Apart'
    BY <1>1, <1>5, <2>3 DEF Inv, Spending, Holding, Apart, Held
  <2>7. RanOnce' /\ RunsAsRaised'
    BY <1>1, <1>5, <2>3 DEF Inv, RanOnce, RunsAsRaised
  <2>8. approvals[i] # None /\ approvals'[i] # None /\ approvals'[i].status \in {"approved", "denied"}
    BY <1>1, <1>2, <2>2, <2>3, ApprovalAssumption
  <2> QED BY <1>1, <1>3, <1>5, <2>3, <2>5, <2>6, <2>7, <2>8 DEF Placed, Inv
<1>6. CASE ~ (approvals[i].status = "pending" /\ approvals[i].exp > decision[d].at)
  <2>1. UNCHANGED approvals
    BY <1>6 DEF DecideApproval
  <2>2. Deciding'
    BY <1>4, <2>1 DEF Placed, Deciding
  <2> QED BY <1>3, <2>1, <2>2, OthersMove
<1> QED BY <1>5, <1>6

\* The use of an approval: only the call that finds it approved runs.
LEMMA UseMoves ==
  ASSUME IndInv, NEW c \in Calls, call[c].pc = "spend", Usable(call[c].ref, call[c].at),
         UseApproval(call[c].ref, call[c].at), Goto(c, "run"), UNCHANGED <<ran, decision>>
  PROVE  /\ call' \in [Calls -> CallState] /\ approvals' \in [Ids -> Approval \cup {None}]
         /\ Placed' /\ Inv'
         /\ call[c].ref \in Ids
         /\ approvals[call[c].ref] # None /\ approvals[call[c].ref].status = "approved"
         /\ approvals'[call[c].ref] # None /\ approvals'[call[c].ref].status = "used"
         /\ \A j \in Ids : j # call[c].ref => approvals'[j] = approvals[j]
<1> DEFINE i == call[c].ref
           row == [approvals[i] EXCEPT !.status = "used", !.usedAt = call[c].at]
           x == [call[c] EXCEPT !.pc = "run"]
<1> USE DEF IndInv, TypeOK
<1>1. i \in Ids /\ approvals[i] \in Approval /\ Held(call[c])
  BY DEF Inv, Spending, Held
<1>2. approvals[i].status = "approved"
  BY DEF Usable
<1>3. call[c] \in CallState /\ call[c].at \in Nat
  BY CallForms
<1>4. approvals' = [approvals EXCEPT ![i] = row]
  BY <1>1 DEF UseApproval
<1>5. /\ row \in Approval /\ row.status = "used"
      /\ row.req = approvals[i].req /\ row.key = approvals[i].key /\ row.by = approvals[i].by
  BY <1>1, <1>3 DEF Approval
<1>6. call' = [call EXCEPT ![c] = x]
  BY DEF Goto
<1>7. /\ x \in CallState /\ x.pc = "run"
      /\ x.ref = i /\ x.key = call[c].key /\ x.req = call[c].req
  BY <1>3 DEF CallState
<1> HIDE DEF row, x
<1>8. /\ approvals' \in [Ids -> Approval \cup {None}] /\ approvals'[i] = row
      /\ \A j \in Ids : j # i => approvals'[j] = approvals[j]
  BY <1>1, <1>4, <1>5
<1>9. /\ call' \in [Calls -> CallState] /\ call'[c] = x
      /\ \A e \in Calls : e # c => call'[e] = call[e]
  BY <1>6, <1>7
<1>10. ran[i].n = 0
  BY <1>1, <1>2 DEF Inv, RunsAsRaised, Run
<1>11. \A e \in Calls : call[e].pc \in Running => call[e].ref \in Ids /\ call[e].ref # i
  BY <1>2 DEF Inv, Holding, Held
<1>12. \A e \in Calls : e # c /\ call[e].pc = "spend" => Held(call[e])
  BY DEF Inv, Spending
<1> HIDE DEF i
<1>13. Asking' /\ Known' /\ Deciding'
  <2>1. \A e \in Calls : call[e].ref \in Ids \cup {None}
    BY CallForms
  <2>2. \A j \in Ids : approvals[j] # None => approvals'[j] # None
    BY <1>5, <1>8, ApprovalAssumption
  <2>3. x.req \in Requests /\ x.key \in Keys
    BY <1>7 DEF Placed, Asking
  <2> QED BY <1>1, <1>7, <1>9, <2>1, <2>2, <2>3, ApprovalAssumption DEF Placed, Asking, Known, Deciding, i
<1>14. \A e \in Calls : call[e].pc \in Running \cup {"spend"} => Held(call[e])'
  BY <1>1, <1>2, <1>5, <1>7, <1>8, <1>9, ApprovalAssumption DEF Inv, Spending, Holding, Held, i
<1>15. Spending'
  BY <1>7, <1>9, <1>14 DEF Spending
<1>16. Holding'
  BY <1>5, <1>7, <1>8, <1>9, <1>10, <1>11, <1>14 DEF Inv, Holding
<1>17. Apart'
  BY <1>7, <1>9, <1>11 DEF Inv, Apart
<1>18. RanOnce' /\ RunsAsRaised'
  BY <1>5, <1>8, <1>10, ApprovalAssumption DEF Inv, RanOnce, RunsAsRaised
<1> QED BY <1>1, <1>2, <1>5, <1>8, <1>9, <1>13, <1>15, <1>16, <1>17, <1>18, ApprovalAssumption DEF Placed, Inv, i

-----------------------------------------------------------------------------
(* The approvals table and OneShot.                                        *)

\* A step the promise allows.
Promised == [Promise!Next]_(Promise!oneShotVars)

\* One approval moves along its life, the others and the history stay.
LEMMA MoveAllowed ==
  ASSUME NEW i \in Ids, UNCHANGED ran,
         \A j \in Ids : j # i => approvals'[j] = approvals[j],
         \/ Status0(i) = "none" /\ Status0(i)' = "pending"
         \/ Status0(i) = "pending" /\ Status0(i)' = "approved"
         \/ Status0(i) = "pending" /\ Status0(i)' = "denied"
         \/ Status0(i) = "approved" /\ Status0(i)' = "used"
  PROVE  Promised
<1> DEFINE st == [j \in Ids |-> Status0(j)]
           n == [j \in Ids |-> ran[j].n]
<1>1. \A j \in Ids : j # i => Status0(j)' = Status0(j)
  BY DEF Status0
<1>2. st' = [st EXCEPT ![i] = Status0(i)'] /\ st[i] = Status0(i) /\ n' = n
  BY <1>1
<1>3. \/ Promise!Move(i, "none", "pending") \/ Promise!Move(i, "pending", "approved")
      \/ Promise!Move(i, "pending", "denied") \/ Promise!Move(i, "approved", "used")
  BY <1>2 DEF Promise!Move
<1> QED BY <1>3 DEF Promised, Promise!Next

\* The first operation under a spent approval, no other.
LEMMA RunAllowed ==
  ASSUME NEW i \in Ids, UNCHANGED approvals, Status0(i) = "used",
         ran[i].n = 0, ran'[i].n = 1, \A j \in Ids : j # i => ran'[j] = ran[j]
  PROVE  Promised
<1> DEFINE st == [j \in Ids |-> Status0(j)]
           n == [j \in Ids |-> ran[j].n]
<1>1. st' = st /\ st[i] = "used"
  BY DEF Status0
<1>2. n' = [n EXCEPT ![i] = 1] /\ n[i] = 0
  OBVIOUS
<1>3. Promise!Run(i)
  BY <1>1, <1>2 DEF Promise!Run
<1> QED BY <1>3 DEF Promised, Promise!Next

\* Nothing the promise speaks of changes.
LEMMA StutterAllowed ==
  ASSUME UNCHANGED <<approvals, ran>>
  PROVE  Promised
BY DEF Promised, Promise!oneShotVars, Status0

-----------------------------------------------------------------------------
(* Every step keeps the invariant and is one the promise allows.           *)

\* What every kind of step has to show.
Good == IndInv' /\ Promised

\* A call moves on, or leaves, and changes nothing else.
LEMMA QuietCall ==
  ASSUME IndInv, NEW c \in Calls, NEW x, Sound(c, x), call' = [call EXCEPT ![c] = x],
         UNCHANGED <<now, approvals, keyLevel, store, ran, decision, edits>>
  PROVE  Good
<1>1. call' \in [Calls -> CallState] /\ Placed' /\ Inv'
  BY CallMoves
<1>2. TypeOK'
  BY <1>1 DEF IndInv, TypeOK, store
<1> QED BY <1>1, <1>2, StutterAllowed DEF Good, IndInv

\* A call leaves with nothing else changed.
LEMMA QuietEnd ==
  ASSUME IndInv, NEW c \in Calls, End(c),
         UNCHANGED <<now, approvals, keyLevel, store, ran, decision, edits>>
  PROVE  Good
BY LeavingSound, QuietCall DEF End

\* A call the endpoint lets in has a key, a request and, if any, a raised approval.
LEMMA ReceiveStep ==
  ASSUME IndInv, NEW c \in Calls, NEW k \in Keys, NEW r \in Requests, NEW ref \in Ids \cup {None},
         Receive(c, k, r, ref)
  PROVE  Good
<1> DEFINE pc == IF r.tool = "cert_issue_from_csr" THEN "check"
                 ELSE IF ref = None THEN "summarize" ELSE "use"
           x == [NoCall EXCEPT !.key = k, !.level = keyLevel[k], !.req = r, !.ref = ref, !.pc = pc]
<1>1. keyLevel[k] \in Levels
  BY DEF IndInv, TypeOK, Receive
<1>2. /\ x \in CallState /\ x.pc \in {"check", "summarize", "use"}
      /\ x.req = r /\ x.key = k /\ x.ref = ref /\ (x.pc = "use" => ref # None)
  BY <1>1 DEF NoCall, CallState, Outcomes, Absent
<1>3. call' = [call EXCEPT ![c] = x]
  BY DEF Receive
<1> HIDE DEF x
<1>4. Sound(c, x)
  BY <1>2 DEF Sound, Running, Receive
<1> QED BY <1>3, <1>4, QuietCall DEF Receive

\* The summary changes the calling slot alone.
LEMMA SummarizeStep ==
  ASSUME IndInv, NEW c \in Calls, Summarize(c)
  PROVE  Good
<1>1. CASE Describable(call[c].req)
  <2> DEFINE o == Described(call[c].req)
             x == [call[c] EXCEPT !.pc = "request", !.saw = o]
  <2>1. o \in Outcomes
    BY DescribedType DEF IndInv, TypeOK, Placed, Asking, Summarize
  <2>2. call' = [call EXCEPT ![c] = x]
    BY <1>1 DEF Summarize, IndInv, TypeOK
  <2> HIDE DEF o
  <2>3. Sound(c, x)
    BY <2>1, MovingSound DEF Summarize
  <2> HIDE DEF x
  <2> QED BY <2>2, <2>3, QuietCall DEF Summarize
<1>2. CASE ~ Describable(call[c].req)
  BY <1>2, QuietEnd DEF Summarize
<1> QED BY <1>1, <1>2

\* issueFromCSR's check sends the call to the gate, past it, or away.
LEMMA IssueCheckStep ==
  ASSUME IndInv, NEW c \in Calls, IssueCheck(c)
  PROVE  Good
<1>1. CASE carried # Absent
  <2> DEFINE o == Described(call[c].req)
             pc == IF ~ Needs(call[c].req) THEN "issue"
                   ELSE IF call[c].ref = None THEN "request" ELSE "use"
             x == [call[c] EXCEPT !.pc = pc, !.saw = o]
  <2>1. o \in Outcomes /\ pc \in {"request", "use", "issue"} /\ (pc = "use" => call[c].ref # None)
    BY DescribedType DEF IndInv, TypeOK, Placed, Asking, IssueCheck
  <2>2. call' = [call EXCEPT ![c] = x]
    BY <1>1 DEF IssueCheck, IndInv, TypeOK
  <2> HIDE DEF o, pc
  <2>3. Sound(c, x)
    BY <2>1, MovingSound DEF IssueCheck
  <2> HIDE DEF x
  <2> QED BY <2>2, <2>3, QuietCall DEF IssueCheck
<1>2. CASE carried = Absent
  BY <1>2, QuietEnd DEF IssueCheck
<1> QED BY <1>1, <1>2

\* The checks Use makes are the ones the spending call relies on.
LEMMA UseStep ==
  ASSUME IndInv, NEW c \in Calls, Use(c)
  PROVE  Good
<1> DEFINE a == approvals[call[c].ref]
<1>1. CASE Matches(c, a)
  <2> DEFINE x == [call[c] EXCEPT !.pc = "spend", !.at = now]
  <2>1. call[c] \in CallState /\ now \in Nat
    BY StepUpAssumption DEF IndInv, TypeOK
  <2>2. /\ x \in CallState /\ x.pc = "spend" /\ x.req = call[c].req
        /\ x.key = call[c].key /\ x.ref = call[c].ref
    BY <2>1 DEF CallState
  <2>3. call' = [call EXCEPT ![c] = x]
    BY <1>1 DEF Use, IndInv, TypeOK
  <2> HIDE DEF x
  <2>4. call[c].ref \in Ids /\ a # None /\ call[c].req \in Requests /\ call[c].key \in Keys
    <3>1. call[c].req \in Requests /\ call[c].key \in Keys
      BY DEF Use, IndInv, Placed, Asking
    <3>2. call[c].ref # None
      BY DEF Use, IndInv, Placed, Known
    <3>3. call[c].ref \in Ids
      BY <2>1, <3>2, CallForms
    <3> QED BY <3>1, <3>2, <3>3 DEF IndInv, Placed, Known
  <2>5. Held(x)
    BY <1>1, <2>2, <2>4 DEF Matches, Status, Held
  <2>6. Sound(c, x)
    BY <2>2, <2>4, <2>5 DEF Sound, Running
  <2> QED BY <2>3, <2>6, QuietCall DEF Use
<1>2. CASE ~ Matches(c, a)
  BY <1>2, QuietEnd DEF Use
<1> QED BY <1>1, <1>2

\* The conditional update either spends an approved row or ends the call.
LEMMA SpendStep ==
  ASSUME IndInv, NEW c \in Calls, Spend(c)
  PROVE  Good
<1>1. CASE Usable(call[c].ref, call[c].at)
  <2> DEFINE i == call[c].ref
  <2>1. call[c].pc = "spend" /\ UseApproval(i, call[c].at) /\ Goto(c, "run") /\ UNCHANGED <<ran, decision>>
    BY <1>1 DEF Spend
  <2>2. /\ call' \in [Calls -> CallState] /\ approvals' \in [Ids -> Approval \cup {None}]
        /\ Placed' /\ Inv'
        /\ i \in Ids
        /\ approvals[i] # None /\ approvals[i].status = "approved"
        /\ approvals'[i] # None /\ approvals'[i].status = "used"
        /\ \A j \in Ids : j # i => approvals'[j] = approvals[j]
    BY <1>1, <2>1, UseMoves
  <2>3. TypeOK'
    BY <2>2 DEF IndInv, TypeOK, Spend, store
  <2> HIDE DEF i
  <2>4. ASSUME NEW j \in Ids, j = i
        PROVE  Status0(j) = "approved" /\ Status0(j)' = "used"
    BY <2>2, <2>4 DEF Status0
  <2>5. Promised
    BY <2>1, <2>2, <2>4, MoveAllowed
  <2> QED BY <2>2, <2>3, <2>5 DEF Good, IndInv
<1>2. CASE ~ Usable(call[c].ref, call[c].at)
  BY <1>2, QuietEnd DEF Spend
<1> QED BY <1>1, <1>2

\* The gate raises an approval: none becomes pending.
LEMMA RaiseStep ==
  ASSUME IndInv, NEW c \in Calls, NEW i \in Ids, RaiseApproval(c, i)
  PROVE  Good
<1>1. /\ call' \in [Calls -> CallState] /\ approvals' \in [Ids -> Approval \cup {None}]
      /\ Placed' /\ Inv'
      /\ approvals'[i] # None /\ approvals'[i].status = "pending"
  BY RaiseMoves
<1>2. TypeOK'
  BY <1>1 DEF IndInv, TypeOK, RaiseApproval, store
<1>3. Status0(i) = "none" /\ Status0(i)' = "pending"
  BY <1>1 DEF Status0, RaiseApproval, AddApproval
<1>4. \A j \in Ids : j # i => approvals'[j] = approvals[j]
  BY DEF RaiseApproval, AddApproval, IndInv, TypeOK
<1>5. Promised
  BY <1>3, <1>4, MoveAllowed DEF RaiseApproval
<1> QED BY <1>1, <1>2, <1>5 DEF Good, IndInv

\* Reading an approval to decide on it changes the decision slot alone.
LEMMA DecideReadStep ==
  ASSUME IndInv, NEW d \in Deciders, NEW i \in Ids, NEW b \in BOOLEAN, NEW l \in Levels,
         DecideRead(d, i, b, l)
  PROVE  Good
<1> DEFINE x == [pc |-> "commit", id |-> i, approve |-> b, level |-> l, at |-> now]
<1>1. now \in Nat
  BY StepUpAssumption DEF IndInv, TypeOK
<1>2. x \in DecisionState /\ x.id = i
  BY <1>1, DecisionForms
<1>3. decision' = [decision EXCEPT ![d] = x] /\ approvals[i] # None
      /\ UNCHANGED <<now, approvals, keyLevel, store, ran, call, edits>>
  BY DEF DecideRead
<1> HIDE DEF x
<1>4. TypeOK'
  BY <1>2, <1>3 DEF IndInv, TypeOK, store
<1>5. Deciding'
  BY <1>2, <1>3 DEF IndInv, TypeOK, Placed, Deciding
<1>6. Placed' /\ Inv'
  BY <1>3, <1>5, OthersMove
<1> QED BY <1>3, <1>4, <1>6, StutterAllowed DEF Good, IndInv

\* A decision that lost its race changes no row; one that did not decides a pending one.
LEMMA DecideCommitStep ==
  ASSUME IndInv, NEW d \in Deciders, DecideCommit(d)
  PROVE  Good
<1>1. /\ decision' \in [Deciders -> DecisionState] /\ approvals' \in [Ids -> Approval \cup {None}]
      /\ Placed' /\ Inv'
  BY DecisionMoves
<1>2. TypeOK'
  BY <1>1 DEF IndInv, TypeOK, DecideCommit, store
<1>3. UNCHANGED ran
  BY DEF DecideCommit
<1>4. CASE UNCHANGED approvals
  BY <1>1, <1>2, <1>3, <1>4, StutterAllowed DEF Good, IndInv
<1>5. CASE ~ UNCHANGED approvals
  <2>1. PICK i \in Ids :
          /\ approvals[i] # None /\ approvals[i].status = "pending"
          /\ approvals'[i] # None /\ approvals'[i].status \in {"approved", "denied"}
          /\ \A j \in Ids : j # i => approvals'[j] = approvals[j]
    BY <1>5, DecisionMoves
  <2>2. Status0(i) = "pending" /\ Status0(i)' \in {"approved", "denied"}
    BY <2>1 DEF Status0
  <2>3. Promised
    BY <1>3, <2>1, <2>2, MoveAllowed
  <2> QED BY <1>1, <1>2, <2>3 DEF Good, IndInv
<1> QED BY <1>4, <1>5

\* Every operation that runs under an approval: what it does to the profiles,
\* the adapter and the certificates has its type, the rest is RunMoves.
LEMMA RunStep ==
  ASSUME IndInv, NEW c \in Calls, NEW o \in Outcomes, call[c].pc \in Running, Ran(c, o), End(c),
         UNCHANGED <<now, approvals, keyLevel, decision, edits>>,
         catalog' \in Bodies \cup {Absent}, carried' \in Bodies \cup {Absent},
         adapter' \in {"on", "off"}, revoked' \in BOOLEAN,
         issued' \subseteq [kind : Bodies, under : Ids \cup {None}]
  PROVE  Good
<1> DEFINE i == call[c].ref
<1>1. /\ call' \in [Calls -> CallState] /\ ran' \in [Ids -> Run]
      /\ Placed' /\ Inv'
      /\ ran[i].n = 0 /\ approvals[i].status = "used" /\ ran'[i].n = 1
  BY RunMoves
<1>2. TypeOK'
  BY <1>1 DEF IndInv, TypeOK
<1>3. i \in Ids /\ approvals[i] # None /\ \A j \in Ids : j # i => ran'[j] = ran[j]
  BY DEF IndInv, TypeOK, Inv, Holding, Held, Ran
<1> HIDE DEF i
<1>4. Status0(i) = "used"
  BY <1>1, <1>3 DEF Status0
<1>5. Promised
  BY <1>1, <1>3, <1>4, RunAllowed
<1> QED BY <1>1, <1>2, <1>5 DEF Good, IndInv

\* The requests a running call carries, for the operations below.
LEMMA RunningRequest ==
  ASSUME IndInv, NEW c \in Calls, call[c].pc # "idle"
  PROVE  /\ call[c].req.tool \in {"profile_create", "profile_update", "cert_issue_from_csr"} =>
              call[c].req.arg \in Bodies
         /\ call[c].req.tool = "adapter_set_enabled" => call[c].req.arg \in {"on", "off"}
BY RequestForms DEF IndInv, Placed, Asking

\* The catalog writes.
LEMMA RunProfileStep ==
  ASSUME IndInv, NEW c \in Calls, RunProfile(c)
  PROVE  Good
<1>1. PICK o \in Bodies \cup {Absent} : Ran(c, o) /\ catalog' = o
  BY RunningRequest DEF RunProfile, CreateProfile, UpdateProfile, DeleteProfile
<1>2. o \in Outcomes /\ call[c].pc \in Running
  BY <1>1 DEF Outcomes, Running, RunProfile
<1> QED BY <1>1, <1>2, RunStep DEF RunProfile, IndInv, TypeOK

\* The adapter switch.
LEMMA AdapterStep ==
  ASSUME IndInv, NEW c \in Calls, SetAdapterEnabled(c)
  PROVE  Good
<1>1. call[c].req.arg \in {"on", "off"} /\ call[c].req.arg \in Outcomes /\ call[c].pc \in Running
  BY RunningRequest DEF SetAdapterEnabled, Outcomes, Running
<1> QED BY <1>1, RunStep DEF SetAdapterEnabled, IndInv, TypeOK

\* The revocation of a certificate.
LEMMA RevokeStep ==
  ASSUME IndInv, NEW c \in Calls, RevokeCertificate(c)
  PROVE  Good
<1>1. "revoked" \in Outcomes /\ call[c].pc \in Running
  BY DEF RevokeCertificate, Outcomes, Running
<1> QED BY <1>1, RunStep DEF RevokeCertificate, IndInv, TypeOK

\* ApplyProfileToNode holds a catalog body between its read and its push.
LEMMA ApplyReadStep ==
  ASSUME IndInv, NEW c \in Calls, ApplyRead(c)
  PROVE  Good
<1> DEFINE x == [call[c] EXCEPT !.pc = "push", !.saw = catalog]
<1>1. call[c] \in CallState /\ catalog \in Bodies /\ catalog \in Outcomes
  BY DEF IndInv, TypeOK, ApplyRead, Outcomes
<1>2. /\ x \in CallState /\ x.pc = "push" /\ x.saw = catalog
      /\ x.req = call[c].req /\ x.key = call[c].key /\ x.ref = call[c].ref
  BY <1>1 DEF CallState
<1>3. call' = [call EXCEPT ![c] = x]
  BY DEF ApplyRead, IndInv, TypeOK
<1> HIDE DEF x
<1>4. /\ x.req \in Requests /\ x.key \in Keys /\ call[c].pc \in Running
      /\ x.ref # None => approvals[x.ref] # None
  BY <1>2 DEF ApplyRead, IndInv, Placed, Asking, Known, Running
<1>5. Sound(c, x)
  BY <1>1, <1>2, <1>4 DEF Sound
<1> QED BY <1>3, <1>5, QuietCall DEF ApplyRead

\* The push of that body to the node.
LEMMA ApplyPushStep ==
  ASSUME IndInv, NEW c \in Calls, ApplyPush(c)
  PROVE  Good
<1>1. call[c].saw \in Bodies /\ call[c].saw \in Outcomes /\ call[c].pc \in Running
  BY DEF ApplyPush, IndInv, Placed, Known, Outcomes, Running
<1> QED BY <1>1, RunStep DEF ApplyPush, IndInv, TypeOK

\* Without an approval the node still issues, and nothing else changes.
LEMMA IssueLeafStep ==
  ASSUME IndInv, NEW c \in Calls, IssueLeaf(c)
  PROVE  Good
<1>1. carried \in Bodies /\ carried \in Outcomes
  BY DEF IssueLeaf, IndInv, TypeOK, Outcomes
<1>2. CASE call[c].pc = "run"
  <2>1. call[c].ref \in Ids /\ call[c].pc \in Running
    BY <1>2 DEF IndInv, Inv, Holding, Held, Running
  <2>2. call[c].ref # None
    BY <2>1, StepUpAssumption
  <2>3. Ran(c, carried) /\ issued' = issued \cup {[kind |-> carried, under |-> call[c].ref]}
    BY <1>2, <2>2 DEF IssueLeaf
  <2>4. issued' \subseteq [kind : Bodies, under : Ids \cup {None}]
    BY <1>1, <2>1, <2>3 DEF IndInv, TypeOK
  <2> QED BY <1>1, <2>1, <2>3, <2>4, RunStep DEF IssueLeaf, IndInv, TypeOK
<1>3. CASE call[c].pc = "issue"
  <2>1. issued' = issued \cup {[kind |-> carried, under |-> None]} /\ UNCHANGED ran
    BY <1>3 DEF IssueLeaf
  <2>2. issued' \subseteq [kind : Bodies, under : Ids \cup {None}]
    BY <1>1, <2>1 DEF IndInv, TypeOK
  <2>3. Sound(c, NoCall)
    BY LeavingSound
  <2>4. call' \in [Calls -> CallState] /\ Placed' /\ Inv'
    BY <2>1, <2>3, CallMoves DEF IssueLeaf, End
  <2>5. TypeOK'
    BY <2>1, <2>2, <2>4 DEF IssueLeaf, IndInv, TypeOK
  <2> QED BY <2>1, <2>4, <2>5, StutterAllowed DEF Good, IndInv, IssueLeaf
<1> QED BY <1>2, <1>3 DEF IssueLeaf

\* The clock, the web UI and the keys.
LEMMA OutsideStep ==
  ASSUME IndInv,
         \/ Tick
         \/ \E b \in Bodies : WebEdit(b)
         \/ \E k \in Keys, l \in Levels \cup {Refused} : KeyEdit(k, l)
  PROVE  Good
<1>1. UNCHANGED <<approvals, ran, call, decision>>
  BY DEF Tick, WebEdit, KeyEdit
<1>2. Deciding'
  BY <1>1 DEF IndInv, Placed, Deciding
<1>3. Placed' /\ Inv'
  BY <1>1, <1>2, OthersMove
<1>4. TypeOK'
  <2>1. CASE Tick
    BY <2>1, StepUpAssumption DEF Tick, IndInv, TypeOK, store
  <2>2. CASE \E b \in Bodies : WebEdit(b)
    BY <2>2, StepUpAssumption DEF WebEdit, CreateProfile, UpdateProfile, DeleteProfile, IndInv, TypeOK
  <2>3. CASE \E k \in Keys, l \in Levels \cup {Refused} : KeyEdit(k, l)
    BY <2>3, StepUpAssumption DEF KeyEdit, IndInv, TypeOK, store
  <2> QED BY <2>1, <2>2, <2>3
<1> QED BY <1>1, <1>3, <1>4, StutterAllowed DEF Good, IndInv

\* All steps together.
LEMMA NextStep ==
  ASSUME IndInv, [Next]_vars
  PROVE  Good
<1>1. CASE UNCHANGED vars
  <2>1. UNCHANGED <<approvals, ran, call, decision>> /\ TypeOK'
    BY <1>1 DEF IndInv, TypeOK, vars, store
  <2>2. Deciding'
    BY <2>1 DEF IndInv, Placed, Deciding
  <2> QED BY <2>1, <2>2, OthersMove, StutterAllowed DEF Good, IndInv
<1>2. CASE \/ Tick
           \/ \E b \in Bodies : WebEdit(b)
           \/ \E k \in Keys, l \in Levels \cup {Refused} : KeyEdit(k, l)
  BY <1>2, OutsideStep
<1>3. ASSUME NEW d \in Deciders,
             \/ \E i \in Ids, b \in BOOLEAN, l \in Levels : DecideRead(d, i, b, l)
             \/ DecideCommit(d)
      PROVE  Good
  BY <1>3, DecideReadStep, DecideCommitStep
<1>4. ASSUME NEW c \in Calls, NEW k \in Keys, NEW r \in Requests, NEW ref \in Ids \cup {None},
             Receive(c, k, r, ref)
      PROVE  Good
  BY <1>4, ReceiveStep
<1>5. ASSUME NEW c \in Calls,
             \/ \E i \in Ids : RaiseApproval(c, i)
             \/ Summarize(c) \/ IssueCheck(c) \/ Use(c) \/ Spend(c)
      PROVE  Good
  BY <1>5, RaiseStep, SummarizeStep, IssueCheckStep, UseStep, SpendStep
<1>6. ASSUME NEW c \in Calls,
             \/ RunProfile(c) \/ SetAdapterEnabled(c) \/ RevokeCertificate(c)
             \/ ApplyRead(c) \/ ApplyPush(c) \/ IssueLeaf(c) \/ Fail(c)
      PROVE  Good
  <2>1. CASE Fail(c)
    BY <2>1, QuietEnd DEF Fail
  <2> QED BY <1>6, <2>1, RunProfileStep, AdapterStep, RevokeStep, ApplyReadStep, ApplyPushStep, IssueLeafStep
<1> QED BY <1>1, <1>2, <1>3, <1>4, <1>5, <1>6 DEF Next

\* The initial state.
LEMMA Initially ==
  ASSUME Init
  PROVE  IndInv /\ Promise!Init
<1>1. TypeOK
  <2>1. NoRun \in Run
    BY DEF NoRun, Run, Outcomes
  <2>2. Admin \in Levels
    BY DEF Levels, Viewer, Admin
  <2>3. NoCall \in CallState /\ NoDecision \in DecisionState
    BY CallForms, DecisionForms
  <2>4. revoked \in BOOLEAN
    BY DEF Init
  <2>5. /\ approvals \in [Ids -> Approval \cup {None}] /\ keyLevel \in [Keys -> Levels \cup {Refused}]
        /\ ran \in [Ids -> Run] /\ call \in [Calls -> CallState] /\ decision \in [Deciders -> DecisionState]
    BY <2>1, <2>2, <2>3 DEF Init
  <2>6. now \in 0..MaxTime /\ edits \in 0..MaxEdits
    BY StepUpAssumption DEF Init
  <2> QED BY <2>4, <2>5, <2>6 DEF Init, TypeOK, Bodies
<1>2. Placed
  BY CallForms, DecisionForms DEF Init, Placed, Asking, Known, Deciding
<1>3. Inv
  BY CallForms DEF Init, Inv, Spending, Holding, Apart, RanOnce, RunsAsRaised, NoRun, Running
<1>4. Promise!Init
  BY DEF Init, Promise!Init, Status0, NoRun
<1> QED BY <1>1, <1>2, <1>3, <1>4 DEF IndInv

-----------------------------------------------------------------------------
(* Theorems.                                                               *)

\* The invariant the results rest on.
LEMMA Invariant == Spec => []IndInv
<1>1. Init => IndInv
  BY Initially
<1>2. IndInv /\ [Next]_vars => IndInv'
  BY NextStep DEF Good
<1> QED BY <1>1, <1>2, PTL DEF Spec

\* Every row of the approvals table, call and decision has its type, whatever
\* the calls, the operators and the replicas do at the same time.
THEOREM TypeCorrect == Spec => []TypeOK
<1>1. IndInv => TypeOK
  BY DEF IndInv
<1> QED BY <1>1, Invariant, PTL

\* For any number of calls, keys, deciders and approvals: what runs under an
\* approval is the request it was raised for, with the key that raised it and
\* an approver whose level covers it (Service.Use and UseApproval).
THEOREM RunsOnlyAsRaised == Spec => []RunsAsRaised
<1>1. IndInv => RunsAsRaised
  BY DEF IndInv, Inv
<1> QED BY <1>1, Invariant, PTL

\* The approvals table with its conditional updates implements OneShot: a
\* decision is final, a use is final, and one operation runs per approval.
THEOREM Implements == Spec => ImplementsOneShot
<1>1. Init => Promise!Init
  BY Initially
<1>2. IndInv /\ [Next]_vars => [Promise!Next]_(Promise!oneShotVars)
  BY NextStep DEF Good, Promised
<1> QED BY <1>1, <1>2, Invariant, PTL DEF Spec, ImplementsOneShot, Promise!Spec

(***************************************************************************)
(* McpLogin.                                                               *)
(***************************************************************************)
\* What a handler, a code or a key carries is what the operator consented to.
Granted(q, owner, client) ==
  /\ consent[q].state = "given"
  /\ owner = consent[q].owner /\ client = consent[q].client

\* A well-formed handler: what its next step needs is there.
Whole(x) ==
  /\ x \in Handler
  /\ x.pc = "code" => x.login \in Logins /\ x.uri = consent[x.login].uri
  /\ x.pc \in {"code", "mint", "add"} => x.owner \in Owner
  /\ x.pc \in {"touch", "revoke"} => x.key \in McpKeys /\ mcpKeys[x.key] # None
  /\ x.login # None => x.pc \in {"code", "mint", "add"} /\ x.client \in Clients
                       /\ Granted(x.login, x.owner, x.client)

Handling == \A h \in LoginHandlers : Whole(handler[h])
Pending == \A q \in Logins : oauthRequests[q] # None =>
  consent[q].state = "asked" /\ oauthRequests[q].uri \in Loopback
Coded == \A q \in Logins : oauthCodes[q] # None =>
  Granted(q, oauthCodes[q].owner, oauthCodes[q].client)
Keyed == \A k \in McpKeys : mcpKeys[k] # None /\ mcpKeys[k].login # None =>
  Granted(mcpKeys[k].login, mcpKeys[k].owner, mcpKeys[k].holder)
ToLoopback == \A q \in Logins : consent[q].state = "given" => consent[q].uri \in Loopback

\* One thing stands for a login at any time: the request handling it, its code
\* or its key.
OneHandler == \A g, h \in LoginHandlers : g # h /\ handler[h].login # None =>
  handler[g].login # handler[h].login
HandlerAlone == \A h \in LoginHandlers : handler[h].login # None =>
  /\ oauthCodes[handler[h].login] = None
  /\ \A k \in McpKeys : mcpKeys[k] # None => mcpKeys[k].login # handler[h].login
CodeAlone == \A q \in Logins : oauthCodes[q] # None =>
  \A k \in McpKeys : mcpKeys[k] # None => mcpKeys[k].login # q
OneKey == \A j, k \in McpKeys : j # k /\ mcpKeys[j] # None /\ mcpKeys[k] # None =>
  mcpKeys[j].login = None \/ mcpKeys[j].login # mcpKeys[k].login

\* An unused key has no first use on record, a used one has one.
UsedOnce == \A k \in McpKeys :
  firstUses[k] = (IF mcpKeys[k] # None /\ mcpKeys[k].used THEN 1 ELSE 0)

Carried == Handling /\ Pending /\ Coded /\ Keyed /\ ToLoopback
Single == OneHandler /\ HandlerAlone /\ CodeAlone /\ OneKey
LoginInv == LoginTypeOK /\ Carried /\ Single /\ UsedOnce

-----------------------------------------------------------------------------
(* Rows and slots.                                                         *)

\* The fields of a row have their types, and None is not a row.
LEMMA RowForms ==
  /\ \A r \in OAuthRequest : r # None /\ r.client \in Clients /\ r.uri \in URIs /\ r.exp \in Nat
  /\ \A r \in OAuthCode : r # None /\ r.client \in Clients /\ r.uri \in URIs /\ r.owner \in Owner /\ r.exp \in Nat
  /\ \A r \in McpKey : r # None /\ r.owner \in Owner /\ r.login \in Logins \cup {None}
                       /\ r.holder \in Clients \cup {None} /\ r.used \in BOOLEAN
BY RowAssumption DEF OAuthRequest, OAuthCode, McpKey

\* The fields of a handler have their types.
LEMMA HandlerForms ==
  /\ NoHandler \in Handler
  /\ \A x \in Handler : /\ x.login \in Logins \cup {None} /\ x.client \in Clients \cup {None}
                        /\ x.uri \in URIs \cup {None} /\ x.owner \in Owner \cup {None}
                        /\ x.key \in McpKeys \cup {None}
BY DEF Handler, NoHandler

\* A free slot is well formed and stands for no login.
LEMMA FreeSlot == Whole(NoHandler) /\ NoHandler.login = None
BY HandlerForms DEF Whole, NoHandler

\* A slot that changes by itself, to a handler of the same login or of none,
\* keeps the invariant.
LEMMA HandlerMoves ==
  ASSUME LoginInv, NEW h \in LoginHandlers, NEW x, Whole(x),
         x.login \in {None, handler[h].login},
         handler' = [handler EXCEPT ![h] = x],
         UNCHANGED <<oauthRequests, oauthCodes, mcpKeys, consent, firstUses>>
  PROVE  handler' \in [LoginHandlers -> Handler] /\ Carried' /\ Single' /\ UsedOnce'
<1>1. /\ handler' \in [LoginHandlers -> Handler]
      /\ handler'[h] = x /\ \A g \in LoginHandlers : g # h => handler'[g] = handler[g]
  BY DEF LoginInv, LoginTypeOK, Whole
<1>2. Handling'
  BY <1>1 DEF LoginInv, Carried, Handling, Whole, Granted
<1>3. Pending' /\ Coded' /\ Keyed' /\ ToLoopback' /\ CodeAlone' /\ OneKey' /\ UsedOnce'
  BY DEF LoginInv, Carried, Single, Pending, Coded, Keyed, ToLoopback, Granted, CodeAlone, OneKey, UsedOnce
<1>4. OneHandler' /\ HandlerAlone'
  BY <1>1 DEF LoginInv, Single, OneHandler, HandlerAlone
<1> QED BY <1>1, <1>2, <1>3, <1>4 DEF Carried, Single

-----------------------------------------------------------------------------
(* The login.                                                              *)

\* Dropping the expired state keeps the rest as it is.
LEMMA UnexpiredRows ==
  ASSUME NEW rows, NEW S, rows \in [Logins -> S \cup {None}]
  PROVE  /\ Unexpired(rows) \in [Logins -> S \cup {None}]
         /\ \A q \in Logins : Unexpired(rows)[q] \in {None, rows[q]}
BY DEF Unexpired

\* A new request asks for a login nothing stands for yet.
LEMMA AuthorizeStep ==
  ASSUME LoginInv, NEW q \in Logins, NEW client \in Clients, NEW uris \in SUBSET URIs, NEW uri \in URIs,
         Authorize(q, client, uris, uri)
  PROVE  LoginInv'
<1> DEFINE row == [client |-> client, uri |-> uri, exp |-> loginClock + RequestTTL]
<1> USE DEF LoginInv, LoginTypeOK
<1>1. row \in OAuthRequest /\ row.uri = uri /\ uri \in Loopback
  BY McpLoginAssumption DEF OAuthRequest, Authorize, ClientID
<1>2. oauthRequests' = [Unexpired(oauthRequests) EXCEPT ![q] = row] /\ oauthCodes' = Unexpired(oauthCodes)
  BY DEF Authorize, AddOAuthRequest
<1> HIDE DEF row
<1>3. /\ Unexpired(oauthRequests) \in [Logins -> OAuthRequest \cup {None}]
      /\ \A r \in Logins : Unexpired(oauthRequests)[r] \in {None, oauthRequests[r]}
      /\ oauthCodes' \in [Logins -> OAuthCode \cup {None}]
      /\ \A r \in Logins : oauthCodes'[r] \in {None, oauthCodes[r]}
  BY <1>2, UnexpiredRows
<1>4. /\ oauthRequests' \in [Logins -> OAuthRequest \cup {None}]
      /\ oauthRequests'[q] = row
      /\ \A r \in Logins : r # q => oauthRequests'[r] \in {None, oauthRequests[r]}
  BY <1>1, <1>2, <1>3
<1>5. /\ consent' \in [Logins -> Consent]
      /\ consent[q].state = "none" /\ consent'[q].state = "asked"
      /\ \A r \in Logins : r # q => consent'[r] = consent[r]
  BY DEF Authorize, Consent
<1>6. \A r \in Logins : consent[r].state = "given" => r # q /\ consent'[r] = consent[r]
  BY <1>5
<1>7. \A o, c : \A r \in Logins : Granted(r, o, c) => Granted(r, o, c)' /\ consent'[r] = consent[r]
  BY <1>6 DEF Granted
<1>8. Handling'
  <2> SUFFICES ASSUME NEW h \in LoginHandlers PROVE Whole(handler[h])'
    BY DEF Handling
  <2>1. Whole(handler[h]) /\ handler'[h] = handler[h] /\ mcpKeys' = mcpKeys
    BY DEF Carried, Handling, Authorize
  <2>2. handler[h].login # None => handler[h].login \in Logins
    BY <2>1, HandlerForms
  <2> QED BY <2>1, <2>2, <1>7, McpLoginAssumption DEF Whole
<1>9. Pending' /\ ToLoopback'
  BY <1>1, <1>4, <1>5 DEF Carried, Pending, ToLoopback
<1>10. Coded' /\ Keyed'
  <2>1. Coded'
    BY <1>3, <1>7 DEF Carried, Coded, Granted
  <2>2. \A k \in McpKeys : mcpKeys[k] # None /\ mcpKeys[k].login # None => mcpKeys[k].login \in Logins
    BY RowForms
  <2>3. mcpKeys' = mcpKeys
    BY DEF Authorize
  <2>4. Keyed'
    BY <2>2, <2>3, <1>7 DEF Carried, Keyed
  <2> QED BY <2>1, <2>4
<1>11. Single' /\ UsedOnce'
  <2>1. UNCHANGED <<handler, mcpKeys, firstUses>>
    BY DEF Authorize
  <2>2. \A h \in LoginHandlers : handler[h].login # None => handler[h].login \in Logins
    BY HandlerForms
  <2> QED BY <1>3, <2>1, <2>2 DEF Single, OneHandler, HandlerAlone, CodeAlone, OneKey, UsedOnce
<1>12. \A r \in Logins : oauthRequests'[r] = None \/ oauthCodes'[r] = None
  BY <1>3, <1>4, <1>5 DEF Carried, Coded, Granted
<1>13. LoginTypeOK'
  BY <1>3, <1>4, <1>5, <1>12 DEF Authorize
<1> QED BY <1>8, <1>9, <1>10, <1>11, <1>13 DEF Carried

\* The operator's decision takes the request; a consent starts the one handler
\* of the login.
LEMMA ConsentDecideStep ==
  ASSUME LoginInv, NEW h \in LoginHandlers, NEW q \in Logins, NEW owner \in Owner, NEW approve \in BOOLEAN,
         ConsentDecide(h, q, owner, approve)
  PROVE  LoginInv'
<1> DEFINE r == oauthRequests[q]
           x == [NoHandler EXCEPT !.pc = "code", !.login = q, !.owner = owner,
                                  !.client = r.client, !.uri = r.uri]
           given == [state |-> "given", client |-> r.client, uri |-> r.uri, owner |-> owner]
<1> USE DEF LoginInv, LoginTypeOK
<1>1. /\ oauthRequests' \in [Logins -> OAuthRequest \cup {None}] /\ oauthRequests'[q] = None
      /\ \A p \in Logins : p # q => oauthRequests'[p] = oauthRequests[p]
      /\ UNCHANGED <<loginClock, oauthCodes, mcpKeys, admitted, firstUses, loginFaults>>
  BY DEF ConsentDecide
<1>2. r \in OAuthRequest /\ r.uri \in Loopback /\ consent[q].state = "asked"
  BY DEF ConsentDecide, Carried, Pending
<1>3. /\ oauthCodes[q] = None
      /\ \A g \in LoginHandlers : handler[g].login # q
      /\ \A k \in McpKeys : mcpKeys[k] # None => mcpKeys[k].login # q
  BY <1>2, McpLoginAssumption DEF Carried, Handling, Whole, Coded, Keyed, Granted
<1>4. \/ UNCHANGED <<handler, consent>>
      \/ consent' = [consent EXCEPT ![q].state = "denied"] /\ UNCHANGED handler
      \/ /\ consent' = [consent EXCEPT ![q] = given]
         /\ handler[h].pc = "idle" /\ handler' = [handler EXCEPT ![h] = x]
  BY DEF ConsentDecide, Start
<1>5. given \in Consent /\ given.state = "given" /\ given.client = r.client /\ given.uri = r.uri /\ given.owner = owner
  BY <1>2, RowForms DEF Consent
<1>6. x \in Handler /\ x.pc = "code" /\ x.login = q /\ x.owner = owner /\ x.client = r.client /\ x.uri = r.uri
  BY <1>2, RowForms DEF Handler, NoHandler
<1> HIDE DEF given, x
<1>7. consent' \in [Logins -> Consent] /\ \A p \in Logins : p # q => consent'[p] = consent[p]
  BY <1>4, <1>5 DEF Consent
<1>8. consent'[q].state = "given" => /\ consent' = [consent EXCEPT ![q] = given]
                                     /\ handler[h].pc = "idle" /\ handler' = [handler EXCEPT ![h] = x]
  BY <1>2, <1>4 DEF Consent
<1>9. handler' = [handler EXCEPT ![h] = x] \/ handler' = handler
  BY <1>4
<1>10. handler' = [handler EXCEPT ![h] = x] => consent'[q] = given \/ handler' = handler
  BY <1>4
<1>11. \A g \in LoginHandlers : handler'[g] = handler[g] \/ (g = h /\ handler'[g] = x /\ consent'[q] = given)
  BY <1>9, <1>10
<1>12. handler' \in [LoginHandlers -> Handler]
  BY <1>6, <1>9
<1>13. Handling'
  <2> SUFFICES ASSUME NEW g \in LoginHandlers PROVE Whole(handler[g])'
    BY DEF Handling
  <2>1. CASE handler'[g] = handler[g]
    <3>1. Whole(handler[g]) /\ handler[g].login # q /\ handler[g].login \in Logins \cup {None}
      BY <1>3, HandlerForms DEF Carried, Handling
    <3> QED BY <2>1, <3>1, <1>1, <1>7, McpLoginAssumption DEF Whole, Granted
  <2>2. CASE g = h /\ handler'[g] = x /\ consent'[q] = given
    BY <2>2, <1>2, <1>5, <1>6, RowForms DEF Whole, Granted
  <2> QED BY <1>11, <2>1, <2>2
<1>14. Pending' /\ Coded' /\ Keyed'
  <2>1. Pending' /\ Coded'
    BY <1>1, <1>3, <1>7 DEF Carried, Pending, Coded, Granted
  <2>2. Keyed'
    BY <1>1, <1>3, <1>7, RowForms DEF Carried, Keyed, Granted
  <2> QED BY <2>1, <2>2
<1>15. ToLoopback'
  BY <1>2, <1>5, <1>7, <1>8 DEF Carried, ToLoopback
<1>16. OneHandler' /\ HandlerAlone'
  BY <1>1, <1>3, <1>6, <1>11 DEF Single, OneHandler, HandlerAlone
<1>17. CodeAlone' /\ OneKey' /\ UsedOnce'
  BY <1>1 DEF Single, CodeAlone, OneKey, UsedOnce
<1>18. LoginTypeOK'
  BY <1>1, <1>7, <1>12
<1> QED BY <1>13, <1>14, <1>15, <1>16, <1>17, <1>18 DEF Carried, Single

\* The handler of a login turns into its code.
LEMMA AddOAuthCodeStep ==
  ASSUME LoginInv, NEW h \in LoginHandlers, AddOAuthCode(h)
  PROVE  LoginInv'
<1> DEFINE x == handler[h]
           q == handler[h].login
           row == [client |-> x.client, uri |-> x.uri, owner |-> x.owner, exp |-> loginClock + CodeTTL]
<1> USE DEF LoginInv, LoginTypeOK
<1>1. Whole(x) /\ x.pc = "code" /\ q \in Logins
  BY DEF Carried, Handling, AddOAuthCode, Whole
<1>2. x.client \in Clients /\ x.owner \in Owner /\ Granted(q, x.owner, x.client) /\ x.uri \in URIs
  BY <1>1, McpLoginAssumption DEF Whole, Carried, ToLoopback, Granted
<1>3. row \in OAuthCode /\ row.owner = x.owner /\ row.client = x.client
  BY <1>2, McpLoginAssumption DEF OAuthCode
<1>4. /\ oauthCodes' = [oauthCodes EXCEPT ![q] = row]
      /\ handler' = [handler EXCEPT ![h] = NoHandler]
      /\ UNCHANGED <<loginClock, oauthRequests, mcpKeys, admitted, consent, firstUses, loginFaults>>
  BY DEF AddOAuthCode, Done
<1> HIDE DEF row
<1>5. /\ oauthCodes' \in [Logins -> OAuthCode \cup {None}] /\ oauthCodes'[q] = row
      /\ \A p \in Logins : p # q => oauthCodes'[p] = oauthCodes[p]
  BY <1>1, <1>3, <1>4
<1>6. /\ handler' \in [LoginHandlers -> Handler]
      /\ handler'[h] = NoHandler /\ \A g \in LoginHandlers : g # h => handler'[g] = handler[g]
  BY <1>4, HandlerForms
<1>7. Handling'
  BY <1>4, <1>6, FreeSlot DEF Carried, Handling, Whole, Granted, NoHandler
<1>8. Pending' /\ Keyed' /\ ToLoopback' /\ OneKey' /\ UsedOnce'
  BY <1>4 DEF Carried, Single, Pending, Keyed, ToLoopback, Granted, OneKey, UsedOnce
<1>9. Coded'
  BY <1>2, <1>3, <1>4, <1>5 DEF Carried, Coded, Granted
<1>10. OneHandler'
  BY <1>6, FreeSlot DEF Single, OneHandler
<1>11. \A g \in LoginHandlers : g # h => handler[g].login # q
  BY <1>1, McpLoginAssumption DEF Single, OneHandler
<1>12. HandlerAlone'
  BY <1>4, <1>5, <1>6, <1>11, FreeSlot, HandlerForms DEF Single, HandlerAlone
<1>13. CodeAlone'
  BY <1>1, <1>4, <1>5, McpLoginAssumption DEF Single, CodeAlone, HandlerAlone
<1>14. oauthRequests[q] = None
  BY <1>1, <1>2 DEF Carried, Pending, Granted
<1>15. LoginTypeOK'
  BY <1>4, <1>5, <1>6, <1>14
<1> QED BY <1>7, <1>8, <1>9, <1>10, <1>12, <1>13, <1>15 DEF Carried, Single

\* A redemption takes the code; if the checks pass, its handler stands for the
\* login instead.
LEMMA TokenStep ==
  ASSUME LoginInv, NEW h \in LoginHandlers, NEW q \in Logins, NEW client \in Clients,
         Token(h, q, client)
  PROVE  LoginInv'
<1> DEFINE row == oauthCodes[q]
           x == [NoHandler EXCEPT !.pc = "mint", !.login = q, !.owner = row.owner, !.client = client]
<1> USE DEF LoginInv, LoginTypeOK
<1>1. row \in OAuthCode /\ Granted(q, row.owner, row.client)
  BY DEF Token, Carried, Coded
<1>2. /\ oauthCodes' \in [Logins -> OAuthCode \cup {None}] /\ oauthCodes'[q] = None
      /\ \A p \in Logins : p # q => oauthCodes'[p] = oauthCodes[p]
      /\ UNCHANGED <<loginClock, oauthRequests, mcpKeys, admitted, consent, firstUses, loginFaults>>
  BY DEF Token, TakeOAuthCode
<1>3. \/ UNCHANGED handler
      \/ client = row.client /\ handler' = [handler EXCEPT ![h] = x]
  BY DEF Token, Start, Redeems
<1>4. /\ x \in Handler /\ x.pc = "mint" /\ x.login = q /\ x.owner = row.owner /\ x.client = client
      /\ row.owner \in Owner
  BY <1>1, RowForms DEF Handler, NoHandler
<1> HIDE DEF x
<1>5. \A g \in LoginHandlers : handler[g].login # q
  BY <1>1, RowForms, McpLoginAssumption DEF Single, HandlerAlone
<1>6. /\ handler' \in [LoginHandlers -> Handler]
      /\ \A g \in LoginHandlers : handler'[g] = handler[g] \/ (g = h /\ handler'[g] = x /\ client = row.client)
  BY <1>3, <1>4
<1>7. Handling'
  <2> SUFFICES ASSUME NEW g \in LoginHandlers PROVE Whole(handler[g])'
    BY DEF Handling
  <2>1. CASE handler'[g] = handler[g]
    BY <2>1, <1>2 DEF Carried, Handling, Whole, Granted
  <2>2. CASE handler'[g] = x /\ client = row.client
    BY <2>2, <1>1, <1>2, <1>4 DEF Whole, Granted
  <2> QED BY <1>6, <2>1, <2>2
<1>8. Pending' /\ Keyed' /\ ToLoopback' /\ OneKey' /\ UsedOnce'
  BY <1>2 DEF Carried, Single, Pending, Keyed, ToLoopback, Granted, OneKey, UsedOnce
<1>9. Coded' /\ CodeAlone'
  BY <1>2 DEF Carried, Single, Coded, CodeAlone, Granted
<1>10. OneHandler'
  BY <1>4, <1>5, <1>6 DEF Single, OneHandler
<1>11. \A k \in McpKeys : mcpKeys[k] # None => mcpKeys[k].login # q
  BY <1>1, RowForms DEF Single, CodeAlone
<1>12. HandlerAlone'
  BY <1>2, <1>4, <1>5, <1>6, <1>11, HandlerForms DEF Single, HandlerAlone
<1>13. LoginTypeOK'
  BY <1>2, <1>6
<1> QED BY <1>7, <1>8, <1>9, <1>10, <1>12, <1>13 DEF Carried, Single

-----------------------------------------------------------------------------
(* Keys.                                                                   *)

\* The steps of a handler that write no table.
LEMMA KeyRequestSteps ==
  ASSUME LoginInv, NEW h \in LoginHandlers,
         \/ \E owner \in Owner : CreateMcpKey(h, owner)
         \/ Mint(h)
         \/ \E k \in McpKeys, cert \in LoginCerts : RevokeKey(h, k, cert)
         \/ \E k \in McpKeys : Resolve(h, k)
         \/ HandlerCrash(h)
  PROVE  LoginInv'
<1> USE DEF loginTables
<1>1. /\ UNCHANGED <<loginClock, oauthRequests, oauthCodes, mcpKeys, admitted, consent, firstUses>>
      /\ loginFaults' \in 0..MaxLoginFaults
  <2>1. /\ UNCHANGED <<loginClock, oauthRequests, oauthCodes, mcpKeys, admitted, consent, firstUses>>
        /\ loginFaults' = loginFaults \/ (loginFaults < MaxLoginFaults /\ loginFaults' = loginFaults + 1)
    BY DEF CreateMcpKey, Mint, RevokeKey, Resolve, HandlerCrash
  <2>2. loginFaults \in 0..MaxLoginFaults
    BY DEF LoginInv, LoginTypeOK
  <2> QED BY <2>1, <2>2, McpLoginAssumption
<1> DEFINE To(x) == Whole(x) /\ x.login \in {None, handler[h].login} /\ handler' = [handler EXCEPT ![h] = x]
<1>2. \E x : To(x)
  <2>1. ASSUME NEW owner \in Owner, CreateMcpKey(h, owner) PROVE \E x : To(x)
    <3> DEFINE x == [NoHandler EXCEPT !.pc = "mint", !.owner = owner]
    <3>1. x \in Handler /\ x.pc = "mint" /\ x.login = None /\ x.owner = owner
      BY DEF Handler, NoHandler
    <3>2. handler' = [handler EXCEPT ![h] = x]
      BY <2>1 DEF CreateMcpKey, Start
    <3> HIDE DEF x
    <3>3. Whole(x)
      BY <3>1 DEF Whole
    <3> QED BY <3>1, <3>2, <3>3
  <2>2. CASE Mint(h)
    <3> DEFINE x == [handler[h] EXCEPT !.pc = "add"]
    <3>0. handler[h] \in Handler /\ Whole(handler[h]) /\ handler[h].pc = "mint"
      BY <2>2 DEF Mint, LoginInv, Carried, Handling, LoginTypeOK
    <3>1. /\ x \in Handler /\ x.pc = "add" /\ x.login = handler[h].login /\ x.owner = handler[h].owner
          /\ x.client = handler[h].client
      BY <3>0 DEF Handler
    <3>2. handler' = [handler EXCEPT ![h] = x] \/ handler' = [handler EXCEPT ![h] = NoHandler]
      BY <2>2 DEF Mint, Done
    <3> HIDE DEF x
    <3>3. Whole(x)
      BY <3>0, <3>1 DEF Whole
    <3> QED BY <3>1, <3>2, <3>3, FreeSlot
  <2>3. ASSUME NEW k \in McpKeys, NEW pc \in {"touch", "revoke"}, mcpKeys[k] # None,
               Start(h, [NoHandler EXCEPT !.pc = pc, !.key = k])
        PROVE  \E x : To(x)
    <3> DEFINE x == [NoHandler EXCEPT !.pc = pc, !.key = k]
    <3>1. x \in Handler /\ x.pc = pc /\ x.login = None /\ x.key = k
      BY DEF Handler, NoHandler
    <3>2. handler' = [handler EXCEPT ![h] = x]
      BY <2>3 DEF Start
    <3> HIDE DEF x
    <3>3. Whole(x)
      BY <2>3, <3>1 DEF Whole
    <3> QED BY <3>1, <3>2, <3>3
  <2>4. CASE HandlerCrash(h)
    BY <2>4, FreeSlot DEF HandlerCrash, Done
  <2>5. ASSUME NEW k \in McpKeys, NEW cert \in LoginCerts, RevokeKey(h, k, cert) PROVE \E x : To(x)
    BY <2>3, <2>5 DEF RevokeKey
  <2>6. ASSUME NEW k \in McpKeys, Resolve(h, k) PROVE \E x : To(x)
    BY <2>3, <2>6 DEF Resolve
  <2> QED BY <2>1, <2>2, <2>4, <2>5, <2>6
<1>3. handler' \in [LoginHandlers -> Handler] /\ Carried' /\ Single' /\ UsedOnce'
  BY <1>1, <1>2, HandlerMoves
<1>4. LoginTypeOK'
  BY <1>1, <1>3 DEF LoginInv, LoginTypeOK
<1> QED BY <1>3, <1>4 DEF LoginInv

\* The handler of a login turns into its key.
LEMMA AddMcpKeyStep ==
  ASSUME LoginInv, NEW h \in LoginHandlers, NEW k \in McpKeys, AddMcpKey(h, k)
  PROVE  LoginInv'
<1> DEFINE x == handler[h]
           row == [owner |-> x.owner, login |-> x.login, holder |-> x.client, revoked |-> FALSE, used |-> FALSE]
<1> USE DEF LoginInv, LoginTypeOK
<1>1. Whole(x) /\ x.pc = "add" /\ x \in Handler /\ mcpKeys[k] = None
  BY DEF Carried, Handling, AddMcpKey
<1>2. row \in McpKey /\ row.owner = x.owner /\ row.login = x.login /\ row.holder = x.client /\ row.used = FALSE
  BY <1>1, HandlerForms DEF Whole, McpKey
<1>3. /\ mcpKeys' = [mcpKeys EXCEPT ![k] = row]
      /\ handler' = [handler EXCEPT ![h] = NoHandler]
      /\ UNCHANGED <<loginClock, oauthRequests, oauthCodes, admitted, consent, firstUses, loginFaults>>
  BY DEF AddMcpKey, Done
<1> HIDE DEF row
<1>4. /\ mcpKeys' \in [McpKeys -> McpKey \cup {None}] /\ mcpKeys'[k] = row
      /\ \A j \in McpKeys : j # k => mcpKeys'[j] = mcpKeys[j]
  BY <1>2, <1>3
<1>5. /\ handler' \in [LoginHandlers -> Handler]
      /\ handler'[h] = NoHandler /\ \A g \in LoginHandlers : g # h => handler'[g] = handler[g]
  BY <1>3, HandlerForms
<1>6. \A j \in McpKeys : mcpKeys[j] # None => mcpKeys'[j] # None
  BY <1>1, <1>4
<1>7. Handling'
  <2> SUFFICES ASSUME NEW g \in LoginHandlers PROVE Whole(handler[g])'
    BY DEF Handling
  <2>1. CASE g = h
    BY <2>1, <1>5, FreeSlot DEF Whole, NoHandler
  <2>2. CASE g # h
    BY <2>2, <1>3, <1>5, <1>6 DEF Carried, Handling, Whole, Granted
  <2> QED BY <2>1, <2>2
<1>8. Pending' /\ Coded' /\ ToLoopback'
  BY <1>3 DEF Carried, Pending, Coded, ToLoopback, Granted
<1>9. Keyed'
  BY <1>1, <1>2, <1>3, <1>4 DEF Carried, Keyed, Whole, Granted
<1>10. OneHandler'
  BY <1>5, FreeSlot DEF Single, OneHandler
<1>11. x.login # None => \A g \in LoginHandlers : g # h => handler[g].login # x.login
  BY DEF Single, OneHandler
<1>12. HandlerAlone'
  BY <1>2, <1>3, <1>4, <1>5, <1>11, FreeSlot DEF Single, HandlerAlone
<1>13. x.login # None => oauthCodes[x.login] = None /\ \A j \in McpKeys : mcpKeys[j] # None => mcpKeys[j].login # x.login
  BY DEF Single, HandlerAlone
<1>14. CodeAlone' /\ OneKey'
  BY <1>1, <1>2, <1>3, <1>4, <1>13, McpLoginAssumption DEF Single, CodeAlone, OneKey
<1>15. UsedOnce'
  BY <1>1, <1>2, <1>3, <1>4 DEF UsedOnce
<1>16. LoginTypeOK'
  BY <1>3, <1>4, <1>5
<1> QED BY <1>7, <1>8, <1>9, <1>10, <1>12, <1>14, <1>15, <1>16 DEF Carried, Single

\* A revocation or a use changes nothing of a key but its marks, and the first
\* use is counted once.
LEMMA KeyMarkSteps ==
  ASSUME LoginInv, NEW h \in LoginHandlers, RevokeMcpKey(h) \/ TouchMcpKey(h)
  PROVE  LoginInv'
<1> DEFINE k == handler[h].key
           old == mcpKeys[k]
           new == mcpKeys'[k]
<1> USE DEF LoginInv, LoginTypeOK
<1>1. k \in McpKeys /\ old \in McpKey
  BY DEF Carried, Handling, Whole, RevokeMcpKey, TouchMcpKey
<1>2. /\ handler' = [handler EXCEPT ![h] = NoHandler]
      /\ UNCHANGED <<loginClock, oauthRequests, oauthCodes, admitted, consent, loginFaults>>
  BY DEF RevokeMcpKey, TouchMcpKey, Done
<1>3. /\ new \in McpKey /\ new.owner = old.owner /\ new.login = old.login /\ new.holder = old.holder
      /\ \A j \in McpKeys : j # k => mcpKeys'[j] = mcpKeys[j]
      /\ mcpKeys' \in [McpKeys -> McpKey \cup {None}]
  <2>1. \/ mcpKeys' = [mcpKeys EXCEPT ![k] = [old EXCEPT !.revoked = TRUE]]
        \/ mcpKeys' = [mcpKeys EXCEPT ![k] = [old EXCEPT !.used = TRUE]]
    BY <1>1 DEF RevokeMcpKey, TouchMcpKey
  <2>2. PICK n \in {[old EXCEPT !.revoked = TRUE], [old EXCEPT !.used = TRUE]} : mcpKeys' = [mcpKeys EXCEPT ![k] = n]
    BY <2>1
  <2>3. n \in McpKey /\ n.owner = old.owner /\ n.login = old.login /\ n.holder = old.holder
    BY <1>1 DEF McpKey
  <2> QED BY <1>1, <2>2, <2>3
<1>4. \A j \in McpKeys : (mcpKeys'[j] # None) = (mcpKeys[j] # None)
  BY <1>1, <1>3, RowForms
<1>5. \A j \in McpKeys : mcpKeys[j] # None =>
        mcpKeys'[j].owner = mcpKeys[j].owner /\ mcpKeys'[j].login = mcpKeys[j].login /\ mcpKeys'[j].holder = mcpKeys[j].holder
  BY <1>1, <1>3
<1>6. /\ handler' \in [LoginHandlers -> Handler]
      /\ handler'[h] = NoHandler /\ \A g \in LoginHandlers : g # h => handler'[g] = handler[g]
  BY <1>2, HandlerForms
<1>7. Handling'
  <2> SUFFICES ASSUME NEW g \in LoginHandlers PROVE Whole(handler[g])'
    BY DEF Handling
  <2>1. CASE g = h
    BY <2>1, <1>6, FreeSlot DEF Whole, NoHandler
  <2>2. CASE g # h
    BY <2>2, <1>2, <1>4, <1>6 DEF Carried, Handling, Whole, Granted
  <2> QED BY <2>1, <2>2
<1>8. Pending' /\ Coded' /\ ToLoopback'
  BY <1>2 DEF Carried, Pending, Coded, ToLoopback, Granted
<1>9. Keyed' /\ CodeAlone' /\ OneKey'
  BY <1>2, <1>4, <1>5 DEF Carried, Single, Keyed, Granted, CodeAlone, OneKey
<1>10. OneHandler' /\ HandlerAlone'
  BY <1>2, <1>4, <1>5, <1>6, FreeSlot DEF Single, OneHandler, HandlerAlone
<1>11. UsedOnce' /\ firstUses' \in [McpKeys -> Nat]
  <2>1. CASE RevokeMcpKey(h)
    <3>1. new.used = old.used /\ firstUses' = firstUses
      BY <2>1, <1>1 DEF RevokeMcpKey, McpKey
    <3> QED BY <3>1, <1>1, <1>3, <1>4 DEF UsedOnce
  <2>2. CASE TouchMcpKey(h)
    <3>1. new.used = TRUE
      BY <2>2, <1>1 DEF TouchMcpKey, McpKey
    <3>2. firstUses' = IF ~ old.used THEN [firstUses EXCEPT ![k] = @ + 1] ELSE firstUses
      BY <2>2 DEF TouchMcpKey, FirstUse
    <3>3. firstUses[k] = IF old.used THEN 1 ELSE 0
      BY <1>1, RowForms DEF UsedOnce
    <3>4. firstUses'[k] = 1 /\ firstUses' \in [McpKeys -> Nat] /\ \A j \in McpKeys : j # k => firstUses'[j] = firstUses[j]
      BY <1>1, <3>2, <3>3
    <3> QED BY <3>1, <3>4, <1>1, <1>3, <1>4, RowForms DEF UsedOnce
  <2> QED BY <2>1, <2>2
<1>12. LoginTypeOK'
  BY <1>2, <1>3, <1>6, <1>11
<1> QED BY <1>7, <1>8, <1>9, <1>10, <1>11, <1>12 DEF Carried, Single

-----------------------------------------------------------------------------
(* The invariant.                                                          *)

\* The clock and the certificates' admission touch nothing of the login.
LEMMA WorldSteps ==
  ASSUME LoginInv, LoginTick \/ \E cert \in LoginCerts : Admission(cert)
  PROVE  LoginInv'
<1> USE DEF loginTables
<1>1. /\ UNCHANGED <<oauthRequests, oauthCodes, mcpKeys, handler, consent, firstUses>>
      /\ loginClock' \in 0..MaxLoginClock /\ admitted' \subseteq LoginCerts /\ loginFaults' \in 0..MaxLoginFaults
  BY McpLoginAssumption DEF LoginTick, Admission, LoginInv, LoginTypeOK
<1>2. LoginTypeOK'
  BY <1>1 DEF LoginInv, LoginTypeOK
<1>3. Carried'
  BY <1>1 DEF LoginInv, Carried, Handling, Whole, Granted, Pending, Coded, Keyed, ToLoopback
<1>4. Single' /\ UsedOnce'
  BY <1>1 DEF LoginInv, Single, OneHandler, HandlerAlone, CodeAlone, OneKey, UsedOnce
<1> QED BY <1>2, <1>3, <1>4 DEF LoginInv

\* Every step keeps the invariant.
LEMMA LoginStep ==
  ASSUME LoginInv, [LoginNext]_loginVars
  PROVE  LoginInv'
<1>1. CASE UNCHANGED loginVars
  <2>1. UNCHANGED <<loginClock, oauthRequests, oauthCodes, mcpKeys, admitted, handler, consent, firstUses, loginFaults>>
    BY <1>1 DEF loginVars, loginTables
  <2>2. LoginTypeOK'
    BY <2>1 DEF LoginInv, LoginTypeOK
  <2>3. Carried'
    BY <2>1 DEF LoginInv, Carried, Handling, Whole, Granted, Pending, Coded, Keyed, ToLoopback
  <2>4. Single' /\ UsedOnce'
    BY <2>1 DEF LoginInv, Single, OneHandler, HandlerAlone, CodeAlone, OneKey, UsedOnce
  <2> QED BY <2>2, <2>3, <2>4 DEF LoginInv
<1>2. CASE LoginNext
  BY <1>2, WorldSteps, AuthorizeStep, ConsentDecideStep, AddOAuthCodeStep, TokenStep, KeyRequestSteps,
     AddMcpKeyStep, KeyMarkSteps DEF LoginNext
<1> QED BY <1>1, <1>2

\* No login has been asked for at the start.
LEMMA LoginStarts ==
  ASSUME LoginInit
  PROVE  LoginInv
<1> USE DEF LoginInit
<1>1. NotAsked \in Consent /\ NotAsked.state = "none"
  BY DEF NotAsked, Consent
<1>2. LoginTypeOK
  BY <1>1, HandlerForms, McpLoginAssumption DEF LoginTypeOK
<1>3. Carried
  BY <1>1, FreeSlot DEF Carried, Handling, Pending, Coded, Keyed, ToLoopback
<1>4. Single /\ UsedOnce
  BY FreeSlot DEF Single, OneHandler, HandlerAlone, CodeAlone, OneKey, UsedOnce
<1> QED BY <1>2, <1>3, <1>4 DEF LoginInv

\* The inductive invariant holds in every reachable state.
LEMMA LoginInvariant == LoginSpec => []LoginInv
<1>1. LoginInit => LoginInv
  BY LoginStarts
<1>2. LoginInv /\ [LoginNext]_loginVars => LoginInv'
  BY LoginStep
<1> QED BY <1>1, <1>2, PTL DEF LoginSpec

\* Every reachable state of the login, the codes and the keys is well formed,
\* and a login never has its request and its code at once.
THEOREM LoginTypeCorrect == LoginSpec => []LoginTypeOK
<1>1. LoginInv => LoginTypeOK
  BY DEF LoginInv
<1> QED BY <1>1, LoginInvariant, PTL

\* consentDecide, token, Mint and TouchMcpKey: a login mints at most one key,
\* the one its operator consented to, for the client that asked, sent to a
\* loopback port, and a key's first use is audited once, whatever the number
\* of logins, clients and racing requests and wherever a replica stops.
THEOREM OneKeyAsConsented == LoginSpec => []KeyAsConsented
<1>1. LoginInv => KeyAsConsented
  <2> SUFFICES ASSUME LoginInv PROVE KeyAsConsented
    OBVIOUS
  <2>1. \A k \in McpKeys : mcpKeys[k] # None => mcpKeys[k].login \in Logins \cup {None}
    BY RowForms DEF LoginInv, LoginTypeOK
  <2>2. \A k \in McpKeys : firstUses[k] <= 1
    BY DEF LoginInv, UsedOnce
  <2> QED BY <2>1, <2>2 DEF KeyAsConsented, LoginInv, Carried, Single, Keyed, Granted, ToLoopback, OneKey
<1> QED BY <1>1, LoginInvariant, PTL
=============================================================================
