------------------------------- MODULE StepUp -------------------------------
(***************************************************************************)
(* Step-up approvals of the MCP endpoint (internal/approval, the gate and  *)
(* the tools of internal/mcpserver, the approval RPCs of internal/fleet    *)
(* and the approvals table), with the operations they let an agent run.    *)
(*                                                                         *)
(* A request is handled in several steps wherever the code makes several   *)
(* store or node calls: nothing is locked between them, and other requests,*)
(* replicas and operators in the web UI run in between.  One catalog       *)
(* profile, one node, one adapter and one certificate stand for all; a     *)
(* profile's body is whether it issues leaf or CA certificates.            *)
(***************************************************************************)
EXTENDS Levels

CONSTANTS
  Ids,        \* approval ids
  Calls,      \* slots for MCP tool calls
  Deciders,   \* slots for decisions by operators in the web UI
  Keys,       \* MCP keys
  Tools,      \* the step-up tools agents call
  Role,       \* the node's role
  TTL,        \* DefaultTTL, in ticks
  MaxTime,    \* bound: the clock
  MaxEdits    \* bound: changes made in the web UI, and to keys

Refused == 3   \* what Resolve makes of a key it refuses

ASSUME StepUpAssumption ==
  /\ TTL \in Nat \ {0} /\ MaxTime \in Nat /\ MaxEdits \in Nat
  /\ Role \in {"root", "intermediate", "issuing"}
  /\ Tools \subseteq {"cert_revoke", "cert_issue_from_csr", "profile_create", "profile_update",
                     "profile_delete", "profile_apply_to_node", "adapter_set_enabled"}
  /\ None \notin Ids \cup Calls \cup Deciders \cup Keys \cup Nat

VARIABLES
  now,
  approvals,  \* the approvals table
  keyLevel,   \* the level Resolve gives each key now
  catalog,    \* the catalog profile, or Absent
  carried,    \* the node's own copy of it, or Absent
  adapter,    \* whether the adapter is enabled
  revoked,    \* whether the certificate is revoked on its node
  issued,     \* certificates issued: [kind, id], id None without an approval
  ran,        \* history: how many operations ran under an approval, and the last
  call, decision, edits

store == <<catalog, carried, adapter, revoked, issued>>
vars == <<now, approvals, keyLevel, store, ran, call, decision, edits>>

Absent == "absent"
Bodies == {"leaf", "ca"}

\* Catalog: every operation that needs a person, and cert_issue_from_csr.
MinLevel(tool) ==
  IF tool \in {"cert_revoke", "cert_issue_from_csr"} THEN Operator ELSE Admin

Args(tool) ==
  CASE tool \in {"profile_create", "profile_update", "cert_issue_from_csr"} -> Bodies
    [] tool = "adapter_set_enabled" -> {"on", "off"}
    [] OTHER -> {None}

\* A tool name with its arguments.  The digest is taken of exactly these, with
\* approval_id left out, so two requests have one digest only if they are equal.
Requests == UNION {[tool : {t}, arg : Args(t)] : t \in Tools}

Outcomes == Bodies \cup {Absent, "on", "off", "revoked"}
Approval == [req : Requests, key : Keys, shown : Outcomes, exp : Nat,
             status : {"pending", "approved", "denied", "used"},
             by : Levels \cup {None}, decidedAt : Nat \cup {None}, usedAt : Nat \cup {None}]
ASSUME ApprovalAssumption == None \notin Approval
CallState == [pc : {"idle", "summarize", "request", "use", "spend", "run", "push", "check", "issue"},
              key : Keys \cup {None}, level : Levels, req : Requests \cup {None},
              ref : Ids \cup {None}, at : Nat, saw : Outcomes]
DecisionState == [pc : {"idle", "commit"}, id : Ids \cup {None}, approve : BOOLEAN,
                  level : Levels, at : Nat]
Run == [n : Nat, req : Requests \cup {None}, key : Keys \cup {None}, after : Outcomes]
NoRun == [n |-> 0, req |-> None, key |-> None, after |-> Absent]
NoCall == [pc |-> "idle", key |-> None, level |-> Viewer, req |-> None, ref |-> None,
           at |-> 0, saw |-> Absent]
NoDecision == [pc |-> "idle", id |-> None, approve |-> FALSE, level |-> Viewer, at |-> 0]

\* Types.
TypeOK ==
  /\ now \in 0..MaxTime
  /\ approvals \in [Ids -> Approval \cup {None}]
  /\ keyLevel \in [Keys -> Levels \cup {Refused}]
  /\ catalog \in Bodies \cup {Absent} /\ carried \in Bodies \cup {Absent}
  /\ adapter \in {"on", "off"} /\ revoked \in BOOLEAN
  /\ issued \subseteq [kind : Bodies, under : Ids \cup {None}]
  /\ ran \in [Ids -> Run]
  /\ call \in [Calls -> CallState]
  /\ decision \in [Deciders -> DecisionState]
  /\ edits \in 0..MaxEdits

Init ==
  /\ now = 0
  /\ approvals = [i \in Ids |-> None]
  /\ keyLevel = [k \in Keys |-> Admin]
  /\ catalog = "leaf" /\ carried = "leaf"
  /\ adapter = "off" /\ revoked = FALSE
  /\ issued = {}
  /\ ran = [i \in Ids |-> NoRun]
  /\ call = [c \in Calls |-> NoCall]
  /\ decision = [d \in Deciders |-> NoDecision]
  /\ edits = 0

Goto(c, pc) == call' = [call EXCEPT ![c].pc = pc]
End(c) == call' = [call EXCEPT ![c] = NoCall]

-----------------------------------------------------------------------------
(* The approvals table.                                                    *)

\* Status: a pending or approved approval past its expiry reports expired.
Status(a, t) ==
  IF a.status \in {"pending", "approved"} /\ t >= a.exp THEN "expired" ELSE a.status

\* Service.Request: call c's request, pending for TTL.
NewApproval(c) ==
  [req |-> call[c].req, key |-> call[c].key, shown |-> call[c].saw, exp |-> now + TTL,
   status |-> "pending", by |-> None, decidedAt |-> None, usedAt |-> None]

\* AddApproval: a row under a fresh id.
AddApproval(i, row) ==
  /\ approvals[i] = None
  /\ approvals' = [approvals EXCEPT ![i] = row]

\* DecideApproval: one conditional UPDATE with the time the caller read.
DecideApproval(i, status, level, at) ==
  IF approvals[i].status = "pending" /\ approvals[i].exp > at
  THEN approvals' = [approvals EXCEPT ![i].status = status, ![i].by = level, ![i].decidedAt = at]
  ELSE UNCHANGED approvals

\* Variant: the update looks at the expiry alone.
UsableTwice(i, at) == approvals[i].exp > at

\* UseApproval: the same for a use; reports whether the row was updated.
Usable(i, at) == approvals[i].status = "approved" /\ approvals[i].exp > at
UseApproval(i, at) ==
  approvals' = [approvals EXCEPT ![i].status = "used", ![i].usedAt = at]

-----------------------------------------------------------------------------
(* A decision in the web UI.                                               *)

\* Decide reads the row and checks it: pending, and the operator certificate's
\* level covers the tool.  An MCP key never gets here (approvalOperator).
DecideRead(d, i, approve, level) ==
  /\ decision[d].pc = "idle"
  /\ approvals[i] # None
  /\ Status(approvals[i], now) = "pending"
  /\ level >= MinLevel(approvals[i].req.tool)
  /\ decision' = [decision EXCEPT ![d] =
       [pc |-> "commit", id |-> i, approve |-> approve, level |-> level, at |-> now]]
  /\ UNCHANGED <<now, approvals, keyLevel, store, ran, call, edits>>

\* The decision is recorded, or lost: the row was decided meanwhile.
DecideCommit(d) ==
  /\ decision[d].pc = "commit"
  /\ DecideApproval(decision[d].id, IF decision[d].approve THEN "approved" ELSE "denied",
                    decision[d].level, decision[d].at)
  /\ decision' = [decision EXCEPT ![d] = NoDecision]
  /\ UNCHANGED <<now, keyLevel, store, ran, call, edits>>

-----------------------------------------------------------------------------
(* A tool call.                                                            *)

\* The endpoint resolves the key and register checks its level against the
\* tool; a refused call changes nothing.
Receive(c, k, r, ref) ==
  /\ call[c].pc = "idle"
  /\ keyLevel[k] # Refused /\ keyLevel[k] >= MinLevel(r.tool)
  /\ ref # None => approvals[ref] # None
  /\ call' = [call EXCEPT ![c] =
       [NoCall EXCEPT !.key = k, !.level = keyLevel[k], !.req = r, !.ref = ref,
                      !.pc = IF r.tool = "cert_issue_from_csr" THEN "check"
                             ELSE IF ref = None THEN "summarize" ELSE "use"]]
  /\ UNCHANGED <<now, approvals, keyLevel, store, ran, decision, edits>>

\* The summarize functions: what they refuse before an approval is raised ...
Describable(r) ==
  CASE r.tool = "profile_create" -> catalog = Absent
    [] r.tool \in {"profile_update", "profile_delete", "profile_apply_to_node"} -> catalog # Absent
    [] OTHER -> TRUE

\* ... and what the summary tells the approver the call will leave behind.
\* Applying a profile shows the catalog's body, read now.
Described(r) ==
  CASE r.tool = "profile_apply_to_node" -> catalog
    [] r.tool = "profile_delete" -> Absent
    [] r.tool = "cert_revoke" -> "revoked"
    [] r.tool = "cert_issue_from_csr" -> carried
    [] OTHER -> r.arg

\* addStepUp without approval_id: summarize, then the gate raises an approval.
Summarize(c) ==
  /\ call[c].pc = "summarize"
  /\ IF Describable(call[c].req)
     THEN call' = [call EXCEPT ![c].pc = "request", ![c].saw = Described(call[c].req)]
     ELSE End(c)
  /\ UNCHANGED <<now, approvals, keyLevel, store, ran, decision, edits>>

\* gate.require without an approval_id: the call ends with pending_approval.
RaiseApproval(c, i) ==
  /\ call[c].pc = "request"
  /\ AddApproval(i, NewApproval(c))
  /\ End(c)
  /\ UNCHANGED <<now, keyLevel, store, ran, decision, edits>>

\* Variant: the approval may be of another request or key.
MatchesAny(c, a) ==
  /\ Status(a, now) = "approved"
  /\ call[c].level >= MinLevel(a.req.tool) /\ a.by >= MinLevel(a.req.tool)

\* Service.Use up to its conditional update: the key, the tool and the digest
\* must be the approval's, and both levels cover the tool.
Matches(c, a) ==
  /\ a.key = call[c].key /\ a.req = call[c].req
  /\ Status(a, now) = "approved"
  /\ call[c].level >= MinLevel(a.req.tool) /\ a.by >= MinLevel(a.req.tool)

Use(c) ==
  /\ call[c].pc = "use"
  /\ IF Matches(c, approvals[call[c].ref])
     THEN call' = [call EXCEPT ![c].pc = "spend", ![c].at = now]
     ELSE End(c)
  /\ UNCHANGED <<now, approvals, keyLevel, store, ran, decision, edits>>

\* Marked used before the call runs; losing the race ends the call.
Spend(c) ==
  /\ call[c].pc = "spend"
  /\ IF Usable(call[c].ref, call[c].at)
     THEN UseApproval(call[c].ref, call[c].at) /\ Goto(c, "run")
     ELSE End(c) /\ UNCHANGED approvals
  /\ UNCHANGED <<now, keyLevel, store, ran, decision, edits>>

\* issueFromCSR: a CSR asking for a CA, a CA profile on the node or a root
\* node needs an approval; the node has to carry the profile.
Needs(r) == r.arg = "ca" \/ Role = "root" \/ carried = "ca"
IssueCheck(c) ==
  /\ call[c].pc = "check"
  /\ IF carried = Absent THEN End(c)
     ELSE call' = [call EXCEPT ![c].saw = Described(call[c].req),
                               ![c].pc = IF ~ Needs(call[c].req) THEN "issue"
                                         ELSE IF call[c].ref = None THEN "request" ELSE "use"]
  /\ UNCHANGED <<now, approvals, keyLevel, store, ran, decision, edits>>

-----------------------------------------------------------------------------
(* The operations: the FleetService handlers a call is dispatched to.      *)

Ran(c, after) ==
  ran' = [ran EXCEPT ![call[c].ref] =
            [n |-> @.n + 1, req |-> call[c].req, key |-> call[c].key, after |-> after]]

CreateProfile(b) == catalog = Absent /\ catalog' = b
UpdateProfile(b) == catalog # Absent /\ catalog' = b
DeleteProfile == catalog # Absent /\ catalog' = Absent

\* The catalog writes are one statement each; one that finds no row, or a row
\* of that name, fails and the approval stays used.
RunProfile(c) ==
  /\ call[c].pc = "run"
  /\ \/ /\ call[c].req.tool = "profile_create" /\ CreateProfile(call[c].req.arg)
        /\ Ran(c, call[c].req.arg)
     \/ /\ call[c].req.tool = "profile_update" /\ UpdateProfile(call[c].req.arg)
        /\ Ran(c, call[c].req.arg)
     \/ /\ call[c].req.tool = "profile_delete" /\ DeleteProfile
        /\ Ran(c, Absent)
  /\ End(c)
  /\ UNCHANGED <<now, approvals, keyLevel, carried, adapter, revoked, issued, decision, edits>>

SetAdapterEnabled(c) ==
  /\ call[c].pc = "run" /\ call[c].req.tool = "adapter_set_enabled"
  /\ adapter' = call[c].req.arg
  /\ Ran(c, call[c].req.arg)
  /\ End(c)
  /\ UNCHANGED <<now, approvals, keyLevel, catalog, carried, revoked, issued, decision, edits>>

RevokeCertificate(c) ==
  /\ call[c].pc = "run" /\ call[c].req.tool = "cert_revoke"
  /\ revoked' = TRUE
  /\ Ran(c, "revoked")
  /\ End(c)
  /\ UNCHANGED <<now, approvals, keyLevel, catalog, carried, adapter, issued, decision, edits>>

\* ApplyProfileToNode reads the catalog profile, then the node's whole config,
\* and applies it back with the profile inserted or replaced.
ApplyRead(c) ==
  /\ call[c].pc = "run" /\ call[c].req.tool = "profile_apply_to_node"
  /\ catalog # Absent
  /\ call' = [call EXCEPT ![c].pc = "push", ![c].saw = catalog]
  /\ UNCHANGED <<now, approvals, keyLevel, store, ran, decision, edits>>

ApplyPush(c) ==
  /\ call[c].pc = "push"
  /\ carried' = call[c].saw
  /\ Ran(c, call[c].saw)
  /\ End(c)
  /\ UNCHANGED <<now, approvals, keyLevel, catalog, adapter, revoked, issued, decision, edits>>

\* IssueLeaf: the node signs under the profile it carries now.
IssueLeaf(c) ==
  /\ call[c].pc \in {"issue", "run"} /\ call[c].req.tool = "cert_issue_from_csr"
  /\ carried # Absent
  /\ LET under == IF call[c].pc = "run" THEN call[c].ref ELSE None IN
     /\ issued' = issued \cup {[kind |-> carried, under |-> under]}
     /\ IF under = None THEN UNCHANGED ran ELSE Ran(c, carried)
  /\ End(c)
  /\ UNCHANGED <<now, approvals, keyLevel, catalog, carried, adapter, revoked, decision, edits>>

\* The operation fails: the store refuses it, the node is down or refuses, or
\* the process stops.  The approval is not given back.
Fail(c) ==
  /\ call[c].pc \in {"run", "push", "issue"}
  /\ End(c)
  /\ UNCHANGED <<now, approvals, keyLevel, store, ran, decision, edits>>

-----------------------------------------------------------------------------
(* Everything else that moves.                                             *)

Tick ==
  /\ now < MaxTime
  /\ now' = now + 1
  /\ UNCHANGED <<approvals, keyLevel, store, ran, call, decision, edits>>

\* An admin edits the catalog, or the node's copy, in the web UI.
WebEdit(b) ==
  /\ edits < MaxEdits
  /\ edits' = edits + 1
  /\ \/ (CreateProfile(b) \/ UpdateProfile(b) \/ DeleteProfile) /\ UNCHANGED carried
     \/ carried' = b /\ UNCHANGED catalog
  /\ UNCHANGED <<now, approvals, keyLevel, adapter, revoked, issued, ran, call, decision>>

\* A key is revoked, or its certificate expires, is revoked or is trusted
\* again: the next request resolves it differently.
KeyEdit(k, l) ==
  /\ edits < MaxEdits
  /\ edits' = edits + 1
  /\ keyLevel' = [keyLevel EXCEPT ![k] = l]
  /\ UNCHANGED <<now, approvals, store, ran, call, decision>>

Next ==
  \/ Tick
  \/ \E b \in Bodies : WebEdit(b)
  \/ \E k \in Keys, l \in Levels \cup {Refused} : KeyEdit(k, l)
  \/ \E d \in Deciders :
       \/ \E i \in Ids, approve \in BOOLEAN, l \in Levels : DecideRead(d, i, approve, l)
       \/ DecideCommit(d)
  \/ \E c \in Calls :
       \/ \E k \in Keys, r \in Requests, ref \in Ids \cup {None} : Receive(c, k, r, ref)
       \/ \E i \in Ids : RaiseApproval(c, i)
       \/ Summarize(c) \/ IssueCheck(c) \/ Use(c) \/ Spend(c)
       \/ RunProfile(c) \/ SetAdapterEnabled(c) \/ RevokeCertificate(c)
       \/ ApplyRead(c) \/ ApplyPush(c) \/ IssueLeaf(c) \/ Fail(c)

Spec == Init /\ [][Next]_vars

-----------------------------------------------------------------------------
(* Properties.                                                             *)

\* What ran under an approval is the request the approval was raised for,
\* called with the key that raised it, approved by an operator whose level
\* covers the tool: Use's checks hold for the call that runs, however the
\* steps of two calls and a decision fall.
RunsAsRaised == \A i \in Ids : ran[i].n > 0 =>
  /\ approvals[i].status = "used"
  /\ ran[i].req = approvals[i].req /\ ran[i].key = approvals[i].key
  /\ approvals[i].by >= MinLevel(ran[i].req.tool)

\* The promise of OneShot: decisions are final, a use is final, and an
\* approval lets one operation run, whatever calls present it at once.
Status0(i) == IF approvals[i] = None THEN "none" ELSE approvals[i].status
Promise == INSTANCE OneShot WITH
  state <- [i \in Ids |-> Status0(i)],
  ran <- [i \in Ids |-> ran[i].n]
ImplementsOneShot == Promise!Spec

\* "describes exactly what the call will do" (server.go): what ran is what the
\* summary told the approver.
RunsAsShown == \A i \in Ids : ran[i].n > 0 => ran[i].after = approvals[i].shown
=============================================================================
