------------------------------ MODULE MCTrust ------------------------------
(***************************************************************************)
(* What replicas owe the database they share, for TLC: copies of the       *)
(* operator CAs and of one CA's revocation data, and an orderly start.     *)
(* The three share no state, so each behaviour moves one of them, chosen   *)
(* at the start.                                                           *)
(***************************************************************************)
EXTENDS OperatorCAs, Revocation, Startup, TLC

CONSTANTS r1, p1, a3

VARIABLE part   \* the part that moves
copyVars == <<part, casVars, vars, upVars>>

\* A first start without TLS material, one with, and files that don't validate.
Plain == [tls |-> "none", nodesComplete |-> TRUE, database |-> TRUE, bypass |-> FALSE, mcp |-> TRUE,
          caInFile |-> FALSE, crlInFile |-> FALSE, ocspInFile |-> FALSE]
SomeConfigs == {Plain, [Plain EXCEPT !.tls = "own"], [Plain EXCEPT !.tls = "half"],
                [Plain EXCEPT !.database = FALSE], [Plain EXCEPT !.crlInFile = TRUE]}

CopyInit == part \in {"cas", "rotations", "revocation", "uploads", "startup"} /\ CAsInit /\ Init /\ StartupInit

\* Bound: one request at a time, two CAs, and a fault or a third write.
OneRequest ==
  /\ \A p \in CAProcs : caReq[p] # NoCARequest => p = p1 /\ caReq[p].ca # a3
  /\ caFaults = 0 \/ clock < 3

\* Bound: on one replica, rotations overlap, and a retirement is alone.  (What
\* overlapping retirements and settings changes do is in the OperatorCAs runs.)
Retiring(p) == caReq[p].pc = "retire" \/ \E a \in Locked(p) : pending[p].rows[a].state = "retired"
Rotations ==
  /\ running \subseteq {r1} /\ \A p \in CAProcs : caReq[p].pc # "set"
  /\ \A p, q \in CAProcs : p # q /\ Retiring(p) => caReq[q].pc = "idle"

CABound == (part = "cas" => OneRequest') /\ (part = "rotations" => Rotations')

\* Bound: one writer at a time, and one CRL.
OneWriter == \A p \in Procs : req[p] # NoRequest => p = p1 /\ req[p].num <= 1

\* Bound: on one replica, two CRLs are stored at the same time, where a row is
\* recorded, and each is in use before the next commits.  (What overlapping
\* denials do is in the RevocationDeny run.)
Uploads ==
  /\ up \subseteq {r1} /\ \A p \in Procs : req[p].pc \notin {"deny", "read", "install"}
  /\ stored # None \/ \A p \in Procs : req[p] = NoRequest
InTurn == (\E p \in Procs : req[p].pc = "use") => stored' = stored

RevocationBound == (part = "revocation" => OneWriter') /\ (part = "uploads" => Uploads' /\ InTurn)

CopyNext ==
  \/ part \in {"cas", "rotations"} /\ CAsNext /\ CABound /\ UNCHANGED <<part, vars, upVars>>
  \/ part \in {"revocation", "uploads"} /\ Next /\ RevocationBound /\ UNCHANGED <<part, casVars, upVars>>
  \/ part = "startup" /\ StartupNext /\ UNCHANGED <<part, casVars, vars>>

\* A replica that is down is started again, its start goes on while it can, its
\* poller runs every interval, a request or a writer that has started goes on,
\* and the database comes back, within the bounds.
CAFair(step) == part \in {"cas", "rotations"} /\ step /\ CABound
RevocationFair(step) == part \in {"revocation", "uploads"} /\ step /\ RevocationBound
CopyFairness ==
  /\ \A r \in TrustReplicas :
       /\ WF_casVars(CAFair(TrustBoot(r)))
       /\ WF_casVars(CAFair(PollVersion(r)))
       /\ WF_casVars(CAFair(PollRebuild(r)))
  /\ \A p \in CAProcs : WF_casVars(CAFair(CAStep(p)))
  /\ \A r \in Replicas :
       WF_vars(RevocationFair(Boot(r))) /\ WF_vars(RevocationFair(PollStep(r)))
  /\ \A p \in Procs : WF_vars(RevocationFair(ProcStep(p)))
  /\ WF_upVars(part = "startup" /\ DatabaseStarts)
  /\ \A m \in Managers : WF_upVars(part = "startup" /\ StartStep(m))

CopySpec == CopyInit /\ [][CopyNext]_copyVars /\ CopyFairness

\* Once the writes end, every replica trusts and enforces what the database says,
\* whatever crashed or failed on the way: a retired operator CA stops signing in
\* everywhere, and so does a denied certificate (PollOnce, Rebuild, Reload).
CopiesConverge == TrustConverges /\ Converges
=============================================================================
