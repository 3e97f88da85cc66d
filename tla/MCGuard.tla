------------------------------ MODULE MCGuard ------------------------------
(***************************************************************************)
(* What one replica answers from data that may be old, for TLC: whether a  *)
(* certificate gets in, the CRL it is checked against, a node's            *)
(* configuration and its keys.  The four share no state, so each behaviour *)
(* moves one of them, chosen at the start; the first of them either over   *)
(* three ticks without a revocation at the operator CA, or over four after *)
(* one.                                                                    *)
(***************************************************************************)
EXTENDS Admission, CRLRefresh, NodeConfig, NodeKeys, TLC

CONSTANTS acme, est, c1, c2, c3, rootCN, subCN, l1, l2, l3

VARIABLE part   \* the part that moves
guardVars == <<part, admVars, refVars, configVars, keyVars>>

\* A good answer made on request, pre-signed ones with and without nextUpdate,
\* and one of a delegated responder that is itself listed.
Answer(nonce, life) ==
  [wellFormed |-> TRUE, matches |-> TRUE, nonce |-> nonce, names |-> "anchor", issued |-> FALSE,
   signing |-> FALSE, valid |-> FALSE, noCheck |-> FALSE, listed |-> FALSE, status |-> "good", life |-> life]
MCResponses == {Answer("echoed", 9), Answer("absent", 2), Answer("absent", None),
  [Answer("echoed", 9) EXCEPT !.names = "embedded", !.issued = TRUE, !.signing = TRUE, !.valid = TRUE, !.listed = TRUE]}

\* A certificate of the operator CA, one without a level, another CA's, and none.
MCPeers == {[level |-> Viewer, chains |-> TRUE], [level |-> None, chains |-> TRUE],
            [level |-> Viewer, chains |-> FALSE], None}

\* A node that runs one protocol, and configurations an operator edits by hand.
EstOn == [blocks |-> acme :> "absent" @@ est :> "on", profiles |-> {}]
SomeEdits == {[blocks |-> acme :> a @@ est :> "absent", profiles |-> {}] : a \in {"absent", "off"}}

\* A root, an intermediate under it, and a node without a CA.
FirstSubjects == c1 :> rootCN @@ c2 :> subCN @@ c3 :> None
FirstIssuers == c1 :> rootCN @@ c2 :> rootCN @@ c3 :> None
FirstLabels == c1 :> l1 @@ c2 :> l2 @@ c3 :> l3

\* An operator CA, one that can't sign CRLs, and a node's CA.
OperatorCA == [isCA |-> TRUE, lasts |-> TRUE, strongKey |-> TRUE, nodeCA |-> FALSE, crlSign |-> TRUE]
SomeUploads == {OperatorCA, [OperatorCA EXCEPT !.crlSign = FALSE], [OperatorCA EXCEPT !.nodeCA = TRUE]}

GuardInit ==
  /\ part \in {"admission", "answers", "refresh", "config", "keys"}
  /\ AdmissionInit /\ RefreshInit /\ ConfigInit /\ KeysInit
  /\ part # "refresh" => policy = "soft"

GuardNext ==
  \/ part = "admission" /\ AdmissionNext /\ revokedAt' = None /\ tick' < LastTick /\ UNCHANGED <<part, refVars, configVars, keyVars>>
  \/ part = "answers" /\ AdmissionNext /\ revokedAt' # None /\ UNCHANGED <<part, refVars, configVars, keyVars>>
  \/ part = "refresh" /\ RefreshNext /\ UNCHANGED <<part, admVars, configVars, keyVars>>
  \/ part = "config" /\ ConfigNext /\ UNCHANGED <<part, admVars, refVars, keyVars>>
  \/ part = "keys" /\ KeysNext /\ UNCHANGED <<part, admVars, refVars, configVars>>

GuardSpec == GuardInit /\ [][GuardNext]_guardVars
=============================================================================
