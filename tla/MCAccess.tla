----------------------------- MODULE MCAccess -----------------------------
(***************************************************************************)
(* What operators and agents are given, for TLC: step-up approvals, MCP    *)
(* keys with their login, and operator credentials.  The three share no    *)
(* state, so each behaviour moves one of them, chosen at the start, and a  *)
(* model value plays one role in each.                                     *)
(***************************************************************************)
EXTENDS StepUp, McpLogin, Credentials, TLC

CONSTANTS c1, k1

VARIABLE part   \* the part that moves
accessVars == <<part, vars, loginVars, credVars>>

\* Viewers log in: a ceiling is theirs or none.
MCLevel == [c \in LoginCerts |-> Viewer]
MCSigned == [c \in Certs |-> [level |-> Admin, key |-> k1, sound |-> TRUE]]

SomeCSRs == {[key |-> k1, signed |-> TRUE, email |-> TRUE, strong |-> s] : s \in BOOLEAN}

AccessInit ==
  /\ part \in {"stepup", "login", "credentials"}
  /\ Init /\ LoginInit /\ CredentialsInit

\* Bound: the tool calls in flight and the approvals raised are of one tool.
OneTool == Cardinality(
  {call[c].req.tool : c \in {d \in Calls : call[d].pc # "idle"}}
  \cup {approvals[i].req.tool : i \in {j \in Ids : approvals[j] # None}}) <= 1

\* Bound: while two keys are in play no time passes and nothing is edited.
FewKeys == Cardinality(
  {call[c].key : c \in {d \in Calls : call[d].pc # "idle"}}
  \cup {approvals[i].key : i \in {j \in Ids : approvals[j] # None}}) <= 1 \/ (now = 0 /\ edits = 0)

\* Bound: after an edit one operator decides at a time.
FewDeciders == edits > 0 => Cardinality({d \in Deciders : decision[d].pc # "idle"}) <= 1

\* Bound: while a request is on file one replica sees one certificate, and
\* nobody records one while two replicas see some.
Sighted == {s \in Sites : queue[s] # <<>> \/ seen[s] # <<>>}
FewSightings == (\E q \in Reqs : requests[q] # None) =>
  /\ Cardinality(Sighted) <= 1 /\ fails = 0
  /\ \A s \in Sites : Range(seen[s]) \subseteq {[cert |-> c1, fresh |-> TRUE]} /\ \A i \in 1..Len(queue[s]) : queue[s][i].cert = c1
  /\ \A v \in Visits : visit[v] = NoVisit
FewRecorders == Cardinality(Sighted) > 1 => \A h \in Recorders : recorder[h].pc = "idle"

AccessNext ==
  \/ part = "stepup" /\ Next /\ OneTool' /\ FewKeys' /\ FewDeciders' /\ UNCHANGED <<part, loginVars, credVars>>
  \/ part = "login" /\ LoginNext /\ UNCHANGED <<part, vars, credVars>>
  \/ part = "credentials" /\ CredentialsNext /\ FewSightings' /\ FewRecorders' /\ UNCHANGED <<part, vars, loginVars>>

AccessSpec == AccessInit /\ [][AccessNext]_accessVars

AccessSymmetry == Permutations(Calls) \cup Permutations(Deciders) \cup Permutations(McpKeys) \cup Permutations(Keys)
=============================================================================
