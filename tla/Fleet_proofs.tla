---------------------------- MODULE Fleet_proofs ----------------------------
(***************************************************************************)
(* Proofs about the fleet service: the node inventory (Nodes: adoption,    *)
(* enrollment, names and pins), the nodes' configuration (NodeConfig) and  *)
(* their CA keys and certificates (NodeKeys).                              *)
(***************************************************************************)
EXTENDS Nodes, NodeConfig, NodeKeys, FiniteSetTheorems, TLAPS

\* Machines and bounds.
World ==
  /\ machine \in [Machines -> Machine] /\ hijacked \subseteq Machines
  /\ faults \in 0..MaxNodeFaults /\ renames \in 0..MaxRenames

\* A certificate of a machine, not of what answers in its place.
Genuine(c) == c \in Certificate /\ c.of # Impostor
Files == folder \in [Names -> Folder] /\ \A name \in Names : folder[name].pin = None \/ Genuine(folder[name].pin)

\* The nodes and their name history.
Ids == {s.id : s \in spans}
Unique == \A i, j \in Inventory : nodes[i].name = nodes[j].name => i = j
Tables ==
  /\ nodes \in [NodeIds -> Node \cup {None}] /\ spans \subseteq Span /\ IsFiniteSet(spans)
  /\ Unique /\ NamesTraced

\* An adoption: what it works on; what the operator is asked and has answered.
Adopting(s) ==
  /\ s.pc # "idle" => s.at \in Machines /\ s.name \in Names
  /\ s.pc \in {"add", "update"} => s.node \in Node
  /\ s.pc = "update" => s.id \in NodeIds
  /\ s.pc = "pin" => Genuine(s.shown)
Awaiting(s, w, x) ==
  /\ s.pc # "confirm" => w = None /\ x = None
  /\ w # None => w = s.shown /\ x = None
  /\ x # None /\ x = "match" => Genuine(s.shown)
Adoptions ==
  /\ adopt \in [Adopts -> Adopt]
  /\ waiting \in [Adopts -> Certificate \cup {None}]
  /\ answer \in [Adopts -> {None, "match", "mismatch"}]
  /\ \A a \in Adopts : Adopting(adopt[a]) /\ Awaiting(adopt[a], waiting[a], answer[a])

\* A row of enrollment e, where the nodes ids were handed out and those of f
\* got a certificate under it: approved, it names one of them.
Admits(row, e, ids, f) == row.status = "APPROVED" =>
  row.node \in ids /\ (row.kind = "SUBORDINATE" => row.node \in f[e])
Rows ==
  /\ enrollments \in [Enrolls -> Enrollment \cup {None}] /\ ferried \in [Enrolls -> SUBSET NodeIds]
  /\ \A e \in Enrolls : enrollments[e] # None => Admits(enrollments[e], e, Ids, ferried)

\* A request, where rows are the enrollments: it works on a row that is there,
\* and comes to decide on it with a node that the row may be approved for.
Ferried == {"parent", "csr", "sign", "submit", "keep", "record"}
Asking(r, ids, rows, f) ==
  /\ r.pc \notin {"idle", "remove", "aside"} => r.enr \in Enrolls /\ rows[r.enr] # None
  /\ r.pc \in {"plan", "child", "write"} => r.row \in Enrollment
  /\ r.pc \in {"plan", "files", "link"} => rows[r.enr].kind = "LINK"
  /\ r.pc \in {"files", "link", "aside"} \cup Ferried => r.node \in Node
  /\ r.pc = "files" => r.node.at \in Linked /\ (r.pinned = None \/ Genuine(r.pinned))
  /\ r.pc \in Ferried => r.id \in NodeIds \cap ids
  /\ r.pc = "remove" => r.id \in NodeIds
  /\ r.pc \in {"keep", "record"} => r.id \in f[r.enr]
  /\ r.pc = "decide" /\ r.status # "REJECTED" =>
       r.id \in NodeIds \cap ids /\ (rows[r.enr].kind = "SUBORDINATE" => r.id \in f[r.enr])
  /\ r.pc = "write" => r.row.kind = rows[r.enr].kind /\ Admits(r.row, r.enr, ids, f)
Requests == request \in [Handlers -> Request] /\ \A h \in Handlers : Asking(request[h], Ids, enrollments, ferried)

NodesInv == World /\ Files /\ Tables /\ Adoptions /\ Rows /\ Requests

\* A request's switches are what its config says, and once the node took the
\* config, switches it took; a SetNodeProtocol leaves out every other block.
Sent == \A o \in Ops : op[o].pc = "apply" =>
  \A s \in op[o].switches : op[o].next.blocks[s[1]] = s[2]
Took == \A o \in Ops : op[o].pc = "record" => op[o].switches \subseteq taken
Alone == \A o \in Ops : op[o].pc = "apply" /\ op[o].kind = "switch" =>
  \A p \in Protocols : op[o].next.blocks[p] # "absent" => \E v \in Block : <<p, v>> \in op[o].switches
ConfigInv == ConfigTypeOK /\ Sent /\ Took /\ Alone /\ EventsTrue

\* What a ferry carries, where k are the nodes' keys: its child and its parent
\* have an identity, and the issuer is the CA its child is under.
Carries(r, k) ==
  /\ r.pc # "idle" => r.child \in CaNodes /\ k[r.child].id # None
  /\ r.pc \in {"parent", "complete"} => r.issuer = k[r.child].id.issuer
  /\ r.pc = "sign" => /\ r.parent \in CaNodes /\ k[r.parent].id # None
                      /\ k[r.parent].id.subject = k[r.child].id.issuer
Ferrying == \A f \in Ferries : Carries(ferry[f], ca)

\* A listing's fields, and that what it knew to be revoked still is.
Listing == \E pc, before, listed, merged :
  /\ listing = [pc |-> pc, before |-> before, issued |-> listed, status |-> merged]
  /\ before \subseteq revoked
KeysInv == KeysTypeOK /\ Ferrying /\ Listing /\ RevokedShown

\* From the keys k to l, a node that has an identity keeps its names.
NamesKept(k, l) == \A c \in CaNodes : k[c].id # None =>
  l[c].id # None /\ l[c].id.subject = k[c].id.subject /\ l[c].id.issuer = k[c].id.issuer

-----------------------------------------------------------------------------
(* A node's configuration.                                                 *)

\* The fields of a config.
LEMMA ConfigFields ==
  ASSUME NEW c \in Config
  PROVE  c.blocks \in [Protocols -> Block] /\ c.profiles \subseteq Profiles
BY DEF Config

\* A config with other blocks.
LEMMA ConfigOf ==
  ASSUME NEW c \in Config, NEW b \in [Protocols -> Block]
  PROVE  [c EXCEPT !.blocks = b] \in Config /\ [c EXCEPT !.blocks = b].blocks = b
BY DEF Config

\* A request that ends, or changes nothing but itself to one that holds.
LEMMA OpMoves ==
  ASSUME ConfigTypeOK, NEW o \in Ops, NEW r \in Op, OpStep(o, r)
  PROVE  op' \in [Ops -> Op] /\ op'[o] = r /\ \A q \in Ops : q # o => op'[q] = op[q]
BY DEF ConfigTypeOK, OpStep

\* No request.
LEMMA NoOpIsOp == NoOp \in Op /\ NoOp.pc = "idle" /\ NoOp.next = None /\ NoOp.switches = {}
BY DEF NoOp, Op, Switch

\* A request begins: it has read the config and worked out what to send.
LEMMA OpBegins ==
  ASSUME ConfigInv, NEW o \in Ops, NEW k \in {"switch", "config", "profile"}, NEW c \in Config,
         NEW sw \in SUBSET Switch,
         OpStep(o, [pc |-> "apply", kind |-> k, next |-> c, switches |-> sw]),
         \A s \in sw : c.blocks[s[1]] = s[2],
         k = "switch" => \A p \in Protocols : c.blocks[p] # "absent" => \E v \in Block : <<p, v>> \in sw,
         UNCHANGED <<config, running, status, tracker, events, taken, applies>>
  PROVE  ConfigInv'
<1> DEFINE r == [pc |-> "apply", kind |-> k, next |-> c, switches |-> sw]
<1>1. r \in Op /\ r.pc = "apply" /\ r.kind = k /\ r.next = c /\ r.switches = sw
  BY DEF Op
<1>2. OpStep(o, r)
  OBVIOUS
<1> HIDE DEF r
<1>3. op' \in [Ops -> Op] /\ op'[o] = r /\ \A q \in Ops : q # o => op'[q] = op[q]
  BY <1>1, <1>2, OpMoves DEF ConfigInv
<1>4. c # None
  BY ConfigAssumption
<1>5. ConfigTypeOK'
  BY <1>1, <1>3, <1>4 DEF ConfigInv, ConfigTypeOK
<1>6. Sent' /\ Took' /\ Alone'
  BY <1>1, <1>3 DEF ConfigInv, Sent, Took, Alone
<1> QED BY <1>5, <1>6 DEF ConfigInv, EventsTrue

\* A request ends, or all do: nothing else of the requests moves.
LEMMA OpEnds ==
  ASSUME ConfigInv, op' \in [Ops -> Op], \A q \in Ops : op'[q] \in {op[q], NoOp},
         taken \subseteq taken'
  PROVE  /\ Sent' /\ Took' /\ Alone'
         /\ \A q \in Ops : op'[q].pc = "idle" <=> op'[q].next = None
<1>1. \A q \in Ops : op'[q].pc = "idle" <=> op'[q].next = None
  BY NoOpIsOp DEF ConfigInv, ConfigTypeOK
<1> QED BY <1>1, NoOpIsOp DEF ConfigInv, Sent, Took, Alone

\* SetNodeProtocol sends one block.
LEMMA SetNodeProtocolStep ==
  ASSUME ConfigInv, NEW o \in Ops, NEW p \in Protocols, NEW v \in {"on", "off"}, SetNodeProtocol(o, p, v)
  PROVE  ConfigInv'
<1> DEFINE b == [q \in Protocols |-> IF q = p THEN v ELSE "absent"]
<1>1. config \in Config
  BY DEF ConfigInv, ConfigTypeOK
<1>2. b \in [Protocols -> Block] /\ b[p] = v /\ \A q \in Protocols : q # p => b[q] = "absent"
  BY DEF Block
<1>3. SwitchConfig(config, p, v) \in Config /\ SwitchConfig(config, p, v).blocks = b
  <2> SUFFICES [config EXCEPT !.blocks = b] \in Config /\ [config EXCEPT !.blocks = b].blocks = b
    BY DEF SwitchConfig
  <2> HIDE DEF b
  <2> QED BY <1>1, <1>2, ConfigOf DEF Config
<1> HIDE DEF b
<1>4. {<<p, v>>} \in SUBSET Switch
  BY DEF Switch
<1>5. \A s \in {<<p, v>>} : SwitchConfig(config, p, v).blocks[s[1]] = s[2]
  BY <1>2, <1>3
<1>6. \A q \in Protocols : SwitchConfig(config, p, v).blocks[q] # "absent" => \E w \in Block : <<q, w>> \in {<<p, v>>}
  BY <1>2, <1>3 DEF Block
<1>7. /\ OpStep(o, [pc |-> "apply", kind |-> "switch", next |-> SwitchConfig(config, p, v), switches |-> {<<p, v>>}])
      /\ UNCHANGED <<config, running, status, tracker, events, taken, applies>>
  BY DEF SetNodeProtocol
<1> QED BY <1>3, <1>4, <1>5, <1>6, <1>7, OpBegins

\* ApplyNodeConfig audits the blocks it sends.
LEMMA ApplyNodeConfigStep ==
  ASSUME ConfigInv, NEW o \in Ops, NEW c \in Edits, ApplyNodeConfig(o, c)
  PROVE  ConfigInv'
<1>1. c \in Config /\ c.blocks \in [Protocols -> Block]
  BY ConfigAssumption, ConfigFields
<1>2. ASSUME NEW s \in ProtocolSwitches(config, c)
      PROVE  s \in Switch /\ c.blocks[s[1]] = s[2]
  <2>1. PICK p \in Protocols : s = <<p, c.blocks[p]>> /\ c.blocks[p] # "absent"
    BY DEF ProtocolSwitches
  <2>2. c.blocks[p] \in {"on", "off"}
    BY <1>1, <2>1 DEF Block
  <2> QED BY <2>1, <2>2 DEF Switch
<1>3. /\ OpStep(o, [pc |-> "apply", kind |-> "config", next |-> c, switches |-> ProtocolSwitches(config, c)])
      /\ UNCHANGED <<config, running, status, tracker, events, taken, applies>>
  BY DEF ApplyNodeConfig
<1>4. ProtocolSwitches(config, c) \in SUBSET Switch
  BY <1>2
<1> QED BY <1>1, <1>2, <1>3, <1>4, OpBegins

\* ApplyProfileToNode switches nothing.
LEMMA ApplyProfileStep ==
  ASSUME ConfigInv, NEW o \in Ops, NEW f \in Profiles, ApplyProfileToNode(o, f)
  PROVE  ConfigInv'
<1> DEFINE next == [config EXCEPT !.profiles = @ \cup {f}]
<1>1. next \in Config
  BY DEF ConfigInv, ConfigTypeOK, Config
<1>2. /\ OpStep(o, [pc |-> "apply", kind |-> "profile", next |-> next, switches |-> {}])
      /\ UNCHANGED <<config, running, status, tracker, events, taken, applies>>
  BY DEF ApplyProfileToNode
<1> HIDE DEF next
<1> QED BY <1>1, <1>2, OpBegins

\* What the node stores after an apply: a block that was sent, or its own.
LEMMA MergedIs ==
  ASSUME ConfigTypeOK, NEW c \in Config
  PROVE  /\ Merged(c) \in Config
         /\ \A p \in Protocols : Merged(c).blocks[p] =
              IF c.blocks[p] = "absent" THEN config.blocks[p] ELSE c.blocks[p]
<1> DEFINE b == [p \in Protocols |-> IF c.blocks[p] = "absent" THEN config.blocks[p] ELSE c.blocks[p]]
<1>1. config.blocks \in [Protocols -> Block] /\ c.blocks \in [Protocols -> Block] /\ c.profiles \in SUBSET Profiles
  BY ConfigFields DEF ConfigTypeOK
<1>2. b \in [Protocols -> Block]
  BY <1>1
<1>3. Merged(c) = [blocks |-> b, profiles |-> c.profiles] /\ Merged(c).blocks = b
  BY DEF Merged
<1>4. \A p \in Protocols : b[p] = IF c.blocks[p] = "absent" THEN config.blocks[p] ELSE c.blocks[p]
  OBVIOUS
<1> HIDE DEF b
<1>5. Merged(c) \in Config
  BY <1>1, <1>2, <1>3 DEF Config
<1> QED BY <1>3, <1>4, <1>5

\* The switches of a request whose config is applied are taken.
LEMMA ApplyStep ==
  ASSUME ConfigInv, NEW o \in Ops, NEW answered \in BOOLEAN, Apply(o, answered)
  PROVE  ConfigInv'
<1>1. /\ op[o].pc = "apply" /\ op[o] \in Op /\ op[o].next \in Config /\ op[o].switches \subseteq Switch
  <2>1. op[o].pc = "apply" /\ op[o] \in Op /\ op[o].next # None
    BY DEF Apply, ConfigInv, ConfigTypeOK
  <2> QED BY <2>1 DEF Op
<1>2. /\ config' = Merged(op[o].next) /\ applies < MaxApplies /\ applies' = applies + 1
      /\ taken' = taken \cup {s \in Switch : s[2] = config'.blocks[s[1]]}
      /\ UNCHANGED <<running, status, tracker, events>>
  BY DEF Apply
<1>3. /\ config' \in Config
      /\ \A p \in Protocols : config'.blocks[p] =
           IF op[o].next.blocks[p] = "absent" THEN config.blocks[p] ELSE op[o].next.blocks[p]
  BY <1>1, <1>2, MergedIs DEF ConfigInv
<1>4. applies' \in 0..MaxApplies
  <2>1. applies \in 0..MaxApplies /\ MaxApplies \in Nat
    BY ConfigAssumption DEF ConfigInv, ConfigTypeOK
  <2> QED BY <1>2, <2>1
<1>5. op[o].switches \subseteq taken' /\ taken \subseteq taken' /\ taken' \subseteq Switch
  <2>1. ASSUME NEW s \in op[o].switches PROVE s \in taken'
    <3>1. s \in Switch /\ op[o].next.blocks[s[1]] = s[2]
      BY <1>1 DEF ConfigInv, Sent
    <3>2. s[1] \in Protocols /\ s[2] \in {"on", "off"}
      BY <3>1 DEF Switch
    <3>3. config'.blocks[s[1]] = s[2]
      BY <1>3, <3>1, <3>2
    <3> QED BY <1>2, <3>1, <3>3
  <2>2. taken' \subseteq Switch
    BY <1>2 DEF ConfigInv, ConfigTypeOK
  <2> QED BY <1>2, <2>1, <2>2
<1>6. EventsTrue'
  BY <1>2, <1>5 DEF ConfigInv, EventsTrue
<1>7. CASE answered
  <2> DEFINE r == [op[o] EXCEPT !.pc = "record"]
  <2>1. r \in Op /\ r.pc = "record" /\ r.next = op[o].next /\ r.switches = op[o].switches
    BY <1>1 DEF Op
  <2>2. OpStep(o, r)
    BY <1>7 DEF Apply
  <2> HIDE DEF r
  <2>3. op' \in [Ops -> Op] /\ op'[o] = r /\ \A q \in Ops : q # o => op'[q] = op[q]
    BY <2>1, <2>2, OpMoves DEF ConfigInv
  <2>4. op[o].next # None
    BY <1>1, ConfigAssumption
  <2>5. ConfigTypeOK'
    BY <1>2, <1>3, <1>4, <1>5, <2>1, <2>3, <2>4 DEF ConfigInv, ConfigTypeOK
  <2>6. Sent' /\ Took' /\ Alone'
    BY <1>5, <2>1, <2>3 DEF ConfigInv, Sent, Took, Alone
  <2> QED BY <1>6, <2>5, <2>6 DEF ConfigInv
<1>8. CASE ~ answered
  <2>1. op' \in [Ops -> Op] /\ op'[o] = NoOp /\ \A q \in Ops : q # o => op'[q] = op[q]
    BY <1>8, NoOpIsOp, OpMoves DEF Apply, OpEnd, ConfigInv
  <2>2. Sent' /\ Took' /\ Alone' /\ \A q \in Ops : op'[q].pc = "idle" <=> op'[q].next = None
    BY <1>5, <2>1, OpEnds
  <2>3. ConfigTypeOK'
    BY <1>2, <1>3, <1>4, <1>5, <2>1, <2>2 DEF ConfigInv, ConfigTypeOK
  <2> QED BY <1>6, <2>2, <2>3 DEF ConfigInv
<1> QED BY <1>7, <1>8

\* Switches are recorded after the node took them.
LEMMA RecordStep ==
  ASSUME ConfigInv, NEW o \in Ops, NEW reboot \in BOOLEAN, Record(o, reboot)
  PROVE  ConfigInv'
<1>1. /\ op[o].pc = "record" /\ events' = events \cup op[o].switches /\ OpEnd(o)
      /\ UNCHANGED <<config, running, status, taken, applies>>
  BY DEF Record
<1>2. tracker' \in [Protocols -> {"on", "off", None}]
  BY DEF Record, ConfigInv, ConfigTypeOK
<1>3. op' \in [Ops -> Op] /\ op'[o] = NoOp /\ \A q \in Ops : q # o => op'[q] = op[q]
  BY <1>1, NoOpIsOp, OpMoves DEF OpEnd, ConfigInv
<1>4. Sent' /\ Took' /\ Alone' /\ \A q \in Ops : op'[q].pc = "idle" <=> op'[q].next = None
  BY <1>1, <1>3, OpEnds
<1>5. events' \subseteq taken
  BY <1>1 DEF ConfigInv, Took, EventsTrue
<1>6. ConfigTypeOK'
  BY <1>1, <1>2, <1>3, <1>4, <1>5 DEF ConfigInv, ConfigTypeOK
<1> QED BY <1>1, <1>4, <1>5, <1>6 DEF ConfigInv, EventsTrue

\* Refusals, reboots, probes and a manager's restart audit nothing.
LEMMA OtherConfigSteps ==
  ASSUME ConfigInv, (\E o \in Ops : Refused(o)) \/ RebootNode \/ GetStatus \/ Reconcile \/ RestartManager
  PROVE  ConfigInv'
<1>1. UNCHANGED <<config, events, taken, applies>>
  BY DEF Refused, RebootNode, GetStatus, Reconcile, RestartManager
<1>2. op' \in [Ops -> Op] /\ \A q \in Ops : op'[q] \in {op[q], NoOp}
  <2>1. ASSUME NEW o \in Ops, Refused(o) PROVE op' \in [Ops -> Op] /\ \A q \in Ops : op'[q] \in {op[q], NoOp}
    BY <2>1, NoOpIsOp, OpMoves DEF Refused, OpEnd, ConfigInv
  <2>2. CASE RestartManager
    BY <2>2, NoOpIsOp DEF RestartManager
  <2>3. CASE RebootNode \/ GetStatus \/ Reconcile
    BY <2>3 DEF RebootNode, GetStatus, Reconcile, ConfigInv, ConfigTypeOK
  <2> QED BY <2>1, <2>2, <2>3
<1>3. Sent' /\ Took' /\ Alone' /\ \A q \in Ops : op'[q].pc = "idle" <=> op'[q].next = None
  BY <1>1, <1>2, OpEnds
<1>4. running' \subseteq Protocols /\ tracker' \in [Protocols -> {"on", "off", None}]
  BY DEF Refused, RebootNode, GetStatus, Reconcile, RestartManager, ConfigInv, ConfigTypeOK, Enabled
<1>5. status' \in [running : SUBSET Protocols, pending : BOOLEAN] \cup {None}
  <2>1. CASE GetStatus
    <3> DEFINE pending == running # Enabled(config)
    <3>1. status' = [running |-> running, pending |-> pending] /\ pending \in BOOLEAN /\ running \subseteq Protocols
      BY <2>1 DEF GetStatus, ConfigInv, ConfigTypeOK
    <3> HIDE DEF pending
    <3> QED BY <3>1
  <2>2. CASE ~ GetStatus
    <3>1. status' \in {status, None}
      BY <2>2 DEF Refused, RebootNode, Reconcile, RestartManager
    <3> QED BY <3>1 DEF ConfigInv, ConfigTypeOK
  <2> QED BY <2>1, <2>2
<1>6. ConfigTypeOK'
  BY <1>1, <1>2, <1>3, <1>4, <1>5 DEF ConfigInv, ConfigTypeOK
<1> QED BY <1>1, <1>3, <1>6 DEF ConfigInv, EventsTrue

\* Every step keeps the inductive invariant.
LEMMA ConfigNextStep ==
  ASSUME ConfigInv, [ConfigNext]_configVars
  PROVE  ConfigInv'
<1>1. CASE UNCHANGED configVars
  BY <1>1 DEF configVars, ConfigInv, ConfigTypeOK, Sent, Took, Alone, EventsTrue
<1>2. CASE ConfigNext
  BY <1>2, SetNodeProtocolStep, ApplyNodeConfigStep, ApplyProfileStep, ApplyStep, RecordStep, OtherConfigSteps
  DEF ConfigNext
<1> QED BY <1>1, <1>2

\* It holds before any request.
LEMMA ConfigInitially ==
  ASSUME ConfigInit
  PROVE  ConfigInv
<1>1. ConfigTypeOK
  BY NoOpIsOp, ConfigAssumption DEF ConfigInit, ConfigTypeOK, Enabled
<1> QED BY <1>1, NoOpIsOp DEF ConfigInit, ConfigInv, Sent, Took, Alone, EventsTrue

\* The inductive invariant holds in every reachable state.
LEMMA ConfigInvariant == ConfigSpec => []ConfigInv
<1>1. ConfigInit => ConfigInv
  BY ConfigInitially
<1>2. ConfigInv /\ [ConfigNext]_configVars => ConfigInv'
  BY ConfigNextStep
<1> QED BY <1>1, <1>2, PTL DEF ConfigSpec

\* Types: requests, probes and reboots keep every variable in its type
\* (SetNodeProtocol, ApplyNodeConfig, ApplyProfileToNode).
THEOREM ConfigTypeCorrect == ConfigSpec => []ConfigTypeOK
<1>1. ConfigInv => ConfigTypeOK
  BY DEF ConfigInv
<1> QED BY <1>1, ConfigInvariant, PTL

\* Whatever requests overlap, an audited protocol switch is one the node took
\* (protocolSwitches, auditProtocol).
THEOREM AuditedSwitchesTaken == ConfigSpec => []EventsTrue
<1>1. ConfigInv => EventsTrue
  BY DEF ConfigInv
<1> QED BY <1>1, ConfigInvariant, PTL

\* Whatever requests overlap, SetNodeProtocol changes no other protocol's block
\* than its own (SetNodeProtocol).
THEOREM SwitchTouchesNoOther == ConfigSpec => SwitchAlone
<1> DEFINE A == \A o \in Ops : Switched(o) =>
      \A p \in Protocols : config'.blocks[p] # config.blocks[p] => \E v \in Block : <<p, v>> \in op[o].switches
<1>1. ASSUME ConfigInv, [ConfigNext]_configVars PROVE [A]_configVars
  <2> SUFFICES ASSUME ConfigNext, NEW o \in Ops, Switched(o), NEW p \in Protocols,
                      config'.blocks[p] # config.blocks[p]
               PROVE  \E v \in Block : <<p, v>> \in op[o].switches
    BY <1>1
  <2>1. PICK q \in Ops, answered \in BOOLEAN : Apply(q, answered)
    BY DEF ConfigNext, Switched, SetNodeProtocol, ApplyNodeConfig, ApplyProfileToNode, Refused, Record,
           RebootNode, GetStatus, Reconcile, RestartManager
  <2>2. q = o
    <3>1. \A w \in Ops : w # q => op'[w] = op[w]
      BY <1>1, <2>1 DEF Apply, OpStep, OpEnd, ConfigInv, ConfigTypeOK
    <3> QED BY <3>1 DEF Switched
  <2>3. op[o].pc = "apply" /\ op[o].kind = "switch" /\ op[o].next \in Config
    BY <1>1 DEF Switched, ConfigInv, ConfigTypeOK, Op
  <2>4. op[o].next.blocks[p] # "absent"
    <3>1. config' = Merged(op[o].next)
      BY <2>1, <2>2 DEF Apply
    <3> QED BY <1>1, <2>3, <3>1, MergedIs DEF ConfigInv
  <2> QED BY <1>1, <2>3, <2>4 DEF ConfigInv, Alone
<1>2. ConfigSpec => [][A]_configVars
  BY <1>1, ConfigInvariant, PTL DEF ConfigSpec
<1> QED BY <1>2 DEF SwitchAlone

-----------------------------------------------------------------------------
(* The nodes' keys and certificates.                                       *)

\* What a ferry carries stays right while names are kept.
LEMMA CarriesKept ==
  ASSUME NEW r, NEW k, NEW l, Carries(r, k), NamesKept(k, l)
  PROVE  Carries(r, l)
BY DEF Carries, NamesKept

\* Without a request there is nothing to carry.
LEMMA NoFerryIs == NoFerry \in Ferry /\ \A k : Carries(NoFerry, k)
BY DEF NoFerry, Ferry, Carries

\* A step of the keys that keeps the names, and what ferries carry.
LEMMA KeyStep ==
  ASSUME KeysInv, NamesKept(ca, ca'), UNCHANGED listVars,
         ca' \in [CaNodes -> [id : Identity, rotation : Nat]], label' \in [CaNodes -> Labels],
         ferry' \in [Ferries -> Ferry], \A f \in Ferries : ferry'[f] = ferry[f] \/ Carries(ferry'[f], ca'),
         envelopes' \subseteq Identity, keys' \in 0..MaxKeys, relabels' \in 0..MaxRelabels
  PROVE  KeysInv'
<1>1. UNCHANGED <<issued, revoked, listing>>
  BY DEF listVars
<1>2. Ferrying'
  BY CarriesKept DEF KeysInv, Ferrying
<1>3. \A f \in Ferries : ferry'[f].pc # "idle" => ca'[ferry'[f].child].id # None
  BY <1>2 DEF Ferrying, Carries
<1>4. KeysTypeOK'
  BY <1>1, <1>3 DEF KeysInv, KeysTypeOK
<1>5. Listing' /\ RevokedShown'
  BY <1>1 DEF KeysInv, Listing, RevokedShown
<1> QED BY <1>2, <1>4, <1>5 DEF KeysInv

\* The same, where one ferry moves and the nodes stay as they are.
LEMMA FerryMoves ==
  ASSUME KeysInv, NEW f \in Ferries, NEW r \in Ferry, FerryStep(f, r), Carries(r, ca),
         UNCHANGED <<ca, label, envelopes, keys, relabels, listVars>>
  PROVE  KeysInv' /\ NamesKept(ca, ca')
<1>1. ferry' \in [Ferries -> Ferry] /\ \A g \in Ferries : ferry'[g] = ferry[g] \/ ferry'[g] = r
  BY DEF FerryStep, KeysInv, KeysTypeOK
<1>2. NamesKept(ca, ca')
  BY DEF NamesKept
<1> QED BY <1>1, <1>2, KeyStep DEF KeysInv, KeysTypeOK

\* A child begins a rotation.
LEMMA RekeyStep ==
  ASSUME KeysInv, NEW f \in Ferries, NEW c \in CaNodes, RekeyNode(f, c)
  PROVE  KeysInv' /\ NamesKept(ca, ca')
<1> DEFINE r == [NoFerry EXCEPT !.pc = "issuer", !.child = c, !.name = label[c], !.csr = keys']
           n == [ca[c] EXCEPT !.rotation = keys']
<1>1. /\ ca[c].id # None /\ keys < MaxKeys /\ keys' = keys + 1 /\ ca' = [ca EXCEPT ![c] = n]
      /\ FerryStep(f, r) /\ UNCHANGED <<label, envelopes, relabels, listVars>>
  BY DEF RekeyNode
<1>2. keys' \in 0..MaxKeys /\ keys' \in Nat
  <2>1. keys \in 0..MaxKeys /\ MaxKeys \in Nat
    BY KeysAssumption DEF KeysInv, KeysTypeOK
  <2> QED BY <1>1, <2>1
<1>3. n \in [id : Identity, rotation : Nat] /\ n.id = ca[c].id
  BY <1>2 DEF KeysInv, KeysTypeOK
<1>4. r \in Ferry /\ r.pc = "issuer" /\ r.child = c
  <2>1. label[c] \in Labels
    BY DEF KeysInv, KeysTypeOK
  <2> QED BY <1>2, <2>1 DEF NoFerry, Ferry
<1> HIDE DEF r, n
<1>5. /\ ca' \in [CaNodes -> [id : Identity, rotation : Nat]] /\ ca'[c] = n
      /\ \A d \in CaNodes : d # c => ca'[d] = ca[d]
  BY <1>1, <1>3 DEF KeysInv, KeysTypeOK
<1>6. NamesKept(ca, ca')
  BY <1>3, <1>5 DEF NamesKept
<1>7. ferry' \in [Ferries -> Ferry] /\ \A g \in Ferries : ferry'[g] = ferry[g] \/ ferry'[g] = r
  BY <1>1, <1>4 DEF FerryStep, KeysInv, KeysTypeOK
<1>8. Carries(r, ca')
  BY <1>1, <1>3, <1>4, <1>5 DEF Carries
<1> QED BY <1>1, <1>2, <1>5, <1>6, <1>7, <1>8, KeyStep DEF KeysInv, KeysTypeOK

\* The names of a node that has an identity.
LEMMA IdentityFields ==
  ASSUME KeysTypeOK, NEW c \in CaNodes, ca[c].id # None
  PROVE  ca[c].id \in Certified /\ ca[c].id.subject \in Subjects /\ ca[c].id.issuer \in Subjects
<1>1. ca[c].id \in Certified
  BY DEF KeysTypeOK, Identity
<1> QED BY <1>1 DEF Certified

\* The child's issuer is read, its parent found and asked to sign.
LEMMA FerrySteps ==
  ASSUME KeysInv, NEW f \in Ferries,
         ChildIssuerCN(f) \/ ResolveParentByCN(f) \/ SignSubordinateCSR(f) \/ FerryFails(f)
  PROVE  KeysInv' /\ NamesKept(ca, ca')
<1>1. ferry[f] \in Ferry /\ Carries(ferry[f], ca)
  BY DEF KeysInv, KeysTypeOK, Ferrying
<1>2. UNCHANGED <<ca, label, envelopes, keys, relabels, listVars>>
  BY DEF ChildIssuerCN, ResolveParentByCN, SignSubordinateCSR, FerryFails
<1>3. CASE FerryStep(f, NoFerry)
  BY <1>2, <1>3, NoFerryIs, FerryMoves
<1>4. CASE ChildIssuerCN(f)
  <2> DEFINE x == ca[ferry[f].child].id.issuer
             r == [ferry[f] EXCEPT !.pc = "parent", !.issuer = x]
  <2>1. ferry[f].pc = "issuer" /\ FerryStep(f, r)
    BY <1>4 DEF ChildIssuerCN
  <2>2. ferry[f].child \in CaNodes /\ ca[ferry[f].child].id # None
    BY <1>1, <2>1 DEF Carries
  <2>3. x \in Subjects
    BY <2>2, IdentityFields DEF KeysInv
  <2>4. r \in Ferry /\ r.pc = "parent" /\ r.child = ferry[f].child /\ r.issuer = x
    <3> HIDE DEF x
    <3> QED BY <1>1, <2>3 DEF Ferry
  <2> HIDE DEF r
  <2>5. Carries(r, ca)
    BY <2>2, <2>4 DEF Carries
  <2> QED BY <1>2, <2>1, <2>4, <2>5, FerryMoves
<1>5. CASE ResolveParentByCN(f) /\ ~ FerryStep(f, NoFerry)
  <2>1. PICK p \in CaNodes : /\ ferry[f].pc = "parent" /\ ca[p].id # None /\ ca[p].id.subject = ferry[f].issuer
                             /\ FerryStep(f, [ferry[f] EXCEPT !.pc = "sign", !.parent = p])
    BY <1>5 DEF ResolveParentByCN
  <2> DEFINE r == [ferry[f] EXCEPT !.pc = "sign", !.parent = p]
  <2>2. FerryStep(f, r)
    BY <2>1
  <2>3. r \in Ferry /\ r.pc = "sign" /\ r.child = ferry[f].child /\ r.parent = p
    BY <1>1 DEF Ferry
  <2> HIDE DEF r
  <2>4. Carries(r, ca)
    BY <1>1, <2>1, <2>3 DEF Carries
  <2> QED BY <1>2, <2>2, <2>3, <2>4, FerryMoves
<1>6. CASE SignSubordinateCSR(f)
  <2> DEFINE x == ca[ferry[f].parent].id.subject
             r == [ferry[f] EXCEPT !.pc = "complete", !.issuer = x]
  <2>1. ferry[f].pc = "sign" /\ FerryStep(f, r)
    BY <1>6 DEF SignSubordinateCSR
  <2>2. /\ ferry[f].child \in CaNodes /\ ca[ferry[f].child].id # None
        /\ ferry[f].parent \in CaNodes /\ ca[ferry[f].parent].id # None /\ x = ca[ferry[f].child].id.issuer
    BY <1>1, <2>1 DEF Carries
  <2>3. x \in Subjects
    BY <2>2, IdentityFields DEF KeysInv
  <2>4. r \in Ferry /\ r.pc = "complete" /\ r.child = ferry[f].child /\ r.issuer = x
    <3> HIDE DEF x
    <3> QED BY <1>1, <2>3 DEF Ferry
  <2> HIDE DEF r
  <2>5. Carries(r, ca)
    BY <2>2, <2>4 DEF Carries
  <2> QED BY <1>2, <2>1, <2>4, <2>5, FerryMoves
<1>7. CASE FerryFails(f)
  BY <1>3, <1>7 DEF FerryFails
<1> QED BY <1>3, <1>4, <1>5, <1>6, <1>7

\* The child takes the certificate, under the CA it was under.
LEMMA CompleteStep ==
  ASSUME KeysInv, NEW f \in Ferries, CompleteKeyRotation(f)
  PROVE  KeysInv' /\ NamesKept(ca, ca')
<1> DEFINE c == ferry[f].child
           n == [rotation |-> 0, id |-> [subject |-> ca[c].id.subject, issuer |-> ferry[f].issuer, key |-> ferry[f].csr]]
<1>1. /\ ferry[f].pc = "complete" /\ FerryStep(f, NoFerry) /\ UNCHANGED <<label, envelopes, keys, relabels, listVars>>
      /\ ca' = ca \/ ca' = [ca EXCEPT ![c] = n]
  BY DEF CompleteKeyRotation
<1>2. c \in CaNodes /\ ca[c].id # None /\ ferry[f].issuer = ca[c].id.issuer /\ ferry[f].csr \in Nat
  <2>1. Carries(ferry[f], ca) /\ ferry[f] \in Ferry
    BY DEF KeysInv, KeysTypeOK, Ferrying
  <2> QED BY <1>1, <2>1 DEF Carries, Ferry
<1>3. /\ n \in [id : Identity, rotation : Nat] /\ n.id # None
      /\ n.id.subject = ca[c].id.subject /\ n.id.issuer = ca[c].id.issuer
  <2>1. ca[c].id.subject \in Subjects /\ ca[c].id.issuer \in Subjects
    BY <1>2, IdentityFields DEF KeysInv
  <2>2. n.id \in Certified
    BY <1>2, <2>1 DEF Certified
  <2>3. n.id # None
    BY <2>2, KeysAssumption
  <2> QED BY <1>2, <2>2, <2>3 DEF Identity
<1> HIDE DEF n, c
<1>4. ca' \in [CaNodes -> [id : Identity, rotation : Nat]] /\ NamesKept(ca, ca')
  <2>1. CASE ca' = ca
    BY <2>1 DEF KeysInv, KeysTypeOK, NamesKept
  <2>2. CASE ca' = [ca EXCEPT ![c] = n]
    <3>1. /\ ca' \in [CaNodes -> [id : Identity, rotation : Nat]] /\ ca'[c] = n
          /\ \A d \in CaNodes : d # c => ca'[d] = ca[d]
      BY <1>2, <1>3, <2>2 DEF KeysInv, KeysTypeOK
    <3> QED BY <1>3, <3>1 DEF NamesKept
  <2> QED BY <1>1, <2>1, <2>2
<1>5. ferry' \in [Ferries -> Ferry] /\ \A g \in Ferries : ferry'[g] = ferry[g] \/ Carries(ferry'[g], ca')
  <2>1. ferry' \in [Ferries -> Ferry] /\ \A g \in Ferries : ferry'[g] = ferry[g] \/ ferry'[g] = NoFerry
    BY <1>1, NoFerryIs DEF FerryStep, KeysInv, KeysTypeOK
  <2> QED BY <2>1, NoFerryIs
<1> QED BY <1>1, <1>4, <1>5, KeyStep DEF KeysInv, KeysTypeOK

\* Renames, and keys exported and imported into fresh nodes.
LEMMA EscrowSteps ==
  ASSUME KeysInv, NEW c \in CaNodes,
         (\E name \in Labels : Relabel(c, name)) \/ ExportCAKey(c) \/ \E e \in envelopes : ImportCAKey(c, e)
  PROVE  KeysInv' /\ NamesKept(ca, ca')
<1>1. ferry' = ferry /\ keys' = keys /\ UNCHANGED listVars
  BY DEF Relabel, ExportCAKey, ImportCAKey
<1>2. /\ ca' \in [CaNodes -> [id : Identity, rotation : Nat]] /\ NamesKept(ca, ca')
      /\ label' \in [CaNodes -> Labels] /\ envelopes' \subseteq Identity /\ relabels' \in 0..MaxRelabels
  <2>1. ASSUME NEW name \in Labels, Relabel(c, name)
        PROVE  /\ ca' \in [CaNodes -> [id : Identity, rotation : Nat]] /\ NamesKept(ca, ca')
               /\ label' \in [CaNodes -> Labels] /\ envelopes' \subseteq Identity /\ relabels' \in 0..MaxRelabels
    <3>1. relabels \in 0..MaxRelabels /\ MaxRelabels \in Nat /\ relabels < MaxRelabels /\ relabels' = relabels + 1
      BY <2>1, KeysAssumption DEF Relabel, KeysInv, KeysTypeOK
    <3>2. relabels' \in 0..MaxRelabels
      BY <3>1
    <3> QED BY <2>1, <3>2 DEF Relabel, KeysInv, KeysTypeOK, NamesKept
  <2>2. CASE ExportCAKey(c)
    BY <2>2 DEF ExportCAKey, KeysInv, KeysTypeOK, NamesKept
  <2>3. ASSUME NEW e \in envelopes, ImportCAKey(c, e)
        PROVE  /\ ca' \in [CaNodes -> [id : Identity, rotation : Nat]] /\ NamesKept(ca, ca')
               /\ label' \in [CaNodes -> Labels] /\ envelopes' \subseteq Identity /\ relabels' \in 0..MaxRelabels
    <3> DEFINE n == [ca[c] EXCEPT !.id = e]
    <3>1. /\ ca[c].id = None /\ ca' = [ca EXCEPT ![c] = n] /\ UNCHANGED <<label, envelopes, relabels>>
      BY <2>3 DEF ImportCAKey
    <3>2. n \in [id : Identity, rotation : Nat]
      BY DEF KeysInv, KeysTypeOK
    <3> HIDE DEF n
    <3>3. ca' \in [CaNodes -> [id : Identity, rotation : Nat]] /\ \A d \in CaNodes : d # c => ca'[d] = ca[d]
      BY <3>1, <3>2 DEF KeysInv, KeysTypeOK
    <3> QED BY <3>1, <3>3 DEF KeysInv, KeysTypeOK, NamesKept
  <2> QED BY <2>1, <2>2, <2>3
<1> QED BY <1>1, <1>2, KeyStep DEF KeysInv, KeysTypeOK

\* What a listing merges shows every revocation it knew of.
LEMMA ListSteps ==
  ASSUME KeysInv, (\E s \in Serials : IssueOn(s) \/ RevokeOn(s)) \/ ListIssued \/ ListRevocations \/ Listed
  PROVE  KeysInv' /\ NamesKept(ca, ca')
<1>1. /\ UNCHANGED <<ca, label, ferry, envelopes, keys, relabels>>
      /\ issued' \subseteq Serials /\ revoked' \subseteq Serials /\ revoked \subseteq revoked'
  BY DEF IssueOn, RevokeOn, ListIssued, ListRevocations, Listed, caVars, KeysInv, KeysTypeOK
<1>2. NamesKept(ca, ca') /\ Ferrying'
  BY <1>1 DEF NamesKept, KeysInv, Ferrying
<1>3. PICK pc, before, listed, merged :
        /\ listing = [pc |-> pc, before |-> before, issued |-> listed, status |-> merged]
        /\ before \subseteq revoked
  BY DEF KeysInv, Listing
<1>4. /\ Listing' /\ RevokedShown'
      /\ listing'.pc \in {"idle", "issued", "done"} /\ listing'.before \subseteq Serials
      /\ listing'.issued \subseteq Serials /\ DOMAIN listing'.status \subseteq Serials
  <2>1. CASE listing' = listing
    BY <1>1, <1>3, <2>1 DEF KeysInv, KeysTypeOK, Listing, RevokedShown
  <2>2. CASE ListIssued
    <3>1. listing' = [pc |-> "issued", before |-> revoked, issued |-> issued, status |-> <<>>]
      BY <2>2 DEF ListIssued, NoListing
    <3>2. /\ listing'.pc = "issued" /\ listing'.before = revoked /\ listing'.issued = issued /\ listing'.status = <<>>
      BY <3>1
    <3>3. Listing'
      BY <1>1, <3>1 DEF Listing
    <3> QED BY <3>2, <3>3 DEF RevokedShown, KeysInv, KeysTypeOK
  <2>3. CASE ListRevocations
    <3> DEFINE st == MergedStatus(listing.issued)
    <3>1. listing' = [pc |-> "done", before |-> before, issued |-> listed, status |-> st]
      BY <1>3, <2>3 DEF ListRevocations
    <3>2. DOMAIN st \subseteq Serials /\ \A s \in revoked : s \in DOMAIN st /\ st[s] = "REVOKED"
      BY DEF MergedStatus, KeysInv, KeysTypeOK
    <3> HIDE DEF st
    <3>3. listing'.pc = "done" /\ listing'.before = before /\ listing'.issued = listed /\ listing'.status = st
      BY <3>1
    <3>4. before \subseteq Serials /\ listed \subseteq Serials
      BY <1>3 DEF KeysInv, KeysTypeOK
    <3>5. Listing'
      BY <1>1, <1>3, <3>1 DEF Listing
    <3> QED BY <1>3, <3>2, <3>3, <3>4, <3>5 DEF RevokedShown
  <2>4. CASE Listed
    <3>1. listing' = [pc |-> "idle", before |-> {}, issued |-> {}, status |-> <<>>]
      BY <2>4 DEF Listed, NoListing
    <3>2. Listing'
      <4> DEFINE none == {}
      <4>1. listing' = [pc |-> "idle", before |-> none, issued |-> none, status |-> <<>>] /\ none \subseteq revoked'
        BY <3>1
      <4> HIDE DEF none
      <4> QED BY <4>1 DEF Listing
    <3>3. listing'.pc = "idle" /\ listing'.before = {} /\ listing'.issued = {} /\ listing'.status = <<>>
      BY <3>1
    <3> QED BY <3>2, <3>3 DEF RevokedShown
  <2> QED BY <2>1, <2>2, <2>3, <2>4 DEF IssueOn, RevokeOn
<1>5. KeysTypeOK'
  BY <1>1, <1>4 DEF KeysInv, KeysTypeOK
<1> QED BY <1>2, <1>4, <1>5 DEF KeysInv

\* Every step keeps the inductive invariant and the names.
LEMMA KeysNextStep ==
  ASSUME KeysInv, [KeysNext]_keyVars
  PROVE  KeysInv' /\ NamesKept(ca, ca')
<1>1. CASE UNCHANGED keyVars
  <2>1. UNCHANGED <<ca, label, ferry, envelopes, keys, relabels, issued, revoked, listing>>
    BY <1>1 DEF keyVars, caVars, listVars
  <2> QED BY <2>1 DEF KeysInv, KeysTypeOK, Ferrying, Listing, RevokedShown, NamesKept
<1>2. CASE KeysNext
  BY <1>2, RekeyStep, FerrySteps, CompleteStep, EscrowSteps, ListSteps DEF KeysNext
<1> QED BY <1>1, <1>2

\* It holds of the nodes as they are found.
LEMMA KeysInitially ==
  ASSUME KeysInit
  PROVE  KeysInv
<1>1. ca \in [CaNodes -> [id : Identity, rotation : Nat]]
  <2> DEFINE Id(c) == IF SubjectOf[c] = None THEN None
                      ELSE [subject |-> SubjectOf[c], issuer |-> IssuerOf[c], key |-> 0]
  <2>1. \A c \in CaNodes : Id(c) \in Identity
    BY KeysAssumption DEF Identity, Certified
  <2>2. ca = [c \in CaNodes |-> [rotation |-> 0, id |-> Id(c)]]
    BY DEF KeysInit
  <2> HIDE DEF Id
  <2> QED BY <2>1, <2>2
<1>2. ferry \in [Ferries -> Ferry] /\ \A f \in Ferries : ferry[f] = NoFerry
  BY NoFerryIs DEF KeysInit
<1>3. Ferrying
  BY <1>2, NoFerryIs DEF Ferrying
<1>4. listing = [pc |-> "idle", before |-> {}, issued |-> {}, status |-> <<>>]
  BY DEF KeysInit, NoListing
<1>5. Listing
  <2> DEFINE none == {}
  <2>1. listing = [pc |-> "idle", before |-> none, issued |-> none, status |-> <<>>] /\ none \subseteq revoked
    BY <1>4
  <2> HIDE DEF none
  <2> QED BY <2>1 DEF Listing
<1>6. listing.pc = "idle" /\ listing.before = {} /\ listing.issued = {} /\ listing.status = <<>>
  BY <1>4
<1>7. keys \in 0..MaxKeys /\ relabels \in 0..MaxRelabels
  BY KeysAssumption DEF KeysInit
<1>8. \A f \in Ferries : ferry[f].pc = "idle"
  BY <1>2 DEF NoFerry
<1>9. KeysTypeOK
  <2>1. label \in [CaNodes -> Labels] /\ envelopes = {} /\ issued = {} /\ revoked = {}
    BY KeysAssumption DEF KeysInit
  <2>2. DOMAIN listing.status \subseteq Serials
    BY <1>6
  <2> QED BY <1>1, <1>2, <1>6, <1>7, <1>8, <2>1, <2>2 DEF KeysTypeOK
<1> QED BY <1>3, <1>5, <1>6, <1>9 DEF KeysInv, RevokedShown

\* The inductive invariant holds in every reachable state.
LEMMA KeysInvariant == KeysSpec => []KeysInv
<1>1. KeysInit => KeysInv
  BY KeysInitially
<1>2. KeysInv /\ [KeysNext]_keyVars => KeysInv'
  BY KeysNextStep
<1> QED BY <1>1, <1>2, PTL DEF KeysSpec

\* Types: re-keys, escrow and listings keep every variable in its type, and a
\* ferry's child has an identity (RekeyNode, ExportCAKey, ImportCAKey).
THEOREM KeysTypeCorrect == KeysSpec => []KeysTypeOK
<1>1. KeysInv => KeysTypeOK
  BY DEF KeysInv
<1> QED BY <1>1, KeysInvariant, PTL

\* A certificate revoked before a listing began is listed as revoked, whatever
\* is issued or revoked between its two questions (certsForNode).
THEOREM RevocationsListed == KeysSpec => []RevokedShown
<1>1. KeysInv => RevokedShown
  BY DEF KeysInv
<1> QED BY <1>1, KeysInvariant, PTL

\* However re-keys, renames and restored keys overlap, a node stays under the
\* CA it was under (RekeyNode, CompleteKeyRotation).
THEOREM RekeyKeepsIssuer == KeysSpec => IssuerKept
<1> DEFINE A == \A c \in CaNodes : ca[c].id # None => ca'[c].id.issuer = ca[c].id.issuer
<1>1. ASSUME KeysInv, [KeysNext]_keyVars PROVE [A]_keyVars
  BY <1>1, KeysNextStep DEF NamesKept
<1>2. KeysSpec => [][A]_keyVars
  BY <1>1, KeysInvariant, PTL DEF KeysSpec
<1> QED BY <1>2 DEF IssuerKept

-----------------------------------------------------------------------------
(* The node inventory: steps that leave a part of it alone.                *)

\* Machines as they were.
LEMMA WorldFrame ==
  ASSUME World, UNCHANGED <<machine, hijacked, faults, renames>>
  PROVE  World'
BY DEF World

\* The folders as they were.
LEMMA FilesFrame ==
  ASSUME Files, UNCHANGED folder
  PROVE  Files'
BY DEF Files

\* The nodes as they were.
LEMMA TablesFrame ==
  ASSUME Tables, UNCHANGED <<nodes, spans>>
  PROVE  Tables' /\ Ids' = Ids
BY DEF Tables, Unique, NamesTraced, Inventory, Ids

\* The adoptions as they were.
LEMMA AdoptionsFrame ==
  ASSUME Adoptions, UNCHANGED <<adopt, waiting, answer>>
  PROVE  Adoptions'
BY DEF Adoptions

\* What a request may decide stays so while nodes are handed out and get
\* certificates, and no row goes or changes its kind.
LEMMA AskingKept ==
  ASSUME NEW r, NEW ids, NEW ids2, NEW rows, NEW rows2, NEW f, NEW f2, Asking(r, ids, rows, f),
         ids \subseteq ids2, \A e \in Enrolls : f[e] \subseteq f2[e],
         \A e \in Enrolls : rows[e] # None => rows2[e] # None /\ rows2[e].kind = rows[e].kind
  PROVE  Asking(r, ids2, rows2, f2)
<1> USE DEF Asking, Ferried
<1>1. r.pc \notin {"idle", "remove", "aside"} =>
        r.enr \in Enrolls /\ rows2[r.enr] # None /\ rows2[r.enr].kind = rows[r.enr].kind /\ f[r.enr] \subseteq f2[r.enr]
  OBVIOUS
<1>2. r.pc = "write" => Admits(r.row, r.enr, ids2, f2)
  BY <1>1 DEF Admits
<1> QED BY <1>1, <1>2

\* Requests and rows while more nodes are handed out.
LEMMA RequestsFrame ==
  ASSUME Requests, Rows, UNCHANGED <<request, enrollments, ferried>>, Ids \subseteq Ids'
  PROVE  Requests' /\ Rows'
<1>1. Requests'
  BY AskingKept DEF Requests
<1>2. Rows'
  BY DEF Rows, Admits
<1> QED BY <1>1, <1>2

\* What a machine's console shows is genuine.
LEMMA ConsoleGenuine ==
  ASSUME World, NEW m \in Machines
  PROVE  Console(m) \in Certificate /\ Genuine(Console(m)) /\ Presents(m) \in Certificate
<1>1. machine[m].boot \in Nat
  BY DEF World, Machine
<1>2. Console(m) \in Certificate /\ Console(m).of = m
  BY <1>1 DEF Console, Certificate
<1>3. Presents(m) \in Certificate
  BY <1>2 DEF Presents, Certificate
<1> QED BY <1>2, <1>3, NodesAssumption DEF Genuine

\* Nobody asks or adopts.
LEMMA Nobody ==
  /\ NoAdopt \in Adopt /\ Adopting(NoAdopt) /\ Awaiting(NoAdopt, None, None)
  /\ NoRequest \in Request /\ \A ids, rows, f : Asking(NoRequest, ids, rows, f)
  /\ NoFolder \in Folder /\ NoFolder.pin = None
<1>1. NoAdopt \in Adopt /\ NoAdopt.pc = "idle"
  BY DEF NoAdopt, Adopt
<1>2. NoRequest \in Request /\ NoRequest.pc = "idle"
  BY DEF NoRequest, Request
<1>3. NoFolder \in Folder /\ NoFolder.pin = None
  BY DEF NoFolder, Folder
<1>4. Adopting(NoAdopt) /\ Awaiting(NoAdopt, None, None)
  BY <1>1 DEF Adopting, Awaiting
<1>5. ASSUME NEW ids, NEW rows, NEW f PROVE Asking(NoRequest, ids, rows, f)
  BY <1>2 DEF Asking, Ferried
<1> QED BY <1>1, <1>2, <1>3, <1>4, <1>5

-----------------------------------------------------------------------------
(* The tables.                                                             *)

\* The history names every node of the inventory.
LEMMA InventoryTraced ==
  ASSUME Tables
  PROVE  Inventory \subseteq Ids /\ Inventory \subseteq NodeIds
<1>1. ASSUME NEW i \in Inventory PROVE i \in Ids
  <2>1. [id |-> i, name |-> nodes[i].name, until |-> 0] \in spans
    BY DEF Tables, NamesTraced
  <2> QED BY <2>1 DEF Ids
<1> QED BY <1>1 DEF Inventory

\* The fields of a node.
LEMMA NodeFields ==
  ASSUME NEW n \in Node
  PROVE  n # None /\ n.name \in Names /\ n.at \in Machines /\ n.dir \in Names /\ n.chain \in Names \cup {None}
<1>1. n # None
  BY NodeRowsAssumption
<1> QED BY <1>1 DEF Node

\* AddNode keeps names unique and their history whole, whatever copy it adds.
LEMMA AddNodeKeeps ==
  ASSUME Tables, NEW id \in NodeIds, NEW n \in Node, AddNode(id, n)
  PROVE  /\ Tables' /\ Ids \subseteq Ids'
         /\ id \notin Inventory => \E i \in NodeIds : nodes'[i] # None /\ nodes'[i].name = n.name
<1>0. n # None /\ n.name \in Names
  BY NodeFields
<1>1. CASE Named(n.name) # {}
  <2>1. nodes' = [i \in NodeIds |-> IF i \in Named(n.name) THEN n ELSE nodes[i]] /\ spans' = spans
    BY <1>1 DEF AddNode
  <2>2. nodes' \in [NodeIds -> Node \cup {None}]
    BY <2>1 DEF Tables
  <2>3. \A i \in NodeIds : /\ nodes'[i] # None <=> nodes[i] # None
                           /\ nodes[i] # None => nodes'[i].name = nodes[i].name
    BY <1>0, <2>1 DEF Named, Inventory
  <2>4. Inventory' = Inventory
    BY <2>3 DEF Inventory
  <2>5. Unique'
    BY <2>3, <2>4 DEF Tables, Unique, Inventory
  <2>6. NamesTraced'
    BY <2>1, <2>3, <2>4 DEF Tables, NamesTraced, Inventory
  <2>7. \E i \in NodeIds : nodes'[i] # None /\ nodes'[i].name = n.name
    BY <1>0, <1>1, <2>1 DEF Named, Inventory
  <2> QED BY <2>1, <2>2, <2>5, <2>6, <2>7 DEF Tables, Ids
<1>2. CASE Named(n.name) = {} /\ id \in Inventory
  <2>1. UNCHANGED <<nodes, spans>>
    BY <1>2 DEF AddNode
  <2> QED BY <1>2, <2>1, TablesFrame
<1>3. CASE Named(n.name) = {} /\ id \notin Inventory
  <2> DEFINE span == [id |-> id, name |-> n.name, until |-> 0]
  <2>1. nodes' = [nodes EXCEPT ![id] = n] /\ spans' = spans \cup {span}
    BY <1>3 DEF AddNode
  <2>2. nodes' \in [NodeIds -> Node \cup {None}] /\ nodes'[id] = n /\ \A i \in NodeIds : i # id => nodes'[i] = nodes[i]
    BY <2>1 DEF Tables
  <2>3. span \in Span /\ span.id = id /\ span.until = 0
    BY <1>0 DEF Span
  <2>4. Inventory' = Inventory \cup {id}
    BY <1>0, <2>2 DEF Inventory
  <2>5. Unique'
    BY <1>3, <2>2, <2>4 DEF Tables, Unique, Named, Inventory
  <2>6. \A s \in spans : s.until = 0 => s.id # id
    BY <1>3 DEF Tables, NamesTraced
  <2>7. NamesTraced'
    <3>1. ASSUME NEW i \in Inventory'
          PROVE  {s \in spans' : s.id = i /\ s.until = 0} = {[id |-> i, name |-> nodes'[i].name, until |-> 0]}
      <4>1. CASE i = id
        BY <2>1, <2>2, <2>3, <2>6, <4>1
      <4>2. CASE i # id
        <5>1. i \in Inventory /\ nodes'[i] = nodes[i]
          BY <2>2, <2>4, <4>2 DEF Inventory
        <5>2. {s \in spans' : s.id = i /\ s.until = 0} = {s \in spans : s.id = i /\ s.until = 0}
          BY <2>1, <2>3, <4>2
        <5> QED BY <5>1, <5>2 DEF Tables, NamesTraced
      <4> QED BY <4>1, <4>2
    <3>2. \A s \in spans' : s.until = 0 => s.id \in Inventory'
      BY <2>1, <2>3, <2>4 DEF Tables, NamesTraced
    <3> QED BY <3>1, <3>2 DEF NamesTraced
  <2>8. IsFiniteSet(spans')
    <3> HIDE DEF span
    <3> QED BY <2>1, FS_AddElement DEF Tables
  <2>9. spans' \subseteq Span /\ Ids \subseteq Ids'
    BY <2>1, <2>3 DEF Tables, Ids
  <2> QED BY <1>0, <2>2, <2>5, <2>7, <2>8, <2>9 DEF Tables
<1> QED BY <1>1, <1>2, <1>3

\* Closing a name span closes that one alone.
LEMMA ClosedIs ==
  ASSUME Tables, NEW id
  PROVE  /\ Closed(id) \subseteq Span /\ IsFiniteSet(Closed(id))
         /\ \A s : s \in Closed(id) /\ s.until = 0 <=> s \in spans /\ s.until = 0 /\ s.id # id
         /\ \A s \in spans : \E t \in Closed(id) : t.id = s.id
<1> DEFINE at == 1 + Cardinality({s \in spans : s.until # 0})
           New(s) == IF s.id = id /\ s.until = 0 THEN [s EXCEPT !.until = at] ELSE s
<1>1. Closed(id) = {New(s) : s \in spans}
  BY DEF Closed
<1>2. at \in Nat /\ at # 0
  <2>1. IsFiniteSet({s \in spans : s.until # 0})
    BY FS_Subset DEF Tables
  <2>2. Cardinality({s \in spans : s.until # 0}) \in Nat
    BY <2>1, FS_CardinalityType
  <2> QED BY <2>2
<1> HIDE DEF at
<1>3. \A s \in spans : /\ s \in Span /\ New(s) \in Span /\ New(s).id = s.id
                       /\ s.id = id /\ s.until = 0 => New(s).until = at
                       /\ ~ (s.id = id /\ s.until = 0) => New(s) = s
  BY <1>2 DEF Tables, Span
<1> HIDE DEF New
<1>4. IsFiniteSet(Closed(id))
  <2> DEFINE f == [s \in spans |-> New(s)]
  <2>1. f \in Surjection(spans, Closed(id))
    BY <1>1 DEF Surjection
  <2> HIDE DEF f
  <2> QED BY <2>1, FS_Surjection DEF Tables
<1>5. \A s : s \in Closed(id) /\ s.until = 0 <=> s \in spans /\ s.until = 0 /\ s.id # id
  BY <1>1, <1>2, <1>3
<1>6. Closed(id) \subseteq Span
  BY <1>1, <1>3
<1>7. \A s \in spans : \E t \in Closed(id) : t.id = s.id
  BY <1>1, <1>3
<1> QED BY <1>4, <1>5, <1>6, <1>7

\* A rename closes one name and opens the other.
LEMMA RenameKeeps ==
  ASSUME Tables, NEW id \in NodeIds, NEW name \in Names, id \in Inventory, Named(name) = {},
         nodes' = [nodes EXCEPT ![id].name = name],
         spans' = Closed(id) \cup {[id |-> id, name |-> name, until |-> 0]}
  PROVE  Tables' /\ Ids \subseteq Ids'
<1> DEFINE span == [id |-> id, name |-> name, until |-> 0]
           n == [nodes[id] EXCEPT !.name = name]
<1>1. nodes[id] \in Node
  BY DEF Tables, Inventory
<1>2. n \in Node /\ n.name = name
  BY <1>1 DEF Node
<1>3. span \in Span /\ span.id = id /\ span.until = 0
  BY DEF Span
<1>4. nodes' = [nodes EXCEPT ![id] = n] /\ spans' = Closed(id) \cup {span} /\ n # None
  BY <1>2, NodeFields
<1> HIDE DEF n
<1>5. nodes' \in [NodeIds -> Node \cup {None}] /\ nodes'[id] = n /\ \A i \in NodeIds : i # id => nodes'[i] = nodes[i]
  BY <1>2, <1>4 DEF Tables
<1>6. Inventory' = Inventory
  BY <1>4, <1>5 DEF Inventory
<1>7. Unique'
  BY <1>2, <1>5, <1>6 DEF Tables, Unique, Named, Inventory
<1>8. NamesTraced'
  <2>1. ASSUME NEW i \in Inventory
        PROVE  {s \in spans' : s.id = i /\ s.until = 0} = {[id |-> i, name |-> nodes'[i].name, until |-> 0]}
    <3>1. CASE i = id
      <4>1. \A s \in Closed(id) : s.until = 0 => s.id # id
        BY ClosedIs
      <4> QED BY <1>2, <1>3, <1>4, <1>5, <3>1, <4>1
    <3>2. CASE i # id
      <4>1. nodes'[i] = nodes[i]
        BY <1>5, <3>2 DEF Inventory
      <4>2. {s \in spans' : s.id = i /\ s.until = 0} = {s \in spans : s.id = i /\ s.until = 0}
        <5>1. \A s : s \in Closed(id) /\ s.until = 0 <=> s \in spans /\ s.until = 0 /\ s.id # id
          BY ClosedIs
        <5> HIDE DEF span
        <5> QED BY <1>3, <1>4, <3>2, <5>1
      <4> QED BY <4>1, <4>2 DEF Tables, NamesTraced
    <3> QED BY <3>1, <3>2
  <2>2. \A s \in spans' : s.until = 0 => s.id \in Inventory
    BY <1>3, <1>4, ClosedIs DEF Tables, NamesTraced
  <2> QED BY <1>6, <2>1, <2>2 DEF NamesTraced
<1>9. IsFiniteSet(spans') /\ spans' \subseteq Span
  <2> HIDE DEF span
  <2> QED BY <1>3, <1>4, ClosedIs, FS_AddElement
<1>10. Ids \subseteq Ids'
  BY <1>4, ClosedIs DEF Ids
<1> QED BY <1>5, <1>7, <1>8, <1>9, <1>10 DEF Tables

\* A removal closes the name.
LEMMA DeleteKeeps ==
  ASSUME Tables, NEW id \in NodeIds, id \in Inventory, nodes' = [nodes EXCEPT ![id] = None], spans' = Closed(id)
  PROVE  Tables' /\ Ids \subseteq Ids'
<1>1. nodes' \in [NodeIds -> Node \cup {None}] /\ nodes'[id] = None /\ \A i \in NodeIds : i # id => nodes'[i] = nodes[i]
  BY DEF Tables
<1>2. Inventory' = Inventory \ {id}
  BY <1>1 DEF Inventory
<1>3. Unique'
  BY <1>1, <1>2 DEF Tables, Unique, Inventory
<1>4. \A s : s \in spans' /\ s.until = 0 <=> s \in spans /\ s.until = 0 /\ s.id # id
  BY ClosedIs
<1>5. NamesTraced'
  <2>1. ASSUME NEW i \in Inventory'
        PROVE  {s \in spans' : s.id = i /\ s.until = 0} = {[id |-> i, name |-> nodes'[i].name, until |-> 0]}
    <3>1. i \in Inventory /\ i # id /\ nodes'[i] = nodes[i]
      BY <1>1, <1>2 DEF Inventory
    <3>2. {s \in spans' : s.id = i /\ s.until = 0} = {s \in spans : s.id = i /\ s.until = 0}
      BY <1>4, <3>1
    <3> QED BY <3>1, <3>2 DEF Tables, NamesTraced
  <2>2. \A s \in spans' : s.until = 0 => s.id \in Inventory'
    BY <1>2, <1>4 DEF Tables, NamesTraced
  <2> QED BY <2>1, <2>2 DEF NamesTraced
<1>6. Ids \subseteq Ids'
  BY ClosedIs DEF Ids
<1> QED BY <1>1, <1>3, <1>5, <1>6, ClosedIs DEF Tables

-----------------------------------------------------------------------------
(* Adoption.                                                               *)

\* One adoption moves.
LEMMA AdoptionMoves ==
  ASSUME Adoptions, NEW a \in Adopts, NEW s \in Adopt, AdoptStep(a, s),
         NEW w \in Certificate \cup {None}, NEW x \in {None, "match", "mismatch"},
         waiting' = [waiting EXCEPT ![a] = w], answer' = [answer EXCEPT ![a] = x],
         Adopting(s), Awaiting(s, w, x)
  PROVE  Adoptions'
<1>1. /\ adopt' \in [Adopts -> Adopt] /\ adopt'[a] = s /\ waiting' \in [Adopts -> Certificate \cup {None}]
      /\ answer' \in [Adopts -> {None, "match", "mismatch"}] /\ waiting'[a] = w /\ answer'[a] = x
      /\ \A b \in Adopts : b # a => adopt'[b] = adopt[b] /\ waiting'[b] = waiting[b] /\ answer'[b] = answer[b]
  BY DEF Adoptions, AdoptStep
<1> QED BY <1>1 DEF Adoptions

\* One that asks the operator nothing, before or after.
LEMMA AdoptionGoesOn ==
  ASSUME Adoptions, NEW a \in Adopts, NEW s \in Adopt, AdoptStep(a, s), UNCHANGED confirms,
         adopt[a].pc # "confirm", s.pc # "confirm", Adopting(s)
  PROVE  Adoptions'
<1>1. waiting[a] = None /\ answer[a] = None
  BY DEF Adoptions, Awaiting
<1>2. waiting' = [waiting EXCEPT ![a] = None] /\ answer' = [answer EXCEPT ![a] = None]
  BY <1>1 DEF Adoptions, confirms
<1>3. Awaiting(s, None, None)
  BY DEF Awaiting
<1> QED BY <1>2, <1>3, AdoptionMoves

\* The same, where nothing but the place it is at changes, or it ends.
LEMMA AdoptionGoesTo ==
  ASSUME Adoptions, NEW a \in Adopts, UNCHANGED confirms, adopt[a].pc \notin {"idle", "confirm"},
         NEW pc \in {"probe", "apply", "await", "dial", "ceremony", "relay", "chain", "register"},
         AdoptGoto(a, pc) \/ AdoptFail(a)
  PROVE  Adoptions'
<1>1. CASE AdoptFail(a)
  BY <1>1, Nobody, AdoptionGoesOn DEF AdoptFail, NoAdopt
<1>2. CASE AdoptGoto(a, pc)
  <2> DEFINE s == [adopt[a] EXCEPT !.pc = pc]
  <2>1. AdoptStep(a, s)
    BY <1>2 DEF AdoptGoto, AdoptStep
  <2>2. adopt[a] \in Adopt /\ adopt[a].at \in Machines /\ adopt[a].name \in Names
    BY DEF Adoptions, Adopting
  <2>3. s \in Adopt /\ s.pc = pc /\ s.at = adopt[a].at /\ s.name = adopt[a].name
    BY <2>2 DEF Adopt
  <2> HIDE DEF s
  <2>4. Adopting(s) /\ s.pc # "confirm"
    BY <2>2, <2>3 DEF Adopting
  <2> QED BY <2>1, <2>3, <2>4, AdoptionGoesOn
<1> QED BY <1>1, <1>2

\* Everything an adoption works on, past its start.
LEMMA AdoptionHas ==
  ASSUME NodesInv, NEW a \in Adopts, adopt[a].pc # "idle"
  PROVE  /\ adopt[a] \in Adopt /\ adopt[a].at \in Machines /\ adopt[a].name \in Names
         /\ folder[adopt[a].name] \in Folder /\ machine[adopt[a].at] \in Machine
BY DEF NodesInv, Adoptions, Adopting, Files, World

\* A file of one folder is written.
LEMMA FolderWritten ==
  ASSUME Files, NEW name \in Names, NEW new \in Folder, folder' = [folder EXCEPT ![name] = new],
         new.pin = folder[name].pin \/ new.pin = None \/ Genuine(new.pin)
  PROVE  Files'
<1>1. folder' \in [Names -> Folder] /\ folder'[name] = new /\ \A n \in Names : n # name => folder'[n] = folder[n]
  BY DEF Files
<1> QED BY <1>1 DEF Files

\* Everything but the adoptions and the folders as it was.
LEMMA AdoptionOnly ==
  ASSUME NodesInv, Adoptions', Files', UNCHANGED <<machine, hijacked, tables, request, ferried, bounds>>
  PROVE  NodesInv'
<1>1. UNCHANGED <<machine, hijacked, faults, renames, nodes, spans, enrollments, request, ferried>>
  BY DEF tables, bounds
<1>2. World' /\ Tables' /\ Ids' = Ids
  BY <1>1, WorldFrame, TablesFrame DEF NodesInv
<1>3. Requests' /\ Rows'
  BY <1>1, <1>2, RequestsFrame DEF NodesInv
<1> QED BY <1>2, <1>3 DEF NodesInv

\* An adoption begins.
LEMMA AdoptNodeStep ==
  ASSUME NodesInv, NEW a \in Adopts, NEW m \in Machines, NEW name \in Names, NEW root \in BOOLEAN,
         AdoptNode(a, m, name, root)
  PROVE  NodesInv'
<1> DEFINE f == folder[name]
           admin == IF Stored(f) THEN f.cert ELSE None
           pc == IF Stored(f) THEN "probe" ELSE "mint"
           s == [NoAdopt EXCEPT !.at = m, !.name = name, !.pin = Console(m), !.root = root, !.admin = admin, !.pc = pc]
<1>1. /\ adopt[a].pc = "idle" /\ AdoptStep(a, s)
      /\ UNCHANGED <<machine, hijacked, folder, tables, request, confirms, ferried, bounds>>
  BY DEF AdoptNode
<1>2. admin \in Admins \cup {None} /\ pc \in {"probe", "mint"} /\ Console(m) \in Certificate
  BY ConsoleGenuine DEF NodesInv, Files, Folder
<1>3. s \in Adopt /\ s.pc = pc /\ s.at = m /\ s.name = name
  <2> HIDE DEF admin, pc
  <2> QED BY <1>2 DEF NoAdopt, Adopt
<1> HIDE DEF s, admin, pc
<1>4. Adopting(s) /\ s.pc # "confirm"
  BY <1>2, <1>3 DEF Adopting
<1>5. Adoptions'
  BY <1>1, <1>3, <1>4, AdoptionGoesOn DEF NodesInv
<1>6. Files'
  BY <1>1, FilesFrame DEF NodesInv
<1> QED BY <1>1, <1>5, <1>6, AdoptionOnly

\* The admin credential is minted, its certificate written, then its key.
LEMMA MintSteps ==
  ASSUME NodesInv, NEW a \in Adopts, MintAdmin(a) \/ WriteKey(a)
  PROVE  NodesInv'
<1>1. /\ adopt[a].pc \in {"mint", "key"} /\ UNCHANGED <<machine, hijacked, tables, request, confirms, ferried, bounds>>
  BY DEF MintAdmin, WriteKey
<1>2. /\ adopt[a] \in Adopt /\ adopt[a].at \in Machines /\ adopt[a].name \in Names /\ folder[adopt[a].name] \in Folder
  BY <1>1, AdoptionHas
<1> DEFINE name == adopt[a].name
<1>3. CASE MintAdmin(a)
  <2> DEFINE x == CHOOSE y \in Admins : y \notin Minted
             s == [adopt[a] EXCEPT !.pc = "key", !.admin = x]
             new == [folder[name] EXCEPT !.cert = x]
  <2>1. folder' = [folder EXCEPT ![name] = new] /\ AdoptStep(a, s)
    BY <1>3 DEF MintAdmin
  <2>2. x \in Admins
    <3>1. \E y \in Admins : y \notin Minted
      BY <1>3 DEF MintAdmin
    <3> QED BY <3>1
  <2> HIDE DEF x
  <2>3. s \in Adopt /\ s.pc = "key" /\ s.at = adopt[a].at /\ s.name = adopt[a].name
    BY <1>2, <2>2 DEF Adopt
  <2>4. new \in Folder /\ new.pin = folder[name].pin
    BY <1>2, <2>2 DEF Folder
  <2> HIDE DEF s, new
  <2>5. Adopting(s)
    BY <1>2, <2>3 DEF Adopting
  <2>6. Adoptions'
    BY <1>1, <2>1, <2>3, <2>5, AdoptionGoesOn DEF NodesInv
  <2>7. Files'
    BY <1>2, <2>1, <2>4, FolderWritten DEF NodesInv
  <2> QED BY <1>1, <2>6, <2>7, AdoptionOnly
<1>4. CASE WriteKey(a)
  <2> DEFINE new == [folder[name] EXCEPT !.key = adopt[a].admin]
  <2>1. \/ folder' = [folder EXCEPT ![name] = new] /\ AdoptGoto(a, "probe")
        \/ folder' = folder /\ AdoptFail(a)
    BY <1>4 DEF WriteKey
  <2>2. new \in Folder /\ new.pin = folder[name].pin
    <3>1. adopt[a].admin \in Admins \cup {None}
      BY <1>2 DEF Adopt
    <3> QED BY <1>2, <3>1 DEF Folder
  <2> HIDE DEF new
  <2>3. Adoptions'
    BY <1>1, <2>1, AdoptionGoesTo DEF NodesInv
  <2>4. Files'
    BY <1>2, <2>1, <2>2, FolderWritten, FilesFrame DEF NodesInv
  <2> QED BY <1>1, <2>3, <2>4, AdoptionOnly
<1> QED BY <1>3, <1>4

\* The machine is probed, dialed and its ceremony relayed.
LEMMA WatchSteps ==
  ASSUME NodesInv, NEW a \in Adopts, Probe(a) \/ AwaitRunningNode(a) \/ RelayCeremony(a)
  PROVE  NodesInv'
<1>1. /\ adopt[a].pc \in {"probe", "dial", "relay"}
      /\ UNCHANGED <<machine, hijacked, folder, tables, request, confirms, ferried, bounds>>
  BY DEF Probe, AwaitRunningNode, RelayCeremony
<1>2. adopt[a] \in Adopt /\ adopt[a].at \in Machines /\ adopt[a].name \in Names /\ machine[adopt[a].at] \in Machine
  BY <1>1, AdoptionHas
<1>3. Adoptions'
  <2> DEFINE s == [adopt[a] EXCEPT !.pc = "await", !.ca = machine[adopt[a].at].ca]
  <2>1. CASE AdoptStep(a, s)
    <3>1. s \in Adopt /\ s.pc = "await" /\ s.at = adopt[a].at /\ s.name = adopt[a].name
      <4>1. machine[adopt[a].at].ca \in BOOLEAN
        BY <1>2 DEF Machine
      <4> QED BY <1>2, <4>1 DEF Adopt
    <3> HIDE DEF s
    <3>2. Adopting(s)
      BY <1>2, <3>1 DEF Adopting
    <3> QED BY <1>1, <2>1, <3>1, <3>2, AdoptionGoesOn DEF NodesInv
  <2> HIDE DEF s
  <2>2. AdoptStep(a, s) \/ AdoptFail(a) \/ \E pc \in {"apply", "register", "chain", "ceremony"} : AdoptGoto(a, pc)
    BY DEF Probe, AwaitRunningNode, RelayCeremony, s
  <2> QED BY <1>1, <2>1, <2>2, AdoptionGoesTo DEF NodesInv
<1>4. Files'
  BY <1>1, FilesFrame DEF NodesInv
<1> QED BY <1>1, <1>3, <1>4, AdoptionOnly

\* A machine changes; nothing else but an adoption does.
LEMMA MachineStep ==
  ASSUME NodesInv, Adoptions', World', UNCHANGED <<folder, tables, request, ferried>>
  PROVE  NodesInv'
<1>1. UNCHANGED <<nodes, spans, enrollments, request, ferried>>
  BY DEF tables
<1>2. Tables' /\ Ids' = Ids
  BY <1>1, TablesFrame DEF NodesInv
<1>3. Requests' /\ Rows'
  BY <1>1, <1>2, RequestsFrame DEF NodesInv
<1> QED BY <1>2, <1>3, FilesFrame DEF NodesInv

\* The machine is told to install, or to begin its ceremony.
LEMMA InstallSteps ==
  ASSUME NodesInv, NEW a \in Adopts, ApplyConfig(a) \/ StartCeremony(a)
  PROVE  NodesInv'
<1> DEFINE m == adopt[a].at
<1>1. /\ adopt[a].pc \in {"apply", "ceremony"} /\ UNCHANGED <<hijacked, folder, tables, request, confirms, ferried, bounds>>
      /\ AdoptGoto(a, "await") \/ AdoptGoto(a, "relay") \/ AdoptFail(a)
  BY DEF ApplyConfig, StartCeremony
<1>2. adopt[a] \in Adopt /\ m \in Machines /\ machine[m] \in Machine
  BY <1>1, AdoptionHas
<1>3. Adoptions'
  BY <1>1, AdoptionGoesTo DEF NodesInv
<1>4. machine' \in [Machines -> Machine]
  <2> DEFINE x == [machine[m] EXCEPT !.mode = "installing", !.admin = adopt[a].admin]
             y == [machine[m] EXCEPT !.ca = TRUE]
  <2>1. x \in Machine /\ y \in Machine
    <3>1. adopt[a].admin \in Admins \cup {None}
      BY <1>2 DEF Adopt
    <3> QED BY <1>2, <3>1 DEF Machine
  <2>2. machine' = machine \/ machine' = [machine EXCEPT ![m] = x] \/ machine' = [machine EXCEPT ![m] = y]
    BY DEF ApplyConfig, StartCeremony, NodesInv, World
  <2> HIDE DEF x, y, m
  <2> QED BY <1>2, <2>1, <2>2 DEF NodesInv, World
<1>5. World'
  BY <1>1, <1>4 DEF NodesInv, World, bounds
<1> QED BY <1>1, <1>3, <1>5, MachineStep

\* What answers is shown to the operator.
LEMMA AwaitCertStep ==
  ASSUME NodesInv, NEW a \in Adopts, AwaitRunningCert(a)
  PROVE  NodesInv'
<1> DEFINE c == Presents(adopt[a].at)
           s == [adopt[a] EXCEPT !.pc = "confirm", !.shown = c]
<1>1. /\ adopt[a].pc = "await" /\ AdoptStep(a, s) /\ UNCHANGED <<machine, hijacked, folder, tables, request, ferried, bounds>>
      /\ waiting' = [waiting EXCEPT ![a] = c] /\ answer' = [answer EXCEPT ![a] = None]
  BY DEF AwaitRunningCert
<1>2. adopt[a] \in Adopt /\ adopt[a].at \in Machines /\ adopt[a].name \in Names
  BY <1>1, AdoptionHas
<1>3. c \in Certificate
  BY <1>2, ConsoleGenuine DEF NodesInv
<1> HIDE DEF c
<1>4. s \in Adopt /\ s.pc = "confirm" /\ s.at = adopt[a].at /\ s.name = adopt[a].name /\ s.shown = c
  BY <1>2, <1>3 DEF Adopt
<1> HIDE DEF s
<1>5. Adopting(s) /\ Awaiting(s, c, None)
  BY <1>2, <1>4 DEF Adopting, Awaiting
<1>6. Adoptions'
  BY <1>1, <1>3, <1>4, <1>5, AdoptionMoves DEF NodesInv
<1>7. Files'
  BY <1>1, FilesFrame DEF NodesInv
<1> QED BY <1>1, <1>6, <1>7, AdoptionOnly

\* The operator's answer: a match is what the machine's console shows.
LEMMA ConfirmStep ==
  ASSUME NodesInv, NEW a \in Adopts, ConfirmAdoptionFingerprint(a)
  PROVE  NodesInv'
<1> DEFINE x == IF waiting[a] = Console(adopt[a].at) THEN "match" ELSE "mismatch"
<1>1. /\ waiting[a] # None /\ answer' = [answer EXCEPT ![a] = x] /\ waiting' = [waiting EXCEPT ![a] = None]
      /\ UNCHANGED <<machine, hijacked, folder, tables, adopt, request, ferried, bounds>>
  BY DEF ConfirmAdoptionFingerprint
<1>2. adopt[a].pc = "confirm" /\ waiting[a] = adopt[a].shown
  BY <1>1 DEF NodesInv, Adoptions, Awaiting
<1>3. adopt[a] \in Adopt /\ adopt[a].at \in Machines
  BY <1>2, AdoptionHas
<1>4. x \in {"match", "mismatch"} /\ (x = "match" => Genuine(adopt[a].shown))
  BY <1>2, <1>3, ConsoleGenuine DEF NodesInv
<1> HIDE DEF x
<1>5. Adopting(adopt[a]) /\ Awaiting(adopt[a], None, x) /\ AdoptStep(a, adopt[a])
  <2>1. adopt' = [adopt EXCEPT ![a] = adopt[a]]
    BY <1>1 DEF NodesInv, Adoptions
  <2> QED BY <1>2, <1>4, <2>1 DEF NodesInv, Adoptions, Awaiting, AdoptStep
<1>6. Adoptions'
  BY <1>1, <1>3, <1>4, <1>5, AdoptionMoves DEF NodesInv
<1>7. Files'
  BY <1>1, FilesFrame DEF NodesInv
<1> QED BY <1>1, <1>6, <1>7, AdoptionOnly

\* The adoption goes on with a match.
LEMMA ConfirmedStep ==
  ASSUME NodesInv, NEW a \in Adopts, Confirmed(a)
  PROVE  NodesInv'
<1>1. /\ adopt[a].pc = "confirm" /\ answer[a] # None /\ answer' = [answer EXCEPT ![a] = None]
      /\ UNCHANGED <<machine, hijacked, folder, tables, request, waiting, ferried, bounds>>
  BY DEF Confirmed
<1>2. adopt[a] \in Adopt /\ adopt[a].at \in Machines /\ adopt[a].name \in Names
  BY <1>1, AdoptionHas
<1>3. waiting[a] = None /\ (answer[a] = "match" => Genuine(adopt[a].shown))
  BY <1>1 DEF NodesInv, Adoptions, Awaiting
<1>4. waiting' = [waiting EXCEPT ![a] = None]
  BY <1>1, <1>3 DEF NodesInv, Adoptions
<1>5. Adoptions'
  <2> DEFINE s == [adopt[a] EXCEPT !.pc = "pin"]
  <2>1. CASE AdoptFail(a)
    BY <1>1, <1>4, <2>1, Nobody, AdoptionMoves DEF AdoptFail, NodesInv
  <2>2. CASE answer[a] = "match" /\ AdoptGoto(a, "pin")
    <3>1. AdoptStep(a, s)
      BY <2>2 DEF AdoptGoto, AdoptStep
    <3>2. /\ s \in Adopt /\ s.pc = "pin" /\ s.at = adopt[a].at /\ s.name = adopt[a].name /\ s.shown = adopt[a].shown
      BY <1>2 DEF Adopt
    <3> HIDE DEF s
    <3>3. Adopting(s) /\ Awaiting(s, None, None)
      BY <1>2, <1>3, <2>2, <3>2 DEF Adopting, Awaiting
    <3> QED BY <1>1, <1>4, <3>1, <3>2, <3>3, AdoptionMoves DEF NodesInv
  <2> QED BY <2>1, <2>2 DEF Confirmed
<1>6. Files'
  BY <1>1, FilesFrame DEF NodesInv
<1> QED BY <1>1, <1>5, <1>6, AdoptionOnly

\* The pin and the chain are written to the folder.
LEMMA TrustSteps ==
  ASSUME NodesInv, NEW a \in Adopts, WritePin(a) \/ RecordCAChain(a)
  PROVE  NodesInv'
<1> DEFINE name == adopt[a].name
           x == [folder[name] EXCEPT !.pin = adopt[a].shown]
           y == [folder[name] EXCEPT !.chain = adopt[a].at]
<1>1. /\ adopt[a].pc \in {"pin", "chain"} /\ UNCHANGED <<machine, hijacked, tables, request, confirms, ferried, bounds>>
      /\ AdoptGoto(a, "dial") \/ AdoptGoto(a, "register") \/ AdoptFail(a)
  BY DEF WritePin, RecordCAChain
<1>2. adopt[a].at \in Machines /\ name \in Names /\ folder[name] \in Folder
  BY <1>1, AdoptionHas
<1>3. Adoptions'
  BY <1>1, AdoptionGoesTo DEF NodesInv
<1>4. Files'
  <2>1. CASE WritePin(a)
    <3>1. (folder' = [folder EXCEPT ![name] = x] \/ folder' = folder) /\ Genuine(adopt[a].shown)
      BY <2>1 DEF WritePin, Pinned, NodesInv, Adoptions, Adopting
    <3>2. x \in Folder /\ Genuine(x.pin)
      BY <1>2, <3>1 DEF Folder, Genuine
    <3> HIDE DEF x, name
    <3> QED BY <1>2, <3>1, <3>2, FolderWritten, FilesFrame DEF NodesInv
  <2>2. CASE RecordCAChain(a)
    <3>1. folder' = [folder EXCEPT ![name] = y] \/ folder' = folder
      BY <2>2 DEF RecordCAChain
    <3>2. y \in Folder /\ y.pin = folder[name].pin
      BY <1>2 DEF Folder
    <3> HIDE DEF y, name
    <3> QED BY <1>2, <3>1, <3>2, FolderWritten, FilesFrame DEF NodesInv
  <2> QED BY <2>1, <2>2
<1> QED BY <1>1, <1>3, <1>4, AdoptionOnly

\* The inventory is read for the name.
LEMMA RegisterReadStep ==
  ASSUME NodesInv, NEW a \in Adopts, RegisterRead(a)
  PROVE  NodesInv'
<1> DEFINE name == adopt[a].name
           first == CHOOSE i \in Named(name) : TRUE
           old == nodes[first]
           x == [name |-> name, at |-> adopt[a].at, dir |-> name, chain |-> IF adopt[a].root THEN name ELSE None]
           y == [old EXCEPT !.chain = name]
           s == [adopt[a] EXCEPT !.pc = "add", !.node = x]
           t == [adopt[a] EXCEPT !.pc = "update", !.id = first, !.node = y]
<1>1. /\ adopt[a].pc = "register" /\ UNCHANGED <<machine, hijacked, folder, tables, request, confirms, ferried, bounds>>
      /\ \/ AdoptStep(a, s)
         \/ Named(name) # {} /\ AdoptStep(a, t)
         \/ AdoptStep(a, NoAdopt)
  BY DEF RegisterRead, AdoptFail
<1>2. adopt[a] \in Adopt /\ adopt[a].at \in Machines /\ name \in Names
  BY <1>1, AdoptionHas
<1>3. Adoptions'
  <2>1. CASE AdoptStep(a, NoAdopt)
    BY <1>1, <2>1, Nobody, AdoptionGoesOn DEF NodesInv, NoAdopt
  <2>2. CASE AdoptStep(a, s)
    <3>1. x \in Node
      BY <1>2 DEF Node
    <3> HIDE DEF x
    <3>2. s \in Adopt /\ s.pc = "add" /\ s.at = adopt[a].at /\ s.name = name /\ s.node = x
      BY <1>2, <3>1 DEF Adopt
    <3> HIDE DEF s
    <3>3. Adopting(s)
      BY <1>2, <3>1, <3>2 DEF Adopting
    <3> QED BY <1>1, <2>2, <3>2, <3>3, AdoptionGoesOn DEF NodesInv
  <2>3. CASE Named(name) # {} /\ AdoptStep(a, t)
    <3>1. old \in Node /\ first \in NodeIds
      <4>1. first \in Named(name)
        BY <2>3
      <4> QED BY <4>1 DEF Named, Inventory, NodesInv, Tables
    <3> HIDE DEF old, first
    <3>2. y \in Node
      BY <1>2, <3>1 DEF Node
    <3> HIDE DEF y
    <3>3. t \in Adopt /\ t.pc = "update" /\ t.at = adopt[a].at /\ t.name = name /\ t.node = y /\ t.id = first
      BY <1>2, <3>1, <3>2 DEF Adopt
    <3> HIDE DEF t
    <3>4. Adopting(t)
      BY <1>2, <3>1, <3>2, <3>3 DEF Adopting
    <3> QED BY <1>1, <2>3, <3>3, <3>4, AdoptionGoesOn DEF NodesInv
  <2> QED BY <1>1, <2>1, <2>2, <2>3
<1>4. Files'
  BY <1>1, FilesFrame DEF NodesInv
<1> QED BY <1>1, <1>3, <1>4, AdoptionOnly

\* An ID nobody has.
LEMMA NewNodeIDIs ==
  ASSUME Tables, Unused # {}
  PROVE  NewNodeID \in NodeIds /\ NewNodeID \notin Inventory
<1>1. NewNodeID \in Unused
  BY DEF NewNodeID
<1>2. NewNodeID \in NodeIds /\ NewNodeID \notin Ids
  BY <1>1 DEF Unused, Ids
<1> QED BY <1>2, InventoryTraced

\* The node joins the inventory.
LEMMA RegisterAddStep ==
  ASSUME NodesInv, NEW a \in Adopts, RegisterAdd(a)
  PROVE  NodesInv'
<1>1. /\ adopt[a].pc \in {"add", "update"} /\ AdoptStep(a, NoAdopt)
      /\ \/ Unused # {} /\ AddNode(NewNodeID, adopt[a].node)
         \/ adopt[a].pc = "update" /\ AddNode(adopt[a].id, adopt[a].node)
      /\ UNCHANGED <<machine, hijacked, folder, enrollments, request, confirms, ferried, bounds>>
  BY DEF RegisterAdd, AdoptFail
<1>2. Adoptions'
  BY <1>1, Nobody, AdoptionGoesOn DEF NodesInv, NoAdopt
<1>3. Tables' /\ Ids \subseteq Ids'
  <2>1. adopt[a].node \in Node /\ (adopt[a].pc = "update" => adopt[a].id \in NodeIds)
    BY <1>1 DEF NodesInv, Adoptions, Adopting
  <2> QED BY <1>1, <2>1, NewNodeIDIs, AddNodeKeeps DEF NodesInv
<1>4. Requests' /\ Rows'
  BY <1>1, <1>3, RequestsFrame DEF NodesInv
<1>5. World' /\ Files'
  BY <1>1, WorldFrame, FilesFrame DEF NodesInv, bounds
<1> QED BY <1>2, <1>3, <1>4, <1>5 DEF NodesInv

\* An adoption stops.
LEMMA AdoptStopSteps ==
  ASSUME NodesInv, NEW a \in Adopts, AdoptTimeout(a) \/ AdoptCrash(a)
  PROVE  NodesInv'
<1>1. /\ AdoptStops(a) /\ renames' = renames
      /\ faults' = faults \/ (faults < MaxNodeFaults /\ faults' = faults + 1)
  BY DEF AdoptTimeout, AdoptCrash, bounds
<1>2. Adoptions'
  BY <1>1, Nobody, AdoptionMoves DEF NodesInv, AdoptStops, AdoptFail
<1>3. faults' \in 0..MaxNodeFaults
  <2>1. faults \in 0..MaxNodeFaults /\ MaxNodeFaults \in Nat
    BY NodesAssumption DEF NodesInv, World
  <2> QED BY <1>1, <2>1
<1>4. World'
  BY <1>1, <1>3 DEF NodesInv, World, AdoptStops
<1> QED BY <1>1, <1>2, <1>4, MachineStep DEF AdoptStops

\* The node of an adoption falls silent, or answers again.
LEMMA SilentStep ==
  ASSUME NodesInv, NEW a \in Adopts, NodeSilent(a)
  PROVE  NodesInv'
<1> DEFINE s == [adopt[a] EXCEPT !.silent = ~ @]
<1>1. /\ adopt[a].pc \in NodeCalls /\ adopt' = [adopt EXCEPT ![a] = s] /\ renames' = renames
      /\ faults' = faults \/ (faults < MaxNodeFaults /\ faults' = faults + 1)
      /\ UNCHANGED <<machine, hijacked, folder, tables, request, confirms, ferried>>
  BY DEF NodeSilent
<1>2. adopt[a] \in Adopt /\ adopt[a].at \in Machines /\ adopt[a].name \in Names
  BY <1>1, AdoptionHas DEF NodeCalls
<1>3. s \in Adopt /\ s.pc = adopt[a].pc /\ s.at = adopt[a].at /\ s.name = adopt[a].name
  BY <1>2 DEF Adopt
<1> HIDE DEF s
<1>4. Adopting(s) /\ AdoptStep(a, s)
  BY <1>1, <1>2, <1>3 DEF Adopting, NodeCalls, AdoptStep
<1>5. Adoptions'
  BY <1>1, <1>3, <1>4, AdoptionGoesOn DEF NodesInv, NodeCalls
<1>6. faults' \in 0..MaxNodeFaults
  <2>1. faults \in 0..MaxNodeFaults /\ MaxNodeFaults \in Nat
    BY NodesAssumption DEF NodesInv, World
  <2> QED BY <1>1, <2>1
<1>7. World'
  BY <1>1, <1>6 DEF NodesInv, World
<1> QED BY <1>1, <1>5, <1>7, MachineStep

-----------------------------------------------------------------------------
(* Machines.                                                               *)

\* A machine boots, is wiped, or something else answers in its place.
LEMMA MachineSteps ==
  ASSUME NodesInv,
         \/ \E m \in Machines : InstallDone(m) \/ Reboot(m) \/ Hijack(m)
         \/ \E id \in NodeIds : DecommissionNode(id)
  PROVE  NodesInv'
<1>1. /\ UNCHANGED <<folder, tables, adopt, request, confirms, ferried>> /\ renames' = renames
      /\ faults' = faults \/ (faults < MaxNodeFaults /\ faults' = faults + 1)
      /\ hijacked' \subseteq Machines
  BY DEF InstallDone, Reboot, Hijack, DecommissionNode, bounds, NodesInv, World
<1>2. Adoptions'
  BY <1>1, AdoptionsFrame DEF NodesInv, confirms
<1>3. faults' \in 0..MaxNodeFaults
  <2>1. faults \in 0..MaxNodeFaults /\ MaxNodeFaults \in Nat
    BY NodesAssumption DEF NodesInv, World
  <2> QED BY <1>1, <2>1
<1>4. machine' \in [Machines -> Machine]
  <2>1. ASSUME NEW m \in Machines PROVE machine[m] \in Machine /\ machine[m].boot + 1 \in Nat
    BY DEF NodesInv, World, Machine
  <2>2. ASSUME NEW m \in Machines, NEW x \in Machine, machine' = [machine EXCEPT ![m] = x]
        PROVE  machine' \in [Machines -> Machine]
    BY <2>2 DEF NodesInv, World
  <2>3. ASSUME NEW m \in Machines, InstallDone(m) PROVE machine' \in [Machines -> Machine]
    <3> DEFINE x == [machine[m] EXCEPT !.mode = "running", !.boot = @ + 1]
    <3>1. machine' = [machine EXCEPT ![m] = x]
      BY <2>3 DEF InstallDone, NodesInv, World
    <3>2. x \in Machine
      BY <2>1 DEF Machine
    <3> HIDE DEF x
    <3> QED BY <2>2, <3>1, <3>2
  <2>4. ASSUME NEW m \in Machines, Reboot(m) PROVE machine' \in [Machines -> Machine]
    <3> DEFINE x == [machine[m] EXCEPT !.boot = @ + 1]
    <3>1. machine' = [machine EXCEPT ![m] = x]
      BY <2>4 DEF Reboot
    <3>2. x \in Machine
      BY <2>1 DEF Machine
    <3> HIDE DEF x
    <3> QED BY <2>2, <3>1, <3>2
  <2>5. ASSUME NEW id \in NodeIds, DecommissionNode(id) PROVE machine' \in [Machines -> Machine]
    <3> DEFINE m == nodes[id].at
               x == [mode |-> "maintenance", admin |-> None, ca |-> FALSE, boot |-> machine[m].boot + 1]
    <3>1. machine' = [machine EXCEPT ![m] = x]
      BY <2>5 DEF DecommissionNode
    <3>2. m \in Machines
      <4>1. nodes[id] \in Node
        BY <2>5 DEF DecommissionNode, Inventory, NodesInv, Tables
      <4> QED BY <4>1, NodeFields
    <3>3. x \in Machine
      BY <2>1, <3>2 DEF Machine
    <3> HIDE DEF x, m
    <3> QED BY <2>2, <3>1, <3>2, <3>3
  <2>6. ASSUME NEW m \in Machines, Hijack(m) PROVE machine' \in [Machines -> Machine]
    BY <2>6 DEF Hijack, NodesInv, World
  <2> QED BY <2>3, <2>4, <2>5, <2>6
<1>5. World'
  BY <1>1, <1>3, <1>4 DEF NodesInv, World
<1> QED BY <1>1, <1>2, <1>5, MachineStep

\* -pin-node pins what the console shows.
LEMMA PinServerCertStep ==
  ASSUME NodesInv, NEW id \in NodeIds, PinServerCert(id)
  PROVE  NodesInv'
<1> DEFINE n == nodes[id]
           new == [folder[n.dir] EXCEPT !.pin = Presents(n.at)]
<1>1. /\ id \in Inventory /\ Presents(n.at) = Console(n.at) /\ folder' = [folder EXCEPT ![n.dir] = new]
      /\ UNCHANGED <<machine, hijacked, tables, adopt, request, confirms, ferried, bounds>>
  BY DEF PinServerCert
<1>2. n.at \in Machines /\ n.dir \in Names
  <2>1. n \in Node
    BY <1>1 DEF Inventory, NodesInv, Tables
  <2> QED BY <2>1, NodeFields
<1>3. Genuine(Presents(n.at)) /\ Presents(n.at) \in Certificate
  BY <1>1, <1>2, ConsoleGenuine DEF NodesInv
<1>4. new \in Folder /\ new.pin = Presents(n.at)
  <2>1. folder[n.dir] \in Folder
    BY <1>2 DEF NodesInv, Files
  <2> QED BY <1>3, <2>1 DEF Folder
<1> HIDE DEF new
<1>5. Files'
  BY <1>1, <1>2, <1>3, <1>4, FolderWritten DEF NodesInv
<1>6. Adoptions'
  BY <1>1, AdoptionsFrame DEF NodesInv, confirms
<1> QED BY <1>1, <1>5, <1>6, AdoptionOnly

-----------------------------------------------------------------------------
(* Enrollment requests.                                                    *)

\* Rows that were there are there, and of their kind.
RowsKept == \A e \in Enrolls : enrollments[e] # None =>
  enrollments'[e] # None /\ enrollments'[e].kind = enrollments[e].kind

\* One request moves.
LEMMA RequestMoves ==
  ASSUME Requests, NEW h \in Handlers, NEW r \in Request, Ask(h, r), RowsKept, Ids \subseteq Ids',
         \A e \in Enrolls : ferried[e] \subseteq ferried'[e], Asking(r, Ids', enrollments', ferried')
  PROVE  Requests'
<1>1. request' \in [Handlers -> Request] /\ request'[h] = r /\ \A k \in Handlers : k # h => request'[k] = request[k]
  BY DEF Requests, Ask
<1>2. \A k \in Handlers : Asking(request'[k], Ids', enrollments', ferried')
  BY <1>1, AskingKept DEF Requests, RowsKept
<1> QED BY <1>1, <1>2 DEF Requests

\* The rows, while nodes are handed out and get certificates.
LEMMA RowsStay ==
  ASSUME Rows, enrollments' = enrollments, Ids \subseteq Ids', ferried' \in [Enrolls -> SUBSET NodeIds],
         \A e \in Enrolls : ferried[e] \subseteq ferried'[e]
  PROVE  Rows' /\ RowsKept
BY DEF Rows, Admits, RowsKept

\* A request moves, and nothing else does but files.
LEMMA RequestOnly ==
  ASSUME NodesInv, NEW h \in Handlers, NEW r \in Request, Ask(h, r), Files', Asking(r, Ids, enrollments, ferried),
         UNCHANGED <<machine, hijacked, tables, adopt, confirms, ferried, renames>>, faults' \in 0..MaxNodeFaults
  PROVE  NodesInv'
<1>1. UNCHANGED <<machine, hijacked, nodes, spans, enrollments, adopt, waiting, answer, ferried, renames>>
  BY DEF tables, confirms
<1>2. Tables' /\ Ids' = Ids /\ Adoptions'
  BY <1>1, TablesFrame, AdoptionsFrame DEF NodesInv
<1>3. ferried' \in [Enrolls -> SUBSET NodeIds] /\ \A e \in Enrolls : ferried[e] \subseteq ferried'[e]
  BY <1>1 DEF NodesInv, Rows
<1>4. Rows' /\ RowsKept
  BY <1>1, <1>2, <1>3, RowsStay DEF NodesInv
<1>5. Requests'
  BY <1>1, <1>2, <1>3, <1>4, RequestMoves DEF NodesInv
<1>6. World'
  BY <1>1 DEF NodesInv, World
<1> QED BY <1>2, <1>4, <1>5, <1>6 DEF NodesInv

\* The same, and the files stay as they are.
LEMMA RequestAlone ==
  ASSUME NodesInv, NEW h \in Handlers, NEW r \in Request, Ask(h, r), Asking(r, Ids, enrollments, ferried),
         UNCHANGED <<machine, hijacked, folder, tables, adopt, confirms, ferried, bounds>>
  PROVE  NodesInv'
<1>1. Files' /\ faults' \in 0..MaxNodeFaults /\ renames' = renames
  BY FilesFrame DEF NodesInv, World, bounds
<1> QED BY <1>1, RequestOnly

\* A row is added.
LEMMA RowAdded ==
  ASSUME NodesInv, NEW e \in Enrolls, NEW row \in Enrollment, row.status = "PENDING", AddEnrollment(e, row)
  PROVE  NodesInv'
<1>1. /\ enrollments[e] = None /\ enrollments' = [enrollments EXCEPT ![e] = row]
      /\ UNCHANGED <<machine, hijacked, folder, nodes, spans, adopt, request, waiting, answer, ferried, faults, renames>>
  BY DEF AddEnrollment, confirms, bounds
<1>2. row # None
  BY NodeRowsAssumption
<1>3. /\ enrollments' \in [Enrolls -> Enrollment \cup {None}] /\ enrollments'[e] = row
      /\ \A d \in Enrolls : d # e => enrollments'[d] = enrollments[d]
  BY <1>1 DEF NodesInv, Rows
<1>4. World' /\ Files' /\ Tables' /\ Ids' = Ids /\ Adoptions'
  BY <1>1, WorldFrame, FilesFrame, TablesFrame, AdoptionsFrame DEF NodesInv
<1>5. Rows'
  BY <1>1, <1>3, <1>4 DEF NodesInv, Rows, Admits
<1>6. RowsKept
  BY <1>1, <1>3 DEF RowsKept
<1>7. Requests'
  BY <1>1, <1>4, <1>6, AskingKept DEF NodesInv, Requests, RowsKept
<1> QED BY <1>4, <1>5, <1>7 DEF NodesInv

\* An enrollment is created.
LEMMA CreateSteps ==
  ASSUME NodesInv, NEW e \in Enrolls,
         \/ \E m \in Linked, name \in Names : CreateLink(e, m, name)
         \/ \E id \in NodeIds : CreateSubordinate(e, id)
  PROVE  NodesInv'
<1>1. ASSUME NEW m \in Linked, NEW name \in Names, CreateLink(e, m, name) PROVE NodesInv'
  <2> DEFINE row == [kind |-> "LINK", status |-> "PENDING", name |-> name, at |-> VerifyAttestation(m),
                     child |-> None, node |-> None]
  <2>1. AddEnrollment(e, row) /\ m \notin hijacked /\ m \in Machines
    BY <1>1, NodesAssumption DEF CreateLink, Links
  <2>2. VerifyAttestation(m) = m
    BY <2>1 DEF VerifyAttestation, Presents, Console
  <2>3. row \in Enrollment /\ row.status = "PENDING"
    BY <2>1, <2>2 DEF Enrollment
  <2> HIDE DEF row
  <2> QED BY <2>1, <2>3, RowAdded
<1>2. ASSUME NEW id \in NodeIds, CreateSubordinate(e, id) PROVE NodesInv'
  <2> DEFINE row == [kind |-> "SUBORDINATE", status |-> "PENDING", name |-> nodes[id].name,
                     at |-> None, child |-> id, node |-> None]
  <2>1. AddEnrollment(e, row) /\ nodes[id] \in Node
    BY <1>2 DEF CreateSubordinate, Inventory, NodesInv, Tables
  <2>2. nodes[id].name \in Names
    BY <2>1, NodeFields
  <2>3. row \in Enrollment /\ row.status = "PENDING"
    BY <2>2 DEF Enrollment
  <2> HIDE DEF row
  <2> QED BY <2>1, <2>3, RowAdded
<1> QED BY <1>1, <1>2

\* A request ends.
LEMMA RequestEnds ==
  ASSUME NodesInv, NEW h \in Handlers, AskFail(h),
         UNCHANGED <<machine, hijacked, folder, tables, adopt, confirms, ferried, bounds>>
  PROVE  NodesInv'
BY Nobody, RequestAlone DEF AskFail

\* What a request has, past its start.
LEMMA RequestHas ==
  ASSUME NodesInv, NEW h \in Handlers
  PROVE  request[h] \in Request /\ Asking(request[h], Ids, enrollments, ferried)
BY DEF NodesInv, Requests

\* A pending enrollment is to be approved, or rejected.
LEMMA DecideSteps ==
  ASSUME NodesInv, NEW h \in Handlers, NEW e \in Enrolls, ApproveEnrollment(h, e) \/ RejectEnrollment(h, e)
  PROVE  NodesInv'
<1>1. enrollments[e] \in Enrollment /\ enrollments[e] # None
  BY DEF ApproveEnrollment, RejectEnrollment, NodesInv, Rows
<1>2. CASE ApproveEnrollment(h, e)
  <2> DEFINE pc == IF enrollments[e].kind = "LINK" THEN "plan" ELSE "child"
             r == [NoRequest EXCEPT !.enr = e, !.row = enrollments[e], !.status = "APPROVED", !.pc = pc]
  <2>1. Ask(h, r) /\ UNCHANGED <<machine, hijacked, folder, tables, adopt, confirms, ferried, bounds>>
    BY <1>2 DEF ApproveEnrollment
  <2>2. pc \in {"plan", "child"} /\ (pc = "plan" => enrollments[e].kind = "LINK")
    OBVIOUS
  <2> HIDE DEF pc
  <2>3. r \in Request /\ r.pc = pc /\ r.enr = e /\ r.row = enrollments[e]
    BY <1>1, <2>2 DEF NoRequest, Request
  <2> HIDE DEF r
  <2>4. Asking(r, Ids, enrollments, ferried)
    BY <1>1, <2>2, <2>3 DEF Asking, Ferried
  <2> QED BY <2>1, <2>3, <2>4, RequestAlone
<1>3. CASE RejectEnrollment(h, e)
  <2> DEFINE r == [NoRequest EXCEPT !.pc = "decide", !.enr = e, !.status = "REJECTED"]
  <2>1. Ask(h, r) /\ UNCHANGED <<machine, hijacked, folder, tables, adopt, confirms, ferried, bounds>>
    BY <1>3 DEF RejectEnrollment
  <2>2. r \in Request /\ r.pc = "decide" /\ r.enr = e /\ r.status = "REJECTED"
    BY DEF NoRequest, Request
  <2> HIDE DEF r
  <2>3. Asking(r, Ids, enrollments, ferried)
    BY <1>1, <2>2 DEF Asking, Ferried
  <2> QED BY <2>1, <2>2, <2>3, RequestAlone
<1> QED BY <1>2, <1>3

\* A machine that is linked: already in the inventory, or to be added.
LEMMA PlanStep ==
  ASSUME NodesInv, NEW h \in Handlers, NEW m \in Linked, NEW pinned \in BOOLEAN, PlanLinkedNode(h, m, pinned)
  PROVE  NodesInv'
<1> DEFINE q == request[h]
           row == q.row
           x == PemServerTrust(m, pinned).pin
           n == [name |-> row.name, at |-> m, dir |-> row.name, chain |-> IF pinned THEN None ELSE row.name]
           r == [q EXCEPT !.pc = "files", !.pinned = x, !.node = n]
           here == {i \in Inventory : nodes[i].at = m}
<1>1. /\ q.pc = "plan" /\ UNCHANGED <<machine, hijacked, folder, tables, adopt, confirms, ferried, bounds>>
      /\ \/ AskFail(h)
         \/ \E i \in here : Ask(h, [q EXCEPT !.pc = "decide", !.id = i])
         \/ Ask(h, r)
  BY DEF PlanLinkedNode
<1>2. /\ q \in Request /\ q.enr \in Enrolls /\ enrollments[q.enr] # None /\ row \in Enrollment
      /\ enrollments[q.enr].kind = "LINK"
  BY <1>1, RequestHas DEF Asking, Ferried
<1>3. CASE AskFail(h)
  BY <1>1, <1>3, RequestEnds
<1>4. ASSUME NEW i \in here, Ask(h, [q EXCEPT !.pc = "decide", !.id = i]) PROVE NodesInv'
  <2> DEFINE d == [q EXCEPT !.pc = "decide", !.id = i]
  <2>1. i \in NodeIds /\ i \in Ids
    BY InventoryTraced DEF NodesInv
  <2>2. d \in Request /\ d.pc = "decide" /\ d.id = i /\ d.enr = q.enr
    BY <1>2, <2>1 DEF Request
  <2>3. Ask(h, d)
    BY <1>4
  <2> HIDE DEF d
  <2>4. Asking(d, Ids, enrollments, ferried)
    BY <1>2, <2>1, <2>2 DEF Asking, Ferried
  <2> QED BY <1>1, <2>2, <2>3, <2>4, RequestAlone
<1>5. CASE Ask(h, r)
  <2>1. m \in Machines /\ row.name \in Names
    BY <1>2, NodesAssumption DEF Enrollment
  <2>2. n \in Node /\ n.at = m
    BY <2>1 DEF Node
  <2>3. x \in Certificate \cup {None} /\ (x = None \/ Genuine(x))
    BY <2>1, ConsoleGenuine DEF PemServerTrust, NodesInv
  <2> HIDE DEF x, n
  <2>4. r \in Request /\ r.pc = "files" /\ r.enr = q.enr /\ r.node = n /\ r.pinned = x
    BY <1>2, <2>2, <2>3 DEF Request
  <2> HIDE DEF r
  <2>5. Asking(r, Ids, enrollments, ferried)
    BY <1>2, <2>2, <2>3, <2>4 DEF Asking, Ferried
  <2> QED BY <1>1, <1>5, <2>4, <2>5, RequestAlone
<1> HIDE DEF r, q, here
<1> QED BY <1>1, <1>3, <1>4, <1>5

\* Its files are written.
LEMMA LinkFilesStep ==
  ASSUME NodesInv, NEW h \in Handlers, NEW written, LinkFiles(h, written)
  PROVE  NodesInv'
<1> DEFINE q == request[h]
           n == q.node
           m == n.at
           f == folder[n.dir]
           new == [cert |-> IF "cert" \in written THEN Given[m] ELSE f.cert,
                   key |-> IF "key" \in written THEN Given[m] ELSE f.key,
                   pin |-> IF "pin" \in written THEN q.pinned ELSE f.pin,
                   chain |-> IF "chain" \in written THEN m ELSE f.chain,
                   moved |-> f.moved]
           r == [q EXCEPT !.pc = "link"]
<1>1. /\ q.pc = "files" /\ folder' = [folder EXCEPT ![n.dir] = new]
      /\ Ask(h, r) \/ AskFail(h)
      /\ faults' = faults \/ (faults < MaxNodeFaults /\ faults' = faults + 1)
      /\ UNCHANGED <<machine, hijacked, tables, adopt, confirms, ferried, renames>>
  BY DEF LinkFiles, AskNext, Ask
<1>2. /\ q \in Request /\ q.enr \in Enrolls /\ enrollments[q.enr] # None /\ n \in Node /\ m \in Linked
      /\ enrollments[q.enr].kind = "LINK" /\ (q.pinned = None \/ Genuine(q.pinned))
  BY <1>1, RequestHas DEF Asking, Ferried
<1>3. n.dir \in Names /\ m \in Machines /\ Given[m] \in Admins
  BY <1>2, NodeFields, NodesAssumption
<1>4. f \in Folder /\ (f.pin = None \/ Genuine(f.pin))
  BY <1>3 DEF NodesInv, Files
<1>5. new \in Folder /\ new.pin \in {q.pinned, f.pin}
  <2>1. q.pinned \in Certificate \cup {None}
    BY <1>2 DEF Request
  <2> HIDE DEF q, n, m, f
  <2> QED BY <1>3, <1>4, <2>1 DEF Folder
<1>6. Files'
  <2>1. new.pin = f.pin \/ new.pin = None \/ Genuine(new.pin)
    BY <1>2, <1>5
  <2> HIDE DEF new
  <2> QED BY <1>1, <1>3, <1>5, <2>1, FolderWritten DEF NodesInv
<1>7. faults' \in 0..MaxNodeFaults
  <2>1. faults \in 0..MaxNodeFaults /\ MaxNodeFaults \in Nat
    BY NodesAssumption DEF NodesInv, World
  <2> QED BY <1>1, <2>1
<1>8. CASE Ask(h, r)
  <2>1. r \in Request /\ r.pc = "link" /\ r.enr = q.enr /\ r.node = n
    BY <1>2 DEF Request
  <2> HIDE DEF r
  <2>2. Asking(r, Ids, enrollments, ferried)
    BY <1>2, <2>1 DEF Asking, Ferried
  <2> QED BY <1>1, <1>6, <1>7, <1>8, <2>1, <2>2, RequestOnly
<1>9. CASE AskFail(h)
  BY <1>1, <1>6, <1>7, <1>9, Nobody, RequestOnly DEF AskFail
<1> QED BY <1>1, <1>8, <1>9

\* A request adds a node, and goes on with one that was handed out.
LEMMA RequestAdds ==
  ASSUME NodesInv, NEW h \in Handlers, NEW id \in NodeIds, NEW n \in Node, AddNode(id, n), NEW r \in Request, Ask(h, r),
         Asking(r, Ids', enrollments, ferried),
         UNCHANGED <<machine, hijacked, folder, enrollments, adopt, confirms, ferried, bounds>>
  PROVE  NodesInv'
<1>1. Tables' /\ Ids \subseteq Ids'
  BY AddNodeKeeps DEF NodesInv
<1>2. ferried' \in [Enrolls -> SUBSET NodeIds] /\ \A e \in Enrolls : ferried[e] \subseteq ferried'[e]
  BY DEF NodesInv, Rows
<1>3. Rows' /\ RowsKept
  BY <1>1, <1>2, RowsStay DEF NodesInv
<1>4. Requests'
  BY <1>1, <1>2, <1>3, RequestMoves DEF NodesInv
<1>5. World' /\ Files' /\ Adoptions'
  BY WorldFrame, FilesFrame, AdoptionsFrame DEF NodesInv, bounds, confirms
<1> QED BY <1>1, <1>3, <1>4, <1>5 DEF NodesInv

\* The linked machine joins the inventory, and its ID is read back.
LEMMA LinkAddStep ==
  ASSUME NodesInv, NEW h \in Handlers, LinkAdd(h)
  PROVE  NodesInv'
<1> DEFINE q == request[h]
           i == CHOOSE j \in NodeIds : nodes'[j] # None /\ nodes'[j].name = q.node.name
           r == [q EXCEPT !.pc = "decide", !.id = i]
<1>1. /\ q.pc = "link" /\ Unused # {} /\ AddNode(NewNodeID, q.node) /\ Ask(h, r)
      /\ UNCHANGED <<machine, hijacked, folder, enrollments, adopt, confirms, ferried, bounds>>
  BY DEF LinkAdd
<1>2. /\ q \in Request /\ q.enr \in Enrolls /\ enrollments[q.enr] # None /\ q.node \in Node
      /\ enrollments[q.enr].kind = "LINK"
  BY <1>1, RequestHas DEF Asking, Ferried
<1>3. NewNodeID \in NodeIds /\ NewNodeID \notin Inventory
  BY <1>1, NewNodeIDIs DEF NodesInv
<1>4. Tables' /\ \E j \in NodeIds : nodes'[j] # None /\ nodes'[j].name = q.node.name
  BY <1>1, <1>2, <1>3, AddNodeKeeps DEF NodesInv
<1>5. i \in NodeIds /\ nodes'[i] # None
  BY <1>4
<1>6. i \in Ids'
  <2>1. i \in Inventory'
    BY <1>5 DEF Inventory
  <2>2. [id |-> i, name |-> nodes'[i].name, until |-> 0] \in spans'
    BY <1>4, <2>1 DEF Tables, NamesTraced
  <2> QED BY <2>2 DEF Ids
<1> HIDE DEF i
<1>7. r \in Request /\ r.pc = "decide" /\ r.enr = q.enr /\ r.id = i
  BY <1>2, <1>5 DEF Request
<1> HIDE DEF r
<1>8. Asking(r, Ids', enrollments, ferried)
  BY <1>2, <1>5, <1>6, <1>7 DEF Asking, Ferried
<1> QED BY <1>1, <1>2, <1>3, <1>7, <1>8, RequestAdds

\* The child is found by its name, or by one it gave up.
LEMMA ResolveChildStep ==
  ASSUME NodesInv, NEW h \in Handlers, ResolveChild(h)
  PROVE  NodesInv'
<1> DEFINE q == request[h]
           name == q.row.name
           found == IF Named(name) # {} THEN Named(name) ELSE NodeByFormerName(name)
<1>1. /\ q.pc = "child" /\ UNCHANGED <<machine, hijacked, folder, tables, adopt, confirms, ferried, bounds>>
      /\ AskFail(h) \/ \E i \in found : Ask(h, [q EXCEPT !.pc = "parent", !.id = i, !.node = nodes[i]])
  BY DEF ResolveChild
<1>2. q \in Request /\ q.enr \in Enrolls /\ enrollments[q.enr] # None
  BY <1>1, RequestHas DEF Asking, Ferried
<1>3. found \subseteq Inventory
  BY DEF Named, NodeByFormerName
<1> HIDE DEF found
<1>4. CASE AskFail(h)
  BY <1>1, <1>4, RequestEnds
<1>5. ASSUME NEW i \in found, Ask(h, [q EXCEPT !.pc = "parent", !.id = i, !.node = nodes[i]]) PROVE NodesInv'
  <2> DEFINE r == [q EXCEPT !.pc = "parent", !.id = i, !.node = nodes[i]]
  <2>1. i \in NodeIds /\ i \in Ids /\ nodes[i] \in Node
    BY <1>3, InventoryTraced DEF NodesInv, Tables, Inventory
  <2>2. r \in Request /\ r.pc = "parent" /\ r.id = i /\ r.node = nodes[i] /\ r.enr = q.enr
    BY <1>2, <2>1 DEF Request
  <2>3. Ask(h, r)
    BY <1>5
  <2> HIDE DEF r
  <2>4. Asking(r, Ids, enrollments, ferried)
    BY <1>2, <2>1, <2>2 DEF Asking, Ferried
  <2> QED BY <1>1, <2>2, <2>3, <2>4, RequestAlone
<1> HIDE DEF q
<1> QED BY <1>1, <1>4, <1>5

\* Its parent is found, its CSR is fetched and signed.
LEMMA FerryCalls ==
  ASSUME NodesInv, NEW h \in Handlers, FindParent(h) \/ GetSubordinateCSR(h) \/ SignChildCSR(h)
  PROVE  NodesInv'
<1> DEFINE q == request[h]
<1>1. /\ q.pc \in {"parent", "csr", "sign"}
      /\ UNCHANGED <<machine, hijacked, folder, tables, adopt, confirms, ferried, bounds>>
  BY DEF FindParent, GetSubordinateCSR, SignChildCSR
<1>2. /\ q \in Request /\ q.enr \in Enrolls /\ enrollments[q.enr] # None /\ q.node \in Node /\ q.id \in NodeIds \cap Ids
  BY <1>1, RequestHas DEF Asking, Ferried
<1>3. ASSUME NEW r \in Request, Ask(h, r), r.pc \in {"csr", "sign", "submit"}, r.enr = q.enr, r.node = q.node, r.id = q.id
      PROVE  NodesInv'
  <2>1. Asking(r, Ids, enrollments, ferried)
    BY <1>2, <1>3 DEF Asking, Ferried
  <2> QED BY <1>1, <1>3, <2>1, RequestAlone
<1>4. CASE AskFail(h)
  BY <1>1, <1>4, RequestEnds
<1>5. CASE FindParent(h) /\ ~ AskFail(h)
  <2>1. PICK p \in Inventory : Ask(h, [q EXCEPT !.pc = "csr", !.parent = nodes[p]])
    BY <1>5 DEF FindParent
  <2> DEFINE r == [q EXCEPT !.pc = "csr", !.parent = nodes[p]]
  <2>2. nodes[p] \in Node
    BY DEF Inventory, NodesInv, Tables
  <2>3. r \in Request /\ r.pc = "csr" /\ r.enr = q.enr /\ r.node = q.node /\ r.id = q.id
    BY <1>2, <2>2 DEF Request
  <2> HIDE DEF r
  <2> QED BY <1>3, <2>1, <2>3 DEF r
<1>6. CASE GetSubordinateCSR(h) /\ ~ AskFail(h)
  <2> DEFINE boot == machine[q.node.at].boot
             r == [q EXCEPT !.pc = "sign", !.boot = boot]
  <2>1. Ask(h, r)
    BY <1>6 DEF GetSubordinateCSR
  <2>2. boot \in Nat
    BY <1>2, NodeFields DEF NodesInv, World, Machine
  <2> HIDE DEF boot
  <2>3. r \in Request /\ r.pc = "sign" /\ r.enr = q.enr /\ r.node = q.node /\ r.id = q.id
    BY <1>2, <2>2 DEF Request
  <2> HIDE DEF r
  <2> QED BY <1>3, <2>1, <2>3
<1>7. CASE SignChildCSR(h) /\ ~ AskFail(h)
  <2> DEFINE r == [q EXCEPT !.pc = "submit"]
  <2>1. Ask(h, r)
    BY <1>7 DEF SignChildCSR, AskNext, Ask
  <2>2. r \in Request /\ r.pc = "submit" /\ r.enr = q.enr /\ r.node = q.node /\ r.id = q.id
    BY <1>2 DEF Request
  <2> HIDE DEF r
  <2> QED BY <1>3, <2>1, <2>2
<1> QED BY <1>4, <1>5, <1>6, <1>7

\* The child gets its certificate.
LEMMA SubmitStep ==
  ASSUME NodesInv, NEW h \in Handlers, SubmitSubordinateCertificate(h)
  PROVE  NodesInv'
<1> DEFINE q == request[h]
           m == q.node.at
           got == [machine[m] EXCEPT !.ca = TRUE]
           r == [q EXCEPT !.pc = "keep"]
<1>1. q.pc = "submit" /\ UNCHANGED <<hijacked, folder, tables, adopt, confirms, bounds>>
  BY DEF SubmitSubordinateCertificate
<1>2. /\ q \in Request /\ q.enr \in Enrolls /\ enrollments[q.enr] # None /\ q.node \in Node /\ q.id \in NodeIds \cap Ids
  BY <1>1, RequestHas DEF Asking, Ferried
<1>3. m \in Machines
  BY <1>2, NodeFields
<1>4. CASE AskFail(h) /\ UNCHANGED <<machine, ferried>>
  BY <1>1, <1>4, RequestEnds
<1>5. CASE ~ (AskFail(h) /\ UNCHANGED <<machine, ferried>>)
  <2>1. /\ machine' = [machine EXCEPT ![m] = got] /\ Ask(h, r)
        /\ ferried' = [ferried EXCEPT ![q.enr] = @ \cup {q.id}]
    BY <1>5 DEF SubmitSubordinateCertificate, AskNext, Ask
  <2>2. machine[m] \in Machine
    BY <1>3 DEF NodesInv, World
  <2>3. got \in Machine
    BY <2>2 DEF Machine
  <2> HIDE DEF got
  <2>4. World'
    BY <1>1, <1>3, <2>1, <2>3 DEF NodesInv, World, bounds
  <2>5. /\ ferried' \in [Enrolls -> SUBSET NodeIds] /\ q.id \in ferried'[q.enr]
        /\ \A e \in Enrolls : ferried[e] \subseteq ferried'[e]
    BY <1>2, <2>1 DEF NodesInv, Rows
  <2>6. Tables' /\ Ids' = Ids /\ Adoptions' /\ Files' /\ enrollments' = enrollments
    BY <1>1, TablesFrame, AdoptionsFrame, FilesFrame DEF NodesInv, tables, confirms
  <2>7. Rows' /\ RowsKept
    BY <2>5, <2>6, RowsStay DEF NodesInv
  <2>8. r \in Request /\ r.pc = "keep" /\ r.enr = q.enr /\ r.node = q.node /\ r.id = q.id
    BY <1>2 DEF Request
  <2> HIDE DEF r
  <2>9. Asking(r, Ids', enrollments', ferried')
    BY <1>2, <2>5, <2>6, <2>8 DEF Asking, Ferried
  <2>10. Requests'
    BY <2>1, <2>5, <2>6, <2>7, <2>8, <2>9, RequestMoves DEF NodesInv
  <2> QED BY <2>4, <2>6, <2>7, <2>10 DEF NodesInv
<1> QED BY <1>4, <1>5

\* Its chain is written to its folder, or the failure to is logged.
LEMMA KeepChainStep ==
  ASSUME NodesInv, NEW h \in Handlers, KeepChain(h)
  PROVE  NodesInv'
<1> DEFINE q == request[h]
           n == q.node
           new == [folder[n.dir] EXCEPT !.chain = n.at]
<1>1. /\ q.pc = "keep" /\ \E pc \in {"record", "decide"} : Ask(h, [q EXCEPT !.pc = pc])
      /\ folder' = [folder EXCEPT ![n.dir] = new] \/ folder' = folder
      /\ faults' = faults \/ (faults < MaxNodeFaults /\ faults' = faults + 1)
      /\ UNCHANGED <<machine, hijacked, tables, adopt, confirms, ferried, renames>>
  BY DEF KeepChain, AskNext, Ask
<1>2. /\ q \in Request /\ q.enr \in Enrolls /\ enrollments[q.enr] # None /\ n \in Node /\ q.id \in NodeIds \cap Ids
      /\ q.id \in ferried[q.enr]
  BY <1>1, RequestHas DEF Asking, Ferried
<1>3. n.at \in Machines /\ n.dir \in Names
  BY <1>2, NodeFields
<1>4. Files'
  <2>1. folder[n.dir] \in Folder
    BY <1>3 DEF NodesInv, Files
  <2>2. new \in Folder /\ new.pin = folder[n.dir].pin
    BY <1>3, <2>1 DEF Folder
  <2> HIDE DEF new
  <2> QED BY <1>1, <1>3, <2>2, FolderWritten, FilesFrame DEF NodesInv
<1>5. faults' \in 0..MaxNodeFaults
  <2>1. faults \in 0..MaxNodeFaults /\ MaxNodeFaults \in Nat
    BY NodesAssumption DEF NodesInv, World
  <2> QED BY <1>1, <2>1
<1>6. PICK pc \in {"record", "decide"} : Ask(h, [q EXCEPT !.pc = pc])
  BY <1>1
<1> DEFINE r == [q EXCEPT !.pc = pc]
<1>7. r \in Request /\ r.pc = pc /\ r.enr = q.enr /\ r.node = n /\ r.id = q.id
  BY <1>2 DEF Request
<1>8. Ask(h, r)
  BY <1>6
<1> HIDE DEF r
<1>9. Asking(r, Ids, enrollments, ferried)
  BY <1>2, <1>7 DEF Asking, Ferried
<1> QED BY <1>1, <1>4, <1>5, <1>7, <1>8, <1>9, RequestOnly

\* The copy of the child read before the ferry is written back.
LEMMA RecordChildStep ==
  ASSUME NodesInv, NEW h \in Handlers, RecordChild(h)
  PROVE  NodesInv'
<1> DEFINE q == request[h]
           n == [q.node EXCEPT !.chain = q.node.dir]
           r == [q EXCEPT !.pc = "decide"]
<1>1. /\ q.pc = "record" /\ AddNode(q.id, n) /\ (AskFail(h) \/ Ask(h, r))
      /\ UNCHANGED <<machine, hijacked, folder, enrollments, adopt, confirms, ferried, bounds>>
  BY DEF RecordChild, AskNext, Ask
<1>2. /\ q \in Request /\ q.enr \in Enrolls /\ enrollments[q.enr] # None /\ q.node \in Node /\ q.id \in NodeIds
      /\ q.id \in Ids /\ q.id \in ferried[q.enr]
  BY <1>1, RequestHas DEF Asking, Ferried
<1>3. n \in Node
  BY <1>2 DEF Node
<1> HIDE DEF n
<1>4. Ids \subseteq Ids'
  BY <1>1, <1>2, <1>3, AddNodeKeeps DEF NodesInv
<1>5. CASE AskFail(h)
  BY <1>1, <1>2, <1>3, <1>5, Nobody, RequestAdds DEF AskFail
<1>6. CASE Ask(h, r)
  <2>1. r \in Request /\ r.pc = "decide" /\ r.enr = q.enr /\ r.id = q.id
    BY <1>2 DEF Request
  <2> HIDE DEF r
  <2>2. Asking(r, Ids', enrollments, ferried)
    BY <1>2, <1>4, <2>1 DEF Asking, Ferried
  <2> QED BY <1>1, <1>2, <1>3, <1>6, <2>1, <2>2, RequestAdds
<1> QED BY <1>1, <1>5, <1>6

\* The row is read, to be written with the decision.
LEMMA EnrollmentReadStep ==
  ASSUME NodesInv, NEW h \in Handlers, EnrollmentRead(h)
  PROVE  NodesInv'
<1> DEFINE q == request[h]
           e == enrollments[q.enr]
           x == [e EXCEPT !.status = "REJECTED"]
           y == [e EXCEPT !.status = "APPROVED", !.node = q.id]
           row == IF q.status = "REJECTED" THEN x ELSE y
           r == [q EXCEPT !.pc = "write", !.row = row]
<1>1. /\ q.pc = "decide" /\ Ask(h, r)
      /\ UNCHANGED <<machine, hijacked, folder, tables, adopt, confirms, ferried, bounds>>
  BY DEF EnrollmentRead
<1>2. /\ q \in Request /\ q.enr \in Enrolls /\ e # None
      /\ q.status # "REJECTED" => q.id \in NodeIds /\ q.id \in Ids /\ (e.kind = "SUBORDINATE" => q.id \in ferried[q.enr])
  BY <1>1, RequestHas DEF Asking, Ferried
<1>3. e \in Enrollment
  BY <1>2 DEF NodesInv, Rows
<1>4. x \in Enrollment /\ x.kind = e.kind /\ x.status = "REJECTED"
  BY <1>3 DEF Enrollment
<1>5. q.status # "REJECTED" => y \in Enrollment /\ y.kind = e.kind /\ y.node = q.id
  BY <1>2, <1>3 DEF Enrollment
<1> HIDE DEF x, y
<1>6. row \in Enrollment /\ row.kind = e.kind /\ Admits(row, q.enr, Ids, ferried)
  BY <1>2, <1>4, <1>5 DEF Admits
<1> HIDE DEF row
<1>7. r \in Request /\ r.pc = "write" /\ r.enr = q.enr /\ r.row = row
  BY <1>2, <1>6 DEF Request
<1> HIDE DEF r
<1>8. Asking(r, Ids, enrollments, ferried)
  BY <1>2, <1>6, <1>7 DEF Asking, Ferried
<1> QED BY <1>1, <1>7, <1>8, RequestAlone

\* The row is written.
LEMMA UpdateStep ==
  ASSUME NodesInv, NEW h \in Handlers, UpdateEnrollment(h)
  PROVE  NodesInv'
<1> DEFINE q == request[h]
<1>1. /\ q.pc = "write" /\ enrollments' = [enrollments EXCEPT ![q.enr] = q.row] /\ Ask(h, NoRequest)
      /\ UNCHANGED <<machine, hijacked, folder, nodes, spans, adopt, waiting, answer, ferried, faults, renames>>
  BY DEF UpdateEnrollment, AskFail, confirms, bounds
<1>2. /\ q.enr \in Enrolls /\ q.row \in Enrollment /\ q.row.kind = enrollments[q.enr].kind
      /\ Admits(q.row, q.enr, Ids, ferried)
  BY <1>1, RequestHas DEF Asking, Ferried
<1>3. /\ enrollments' \in [Enrolls -> Enrollment \cup {None}] /\ enrollments'[q.enr] = q.row
      /\ \A d \in Enrolls : d # q.enr => enrollments'[d] = enrollments[d]
  BY <1>1, <1>2 DEF NodesInv, Rows
<1>4. World' /\ Files' /\ Tables' /\ Ids' = Ids /\ Adoptions'
  BY <1>1, WorldFrame, FilesFrame, TablesFrame, AdoptionsFrame DEF NodesInv
<1>5. Rows'
  <2>1. \A d \in Enrolls : enrollments'[d] # None => Admits(enrollments'[d], d, Ids, ferried)
    BY <1>2, <1>3 DEF NodesInv, Rows
  <2> QED BY <1>1, <1>3, <1>4, <2>1 DEF NodesInv, Rows
<1>6. RowsKept
  BY <1>2, <1>3, NodeRowsAssumption DEF RowsKept
<1>7. Requests'
  <2>1. \A d \in Enrolls : ferried[d] \subseteq ferried'[d]
    BY <1>1
  <2> QED BY <1>1, <1>4, <1>6, <2>1, Nobody, RequestMoves DEF NodesInv
<1> QED BY <1>4, <1>5, <1>7 DEF NodesInv

-----------------------------------------------------------------------------
(* Rename and removal.                                                     *)

\* A node is renamed.
LEMMA RenameStep ==
  ASSUME NodesInv, NEW id \in NodeIds, NEW name \in Names, RenameNode(id, name)
  PROVE  NodesInv'
<1>1. /\ id \in Inventory /\ Named(name) = {} /\ renames < MaxRenames /\ renames' = renames + 1
      /\ nodes' = [nodes EXCEPT ![id].name = name]
      /\ spans' = Closed(id) \cup {[id |-> id, name |-> name, until |-> 0]}
      /\ UNCHANGED <<machine, hijacked, folder, enrollments, adopt, request, confirms, ferried, faults>>
  BY DEF RenameNode
<1>2. Tables' /\ Ids \subseteq Ids'
  BY <1>1, RenameKeeps DEF NodesInv
<1>3. renames' \in 0..MaxRenames
  <2>1. renames \in 0..MaxRenames /\ MaxRenames \in Nat
    BY NodesAssumption DEF NodesInv, World
  <2> QED BY <1>1, <2>1
<1>4. World' /\ Files' /\ Adoptions'
  BY <1>1, <1>3, FilesFrame, AdoptionsFrame DEF NodesInv, World, confirms
<1>5. Requests' /\ Rows'
  BY <1>1, <1>2, RequestsFrame DEF NodesInv
<1> QED BY <1>2, <1>4, <1>5 DEF NodesInv

\* A node is to be removed, and its folder moved aside.
LEMMA RemoveSteps ==
  ASSUME NodesInv, NEW h \in Handlers, (\E id \in NodeIds : RemoveNode(h, id)) \/ MoveCredsAside(h)
  PROVE  NodesInv'
<1>1. ASSUME NEW id \in NodeIds, RemoveNode(h, id) PROVE NodesInv'
  <2> DEFINE r == [NoRequest EXCEPT !.pc = "remove", !.id = id]
  <2>1. Ask(h, r) /\ UNCHANGED <<machine, hijacked, folder, tables, adopt, confirms, ferried, bounds>>
    BY <1>1 DEF RemoveNode
  <2>2. r \in Request /\ r.pc = "remove" /\ r.id = id
    BY DEF NoRequest, Request
  <2> HIDE DEF r
  <2>3. Asking(r, Ids, enrollments, ferried)
    BY <2>2 DEF Asking, Ferried
  <2> QED BY <2>1, <2>2, <2>3, RequestAlone
<1>2. CASE MoveCredsAside(h)
  <2> DEFINE dir == request[h].node.dir
             gone == [NoFolder EXCEPT !.moved = TRUE]
             new == IF Present(folder[dir]) THEN gone ELSE folder[dir]
  <2>1. /\ request[h].pc = "aside" /\ folder' = [folder EXCEPT ![dir] = new] /\ Ask(h, NoRequest)
        /\ UNCHANGED <<machine, hijacked, tables, adopt, confirms, ferried, bounds>>
    BY <1>2 DEF MoveCredsAside, AskFail
  <2>2. dir \in Names
    BY <2>1, RequestHas, NodeFields DEF Asking, Ferried
  <2>3. Files'
    <3>1. gone \in Folder /\ gone.pin = None
      BY DEF NoFolder, Folder
    <3>2. new \in Folder /\ (new.pin = folder[dir].pin \/ new.pin = None)
      BY <2>2, <3>1 DEF NodesInv, Files
    <3> HIDE DEF new
    <3> QED BY <2>1, <2>2, <3>2, FolderWritten DEF NodesInv
  <2>4. renames' = renames /\ faults' \in 0..MaxNodeFaults
    BY <2>1 DEF NodesInv, World, bounds
  <2> QED BY <2>1, <2>3, <2>4, Nobody, RequestOnly
<1> QED BY <1>1, <1>2

\* The node leaves the inventory.
LEMMA DeleteStep ==
  ASSUME NodesInv, NEW h \in Handlers, DeleteNode(h)
  PROVE  NodesInv'
<1> DEFINE q == request[h]
           id == q.id
           r == [q EXCEPT !.pc = "aside", !.node = nodes[id]]
<1>1. /\ q.pc = "remove" /\ UNCHANGED <<machine, hijacked, folder, enrollments, adopt, confirms, ferried, bounds>>
  BY DEF DeleteNode
<1>2. q \in Request /\ id \in NodeIds
  BY <1>1, RequestHas DEF Asking, Ferried
<1>3. CASE id \notin Inventory
  BY <1>1, <1>3, RequestEnds DEF DeleteNode, tables
<1>4. CASE id \in Inventory
  <2>1. nodes' = [nodes EXCEPT ![id] = None] /\ spans' = Closed(id) /\ Ask(h, r)
    BY <1>4 DEF DeleteNode
  <2>2. Tables' /\ Ids \subseteq Ids'
    BY <1>2, <1>4, <2>1, DeleteKeeps DEF NodesInv
  <2>3. nodes[id] \in Node
    BY <1>4 DEF Inventory, NodesInv, Tables
  <2>4. r \in Request /\ r.pc = "aside" /\ r.node = nodes[id]
    BY <1>2, <2>3 DEF Request
  <2> HIDE DEF r
  <2>5. Asking(r, Ids', enrollments', ferried')
    BY <2>3, <2>4 DEF Asking, Ferried
  <2>6. ferried' \in [Enrolls -> SUBSET NodeIds] /\ \A e \in Enrolls : ferried[e] \subseteq ferried'[e]
    BY <1>1 DEF NodesInv, Rows
  <2>7. Rows' /\ RowsKept
    BY <1>1, <2>2, <2>6, RowsStay DEF NodesInv
  <2>8. Requests'
    BY <2>1, <2>2, <2>4, <2>5, <2>6, <2>7, RequestMoves DEF NodesInv
  <2>9. World' /\ Files' /\ Adoptions'
    BY <1>1, WorldFrame, FilesFrame, AdoptionsFrame DEF NodesInv, bounds, confirms
  <2> QED BY <2>2, <2>7, <2>8, <2>9 DEF NodesInv
<1> QED BY <1>3, <1>4

\* A request fails.
LEMMA RequestCrashStep ==
  ASSUME NodesInv, NEW h \in Handlers, RequestCrash(h)
  PROVE  NodesInv'
<1>1. /\ Ask(h, NoRequest) /\ faults < MaxNodeFaults /\ faults' = faults + 1
      /\ UNCHANGED <<machine, hijacked, folder, tables, adopt, confirms, ferried, renames>>
  BY DEF RequestCrash, AskFail
<1>2. faults' \in 0..MaxNodeFaults
  <2>1. faults \in 0..MaxNodeFaults /\ MaxNodeFaults \in Nat
    BY NodesAssumption DEF NodesInv, World
  <2> QED BY <1>1, <2>1
<1>3. Files'
  BY <1>1, FilesFrame DEF NodesInv
<1> QED BY <1>1, <1>2, <1>3, Nobody, RequestOnly

-----------------------------------------------------------------------------
(* The theorems about the inventory.                                       *)

\* Every step keeps the inductive invariant.
LEMMA NodesNextStep ==
  ASSUME NodesInv, [NodesNext]_nodeVars
  PROVE  NodesInv'
<1>1. ASSUME NEW a \in Adopts, AdoptSteps(a) \/ AdoptCrash(a) \/ NodeSilent(a) \/ ConfirmAdoptionFingerprint(a)
      PROVE  NodesInv'
  BY <1>1, MintSteps, WatchSteps, InstallSteps, AwaitCertStep, ConfirmStep, ConfirmedStep, TrustSteps,
     RegisterReadStep, RegisterAddStep, AdoptStopSteps, SilentStep DEF AdoptSteps
<1>2. ASSUME NEW h \in Handlers, RequestSteps(h) \/ RequestCrash(h) PROVE NodesInv'
  BY <1>2, PlanStep, LinkFilesStep, LinkAddStep, ResolveChildStep, FerryCalls, SubmitStep, KeepChainStep,
     RecordChildStep, EnrollmentReadStep, UpdateStep, DeleteStep, RemoveSteps, RequestCrashStep DEF RequestSteps
<1>3. ASSUME NEW a \in Adopts, NEW m \in Machines, NEW name \in Names, NEW root \in BOOLEAN, AdoptNode(a, m, name, root)
      PROVE  NodesInv'
  BY <1>3, AdoptNodeStep
<1>4. CASE \/ \E m \in Machines : InstallDone(m) \/ Reboot(m) \/ Hijack(m)
           \/ \E id \in NodeIds : DecommissionNode(id) \/ PinServerCert(id)
  BY <1>4, MachineSteps, PinServerCertStep
<1>5. CASE \/ \E e \in Enrolls, m \in Linked, name \in Names : CreateLink(e, m, name)
           \/ \E e \in Enrolls, id \in NodeIds : CreateSubordinate(e, id)
  BY <1>5, CreateSteps
<1>6. CASE \/ \E h \in Handlers, e \in Enrolls : ApproveEnrollment(h, e) \/ RejectEnrollment(h, e)
           \/ \E h \in Handlers, id \in NodeIds : RemoveNode(h, id)
           \/ \E id \in NodeIds, name \in Names : RenameNode(id, name)
  BY <1>6, DecideSteps, RemoveSteps, RenameStep
<1>7. CASE UNCHANGED nodeVars
  <2>1. UNCHANGED <<machine, hijacked, folder, tables, adopt, request, waiting, answer, ferried, bounds>>
    BY <1>7 DEF nodeVars, confirms
  <2>2. Adoptions' /\ Files'
    BY <2>1, AdoptionsFrame, FilesFrame DEF NodesInv
  <2> QED BY <2>1, <2>2, AdoptionOnly
<1> QED BY <1>1, <1>2, <1>3, <1>4, <1>5, <1>6, <1>7 DEF NodesNext

\* It holds of an inventory seeded with one linked machine.
LEMMA NodesInitially ==
  ASSUME NodesInit
  PROVE  NodesInv
<1>1. World
  <2> DEFINE first(m) == IF m \in Linked THEN [mode |-> "running", admin |-> Given[m], ca |-> TRUE, boot |-> 0]
                         ELSE [mode |-> "maintenance", admin |-> None, ca |-> FALSE, boot |-> 0]
  <2>1. \A m \in Machines : first(m) \in Machine
    BY NodesAssumption DEF Machine
  <2>2. machine = [m \in Machines |-> first(m)] /\ hijacked = {} /\ faults = 0 /\ renames = 0
    BY DEF NodesInit
  <2> HIDE DEF first
  <2>3. 0 \in 0..MaxNodeFaults /\ 0 \in 0..MaxRenames
    BY NodesAssumption
  <2> QED BY <2>1, <2>2, <2>3 DEF World
<1>2. PICK m \in Linked, name \in Names, id \in NodeIds :
        /\ folder = [n \in Names |-> IF n # name THEN NoFolder
             ELSE [cert |-> Given[m], key |-> Given[m], pin |-> None, chain |-> m, moved |-> FALSE]]
        /\ nodes = [i \in NodeIds |-> IF i # id THEN None
             ELSE [name |-> name, at |-> m, dir |-> name, chain |-> name]]
        /\ spans = {[id |-> id, name |-> name, until |-> 0]}
  BY DEF NodesInit
<1>3. m \in Machines /\ Given[m] \in Admins
  BY NodesAssumption
<1>4. Files
  <2> DEFINE f == [cert |-> Given[m], key |-> Given[m], pin |-> None, chain |-> m, moved |-> FALSE]
  <2>1. f \in Folder /\ f.pin = None
    BY <1>3 DEF Folder
  <2>2. folder = [n \in Names |-> IF n # name THEN NoFolder ELSE f]
    BY <1>2
  <2> HIDE DEF f
  <2> QED BY <2>1, <2>2, Nobody DEF Files
<1>5. Tables
  <2> DEFINE n == [name |-> name, at |-> m, dir |-> name, chain |-> name]
             span == [id |-> id, name |-> name, until |-> 0]
  <2>1. n \in Node /\ n.name = name
    BY <1>3 DEF Node
  <2>2. n # None
    BY <2>1, NodeFields
  <2>3. span \in Span /\ span.id = id /\ span.until = 0
    BY DEF Span
  <2>4. nodes = [i \in NodeIds |-> IF i # id THEN None ELSE n] /\ spans = {span}
    BY <1>2
  <2> HIDE DEF n
  <2>5. nodes \in [NodeIds -> Node \cup {None}] /\ Inventory = {id} /\ nodes[id] = n
    BY <2>1, <2>2, <2>4 DEF Inventory
  <2>6. Unique
    BY <2>5 DEF Unique
  <2>7. NamesTraced
    BY <2>1, <2>3, <2>4, <2>5 DEF NamesTraced
  <2>8. IsFiniteSet(spans)
    BY <2>4, FS_Singleton
  <2> QED BY <2>3, <2>4, <2>5, <2>6, <2>7, <2>8 DEF Tables
<1>6. Adoptions
  BY Nobody DEF NodesInit, Adoptions
<1>7. Rows
  BY DEF NodesInit, Rows
<1>8. Requests
  BY Nobody DEF NodesInit, Requests
<1> QED BY <1>1, <1>4, <1>5, <1>6, <1>7, <1>8 DEF NodesInv

\* The inductive invariant holds in every reachable state.
LEMMA NodesInvariant == NodesSpec => []NodesInv
<1>1. NodesInit => NodesInv
  BY NodesInitially
<1>2. NodesInv /\ [NodesNext]_nodeVars => NodesInv'
  BY NodesNextStep
<1> QED BY <1>1, <1>2, PTL DEF NodesSpec

\* Types, and unique names: whatever adoptions, requests and renames overlap,
\* no two nodes of the inventory have one name (AddNode, RenameNode).
THEOREM NodesTypeCorrect == NodesSpec => []NodesTypeOK
<1>1. ASSUME NodesInv, NEW name \in Names PROVE Cardinality(Named(name)) <= 1
  <2>1. CASE Named(name) = {}
    BY <2>1, FS_EmptySet
  <2>2. CASE Named(name) # {}
    <3>1. PICK i : i \in Named(name)
      BY <2>2
    <3>2. Named(name) = {i}
      BY <1>1, <3>1 DEF Named, NodesInv, Tables, Unique
    <3>3. Cardinality({i}) = 1
      BY FS_Singleton
    <3> QED BY <3>2, <3>3
  <2> QED BY <2>1, <2>2
<1>2. NodesInv => NodesTypeOK
  BY <1>1 DEF NodesInv, World, Files, Tables, Adoptions, Rows, Requests, NodesTypeOK
<1> QED BY <1>2, NodesInvariant, PTL

\* Whatever answers on the nodes' addresses, however many adoptions and link
\* approvals run at once, only a certificate seen on a machine's own console is
\* ever pinned (awaitFingerprintConfirm, WritePin, PinServerCert).
THEOREM OnlyConsolePinned == NodesSpec => []PinsConfirmed
<1>1. NodesInv => PinsConfirmed
  BY DEF NodesInv, Files, PinsConfirmed, Genuine
<1> QED BY <1>1, NodesInvariant, PTL

\* The name history names every node of the inventory under its one current
\* name, and no removed one, through any renames, removals and stale copies
\* written back (AddNode, RenameNode, RemoveNode).
THEOREM HistoryTraced == NodesSpec => []NamesTraced
<1>1. NodesInv => NamesTraced
  BY DEF NodesInv, Tables
<1> QED BY <1>1, NodesInvariant, PTL

\* An approved enrollment names a node that joined the inventory, and an
\* approved SUBORDINATE one a node whose certificate was delivered under it,
\* wherever a ferry stops between CSR, signature, delivery and record, and
\* however many requests decide on the same row or remove the node meanwhile
\* (runSubordinateFerry, UpdateEnrollment).
THEOREM ApprovedJoined == NodesSpec => []ApprovedAdmits
<1>1. NodesInv => ApprovedAdmits
  BY DEF NodesInv, Rows, Admits, Ids, ApprovedAdmits
<1> QED BY <1>1, NodesInvariant, PTL

-----------------------------------------------------------------------------
(* Adoptions can be retried, with one adoption at a time and linked        *)
(* machines under names of their own.                                      *)

LinkNames == UNION {NameFor[m] : m \in Linked}
OneByOne ==
  /\ \A a, b \in Adopts : a = b
  /\ \A m \in Machines \ Linked : NameFor[m] \cap LinkNames = {}

\* A link is made under a name for linked machines.
Linkable(row) == row.kind = "LINK" => row.name \in LinkNames
Linking ==
  /\ \A e \in Enrolls : enrollments[e] # None => Linkable(enrollments[e])
  /\ \A h \in Handlers :
       /\ request[h].pc = "plan" => request[h].row.name \in LinkNames
       /\ request[h].pc = "write" => Linkable(request[h].row)
       /\ request[h].pc = "files" => request[h].node.dir \in LinkNames

\* An installed machine trusts a pair that is stored under a name of its own,
\* unless a removal moved that folder away.
Keeps(m) == \E name \in NameFor[m] :
  folder[name].moved \/ (Stored(folder[name]) /\ folder[name].cert = machine[m].admin)
Installed == \A m \in Machines \ Linked : machine[m].mode # "maintenance" => Keeps(m)

\* An adoption s, where f are the folders: until it has its pair there is none
\* under its name, and it installs the pair that is there.
Holds(s, f) ==
  /\ s.pc # "idle" => s.at \in Machines \ Linked /\ s.name \in NameFor[s.at]
  /\ s.pc = "mint" => s.admin = None
  /\ s.pc = "key" => s.admin # None
  /\ s.pc \in {"mint", "key", "probe", "apply"} => f[s.name].moved \/
       /\ s.pc \in {"mint", "key"} => ~ Stored(f[s.name])
       /\ s.pc \in {"key", "probe", "apply"} => f[s.name].cert = s.admin
       /\ s.pc \in {"probe", "apply"} => Stored(f[s.name])
Paired == Installed /\ \A a \in Adopts : Holds(adopt[a], folder)

RetryInv == Linking /\ Paired

\* The requests keep what they have while nodes are added, renamed or removed.
LEMMA RequestsKeep ==
  ASSUME RetryInv, UNCHANGED <<request, enrollments>>
  PROVE  Linking'
BY DEF RetryInv, Linking, Linkable

\* One request moves.
LEMMA RequestKeeps ==
  ASSUME NodesInv, RetryInv, NEW h \in Handlers, NEW r, Ask(h, r),
         r.pc = "plan" => r.row.name \in LinkNames,
         r.pc = "write" => Linkable(r.row),
         r.pc = "files" => r.node.dir \in LinkNames,
         \A e \in Enrolls : enrollments'[e] # None => Linkable(enrollments'[e])
  PROVE  Linking'
<1>1. request'[h] = r /\ \A g \in Handlers : g # h => request'[g] = request[g]
  BY DEF NodesInv, Requests, Ask
<1> QED BY <1>1 DEF RetryInv, Linking, Linkable

\* What steps may do to pairs and to what machines trust: anything under the
\* names of linked machines, and to machines that are wiped; or move a folder
\* away.
SamePairs ==
  /\ \A n \in Names : n \notin LinkNames => folder'[n].moved \/
       (~ folder[n].moved /\ folder'[n].cert = folder[n].cert /\ folder'[n].key = folder[n].key)
  /\ \A m \in Machines \ Linked : machine'[m].mode # "maintenance" =>
       machine[m].mode # "maintenance" /\ machine'[m].admin = machine[m].admin

\* And what an adoption does once it has applied its config, or ended.
GoesOn(a) ==
  /\ adopt'[a].pc \notin {"mint", "key", "probe", "apply"}
  /\ adopt'[a].pc # "idle" => adopt[a].pc # "idle" /\ adopt'[a].at = adopt[a].at /\ adopt'[a].name = adopt[a].name

LEMMA PairsFrame ==
  ASSUME OneByOne, Paired, SamePairs
  PROVE  Installed' /\ (adopt' = adopt \/ (\A a \in Adopts : GoesOn(a)) => Paired')
<1>1. Installed'
  <2>1. ASSUME NEW m \in Machines \ Linked, machine'[m].mode # "maintenance" PROVE Keeps(m)'
    <3>1. Keeps(m) /\ machine'[m].admin = machine[m].admin
      BY <2>1 DEF Paired, Installed, SamePairs
    <3>2. PICK name \in NameFor[m] :
            folder[name].moved \/ (Stored(folder[name]) /\ folder[name].cert = machine[m].admin)
      BY <3>1 DEF Keeps
    <3>3. name \in Names /\ name \notin LinkNames
      BY NodesAssumption DEF OneByOne
    <3> QED BY <3>1, <3>2, <3>3 DEF Keeps, Stored, SamePairs
  <2> QED BY <2>1 DEF Installed
<1>2. ASSUME adopt' = adopt, NEW b \in Adopts PROVE Holds(adopt[b], folder')
  <2>1. Holds(adopt[b], folder)
    BY DEF Paired
  <2>2. adopt[b].pc # "idle" => adopt[b].name \in Names /\ adopt[b].name \notin LinkNames
    BY <2>1, NodesAssumption DEF Holds, OneByOne
  <2> QED BY <2>1, <2>2 DEF Holds, Stored, SamePairs
<1>3. ASSUME NEW a \in Adopts, GoesOn(a) PROVE Holds(adopt'[a], folder')
  <2>1. Holds(adopt[a], folder)
    BY DEF Paired
  <2> QED BY <1>3, <2>1 DEF Holds, GoesOn
<1> QED BY <1>1, <1>2, <1>3 DEF Paired

\* A step that leaves tables and requests alone.
LEMMA PairsOnly ==
  ASSUME RetryInv, UNCHANGED <<tables, request>>, Paired => Paired'
  PROVE  RetryInv'
BY RequestsKeep DEF RetryInv, tables

-----------------------------------------------------------------------------
(* Its steps.                                                              *)

\* The only adoption.
LEMMA OnlyAdoption ==
  ASSUME OneByOne, NodesInv, NEW a \in Adopts, NEW s, AdoptStep(a, s)
  PROVE  \A b \in Adopts : adopt'[b] = s /\ b = a
BY DEF OneByOne, NodesInv, Adoptions, AdoptStep

\* An adoption begins with the pair it finds, or without one.
LEMMA AdoptNodePairs ==
  ASSUME OneByOne, NodesInv, RetryInv, NEW a \in Adopts, NEW m \in Machines, NEW name \in Names, NEW root \in BOOLEAN,
         AdoptNode(a, m, name, root)
  PROVE  RetryInv'
<1> DEFINE f == folder[name]
           s == [NoAdopt EXCEPT !.at = m, !.name = name, !.pin = Console(m), !.root = root,
                          !.admin = IF Stored(f) THEN f.cert ELSE None,
                          !.pc = IF Stored(f) THEN "probe" ELSE "mint"]
<1>1. /\ m \notin Linked /\ name \in NameFor[m] /\ AdoptStep(a, s) /\ UNCHANGED <<machine, folder, tables, request>>
  BY DEF AdoptNode
<1>2. /\ s.at = m /\ s.name = name
      /\ \/ Stored(f) /\ s.pc = "probe" /\ s.admin = f.cert
         \/ ~ Stored(f) /\ s.pc = "mint" /\ s.admin = None
  BY DEF NoAdopt
<1> HIDE DEF s
<1>3. Holds(s, folder)
  BY <1>1, <1>2 DEF Holds
<1>4. Paired => Paired'
  BY <1>1, <1>3, OnlyAdoption, PairsFrame DEF Paired, SamePairs
<1> QED BY <1>1, <1>4, PairsOnly

\* A write to the folder of an adoption that has no pair there yet.
LEMMA UnpairedWrite ==
  ASSUME OneByOne, NodesInv, Paired, NEW a \in Adopts, adopt[a].pc \in {"mint", "key"}, machine' = machine,
         \A n \in Names : n # adopt[a].name => folder'[n] = folder[n],
         folder'[adopt[a].name].moved = folder[adopt[a].name].moved
  PROVE  Installed'
<1>1. folder[adopt[a].name].moved \/ ~ Stored(folder[adopt[a].name])
  BY DEF Paired, Holds
<1>2. ASSUME NEW m \in Machines \ Linked, machine[m].mode # "maintenance" PROVE Keeps(m)'
  <2>1. PICK name \in NameFor[m] :
          folder[name].moved \/ (Stored(folder[name]) /\ folder[name].cert = machine[m].admin)
    BY <1>2 DEF Paired, Installed, Keeps
  <2>2. name \in Names /\ (name = adopt[a].name => folder'[name].moved)
    BY <1>1, <2>1, NodesAssumption
  <2> QED BY <2>1, <2>2 DEF Keeps
<1> QED BY <1>2 DEF Installed

\* A certificate is minted, and its key written.
LEMMA MintPairs ==
  ASSUME OneByOne, NodesInv, RetryInv, NEW a \in Adopts, MintAdmin(a) \/ WriteKey(a)
  PROVE  RetryInv'
<1> DEFINE s == adopt[a]
           name == s.name
<1>1. s.pc \in {"mint", "key"} /\ UNCHANGED <<machine, tables, request>>
  BY DEF MintAdmin, WriteKey
<1>2. s \in Adopt /\ name \in Names /\ folder[name] \in Folder /\ folder \in [Names -> Folder]
  BY <1>1, AdoptionHas DEF NodesInv, Files
<1>3. CASE MintAdmin(a)
  <2> DEFINE x == CHOOSE y \in Admins : y \notin Minted
             t == [s EXCEPT !.pc = "key", !.admin = x]
  <2>1. /\ s.pc = "mint" /\ folder' = [folder EXCEPT ![name].cert = x] /\ AdoptStep(a, t)
        /\ \E y \in Admins : y \notin Minted
    BY <1>3 DEF MintAdmin
  <2>2. x \in Admins /\ x \notin Minted
    BY <2>1
  <2> HIDE DEF x
  <2>3. x # folder[name].key /\ x # s.admin
    BY <1>2, <2>2 DEF Minted
  <2>4. /\ folder'[name].cert = x /\ folder'[name].key = folder[name].key /\ folder'[name].moved = folder[name].moved
        /\ \A n \in Names : n # name => folder'[n] = folder[n]
    BY <1>2, <2>1 DEF Folder
  <2>5. t.pc = "key" /\ t.admin = x /\ t.at = s.at /\ t.name = name
    BY <1>2 DEF Adopt
  <2> HIDE DEF t
  <2>6. ASSUME Paired PROVE Paired'
    <3>1. Installed'
      BY <1>1, <2>4, <2>6, UnpairedWrite
    <3>2. Holds(s, folder)
      BY <2>6 DEF Paired
    <3>3. Holds(t, folder')
      BY <2>1, <2>3, <2>4, <2>5, <3>2 DEF Holds, Stored
    <3> QED BY <2>1, <3>1, <3>3, OnlyAdoption DEF Paired
  <2> QED BY <1>1, <2>6, PairsOnly
<1>4. CASE WriteKey(a) /\ ~ Present(folder[name])
  <2>1. AdoptStep(a, NoAdopt) /\ folder' = folder
    BY <1>4 DEF WriteKey, AdoptFail
  <2>2. \A b \in Adopts : GoesOn(b)
    BY <2>1, OnlyAdoption DEF GoesOn, NoAdopt
  <2>3. Paired => Paired'
    BY <1>1, <2>1, <2>2, PairsFrame DEF SamePairs
  <2> QED BY <1>1, <2>3, PairsOnly
<1>5. CASE WriteKey(a) /\ Present(folder[name])
  <2> DEFINE t == [s EXCEPT !.pc = "probe"]
  <2>1. s.pc = "key" /\ folder' = [folder EXCEPT ![name].key = s.admin] /\ AdoptStep(a, t)
    BY <1>5 DEF WriteKey, AdoptGoto, AdoptStep
  <2>2. /\ folder'[name].cert = folder[name].cert /\ folder'[name].key = s.admin /\ folder'[name].moved = folder[name].moved
        /\ \A n \in Names : n # name => folder'[n] = folder[n]
    BY <1>2, <2>1 DEF Folder
  <2>3. t.pc = "probe" /\ t.admin = s.admin /\ t.at = s.at /\ t.name = name
    BY <1>2 DEF Adopt
  <2> HIDE DEF t
  <2>4. ASSUME Paired PROVE Paired'
    <3>1. Installed'
      BY <1>1, <2>2, <2>4, UnpairedWrite
    <3>2. Holds(s, folder)
      BY <2>4 DEF Paired
    <3>3. Holds(t, folder')
      BY <2>1, <2>2, <2>3, <3>2 DEF Holds, Stored
    <3> QED BY <2>1, <3>1, <3>3, OnlyAdoption DEF Paired
  <2> QED BY <1>1, <2>4, PairsOnly
<1> QED BY <1>3, <1>4, <1>5

\* The machine is probed.
LEMMA ProbePairs ==
  ASSUME OneByOne, NodesInv, RetryInv, NEW a \in Adopts, Probe(a)
  PROVE  RetryInv'
<1> DEFINE s == adopt[a]
           t == [s EXCEPT !.pc = "apply"]
           w == [s EXCEPT !.pc = "await", !.ca = machine[s.at].ca]
<1>1. /\ s.pc = "probe" /\ UNCHANGED <<machine, folder, tables, request>>
      /\ AdoptStep(a, NoAdopt) \/ AdoptStep(a, t) \/ AdoptStep(a, w)
  BY DEF Probe, AdoptFail, AdoptGoto, AdoptStep
<1>2. s \in Adopt
  BY <1>1, AdoptionHas
<1>3. /\ t.pc = "apply" /\ t.admin = s.admin /\ t.at = s.at /\ t.name = s.name
      /\ w.pc = "await" /\ w.at = s.at /\ w.name = s.name /\ NoAdopt.pc = "idle"
  BY <1>2 DEF Adopt, NoAdopt
<1> HIDE DEF t, w
<1>4. ASSUME Paired PROVE Paired'
  <2>1. Installed' /\ Holds(s, folder)
    BY <1>1, <1>4, PairsFrame DEF SamePairs, Paired
  <2>2. Holds(NoAdopt, folder) /\ Holds(t, folder) /\ Holds(w, folder)
    BY <1>1, <1>3, <2>1 DEF Holds
  <2> QED BY <1>1, <2>1, <2>2, OnlyAdoption DEF Paired
<1> QED BY <1>1, <1>4, PairsOnly

\* The machine installs, and trusts the pair that is stored.
LEMMA ApplyPairs ==
  ASSUME OneByOne, NodesInv, RetryInv, NEW a \in Adopts, ApplyConfig(a)
  PROVE  RetryInv'
<1> DEFINE s == adopt[a]
           m == s.at
           t == [s EXCEPT !.pc = "await"]
<1>1. /\ s.pc = "apply" /\ UNCHANGED <<folder, tables, request>>
      /\ \/ /\ machine' = [machine EXCEPT ![m].mode = "installing", ![m].admin = s.admin] /\ AdoptStep(a, t)
         \/ machine' = machine /\ AdoptStep(a, NoAdopt)
  BY DEF ApplyConfig, AdoptFail, AdoptGoto, AdoptStep
<1>2. s \in Adopt /\ m \in Machines /\ machine \in [Machines -> Machine]
  BY <1>1, AdoptionHas DEF NodesInv, World
<1>3. t.pc = "await" /\ t.at = m /\ t.name = s.name /\ NoAdopt.pc = "idle"
  BY <1>2 DEF Adopt, NoAdopt
<1> HIDE DEF t
<1>4. ASSUME Paired PROVE Paired'
  <2>1. Holds(s, folder) /\ Installed
    BY <1>4 DEF Paired
  <2>2. Holds(NoAdopt, folder) /\ Holds(t, folder)
    BY <1>1, <1>3, <2>1 DEF Holds
  <2>3. \A k \in Machines : machine'[k] = machine[k] \/ (k = m /\ machine'[k].admin = s.admin)
    BY <1>1, <1>2 DEF Machine
  <2>4. ASSUME NEW k \in Machines \ Linked, machine'[k].mode # "maintenance" PROVE Keeps(k)'
    <3>1. CASE machine'[k] = machine[k]
      BY <1>1, <2>1, <2>4, <3>1 DEF Installed, Keeps
    <3>2. CASE k = m /\ machine'[k].admin = s.admin
      BY <1>1, <2>1, <3>2 DEF Holds, Keeps
    <3> QED BY <2>3, <3>1, <3>2
  <2> QED BY <1>1, <2>2, <2>4, OnlyAdoption DEF Paired, Installed
<1> QED BY <1>1, <1>4, PairsOnly

\* An adoption past its config goes on, or any one stops; files written are
\* not of the pair.
LEMMA LaterPairs ==
  ASSUME OneByOne, NodesInv, RetryInv, NEW a \in Adopts,
         \/ AwaitRunningCert(a) \/ Confirmed(a) \/ WritePin(a) \/ AwaitRunningNode(a) \/ StartCeremony(a)
         \/ RelayCeremony(a) \/ RecordCAChain(a) \/ RegisterRead(a) \/ AdoptTimeout(a) \/ AdoptCrash(a)
  PROVE  RetryInv'
<1>1. adopt[a].pc # "idle" /\ UNCHANGED <<tables, request>>
  BY DEF AwaitRunningCert, Confirmed, WritePin, AwaitRunningNode, StartCeremony, RelayCeremony, RecordCAChain,
         RegisterRead, AdoptTimeout, AdoptCrash, AdoptStops
<1>2. adopt[a] \in Adopt /\ adopt[a].name \in Names /\ adopt[a].at \in Machines /\ folder \in [Names -> Folder]
      /\ machine \in [Machines -> Machine] /\ adopt \in [Adopts -> Adopt]
  BY <1>1, AdoptionHas DEF NodesInv, Files, World, Adoptions
<1>3. \A n \in Names : /\ folder'[n].cert = folder[n].cert /\ folder'[n].key = folder[n].key
                       /\ folder'[n].moved = folder[n].moved
  BY <1>2 DEF AwaitRunningCert, Confirmed, WritePin, AwaitRunningNode, StartCeremony, RelayCeremony, RecordCAChain,
              RegisterRead, AdoptTimeout, AdoptCrash, AdoptStops, Folder
<1>4. \A m \in Machines : machine'[m].mode = machine[m].mode /\ machine'[m].admin = machine[m].admin
  BY <1>2 DEF AwaitRunningCert, Confirmed, WritePin, AwaitRunningNode, StartCeremony, RelayCeremony, RecordCAChain,
              RegisterRead, AdoptTimeout, AdoptCrash, AdoptStops, Machine
<1> DEFINE Later == \E s : /\ AdoptStep(a, s) /\ s.pc \notin {"mint", "key", "probe", "apply"}
                           /\ s.pc # "idle" => s.at = adopt[a].at /\ s.name = adopt[a].name
<1>5. Later
  <2>1. CASE AdoptStep(a, NoAdopt)
    BY <2>1 DEF NoAdopt
  <2>2. ASSUME NEW k \in {"pin", "dial", "register", "chain", "ceremony", "relay"}, AdoptGoto(a, k) PROVE Later
    <3> DEFINE t == [adopt[a] EXCEPT !.pc = k]
    <3>1. AdoptStep(a, t)
      BY <2>2 DEF AdoptGoto, AdoptStep
    <3>2. t.pc = k /\ t.at = adopt[a].at /\ t.name = adopt[a].name
      BY <1>2 DEF Adopt
    <3> HIDE DEF t
    <3> QED BY <3>1, <3>2
  <2>3. CASE AwaitRunningCert(a)
    <3> DEFINE t == [adopt[a] EXCEPT !.pc = "confirm", !.shown = Presents(adopt[a].at)]
    <3>1. AdoptStep(a, t)
      BY <2>3 DEF AwaitRunningCert
    <3>2. t.pc = "confirm" /\ t.at = adopt[a].at /\ t.name = adopt[a].name
      BY <1>2 DEF Adopt
    <3> HIDE DEF t
    <3> QED BY <3>1, <3>2
  <2>4. ASSUME NEW i, NEW n,
               \/ AdoptStep(a, [adopt[a] EXCEPT !.pc = "add", !.node = n])
               \/ AdoptStep(a, [adopt[a] EXCEPT !.pc = "update", !.id = i, !.node = n])
        PROVE  Later
    <3> DEFINE t == [adopt[a] EXCEPT !.pc = "add", !.node = n]
               u == [adopt[a] EXCEPT !.pc = "update", !.id = i, !.node = n]
    <3>1. AdoptStep(a, t) \/ AdoptStep(a, u)
      BY <2>4
    <3>2. /\ t.pc = "add" /\ t.at = adopt[a].at /\ t.name = adopt[a].name
          /\ u.pc = "update" /\ u.at = adopt[a].at /\ u.name = adopt[a].name
      BY <1>2 DEF Adopt
    <3> HIDE DEF t, u
    <3> QED BY <3>1, <3>2
  <2>5. CASE RegisterRead(a)
    BY <2>1, <2>4, <2>5 DEF RegisterRead, AdoptFail
  <2>6. CASE \/ Confirmed(a) \/ WritePin(a) \/ AwaitRunningNode(a) \/ StartCeremony(a) \/ RelayCeremony(a)
             \/ RecordCAChain(a) \/ AdoptTimeout(a) \/ AdoptCrash(a)
    BY <2>1, <2>2, <2>6 DEF Confirmed, WritePin, AwaitRunningNode, StartCeremony, RelayCeremony, RecordCAChain,
                            AdoptTimeout, AdoptCrash, AdoptStops, AdoptFail
  <2> QED BY <2>3, <2>5, <2>6
<1>6. \A b \in Adopts : GoesOn(b)
  BY <1>1, <1>5, OnlyAdoption DEF GoesOn
<1>7. Paired => Paired'
  BY <1>3, <1>4, <1>6, PairsFrame DEF SamePairs
<1> QED BY <1>1, <1>7, PairsOnly

\* The operator answers.
LEMMA AnswerPairs ==
  ASSUME OneByOne, NodesInv, RetryInv, NEW a \in Adopts, ConfirmAdoptionFingerprint(a)
  PROVE  RetryInv'
<1>1. UNCHANGED <<machine, folder, tables, adopt, request>>
  BY DEF ConfirmAdoptionFingerprint
<1>2. Paired => Paired'
  BY <1>1, PairsFrame DEF SamePairs
<1> QED BY <1>1, <1>2, PairsOnly

\* The node of an adoption falls silent, or answers again.
LEMMA SilentPairs ==
  ASSUME OneByOne, NodesInv, RetryInv, NEW a \in Adopts, NodeSilent(a)
  PROVE  RetryInv'
<1> DEFINE s == adopt[a]
           t == [s EXCEPT !.silent = ~ @]
<1>1. s.pc \in NodeCalls /\ AdoptStep(a, t) /\ UNCHANGED <<machine, folder, tables, request>>
  BY DEF NodeSilent, AdoptStep
<1>2. s \in Adopt
  BY <1>1, AdoptionHas DEF NodeCalls
<1>3. t.pc = s.pc /\ t.at = s.at /\ t.name = s.name /\ t.admin = s.admin
  BY <1>2 DEF Adopt
<1> HIDE DEF t
<1>4. ASSUME Paired PROVE Paired'
  <2>1. Installed' /\ Holds(s, folder)
    BY <1>1, <1>4, PairsFrame DEF SamePairs, Paired
  <2>2. Holds(t, folder)
    BY <1>3, <2>1 DEF Holds
  <2> QED BY <1>1, <2>1, <2>2, OnlyAdoption DEF Paired
<1> QED BY <1>1, <1>4, PairsOnly

\* The node joins the inventory.
LEMMA RegisterPairs ==
  ASSUME OneByOne, NodesInv, RetryInv, NEW a \in Adopts, RegisterAdd(a)
  PROVE  RetryInv'
<1>1. AdoptStep(a, NoAdopt) /\ UNCHANGED <<machine, folder, enrollments, request>>
  BY DEF RegisterAdd, AdoptFail
<1>2. \A b \in Adopts : GoesOn(b)
  BY <1>1, OnlyAdoption DEF GoesOn, NoAdopt
<1>3. Paired => Paired'
  BY <1>1, <1>2, PairsFrame DEF SamePairs
<1> QED BY <1>1, <1>3, RequestsKeep DEF RetryInv

\* Machines boot or are wiped, others answer for them, a certificate is pinned.
LEMMA MachinePairs ==
  ASSUME OneByOne, NodesInv, RetryInv,
         \/ \E m \in Machines : InstallDone(m) \/ Reboot(m) \/ Hijack(m)
         \/ \E id \in NodeIds : DecommissionNode(id) \/ PinServerCert(id)
  PROVE  RetryInv'
<1>1. UNCHANGED <<tables, adopt, request>>
  BY DEF InstallDone, Reboot, Hijack, DecommissionNode, PinServerCert
<1>2. machine \in [Machines -> Machine] /\ folder \in [Names -> Folder]
  BY DEF NodesInv, World, Files
<1>3. ASSUME NEW m \in Machines, InstallDone(m) \/ Reboot(m) \/ Hijack(m) PROVE SamePairs
  BY <1>2, <1>3 DEF InstallDone, Reboot, Hijack, SamePairs, Machine
<1>4. ASSUME NEW id \in NodeIds, DecommissionNode(id) PROVE SamePairs
  <2> DEFINE m == nodes[id].at
             x == [mode |-> "maintenance", admin |-> None, ca |-> FALSE, boot |-> machine[m].boot + 1]
  <2>1. machine' = [machine EXCEPT ![m] = x] /\ folder' = folder /\ x.mode = "maintenance"
    BY <1>4 DEF DecommissionNode
  <2> HIDE DEF x
  <2>2. \A k \in Machines : machine'[k] = machine[k] \/ machine'[k].mode = "maintenance"
    BY <1>2, <2>1
  <2> QED BY <2>1, <2>2 DEF SamePairs
<1>5. ASSUME NEW id \in NodeIds, PinServerCert(id) PROVE SamePairs
  BY <1>2, <1>5 DEF PinServerCert, SamePairs, Folder
<1>6. Paired => Paired'
  BY <1>1, <1>3, <1>4, <1>5, PairsFrame
<1> QED BY <1>1, <1>6, PairsOnly

\* A request moves over the same rows.
LEMMA RequestPairs ==
  ASSUME OneByOne, NodesInv, RetryInv, NEW h \in Handlers, NEW r, Ask(h, r), SamePairs,
         UNCHANGED <<enrollments, adopt>>,
         r.pc = "plan" => r.row.name \in LinkNames,
         r.pc = "write" => Linkable(r.row),
         r.pc = "files" => r.node.dir \in LinkNames
  PROVE  RetryInv'
<1>1. Linking'
  BY RequestKeeps DEF RetryInv, Linking
<1>2. Paired'
  BY PairsFrame DEF RetryInv
<1> QED BY <1>1, <1>2 DEF RetryInv

\* A request ends.
LEMMA RequestEndPairs ==
  ASSUME OneByOne, NodesInv, RetryInv, NEW h \in Handlers, AskFail(h), SamePairs, UNCHANGED <<enrollments, adopt>>
  PROVE  RetryInv'
<1>1. NoRequest.pc = "idle"
  BY DEF NoRequest
<1> QED BY <1>1, RequestPairs DEF AskFail

\* Files and machines as they were.
LEMMA SamePairsOf == ASSUME UNCHANGED <<machine, folder>> PROVE SamePairs
BY DEF SamePairs

\* An enrollment is created.
LEMMA CreatePairs ==
  ASSUME OneByOne, NodesInv, RetryInv, NEW e \in Enrolls,
         \/ \E m \in Linked, name \in Names : CreateLink(e, m, name)
         \/ \E id \in NodeIds : CreateSubordinate(e, id)
  PROVE  RetryInv'
<1>1. ASSUME NEW row, AddEnrollment(e, row), Linkable(row) PROVE RetryInv'
  <2>1. /\ enrollments' = [enrollments EXCEPT ![e] = row]
        /\ UNCHANGED <<machine, folder, nodes, spans, adopt, request>>
    BY <1>1 DEF AddEnrollment
  <2>3. \A d \in Enrolls : enrollments'[d] # None => Linkable(enrollments'[d])
    BY <1>1, <2>1 DEF NodesInv, Rows, RetryInv, Linking
  <2>4. Linking'
    BY <2>1, <2>3 DEF RetryInv, Linking, Linkable
  <2>5. Paired => Paired'
    BY <2>1, SamePairsOf, PairsFrame
  <2> QED BY <2>4, <2>5 DEF RetryInv
<1>2. ASSUME NEW m \in Linked, NEW name \in Names, CreateLink(e, m, name) PROVE RetryInv'
  <2>1. name \in LinkNames
    BY <1>2 DEF CreateLink, LinkNames
  <2> QED BY <1>1, <1>2, <2>1 DEF CreateLink, Linkable
<1>3. ASSUME NEW id \in NodeIds, CreateSubordinate(e, id) PROVE RetryInv'
  BY <1>1, <1>3 DEF CreateSubordinate, Linkable
<1> QED BY <1>2, <1>3

\* A pending enrollment is to be approved or rejected; a node to be removed.
LEMMA BeginPairs ==
  ASSUME OneByOne, NodesInv, RetryInv, NEW h \in Handlers,
         \/ \E e \in Enrolls : ApproveEnrollment(h, e) \/ RejectEnrollment(h, e)
         \/ \E id \in NodeIds : RemoveNode(h, id)
  PROVE  RetryInv'
<1>0. SamePairs /\ UNCHANGED <<enrollments, adopt>>
  BY SamePairsOf DEF ApproveEnrollment, RejectEnrollment, RemoveNode, tables
<1>1. ASSUME NEW e \in Enrolls, ApproveEnrollment(h, e) PROVE RetryInv'
  <2> DEFINE pc == IF enrollments[e].kind = "LINK" THEN "plan" ELSE "child"
             r == [NoRequest EXCEPT !.enr = e, !.row = enrollments[e], !.status = "APPROVED", !.pc = pc]
  <2>1. enrollments[e] \in Enrollment /\ enrollments[e] # None /\ Ask(h, r)
    BY <1>1 DEF ApproveEnrollment, NodesInv, Rows
  <2>2. pc \in {"plan", "child"} /\ (pc = "plan" => enrollments[e].name \in LinkNames)
    BY <2>1 DEF RetryInv, Linking, Linkable
  <2> HIDE DEF pc
  <2>3. r \in Request /\ r.pc = pc /\ r.row = enrollments[e]
    BY <2>1, <2>2 DEF NoRequest, Request
  <2> HIDE DEF r
  <2> QED BY <1>0, <2>1, <2>2, <2>3, RequestPairs
<1>2. ASSUME NEW e \in Enrolls, RejectEnrollment(h, e) PROVE RetryInv'
  <2> DEFINE r == [NoRequest EXCEPT !.pc = "decide", !.enr = e, !.status = "REJECTED"]
  <2>1. r \in Request /\ r.pc = "decide" /\ Ask(h, r)
    BY <1>2 DEF RejectEnrollment, NoRequest, Request
  <2> HIDE DEF r
  <2> QED BY <1>0, <2>1, RequestPairs
<1>3. ASSUME NEW id \in NodeIds, RemoveNode(h, id) PROVE RetryInv'
  <2> DEFINE r == [NoRequest EXCEPT !.pc = "remove", !.id = id]
  <2>1. r \in Request /\ r.pc = "remove" /\ Ask(h, r)
    BY <1>3 DEF RemoveNode, NoRequest, Request
  <2> HIDE DEF r
  <2> QED BY <1>0, <2>1, RequestPairs
<1> QED BY <1>1, <1>2, <1>3

\* A machine is linked: its files go under a name for linked machines.
LEMMA PlanPairs ==
  ASSUME OneByOne, NodesInv, RetryInv, NEW h \in Handlers, NEW m \in Linked, NEW pinned \in BOOLEAN,
         PlanLinkedNode(h, m, pinned)
  PROVE  RetryInv'
<1> DEFINE q == request[h]
           x == PemServerTrust(m, pinned).pin
           n == [name |-> q.row.name, at |-> m, dir |-> q.row.name, chain |-> IF pinned THEN None ELSE q.row.name]
           r == [q EXCEPT !.pc = "files", !.pinned = x, !.node = n]
           here == {i \in Inventory : nodes[i].at = m}
<1>1. /\ q.pc = "plan" /\ UNCHANGED <<machine, folder, enrollments, adopt>>
      /\ \/ AskFail(h)
         \/ \E i \in here : Ask(h, [q EXCEPT !.pc = "decide", !.id = i])
         \/ Ask(h, r)
  BY DEF PlanLinkedNode, tables
<1>2. q \in Request /\ q.row \in Enrollment /\ q.row.name \in LinkNames /\ SamePairs
  BY <1>1, RequestHas, SamePairsOf DEF Asking, RetryInv, Linking
<1>3. CASE AskFail(h)
  BY <1>1, <1>2, <1>3, RequestEndPairs
<1>4. ASSUME NEW i \in here, Ask(h, [q EXCEPT !.pc = "decide", !.id = i]) PROVE RetryInv'
  <2> DEFINE d == [q EXCEPT !.pc = "decide", !.id = i]
  <2>1. d \in Request /\ d.pc = "decide"
    BY <1>2 DEF Request, Inventory
  <2>2. Ask(h, d)
    BY <1>4
  <2> HIDE DEF d
  <2> QED BY <1>1, <1>2, <2>1, <2>2, RequestPairs
<1>5. CASE Ask(h, r)
  <2>1. m \in Machines /\ q.row.name \in Names
    BY <1>2, NodesAssumption DEF Enrollment
  <2>2. n \in Node /\ n.dir = q.row.name
    BY <2>1 DEF Node
  <2>3. x \in Certificate \cup {None}
    BY <2>1, ConsoleGenuine DEF PemServerTrust, NodesInv, Genuine
  <2> HIDE DEF x, n
  <2>4. r \in Request /\ r.pc = "files" /\ r.node = n
    BY <1>2, <2>2, <2>3 DEF Request
  <2> HIDE DEF r
  <2> QED BY <1>1, <1>2, <1>5, <2>2, <2>4, RequestPairs
<1> HIDE DEF r, q, here
<1> QED BY <1>1, <1>3, <1>4, <1>5

LEMMA LinkFilesPairs ==
  ASSUME OneByOne, NodesInv, RetryInv, NEW h \in Handlers, NEW written, LinkFiles(h, written)
  PROVE  RetryInv'
<1> DEFINE q == request[h]
           r == [q EXCEPT !.pc = "link"]
<1>1. /\ q.pc = "files" /\ UNCHANGED <<machine, enrollments, adopt>> /\ (Ask(h, r) \/ AskFail(h))
      /\ \A n \in Names : n # q.node.dir => folder'[n] = folder[n]
  BY DEF LinkFiles, AskNext, Ask, NodesInv, Files, tables
<1>2. q \in Request /\ q.node.dir \in LinkNames
  BY <1>1, RequestHas DEF RetryInv, Linking
<1>3. SamePairs
  BY <1>1, <1>2 DEF SamePairs
<1>4. r \in Request /\ r.pc = "link"
  BY <1>2 DEF Request
<1> HIDE DEF r
<1> QED BY <1>1, <1>3, <1>4, RequestPairs, RequestEndPairs

\* A node is added, or written back, or leaves.
LEMMA InventoryPairs ==
  ASSUME OneByOne, NodesInv, RetryInv, NEW h \in Handlers, LinkAdd(h) \/ RecordChild(h) \/ DeleteNode(h)
  PROVE  RetryInv'
<1>1. UNCHANGED <<machine, folder, enrollments, adopt>> /\ request[h] \in Request
  BY RequestHas DEF LinkAdd, RecordChild, DeleteNode
<1>2. ASSUME NEW i, NEW n,
             \/ Ask(h, [request[h] EXCEPT !.pc = "decide", !.id = i])
             \/ Ask(h, [request[h] EXCEPT !.pc = "decide"])
             \/ Ask(h, [request[h] EXCEPT !.pc = "aside", !.node = n])
      PROVE  RetryInv'
  <2> DEFINE q == [request[h] EXCEPT !.pc = "decide", !.id = i]
             r == [request[h] EXCEPT !.pc = "decide"]
             t == [request[h] EXCEPT !.pc = "aside", !.node = n]
  <2>1. q.pc = "decide" /\ r.pc = "decide" /\ t.pc = "aside"
    BY <1>1 DEF Request
  <2>2. Ask(h, q) \/ Ask(h, r) \/ Ask(h, t)
    BY <1>2
  <2> HIDE DEF q, r, t
  <2> QED BY <1>1, <2>1, <2>2, SamePairsOf, RequestPairs
<1>3. CASE AskFail(h)
  BY <1>1, <1>3, SamePairsOf, RequestEndPairs
<1> QED BY <1>2, <1>3 DEF LinkAdd, RecordChild, DeleteNode, AskNext, Ask

\* The child of an enrollment is found, and gets its certificate.
LEMMA ResolvePairs ==
  ASSUME OneByOne, NodesInv, RetryInv, NEW h \in Handlers, ResolveChild(h)
  PROVE  RetryInv'
<1> DEFINE q == request[h]
           name == q.row.name
           found == IF Named(name) # {} THEN Named(name) ELSE NodeByFormerName(name)
<1>1. /\ q.pc = "child" /\ UNCHANGED <<machine, folder, enrollments, adopt>>
      /\ AskFail(h) \/ \E i \in found : Ask(h, [q EXCEPT !.pc = "parent", !.id = i, !.node = nodes[i]])
  BY DEF ResolveChild, tables
<1>2. q \in Request /\ SamePairs
  BY <1>1, RequestHas, SamePairsOf
<1> HIDE DEF found
<1>4. CASE AskFail(h)
  BY <1>1, <1>2, <1>4, RequestEndPairs
<1>5. ASSUME NEW i \in found, Ask(h, [q EXCEPT !.pc = "parent", !.id = i, !.node = nodes[i]]) PROVE RetryInv'
  <2> DEFINE r == [q EXCEPT !.pc = "parent", !.id = i, !.node = nodes[i]]
  <2>1. r.pc = "parent"
    BY <1>2 DEF Request
  <2>2. Ask(h, r)
    BY <1>5
  <2> HIDE DEF r
  <2> QED BY <1>1, <1>2, <2>1, <2>2, RequestPairs
<1> QED BY <1>1, <1>4, <1>5

LEMMA FerryPairs ==
  ASSUME OneByOne, NodesInv, RetryInv, NEW h \in Handlers,
         \/ FindParent(h) \/ GetSubordinateCSR(h) \/ SignChildCSR(h)
         \/ SubmitSubordinateCertificate(h) \/ KeepChain(h)
  PROVE  RetryInv'
<1> DEFINE q == request[h]
           n == q.node
<1>1. q.pc \in Ferried /\ UNCHANGED <<enrollments, adopt>>
  BY DEF FindParent, GetSubordinateCSR, SignChildCSR, SubmitSubordinateCertificate, KeepChain, tables, Ferried
<1>2. q \in Request /\ n \in Node
  BY <1>1, RequestHas DEF Asking, Ferried
<1>3. n.at \in Machines /\ n.dir \in Names /\ machine \in [Machines -> Machine] /\ folder \in [Names -> Folder]
  BY <1>2, NodeFields DEF NodesInv, World, Files
<1>4. SamePairs
  <2>1. /\ machine' = machine \/ machine' = [machine EXCEPT ![n.at].ca = TRUE]
        /\ folder' = folder \/ folder' = [folder EXCEPT ![n.dir].chain = n.at]
    BY DEF FindParent, GetSubordinateCSR, SignChildCSR, SubmitSubordinateCertificate, KeepChain
  <2>2. \A m \in Machines : machine'[m].mode = machine[m].mode /\ machine'[m].admin = machine[m].admin
    BY <1>3, <2>1 DEF Machine
  <2>3. \A d \in Names : /\ folder'[d].cert = folder[d].cert /\ folder'[d].key = folder[d].key
                         /\ folder'[d].moved = folder[d].moved
    BY <1>3, <2>1 DEF Folder
  <2> QED BY <2>2, <2>3 DEF SamePairs
<1>5. CASE AskFail(h)
  BY <1>1, <1>4, <1>5, RequestEndPairs
<1>6. ASSUME NEW k \in Ferried \cup {"decide"}, NEW p, NEW b,
             \/ Ask(h, [q EXCEPT !.pc = k])
             \/ Ask(h, [q EXCEPT !.pc = k, !.parent = p])
             \/ Ask(h, [q EXCEPT !.pc = k, !.boot = b])
      PROVE  RetryInv'
  <2> DEFINE r == [q EXCEPT !.pc = k]
             t == [q EXCEPT !.pc = k, !.parent = p]
             u == [q EXCEPT !.pc = k, !.boot = b]
  <2>1. r.pc = k /\ t.pc = k /\ u.pc = k
    BY <1>2 DEF Request
  <2>2. Ask(h, r) \/ Ask(h, t) \/ Ask(h, u)
    BY <1>6
  <2>3. k \notin {"plan", "write", "files"}
    BY DEF Ferried
  <2> HIDE DEF r, t, u
  <2> QED BY <1>1, <1>4, <2>1, <2>2, <2>3, RequestPairs
<1> QED BY <1>5, <1>6 DEF FindParent, GetSubordinateCSR, SignChildCSR, SubmitSubordinateCertificate, KeepChain,
                          AskNext, Ask, Ferried

\* The decision is read and written.
LEMMA DecisionPairs ==
  ASSUME OneByOne, NodesInv, RetryInv, NEW h \in Handlers, EnrollmentRead(h) \/ UpdateEnrollment(h)
  PROVE  RetryInv'
<1> DEFINE q == request[h]
           e == enrollments[q.enr]
<1>1. CASE EnrollmentRead(h)
  <2> DEFINE row == IF q.status = "REJECTED" THEN [e EXCEPT !.status = "REJECTED"]
                    ELSE [e EXCEPT !.status = "APPROVED", !.node = q.id]
             r == [q EXCEPT !.pc = "write", !.row = row]
  <2>1. q.pc = "decide" /\ Ask(h, r) /\ UNCHANGED <<machine, folder, enrollments, adopt>>
    BY <1>1 DEF EnrollmentRead, tables
  <2>2. q \in Request /\ q.enr \in Enrolls /\ e # None /\ (q.status # "REJECTED" => q.id \in NodeIds)
    BY <2>1, RequestHas DEF Asking, Ferried
  <2>3. e \in Enrollment /\ Linkable(e)
    BY <2>2 DEF NodesInv, Rows, RetryInv, Linking
  <2>4. row \in Enrollment /\ row.kind = e.kind /\ row.name = e.name
    BY <2>2, <2>3 DEF Enrollment
  <2> HIDE DEF row
  <2>5. r \in Request /\ r.pc = "write" /\ r.row = row
    BY <2>2, <2>4 DEF Request
  <2> HIDE DEF r
  <2>6. Linkable(row)
    BY <2>3, <2>4 DEF Linkable
  <2> QED BY <2>1, <2>5, <2>6, SamePairsOf, RequestPairs
<1>2. CASE UpdateEnrollment(h)
  <2>1. /\ q.pc = "write" /\ enrollments' = [enrollments EXCEPT ![q.enr] = q.row] /\ Ask(h, NoRequest)
        /\ UNCHANGED <<machine, folder, nodes, spans, adopt>>
    BY <1>2 DEF UpdateEnrollment, AskFail
  <2>2. Linkable(q.row)
    BY <2>1 DEF RetryInv, Linking
  <2>3. \A d \in Enrolls : enrollments'[d] # None => Linkable(enrollments'[d])
    BY <2>1, <2>2 DEF NodesInv, Rows, RetryInv, Linking
  <2>4. NoRequest.pc = "idle"
    BY DEF NoRequest
  <2>5. Linking'
    BY <2>1, <2>3, <2>4, RequestKeeps
  <2>6. Paired => Paired'
    BY <2>1, SamePairsOf, PairsFrame
  <2> QED BY <2>5, <2>6 DEF RetryInv
<1> QED BY <1>1, <1>2

\* A node is renamed.
LEMMA RenamePairs ==
  ASSUME OneByOne, NodesInv, RetryInv, NEW id \in NodeIds, NEW name \in Names, RenameNode(id, name)
  PROVE  RetryInv'
<1>1. UNCHANGED <<machine, folder, enrollments, adopt, request>>
  BY DEF RenameNode
<1>2. Paired => Paired'
  BY <1>1, SamePairsOf, PairsFrame
<1> QED BY <1>1, <1>2, RequestsKeep DEF RetryInv

\* The files of a removed node are moved away.
LEMMA AsidePairs ==
  ASSUME OneByOne, NodesInv, RetryInv, NEW h \in Handlers, MoveCredsAside(h)
  PROVE  RetryInv'
<1> DEFINE dir == request[h].node.dir
           gone == [NoFolder EXCEPT !.moved = TRUE]
           new == IF Present(folder[dir]) THEN gone ELSE folder[dir]
<1>1. folder' = [folder EXCEPT ![dir] = new] /\ AskFail(h) /\ UNCHANGED <<machine, enrollments, adopt>>
  BY DEF MoveCredsAside, tables
<1>2. gone.moved
  BY DEF NoFolder
<1> HIDE DEF gone
<1>3. \A n \in Names : folder'[n] = folder[n] \/ folder'[n].moved
  BY <1>1, <1>2 DEF NodesInv, Files
<1>4. SamePairs
  BY <1>1, <1>3 DEF SamePairs
<1> QED BY <1>1, <1>4, RequestEndPairs

\* Every step keeps the invariant.
LEMMA RetryNextStep ==
  ASSUME OneByOne, NodesInv, RetryInv, [NodesNext]_nodeVars
  PROVE  RetryInv'
<1>1. ASSUME NEW a \in Adopts, AdoptSteps(a) \/ AdoptCrash(a) \/ NodeSilent(a) \/ ConfirmAdoptionFingerprint(a)
      PROVE  RetryInv'
  BY <1>1, MintPairs, ProbePairs, ApplyPairs, LaterPairs, SilentPairs, AnswerPairs, RegisterPairs DEF AdoptSteps
<1>2. ASSUME NEW h \in Handlers, RequestSteps(h) PROVE RetryInv'
  BY <1>2, PlanPairs, LinkFilesPairs, InventoryPairs, ResolvePairs, FerryPairs, DecisionPairs, AsidePairs
     DEF RequestSteps
<1>3. ASSUME NEW h \in Handlers, RequestCrash(h) PROVE RetryInv'
  BY <1>3, SamePairsOf, RequestEndPairs DEF RequestCrash, tables
<1>4. ASSUME NEW a \in Adopts, NEW m \in Machines, NEW name \in Names, NEW root \in BOOLEAN, AdoptNode(a, m, name, root)
      PROVE  RetryInv'
  BY <1>4, AdoptNodePairs
<1>5. CASE \/ \E m \in Machines : InstallDone(m) \/ Reboot(m) \/ Hijack(m)
           \/ \E id \in NodeIds : DecommissionNode(id) \/ PinServerCert(id)
  BY <1>5, MachinePairs
<1>6. CASE \/ \E e \in Enrolls, m \in Linked, name \in Names : CreateLink(e, m, name)
           \/ \E e \in Enrolls, id \in NodeIds : CreateSubordinate(e, id)
  BY <1>6, CreatePairs
<1>7. CASE \/ \E h \in Handlers, e \in Enrolls : ApproveEnrollment(h, e) \/ RejectEnrollment(h, e)
           \/ \E h \in Handlers, id \in NodeIds : RemoveNode(h, id)
           \/ \E id \in NodeIds, name \in Names : RenameNode(id, name)
  BY <1>7, BeginPairs, RenamePairs
<1>8. CASE UNCHANGED nodeVars
  <2>1. UNCHANGED <<machine, folder, tables, adopt, request>>
    BY <1>8 DEF nodeVars
  <2>2. Paired => Paired'
    BY <2>1, SamePairsOf, PairsFrame
  <2> QED BY <2>1, <2>2, PairsOnly
<1> QED BY <1>1, <1>2, <1>3, <1>4, <1>5, <1>6, <1>7, <1>8 DEF NodesNext

\* With one adoption at a time, and linked machines under names of their own, an
\* adoption that stopped anywhere can be retried: the machine it installed trusts
\* the pair stored under a name it may be adopted by, which loadOrMintAdmin
\* reuses, until a removal moves that folder away; for any number of machines,
\* requests, stops, reboots, renames, links and impostors (AdoptNode,
\* writeAdminCreds, ApplyConfig, moveCredsAside).
THEOREM AdoptionRetries == ASSUME OneByOne PROVE NodesSpec => []RetrySafe
<1>1. NodesInit => RetryInv
  <2> SUFFICES ASSUME NodesInit PROVE RetryInv
    OBVIOUS
  <2>1. /\ \A m \in Machines \ Linked : machine[m].mode = "maintenance"
        /\ \A e \in Enrolls : enrollments[e] = None
        /\ \A h \in Handlers : request[h] = NoRequest
        /\ \A a \in Adopts : adopt[a] = NoAdopt
    BY DEF NodesInit
  <2>2. NoRequest.pc = "idle" /\ NoAdopt.pc = "idle"
    BY DEF NoRequest, NoAdopt
  <2>3. Linking
    BY <2>1, <2>2 DEF Linking
  <2>4. Paired
    BY <2>1, <2>2 DEF Paired, Installed, Holds
  <2> QED BY <2>3, <2>4 DEF RetryInv
<1>2. NodesInv /\ RetryInv /\ [NodesNext]_nodeVars => RetryInv'
  BY RetryNextStep
<1>3. RetryInv => RetrySafe
  BY DEF RetryInv, Paired, Installed, Keeps, Stored, RetrySafe
<1> QED BY <1>1, <1>2, <1>3, NodesInvariant, PTL DEF NodesSpec
=============================================================================
