------------------------------- MODULE Nodes -------------------------------
(***************************************************************************)
(* The node inventory and everything that changes it: adoption, LINK and   *)
(* SUBORDINATE enrollment, rename, removal and decommission (internal/     *)
(* fleet), the trust and credential files the manager keeps for a node     *)
(* (internal/nodeclient, fleet/nodetrust.go) and the nodes, node_names and *)
(* enrollments tables.                                                     *)
(*                                                                         *)
(* A machine stands at one endpoint and is named by it.  Its folder under  *)
(* the node credentials folder is named by the node's name when it joined. *)
(* A handler takes one step per store call, file write or node call; it    *)
(* may stop after any of them.                                             *)
(***************************************************************************)
EXTENDS Levels, FiniteSets

CONSTANTS
  Machines,    \* machines, each at its own endpoint
  Linked,      \* those that run already, provisioned by hand
  Names,       \* node names
  NameFor,     \* the names an operator gives each machine
  NodeIds,     \* stable node IDs
  Admins,      \* admin credentials
  Given,       \* the credential an operator holds for each linked machine
  Adopts,      \* slots for adoption streams
  Handlers,    \* slots for enrollment and removal requests
  Enrolls,     \* enrollment IDs
  Impostor,    \* something else answering on a machine's address
  MaxNodeFaults, MaxRenames   \* bounds

ASSUME NodesAssumption ==
  /\ Linked \subseteq Machines
  /\ NameFor \in [Machines -> SUBSET Names]
  /\ Given \in [Linked -> Admins]
  /\ Impostor \notin Machines
  /\ MaxNodeFaults \in Nat /\ MaxRenames \in Nat

VARIABLES
  machine,     \* each machine: what it runs, and which admin it trusts
  hijacked,    \* machines whose address something else answers on
  folder,      \* files: admin.crt, admin.key, server.crt (the pin), ca.crt;
               \* whether a removal moved the folder to .removed
  nodes,       \* the nodes table
  spans,       \* node_names: who held which name, and when it was given up
  enrollments,
  adopt, request,
  waiting,     \* adoptionWaits: the fingerprint each adoption waits on
  answer,      \* pendingConfirm.result
  ferried,     \* history: the nodes that got a certificate under each enrollment
  faults, renames

tables == <<nodes, spans, enrollments>>
confirms == <<waiting, answer>>
bounds == <<faults, renames>>
nodeVars == <<machine, hijacked, folder, tables, adopt, request, confirms, ferried, bounds>>

\* What a machine presents: its maintenance certificate, a self-signed one per
\* boot, or one signed by its CA.
Certificate == [of : Machines \cup {Impostor}, kind : {"maintenance", "boot", "ca"}, boot : Nat]
Machine == [mode : {"maintenance", "installing", "running"}, admin : Admins \cup {None},
            ca : BOOLEAN, boot : Nat]
Folder == [cert : Admins \cup {None}, key : Admins \cup {None}, pin : Certificate \cup {None},
           chain : Machines \cup {None}, moved : BOOLEAN]
Node == [name : Names, at : Machines, dir : Names, chain : Names \cup {None}]
Enrollment == [kind : {"LINK", "SUBORDINATE"}, status : {"PENDING", "APPROVED", "REJECTED"},
               name : Names, at : Machines \cup {None}, child : NodeIds \cup {None},
               node : NodeIds \cup {None}]
Adopt == [pc : {"idle", "mint", "key", "probe", "apply", "await", "confirm", "pin", "dial",
                "ceremony", "relay", "chain", "register", "update", "add"},
          at : Machines \cup {None}, name : Names \cup {None}, pin : Certificate \cup {None},
          admin : Admins \cup {None}, root : BOOLEAN, ca : BOOLEAN, shown : Certificate \cup {None},
          node : Node \cup {None}, id : NodeIds \cup {None}, silent : BOOLEAN]
Request == [pc : {"idle", "plan", "files", "link", "child", "parent", "csr", "sign", "submit", "keep",
                  "record", "decide", "write", "remove", "aside"},
            enr : Enrolls \cup {None}, id : NodeIds \cup {None}, node : Node \cup {None},
            parent : Node \cup {None}, boot : Nat,
            pinned : Certificate \cup {None}, row : Enrollment \cup {None}, status : {"APPROVED", "REJECTED", None}]
Span == [id : NodeIds, name : Names, until : Nat]

NoFolder == [cert |-> None, key |-> None, pin |-> None, chain |-> None, moved |-> FALSE]
NoAdopt == [pc |-> "idle", at |-> None, name |-> None, pin |-> None, admin |-> None, root |-> FALSE,
            ca |-> FALSE, shown |-> None, node |-> None, id |-> None, silent |-> FALSE]
NoRequest == [pc |-> "idle", enr |-> None, id |-> None, node |-> None, parent |-> None, boot |-> 0,
              pinned |-> None, row |-> None, status |-> None]

\* None stands for no row, file or node, so it is none of them.
ASSUME NodeRowsAssumption == None \notin Node \cup Enrollment \cup Certificate

Inventory == {i \in NodeIds : nodes[i] # None}
Named(name) == {i \in Inventory : nodes[i].name = name}

\* Types, and the unique constraints of the nodes table.
NodesTypeOK ==
  /\ machine \in [Machines -> Machine]
  /\ hijacked \subseteq Machines
  /\ folder \in [Names -> Folder]
  /\ nodes \in [NodeIds -> Node \cup {None}]
  /\ spans \subseteq Span
  /\ enrollments \in [Enrolls -> Enrollment \cup {None}]
  /\ adopt \in [Adopts -> Adopt]
  /\ request \in [Handlers -> Request]
  /\ waiting \in [Adopts -> Certificate \cup {None}]
  /\ answer \in [Adopts -> {None, "match", "mismatch"}]
  /\ ferried \in [Enrolls -> SUBSET NodeIds]
  /\ faults \in 0..MaxNodeFaults /\ renames \in 0..MaxRenames
  /\ \A name \in Names : Cardinality(Named(name)) <= 1

\* The manager starts with an inventory seeded from nodes[] of its config: one
\* linked machine, its files in the node credentials folder.
NodesInit ==
  /\ machine = [m \in Machines |->
       IF m \in Linked THEN [mode |-> "running", admin |-> Given[m], ca |-> TRUE, boot |-> 0]
       ELSE [mode |-> "maintenance", admin |-> None, ca |-> FALSE, boot |-> 0]]
  /\ hijacked = {}
  /\ \E m \in Linked, name \in Names, id \in NodeIds :
       /\ name \in NameFor[m] /\ id = CHOOSE i \in NodeIds : TRUE
       /\ folder = [n \in Names |-> IF n # name THEN NoFolder
            ELSE [cert |-> Given[m], key |-> Given[m], pin |-> None, chain |-> m, moved |-> FALSE]]
       /\ nodes = [i \in NodeIds |-> IF i # id THEN None
            ELSE [name |-> name, at |-> m, dir |-> name, chain |-> name]]
       /\ spans = {[id |-> id, name |-> name, until |-> 0]}
  /\ enrollments = [e \in Enrolls |-> None]
  /\ adopt = [a \in Adopts |-> NoAdopt]
  /\ request = [h \in Handlers |-> NoRequest]
  /\ waiting = [a \in Adopts |-> None]
  /\ answer = [a \in Adopts |-> None]
  /\ ferried = [e \in Enrolls |-> {}]
  /\ faults = 0 /\ renames = 0

-----------------------------------------------------------------------------
(* The tables.                                                             *)

\* AddNode: a node of that name keeps its ID and takes the other fields; a new
\* one starts its name history.  An ID already in use makes the insert panic.
AddNode(id, n) ==
  IF Named(n.name) # {}
  THEN /\ nodes' = [i \in NodeIds |-> IF i \in Named(n.name) THEN n ELSE nodes[i]]
       /\ UNCHANGED spans
  ELSE IF id \in Inventory THEN UNCHANGED <<nodes, spans>>
  ELSE /\ nodes' = [nodes EXCEPT ![id] = n]
       /\ spans' = spans \cup {[id |-> id, name |-> n.name, until |-> 0]}

\* Variant: the span of the old name stays open.
ClosedNever(id) == spans

\* The name span a rename or a removal closes; until orders the closings.
Closed(id) ==
  LET at == 1 + Cardinality({s \in spans : s.until # 0}) IN
  {IF s.id = id /\ s.until = 0 THEN [s EXCEPT !.until = at] ELSE s : s \in spans}

\* NodeByFormerName: the node still in the inventory that gave the name up
\* last.  Empty when there is none.
NodeByFormerName(name) ==
  LET gone == {s \in spans : s.name = name /\ s.until # 0 /\ s.id \in Inventory} IN
  {s.id : s \in {t \in gone : \A u \in gone : u.until <= t.until}}

\* An ID no node has or had: the history names every one handed out.
Unused == NodeIds \ {s.id : s \in spans}
NewNodeID == CHOOSE id \in Unused : TRUE

-----------------------------------------------------------------------------
(* Dialing a node.                                                         *)

\* The certificate a machine serves, whose fingerprint its console shows.
Console(m) ==
  [of |-> m, boot |-> machine[m].boot,
   kind |-> IF machine[m].mode # "running" THEN "maintenance"
            ELSE IF machine[m].ca THEN "ca" ELSE "boot"]

\* FetchServerCert: whatever answers on the machine's address.
Presents(m) == IF m \in hijacked THEN [of |-> Impostor, kind |-> "boot", boot |-> 0] ELSE Console(m)

\* loadServerTrust: the chain the inventory records, if its file is there, and
\* the pin in the node's folder.
LoadServerTrust(node) ==
  [chain |-> IF node.chain = None THEN None ELSE folder[node.chain].chain, pin |-> folder[node.dir].pin]

\* pemServerTrust: what an operator supplies to link a machine, its CA or, pinned,
\* its own certificate.
PemServerTrust(m, pinned) == [chain |-> IF pinned THEN None ELSE m, pin |-> IF pinned THEN Console(m) ELSE None]

\* serverTrust.verify: the chain or the pin vouches for what the node presents.
\* Nothing recorded refuses.
Accepts(trust, c) == (c.kind = "ca" /\ c.of = trust.chain) \/ trust.pin = c

\* Dial, as far as one answered RPC: both ends accept each other.
Reaches(node) ==
  /\ Accepts(LoadServerTrust(node), Presents(node.at))
  /\ node.at \notin hijacked /\ machine[node.at].mode = "running"
  /\ folder[node.dir].cert = folder[node.dir].key
  /\ folder[node.dir].cert = machine[node.at].admin

-----------------------------------------------------------------------------
(* Adoption.                                                               *)

AdoptStep(a, s) == adopt' = [adopt EXCEPT ![a] = s]
AdoptGoto(a, pc) == adopt' = [adopt EXCEPT ![a].pc = pc]
AdoptFail(a) == AdoptStep(a, NoAdopt)

\* Admin credentials someone holds.
Minted == {folder[n].cert : n \in Names} \cup {folder[n].key : n \in Names}
          \cup {machine[m].admin : m \in Machines} \cup {Given[m] : m \in Linked}
          \cup {adopt[a].admin : a \in Adopts}

\* Variant: every attempt mints a new pair.
StoredNever(f) == FALSE

\* loadOrMintAdmin reuses a stored pair, if certificate and key match.
Stored(f) == f.cert # None /\ f.cert = f.key

\* The folder is there; a write to one that was moved away fails.
Present(f) == f.cert # None \/ f.key # None \/ f.pin # None \/ f.chain # None

\* The node answers the adoption's call.  Calls have no deadline.
NodeCalls == {"probe", "apply", "dial", "ceremony", "relay", "chain"}
Answers(a) == ~ adopt[a].silent

\* PreviewAdoption: the operator finds what answers to be what the console shows.
PreviewAdoption(m) == Presents(m) = Console(m)

\* AdoptNode, pinned to the certificate the operator confirmed in the preview.
AdoptNode(a, m, name, root) ==
  /\ adopt[a].pc = "idle"
  /\ m \notin Linked /\ name \in NameFor[m] /\ PreviewAdoption(m)
  /\ Cardinality(Unused) > Cardinality(Adopts)                            \* bound: NodeIds
  /\ Cardinality(Admins \ Minted) >= Cardinality(Adopts)                 \* bound: Admins
  /\ LET f == folder[name]
         whole == Stored(f) IN
     AdoptStep(a, [NoAdopt EXCEPT !.at = m, !.name = name, !.pin = Console(m), !.root = root,
                             !.admin = IF whole THEN f.cert ELSE None,
                             !.pc = IF whole THEN "probe" ELSE "mint"])
  /\ UNCHANGED <<machine, hijacked, folder, tables, request, confirms, ferried, bounds>>

\* mintBootstrapAdmin; writeAdminCreds writes the certificate, then the key.
MintAdmin(a) ==
  /\ adopt[a].pc = "mint" /\ Admins \ Minted # {}
  /\ LET x == CHOOSE y \in Admins : y \notin Minted IN
     /\ folder' = [folder EXCEPT ![adopt[a].name].cert = x]
     /\ AdoptStep(a, [adopt[a] EXCEPT !.pc = "key", !.admin = x])
  /\ UNCHANGED <<machine, hijacked, tables, request, confirms, ferried, bounds>>

WriteKey(a) ==
  /\ adopt[a].pc = "key"
  /\ IF Present(folder[adopt[a].name])
     THEN folder' = [folder EXCEPT ![adopt[a].name].key = adopt[a].admin] /\ AdoptGoto(a, "probe")
     ELSE AdoptFail(a) /\ UNCHANGED folder
  /\ UNCHANGED <<machine, hijacked, tables, request, confirms, ferried, bounds>>

\* dialMaintenance: exactly the pinned certificate.
DialMaintenance(a) == Presents(adopt[a].at) = adopt[a].pin

\* dialMaintenance and GetStatus: an installed node answers only its admin.
Probe(a) ==
  /\ adopt[a].pc = "probe" /\ Answers(a)
  /\ LET m == adopt[a].at IN
     IF ~ DialMaintenance(a) \/ machine[m].mode = "installing" THEN AdoptFail(a)
     ELSE IF machine[m].mode = "maintenance" THEN AdoptGoto(a, "apply")
     ELSE IF machine[m].admin # adopt[a].admin THEN AdoptFail(a)
     ELSE AdoptStep(a, [adopt[a] EXCEPT !.pc = "await", !.ca = machine[m].ca])
  /\ UNCHANGED <<machine, hijacked, folder, tables, request, confirms, ferried, bounds>>

\* ApplyConfig: the node installs, pinning the admin in the config.
ApplyConfig(a) ==
  /\ adopt[a].pc = "apply" /\ Answers(a)
  /\ LET m == adopt[a].at IN
     IF DialMaintenance(a) /\ machine[m].mode = "maintenance"
     THEN /\ machine' = [machine EXCEPT ![m].mode = "installing", ![m].admin = adopt[a].admin]
          /\ AdoptGoto(a, "await")
     ELSE AdoptFail(a) /\ UNCHANGED machine
  /\ UNCHANGED <<hijacked, folder, tables, request, confirms, ferried, bounds>>

\* awaitRunningCert captures whatever answers; awaitFingerprintConfirm shows
\* it to the operator and waits.
AwaitRunningCert(a) ==
  /\ adopt[a].pc = "await"
  /\ AdoptStep(a, [adopt[a] EXCEPT !.pc = "confirm", !.shown = Presents(adopt[a].at)])
  /\ waiting' = [waiting EXCEPT ![a] = Presents(adopt[a].at)]
  /\ answer' = [answer EXCEPT ![a] = None]
  /\ UNCHANGED <<machine, hijacked, folder, tables, request, ferried, bounds>>

\* ConfirmAdoptionFingerprint with what the machine's console shows.
ConfirmAdoptionFingerprint(a) ==
  /\ waiting[a] # None
  /\ answer' = [answer EXCEPT ![a] = IF waiting[a] = Console(adopt[a].at) THEN "match" ELSE "mismatch"]
  /\ waiting' = [waiting EXCEPT ![a] = None]
  /\ UNCHANGED <<machine, hijacked, folder, tables, adopt, request, ferried, bounds>>

Confirmed(a) ==
  /\ adopt[a].pc = "confirm" /\ answer[a] # None
  /\ IF answer[a] = "match" THEN AdoptGoto(a, "pin") ELSE AdoptFail(a)
  /\ answer' = [answer EXCEPT ![a] = None]
  /\ UNCHANGED <<machine, hijacked, folder, tables, request, waiting, ferried, bounds>>

\* Variant: what answers when the pin is written is pinned.
PinnedNow(a) == Presents(adopt[a].at)

\* WritePin: the certificate that was shown.
Pinned(a) == adopt[a].shown
WritePin(a) ==
  /\ adopt[a].pc = "pin"
  /\ IF Present(folder[adopt[a].name])
     THEN folder' = [folder EXCEPT ![adopt[a].name].pin = Pinned(a)] /\ AdoptGoto(a, "dial")
     ELSE AdoptFail(a) /\ UNCHANGED folder
  /\ UNCHANGED <<machine, hijacked, tables, request, confirms, ferried, bounds>>

\* awaitRunningNode; a root goes on to its ceremony unless it had a CA when it
\* was probed.
AwaitRunningNode(a) ==
  /\ adopt[a].pc = "dial" /\ Answers(a)
  /\ Reaches([name |-> adopt[a].name, at |-> adopt[a].at, dir |-> adopt[a].name, chain |-> None])
  /\ AdoptGoto(a, IF ~ adopt[a].root THEN "register"
             ELSE IF adopt[a].ca THEN "chain" ELSE "ceremony")
  /\ UNCHANGED <<machine, hijacked, folder, tables, request, confirms, ferried, bounds>>

\* StartCeremony: the node refuses a second one.
StartCeremony(a) ==
  /\ adopt[a].pc = "ceremony" /\ Answers(a)
  /\ LET m == adopt[a].at IN
     IF machine[m].mode = "running" /\ ~ machine[m].ca
     THEN machine' = [machine EXCEPT ![m].ca = TRUE] /\ AdoptGoto(a, "relay")
     ELSE AdoptFail(a) /\ UNCHANGED machine
  /\ UNCHANGED <<hijacked, folder, tables, request, confirms, ferried, bounds>>

\* relayCeremony: COMPLETE arrives, or the stream breaks or ends before it.
RelayCeremony(a) ==
  /\ adopt[a].pc = "relay" /\ Answers(a)
  /\ AdoptGoto(a, "chain") \/ AdoptFail(a)
  /\ UNCHANGED <<machine, hijacked, folder, tables, request, confirms, ferried, bounds>>

\* GetIdentity, and recordCAChain: ca.crt next to the admin certificate.
RecordCAChain(a) ==
  /\ adopt[a].pc = "chain" /\ Answers(a)
  /\ IF machine[adopt[a].at].ca /\ Present(folder[adopt[a].name])
     THEN folder' = [folder EXCEPT ![adopt[a].name].chain = adopt[a].at] /\ AdoptGoto(a, "register")
     ELSE AdoptFail(a) /\ UNCHANGED folder
  /\ UNCHANGED <<machine, hijacked, tables, request, confirms, ferried, bounds>>

\* registerAdoptedNode: a node of that name keeps its entry, taking a newly
\* recorded chain.
RegisterRead(a) ==
  /\ adopt[a].pc = "register"
  /\ IF Named(adopt[a].name) = {}
     THEN AdoptStep(a, [adopt[a] EXCEPT !.pc = "add", !.node =
            [name |-> adopt[a].name, at |-> adopt[a].at, dir |-> adopt[a].name,
             chain |-> IF adopt[a].root THEN adopt[a].name ELSE None]])
     ELSE LET i == CHOOSE j \in Named(adopt[a].name) : TRUE
              n == nodes[i] IN
          IF adopt[a].root /\ n.chain # adopt[a].name
          THEN AdoptStep(a, [adopt[a] EXCEPT !.pc = "update", !.id = i, !.node = [n EXCEPT !.chain = adopt[a].name]])
          ELSE AdoptFail(a)
  /\ UNCHANGED <<machine, hijacked, folder, tables, request, confirms, ferried, bounds>>

\* AddNode of the new node, or of the copy that was read, which keeps its ID.
RegisterAdd(a) ==
  /\ \/ adopt[a].pc = "add" /\ Unused # {} /\ AddNode(NewNodeID, adopt[a].node)
     \/ adopt[a].pc = "update" /\ AddNode(adopt[a].id, adopt[a].node)
  /\ AdoptFail(a)
  /\ UNCHANGED <<machine, hijacked, folder, enrollments, request, confirms, ferried, bounds>>

\* An adoption stops: one that waits for its operator is taken off the list.
AdoptStops(a) ==
  /\ waiting' = [waiting EXCEPT ![a] = None]
  /\ answer' = [answer EXCEPT ![a] = None]
  /\ AdoptFail(a)
  /\ UNCHANGED <<machine, hijacked, folder, tables, request, ferried>>

\* Variant: the wait for the operator has no end.
AdoptTimeoutNever(a) ==
  /\ adopt[a].pc \in {"await", "dial"} /\ Answers(a)
  /\ AdoptStops(a)
  /\ UNCHANGED bounds

\* rebootWait or the confirmation's wait is over.  awaitRunningNode looks at the
\* clock between two calls, so only once a call has come back.
AdoptTimeout(a) ==
  /\ adopt[a].pc \in {"await", "confirm", "dial"} /\ Answers(a)
  /\ AdoptStops(a)
  /\ UNCHANGED bounds

\* A node call fails, the client goes away or the manager stops.
AdoptCrash(a) ==
  /\ adopt[a].pc # "idle" /\ faults < MaxNodeFaults
  /\ AdoptStops(a)
  /\ faults' = faults + 1 /\ UNCHANGED renames

\* The node stops answering a call, the connection stays; or it answers again.
NodeSilent(a) ==
  /\ adopt[a].pc \in NodeCalls
  /\ adopt' = [adopt EXCEPT ![a].silent = ~ @]
  /\ IF adopt[a].silent THEN UNCHANGED faults ELSE faults < MaxNodeFaults /\ faults' = faults + 1
  /\ UNCHANGED <<machine, hijacked, folder, tables, request, confirms, ferried, renames>>

-----------------------------------------------------------------------------
(* Machines.                                                               *)

\* An installed machine reboots into its system.
InstallDone(m) ==
  /\ machine[m].mode = "installing"
  /\ machine' = [machine EXCEPT ![m].mode = "running", ![m].boot = @ + 1]
  /\ UNCHANGED <<hijacked, folder, tables, adopt, request, confirms, ferried, bounds>>

\* A machine without a CA has a new certificate after every boot.
Reboot(m) ==
  /\ machine[m].mode = "running" /\ ~ machine[m].ca /\ faults < MaxNodeFaults
  /\ machine' = [machine EXCEPT ![m].boot = @ + 1]
  /\ faults' = faults + 1
  /\ UNCHANGED <<hijacked, folder, tables, adopt, request, confirms, ferried, renames>>

Hijack(m) ==
  /\ \/ m \in hijacked /\ hijacked' = hijacked \ {m} /\ UNCHANGED faults
     \/ m \notin hijacked /\ faults < MaxNodeFaults
        /\ hijacked' = hijacked \cup {m} /\ faults' = faults + 1
  /\ UNCHANGED <<machine, folder, tables, adopt, request, confirms, ferried, renames>>

\* DecommissionNode: RemoteReset wipes the machine.
DecommissionNode(id) ==
  /\ id \in Inventory /\ Reaches(nodes[id]) /\ faults < MaxNodeFaults
  /\ machine' = [machine EXCEPT ![nodes[id].at] =
       [mode |-> "maintenance", admin |-> None, ca |-> FALSE, boot |-> @.boot + 1]]
  /\ faults' = faults + 1
  /\ UNCHANGED <<hijacked, folder, tables, adopt, request, confirms, ferried, renames>>

\* PinServerCert (-pin-node), with the fingerprint on the machine's console.
PinServerCert(id) ==
  /\ id \in Inventory
  /\ LET n == nodes[id] IN
     /\ Stored(folder[n.dir])
     /\ Presents(n.at) = Console(n.at)
     /\ folder' = [folder EXCEPT ![n.dir].pin = Presents(n.at)]
  /\ UNCHANGED <<machine, hijacked, tables, adopt, request, confirms, ferried, bounds>>

-----------------------------------------------------------------------------
(* Enrollment requests.                                                    *)

Ask(h, r) == request' = [request EXCEPT ![h] = r]
AskNext(h, pc) == request' = [request EXCEPT ![h].pc = pc]
AskFail(h) == Ask(h, NoRequest)

\* DialPEM with the operator's credential.
Links(m, pinned) ==
  /\ Accepts(PemServerTrust(m, pinned), Presents(m))
  /\ m \notin hijacked /\ machine[m].mode = "running"
  /\ machine[m].admin = Given[m]

\* verifyAttestation: the identity key that signed the challenge.  A machine
\* stands for its key.
VerifyAttestation(m) == Presents(m).of

AddEnrollment(e, row) ==
  /\ enrollments[e] = None
  /\ enrollments' = [enrollments EXCEPT ![e] = row]
  /\ UNCHANGED <<machine, hijacked, folder, nodes, spans, adopt, request, confirms, ferried, bounds>>

\* createLinkEnrollment: pinned to the identity key.
CreateLink(e, m, name) ==
  /\ name \in NameFor[m] /\ \E pinned \in BOOLEAN : Links(m, pinned)
  /\ AddEnrollment(e, [kind |-> "LINK", status |-> "PENDING", name |-> name, at |-> VerifyAttestation(m),
                        child |-> None, node |-> None])

\* createSubordinateEnrollment: the child given by its ID, recorded by name.
CreateSubordinate(e, id) ==
  /\ id \in Inventory
  /\ AddEnrollment(e, [kind |-> "SUBORDINATE", status |-> "PENDING", name |-> nodes[id].name,
                        at |-> None, child |-> id, node |-> None])

\* ApproveEnrollment.
ApproveEnrollment(h, e) ==
  /\ request[h].pc = "idle" /\ enrollments[e] # None /\ enrollments[e].status = "PENDING"
  /\ Ask(h, [NoRequest EXCEPT !.enr = e, !.row = enrollments[e], !.status = "APPROVED",
                              !.pc = IF enrollments[e].kind = "LINK" THEN "plan" ELSE "child"])
  /\ UNCHANGED <<machine, hijacked, folder, tables, adopt, confirms, ferried, bounds>>

\* approveLinkEnrollment up to SetManagement, with the endpoint m and the ca_pem
\* supplied again: the identity is still the one enrolled; a node already at the
\* endpoint keeps its entry; the name must be free.
PlanLinkedNode(h, m, pinned) ==
  /\ request[h].pc = "plan"
  /\ LET row == request[h].row
         here == {i \in Inventory : nodes[i].at = m} IN
     IF ~ Links(m, pinned) \/ VerifyAttestation(m) # row.at THEN AskFail(h)
     ELSE IF here # {} THEN \E i \in here : Ask(h, [request[h] EXCEPT !.pc = "decide", !.id = i])
     ELSE IF Named(row.name) # {} THEN AskFail(h)
     ELSE Ask(h, [request[h] EXCEPT !.pc = "files", !.pinned = PemServerTrust(m, pinned).pin,
            !.node = [name |-> row.name, at |-> m, dir |-> row.name,
                      chain |-> IF pinned THEN None ELSE row.name]])
  /\ UNCHANGED <<machine, hijacked, folder, tables, adopt, confirms, ferried, bounds>>

\* registerLinkedNode saves the files, in no particular order; a failed write
\* leaves the ones before it.
LinkFiles(h, written) ==
  /\ request[h].pc = "files"
  /\ LET n == request[h].node
         m == n.at
         trust == IF request[h].pinned # None THEN "pin" ELSE "chain"
         all == {"cert", "key", trust} IN
     /\ written \subseteq all
     /\ written = all \/ faults < MaxNodeFaults
     /\ folder' = [folder EXCEPT ![n.dir] =
          [cert |-> IF "cert" \in written THEN Given[m] ELSE @.cert,
           key |-> IF "key" \in written THEN Given[m] ELSE @.key,
           pin |-> IF "pin" \in written THEN request[h].pinned ELSE @.pin,
           chain |-> IF "chain" \in written THEN m ELSE @.chain,
           moved |-> @.moved]]
     /\ IF written = all THEN AskNext(h, "link") /\ UNCHANGED faults
        ELSE AskFail(h) /\ faults' = faults + 1
  /\ UNCHANGED <<machine, hijacked, tables, adopt, confirms, ferried, renames>>

\* AddNode, and the ID read back.
LinkAdd(h) ==
  /\ request[h].pc = "link" /\ Unused # {}
  /\ Cardinality(Unused) > Cardinality({a \in Adopts : adopt[a].pc # "idle"})   \* bound: NodeIds
  /\ AddNode(NewNodeID, request[h].node)
  /\ Ask(h, [request[h] EXCEPT !.pc = "decide", !.id =
              CHOOSE i \in NodeIds : nodes'[i] # None /\ nodes'[i].name = request[h].node.name])
  /\ UNCHANGED <<machine, hijacked, folder, enrollments, adopt, confirms, ferried, bounds>>

\* approveSubordinateEnrollment: the node with that name, else the one that
\* had it last.
ResolveChild(h) ==
  /\ request[h].pc = "child"
  /\ LET name == request[h].row.name
         found == IF Named(name) # {} THEN Named(name) ELSE NodeByFormerName(name) IN
     IF found = {} THEN AskFail(h)
     ELSE \E i \in found : Ask(h, [request[h] EXCEPT !.pc = "parent", !.id = i, !.node = nodes[i]])
  /\ UNCHANGED <<machine, hijacked, folder, tables, adopt, confirms, ferried, bounds>>

\* resolveParentByCN: a node that answers as the CA of that name.
FindParent(h) ==
  /\ request[h].pc = "parent"
  /\ LET cas == {p \in Inventory : machine[nodes[p].at].ca /\ Reaches(nodes[p])} IN
     IF cas = {} THEN AskFail(h)
     ELSE \E p \in cas : Ask(h, [request[h] EXCEPT !.pc = "csr", !.parent = nodes[p]])
  /\ UNCHANGED <<machine, hijacked, folder, tables, adopt, confirms, ferried, bounds>>

\* runSubordinateFerry.  The child is dialed, and hands over its CSR; it has one
\* until it has its CA.  The connection stays open, so its boot is remembered.
GetSubordinateCSR(h) ==
  /\ request[h].pc = "csr"
  /\ LET n == request[h].node IN
     IF Reaches(n) /\ ~ machine[n.at].ca
     THEN Ask(h, [request[h] EXCEPT !.pc = "sign", !.boot = machine[n.at].boot])
     ELSE AskFail(h)
  /\ UNCHANGED <<machine, hijacked, folder, tables, adopt, confirms, ferried, bounds>>

\* The parent is dialed, and signs it.
SignChildCSR(h) ==
  /\ request[h].pc = "sign"
  /\ LET p == request[h].parent IN
     IF Reaches(p) /\ machine[p.at].ca THEN AskNext(h, "submit") ELSE AskFail(h)
  /\ UNCHANGED <<machine, hijacked, folder, tables, adopt, confirms, ferried, bounds>>

\* Variant: a delivery that failed is only logged, as a failed record is.
SubmitOrLog(h) ==
  /\ request[h].pc = "submit"
  /\ AskNext(h, "keep")
  /\ UNCHANGED <<machine, hijacked, folder, tables, adopt, confirms, ferried, bounds>>

\* SubmitSubordinateCertificate, on the connection to the child.
SubmitSubordinateCertificate(h) ==
  /\ request[h].pc = "submit"
  /\ LET m == request[h].node.at IN
     IF machine[m].boot = request[h].boot /\ ~ machine[m].ca
     THEN /\ machine' = [machine EXCEPT ![m].ca = TRUE]
          /\ ferried' = [ferried EXCEPT ![request[h].enr] = @ \cup {request[h].id}]
          /\ AskNext(h, "keep")
     ELSE AskFail(h) /\ UNCHANGED <<machine, ferried>>
  /\ UNCHANGED <<hijacked, folder, tables, adopt, confirms, bounds>>

\* recordCAChain keeps a chain the inventory already names elsewhere.
Records(n) == n.chain \in {None, n.dir}

\* recordCAChain; a failed write is logged, and the approval goes on without it.
KeepChain(h) ==
  /\ request[h].pc = "keep"
  /\ LET n == request[h].node IN
     \/ /\ Records(n) /\ Present(folder[n.dir])
        /\ folder' = [folder EXCEPT ![n.dir].chain = n.at]
        /\ AskNext(h, "record") /\ UNCHANGED faults
     \/ /\ ~ (Records(n) /\ Present(folder[n.dir]))
        /\ AskNext(h, "decide") /\ UNCHANGED <<folder, faults>>
     \/ /\ Records(n) /\ faults < MaxNodeFaults
        /\ AskNext(h, "decide") /\ faults' = faults + 1 /\ UNCHANGED folder
  /\ UNCHANGED <<machine, hijacked, tables, adopt, confirms, ferried, renames>>

\* AddNode of the copy read before the ferry, with its chain; a panic ends the
\* request.
RecordChild(h) ==
  /\ request[h].pc = "record"
  /\ LET n == request[h].node IN
     /\ AddNode(request[h].id, [n EXCEPT !.chain = n.dir])
     /\ IF Named(n.name) = {} /\ request[h].id \in Inventory THEN AskFail(h) ELSE AskNext(h, "decide")
  /\ UNCHANGED <<machine, hijacked, folder, enrollments, adopt, confirms, ferried, bounds>>

\* RejectEnrollment.
RejectEnrollment(h, e) ==
  /\ request[h].pc = "idle" /\ enrollments[e] # None /\ enrollments[e].status = "PENDING"
  /\ Ask(h, [NoRequest EXCEPT !.pc = "decide", !.enr = e, !.status = "REJECTED"])
  /\ UNCHANGED <<machine, hijacked, folder, tables, adopt, confirms, ferried, bounds>>

\* UpdateEnrollment reads the row, which nothing locks,
EnrollmentRead(h) ==
  /\ request[h].pc = "decide"
  /\ LET e == enrollments[request[h].enr] IN
     Ask(h, [request[h] EXCEPT !.pc = "write", !.row =
       IF request[h].status = "REJECTED" THEN [e EXCEPT !.status = "REJECTED"]
       ELSE [e EXCEPT !.status = "APPROVED", !.node = request[h].id]])
  /\ UNCHANGED <<machine, hijacked, folder, tables, adopt, confirms, ferried, bounds>>

\* and writes every column back.
UpdateEnrollment(h) ==
  /\ request[h].pc = "write"
  /\ enrollments' = [enrollments EXCEPT ![request[h].enr] = request[h].row]
  /\ AskFail(h)
  /\ UNCHANGED <<machine, hijacked, folder, nodes, spans, adopt, confirms, ferried, bounds>>

-----------------------------------------------------------------------------
(* Rename and removal.                                                     *)

\* RenameNode: the name, and its history, in one transaction.
RenameNode(id, name) ==
  /\ id \in Inventory /\ Named(name) = {} /\ renames < MaxRenames
  /\ nodes' = [nodes EXCEPT ![id].name = name]
  /\ spans' = Closed(id) \cup {[id |-> id, name |-> name, until |-> 0]}
  /\ renames' = renames + 1
  /\ UNCHANGED <<machine, hijacked, folder, enrollments, adopt, request, confirms, ferried, faults>>

\* RemoveNode, up to the store call: refused while a pending enrollment names
\* the node.
RemoveNode(h, id) ==
  /\ request[h].pc = "idle" /\ id \in Inventory
  /\ \A e \in Enrolls : enrollments[e] # None =>
       ~ (enrollments[e].status = "PENDING" /\ (enrollments[e].name = nodes[id].name \/ enrollments[e].node = id))
  /\ Ask(h, [NoRequest EXCEPT !.pc = "remove", !.id = id])
  /\ UNCHANGED <<machine, hijacked, folder, tables, adopt, confirms, ferried, bounds>>

DeleteNode(h) ==
  /\ request[h].pc = "remove"
  /\ LET id == request[h].id IN
     IF id \notin Inventory THEN AskFail(h) /\ UNCHANGED <<nodes, spans>>
     ELSE /\ nodes' = [nodes EXCEPT ![id] = None]
          /\ spans' = Closed(id)
          /\ Ask(h, [request[h] EXCEPT !.pc = "aside", !.node = nodes[id]])
  /\ UNCHANGED <<machine, hijacked, folder, enrollments, adopt, confirms, ferried, bounds>>

MoveCredsAside(h) ==
  /\ request[h].pc = "aside"
  /\ folder' = [folder EXCEPT ![request[h].node.dir] =
       IF Present(@) THEN [NoFolder EXCEPT !.moved = TRUE] ELSE @]
  /\ AskFail(h)
  /\ UNCHANGED <<machine, hijacked, tables, adopt, confirms, ferried, bounds>>

\* The manager stops, or a store or node call of a request fails.
RequestCrash(h) ==
  /\ request[h].pc # "idle" /\ faults < MaxNodeFaults
  /\ AskFail(h)
  /\ faults' = faults + 1
  /\ UNCHANGED <<machine, hijacked, folder, tables, adopt, confirms, ferried, renames>>

-----------------------------------------------------------------------------
AdoptSteps(a) ==
  \/ MintAdmin(a) \/ WriteKey(a) \/ Probe(a) \/ ApplyConfig(a) \/ AwaitRunningCert(a) \/ Confirmed(a)
  \/ WritePin(a) \/ AwaitRunningNode(a) \/ StartCeremony(a) \/ RelayCeremony(a) \/ RecordCAChain(a)
  \/ RegisterRead(a) \/ RegisterAdd(a) \/ AdoptTimeout(a)

RequestSteps(h) ==
  \/ \E m \in Linked, pinned \in BOOLEAN : PlanLinkedNode(h, m, pinned)
  \/ \E written \in SUBSET {"cert", "key", "pin", "chain"} : LinkFiles(h, written)
  \/ LinkAdd(h) \/ ResolveChild(h) \/ FindParent(h) \/ GetSubordinateCSR(h) \/ SignChildCSR(h)
  \/ SubmitSubordinateCertificate(h) \/ KeepChain(h) \/ RecordChild(h)
  \/ EnrollmentRead(h) \/ UpdateEnrollment(h)
  \/ DeleteNode(h) \/ MoveCredsAside(h)

NodesNext ==
  \/ \E a \in Adopts : AdoptSteps(a) \/ AdoptCrash(a) \/ NodeSilent(a) \/ ConfirmAdoptionFingerprint(a)
  \/ \E a \in Adopts, m \in Machines, name \in Names, root \in BOOLEAN : AdoptNode(a, m, name, root)
  \/ \E m \in Machines : InstallDone(m) \/ Reboot(m) \/ Hijack(m)
  \/ \E id \in NodeIds : DecommissionNode(id) \/ PinServerCert(id)
  \/ \E e \in Enrolls, m \in Linked, name \in Names : CreateLink(e, m, name)
  \/ \E e \in Enrolls, id \in NodeIds : CreateSubordinate(e, id)
  \/ \E h \in Handlers : RequestSteps(h) \/ RequestCrash(h)
  \/ \E h \in Handlers, e \in Enrolls : ApproveEnrollment(h, e) \/ RejectEnrollment(h, e)
  \/ \E h \in Handlers, id \in NodeIds : RemoveNode(h, id)
  \/ \E id \in NodeIds, name \in Names : RenameNode(id, name)

NodesSpec == NodesInit /\ [][NodesNext]_nodeVars

-----------------------------------------------------------------------------
(* Properties.                                                             *)

\* An adoption that stopped anywhere can be retried: a machine it installed
\* trusts the admin credential stored for its name, which loadOrMintAdmin then
\* reuses, until a removal moves that folder to .removed (writeAdminCreds,
\* ApplyConfig, moveCredsAside).
RetrySafe ==
  \A m \in Machines \ Linked : machine[m].mode # "maintenance" =>
    \E name \in NameFor[m] :
      folder[name].moved \/ (folder[name].cert = machine[m].admin /\ folder[name].key = machine[m].admin)

\* Whatever answers on a node's address after its reboot, and whenever it
\* starts to, only a certificate seen on the machine's own console is pinned.
PinsConfirmed == \A name \in Names : folder[name].pin # None => folder[name].pin.of # Impostor

\* The name history names every node in the inventory, under its one current
\* name, and no removed one, through renames, removals and the AddNode of a
\* copy read before either.
NamesTraced ==
  /\ \A i \in Inventory : {s \in spans : s.id = i /\ s.until = 0} =
       {[id |-> i, name |-> nodes[i].name, until |-> 0]}
  /\ \A s \in spans : s.until = 0 => s.id \in Inventory

\* An approved enrollment names a node that joined the inventory, and an
\* approved SUBORDINATE one a node whose certificate was delivered under it,
\* wherever its ferry stopped between CSR, signature, delivery and record, and
\* whoever decides on the same row or removes the node meanwhile
\* (runSubordinateFerry, UpdateEnrollment).
ApprovedAdmits ==
  \A e \in Enrolls : enrollments[e] # None /\ enrollments[e].status = "APPROVED" =>
    /\ enrollments[e].node \in {s.id : s \in spans}
    /\ enrollments[e].kind = "SUBORDINATE" => enrollments[e].node \in ferried[e]

\* An adoption ends, whatever its node and its operator do or leave undone,
\* unless a call it made is never answered (runAdoptionAs: rebootWait, the
\* confirmation's wait).
AdoptionWaitsOnNode == \A a \in Adopts : adopt[a].pc # "idle" ~> adopt[a].pc = "idle" \/ adopt[a].silent

\* "It never hangs" (runAdoptionAs).
AdoptionEnds == \A a \in Adopts : adopt[a].pc # "idle" ~> adopt[a].pc = "idle"

\* "Every later connection verifies the node with them": the credential and
\* chain an inventory entry points at stay its own machine's.
OwnFolder ==
  \A i \in Inventory :
    LET n == nodes[i] IN
    /\ n.at \in Linked => folder[n.dir].cert \in {Given[n.at], None}
    /\ n.chain # None => folder[n.chain].chain \in {n.at, None}
=============================================================================
