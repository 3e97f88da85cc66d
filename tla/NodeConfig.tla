----------------------------- MODULE NodeConfig -----------------------------
(***************************************************************************)
(* Changing a running node's configuration (internal/fleet config.go,      *)
(* protocols.go, profiles.go): SetNodeProtocol, ApplyNodeConfig and        *)
(* ApplyProfileToNode each read the node's config, change a copy and apply *)
(* the whole of it; the reboot tracker remembers the protocol switches     *)
(* that wait for a reboot, and a probe (ListNodes, GetNode) clears them.   *)
(* One node; a handler takes one step per call to it.                      *)
(***************************************************************************)
EXTENDS Levels, FiniteSets

CONSTANTS
  Protocols,   \* the keys of protocolBlocks
  Profiles,    \* catalog profiles
  FirstConfig, \* what the node stores and runs at first
  Edits,       \* whole configs operators apply
  Ops,         \* slots for requests
  MaxApplies   \* bound on configs applied

VARIABLES
  config,      \* the node's stored config
  running,     \* the protocols it runs since its last boot
  op,          \* requests in progress
  status,      \* a probe's GetStatus answer, until it is reconciled
  tracker,     \* rebootTracker.pending of the node
  events,      \* history: the protocol switches audited
  taken,       \* history: the protocol switches the node took
  applies

configVars == <<config, running, op, status, tracker, events, taken, applies>>

\* A protocol block is absent, or its enabled flag; an absent one is off.
Block == {"absent", "on", "off"}
Config == [blocks : [Protocols -> Block], profiles : SUBSET Profiles]
Switch == Protocols \X {"on", "off"}
Enabled(c) == {p \in Protocols : c.blocks[p] = "on"}

\* Every config is one; None stands for no config, so it is not one.
ASSUME ConfigAssumption ==
  /\ FirstConfig \in Config /\ Edits \subseteq Config /\ None \notin Config
  /\ MaxApplies \in Nat

Op == [pc : {"idle", "apply", "record"}, kind : {"switch", "config", "profile", None},
       next : Config \cup {None}, switches : SUBSET Switch]
NoOp == [pc |-> "idle", kind |-> None, next |-> None, switches |-> {}]

\* Types, and that a request in progress has a config to apply.
ConfigTypeOK ==
  /\ config \in Config
  /\ running \subseteq Protocols
  /\ op \in [Ops -> Op] /\ \A o \in Ops : op[o].pc = "idle" <=> op[o].next = None
  /\ status \in [running : SUBSET Protocols, pending : BOOLEAN] \cup {None}
  /\ tracker \in [Protocols -> {"on", "off", None}]
  /\ events \subseteq Switch /\ taken \subseteq Switch
  /\ applies \in 0..MaxApplies

ConfigInit ==
  /\ config = FirstConfig
  /\ running = Enabled(config)
  /\ op = [o \in Ops |-> NoOp]
  /\ status = None
  /\ tracker = [p \in Protocols |-> None]
  /\ events = {} /\ taken = {} /\ applies = 0

-----------------------------------------------------------------------------
(* The node.                                                               *)

\* ApplyConfig: an absent block keeps what the node stores; the rest is
\* replaced.
Merged(c) ==
  [blocks |-> [p \in Protocols |-> IF c.blocks[p] = "absent" THEN config.blocks[p] ELSE c.blocks[p]],
   profiles |-> c.profiles]

RebootNode ==
  /\ running # Enabled(config)
  /\ running' = Enabled(config)
  /\ UNCHANGED <<config, op, status, tracker, events, taken, applies>>

-----------------------------------------------------------------------------
(* The three requests.                                                     *)

OpStep(o, r) == op' = [op EXCEPT ![o] = r]
OpEnd(o) == OpStep(o, NoOp)

\* Variant: the config read goes back with the one block changed.
SwitchWhole(c, p, v) == [c EXCEPT !.blocks[p] = v]

\* SetNodeProtocol sends its own block alone.
SwitchConfig(c, p, v) ==
  [c EXCEPT !.blocks = [q \in Protocols |-> IF q = p THEN v ELSE "absent"]]

\* Variant: a block left out counts as off.
SwitchesAll(current, next) ==
  {<<p, IF next.blocks[p] = "on" THEN "on" ELSE "off">> : p \in {q \in Protocols :
     (next.blocks[q] = "on") # (current.blocks[q] = "on")}}

\* protocolSwitches: the blocks sent whose flag differs from the node's; an
\* absent block never counts.
ProtocolSwitches(current, next) ==
  {<<p, next.blocks[p]>> : p \in {q \in Protocols :
     next.blocks[q] # "absent" /\ (next.blocks[q] = "on") # (current.blocks[q] = "on")}}

\* SetNodeProtocol: GetConfig; nothing to do when the block is there already
\* in the requested state.
SetNodeProtocol(o, p, v) ==
  /\ op[o].pc = "idle" /\ config.blocks[p] # v
  /\ OpStep(o, [pc |-> "apply", kind |-> "switch", next |-> SwitchConfig(config, p, v),
                switches |-> {<<p, v>>}])
  /\ UNCHANGED <<config, running, status, tracker, events, taken, applies>>

\* ApplyNodeConfig of a whole config, edited from one that GetNodeConfig
\* returned; the baseline for the protocol audit is the node's config.
ApplyNodeConfig(o, c) ==
  /\ op[o].pc = "idle"
  /\ OpStep(o, [pc |-> "apply", kind |-> "config", next |-> c, switches |-> ProtocolSwitches(config, c)])
  /\ UNCHANGED <<config, running, status, tracker, events, taken, applies>>

\* ApplyProfileToNode: insertOrReplaceProfile in a clone of the node's config.
ApplyProfileToNode(o, f) ==
  /\ op[o].pc = "idle"
  /\ OpStep(o, [pc |-> "apply", kind |-> "profile", next |-> [config EXCEPT !.profiles = @ \cup {f}],
                switches |-> {}])
  /\ UNCHANGED <<config, running, status, tracker, events, taken, applies>>

\* ApplyConfig answers requires_reboot; a switch then waits for it.  A refusal
\* or a lost answer ends the request with nothing recorded.
Apply(o, answered) ==
  /\ op[o].pc = "apply" /\ applies < MaxApplies
  /\ config' = Merged(op[o].next)
  /\ taken' = taken \cup {s \in Switch : s[2] = config'.blocks[s[1]]}
  /\ applies' = applies + 1
  /\ IF answered THEN OpStep(o, [op[o] EXCEPT !.pc = "record"]) ELSE OpEnd(o)
  /\ UNCHANGED <<running, status, tracker, events>>
Refused(o) ==
  /\ op[o].pc = "apply"
  /\ OpEnd(o)
  /\ UNCHANGED <<config, running, status, tracker, events, taken, applies>>

\* rebootTracker.record and auditProtocol for every switch.
Record(o, reboot) ==
  /\ op[o].pc = "record"
  /\ tracker' = [p \in Protocols |->
       IF ~ reboot THEN tracker[p]
       ELSE IF <<p, "on">> \in op[o].switches THEN "on"
       ELSE IF <<p, "off">> \in op[o].switches THEN "off" ELSE tracker[p]]
  /\ events' = events \cup op[o].switches
  /\ OpEnd(o)
  /\ UNCHANGED <<config, running, status, taken, applies>>

-----------------------------------------------------------------------------
(* Probes.                                                                 *)

GetStatus ==
  /\ status = None
  /\ status' = [running |-> running, pending |-> running # Enabled(config)]
  /\ UNCHANGED <<config, running, op, tracker, events, taken, applies>>

\* reconcile drops a recorded switch once the node runs it with nothing
\* pending.
Reconcile ==
  /\ status # None
  /\ tracker' = [p \in Protocols |->
       IF tracker[p] # None /\ ~ status.pending /\ (p \in status.running) = (tracker[p] = "on")
       THEN None ELSE tracker[p]]
  /\ status' = None
  /\ UNCHANGED <<config, running, op, events, taken, applies>>

\* A restarted manager has an empty tracker.
RestartManager ==
  /\ tracker' = [p \in Protocols |-> None]
  /\ op' = [o \in Ops |-> NoOp]
  /\ status' = None
  /\ UNCHANGED <<config, running, events, taken, applies>>

ConfigNext ==
  \/ \E o \in Ops :
       \/ \E p \in Protocols, v \in {"on", "off"} : SetNodeProtocol(o, p, v)
       \/ \E c \in Edits : ApplyNodeConfig(o, c)
       \/ \E f \in Profiles : ApplyProfileToNode(o, f)
       \/ \E answered \in BOOLEAN : Apply(o, answered)
       \/ Refused(o)
       \/ \E reboot \in BOOLEAN : Record(o, reboot)
  \/ RebootNode \/ GetStatus \/ Reconcile \/ RestartManager

ConfigSpec == ConfigInit /\ [][ConfigNext]_configVars

-----------------------------------------------------------------------------
(* Properties.                                                             *)

\* The step that applies a SetNodeProtocol's config.
Switched(o) == op[o].kind = "switch" /\ op[o].pc = "apply" /\ op'[o] # op[o] /\ applies' # applies

\* Switching one protocol never touches another, however stale the config it
\* was worked out from: two switches at the same time both stand.
SwitchAlone ==
  [][\A o \in Ops : Switched(o) =>
       \A p \in Protocols : config'.blocks[p] # config.blocks[p] =>
         \E v \in Block : <<p, v>> \in op[o].switches]_configVars

\* An audited switch is one the node took: a block left out of a config is
\* never audited as switched off, whatever changed after the baseline was read.
EventsTrue == events \subseteq taken

\* "dropping the other blocks guarantees the apply changes nothing but the one
\* switch": a profile applied in between survives it too.
OnlyTheSwitch ==
  [][\A o \in Ops : Switched(o) => config'.profiles = config.profiles]_configVars
=============================================================================
