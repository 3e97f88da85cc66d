------------------------------ MODULE NodeKeys ------------------------------
(***************************************************************************)
(* The CA keys of the fleet's nodes and what they issued (internal/fleet   *)
(* rekey.go, escrow.go, certs.go): the re-key ferry between a child and    *)
(* its parent, key escrow, and the certificate list merged from two        *)
(* answers of a node.  A node is found by the CN its certificate carries.  *)
(***************************************************************************)
EXTENDS Levels, FiniteSets

CONSTANTS
  CaNodes,       \* node IDs
  Subjects,      \* CA common names
  SubjectOf, IssuerOf,   \* the nodes' first identities; None for a fresh node
  Labels, FirstLabel,    \* node names, and those the nodes start with
  Ferries,       \* slots for RekeyNode requests
  Serials,       \* certificates one of them issues
  MaxKeys, MaxRelabels   \* bounds

VARIABLES
  ca,            \* each node's identity, and a rotation it began
  label,         \* each node's name in the inventory
  ferry,         \* RekeyNode requests
  envelopes,     \* exported keys
  issued, revoked,   \* what that node issued and revoked
  listing,       \* a ListCertificates request
  keys, relabels

caVars == <<ca, label, ferry, envelopes, keys, relabels>>
listVars == <<issued, revoked, listing>>
keyVars == <<caVars, listVars>>

Certified == [subject : Subjects, issuer : Subjects, key : Nat]
Identity == Certified \cup {None}
Ferry == [pc : {"idle", "issuer", "parent", "sign", "complete"}, child : CaNodes \cup {None},
          name : Labels \cup {None}, csr : Nat, issuer : Subjects \cup {None},
          parent : CaNodes \cup {None}]
NoFerry == [pc |-> "idle", child |-> None, name |-> None, csr |-> 0, issuer |-> None, parent |-> None]

\* A node starts with a name and, unless it is fresh, a subject and an issuer;
\* None stands for no identity, so it is not one.
ASSUME KeysAssumption ==
  /\ FirstLabel \in [CaNodes -> Labels] /\ None \notin Certified
  /\ \A c \in CaNodes : SubjectOf[c] # None => {SubjectOf[c], IssuerOf[c]} \subseteq Subjects
  /\ MaxKeys \in Nat /\ MaxRelabels \in Nat

NoListing == [pc |-> "idle", before |-> {}, issued |-> {}, status |-> <<>>]

\* Types, and that a ferry past its first step has a child with an identity.
KeysTypeOK ==
  /\ ca \in [CaNodes -> [id : Identity, rotation : Nat]]
  /\ label \in [CaNodes -> Labels]
  /\ ferry \in [Ferries -> Ferry]
  /\ \A f \in Ferries : ferry[f].pc # "idle" => ca[ferry[f].child].id # None
  /\ envelopes \subseteq Identity
  /\ issued \subseteq Serials /\ revoked \subseteq Serials
  /\ listing.pc \in {"idle", "issued", "done"} /\ listing.before \subseteq Serials
  /\ listing.issued \subseteq Serials /\ DOMAIN listing.status \subseteq Serials
  /\ keys \in 0..MaxKeys /\ relabels \in 0..MaxRelabels

KeysInit ==
  /\ ca = [c \in CaNodes |-> [rotation |-> 0, id |->
       IF SubjectOf[c] = None THEN None
       ELSE [subject |-> SubjectOf[c], issuer |-> IssuerOf[c], key |-> 0]]]
  /\ label = FirstLabel
  /\ ferry = [f \in Ferries |-> NoFerry]
  /\ envelopes = {}
  /\ issued = {} /\ revoked = {} /\ listing = NoListing
  /\ keys = 0 /\ relabels = 0

-----------------------------------------------------------------------------
(* RekeyNode.                                                              *)

FerryStep(f, r) == ferry' = [ferry EXCEPT ![f] = r]

\* BeginKeyRotation: the child makes a new key and its CSR.
RekeyNode(f, c) ==
  /\ ferry[f].pc = "idle" /\ ca[c].id # None /\ keys < MaxKeys
  /\ keys' = keys + 1
  /\ ca' = [ca EXCEPT ![c].rotation = keys']
  /\ FerryStep(f, [NoFerry EXCEPT !.pc = "issuer", !.child = c, !.name = label[c], !.csr = keys'])
  /\ UNCHANGED <<label, envelopes, relabels, listVars>>

ChildIssuerCN(f) ==
  /\ ferry[f].pc = "issuer"
  /\ FerryStep(f, [ferry[f] EXCEPT !.pc = "parent", !.issuer = ca[ferry[f].child].id.issuer])
  /\ UNCHANGED <<ca, label, envelopes, keys, relabels, listVars>>

\* resolveParentByCN: a node that answers with that CN; a child that is its own
\* parent is a root and refused, by its name.
Refuses(f, p) == label[p] = ferry[f].name

\* Variant: any other node that answers will do.
ResolveAnyParent(f) ==
  /\ ferry[f].pc = "parent"
  /\ \E p \in CaNodes :
       /\ ca[p].id # None /\ ~ Refuses(f, p)
       /\ FerryStep(f, [ferry[f] EXCEPT !.pc = "sign", !.parent = p])
  /\ UNCHANGED <<ca, label, envelopes, keys, relabels, listVars>>

ResolveParentByCN(f) ==
  /\ ferry[f].pc = "parent"
  /\ \E p \in CaNodes :
       /\ ca[p].id # None /\ ca[p].id.subject = ferry[f].issuer
       /\ IF Refuses(f, p) THEN FerryStep(f, NoFerry)
          ELSE FerryStep(f, [ferry[f] EXCEPT !.pc = "sign", !.parent = p])
  /\ UNCHANGED <<ca, label, envelopes, keys, relabels, listVars>>

\* SignSubordinateCSR, by whatever the parent now is.
SignSubordinateCSR(f) ==
  /\ ferry[f].pc = "sign"
  /\ FerryStep(f, [ferry[f] EXCEPT !.pc = "complete", !.issuer = ca[ferry[f].parent].id.subject])
  /\ UNCHANGED <<ca, label, envelopes, keys, relabels, listVars>>

\* CompleteKeyRotation: the child refuses a certificate for another key than
\* the one of the rotation it began last.
CompleteKeyRotation(f) ==
  /\ ferry[f].pc = "complete"
  /\ LET r == ferry[f] IN
     ca' = IF ca[r.child].rotation # r.csr THEN ca
           ELSE [ca EXCEPT ![r.child] = [rotation |-> 0, id |->
                  [subject |-> @.id.subject, issuer |-> r.issuer, key |-> r.csr]]]
  /\ FerryStep(f, NoFerry)
  /\ UNCHANGED <<label, envelopes, keys, relabels, listVars>>

\* A call of the ferry fails; the child keeps the rotation it began.
FerryFails(f) ==
  /\ ferry[f].pc # "idle"
  /\ FerryStep(f, NoFerry)
  /\ UNCHANGED <<ca, label, envelopes, keys, relabels, listVars>>

Relabel(c, name) ==
  /\ relabels < MaxRelabels /\ \A d \in CaNodes : label[d] # name
  /\ label' = [label EXCEPT ![c] = name]
  /\ relabels' = relabels + 1
  /\ UNCHANGED <<ca, ferry, envelopes, keys, listVars>>

-----------------------------------------------------------------------------
(* Escrow.                                                                 *)

ExportCAKey(c) ==
  /\ ca[c].id # None
  /\ envelopes' = envelopes \cup {ca[c].id}
  /\ UNCHANGED <<ca, label, ferry, keys, relabels, listVars>>

\* A node that has an identity refuses.
ImportCAKey(c, e) ==
  /\ ca[c].id = None /\ e \in envelopes
  /\ ca' = [ca EXCEPT ![c].id = e]
  /\ UNCHANGED <<label, ferry, envelopes, keys, relabels, listVars>>

-----------------------------------------------------------------------------
(* Certificates.                                                           *)

IssueOn(s) ==
  /\ s \notin issued
  /\ issued' = issued \cup {s}
  /\ UNCHANGED <<revoked, listing, caVars>>
RevokeOn(s) ==
  /\ s \in issued
  /\ revoked' = revoked \cup {s}
  /\ UNCHANGED <<issued, listing, caVars>>

\* certsForNode: ListIssued, then ListRevocations; a revocation wins, and one
\* of a certificate that is not in the first answer is added.
ListIssued ==
  /\ listing.pc = "idle"
  /\ listing' = [NoListing EXCEPT !.pc = "issued", !.before = revoked, !.issued = issued]
  /\ UNCHANGED <<issued, revoked, caVars>>

\* Variant: the first answer wins.
MergedFirst(listed) ==
  [s \in listed \cup revoked |-> IF s \in listed THEN "VALID" ELSE "REVOKED"]

MergedStatus(listed) ==
  [s \in listed \cup revoked |-> IF s \in revoked THEN "REVOKED" ELSE "VALID"]

ListRevocations ==
  /\ listing.pc = "issued"
  /\ listing' = [listing EXCEPT !.pc = "done", !.status = MergedStatus(listing.issued)]
  /\ UNCHANGED <<issued, revoked, caVars>>

Listed ==
  /\ listing.pc = "done"
  /\ listing' = NoListing
  /\ UNCHANGED <<issued, revoked, caVars>>

KeysNext ==
  \/ \E f \in Ferries :
       \/ \E c \in CaNodes : RekeyNode(f, c)
       \/ ChildIssuerCN(f) \/ ResolveParentByCN(f) \/ SignSubordinateCSR(f)
       \/ CompleteKeyRotation(f) \/ FerryFails(f)
  \/ \E c \in CaNodes : ExportCAKey(c) \/ \E e \in envelopes : ImportCAKey(c, e)
  \/ \E c \in CaNodes, name \in Labels : Relabel(c, name)
  \/ \E s \in Serials : IssueOn(s) \/ RevokeOn(s)
  \/ ListIssued \/ ListRevocations \/ Listed

KeysSpec == KeysInit /\ [][KeysNext]_keyVars

-----------------------------------------------------------------------------
(* Properties.                                                             *)

\* A re-key keeps a node under the CA it was under: concurrent re-keys of the
\* parent, renames and restored keys never move it to another issuer.
IssuerKept ==
  [][\A c \in CaNodes : ca[c].id # None => ca'[c].id.issuer = ca[c].id.issuer]_keyVars

\* A certificate revoked before a listing began is listed as revoked, whatever
\* is issued or revoked between its two questions.
RevokedShown ==
  listing.pc = "done" =>
    \A s \in listing.before : s \in DOMAIN listing.status /\ listing.status[s] = "REVOKED"

\* "Rotating a root's key is not a fleet-mediated operation, so refuse it": a
\* self-signed CA keeps its key.
RootKeptOut ==
  [][\A c \in CaNodes : ca[c].id # None /\ ca[c].id.issuer = ca[c].id.subject =>
       ca'[c].id.key = ca[c].id.key]_keyVars
=============================================================================
