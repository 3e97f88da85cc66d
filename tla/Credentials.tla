---------------------------- MODULE Credentials ----------------------------
(***************************************************************************)
(* Operator credentials the manager knows of (internal/fleet/credreqs.go,  *)
(* internal/operatorca/certcheck.go and observed.go, and the two tables of *)
(* operatorcredentials.go): requests an admin files and an external CA     *)
(* signs, the certificates recorded against them, and the certificates     *)
(* each replica sees signing in.                                           *)
(*                                                                         *)
(* A store method is one transaction.  Recording is two: the request is    *)
(* read, the certificate is checked (an OCSP responder is asked, so this   *)
(* takes seconds), then both rows are written.  A sighting passes from the *)
(* request that saw it through a queue to the replica's one worker.        *)
(***************************************************************************)
EXTENDS Levels, Sequences, SequencesExt

CONSTANTS
  Reqs,         \* credential request ids
  Certs,        \* certificates the operator CA signs
  Signed,       \* what each certificate carries: [level, key, sound]
  CSRKeys,      \* public keys of the CSRs
  CSRs,         \* CSRs an admin submits: see CheckCSR
  Recorders,    \* slots for RecordOperatorCredential
  Sites,        \* replicas, each with its recorder of sightings
  Visits,       \* slots for requests a replica is observing
  Lifetime,     \* requestLifetime, in ticks
  QueueSize, CacheSize,
  MaxClock, MaxFails   \* bounds: the clock, failed writes and crashes

ASSUME CredentialsAssumption ==
  /\ Signed \in [Certs -> [level : Levels, key : CSRKeys, sound : BOOLEAN]]
  /\ CSRs \subseteq [key : CSRKeys, signed : BOOLEAN, email : BOOLEAN, strong : BOOLEAN]
  /\ {Lifetime, QueueSize, CacheSize} \subseteq Nat \ {0}
  /\ {MaxClock, MaxFails} \subseteq Nat
  /\ None \notin Reqs \cup Certs \cup CSRKeys \cup Sites \cup Nat

VARIABLES
  clock,
  requests,   \* operator_credential_requests
  rows,       \* operator_credentials
  filed,      \* history: the level and key each request was filed with
  recorder,   \* RecordOperatorCredential calls in progress
  queue,      \* sightings waiting for each replica's worker
  seen,       \* each replica's lru, newest first: [cert, fresh]
  visit,      \* Observe calls between the queue and the lru
  raced,      \* history: sightings whose write failed before they were marked
  fails

reqVars == <<requests, rows, filed, recorder>>
seenVars == <<queue, seen, visit, raced>>
credVars == <<clock, reqVars, seenVars, fails>>

CredentialRequest == [state : {"pending", "completed", "cancelled", "expired"}, level : Levels,
            csr : CSRKeys \cup {None}, expires : Nat, serial : Certs \cup {None}]
Credential == [kind : {"observed", "recorded", "requested"}, level : Levels,
               request : Reqs \cup {None}, first : Nat \cup {None}, last : Nat \cup {None}]
Sighting == [cert : Certs, at : Nat]
Recording == [pc : {"idle", "store"}, req : Reqs \cup {None}, cert : Certs \cup {None}, at : Nat]
Visit == [at : Sites \cup {None}, cert : Certs \cup {None}]
NoRecording == [pc |-> "idle", req |-> None, cert |-> None, at |-> 0]
NoVisit == [at |-> None, cert |-> None]

\* None stands for no row, so it is not one.
ASSUME RowsAssumption == None \notin CredentialRequest \cup Credential \cup [level : Levels, key : CSRKeys]

\* Types, and the two bounded structures within their bounds.
CredentialsTypeOK ==
  /\ clock \in 0..MaxClock /\ fails \in 0..MaxFails
  /\ requests \in [Reqs -> CredentialRequest \cup {None}]
  /\ rows \in [Certs -> Credential \cup {None}]
  /\ filed \in [Reqs -> [level : Levels, key : CSRKeys] \cup {None}]
  /\ recorder \in [Recorders -> Recording]
  /\ visit \in [Visits -> Visit]
  /\ raced \subseteq Sites \X Certs
  /\ \A s \in Sites :
       /\ Len(queue[s]) <= QueueSize /\ Range(queue[s]) \subseteq Sighting
       /\ Len(seen[s]) <= CacheSize /\ Range(seen[s]) \subseteq [cert : Certs, fresh : BOOLEAN]

CredentialsInit ==
  /\ clock = 0 /\ fails = 0
  /\ requests = [q \in Reqs |-> None]
  /\ rows = [c \in Certs |-> None]
  /\ filed = [q \in Reqs |-> None]
  /\ recorder = [h \in Recorders |-> NoRecording]
  /\ queue = [s \in Sites |-> <<>>]
  /\ seen = [s \in Sites |-> <<>>]
  /\ visit = [v \in Visits |-> NoVisit]
  /\ raced = {}

-----------------------------------------------------------------------------
(* Requests.                                                               *)

\* expireRequests, first in every transaction over the table: a pending row
\* past its expiry is expired and loses its CSR.
Expire(at) == [q \in Reqs |->
  IF requests[q] # None /\ requests[q].state = "pending" /\ requests[q].expires <= at
  THEN [requests[q] EXCEPT !.state = "expired", !.csr = None] ELSE requests[q]]

\* CheckCSR: signed with its own key, for exactly an email address, by a key
\* strong enough.
CheckCSR(csr) == csr.signed /\ csr.email /\ csr.strong

\* CreateOperatorCredentialRequest.  AddOperatorCredentialRequest expires
\* nothing.
CreateOperatorCredentialRequest(q, level, csr) ==
  /\ requests[q] = None
  /\ CheckCSR(csr)
  /\ requests' = [requests EXCEPT ![q] =
       [state |-> "pending", level |-> level, csr |-> csr.key, expires |-> clock + Lifetime, serial |-> None]]
  /\ filed' = [filed EXCEPT ![q] = [level |-> level, key |-> csr.key]]
  /\ UNCHANGED <<clock, rows, recorder, seenVars, fails>>

\* A list commits the expiries.
ListOperatorCredentialRequests ==
  /\ requests' = Expire(clock)
  /\ UNCHANGED <<clock, rows, filed, recorder, seenVars, fails>>

\* One transaction over the locked row.  Refused, it is rolled back: the
\* expiries it made go with it.
CancelOperatorCredentialRequest(q) ==
  /\ requests[q] # None /\ Expire(clock)[q].state = "pending"
  /\ requests' = [Expire(clock) EXCEPT ![q].state = "cancelled", ![q].csr = None]
  /\ UNCHANGED <<clock, rows, filed, recorder, seenVars, fails>>

-----------------------------------------------------------------------------
(* Recording a signed certificate.                                         *)

\* CheckOperatorCert with signingAnchor: `sound` stands for what only depends
\* on the certificate and the CA (issued by the active CA, the extension, the
\* usages, the subject, the key type, a day left, not revoked).
CheckOperatorCert(c, wantLevel, csrKey) ==
  /\ Signed[c].sound
  /\ wantLevel # None => Signed[c].level = wantLevel
  /\ csrKey # None => Signed[c].key = csrKey

\* OperatorCredentialRequest in a transaction of its own, then the checks.
RecordRead(h, q, c) ==
  /\ recorder[h].pc = "idle"
  /\ requests[q] # None
  /\ requests' = Expire(clock)
  /\ requests'[q].state = "pending"
  /\ CheckOperatorCert(c, requests[q].level, requests[q].csr)
  /\ recorder' = [recorder EXCEPT ![h] = [pc |-> "store", req |-> q, cert |-> c, at |-> clock]]
  /\ UNCHANGED <<clock, rows, filed, seenVars, fails>>

\* Without a request_id the certificate is imported as it is.
ImportRead(h, c) ==
  /\ recorder[h].pc = "idle"
  /\ CheckOperatorCert(c, None, None)
  /\ recorder' = [recorder EXCEPT ![h] = [pc |-> "store", req |-> None, cert |-> c, at |-> clock]]
  /\ UNCHANGED <<clock, requests, rows, filed, seenVars, fails>>

\* Variant: the transaction trusts the state the handler read.
TrustRead(q, at) == TRUE

\* The request is still pending, under its row lock.
StillPending(q, at) == q # None => Expire(at)[q].state = "pending"

\* INSERT ... ON CONFLICT: only a row that was merely observed gives way.
Recordable(c) == rows[c] = None \/ rows[c].kind = "observed"

Upgraded(c, q) ==
  [kind |-> IF q = None THEN "recorded" ELSE "requested", level |-> Signed[c].level, request |-> q,
   first |-> IF rows[c] = None THEN None ELSE rows[c].first,
   last |-> IF rows[c] = None THEN None ELSE rows[c].last]

\* RecordOperatorCredential of the store: the credential and the completed
\* request in one transaction, or neither.
RecordStore(h) ==
  LET q == recorder[h].req
      c == recorder[h].cert
      after == Expire(recorder[h].at)
  IN /\ recorder[h].pc = "store"
     /\ recorder' = [recorder EXCEPT ![h] = NoRecording]
     /\ IF StillPending(q, recorder[h].at) /\ Recordable(c)
        THEN /\ rows' = [rows EXCEPT ![c] = Upgraded(c, q)]
             /\ requests' = IF q = None THEN after ELSE
                  [after EXCEPT ![q].state = "completed", ![q].csr = None, ![q].serial = c]
        ELSE UNCHANGED <<requests, rows>>
     /\ UNCHANGED <<clock, filed, seenVars, fails>>

-----------------------------------------------------------------------------
(* Sightings.                                                              *)

\* lru.items: the list element of a certificate.
Items(s, c) == {i \in 1..Len(seen[s]) : seen[s][i].cert = c}
Item(s, c) == CHOOSE i \in Items(s, c) : TRUE
FreshlySeen(s, c) == [cert |-> c, fresh |-> TRUE] \in Range(seen[s])

\* lru.remove of a certificate.
Others(s, c) == IF Items(s, c) = {} THEN seen[s] ELSE RemoveAt(seen[s], Item(s, c))

\* lru.get moves what it finds to the front.
Found(s, c) == IF Items(s, c) = {} THEN seen[s] ELSE Cons(seen[s][Item(s, c)], Others(s, c))

\* lru.put drops the oldest entry when the cache is full.
Put(s, c) == SubSeq(Cons([cert |-> c, fresh |-> TRUE], Others(s, c)), 1,
                    IF Len(Others(s, c)) < CacheSize THEN Len(Others(s, c)) + 1 ELSE CacheSize)

\* An Observe call is between its send and its put.
Observing(s, c) == \E v \in Visits : visit[v] = [at |-> s, cert |-> c]

\* Variant: a certificate is marked as seen though its sighting was dropped.
SendOrMark(v, s, c) ==
  /\ visit[v] = NoVisit /\ Signed[c].sound
  /\ ~ FreshlySeen(s, c)
  /\ queue' = IF Len(queue[s]) >= QueueSize THEN queue
              ELSE [queue EXCEPT ![s] = Append(@, [cert |-> c, at |-> clock])]
  /\ visit' = [visit EXCEPT ![v] = [at |-> s, cert |-> c]]
  /\ UNCHANGED <<clock, reqVars, seen, raced, fails>>

\* Observe up to the send: nothing within the hour of the last sighting, and a
\* full queue drops it.
ObserveSend(v, s, c) ==
  /\ visit[v] = NoVisit /\ Signed[c].sound
  /\ seen' = [seen EXCEPT ![s] = Found(s, c)]
  /\ IF FreshlySeen(s, c) \/ Len(queue[s]) >= QueueSize
     THEN UNCHANGED <<queue, visit>>
     ELSE /\ queue' = [queue EXCEPT ![s] = Append(@, [cert |-> c, at |-> clock])]
          /\ visit' = [visit EXCEPT ![v] = [at |-> s, cert |-> c]]
  /\ UNCHANGED <<clock, reqVars, raced, fails>>

\* seen.put after the send; the worker may have written the sighting already.
ObservePut(v) ==
  /\ visit[v] # NoVisit
  /\ seen' = [seen EXCEPT ![visit[v].at] = Put(visit[v].at, visit[v].cert)]
  /\ visit' = [visit EXCEPT ![v] = NoVisit]
  /\ UNCHANGED <<clock, reqVars, queue, raced, fails>>

\* An hour has passed since an entry was put.
Age(s, c) ==
  /\ FreshlySeen(s, c)
  /\ seen' = [seen EXCEPT ![s] = [i \in 1..Len(@) |-> IF @[i].cert = c THEN [cert |-> c, fresh |-> FALSE] ELSE @[i]]]
  /\ raced' = IF Observing(s, c) THEN raced ELSE raced \ {<<s, c>>}
  /\ UNCHANGED <<clock, reqVars, queue, visit, fails>>

\* Variant: the sighting being written is taken for the latest.
LastOf(old, at) == at

\* ObserveOperatorCredential: greatest() and coalesce() ignore nulls.
LaterOf(old, at) == IF old # None /\ old > at THEN old ELSE at
Observed(o) ==
  IF rows[o.cert] = None
  THEN [kind |-> "observed", level |-> Signed[o.cert].level, request |-> None, first |-> o.at, last |-> o.at]
  ELSE [rows[o.cert] EXCEPT !.first = IF @ = None THEN o.at ELSE @, !.last = LaterOf(@, o.at)]

\* Run: the worker takes the oldest sighting and writes it ...
WorkerWrite(s) ==
  /\ queue[s] # <<>>
  /\ rows' = [rows EXCEPT ![Head(queue[s]).cert] = Observed(Head(queue[s]))]
  /\ queue' = [queue EXCEPT ![s] = Tail(@)]
  /\ UNCHANGED <<clock, requests, filed, recorder, seen, visit, raced, fails>>

\* ... or fails to and forgets that the certificate was seen.
WorkerFail(s) ==
  LET c == Head(queue[s]).cert IN
  /\ queue[s] # <<>> /\ fails < MaxFails
  /\ fails' = fails + 1
  /\ queue' = [queue EXCEPT ![s] = Tail(@)]
  /\ seen' = [seen EXCEPT ![s] = Others(s, c)]
  /\ raced' = IF Observing(s, c) THEN raced \cup {<<s, c>>} ELSE raced
  /\ UNCHANGED <<clock, reqVars, visit>>

\* A replica restarts: its recorder is memory only.
SiteCrash(s) ==
  /\ fails < MaxFails
  /\ fails' = fails + 1
  /\ queue' = [queue EXCEPT ![s] = <<>>] /\ seen' = [seen EXCEPT ![s] = <<>>]
  /\ visit' = [v \in Visits |-> IF visit[v].at = s THEN NoVisit ELSE visit[v]]
  /\ raced' = {x \in raced : x[1] # s}
  /\ UNCHANGED <<clock, reqVars>>

ClockTick ==
  /\ clock < MaxClock
  /\ clock' = clock + 1
  /\ UNCHANGED <<reqVars, seenVars, fails>>

RequestNext ==
  \/ ClockTick
  \/ ListOperatorCredentialRequests
  \/ \E q \in Reqs, l \in Levels, c \in CSRs : CreateOperatorCredentialRequest(q, l, c)
  \/ \E q \in Reqs : CancelOperatorCredentialRequest(q)
  \/ \E h \in Recorders :
       \/ \E q \in Reqs, c \in Certs : RecordRead(h, q, c)
       \/ \E c \in Certs : ImportRead(h, c)
       \/ RecordStore(h)

SightingNext ==
  \/ \E s \in Sites : WorkerWrite(s) \/ WorkerFail(s) \/ SiteCrash(s)
  \/ \E s \in Sites, c \in Certs : Age(s, c)
  \/ \E v \in Visits, s \in Sites, c \in Certs : ObserveSend(v, s, c)
  \/ \E v \in Visits : ObservePut(v)

CredentialsNext == RequestNext \/ SightingNext

CredentialsSpec == CredentialsInit /\ [][CredentialsNext]_credVars

-----------------------------------------------------------------------------
(* Properties.                                                             *)

\* A completed request has the one certificate that completed it, of the level
\* and key it was filed with, and no other request has a certificate: two
\* admins recording, a cancellation or an expiry in between, or one certificate
\* that fits two requests never leave the two tables telling different stories
\* (RecordOperatorCredential).
CompletedByOne == \A q \in Reqs : requests[q] # None =>
  LET naming == {c \in Certs : rows[c] # None /\ rows[c].request = q} IN
  IF requests[q].state = "completed"
  THEN /\ naming = {requests[q].serial}
       /\ \A c \in naming : Signed[c].level = filed[q].level /\ Signed[c].key = filed[q].key
  ELSE naming = {}

\* A sighting never takes back what is known of a credential: a recorded row
\* stays as recorded and its seen times only widen, though replicas write their
\* queued sightings late and out of order (ObserveOperatorCredential).
KnownKept == [][\A c \in Certs : rows[c] # None =>
  /\ rows'[c] # None
  /\ rows[c].kind # "observed" => rows'[c].kind = rows[c].kind /\ rows'[c].request = rows[c].request
  /\ rows[c].last # None => rows'[c].last # None /\ rows'[c].last >= rows[c].last /\ rows'[c].first = rows[c].first]_credVars

\* "A dropped sighting is tried again on the certificate's next request": a
\* replica that holds its requests' sightings back has the certificate in the
\* table or in its queue.  Only a write that failed before Observe marked the
\* certificate as seen leaves it unwritten until the hour is over.
SightingKept == \A s \in Sites, c \in Certs : FreshlySeen(s, c) =>
  \/ rows[c] # None /\ rows[c].last # None
  \/ \E i \in 1..Len(queue[s]) : queue[s][i].cert = c
  \/ <<s, c>> \in raced
=============================================================================
