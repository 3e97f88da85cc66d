------------------------ MODULE Credentials_proofs ------------------------
(***************************************************************************)
(* Proofs about Credentials for any number of requests, certificates,      *)
(* recording admins, replicas and sightings: the two tables tell one       *)
(* story, a sighting takes nothing back, and none is lost unnoticed.       *)
(***************************************************************************)
EXTENDS Credentials, TLAPS

Entry == [cert : Certs, fresh : BOOLEAN]

\* Requests and what was recorded against them.
Unchanged == \A q \in Reqs : requests[q] # None =>
  /\ filed[q] # None /\ requests[q].level = filed[q].level
  /\ requests[q].state = "pending" => requests[q].csr = filed[q].key
Fits(x) == x.pc = "store" =>
  /\ x.cert \in Certs
  /\ x.req # None => /\ requests[x.req] # None
                     /\ Signed[x.cert].level = filed[x.req].level
                     /\ Signed[x.cert].key = filed[x.req].key
Fitting == \A h \in Recorders : Fits(recorder[h])

\* A row that names a request is the one its request names, and fits it.
Naming == \A c \in Certs : rows[c] # None /\ rows[c].request # None =>
  LET q == rows[c].request IN
  /\ requests[q] # None /\ requests[q].state = "completed" /\ requests[q].serial = c
  /\ Signed[c].level = filed[q].level /\ Signed[c].key = filed[q].key
Named == \A q \in Reqs : requests[q] # None /\ requests[q].state = "completed" =>
  /\ requests[q].serial \in Certs
  /\ rows[requests[q].serial] # None /\ rows[requests[q].serial].request = q
ObservedFree == \A c \in Certs : rows[c] # None /\ rows[c].kind = "observed" => rows[c].request = None

\* A row has both its seen times or neither.
SeenTimes == \A c \in Certs : rows[c] # None => (rows[c].first = None <=> rows[c].last = None)

\* The queues, the caches and the calls in between.
Shapes ==
  /\ queue \in [Sites -> Seq(Sighting)] /\ seen \in [Sites -> Seq(Entry)]
  /\ \A s \in Sites : Len(queue[s]) <= QueueSize /\ Len(seen[s]) <= CacheSize
  /\ \A v \in Visits : visit[v] = NoVisit \/ (visit[v].at \in Sites /\ visit[v].cert \in Certs)
Distinct(t) == \A i, j \in 1..Len(t) : t[i].cert = t[j].cert => i = j
OneEntry == \A s \in Sites : Distinct(seen[s])

\* What is held back or about to be is written, queued or accounted for.
Queued(s, c) == \E i \in 1..Len(queue[s]) : queue[s][i].cert = c
Kept(s, c) == (rows[c] # None /\ rows[c].last # None) \/ Queued(s, c) \/ <<s, c>> \in raced
EntriesKept == \A s \in Sites : \A i \in 1..Len(seen[s]) : seen[s][i].fresh => Kept(s, seen[s][i].cert)
VisitsKept == \A v \in Visits : visit[v] # NoVisit => Kept(visit[v].at, visit[v].cert)

Types == CredentialsTypeOK /\ Shapes
Requested == Unchanged /\ Fitting /\ Naming /\ Named
Recorded == ObservedFree /\ SeenTimes
Sighted == OneEntry /\ EntriesKept /\ VisitsKept
IndInv == Types /\ Requested /\ Recorded /\ Sighted

-----------------------------------------------------------------------------
(* Sequences.                                                              *)

\* Removing an element moves the later ones up.
LEMMA RemoveAtProperties ==
  ASSUME NEW S, NEW s \in Seq(S), NEW i \in 1..Len(s)
  PROVE  /\ RemoveAt(s, i) \in Seq(S) /\ Len(RemoveAt(s, i)) = Len(s) - 1
         /\ \A j \in 1..(Len(s) - 1) : RemoveAt(s, i)[j] = IF j < i THEN s[j] ELSE s[j + 1]
<1> DEFINE a == SubSeq(s, 1, i - 1)
           b == SubSeq(s, i + 1, Len(s))
<1>1. /\ a \in Seq(S) /\ Len(a) = i - 1 /\ \A j \in 1..(i - 1) : a[j] = s[j]
  OBVIOUS
<1>2. /\ b \in Seq(S) /\ Len(b) = Len(s) - i /\ \A j \in 1..(Len(s) - i) : b[j] = s[i + j]
  OBVIOUS
<1> HIDE DEF a, b
<1>3. /\ a \o b \in Seq(S) /\ Len(a \o b) = Len(s) - 1
      /\ \A j \in 1..(Len(s) - 1) : (a \o b)[j] = IF j < i THEN s[j] ELSE s[j + 1]
  <2>1. a \o b \in Seq(S) /\ Len(a \o b) = Len(s) - 1
    BY <1>1, <1>2
  <2>2. ASSUME NEW j \in 1..(Len(s) - 1), j < i PROVE (a \o b)[j] = s[j]
    BY <1>1, <1>2, <2>2
  <2>3. ASSUME NEW j \in 1..(Len(s) - 1), ~ (j < i) PROVE (a \o b)[j] = s[j + 1]
    <3>1. (a \o b)[j] = b[j - (i - 1)]
      BY <1>1, <1>2, <2>3
    <3>2. j - (i - 1) \in 1..(Len(s) - i) /\ i + (j - (i - 1)) = j + 1
      BY <2>3
    <3> QED BY <1>2, <3>1, <3>2
  <2> QED BY <2>1, <2>2, <2>3
<1> QED BY <1>3 DEF RemoveAt, a, b

\* Cons puts an element first.
LEMMA ConsProperties ==
  ASSUME NEW S, NEW s \in Seq(S), NEW e \in S
  PROVE  /\ Cons(e, s) \in Seq(S) /\ Len(Cons(e, s)) = Len(s) + 1
         /\ Cons(e, s)[1] = e /\ \A j \in 1..Len(s) : Cons(e, s)[j + 1] = s[j]
BY DEF Cons

\* A prefix keeps its elements in place.
LEMMA PrefixProperties ==
  ASSUME NEW S, NEW s \in Seq(S), NEW n \in 0..Len(s)
  PROVE  /\ SubSeq(s, 1, n) \in Seq(S) /\ Len(SubSeq(s, 1, n)) = n
         /\ \A j \in 1..n : SubSeq(s, 1, n)[j] = s[j]
OBVIOUS

-----------------------------------------------------------------------------
(* Rows.                                                                   *)

\* The fields of a row have their types, and None is not a row.
LEMMA RowForms ==
  /\ \A r \in CredentialRequest : r # None /\ r.level \in Levels /\ r.csr \in CSRKeys \cup {None}
                                  /\ r.serial \in Certs \cup {None}
  /\ \A r \in Credential : r # None /\ r.request \in Reqs \cup {None}
                           /\ r.first \in Nat \cup {None} /\ r.last \in Nat \cup {None}
  /\ \A r \in [level : Levels, key : CSRKeys] : r # None /\ r.key # None
BY RowsAssumption, CredentialsAssumption DEF CredentialRequest, Credential

\* So have the fields of a queued sighting and of a cache entry.
LEMMA SeenForms ==
  ASSUME Shapes, NEW s \in Sites
  PROVE  /\ queue[s] \in Seq(Sighting) /\ seen[s] \in Seq(Entry)
         /\ \A i \in 1..Len(queue[s]) : queue[s][i] \in Sighting /\ queue[s][i].cert \in Certs /\ queue[s][i].at \in Nat
         /\ \A i \in 1..Len(seen[s]) : seen[s][i] \in Entry /\ seen[s][i].cert \in Certs /\ seen[s][i].fresh \in BOOLEAN
<1>1. queue[s] \in Seq(Sighting) /\ seen[s] \in Seq(Entry)
  BY DEF Shapes
<1>2. /\ \A i \in 1..Len(queue[s]) : queue[s][i] \in Sighting
      /\ \A i \in 1..Len(seen[s]) : seen[s][i] \in Entry
  BY <1>1
<1>3. /\ \A x \in Sighting : x.cert \in Certs /\ x.at \in Nat
      /\ \A x \in Entry : x.cert \in Certs /\ x.fresh \in BOOLEAN
  BY DEF Sighting, Entry
<1> QED BY <1>1, <1>2, <1>3

\* Expiring touches pending requests only, and nothing but their state and CSR.
LEMMA ExpireProperties ==
  ASSUME CredentialsTypeOK, NEW at
  PROVE  /\ Expire(at) \in [Reqs -> CredentialRequest \cup {None}]
         /\ \A q \in Reqs : requests[q] = None => Expire(at)[q] = None
         /\ \A q \in Reqs : requests[q] # None =>
              LET r == requests[q]
                  e == Expire(at)[q]
              IN /\ e # None /\ e.level = r.level /\ e.serial = r.serial
                 /\ e.state = "pending" => e = r
                 /\ e.state = "completed" <=> r.state = "completed"
<1>1. ASSUME NEW q \in Reqs, requests[q] # None
      PROVE  LET r == requests[q]
                 e == Expire(at)[q]
             IN /\ e \in CredentialRequest /\ e.level = r.level /\ e.serial = r.serial
                /\ e.state = "pending" => e = r
                /\ e.state = "completed" <=> r.state = "completed"
  <2> DEFINE r == requests[q]
             x == [r EXCEPT !.state = "expired", !.csr = None]
  <2>1. r \in CredentialRequest
    BY <1>1 DEF CredentialsTypeOK
  <2>2. x \in CredentialRequest /\ x.level = r.level /\ x.serial = r.serial /\ x.state = "expired"
    BY <2>1 DEF CredentialRequest
  <2>3. Expire(at)[q] = r \/ (Expire(at)[q] = x /\ r.state = "pending")
    BY DEF Expire
  <2> HIDE DEF x
  <2> QED BY <2>1, <2>2, <2>3
<1>2. \A q \in Reqs : requests[q] = None => Expire(at)[q] = None
  BY DEF Expire
<1>3. Expire(at) \in [Reqs -> CredentialRequest \cup {None}]
  <2>1. Expire(at) = [q \in Reqs |-> Expire(at)[q]]
    BY DEF Expire
  <2>2. \A q \in Reqs : Expire(at)[q] \in CredentialRequest \cup {None}
    BY <1>1, <1>2
  <2> HIDE DEF Expire
  <2> QED BY <2>1, <2>2
<1> QED BY <1>1, <1>2, <1>3, RowForms

\* A request that goes on as it was, is over without a certificate, or whose
\* completion stands.
Stays(q) ==
  /\ requests[q] = None => requests'[q] = None
  /\ requests[q] # None =>
       /\ requests'[q] # None
       /\ requests'[q].level = requests[q].level /\ requests'[q].serial = requests[q].serial
       /\ requests'[q].state = "pending" => requests'[q] = requests[q]
       /\ requests'[q].state = "completed" <=> requests[q].state = "completed"

\* Requests that stay so keep what is recorded against them.
LEMMA RequestsMove ==
  ASSUME IndInv, \A q \in Reqs : Stays(q), UNCHANGED <<rows, filed>>
  PROVE  Unchanged' /\ Naming' /\ Named' /\ \A x \in Recording : Fits(x) => Fits(x)'
<1> USE DEF IndInv, Types, CredentialsTypeOK
<1>1. Unchanged'
  BY DEF Requested, Unchanged, Stays
<1>2. \A x \in Recording : Fits(x) => Fits(x)'
  <2>1. \A x \in Recording : x.req \in Reqs \cup {None}
    BY DEF Recording
  <2> QED BY <2>1 DEF Fits, Stays
<1>3. Naming'
  <2>1. \A c \in Certs : rows[c] # None => rows[c].request \in Reqs \cup {None}
    BY RowForms
  <2> QED BY <2>1 DEF Requested, Naming, Stays
<1>4. Named'
  BY DEF Requested, Named, Stays
<1> QED BY <1>1, <1>2, <1>3, <1>4

\* What a step over the rows may do to them.
Widens(c) == rows[c] # None =>
  /\ rows'[c] # None
  /\ rows[c].kind # "observed" => rows'[c].kind = rows[c].kind /\ rows'[c].request = rows[c].request
  /\ rows[c].last # None => rows'[c].last # None /\ rows'[c].last >= rows[c].last /\ rows'[c].first = rows[c].first
Widened == \A c \in Certs : Widens(c)

\* A step that leaves the rows alone takes nothing back.
LEMMA SameRowsWiden ==
  ASSUME IndInv, UNCHANGED rows
  PROVE  Widened
<1>1. \A c \in Certs : rows[c] # None => rows[c].last \in Nat \cup {None}
  BY RowForms DEF IndInv, Types, CredentialsTypeOK
<1> QED BY <1>1 DEF Widened, Widens

\* Sightings stay accounted for while the rows only widen.
LEMMA SightedStays ==
  ASSUME IndInv, Widened, UNCHANGED seenVars
  PROVE  Shapes' /\ Sighted'
<1>1. \A c \in Certs, s \in Sites : Kept(s, c) => Kept(s, c)'
  BY DEF Widened, Widens, Kept, Queued, seenVars
<1>2. UNCHANGED <<queue, seen, visit, raced>>
  BY DEF seenVars
<1>3. Shapes' /\ OneEntry'
  BY <1>2 DEF IndInv, Types, Shapes, Sighted, OneEntry, Distinct
<1>4. EntriesKept'
  <2> SUFFICES ASSUME NEW s \in Sites, NEW i \in 1..Len(seen[s]), seen[s][i].fresh PROVE Kept(s, seen[s][i].cert)'
    BY <1>2 DEF EntriesKept
  <2>1. seen[s][i].cert \in Certs
    BY SeenForms DEF IndInv, Types
  <2>2. Kept(s, seen[s][i].cert)
    BY DEF IndInv, Sighted, EntriesKept
  <2> QED BY <1>1, <1>2, <2>1, <2>2 DEF Kept, Queued
<1>5. VisitsKept'
  BY <1>1, <1>2 DEF IndInv, Types, Shapes, Sighted, VisitsKept, Kept, Queued
<1> QED BY <1>3, <1>4, <1>5 DEF Sighted

-----------------------------------------------------------------------------
(* Requests.                                                               *)

\* The steps that change requests and nothing recorded against them.
LEMMA ListStep ==
  ASSUME IndInv, NEW r, r \in [Reqs -> CredentialRequest \cup {None}], requests' = r,
         \A q \in Reqs : Stays(q), UNCHANGED <<clock, rows, filed, recorder, seenVars, fails>>
  PROVE  IndInv' /\ Widened
<1>1. Requested'
  <2>1. Unchanged' /\ Naming' /\ Named' /\ \A x \in Recording : Fits(x) => Fits(x)'
    BY RequestsMove
  <2>2. \A h \in Recorders : Fits(recorder[h])'
    BY <2>1 DEF IndInv, Types, CredentialsTypeOK, Requested, Fitting
  <2> QED BY <2>1, <2>2 DEF Requested, Fitting
<1>2. Widened
  BY SameRowsWiden
<1>3. Shapes' /\ Sighted'
  BY <1>2, SightedStays
<1>4. Recorded'
  BY DEF IndInv, Recorded, ObservedFree, SeenTimes
<1>5. CredentialsTypeOK'
  BY DEF IndInv, Types, CredentialsTypeOK, seenVars
<1> QED BY <1>1, <1>2, <1>3, <1>4, <1>5 DEF IndInv, Types

\* A list keeps what the expired requests were.
LEMMA ListOperatorCredentialRequestsStep ==
  ASSUME IndInv, ListOperatorCredentialRequests
  PROVE  IndInv' /\ Widened
<1>1. requests' = Expire(clock) /\ UNCHANGED <<clock, rows, filed, recorder, seenVars, fails>>
  BY DEF ListOperatorCredentialRequests
<1>2. CredentialsTypeOK
  BY DEF IndInv, Types
<1>3. \A q \in Reqs : Stays(q)
  BY <1>1, <1>2, ExpireProperties DEF Stays
<1> QED BY <1>1, <1>2, <1>3, ExpireProperties, ListStep

\* A cancelled request never completes.
LEMMA CancelStep ==
  ASSUME IndInv, NEW q \in Reqs, CancelOperatorCredentialRequest(q)
  PROVE  IndInv' /\ Widened
<1> DEFINE e == Expire(clock)
           x == [e[q] EXCEPT !.state = "cancelled", !.csr = None]
<1>1. CredentialsTypeOK
  BY DEF IndInv, Types
<1>2. /\ e \in [Reqs -> CredentialRequest \cup {None}]
      /\ requests[q] # None /\ e[q] \in CredentialRequest /\ e[q] = requests[q] /\ e[q].state = "pending"
  BY <1>1, ExpireProperties DEF CancelOperatorCredentialRequest
<1>3. x \in CredentialRequest /\ x.state = "cancelled" /\ x.level = requests[q].level /\ x.serial = requests[q].serial
  BY <1>2 DEF CredentialRequest
<1>4. requests' = [e EXCEPT ![q] = x] /\ UNCHANGED <<clock, rows, filed, recorder, seenVars, fails>>
  <2>1. requests' = [e EXCEPT ![q].state = "cancelled", ![q].csr = None]
    BY DEF CancelOperatorCredentialRequest
  <2>2. [e EXCEPT ![q].state = "cancelled", ![q].csr = None] = [e EXCEPT ![q] = x]
    BY <1>2
  <2> QED BY <2>1, <2>2 DEF CancelOperatorCredentialRequest
<1> HIDE DEF x
<1>5. Stays(q)
  BY <1>2, <1>3, <1>4, RowForms DEF Stays
<1>6. \A r \in Reqs : r # q => Stays(r)
  BY <1>1, <1>2, <1>4, ExpireProperties DEF Stays
<1>7. requests' \in [Reqs -> CredentialRequest \cup {None}]
  BY <1>2, <1>3, <1>4
<1> QED BY <1>4, <1>5, <1>6, <1>7, ListStep

\* A new request is filed with its level and key.
LEMMA CreateStep ==
  ASSUME IndInv, NEW q \in Reqs, NEW level \in Levels, NEW csr \in CSRs,
         CreateOperatorCredentialRequest(q, level, csr)
  PROVE  IndInv' /\ Widened
<1> DEFINE x == [state |-> "pending", level |-> level, csr |-> csr.key, expires |-> clock + Lifetime, serial |-> None]
           f == [level |-> level, key |-> csr.key]
<1> USE DEF IndInv, Types
<1>1. csr.key \in CSRKeys /\ level \in Levels
  BY CredentialsAssumption DEF Levels, Viewer, Operator, Admin
<1>2. x \in CredentialRequest /\ x.state = "pending" /\ x.level = level /\ x.csr = csr.key
  BY <1>1, CredentialsAssumption DEF CredentialsTypeOK, CredentialRequest
<1>3. f \in [level : Levels, key : CSRKeys] /\ f.level = level /\ f.key = csr.key
  BY <1>1
<1>4. /\ requests[q] = None /\ requests' = [requests EXCEPT ![q] = x] /\ filed' = [filed EXCEPT ![q] = f]
      /\ UNCHANGED <<clock, rows, recorder, seenVars, fails>>
  BY DEF CreateOperatorCredentialRequest
<1> HIDE DEF x, f
<1>5. /\ requests' \in [Reqs -> CredentialRequest \cup {None}] /\ requests'[q] = x
      /\ filed' \in [Reqs -> [level : Levels, key : CSRKeys] \cup {None}] /\ filed'[q] = f
      /\ \A r \in Reqs : r # q => requests'[r] = requests[r] /\ filed'[r] = filed[r]
  BY <1>2, <1>3, <1>4 DEF CredentialsTypeOK
<1>6. Unchanged'
  BY <1>2, <1>3, <1>5, RowForms DEF Requested, Unchanged
<1>7. Fitting'
  <2>1. \A h \in Recorders : recorder[h].req \in Reqs \cup {None}
    BY DEF CredentialsTypeOK, Recording
  <2> QED BY <1>4, <1>5, <2>1 DEF Requested, Fitting, Fits
<1>8. Naming' /\ Named'
  <2>1. \A c \in Certs : rows[c] # None => rows[c].request \in Reqs \cup {None}
    BY RowForms DEF CredentialsTypeOK
  <2>2. Naming'
    BY <1>4, <1>5, <2>1 DEF Requested, Naming
  <2>3. Named'
    BY <1>2, <1>4, <1>5 DEF Requested, Named
  <2> QED BY <2>2, <2>3
<1>9. Widened
  BY <1>4, SameRowsWiden
<1>10. Shapes' /\ Sighted'
  BY <1>4, <1>9, SightedStays
<1>11. Recorded'
  BY <1>4 DEF Recorded, ObservedFree, SeenTimes
<1>12. CredentialsTypeOK'
  BY <1>4, <1>5 DEF CredentialsTypeOK, seenVars
<1> QED BY <1>6, <1>7, <1>8, <1>9, <1>10, <1>11, <1>12 DEF Requested

-----------------------------------------------------------------------------
(* Recording a signed certificate.                                         *)

\* Reading the request, or none, and checking the certificate against it.
LEMMA ReadStep ==
  ASSUME IndInv, NEW h \in Recorders, NEW x \in Recording, Fits(x),
         requests' \in [Reqs -> CredentialRequest \cup {None}], \A q \in Reqs : Stays(q),
         recorder' = [recorder EXCEPT ![h] = x], UNCHANGED <<clock, rows, filed, seenVars, fails>>
  PROVE  IndInv' /\ Widened
<1>1. Unchanged' /\ Naming' /\ Named' /\ \A y \in Recording : Fits(y) => Fits(y)'
  BY RequestsMove
<1>2. /\ recorder' \in [Recorders -> Recording] /\ recorder'[h] = x
      /\ \A g \in Recorders : g # h => recorder'[g] = recorder[g]
  BY DEF IndInv, Types, CredentialsTypeOK
<1>3. Fitting'
  <2> SUFFICES ASSUME NEW g \in Recorders PROVE Fits(recorder[g])'
    BY DEF Fitting
  <2>1. PICK y \in Recording : Fits(y) /\ recorder'[g] = y
    BY <1>2 DEF IndInv, Types, CredentialsTypeOK, Requested, Fitting
  <2>2. Fits(y)'
    BY <1>1, <2>1
  <2> QED BY <2>1, <2>2 DEF Fits
<1>4. Widened
  BY SameRowsWiden
<1>5. Shapes' /\ Sighted'
  BY <1>4, SightedStays
<1>6. Recorded'
  BY DEF IndInv, Recorded, ObservedFree, SeenTimes
<1>7. CredentialsTypeOK'
  BY <1>2 DEF IndInv, Types, CredentialsTypeOK, seenVars
<1> QED BY <1>1, <1>3, <1>4, <1>5, <1>6, <1>7 DEF IndInv, Types, Requested

\* The certificate a request is read for has what was filed.
LEMMA RecordReadStep ==
  ASSUME IndInv, NEW h \in Recorders, NEW q \in Reqs, NEW c \in Certs, RecordRead(h, q, c)
  PROVE  IndInv' /\ Widened
<1> DEFINE x == [pc |-> "store", req |-> q, cert |-> c, at |-> clock]
<1>1. CredentialsTypeOK /\ requests' = Expire(clock)
  BY DEF IndInv, Types, RecordRead
<1>2. requests' \in [Reqs -> CredentialRequest \cup {None}] /\ \A r \in Reqs : Stays(r)
  BY <1>1, ExpireProperties DEF Stays
<1>3. requests[q] # None /\ requests[q].state = "pending"
  BY <1>1, ExpireProperties DEF RecordRead
<1>4. Signed[c].level = filed[q].level /\ Signed[c].key = filed[q].key
  <2>1. /\ filed[q] \in [level : Levels, key : CSRKeys] /\ requests[q].csr = filed[q].key
        /\ requests[q].level = filed[q].level
    BY <1>3 DEF IndInv, Types, CredentialsTypeOK, Requested, Unchanged
  <2>2. filed[q].key # None /\ filed[q].level # None
    BY <2>1, CredentialsAssumption DEF Levels, Viewer, Admin
  <2> QED BY <2>1, <2>2 DEF RecordRead, CheckOperatorCert
<1>5. x \in Recording /\ x.pc = "store" /\ x.req = q /\ x.cert = c
  BY DEF Recording, IndInv, Types, CredentialsTypeOK
<1>6. recorder' = [recorder EXCEPT ![h] = x] /\ UNCHANGED <<clock, rows, filed, seenVars, fails>>
  BY DEF RecordRead
<1> HIDE DEF x
<1>7. Fits(x)
  BY <1>3, <1>4, <1>5 DEF Fits
<1> QED BY <1>2, <1>5, <1>6, <1>7, ReadStep

\* An import names no request.
LEMMA ImportReadStep ==
  ASSUME IndInv, NEW h \in Recorders, NEW c \in Certs, ImportRead(h, c)
  PROVE  IndInv' /\ Widened
<1> DEFINE x == [pc |-> "store", req |-> None, cert |-> c, at |-> clock]
<1>1. x \in Recording /\ x.req = None /\ x.cert = c
  BY DEF Recording, IndInv, Types, CredentialsTypeOK
<1>2. recorder' = [recorder EXCEPT ![h] = x] /\ UNCHANGED <<clock, requests, rows, filed, seenVars, fails>>
  BY DEF ImportRead
<1> HIDE DEF x
<1>3. Fits(x)
  BY <1>1 DEF Fits
<1>4. requests' \in [Reqs -> CredentialRequest \cup {None}] /\ \A r \in Reqs : Stays(r)
  BY <1>2 DEF Stays, IndInv, Types, CredentialsTypeOK
<1> QED BY <1>1, <1>2, <1>3, <1>4, ReadStep

\* The row that is recorded keeps the seen times of the one it replaces.
LEMMA UpgradedForm ==
  ASSUME IndInv, NEW c \in Certs, NEW q \in Reqs \cup {None}
  PROVE  LET u == Upgraded(c, q) IN
         /\ u \in Credential /\ u.request = q /\ u.kind # "observed"
         /\ rows[c] # None => u.first = rows[c].first /\ u.last = rows[c].last
         /\ rows[c] = None => u.first = None /\ u.last = None
<1> DEFINE k == IF q = None THEN "recorded" ELSE "requested"
           f == IF rows[c] = None THEN None ELSE rows[c].first
           l == IF rows[c] = None THEN None ELSE rows[c].last
<1>1. f \in Nat \cup {None} /\ l \in Nat \cup {None} /\ k \in {"recorded", "requested"} /\ Signed[c].level \in Levels
  BY RowForms, CredentialsAssumption DEF IndInv, Types, CredentialsTypeOK
<1>2. Upgraded(c, q) = [kind |-> k, level |-> Signed[c].level, request |-> q, first |-> f, last |-> l]
  BY DEF Upgraded
<1>3. /\ rows[c] # None => f = rows[c].first /\ l = rows[c].last
      /\ rows[c] = None => f = None /\ l = None
  OBVIOUS
<1> HIDE DEF k, f, l
<1> QED BY <1>1, <1>2, <1>3 DEF Credential

\* The certificate and the completed request are written together, or neither.
LEMMA RecordStoreStep ==
  ASSUME IndInv, NEW h \in Recorders, RecordStore(h)
  PROVE  IndInv' /\ Widened
<1> DEFINE x == recorder[h]
           q == recorder[h].req
           c == recorder[h].cert
           at == recorder[h].at
           after == Expire(at)
           u == Upgraded(c, q)
<1> USE DEF IndInv, Types
<1>1. x \in Recording /\ x.pc = "store" /\ Fits(x) /\ c \in Certs /\ q \in Reqs \cup {None}
  BY DEF RecordStore, CredentialsTypeOK, Requested, Fitting, Fits, Recording
<1>2. /\ recorder' = [recorder EXCEPT ![h] = NoRecording] /\ UNCHANGED <<clock, filed, seenVars, fails>>
  BY DEF RecordStore
<1>3. NoRecording \in Recording /\ Fits(NoRecording)
  BY DEF NoRecording, Recording, Fits
<1>4. CASE ~ (StillPending(q, at) /\ Recordable(c))
  <2>1. UNCHANGED <<requests, rows>>
    BY <1>4 DEF RecordStore
  <2>2. requests' \in [Reqs -> CredentialRequest \cup {None}] /\ \A r \in Reqs : Stays(r)
    BY <2>1 DEF Stays, CredentialsTypeOK
  <2> QED BY <1>2, <1>3, <2>1, <2>2, ReadStep
<1>5. CASE StillPending(q, at) /\ Recordable(c)
  <2>1. rows' = [rows EXCEPT ![c] = u]
    BY <1>5 DEF RecordStore
  <2>2. /\ u \in Credential /\ u.request = q /\ u.kind # "observed"
        /\ rows[c] # None => u.first = rows[c].first /\ u.last = rows[c].last
        /\ rows[c] = None => u.first = None /\ u.last = None
    BY <1>1, UpgradedForm
  <2>3. rows[c] = None \/ (rows[c].kind = "observed" /\ rows[c].request = None)
    BY <1>1, <1>5 DEF Recordable, Recorded, ObservedFree
  <2>4. /\ after \in [Reqs -> CredentialRequest \cup {None}]
        /\ \A r \in Reqs : requests[r] = None => after[r] = None
        /\ \A r \in Reqs : requests[r] # None =>
             /\ after[r] # None /\ after[r].level = requests[r].level /\ after[r].serial = requests[r].serial
             /\ after[r].state = "pending" => after[r] = requests[r]
             /\ after[r].state = "completed" <=> requests[r].state = "completed"
    BY ExpireProperties
  <2> HIDE DEF u, after
  <2>5. /\ rows' \in [Certs -> Credential \cup {None}] /\ rows'[c] = u
        /\ \A d \in Certs : d # c => rows'[d] = rows[d]
    BY <1>1, <2>1, <2>2 DEF CredentialsTypeOK
  <2>6. Recorded'
    BY <1>1, <2>2, <2>5 DEF Recorded, ObservedFree, SeenTimes
  <2>7. Widened
    <3>1. \A d \in Certs : rows[d] # None => rows[d].last \in Nat \cup {None}
      BY RowForms DEF CredentialsTypeOK
    <3>2. Widens(c)
      BY <1>1, <2>2, <2>3, <2>5, <3>1, RowForms DEF Widens
    <3>3. \A d \in Certs : d # c => Widens(d)
      BY <2>5, <3>1 DEF Widens
    <3> QED BY <3>2, <3>3 DEF Widened
  <2>8. Shapes' /\ Sighted'
    BY <1>2, <2>7, SightedStays
  <2>9. /\ recorder' \in [Recorders -> Recording] /\ recorder'[h] = NoRecording
        /\ \A g \in Recorders : g # h => recorder'[g] = recorder[g]
    BY <1>2, <1>3 DEF CredentialsTypeOK
  <2>10. \A d \in Certs : rows[d] # None => rows[d].request \in Reqs \cup {None}
    BY RowForms DEF CredentialsTypeOK
  <2>11. requests' \in [Reqs -> CredentialRequest \cup {None}] /\ Requested'
    <3>1. CASE q = None
      <4>1. requests' = after
        BY <1>5, <3>1 DEF RecordStore, after
      <4>2. \A r \in Reqs : Stays(r)
        BY <2>4, <4>1 DEF Stays
      <4>3. Unchanged'
        BY <1>2, <4>2 DEF Requested, Unchanged, Stays
      <4>4. Fitting'
        <5>1. \A g \in Recorders : recorder[g].req \in Reqs \cup {None}
          BY DEF CredentialsTypeOK, Recording
        <5> QED BY <1>2, <2>9, <4>2, <5>1 DEF Requested, Fitting, Fits, Stays, NoRecording
      <4>5. Naming'
        BY <1>2, <2>2, <2>5, <2>10, <3>1, <4>2 DEF Requested, Naming, Stays
      <4>6. Named'
        BY <1>1, <2>3, <2>5, <4>2, CredentialsAssumption DEF Requested, Named, Stays
      <4> QED BY <2>4, <4>1, <4>3, <4>4, <4>5, <4>6 DEF Requested
    <3>2. CASE q \in Reqs
      <4> DEFINE y == [after[q] EXCEPT !.state = "completed", !.csr = None, !.serial = c]
      <4>0. q # None
        BY <3>2, CredentialsAssumption
      <4>1. requests[q] # None /\ after[q] = requests[q] /\ requests[q].state = "pending" /\ after[q] \in CredentialRequest
        BY <1>1, <1>5, <2>4, <3>2, <4>0 DEF StillPending, Fits, after
      <4>2. y \in CredentialRequest /\ y.state = "completed" /\ y.serial = c /\ y.level = requests[q].level
        BY <1>1, <4>1 DEF CredentialRequest
      <4>3. requests' = [after EXCEPT ![q] = y]
        <5>1. requests' = [after EXCEPT ![q].state = "completed", ![q].csr = None, ![q].serial = c]
          BY <1>5, <4>0 DEF RecordStore, after
        <5>2. [after EXCEPT ![q].state = "completed", ![q].csr = None, ![q].serial = c] = [after EXCEPT ![q] = y]
          BY <2>4, <3>2
        <5> QED BY <5>1, <5>2
      <4> HIDE DEF y
      <4>4. requests' \in [Reqs -> CredentialRequest \cup {None}] /\ requests'[q] = y
        BY <2>4, <3>2, <4>2, <4>3
      <4>5. \A r \in Reqs : r # q => Stays(r)
        BY <2>4, <3>2, <4>3 DEF Stays
      <4>6. y # None
        BY <4>2, RowForms
      <4>7. Unchanged'
        BY <1>2, <4>1, <4>2, <4>4, <4>5 DEF Requested, Unchanged, Stays
      <4>8. Fitting'
        <5>1. \A g \in Recorders : recorder[g].req \in Reqs \cup {None}
          BY DEF CredentialsTypeOK, Recording
        <5> QED BY <1>2, <2>9, <4>4, <4>5, <4>6, <5>1 DEF Requested, Fitting, Fits, Stays, NoRecording
      <4>9. \A d \in Certs : rows[d] # None => rows[d].request # q
        BY <4>0, <4>1 DEF Requested, Naming
      <4>10. Naming'
        <5>1. ASSUME NEW d \in Certs, d # c, rows[d] # None, rows[d].request # None
              PROVE  LET p == rows[d].request IN p \in Reqs /\ p # q /\ requests'[p] # None /\ requests'[p].state = "completed"
                        /\ requests'[p].serial = d /\ Signed[d].level = filed[p].level /\ Signed[d].key = filed[p].key
          BY <2>10, <4>5, <4>9, <5>1 DEF Requested, Naming, Stays
        <5>2. Signed[c].level = filed[q].level /\ Signed[c].key = filed[q].key
          BY <1>1, <4>0 DEF Fits
        <5> QED BY <1>2, <2>2, <2>5, <4>2, <4>4, <4>6, <5>1, <5>2 DEF Naming
      <4>11. Named'
        <5>1. ASSUME NEW r \in Reqs, r # q, requests'[r] # None, requests'[r].state = "completed"
              PROVE  LET d == requests'[r].serial IN d \in Certs /\ d # c /\ rows'[d] # None /\ rows'[d].request = r
          <6>1. /\ requests[r] # None /\ requests[r].state = "completed" /\ requests'[r].serial = requests[r].serial
            BY <4>5, <5>1 DEF Stays
          <6>2. requests[r].serial \in Certs /\ rows[requests[r].serial] # None /\ rows[requests[r].serial].request = r
            BY <6>1 DEF Requested, Named
          <6>3. requests[r].serial # c
            BY <2>3, <6>2, CredentialsAssumption
          <6> QED BY <2>5, <6>1, <6>2, <6>3
        <5> QED BY <1>1, <2>2, <2>5, <4>2, <4>4, <5>1, RowForms DEF Named
      <4> QED BY <4>4, <4>7, <4>8, <4>10, <4>11 DEF Requested
    <3> QED BY <1>1, <3>1, <3>2
  <2>12. CredentialsTypeOK'
    BY <1>2, <2>5, <2>9, <2>11 DEF CredentialsTypeOK, seenVars
  <2> QED BY <2>6, <2>7, <2>8, <2>11, <2>12
<1> QED BY <1>4, <1>5

-----------------------------------------------------------------------------
(* The cache.                                                              *)

\* A list of entries, at most one for a certificate, taken from a replica's
\* cache but for entries of c.
FromCache(t, s, c) ==
  /\ t \in Seq(Entry) /\ Distinct(t)
  /\ \A i \in 1..Len(t) : t[i].cert # c => \E j \in 1..Len(seen[s]) : t[i] = seen[s][j]

\* Removing a certificate leaves none of its entries and all of the others'.
LEMMA OthersForm ==
  ASSUME Shapes, OneEntry, NEW s \in Sites, NEW c \in Certs
  PROVE  LET t == Others(s, c) IN
         /\ FromCache(t, s, c) /\ \A i \in 1..Len(t) : t[i].cert # c
         /\ Len(t) <= CacheSize /\ (Items(s, c) # {} => Len(t) = Len(seen[s]) - 1)
<1>1. seen[s] \in Seq(Entry) /\ Distinct(seen[s]) /\ Len(seen[s]) <= CacheSize /\ Len(seen[s]) \in Nat /\ CacheSize \in Nat
  BY CredentialsAssumption DEF Shapes, OneEntry
<1>2. CASE Items(s, c) = {}
  <2>1. \A i \in 1..Len(seen[s]) : seen[s][i].cert # c
    BY <1>2 DEF Items
  <2> QED BY <1>1, <1>2, <2>1 DEF Others, FromCache
<1>3. CASE Items(s, c) # {}
  <2> DEFINE i == Item(s, c)
             t == RemoveAt(seen[s], i)
  <2>1. i \in 1..Len(seen[s]) /\ seen[s][i].cert = c
    BY <1>3 DEF Item, Items
  <2>2. /\ t \in Seq(Entry) /\ Len(t) = Len(seen[s]) - 1
        /\ \A j \in 1..(Len(seen[s]) - 1) : t[j] = IF j < i THEN seen[s][j] ELSE seen[s][j + 1]
    BY <1>1, <2>1, RemoveAtProperties
  <2>3. Others(s, c) = t
    BY <1>3 DEF Others
  <2> HIDE DEF i, t
  <2>4. \A j \in 1..Len(t) : \E k \in 1..Len(seen[s]) : k = (IF j < i THEN j ELSE j + 1) /\ k # i /\ t[j] = seen[s][k]
    BY <1>1, <2>1, <2>2
  <2>5. \A j \in 1..Len(t) : t[j].cert # c
    BY <1>1, <2>1, <2>4 DEF Distinct
  <2>6. Distinct(t)
    <3> SUFFICES ASSUME NEW j \in 1..Len(t), NEW l \in 1..Len(t), t[j].cert = t[l].cert PROVE j = l
      BY DEF Distinct
    <3>1. (IF j < i THEN j ELSE j + 1) = (IF l < i THEN l ELSE l + 1)
      BY <1>1, <2>4 DEF Distinct
    <3>2. i \in Int /\ j \in Int /\ l \in Int
      BY <1>1, <2>1, <2>2
    <3> QED BY <3>1, <3>2
  <2>7. FromCache(t, s, c)
    BY <2>2, <2>4, <2>6 DEF FromCache
  <2> QED BY <1>1, <2>2, <2>3, <2>5, <2>7
<1> QED BY <1>2, <1>3

\* An entry in front of a cache without its certificate.
LEMMA ConsForm ==
  ASSUME NEW s \in Sites, NEW c \in Certs, NEW e \in Entry, e.cert = c, NEW t, FromCache(t, s, c),
         \A i \in 1..Len(t) : t[i].cert # c
  PROVE  FromCache(Cons(e, t), s, c) /\ Len(Cons(e, t)) = Len(t) + 1 /\ Cons(e, t)[1] = e
<1> DEFINE u == Cons(e, t)
<1>1. /\ t \in Seq(Entry) /\ u \in Seq(Entry) /\ Len(u) = Len(t) + 1
      /\ u[1] = e /\ \A j \in 1..Len(t) : u[j + 1] = t[j]
  BY ConsProperties DEF FromCache
<1> HIDE DEF u
<1>2. \A j \in 1..Len(u) : j = 1 \/ (j - 1 \in 1..Len(t) /\ u[j] = t[j - 1])
  <2> SUFFICES ASSUME NEW j \in 1..Len(u), j # 1 PROVE j - 1 \in 1..Len(t) /\ u[j] = t[j - 1]
    OBVIOUS
  <2>1. j - 1 \in 1..Len(t) /\ (j - 1) + 1 = j
    BY <1>1
  <2> QED BY <1>1, <2>1
<1>3. Distinct(u)
  <2> SUFFICES ASSUME NEW j \in 1..Len(u), NEW l \in 1..Len(u), u[j].cert = u[l].cert PROVE j = l
    BY DEF Distinct
  <2>1. CASE j = 1 \/ l = 1
    BY <1>1, <1>2, <2>1
  <2>2. CASE j # 1 /\ l # 1
    <3>1. j - 1 = l - 1
      BY <1>2, <2>2 DEF FromCache, Distinct
    <3> QED BY <3>1
  <2> QED BY <2>1, <2>2
<1>4. FromCache(u, s, c)
  BY <1>1, <1>2, <1>3 DEF FromCache
<1> QED BY <1>1, <1>4 DEF u

\* A lookup only reorders the cache.
LEMMA FoundForm ==
  ASSUME Shapes, OneEntry, NEW s \in Sites, NEW c \in Certs
  PROVE  LET t == Found(s, c) IN
         /\ t \in Seq(Entry) /\ Distinct(t) /\ Len(t) <= CacheSize
         /\ \A i \in 1..Len(t) : \E j \in 1..Len(seen[s]) : t[i] = seen[s][j]
<1>1. seen[s] \in Seq(Entry) /\ Distinct(seen[s]) /\ Len(seen[s]) <= CacheSize /\ Len(seen[s]) \in Nat
  BY DEF Shapes, OneEntry
<1>2. CASE Items(s, c) = {}
  BY <1>1, <1>2 DEF Found
<1>3. CASE Items(s, c) # {}
  <2> DEFINE i == Item(s, c)
             e == seen[s][i]
             t == Cons(e, Others(s, c))
  <2>1. i \in 1..Len(seen[s]) /\ e.cert = c
    BY <1>3 DEF Item, Items
  <2>2. e \in Entry
    BY <1>1, <2>1
  <2>3. /\ FromCache(Others(s, c), s, c) /\ \A j \in 1..Len(Others(s, c)) : Others(s, c)[j].cert # c
        /\ Len(Others(s, c)) = Len(seen[s]) - 1
    BY <1>3, OthersForm
  <2>4. FromCache(t, s, c) /\ Len(t) = Len(seen[s]) /\ t[1] = e
    <3> HIDE DEF e
    <3> QED BY <1>1, <2>1, <2>2, <2>3, ConsForm
  <2>5. Found(s, c) = t
    BY <1>3 DEF Found
  <2> HIDE DEF t
  <2>6. ASSUME NEW j \in 1..Len(t), t[j].cert = c PROVE t[j] = e
    <3>1. 1 \in 1..Len(t)
      BY <1>1, <2>1, <2>4
    <3> QED BY <2>1, <2>4, <2>6, <3>1 DEF FromCache, Distinct
  <2>7. \A j \in 1..Len(t) : \E k \in 1..Len(seen[s]) : t[j] = seen[s][k]
    BY <2>1, <2>4, <2>6 DEF FromCache
  <2> QED BY <1>1, <2>4, <2>5, <2>7 DEF FromCache
<1> QED BY <1>2, <1>3

\* A put keeps the cache within its size; its entries were there or are the
\* new one.
LEMMA PutForm ==
  ASSUME Shapes, OneEntry, NEW s \in Sites, NEW c \in Certs
  PROVE  FromCache(Put(s, c), s, c) /\ Len(Put(s, c)) <= CacheSize
<1> DEFINE o == Others(s, c)
           e == [cert |-> c, fresh |-> TRUE]
           n == IF Len(o) < CacheSize THEN Len(o) + 1 ELSE CacheSize
           t == Cons(e, o)
           u == SubSeq(t, 1, n)
<1>1. FromCache(o, s, c) /\ (\A i \in 1..Len(o) : o[i].cert # c) /\ Len(o) <= CacheSize
  BY OthersForm
<1>2. e \in Entry /\ e.cert = c
  BY DEF Entry
<1>3. Put(s, c) = u
  BY DEF Put
<1> HIDE DEF o, e
<1>4. FromCache(t, s, c) /\ Len(t) = Len(o) + 1
  BY <1>1, <1>2, ConsForm
<1>5. Len(o) \in Nat /\ CacheSize \in Nat
  BY <1>1, CredentialsAssumption DEF FromCache
<1>6. n \in 0..Len(t) /\ n <= CacheSize
  BY <1>1, <1>4, <1>5
<1> HIDE DEF n, t
<1>7. u \in Seq(Entry) /\ Len(u) = n /\ \A i \in 1..n : u[i] = t[i]
  BY <1>4, <1>6, PrefixProperties DEF FromCache
<1> HIDE DEF u
<1>8. \A i \in 1..Len(u) : i \in 1..Len(t) /\ u[i] = t[i]
  BY <1>4, <1>5, <1>6, <1>7
<1>9. FromCache(u, s, c)
  BY <1>4, <1>7, <1>8 DEF FromCache, Distinct
<1> QED BY <1>3, <1>6, <1>7, <1>9

-----------------------------------------------------------------------------
(* Sightings.                                                              *)

\* The range of a sequence is where its elements are.
LEMMA RangeOf ==
  ASSUME NEW S, NEW t \in Seq(S)
  PROVE  Range(t) \subseteq S
BY DEF Range

\* The requests and what is recorded against them, over rows that keep their
\* request.
LEMMA RequestedStays ==
  ASSUME IndInv, UNCHANGED <<requests, filed, recorder>>,
         \A c \in Certs : /\ rows[c] # None => rows'[c] # None /\ rows'[c].request = rows[c].request
                          /\ rows[c] = None /\ rows'[c] # None => rows'[c].request = None
  PROVE  Requested'
<1>1. Unchanged' /\ Fitting'
  BY DEF IndInv, Requested, Unchanged, Fitting, Fits
<1>2. Naming' /\ Named'
  BY DEF IndInv, Requested, Naming, Named
<1> QED BY <1>1, <1>2 DEF Requested

\* A sighting step over caches that are well formed, with every sighting held
\* back accounted for after it.
LEMMA SeenMoves ==
  ASSUME IndInv, UNCHANGED <<clock, requests, filed, recorder>>, fails' \in 0..MaxFails,
         rows' \in [Certs -> Credential \cup {None}],
         \A c \in Certs : /\ rows[c] # None => rows'[c] # None /\ rows'[c].request = rows[c].request
                          /\ rows[c] = None /\ rows'[c] # None => rows'[c].request = None,
         Recorded', Shapes', visit' \in [Visits -> Visit], raced' \subseteq Sites \X Certs, Sighted'
  PROVE  IndInv'
<1>1. Requested'
  BY RequestedStays
<1>2. \A s \in Sites : Range(queue'[s]) \subseteq Sighting /\ Range(seen'[s]) \subseteq Entry
  BY RangeOf DEF Shapes
<1>3. CredentialsTypeOK'
  BY <1>2 DEF IndInv, Types, CredentialsTypeOK, Shapes, Entry
<1> QED BY <1>1, <1>3 DEF IndInv, Types

\* Kept after the step.
KeptNext(s, c) ==
  \/ rows'[c] # None /\ rows'[c].last # None
  \/ \E i \in 1..Len(queue'[s]) : queue'[s][i].cert = c
  \/ <<s, c>> \in raced'

\* A step that keeps the caches distinct, and every fresh entry and every call
\* in between accounted for.
LEMMA SightedNext ==
  ASSUME \A s \in Sites : Distinct(seen'[s]),
         \A s \in Sites : \A i \in 1..Len(seen'[s]) : seen'[s][i].fresh => KeptNext(s, seen'[s][i].cert),
         \A v \in Visits : visit'[v] # NoVisit => KeptNext(visit'[v].at, visit'[v].cert)
  PROVE  Sighted'
<1>1. OneEntry'
  BY DEF OneEntry, Distinct
<1>2. EntriesKept' /\ VisitsKept'
  BY DEF EntriesKept, VisitsKept, Kept, Queued, KeptNext
<1> QED BY <1>1, <1>2 DEF Sighted

\* A certificate that is seen is queued before it is marked.
LEMMA ObserveSendStep ==
  ASSUME IndInv, NEW v \in Visits, NEW s \in Sites, NEW c \in Certs, ObserveSend(v, s, c)
  PROVE  IndInv' /\ Widened
<1> DEFINE t == Found(s, c)
           o == [cert |-> c, at |-> clock]
           q == Append(queue[s], o)
           x == [at |-> s, cert |-> c]
           sent == ~ (FreshlySeen(s, c) \/ Len(queue[s]) >= QueueSize)
<1> USE DEF IndInv, Types
<1>1. /\ seen' = [seen EXCEPT ![s] = t] /\ visit[v] = NoVisit
      /\ UNCHANGED <<clock, requests, rows, filed, recorder, raced, fails>>
      /\ ~ sent => UNCHANGED <<queue, visit>>
      /\ sent => queue' = [queue EXCEPT ![s] = q] /\ visit' = [visit EXCEPT ![v] = x]
  BY DEF ObserveSend, reqVars
<1>2. /\ t \in Seq(Entry) /\ Distinct(t) /\ Len(t) <= CacheSize
      /\ \A i \in 1..Len(t) : \E j \in 1..Len(seen[s]) : t[i] = seen[s][j]
  BY FoundForm DEF Sighted
<1>3. queue[s] \in Seq(Sighting) /\ o \in Sighting /\ o.cert = c
  <2>1. clock \in Nat /\ queue[s] \in Seq(Sighting)
    BY CredentialsAssumption DEF Shapes, CredentialsTypeOK
  <2> QED BY <2>1 DEF Sighting
<1>4. /\ q \in Seq(Sighting) /\ Len(q) = Len(queue[s]) + 1 /\ q[Len(q)].cert = c
      /\ \A i \in 1..Len(queue[s]) : q[i] = queue[s][i]
  BY <1>3
<1>5. x \in Visit /\ x.at = s /\ x.cert = c
  BY DEF Visit
<1>6. sent => Len(queue[s]) + 1 <= QueueSize /\ Len(queue[s]) \in Nat
  BY <1>3, CredentialsAssumption
<1> HIDE DEF t, o, q, x
<1>7. /\ seen' \in [Sites -> Seq(Entry)] /\ seen'[s] = t
      /\ \A r \in Sites : r # s => seen'[r] = seen[r]
  BY <1>1, <1>2 DEF Shapes
<1>8. /\ queue' \in [Sites -> Seq(Sighting)] /\ queue'[s] = (IF sent THEN q ELSE queue[s])
      /\ \A r \in Sites : r # s => queue'[r] = queue[r]
  BY <1>1, <1>4 DEF Shapes
<1>9. /\ visit' \in [Visits -> Visit] /\ visit'[v] = (IF sent THEN x ELSE visit[v])
      /\ \A w \in Visits : w # v => visit'[w] = visit[w]
  BY <1>1, <1>5 DEF CredentialsTypeOK
<1> HIDE DEF sent
<1>10. \A r \in Sites, d \in Certs : Kept(r, d) => KeptNext(r, d)
  <2> SUFFICES ASSUME NEW r \in Sites, NEW d \in Certs, NEW i \in 1..Len(queue[r]), queue[r][i].cert = d
               PROVE  \E j \in 1..Len(queue'[r]) : queue'[r][j].cert = d
    BY <1>1 DEF Kept, Queued, KeptNext
  <2>1. CASE queue'[r] = queue[r]
    BY <2>1
  <2>2. CASE r = s /\ queue'[r] = q
    BY <2>2, <1>3, <1>4
  <2> QED BY <1>8, <2>1, <2>2
<1>11. sent => KeptNext(s, c)
  <2>1. ASSUME sent PROVE Len(q) \in 1..Len(queue'[s]) /\ queue'[s][Len(q)].cert = c
    BY <1>3, <1>4, <1>8, <2>1
  <2> QED BY <2>1 DEF KeptNext
<1>12. Shapes'
  <2>1. \A r \in Sites : Len(queue'[r]) <= QueueSize /\ Len(seen'[r]) <= CacheSize
    BY <1>2, <1>4, <1>6, <1>7, <1>8 DEF Shapes
  <2>2. \A w \in Visits : visit'[w] = NoVisit \/ (visit'[w].at \in Sites /\ visit'[w].cert \in Certs)
    BY <1>1, <1>5, <1>9 DEF Shapes
  <2> QED BY <1>7, <1>8, <2>1, <2>2 DEF Shapes
<1>13. ASSUME NEW r \in Sites, NEW i \in 1..Len(seen'[r]), seen'[r][i].fresh
       PROVE  KeptNext(r, seen'[r][i].cert)
  <2>1. PICK j \in 1..Len(seen[r]) : seen'[r][i] = seen[r][j]
    BY <1>2, <1>7
  <2>2. Kept(r, seen[r][j].cert) /\ seen[r][j].cert \in Certs
    BY <1>13, <2>1, SeenForms DEF Sighted, EntriesKept
  <2> QED BY <1>10, <2>1, <2>2
<1>14. ASSUME NEW w \in Visits, visit'[w] # NoVisit PROVE KeptNext(visit'[w].at, visit'[w].cert)
  <2>1. CASE visit'[w] = visit[w]
    BY <1>10, <1>14, <2>1 DEF Sighted, VisitsKept, Shapes
  <2>2. CASE sent /\ visit'[w] = x
    BY <1>5, <1>11, <2>2
  <2> QED BY <1>9, <2>1, <2>2
<1>15. Recorded' /\ Widened
  BY <1>1, SameRowsWiden DEF Recorded, ObservedFree, SeenTimes
<1>16. Sighted'
  <2>1. \A r \in Sites : Distinct(seen'[r])
    BY <1>2, <1>7 DEF Sighted, OneEntry
  <2> QED BY <1>13, <1>14, <2>1, SightedNext
<1>17. IndInv'
  BY <1>1, <1>9, <1>12, <1>15, <1>16, SeenMoves DEF CredentialsTypeOK
<1> QED BY <1>15, <1>17

\* A certificate is marked as seen while its sighting is accounted for.
LEMMA ObservePutStep ==
  ASSUME IndInv, NEW v \in Visits, ObservePut(v)
  PROVE  IndInv' /\ Widened
<1> DEFINE s == visit[v].at
           c == visit[v].cert
           t == Put(s, c)
<1> USE DEF IndInv, Types
<1>1. s \in Sites /\ c \in Certs /\ Kept(s, c)
  BY DEF ObservePut, Shapes, Sighted, VisitsKept
<1>2. /\ seen' = [seen EXCEPT ![s] = t] /\ visit' = [visit EXCEPT ![v] = NoVisit]
      /\ UNCHANGED <<clock, requests, rows, filed, recorder, queue, raced, fails>>
  BY DEF ObservePut, reqVars
<1>3. FromCache(t, s, c) /\ Len(t) <= CacheSize
  BY <1>1, PutForm DEF Sighted
<1> HIDE DEF t
<1>4. /\ seen' \in [Sites -> Seq(Entry)] /\ seen'[s] = t
      /\ \A r \in Sites : r # s => seen'[r] = seen[r]
  BY <1>1, <1>2, <1>3 DEF Shapes, FromCache
<1>5. NoVisit \in Visit
  BY DEF NoVisit, Visit
<1>6. /\ visit' \in [Visits -> Visit] /\ visit'[v] = NoVisit
      /\ \A w \in Visits : w # v => visit'[w] = visit[w]
  BY <1>2, <1>5 DEF CredentialsTypeOK
<1>7. \A r \in Sites, d \in Certs : Kept(r, d) => KeptNext(r, d)
  BY <1>2 DEF Kept, Queued, KeptNext
<1>8. Shapes'
  <2>1. \A r \in Sites : Len(queue'[r]) <= QueueSize /\ Len(seen'[r]) <= CacheSize
    BY <1>2, <1>3, <1>4 DEF Shapes
  <2> QED BY <1>2, <1>4, <1>6, <2>1 DEF Shapes
<1>9. ASSUME NEW r \in Sites, NEW i \in 1..Len(seen'[r]), seen'[r][i].fresh
      PROVE  KeptNext(r, seen'[r][i].cert)
  <2>1. CASE r = s /\ seen'[r][i].cert = c
    BY <1>1, <1>7, <2>1
  <2>2. CASE ~ (r = s /\ seen'[r][i].cert = c)
    <3>1. PICK j \in 1..Len(seen[r]) : seen'[r][i] = seen[r][j]
      BY <1>3, <1>4, <2>2 DEF FromCache
    <3>2. Kept(r, seen[r][j].cert) /\ seen[r][j].cert \in Certs
      BY <1>9, <3>1, SeenForms DEF Sighted, EntriesKept
    <3> QED BY <1>7, <3>1, <3>2
  <2> QED BY <2>1, <2>2
<1>10. \A w \in Visits : visit'[w] # NoVisit => KeptNext(visit'[w].at, visit'[w].cert)
  BY <1>6, <1>7 DEF Sighted, VisitsKept, Shapes
<1>11. Sighted'
  <2>1. \A r \in Sites : Distinct(seen'[r])
    BY <1>3, <1>4 DEF FromCache, Sighted, OneEntry
  <2> QED BY <1>9, <1>10, <2>1, SightedNext
<1>12. Recorded' /\ Widened
  BY <1>2, SameRowsWiden DEF Recorded, ObservedFree, SeenTimes
<1>13. IndInv'
  BY <1>2, <1>6, <1>8, <1>11, <1>12, SeenMoves DEF CredentialsTypeOK
<1> QED BY <1>12, <1>13

\* An entry that ages holds nothing back any more.
LEMMA AgeStep ==
  ASSUME IndInv, NEW s \in Sites, NEW c \in Certs, Age(s, c)
  PROVE  IndInv' /\ Widened
<1> DEFINE stale == [cert |-> c, fresh |-> FALSE]
           t == [i \in 1..Len(seen[s]) |-> IF seen[s][i].cert = c THEN stale ELSE seen[s][i]]
<1> USE DEF IndInv, Types
<1>1. /\ seen' = [seen EXCEPT ![s] = t]
      /\ raced' = IF Observing(s, c) THEN raced ELSE raced \ {<<s, c>>}
      /\ UNCHANGED <<clock, requests, rows, filed, recorder, queue, visit, fails>>
  BY DEF Age, reqVars
<1>2. /\ seen[s] \in Seq(Entry) /\ Len(seen[s]) \in Nat
      /\ \A i \in 1..Len(seen[s]) : seen[s][i] \in Entry /\ seen[s][i].cert \in Certs
  <2>1. seen[s] \in Seq(Entry) /\ \A i \in 1..Len(seen[s]) : seen[s][i] \in Entry /\ seen[s][i].cert \in Certs
    BY SeenForms
  <2> QED BY <2>1
<1>3. stale \in Entry /\ stale.cert = c /\ stale.fresh = FALSE
  BY DEF Entry
<1>4. t \in Seq(Entry) /\ Len(t) = Len(seen[s])
  <2>1. \A i \in 1..Len(seen[s]) : (IF seen[s][i].cert = c THEN stale ELSE seen[s][i]) \in Entry
    BY <1>2, <1>3
  <2> HIDE DEF stale
  <2> QED BY <1>2, <2>1
<1>5. \A i \in 1..Len(t) : /\ t[i].cert = seen[s][i].cert
                           /\ t[i].cert = c => t[i].fresh = FALSE
                           /\ t[i].cert # c => t[i] = seen[s][i]
  <2> HIDE DEF stale
  <2> QED BY <1>2, <1>3, <1>4
<1> HIDE DEF t
<1>6. /\ seen' \in [Sites -> Seq(Entry)] /\ seen'[s] = t
      /\ \A r \in Sites : r # s => seen'[r] = seen[r]
  BY <1>1, <1>4 DEF Shapes
<1>7. ASSUME NEW r \in Sites, NEW d \in Certs, Kept(r, d), (r # s \/ d # c) \/ Observing(s, c)
      PROVE  KeptNext(r, d)
  BY <1>1, <1>7 DEF Kept, Queued, KeptNext
<1>8. Shapes'
  <2>1. \A r \in Sites : Len(seen'[r]) <= CacheSize
    BY <1>4, <1>6 DEF Shapes
  <2> QED BY <1>1, <1>6, <2>1 DEF Shapes
<1>9. ASSUME NEW r \in Sites, NEW i \in 1..Len(seen'[r]), seen'[r][i].fresh
      PROVE  KeptNext(r, seen'[r][i].cert)
  <2>1. i \in 1..Len(seen[r]) /\ seen'[r][i] = seen[r][i] /\ (r # s \/ seen[r][i].cert # c)
    BY <1>2, <1>4, <1>5, <1>6, <1>9
  <2>2. Kept(r, seen[r][i].cert) /\ seen[r][i].cert \in Certs
    BY <1>9, <2>1, SeenForms DEF Sighted, EntriesKept
  <2> QED BY <1>7, <2>1, <2>2
<1>10. ASSUME NEW w \in Visits, visit'[w] # NoVisit PROVE KeptNext(visit'[w].at, visit'[w].cert)
  <2>1. visit[w].at \in Sites /\ visit[w].cert \in Certs /\ Kept(visit[w].at, visit[w].cert) /\ visit[w] \in Visit
    BY <1>1, <1>10 DEF Sighted, VisitsKept, Shapes, CredentialsTypeOK
  <2>2. visit[w].at = s /\ visit[w].cert = c => Observing(s, c)
    <3>1. visit[w] = [at |-> visit[w].at, cert |-> visit[w].cert]
      BY <2>1 DEF Visit
    <3> QED BY <3>1 DEF Observing
  <2> QED BY <1>1, <1>7, <2>1, <2>2
<1>11. Sighted'
  <2>1. Distinct(t)
    BY <1>2, <1>4, <1>5 DEF Sighted, OneEntry, Distinct
  <2>2. \A r \in Sites : Distinct(seen'[r])
    BY <1>6, <2>1 DEF Sighted, OneEntry
  <2> QED BY <1>9, <1>10, <2>2, SightedNext
<1>12. Recorded' /\ Widened
  BY <1>1, SameRowsWiden DEF Recorded, ObservedFree, SeenTimes
<1>13. raced' \subseteq Sites \X Certs
  BY <1>1 DEF CredentialsTypeOK
<1>14. IndInv'
  BY <1>1, <1>8, <1>11, <1>12, <1>13, SeenMoves DEF CredentialsTypeOK
<1> QED BY <1>12, <1>14

\* The oldest sighting leaves the queue; the others stay.
LEMMA TailForm ==
  ASSUME Shapes, NEW s \in Sites, queue[s] # <<>>, queue' = [queue EXCEPT ![s] = Tail(@)]
  PROVE  /\ Head(queue[s]) \in Sighting /\ Head(queue[s]).cert \in Certs /\ Head(queue[s]).at \in Nat
         /\ queue' \in [Sites -> Seq(Sighting)] /\ \A r \in Sites : Len(queue'[r]) <= QueueSize
         /\ \A r \in Sites, d \in Certs : Queued(r, d) =>
              \/ r = s /\ d = Head(queue[s]).cert
              \/ \E i \in 1..Len(queue'[r]) : queue'[r][i].cert = d
<1>1. queue[s] \in Seq(Sighting) /\ queue \in [Sites -> Seq(Sighting)] /\ \A r \in Sites : Len(queue[r]) <= QueueSize
  BY DEF Shapes
<1>2. /\ Len(queue[s]) \in Nat \ {0} /\ Head(queue[s]) = queue[s][1] /\ Head(queue[s]) \in Sighting
  BY <1>1
<1>3. /\ Tail(queue[s]) \in Seq(Sighting) /\ Len(Tail(queue[s])) = Len(queue[s]) - 1
      /\ \A i \in 1..(Len(queue[s]) - 1) : Tail(queue[s])[i] = queue[s][i + 1]
  BY <1>1
<1>4. /\ queue' \in [Sites -> Seq(Sighting)] /\ queue'[s] = Tail(queue[s])
      /\ \A r \in Sites : r # s => queue'[r] = queue[r]
  BY <1>1, <1>3
<1>5. QueueSize \in Nat
  BY CredentialsAssumption
<1>6. \A r \in Sites : Len(queue'[r]) <= QueueSize
  BY <1>1, <1>2, <1>3, <1>4, <1>5
<1>7. ASSUME NEW r \in Sites, NEW d \in Certs, Queued(r, d), ~ (r = s /\ d = Head(queue[s]).cert)
      PROVE  \E i \in 1..Len(queue'[r]) : queue'[r][i].cert = d
  <2>1. PICK i \in 1..Len(queue[r]) : queue[r][i].cert = d
    BY <1>7 DEF Queued
  <2>2. CASE r # s
    BY <1>4, <2>1, <2>2
  <2>3. CASE r = s
    <3>1. i # 1
      BY <1>2, <1>7, <2>1, <2>3
    <3>2. i - 1 \in 1..(Len(queue[s]) - 1) /\ (i - 1) + 1 = i
      BY <1>2, <2>1, <2>3, <3>1
    <3>3. Tail(queue[s])[i - 1].cert = d
      BY <1>3, <2>1, <2>3, <3>2
    <3> QED BY <1>3, <1>4, <2>3, <3>2, <3>3
  <2> QED BY <2>2, <2>3
<1>8. \A x \in Sighting : x.cert \in Certs /\ x.at \in Nat
  BY DEF Sighting
<1> QED BY <1>2, <1>4, <1>6, <1>7, <1>8

\* A sighting written, however late, widens the seen times and touches nothing
\* else of a row.
LEMMA ObservedForm ==
  ASSUME IndInv, NEW o \in Sighting
  PROVE  LET r == rows[o.cert]
             w == Observed(o)
         IN /\ w \in Credential /\ w.first # None /\ w.last # None
            /\ r = None => w.kind = "observed" /\ w.request = None
            /\ r # None => /\ w.kind = r.kind /\ w.request = r.request
                           /\ r.last # None => w.last >= r.last /\ w.first = r.first
<1> DEFINE r == rows[o.cert]
<1>1. o.cert \in Certs /\ o.at \in Nat /\ o.at # None /\ Signed[o.cert].level \in Levels
  BY CredentialsAssumption DEF Sighting
<1>2. CASE r = None
  BY <1>1, <1>2 DEF Observed, Credential
<1>3. CASE r # None
  <2> DEFINE f == IF r.first = None THEN o.at ELSE r.first
             l == LaterOf(r.last, o.at)
             w == [r EXCEPT !.first = f, !.last = l]
  <2>1. r \in Credential /\ r.first \in Nat \cup {None} /\ r.last \in Nat \cup {None}
    BY <1>1, <1>3, RowForms DEF IndInv, Types, CredentialsTypeOK
  <2>2. f \in Nat /\ l \in Nat /\ (r.last # None => l >= r.last)
    BY <1>1, <2>1 DEF LaterOf
  <2>3. r.last # None => f = r.first
    BY <1>1, <1>3 DEF IndInv, Recorded, SeenTimes
  <2>4. Observed(o) = w
    BY <1>3 DEF Observed
  <2> HIDE DEF f, l
  <2>5. w \in Credential /\ w.first = f /\ w.last = l /\ w.kind = r.kind /\ w.request = r.request
    BY <2>1, <2>2 DEF Credential
  <2>6. f # None /\ l # None
    BY <2>2, CredentialsAssumption
  <2> HIDE DEF w
  <2> QED BY <1>3, <2>2, <2>3, <2>4, <2>5, <2>6
<1> QED BY <1>2, <1>3

\* The worker writes the oldest sighting.
LEMMA WorkerWriteStep ==
  ASSUME IndInv, NEW s \in Sites, WorkerWrite(s)
  PROVE  IndInv' /\ Widened
<1> DEFINE o == Head(queue[s])
           c == o.cert
           w == Observed(o)
<1> USE DEF IndInv, Types
<1>1. /\ queue[s] # <<>> /\ queue' = [queue EXCEPT ![s] = Tail(@)]
      /\ rows' = [rows EXCEPT ![c] = w]
      /\ UNCHANGED <<clock, requests, filed, recorder, seen, visit, raced, fails>>
  BY DEF WorkerWrite
<1>2. /\ o \in Sighting /\ c \in Certs
      /\ queue' \in [Sites -> Seq(Sighting)] /\ \A r \in Sites : Len(queue'[r]) <= QueueSize
      /\ \A r \in Sites, d \in Certs : Queued(r, d) =>
           (r = s /\ d = c) \/ \E i \in 1..Len(queue'[r]) : queue'[r][i].cert = d
  BY <1>1, TailForm
<1>3. /\ w \in Credential /\ w.first # None /\ w.last # None
      /\ rows[c] = None => w.kind = "observed" /\ w.request = None
      /\ rows[c] # None => /\ w.kind = rows[c].kind /\ w.request = rows[c].request
                           /\ rows[c].last # None => w.last >= rows[c].last /\ w.first = rows[c].first
  BY <1>2, ObservedForm
<1> HIDE DEF o, c, w
<1>4. /\ rows' \in [Certs -> Credential \cup {None}] /\ rows'[c] = w /\ w # None
      /\ \A d \in Certs : d # c => rows'[d] = rows[d]
  BY <1>1, <1>2, <1>3, RowForms DEF CredentialsTypeOK
<1>5. Recorded'
  <2>1. c \in Certs
    BY <1>2
  <2>2. ObservedFree'
    BY <1>3, <1>4, <2>1 DEF Recorded, ObservedFree
  <2>3. SeenTimes'
    BY <1>3, <1>4, <2>1 DEF Recorded, SeenTimes
  <2> QED BY <2>2, <2>3 DEF Recorded
<1>6. Widened
  <2>1. \A d \in Certs : rows[d] # None => rows[d].last \in Nat \cup {None}
    BY RowForms DEF CredentialsTypeOK
  <2>2. Widens(c)
    BY <1>3, <1>4 DEF Widens
  <2>3. \A d \in Certs : d # c => Widens(d)
    BY <1>4, <2>1 DEF Widens
  <2> QED BY <2>2, <2>3 DEF Widened
<1>7. \A r \in Sites, d \in Certs : Kept(r, d) => KeptNext(r, d)
  BY <1>1, <1>2, <1>3, <1>4 DEF Kept, KeptNext
<1>8. Shapes'
  BY <1>1, <1>2 DEF Shapes
<1>9. Sighted'
  <2>1. \A r \in Sites : Distinct(seen'[r])
    BY <1>1 DEF Sighted, OneEntry
  <2>2. ASSUME NEW r \in Sites, NEW i \in 1..Len(seen'[r]), seen'[r][i].fresh PROVE KeptNext(r, seen'[r][i].cert)
    <3>1. Kept(r, seen[r][i].cert) /\ seen[r][i].cert \in Certs
      BY <1>1, <2>2, SeenForms DEF Sighted, EntriesKept
    <3> QED BY <1>1, <1>7, <3>1
  <2>3. \A v \in Visits : visit'[v] # NoVisit => KeptNext(visit'[v].at, visit'[v].cert)
    BY <1>1, <1>7 DEF Sighted, VisitsKept, Shapes
  <2> QED BY <2>1, <2>2, <2>3, SightedNext
<1>10. \A d \in Certs : /\ rows[d] # None => rows'[d] # None /\ rows'[d].request = rows[d].request
                        /\ rows[d] = None /\ rows'[d] # None => rows'[d].request = None
  BY <1>3, <1>4
<1>11. IndInv'
  <2>1. fails' \in 0..MaxFails /\ visit' \in [Visits -> Visit] /\ raced' \subseteq Sites \X Certs
    BY <1>1 DEF CredentialsTypeOK
  <2>2. UNCHANGED <<clock, requests, filed, recorder>> /\ rows' \in [Certs -> Credential \cup {None}]
    BY <1>1, <1>4
  <2> QED BY <1>5, <1>8, <1>9, <1>10, <2>1, <2>2, SeenMoves
<1> QED BY <1>6, <1>11

\* A sighting that could not be written is no longer marked; a call that has
\* yet to mark it is accounted for.
LEMMA WorkerFailStep ==
  ASSUME IndInv, NEW s \in Sites, WorkerFail(s)
  PROVE  IndInv' /\ Widened
<1> DEFINE o == Head(queue[s])
           c == o.cert
           t == Others(s, c)
<1> USE DEF IndInv, Types
<1>1. /\ queue[s] # <<>> /\ queue' = [queue EXCEPT ![s] = Tail(@)]
      /\ seen' = [seen EXCEPT ![s] = t]
      /\ raced' = IF Observing(s, c) THEN raced \cup {<<s, c>>} ELSE raced
      /\ fails < MaxFails /\ fails' = fails + 1
      /\ UNCHANGED <<clock, requests, rows, filed, recorder, visit>>
  BY DEF WorkerFail, reqVars
<1>2. /\ o \in Sighting /\ c \in Certs
      /\ queue' \in [Sites -> Seq(Sighting)] /\ \A r \in Sites : Len(queue'[r]) <= QueueSize
      /\ \A r \in Sites, d \in Certs : Queued(r, d) =>
           (r = s /\ d = c) \/ \E i \in 1..Len(queue'[r]) : queue'[r][i].cert = d
  BY <1>1, TailForm
<1>3. FromCache(t, s, c) /\ (\A i \in 1..Len(t) : t[i].cert # c) /\ Len(t) <= CacheSize
  BY <1>2, OthersForm DEF Sighted
<1> HIDE DEF o, t
<1>4. /\ seen' \in [Sites -> Seq(Entry)] /\ seen'[s] = t
      /\ \A r \in Sites : r # s => seen'[r] = seen[r]
  BY <1>1, <1>3 DEF Shapes, FromCache
<1>5. fails' \in 0..MaxFails
  <2>1. fails \in 0..MaxFails /\ MaxFails \in Nat
    BY CredentialsAssumption DEF CredentialsTypeOK
  <2> QED BY <1>1, <2>1
<1>6. ASSUME NEW r \in Sites, NEW d \in Certs, Kept(r, d), (r # s \/ d # c) \/ Observing(s, c)
      PROVE  KeptNext(r, d)
  BY <1>1, <1>2, <1>6 DEF Kept, KeptNext
<1>7. Shapes'
  <2>1. \A r \in Sites : Len(seen'[r]) <= CacheSize
    BY <1>3, <1>4 DEF Shapes
  <2> QED BY <1>1, <1>2, <1>4, <2>1 DEF Shapes
<1>8. ASSUME NEW r \in Sites, NEW i \in 1..Len(seen'[r]), seen'[r][i].fresh PROVE KeptNext(r, seen'[r][i].cert)
  <2>1. PICK j \in 1..Len(seen[r]) : seen'[r][i] = seen[r][j] /\ (r # s \/ seen[r][j].cert # c)
    BY <1>3, <1>4 DEF FromCache
  <2>2. Kept(r, seen[r][j].cert) /\ seen[r][j].cert \in Certs
    BY <1>8, <2>1, SeenForms DEF Sighted, EntriesKept
  <2> QED BY <1>6, <2>1, <2>2
<1>9. ASSUME NEW v \in Visits, visit'[v] # NoVisit PROVE KeptNext(visit'[v].at, visit'[v].cert)
  <2>1. visit[v].at \in Sites /\ visit[v].cert \in Certs /\ Kept(visit[v].at, visit[v].cert) /\ visit[v] \in Visit
    BY <1>1, <1>9 DEF Sighted, VisitsKept, Shapes, CredentialsTypeOK
  <2>2. visit[v].at = s /\ visit[v].cert = c => Observing(s, c)
    <3>1. visit[v] = [at |-> visit[v].at, cert |-> visit[v].cert]
      BY <2>1 DEF Visit
    <3> QED BY <3>1 DEF Observing
  <2> QED BY <1>1, <1>6, <2>1, <2>2
<1>10. Sighted'
  <2>1. \A r \in Sites : Distinct(seen'[r])
    BY <1>3, <1>4 DEF FromCache, Sighted, OneEntry
  <2> QED BY <1>8, <1>9, <2>1, SightedNext
<1>11. Recorded' /\ Widened
  BY <1>1, SameRowsWiden DEF Recorded, ObservedFree, SeenTimes
<1>12. raced' \subseteq Sites \X Certs
  BY <1>1, <1>2 DEF CredentialsTypeOK
<1>13. IndInv'
  BY <1>1, <1>5, <1>7, <1>10, <1>11, <1>12, SeenMoves DEF CredentialsTypeOK
<1> QED BY <1>11, <1>13

\* A restart empties the replica's recorder altogether.
LEMMA SiteCrashStep ==
  ASSUME IndInv, NEW s \in Sites, SiteCrash(s)
  PROVE  IndInv' /\ Widened
<1> USE DEF IndInv, Types
<1>1. /\ queue' = [queue EXCEPT ![s] = <<>>] /\ seen' = [seen EXCEPT ![s] = <<>>]
      /\ visit' = [v \in Visits |-> IF visit[v].at = s THEN NoVisit ELSE visit[v]]
      /\ raced' = {x \in raced : x[1] # s}
      /\ fails < MaxFails /\ fails' = fails + 1
      /\ UNCHANGED <<clock, requests, rows, filed, recorder>>
  BY DEF SiteCrash, reqVars
<1>2. /\ queue' \in [Sites -> Seq(Sighting)] /\ queue'[s] = <<>> /\ \A r \in Sites : r # s => queue'[r] = queue[r]
      /\ seen' \in [Sites -> Seq(Entry)] /\ seen'[s] = <<>> /\ \A r \in Sites : r # s => seen'[r] = seen[r]
  BY <1>1 DEF Shapes
<1>3. fails' \in 0..MaxFails
  <2>1. fails \in 0..MaxFails /\ MaxFails \in Nat
    BY CredentialsAssumption DEF CredentialsTypeOK
  <2> QED BY <1>1, <2>1
<1>4. /\ visit' \in [Visits -> Visit]
      /\ \A v \in Visits : visit'[v] = NoVisit \/ (visit'[v] = visit[v] /\ visit[v].at # s)
  BY <1>1 DEF CredentialsTypeOK, NoVisit, Visit
<1>5. ASSUME NEW r \in Sites, NEW d \in Certs, Kept(r, d), r # s PROVE KeptNext(r, d)
  BY <1>1, <1>2, <1>5 DEF Kept, Queued, KeptNext
<1>6. Shapes'
  <2>1. Len(<<>>) = 0 /\ QueueSize \in Nat /\ CacheSize \in Nat
    BY CredentialsAssumption
  <2>2. \A r \in Sites : Len(queue'[r]) <= QueueSize /\ Len(seen'[r]) <= CacheSize
    BY <1>2, <2>1 DEF Shapes
  <2> QED BY <1>2, <1>4, <2>2 DEF Shapes
<1>7. ASSUME NEW r \in Sites, NEW i \in 1..Len(seen'[r]), seen'[r][i].fresh PROVE KeptNext(r, seen'[r][i].cert)
  <2>1. r # s /\ seen'[r] = seen[r]
    BY <1>2, <1>7
  <2>2. Kept(r, seen[r][i].cert) /\ seen[r][i].cert \in Certs
    BY <1>7, <2>1, SeenForms DEF Sighted, EntriesKept
  <2> QED BY <1>5, <2>1, <2>2
<1>8. \A v \in Visits : visit'[v] # NoVisit => KeptNext(visit'[v].at, visit'[v].cert)
  BY <1>4, <1>5 DEF Sighted, VisitsKept, Shapes
<1>9. Sighted'
  <2>1. \A r \in Sites : Distinct(seen'[r])
    <3>1. Distinct(<<>>)
      BY DEF Distinct
    <3> QED BY <1>2, <3>1 DEF Sighted, OneEntry
  <2> QED BY <1>7, <1>8, <2>1, SightedNext
<1>10. Recorded' /\ Widened
  BY <1>1, SameRowsWiden DEF Recorded, ObservedFree, SeenTimes
<1>11. raced' \subseteq Sites \X Certs
  BY <1>1 DEF CredentialsTypeOK
<1>12. IndInv'
  BY <1>1, <1>3, <1>4, <1>6, <1>9, <1>10, <1>11, SeenMoves DEF CredentialsTypeOK
<1> QED BY <1>10, <1>12

-----------------------------------------------------------------------------
(* The invariant.                                                          *)

\* Time only makes requests expire, at the next transaction.
LEMMA ClockStep ==
  ASSUME IndInv, ClockTick \/ UNCHANGED credVars
  PROVE  IndInv' /\ Widened
<1>1. /\ UNCHANGED <<requests, rows, filed, recorder, seenVars, fails>>
      /\ clock' = clock \/ (clock < MaxClock /\ clock' = clock + 1)
  BY DEF ClockTick, credVars, reqVars
<1>2. clock' \in 0..MaxClock
  <2>1. clock \in 0..MaxClock /\ MaxClock \in Nat
    BY CredentialsAssumption DEF IndInv, Types, CredentialsTypeOK
  <2> QED BY <1>1, <2>1
<1>3. Widened
  BY <1>1, SameRowsWiden
<1>4. Shapes' /\ Sighted'
  BY <1>1, <1>3, SightedStays
<1>5. Requested'
  BY <1>1 DEF IndInv, Requested, Unchanged, Fitting, Fits, Naming, Named
<1>6. Recorded'
  BY <1>1 DEF IndInv, Recorded, ObservedFree, SeenTimes
<1>7. CredentialsTypeOK'
  BY <1>1, <1>2 DEF IndInv, Types, CredentialsTypeOK, seenVars
<1> QED BY <1>3, <1>4, <1>5, <1>6, <1>7 DEF IndInv, Types

\* Every step keeps the invariant and only widens the rows.
LEMMA NextStep ==
  ASSUME IndInv, [CredentialsNext]_credVars
  PROVE  IndInv' /\ Widened
<1>1. CASE UNCHANGED credVars
  BY <1>1, ClockStep
<1>2. CASE RequestNext
  BY <1>2, ClockStep, ListOperatorCredentialRequestsStep, CreateStep, CancelStep, RecordReadStep, ImportReadStep,
     RecordStoreStep DEF RequestNext
<1>3. CASE SightingNext
  BY <1>3, WorkerWriteStep, WorkerFailStep, SiteCrashStep, AgeStep, ObserveSendStep, ObservePutStep DEF SightingNext
<1> QED BY <1>1, <1>2, <1>3 DEF CredentialsNext

\* Nothing is filed, recorded or seen at the start.
LEMMA Initially ==
  ASSUME CredentialsInit
  PROVE  IndInv
<1> USE DEF CredentialsInit
<1>1. NoRecording \in Recording /\ NoRecording.pc = "idle" /\ NoVisit \in Visit
  BY DEF NoRecording, Recording, NoVisit, Visit
<1>2. Len(<<>>) = 0 /\ QueueSize \in Nat /\ CacheSize \in Nat /\ MaxClock \in Nat /\ MaxFails \in Nat
  BY CredentialsAssumption
<1>3. Shapes
  BY <1>2 DEF Shapes
<1>4. \A s \in Sites : Range(queue[s]) \subseteq Sighting /\ Range(seen[s]) \subseteq Entry
  BY <1>3, RangeOf DEF Shapes
<1>5. CredentialsTypeOK
  BY <1>1, <1>2, <1>3, <1>4 DEF CredentialsTypeOK, Shapes, Entry
<1>6. Requested /\ Recorded
  BY <1>1 DEF Requested, Unchanged, Fitting, Fits, Naming, Named, Recorded, ObservedFree, SeenTimes
<1>7. Sighted
  <2>1. \A s \in Sites : seen[s] = <<>>
    OBVIOUS
  <2>2. Distinct(<<>>)
    BY DEF Distinct
  <2> QED BY <1>2, <2>1, <2>2 DEF Sighted, OneEntry, EntriesKept, VisitsKept
<1> QED BY <1>3, <1>5, <1>6, <1>7 DEF IndInv, Types

\* The inductive invariant holds in every reachable state.
LEMMA Invariant == CredentialsSpec => []IndInv
<1>1. CredentialsInit => IndInv
  BY Initially
<1>2. IndInv /\ [CredentialsNext]_credVars => IndInv'
  BY NextStep
<1> QED BY <1>1, <1>2, PTL DEF CredentialsSpec

\* Every reachable state of the credential tables and the recorders is well
\* formed, and the queue and the cache of a replica stay within their sizes.
THEOREM CredentialsTypeCorrect == CredentialsSpec => []CredentialsTypeOK
<1>1. IndInv => CredentialsTypeOK
  BY DEF IndInv, Types
<1> QED BY <1>1, Invariant, PTL

\* RecordOperatorCredential: a completed request has the one certificate that
\* completed it, of the level and key it was filed with, and no other request
\* has one, for any number of admins recording, cancelling and listing.
THEOREM CompletedOnce == CredentialsSpec => []CompletedByOne
<1>1. IndInv => CompletedByOne
  <2> SUFFICES ASSUME IndInv, NEW q \in Reqs, requests[q] # None
               PROVE  LET naming == {c \in Certs : rows[c] # None /\ rows[c].request = q} IN
                      IF requests[q].state = "completed"
                      THEN /\ naming = {requests[q].serial}
                           /\ \A c \in naming : Signed[c].level = filed[q].level /\ Signed[c].key = filed[q].key
                      ELSE naming = {}
    BY DEF CompletedByOne
  <2>1. q # None
    BY CredentialsAssumption
  <2>2. \A c \in Certs : rows[c] # None /\ rows[c].request = q =>
          /\ requests[q].state = "completed" /\ requests[q].serial = c
          /\ Signed[c].level = filed[q].level /\ Signed[c].key = filed[q].key
    BY <2>1 DEF IndInv, Requested, Naming
  <2>3. requests[q].state = "completed" =>
          LET c == requests[q].serial IN c \in Certs /\ rows[c] # None /\ rows[c].request = q
    BY DEF IndInv, Requested, Named
  <2> QED BY <2>2, <2>3
<1> QED BY <1>1, Invariant, PTL

\* ObserveOperatorCredential: whatever order the replicas' sightings are
\* written in, a recorded row stays as recorded and seen times only widen.
THEOREM SightingsTakeNothingBack == CredentialsSpec => KnownKept
<1>1. IndInv /\ [CredentialsNext]_credVars => [Widened]_credVars
  BY NextStep
<1>2. CredentialsSpec => [][Widened]_credVars
  BY <1>1, Invariant, PTL DEF CredentialsSpec
<1> QED BY <1>2 DEF KnownKept, Widened, Widens

\* Observe and Run: a certificate whose next sightings are held back is in the
\* table, in the queue, or one whose write failed while it was being marked,
\* for any number of requests, replicas and certificates and any queue and
\* cache size.
THEOREM HeldBackIsKept == CredentialsSpec => []SightingKept
<1>1. IndInv => SightingKept
  <2> SUFFICES ASSUME IndInv, NEW s \in Sites, NEW c \in Certs, FreshlySeen(s, c) PROVE Kept(s, c)
    BY DEF SightingKept, Kept, Queued
  <2>1. DOMAIN seen[s] = 1..Len(seen[s])
    <3>1. seen[s] \in Seq(Entry)
      BY DEF IndInv, Types, Shapes
    <3> QED BY <3>1
  <2>2. PICK i \in 1..Len(seen[s]) : seen[s][i] = [cert |-> c, fresh |-> TRUE]
    BY <2>1 DEF FreshlySeen, Range
  <2>3. seen[s][i].fresh /\ seen[s][i].cert = c
    BY <2>2
  <2> QED BY <2>3 DEF IndInv, Sighted, EntriesKept
<1> QED BY <1>1, Invariant, PTL
=============================================================================
