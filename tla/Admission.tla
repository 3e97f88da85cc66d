----------------------------- MODULE Admission -----------------------------
(***************************************************************************)
(* Whether one replica lets an operator certificate in (checkWeb and       *)
(* checkMCP of internal/operatorca/revocation.go), with the OCSP client it *)
(* asks (ocspclient.go, ocsp.go) and the poll that brings it the other     *)
(* replicas' denials and the operator CA's OCSP settings.                  *)
(*                                                                         *)
(* One operator CA and one certificate.  Time passes in ticks; only a      *)
(* fetch, a poll and waiting for a fetch take time.  How two writers of    *)
(* the denylist race on one replica is in Revocation; here denials come    *)
(* from another replica.                                                   *)
(***************************************************************************)
EXTENDS Levels

CONSTANTS
  Checks,      \* slots for requests being checked
  Peers,       \* what a connection or an MCP key presents: see Identified
  Responses,   \* what a responder may send: see Validate
  Policy,      \* operatorRevocationPolicy
  MaxTTL, NoNextTTL, FailTTL,   \* ocspMaxTTL, ocspNoNextTTL, ocspFailureTTL
  FetchTime,   \* DefaultFetchTimeout
  PreSigned,   \* external: the greatest age of an answer a responder serves
  HasCRL,      \* whether the operator CA has a CRL source
  MaxAge,      \* maxDenylistAge
  CRLLife,     \* how long a CRL lasts
  LastTick, MaxIncidents   \* bounds: the clock, and changes made elsewhere

ASSUME AdmissionAssumption ==
  /\ {MaxTTL, NoNextTTL, FailTTL, FetchTime, MaxAge, CRLLife} \subseteq Nat \ {0}
  /\ NoNextTTL <= MaxTTL /\ FailTTL <= MaxTTL
  /\ {LastTick, MaxIncidents, PreSigned} \subseteq Nat /\ HasCRL \in BOOLEAN
  /\ Policy \in {"soft", "hard"}
  /\ None \notin Nat

VARIABLES
  tick,
  revokedAt,   \* when the operator CA revoked the certificate
  deniedAt,    \* when another replica's denial was committed
  setUrl,      \* the OCSP setting in the database: "off", or a responder; "gone" while
               \* the operator CA is retired
  epoch,       \* the revocation epoch in the database
  url,         \* the setting this replica uses
  changedAt,   \* history: when this replica last took a new setting
  dropped,     \* history: whether this replica ever dropped the operator CA
  deniedHere,  \* whether this replica's denylist has the certificate
  loaded,      \* whether it has loaded a CRL for the operator CA since it trusts it
  crlUntil,    \* nextUpdate of that CRL
  poll,        \* the poll in progress
  lastEpoch, polledAt,
  coveredFrom, \* history: when the last successful poll began
  cache,       \* the OCSP cache entry, or None
  flight,      \* the single-flighted fetch, or None
  refresh,     \* a background refresh not yet started: its responder, or None
  check, outage,
  verdict,     \* history: the admission this step made, if any
  incidents

dbSide == <<revokedAt, deniedAt, setUrl, epoch>>
anchorSide == <<url, changedAt, dropped, loaded>>
pollSide == <<anchorSide, deniedHere, poll, lastEpoch, polledAt, coveredFrom>>
ocspSide == <<cache, flight, refresh>>
admVars == <<tick, dbSide, pollSide, crlUntil, ocspSide, check, outage, verdict, incidents>>

Settings == {"off", "u1", "u2"}
Anchored == Settings \cup {"gone"}
Times == Nat \cup {None}
Statuses == {"good", "revoked", "unknown", "fail"}
Verdicts == {"ocsp", "sets", "soft"}
Entry == [status : Statuses, from : Settings, put : Nat, expires : Nat, half : Nat, refreshing : BOOLEAN]
Flight == [from : Settings, began : Nat, old : Entry \cup {None}]
Check == [pc : {"idle", "ocsp", "wait", "answered"}, path : {"web", "mcp"}, url : Settings,
          answer : Statuses, put : Nat]
PollRec == [pc : {"idle", "rebuild", "reload"}, began : Nat, epoch : Nat]
NoCheck == [pc |-> "idle", path |-> "web", url |-> "off", answer |-> "fail", put |-> 0]
NoPoll == [pc |-> "idle", began |-> 0, epoch |-> 0]

\* A responder says good, revoked or unknown; None is no entry, fetch,
\* setting or verdict.
ASSUME AnswersAssumption ==
  /\ \A r \in Responses : r.status \in {"good", "revoked", "unknown"} /\ r.life \in Times
  /\ \A r \in Responses : r.nonce \in {"echoed", "absent", "other"}
  /\ None \notin Entry \cup Flight \cup Settings \cup Verdicts

\* Types.
AdmissionTypeOK ==
  /\ tick \in 0..LastTick /\ incidents \in 0..MaxIncidents
  /\ revokedAt \in Times /\ deniedAt \in Times /\ changedAt \in Times
  /\ setUrl \in Anchored /\ url \in Anchored /\ epoch \in Nat /\ lastEpoch \in Nat
  /\ {deniedHere, outage, dropped, loaded} \subseteq BOOLEAN
  /\ {crlUntil, polledAt, coveredFrom} \subseteq Nat
  /\ poll \in PollRec
  /\ cache \in Entry \cup {None} /\ flight \in Flight \cup {None}
  /\ refresh \in Settings \cup {None}
  /\ check \in [Checks -> Check]
  /\ verdict \in Verdicts \cup {None}

AdmissionInit ==
  /\ tick = 0 /\ incidents = 0
  /\ revokedAt = None /\ deniedAt = None /\ changedAt = None
  /\ setUrl = "u1" /\ url = "u1" /\ epoch = 0 /\ lastEpoch = 0
  /\ deniedHere = FALSE /\ outage = FALSE /\ dropped = FALSE /\ loaded = TRUE
  /\ crlUntil = CRLLife /\ polledAt = 0 /\ coveredFrom = 0
  /\ poll = NoPoll
  /\ cache = None /\ flight = None /\ refresh = None
  /\ check = [k \in Checks |-> NoCheck]
  /\ verdict = None

-----------------------------------------------------------------------------
(* The OCSP client.                                                        *)

\* checkDelegated: issued directly by the operator CA for OCSP signing, valid
\* now, and not revoked unless it says it needs no check.
Delegated(r) == r.issued /\ r.signing /\ r.valid /\ (r.noCheck \/ ~ r.listed)

\* signer: the operator CA, or an embedded responder certificate it delegated
\* to, as the ResponderID names them.
SignedRight(r) == r.names = "anchor" \/ (r.names = "embedded" /\ Delegated(r))

\* validate: well formed and successful, about this certificate, no unknown
\* critical extension, the nonce not another's, the signer's signature, not
\* from the future, and its nextUpdate not passed; nothing asks how old it is.
\* It was made at `made`, and `life` is from then to its nextUpdate, None
\* without one.
Validate(r, made) ==
  /\ r.wellFormed /\ r.matches /\ r.nonce # "other" /\ SignedRight(r)
  /\ made <= tick /\ (r.life # None => tick < made + r.life)

\* When the responder may have made what it sends in fetch f: on request if it
\* echoes the nonce, ahead of time if it signs in advance.
MadeTimes(f, r) == (IF r.nonce = "echoed" THEN f.began ELSE f.began - PreSigned)..tick

\* What validate makes of it.  The responder knows the revocations from before
\* the answer was made, and not those from after.
Says(r, made, status) ==
  \/ status = "fail" /\ ~ Validate(r, made)
  \/ status = "revoked" /\ Validate(r, made) /\ revokedAt # None /\ revokedAt <= made
  \/ status = r.status /\ Validate(r, made) /\ (revokedAt # None => made <= revokedAt)

\* ttl: a validated answer lives to its nextUpdate, at most MaxTTL, NoNextTTL
\* without one, and is due for a refresh half way.
Life(r, made) ==
  IF r.life = None THEN NoNextTTL ELSE IF made + r.life - tick < MaxTTL THEN made + r.life - tick ELSE MaxTTL

Live(e) == e # None /\ tick < e.expires

NewEntry(status, from, life) ==
  [status |-> status, from |-> from, put |-> tick, expires |-> tick + life,
   half |-> IF status = "fail" THEN tick + life ELSE tick + (life \div 2), refreshing |-> FALSE]

\* Variant: a failed refresh keeps the response for another failure lifetime.
KeptLonger(old) == [old EXCEPT !.refreshing = FALSE, !.half = tick + FailTTL, !.expires = @ + FailTTL]

\* A failed refresh keeps the response within its lifetime and allows another
\* try after FailTTL.
Kept(old) == [old EXCEPT !.refreshing = FALSE, !.half = tick + FailTTL]

\* The entry fill leaves and returns.
Filled(f, status, life) ==
  IF status # "fail" THEN NewEntry(status, f.from, life)
  ELSE IF Live(f.old) THEN Kept(f.old) ELSE NewEntry("fail", f.from, FailTTL)

\* `old` is a pointer: an entry that was cleared or replaced since is changed
\* without coming back into the cache.
Same(a, b) == a # None /\ b # None /\ a.put = b.put /\ a.from = b.from /\ a.status = b.status

\* fill: the response arrives, or the fetch fails or times out.  Everyone who
\* joined the flight gets what it returns.
Fill(r, made, status) ==
  /\ flight # None
  /\ made \in MadeTimes(flight, r) /\ Says(r, made, status)
  /\ LET e == Filled(flight, status, Life(r, made)) IN
     /\ cache' = IF Same(e, flight.old) /\ ~ Same(cache, flight.old) THEN cache ELSE e
     /\ check' = [k \in Checks |-> IF check[k].pc = "wait"
                    THEN [check[k] EXCEPT !.pc = "answered", !.answer = e.status, !.put = e.put] ELSE check[k]]
  /\ flight' = None
  /\ verdict' = None
  /\ UNCHANGED <<tick, dbSide, pollSide, crlUntil, refresh, outage, incidents>>

\* Check: a live entry answers, and starts a refresh when it is due; otherwise
\* the caller waits for one fetch, its own or the one in flight.
OCSPCheck(k) ==
  /\ check[k].pc = "ocsp"
  /\ IF Live(cache)
     THEN /\ check' = [check EXCEPT ![k].pc = "answered", ![k].answer = cache.status, ![k].put = cache.put]
          /\ IF cache.status # "fail" /\ ~ cache.refreshing /\ tick >= cache.half
             THEN cache' = [cache EXCEPT !.refreshing = TRUE] /\ refresh' = check[k].url
             ELSE UNCHANGED <<cache, refresh>>
          /\ UNCHANGED flight
     ELSE /\ check' = [check EXCEPT ![k].pc = "wait"]
          /\ flight' = IF flight = None THEN [from |-> check[k].url, began |-> tick, old |-> None] ELSE flight
          /\ UNCHANGED <<cache, refresh>>
  /\ verdict' = None
  /\ UNCHANGED <<tick, dbSide, pollSide, crlUntil, outage, incidents>>

\* The background refresh begins: it takes the entry cached by now, and joins
\* a fetch in flight.
Refresh ==
  /\ refresh # None
  /\ flight' = IF flight = None THEN [from |-> refresh, began |-> tick, old |-> cache] ELSE flight
  /\ refresh' = None
  /\ verdict' = None
  /\ UNCHANGED <<tick, dbSide, pollSide, crlUntil, cache, check, outage, incidents>>

\* The least recently used entry makes room for another certificate's.
Evict ==
  /\ cache # None /\ incidents < MaxIncidents
  /\ incidents' = incidents + 1
  /\ cache' = None
  /\ verdict' = None
  /\ UNCHANGED <<tick, dbSide, pollSide, crlUntil, flight, refresh, check, outage>>

-----------------------------------------------------------------------------
(* The two decisions.                                                      *)

\* HasCRL and a CRL within its nextUpdate.
CRLFresh == HasCRL /\ loaded /\ tick < crlUntil

\* LevelFromCertificate: the access-level extension, if its token is a level.
LevelFromCertificate(p) == IF p.level \in Levels THEN p.level ELSE None

\* clientCert: a connection without a certificate, or with one that carries no
\* access level, gets no further.
Identified(p) == p # None /\ LevelFromCertificate(p) # None

\* VerifyPeer: the certificate chains, for client authentication, to an
\* operator CA of the generation in force.
VerifyPeer(p) == url # "gone" /\ p.chains

\* AuthorizePeer, at the start of every web request.
AuthorizePeer(p) == Identified(p) /\ VerifyPeer(p)

\* AdmitMCP, of the certificate an MCP key was minted with.
AdmitMCP(p) == p # None /\ VerifyPeer(p)

\* checkWeb: refused when listed here; without a responder the CRL decides.
CheckWeb(k, p) ==
  /\ check[k].pc = "idle" /\ AuthorizePeer(p) /\ ~ deniedHere
  /\ check' = [check EXCEPT ![k] = [NoCheck EXCEPT !.path = "web", !.url = url,
                                     !.pc = IF url = "off" THEN "answered" ELSE "ocsp"]]
  /\ verdict' = None
  /\ UNCHANGED <<tick, dbSide, pollSide, crlUntil, ocspSide, outage, incidents>>

\* Variant: the last successful poll may be of any age.
PolledOnce == polledAt \in Nat

\* The last successful poll is recent enough for MCP.
PolledLately == tick - polledAt <= MaxAge

\* checkMCPSets, before anyone is asked: refused when listed, when the polls
\* have failed too long (STALE_DENYLIST), without a CRL source (NO_CRL) or a
\* CRL that is fresh (STALE_CRL).
CheckMCP(k, p) ==
  /\ check[k].pc = "idle" /\ AdmitMCP(p) /\ ~ deniedHere
  /\ PolledLately /\ CRLFresh
  /\ check' = [check EXCEPT ![k] = [NoCheck EXCEPT !.path = "mcp", !.url = url,
                                     !.pc = IF url = "off" THEN "answered" ELSE "ocsp"]]
  /\ verdict' = None
  /\ UNCHANGED <<tick, dbSide, pollSide, crlUntil, ocspSide, outage, incidents>>

\* What follows the answer.  An answer of any kind ends an outage; good admits
\* and revoked or unknown refuse.  Without one MCP has the CRL it found fresh;
\* the web path looks the operator CA up again, and has a CRL that is fresh
\* now, nothing to ask where neither a CRL nor a responder is set, or the policy.
Conclude(k) ==
  /\ check[k].pc = "answered"
  /\ check' = [check EXCEPT ![k] = NoCheck]
  /\ \/ /\ check[k].url # "off" /\ check[k].answer # "fail"
        /\ outage' = FALSE
        /\ verdict' = IF check[k].answer = "good" THEN "ocsp" ELSE None
     \/ /\ check[k].url = "off" \/ check[k].answer = "fail"
        /\ IF check[k].path = "web" /\ url = "gone" THEN verdict' = None /\ UNCHANGED outage
           ELSE IF check[k].path = "mcp" \/ CRLFresh \/ (~ HasCRL /\ check[k].url = "off")
           THEN verdict' = "sets" /\ UNCHANGED outage
           ELSE IF Policy = "hard" THEN verdict' = None /\ UNCHANGED outage
           ELSE verdict' = "soft" /\ outage' = (outage \/ check[k].url # "off")
  /\ UNCHANGED <<tick, dbSide, pollSide, crlUntil, ocspSide, incidents>>

-----------------------------------------------------------------------------
(* The poll.                                                               *)

\* PollOnce reads the trust version; a changed operator CA row is rebuilt from
\* first, then a changed epoch is reloaded.
PollNext(settled, e) == IF ~ settled THEN "rebuild" ELSE IF e # lastEpoch THEN "reload" ELSE "idle"

\* A poll that has done everything: polledAt is when it ends.
Finished(p) ==
  /\ polledAt' = tick /\ coveredFrom' = p.began
  /\ lastEpoch' = p.epoch
  /\ poll' = NoPoll

PollStarts ==
  LET p == [pc |-> PollNext(setUrl = url, epoch), began |-> tick, epoch |-> epoch] IN
  /\ poll.pc = "idle"
  /\ \/ p.pc # "idle" /\ poll' = p /\ UNCHANGED <<polledAt, coveredFrom, lastEpoch>>
     \/ p.pc = "idle" /\ Finished(p)
  /\ verdict' = None
  /\ UNCHANGED <<tick, dbSide, anchorSide, deniedHere, crlUntil, ocspSide, check, outage, incidents>>

\* Variant: the cached answers stay.
KeepAnswers == UNCHANGED cache

\* ClearAnchor: the CA's cached answers go; a fetch in flight goes on.
ClearAnchor == cache' = None

\* Rebuild with SetAnchors: new OCSP settings of an operator CA that stays drop
\* what is cached, and end the outage.  One that goes takes its CRL and its
\* outage along, and one that comes back has neither yet; its cached answers
\* stay all the while.
PollRebuilds ==
  LET p == [poll EXCEPT !.pc = PollNext(TRUE, poll.epoch)] IN
  /\ poll.pc = "rebuild"
  /\ url' = setUrl
  /\ \/ /\ setUrl # url /\ "gone" \notin {setUrl, url}
        /\ ClearAnchor /\ changedAt' = tick /\ outage' = FALSE
        /\ UNCHANGED <<dropped, loaded>>
     \/ /\ setUrl # url /\ "gone" \in {setUrl, url}
        /\ dropped' = TRUE /\ loaded' = FALSE /\ outage' = FALSE
        /\ UNCHANGED <<cache, changedAt>>
     \/ setUrl = url /\ UNCHANGED <<cache, changedAt, outage, dropped, loaded>>
  /\ \/ p.pc = "reload" /\ poll' = p /\ UNCHANGED <<polledAt, coveredFrom, lastEpoch>>
     \/ p.pc = "idle" /\ Finished(p)
  /\ verdict' = None
  /\ UNCHANGED <<tick, dbSide, deniedHere, crlUntil, flight, refresh, check, incidents>>

\* Reload: the denylist, then the CRLs.
PollReloads ==
  /\ poll.pc = "reload"
  /\ deniedHere' = (deniedAt # None)
  /\ loaded' = (url # "gone")
  /\ Finished(poll)
  /\ verdict' = None
  /\ UNCHANGED <<tick, dbSide, url, changedAt, dropped, crlUntil, ocspSide, check, outage, incidents>>

\* A poll that fails keeps the last good state and counts for nothing.
PollFails ==
  /\ poll.pc # "idle"
  /\ poll' = NoPoll
  /\ verdict' = None
  /\ UNCHANGED <<tick, dbSide, anchorSide, deniedHere, lastEpoch, polledAt, coveredFrom,
                 crlUntil, ocspSide, check, outage, incidents>>

-----------------------------------------------------------------------------
(* What happens elsewhere, and time.                                       *)

\* CheckOCSPChoice: a responder URL is stored once it has answered a probe with
\* a validly signed response.
CheckOCSPChoice(u) == u = "off" \/ \E r \in Responses : Validate(r, tick)

\* Variant: the operator CA comes back without moving the epoch.
RotatedBackUnstamped(u) == setUrl = "gone" /\ CheckOCSPChoice(u) /\ setUrl' = u /\ UNCHANGED epoch

\* RotateOperatorCA makes the retired operator CA active again, and moves the
\* epoch in the same transaction.
RotatedBack(u) == setUrl = "gone" /\ CheckOCSPChoice(u) /\ setUrl' = u /\ epoch' = epoch + 1

Elsewhere ==
  /\ incidents < MaxIncidents
  /\ incidents' = incidents + 1
  /\ \/ revokedAt = None /\ revokedAt' = tick /\ UNCHANGED <<deniedAt, epoch, setUrl, crlUntil>>
     \/ /\ deniedAt = None /\ deniedAt' = tick /\ epoch' = epoch + 1
        /\ UNCHANGED <<revokedAt, setUrl, crlUntil>>
     \/ /\ setUrl # "gone"
        /\ setUrl' = "gone" \/ \E u \in Settings \ {setUrl} : CheckOCSPChoice(u) /\ setUrl' = u
        /\ UNCHANGED <<revokedAt, deniedAt, epoch, crlUntil>>
     \/ (\E u \in Settings : RotatedBack(u)) /\ UNCHANGED <<revokedAt, deniedAt, crlUntil>>
     \/ loaded /\ crlUntil' = tick + CRLLife /\ UNCHANGED <<revokedAt, deniedAt, epoch, setUrl>>
  /\ verdict' = None
  /\ UNCHANGED <<tick, pollSide, ocspSide, check, outage>>

\* A fetch ends within FetchTime, and nothing else takes time but a poll.
Passes ==
  /\ tick < LastTick
  /\ flight # None => tick - flight.began < FetchTime
  /\ refresh = None
  /\ \A k \in Checks : check[k].pc \in {"idle", "wait"}
  /\ tick' = tick + 1
  /\ verdict' = None
  /\ UNCHANGED <<dbSide, pollSide, crlUntil, ocspSide, check, outage, incidents>>

AdmissionNext ==
  \/ Passes \/ Elsewhere \/ Evict \/ Refresh
  \/ \E r \in Responses, made \in (0 - PreSigned)..tick, status \in Statuses : Fill(r, made, status)
  \/ \E k \in Checks, p \in Peers : CheckWeb(k, p) \/ CheckMCP(k, p)
  \/ \E k \in Checks : OCSPCheck(k) \/ Conclude(k)
  \/ PollStarts \/ PollRebuilds \/ PollReloads \/ PollFails

AdmissionSpec == AdmissionInit /\ [][AdmissionNext]_admVars

-----------------------------------------------------------------------------
(* Properties.                                                             *)

\* A revocation at the operator CA reaches the web path through OCSP within the
\* age a responder's pre-signed answers may have, the longest fetch and the
\* longest lifetime of an answer: no cached, shared or kept answer admits the
\* certificate later, whatever refreshes fail, entries are evicted or settings
\* change meanwhile (validate, Check, fill, refresh).  The age is the
\* responder's to bound: the manager takes a good answer of any age.
RevocationHeeded ==
  verdict = "ocsp" /\ revokedAt # None => tick < revokedAt + PreSigned + FetchTime + MaxTTL

\* When MCP lets a certificate past the denylist, that denylist holds every
\* denial committed before a poll that ended at most MaxAge ago began: failed,
\* slow and overlapping polls never make an old denylist look new
\* (checkMCPSets, PollOnce, Reload, MarkPolled).
McpHeedsDenials == [][\A k \in Checks : check[k].pc = "idle" /\ check'[k].pc # "idle" /\ check'[k].path = "mcp" =>
  /\ tick <= polledAt + MaxAge
  /\ deniedAt = None \/ deniedAt >= coveredFrom]_admVars

\* After the OCSP settings change, the only answers of another responder left
\* in the cache are those that were still on their way, as long as the operator
\* CA was never dropped (SetAnchors).
OldAnswersDropped ==
  cache # None /\ cache.from # url /\ ~ dropped => changedAt # None /\ cache.put >= changedAt

\* An operator CA that is trusted before its CRL is loaded has the load to come:
\* from the poll that is running, or from the next one, which finds a newer
\* epoch; rows and epoch read at different times never leave it without
\* (install, PollOnce, RotateOperatorCA).
CRLOwed == url # "gone" /\ ~ loaded => poll.pc = "reload" \/ lastEpoch # epoch
=============================================================================
