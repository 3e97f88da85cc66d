---------------------------- MODULE Guard_proofs ----------------------------
(***************************************************************************)
(* Proofs about what certificates are checked against.  Admission, for any *)
(* number of requests, responders' answers and lifetimes: how long a       *)
(* revoked certificate gets in, and how old a denylist and a CRL may be.   *)
(* CRLRefresh, for any number of replicas, interval, jitter and validity:  *)
(* when a new CRL is in use everywhere.                                    *)
(***************************************************************************)
EXTENDS Admission, CRLRefresh, TLAPS

(***************************************************************************)
(* Admission.                                                              *)
(***************************************************************************)
\* No answer is from the future or outlives MaxTTL, and a good one came at most
\* a fetch and the age of a pre-signed answer after the revocation.
Timely(e) ==
  /\ e.put <= tick
  /\ e.expires <= e.put + MaxTTL
  /\ e.status = "good" /\ revokedAt # None => e.put <= revokedAt + PreSigned + FetchTime

Answers ==
  /\ cache # None => Timely(cache)
  /\ flight # None /\ flight.old # None => Timely(flight.old)
  /\ \A k \in Checks : check[k].pc = "answered" /\ check[k].answer = "good" /\ revokedAt # None =>
       tick < revokedAt + PreSigned + FetchTime + MaxTTL

\* What has happened is not in the future, and a fetch ends in time.
Clocks ==
  /\ revokedAt # None => revokedAt <= tick
  /\ changedAt # None => changedAt <= tick
  /\ coveredFrom <= tick
  /\ poll.pc # "idle" => poll.began <= tick
  /\ flight # None => flight.began <= tick /\ tick <= flight.began + FetchTime

\* The epoch a replica has is no newer than the one its poll read, and that one
\* no newer than the database's.
Epochs ==
  /\ lastEpoch <= epoch
  /\ poll.pc # "idle" => lastEpoch <= poll.epoch /\ poll.epoch <= epoch
  /\ poll.pc = "reload" => lastEpoch # poll.epoch

\* A denial this replica lacks is one that its next reload brings.
Denials == deniedAt # None /\ ~ deniedHere =>
  /\ lastEpoch # epoch /\ coveredFrom <= deniedAt
  /\ poll.pc # "idle" /\ deniedAt < poll.began => lastEpoch # poll.epoch

\* So is a CRL, of an operator CA that is trusted or about to be.
CRLs ==
  /\ url # "gone" /\ ~ loaded => lastEpoch # epoch
  /\ url = "gone" /\ setUrl # "gone" => lastEpoch # epoch /\ (poll.pc = "reload" => poll.epoch # epoch)

\* Only a change of the settings leaves a question to another responder.
Changed(u) == u # url => changedAt # None
Responders == ~ dropped =>
  /\ cache # None => Changed(cache.from) /\ (changedAt # None => changedAt <= cache.put)
  /\ flight # None => Changed(flight.from)
  /\ refresh # None => Changed(refresh)
  /\ \A k \in Checks : check[k].pc = "ocsp" => Changed(check[k].url)

Polling == Epochs /\ Denials /\ CRLs
AdmInv == AdmissionTypeOK /\ Clocks /\ Answers /\ RevocationHeeded /\ Polling /\ Responders

-----------------------------------------------------------------------------
\* The fields of an entry, a fetch and a poll have their types.
LEMMA AnswerForms ==
  /\ \A e \in Entry : e # None /\ e.status \in Statuses /\ e.from \in Settings
                      /\ e.put \in Nat /\ e.expires \in Nat
  /\ \A f \in Flight : f # None /\ f.from \in Settings /\ f.began \in Nat /\ f.old \in Entry \cup {None}
  /\ \A p \in PollRec : p.pc \in {"idle", "rebuild", "reload"} /\ p.began \in Nat /\ p.epoch \in Nat
  /\ NoPoll \in PollRec /\ NoPoll.pc = "idle"
  /\ NoCheck \in Check /\ NoCheck.pc = "idle"
  /\ \A c \in Check : c.pc \in {"idle", "ocsp", "wait", "answered"} /\ c.url \in Settings /\ c.put \in Nat
                      /\ c.answer \in Statuses
BY AnswersAssumption DEF Entry, Flight, PollRec, NoPoll, NoCheck, Check, Settings, Statuses

\* A new entry is put now and lives as long as it is given.
LEMMA NewEntryForm ==
  ASSUME AdmissionTypeOK,
         NEW status \in Statuses, NEW from \in Settings, NEW life \in 1..MaxTTL
  PROVE  LET e == NewEntry(status, from, life) IN
         /\ e \in Entry /\ e.put = tick /\ e.expires = tick + life /\ e.status = status /\ e.from = from
<1> DEFINE h == IF status = "fail" THEN tick + life ELSE tick + (life \div 2)
<1>1. tick \in Nat /\ MaxTTL \in Nat /\ life \in Nat
  BY AdmissionAssumption DEF AdmissionTypeOK
<1>2. h \in Nat
  BY <1>1
<1> HIDE DEF h
<1>3. NewEntry(status, from, life) =
      [status |-> status, from |-> from, put |-> tick, expires |-> tick + life, half |-> h, refreshing |-> FALSE]
  BY DEF h, NewEntry
<1> QED BY <1>1, <1>2, <1>3 DEF Entry

\* A kept entry is the same answer, as old as it was.
LEMMA KeptForm ==
  ASSUME AdmissionTypeOK, NEW old \in Entry
  PROVE  /\ Kept(old) \in Entry /\ Same(Kept(old), old)
         /\ Kept(old).put = old.put /\ Kept(old).expires = old.expires
         /\ Kept(old).status = old.status /\ Kept(old).from = old.from
<1>1. tick + FailTTL \in Nat
  BY AdmissionAssumption DEF AdmissionTypeOK
<1>2. Kept(old) \in Entry /\ Kept(old).put = old.put /\ Kept(old).expires = old.expires
      /\ Kept(old).status = old.status /\ Kept(old).from = old.from
  BY <1>1 DEF Kept, Entry
<1> QED BY <1>2, AnswerForms DEF Same

\* What a fetch brings: a new answer that began with it, or the old one kept.
LEMMA FilledForm ==
  ASSUME AdmInv, flight # None, NEW r \in Responses, NEW made, NEW s,
         made \in MadeTimes(flight, r), Says(r, made, s)
  PROVE  LET e == Filled(flight, s, Life(r, made)) IN
         /\ e \in Entry /\ Timely(e) /\ tick < e.expires
         /\ \/ e.put = tick /\ e.from = flight.from
            \/ flight.old # None /\ Same(e, flight.old)
<1>1. flight \in Flight /\ tick \in Nat /\ revokedAt \in Times /\ flight.began \in Nat
  BY AnswerForms DEF AdmInv, AdmissionTypeOK
<1>2. /\ MaxTTL \in Nat /\ FailTTL \in 1..MaxTTL /\ NoNextTTL \in 1..MaxTTL
      /\ FetchTime \in Nat /\ PreSigned \in Nat
  BY AdmissionAssumption
<1>3. s \in Statuses
  BY AnswersAssumption DEF Says, Statuses
<1>4. CASE s # "fail"
  <2>1. Validate(r, made)
    BY <1>4 DEF Says
  <2>2. made \in Int /\ made <= tick /\ flight.began <= made + PreSigned
    BY <1>1, <1>2 DEF MadeTimes
  <2>3. Life(r, made) \in 1..MaxTTL
    BY <2>1, <2>2, <1>1, <1>2, AnswersAssumption DEF Validate, Life, Times
  <2> DEFINE e == NewEntry(s, flight.from, Life(r, made))
  <2>4. Filled(flight, s, Life(r, made)) = e
    BY <1>4 DEF Filled
  <2>5. e \in Entry /\ e.put = tick /\ e.expires = tick + Life(r, made) /\ e.status = s /\ e.from = flight.from
    BY <1>1, <1>3, <2>3, NewEntryForm, AnswerForms DEF AdmInv
  <2>6. s = "good" /\ revokedAt # None => made <= revokedAt
    BY <1>4 DEF Says
  <2>7. s = "good" /\ revokedAt # None => tick <= revokedAt + PreSigned + FetchTime
    BY <2>2, <2>6, <1>1, <1>2 DEF AdmInv, Clocks, Times
  <2> HIDE DEF e
  <2>8. Timely(e) /\ tick < e.expires
    BY <2>3, <2>5, <2>7, <1>1, <1>2 DEF Timely
  <2> QED BY <2>4, <2>5, <2>8
<1>5. CASE s = "fail" /\ Live(flight.old)
  <2>1. flight.old \in Entry
    BY <1>1, <1>5, AnswerForms DEF Live
  <2>2. Filled(flight, s, Life(r, made)) = Kept(flight.old)
    BY <1>5 DEF Filled
  <2>3. Timely(flight.old) /\ tick < flight.old.expires /\ flight.old # None
    BY <1>5 DEF Live, AdmInv, Answers
  <2> QED BY <2>1, <2>2, <2>3, KeptForm DEF Timely, AdmInv
<1>6. CASE s = "fail" /\ ~ Live(flight.old)
  <2> DEFINE e == NewEntry("fail", flight.from, FailTTL)
  <2>1. Filled(flight, s, Life(r, made)) = e
    BY <1>6 DEF Filled
  <2>2. e \in Entry /\ e.put = tick /\ e.expires = tick + FailTTL /\ e.status = "fail" /\ e.from = flight.from
    BY <1>1, <1>2, NewEntryForm, AnswerForms DEF AdmInv, Statuses
  <2> HIDE DEF e
  <2>3. Timely(e) /\ tick < e.expires
    BY <2>2, <1>1, <1>2 DEF Timely
  <2> QED BY <2>1, <2>2, <2>3
<1> QED BY <1>4, <1>5, <1>6

\* What a poll has seen does not depend on checks, answers and time.
LEMMA PollingFrame ==
  ASSUME Polling, UNCHANGED <<epoch, lastEpoch, poll, deniedAt, deniedHere, coveredFrom, url, setUrl, loaded>>
  PROVE  Polling'
BY DEF Polling, Epochs, Denials, CRLs

-----------------------------------------------------------------------------
(* The OCSP client.                                                        *)

\* fill: what arrives is timely, whoever waits for it.
LEMMA FillStep ==
  ASSUME AdmInv, NEW r \in Responses, NEW made, NEW s, Fill(r, made, s)
  PROVE  AdmInv'
<1> DEFINE e == Filled(flight, s, Life(r, made))
           given(k) == [check[k] EXCEPT !.pc = "answered", !.answer = e.status, !.put = e.put]
<1>1. flight # None /\ flight \in Flight /\ tick \in Nat /\ flight' = None /\ verdict' = None
  <2>1. flight # None /\ flight' = None /\ verdict' = None
    BY DEF Fill
  <2>2. flight \in Flight \cup {None} /\ tick \in Nat
    BY DEF AdmInv, AdmissionTypeOK
  <2> QED BY <2>1, <2>2
<1>2. /\ e \in Entry /\ Timely(e) /\ tick < e.expires
      /\ (e.put = tick /\ e.from = flight.from) \/ (flight.old # None /\ Same(e, flight.old))
  BY <1>1, FilledForm DEF Fill
<1>3. /\ cache' = IF Same(e, flight.old) /\ ~ Same(cache, flight.old) THEN cache ELSE e
      /\ check' = [k \in Checks |-> IF check[k].pc = "wait" THEN given(k) ELSE check[k]]
  BY DEF Fill
<1>4. UNCHANGED <<tick, dbSide, pollSide, crlUntil, refresh, outage, incidents>>
  BY DEF Fill
<1>5. UNCHANGED <<tick, revokedAt, deniedAt, setUrl, epoch, url, changedAt, dropped, loaded, deniedHere, poll,
                  lastEpoch, polledAt, coveredFrom, crlUntil, refresh, outage, incidents>>
  BY <1>4 DEF dbSide, pollSide, anchorSide
<1> HIDE DEF e
<1>6. \A k \in Checks : /\ check[k] \in Check /\ given(k) \in Check
                        /\ given(k).pc = "answered" /\ given(k).answer = e.status
  BY <1>2, AnswerForms DEF AdmInv, AdmissionTypeOK, Check
<1> HIDE DEF given
<1>7. \A k \in Checks : check'[k] = IF check[k].pc = "wait" THEN given(k) ELSE check[k]
  BY <1>3
<1>8. AdmissionTypeOK'
  <2>1. check' \in [Checks -> Check]
    BY <1>3, <1>6
  <2>2. cache' \in Entry \cup {None}
    BY <1>2, <1>3 DEF AdmInv, AdmissionTypeOK
  <2> QED BY <1>1, <1>5, <2>1, <2>2 DEF AdmInv, AdmissionTypeOK
<1>9. Clocks' /\ Polling'
  <2>1. Clocks'
    BY <1>1, <1>5 DEF AdmInv, Clocks
  <2> QED BY <2>1, <1>5, PollingFrame DEF AdmInv
<1>10. Answers'
  <2>1. cache' # None => Timely(cache)' 
    BY <1>2, <1>3, <1>5 DEF AdmInv, Answers, Timely
  <2>2. e.status = "good" /\ revokedAt # None => tick < revokedAt + PreSigned + FetchTime + MaxTTL
    <3>1. e.put \in Nat /\ e.expires \in Nat /\ MaxTTL \in Nat /\ FetchTime \in Nat /\ PreSigned \in Nat /\ revokedAt \in Times
      BY <1>2, AnswerForms, AdmissionAssumption DEF AdmInv, AdmissionTypeOK
    <3> QED BY <3>1, <1>1, <1>2 DEF Timely, Times
  <2>3. ASSUME NEW k \in Checks, check'[k].pc = "answered", check'[k].answer = "good", revokedAt # None
        PROVE  tick < revokedAt + PreSigned + FetchTime + MaxTTL
    BY <2>2, <2>3, <1>6, <1>7 DEF AdmInv, Answers
  <2> QED BY <1>1, <1>5, <2>1, <2>3 DEF Answers
<1>11. RevocationHeeded'
  BY <1>1, AnswersAssumption DEF RevocationHeeded, Verdicts
<1>12. Responders'
  <2> SUFFICES ASSUME ~ dropped PROVE Responders'
    BY <1>5 DEF Responders
  <2>1. cache' # None => Changed(cache.from)' /\ (changedAt' # None => changedAt' <= cache'.put)
    <3>1. CASE cache' = cache
      BY <3>1, <1>5 DEF AdmInv, Responders, Changed
    <3>2. CASE cache' = e /\ e.put = tick /\ e.from = flight.from
      BY <3>2, <1>1, <1>5 DEF AdmInv, Clocks, Responders, Changed
    <3>3. CASE cache' = e /\ flight.old # None /\ Same(e, flight.old) /\ Same(cache, flight.old)
      BY <3>3, <1>5 DEF Same, AdmInv, Responders, Changed
    <3> QED BY <3>1, <3>2, <3>3, <1>2, <1>3
  <2>2. \A k \in Checks : check'[k].pc = "ocsp" => check'[k] = check[k]
    BY <1>6, <1>7
  <2>3. \A k \in Checks : check'[k].pc = "ocsp" => Changed(check[k].url)'
    BY <2>2, <1>5 DEF AdmInv, Responders, Changed
  <2> QED BY <2>1, <2>3, <1>1, <1>5 DEF AdmInv, Responders, Changed
<1> QED BY <1>8, <1>9, <1>10, <1>11, <1>12 DEF AdmInv

\* Check: a live answer is soon enough, and so is one to wait for.
LEMMA OCSPCheckStep ==
  ASSUME AdmInv, NEW k \in Checks, OCSPCheck(k)
  PROVE  AdmInv'
<1> DEFINE u == check[k].url
<1>1. UNCHANGED <<tick, revokedAt, deniedAt, setUrl, epoch, url, changedAt, dropped, loaded, deniedHere, poll,
                  lastEpoch, polledAt, coveredFrom, crlUntil, outage, incidents>> /\ verdict' = None
  BY DEF OCSPCheck, dbSide, pollSide, anchorSide
<1>2. check[k] \in Check /\ u \in Settings /\ check[k].pc = "ocsp" /\ tick \in Nat /\ revokedAt \in Times
  BY AnswerForms DEF OCSPCheck, AdmInv, AdmissionTypeOK
<1>3. PICK c \in Check : /\ check' = [check EXCEPT ![k] = c] /\ c.pc # "ocsp"
                         /\ c.pc = "answered" => Live(cache) /\ c.answer = cache.status
  <2>1. CASE Live(cache)
    <3>1. cache \in Entry
      BY <2>1 DEF Live, AdmInv, AdmissionTypeOK
    <3> DEFINE c == [check[k] EXCEPT !.pc = "answered", !.answer = cache.status, !.put = cache.put]
    <3>2. c \in Check /\ c.pc = "answered" /\ c.answer = cache.status
      BY <3>1, <1>2, AnswerForms DEF Check
    <3>3. check' = [check EXCEPT ![k] = c]
      BY <2>1 DEF OCSPCheck, AdmInv, AdmissionTypeOK
    <3> QED BY <2>1, <3>2, <3>3
  <2>2. CASE ~ Live(cache)
    <3> DEFINE c == [check[k] EXCEPT !.pc = "wait"]
    <3>1. c \in Check /\ c.pc = "wait"
      BY <1>2 DEF Check
    <3>2. check' = [check EXCEPT ![k] = c]
      BY <2>2 DEF OCSPCheck, AdmInv, AdmissionTypeOK
    <3> QED BY <3>1, <3>2
  <2> QED BY <2>1, <2>2
<1>4. check' \in [Checks -> Check] /\ check'[k] = c /\ \A j \in Checks \ {k} : check'[j] = check[j]
  BY <1>3 DEF AdmInv, AdmissionTypeOK
<1>5. \/ cache' = cache
      \/ /\ cache # None /\ cache' \in Entry /\ cache'.status = cache.status /\ cache'.put = cache.put
         /\ cache'.from = cache.from /\ cache'.expires = cache.expires
  BY DEF OCSPCheck, Live, AdmInv, AdmissionTypeOK, Entry
<1>6. refresh' = refresh \/ refresh' = u
  BY DEF OCSPCheck
<1>7. flight' = flight \/ flight' = [from |-> u, began |-> tick, old |-> None]
  BY DEF OCSPCheck
<1>8. flight' = flight \/ /\ flight' \in Flight /\ flight'.from = u /\ flight'.began = tick /\ flight'.old = None
  BY <1>2, <1>7 DEF Flight
<1>9. Changed(u) \/ dropped
  BY <1>2 DEF AdmInv, Responders
<1> HIDE DEF u
<1>10. AdmissionTypeOK'
  BY <1>1, <1>2, <1>4, <1>5, <1>6, <1>8 DEF AdmInv, AdmissionTypeOK
<1>11. Clocks' /\ Polling'
  <2>1. Clocks'
    BY <1>1, <1>2, <1>8, AdmissionAssumption DEF AdmInv, Clocks
  <2> QED BY <2>1, <1>1, PollingFrame DEF AdmInv
<1>12. Answers'
  <2>1. cache' # None => Timely(cache)'
    BY <1>1, <1>5 DEF AdmInv, Answers, Timely
  <2>2. flight' # None /\ flight'.old # None => Timely(flight.old)'
    BY <1>1, <1>8 DEF AdmInv, Answers, Timely
  <2>3. c.pc = "answered" /\ c.answer = "good" /\ revokedAt # None => tick < revokedAt + PreSigned + FetchTime + MaxTTL
    <3> SUFFICES ASSUME Live(cache), cache.status = "good", revokedAt # None
                 PROVE  tick < revokedAt + PreSigned + FetchTime + MaxTTL
      BY <1>3
    <3>1. cache \in Entry /\ Timely(cache) /\ tick < cache.expires
      BY DEF Live, AdmInv, AdmissionTypeOK, Answers
    <3>2. cache.put \in Nat /\ cache.expires \in Nat /\ MaxTTL \in Nat /\ FetchTime \in Nat /\ PreSigned \in Nat
      BY <3>1, AnswerForms, AdmissionAssumption
    <3> QED BY <3>1, <3>2, <1>2 DEF Timely, Times
  <2>4. \A j \in Checks : check'[j].pc = "answered" /\ check'[j].answer = "good" /\ revokedAt # None =>
          tick < revokedAt + PreSigned + FetchTime + MaxTTL
    BY <2>3, <1>4 DEF AdmInv, Answers
  <2> QED BY <1>1, <2>1, <2>2, <2>4 DEF Answers
<1>13. RevocationHeeded'
  BY <1>1, AnswersAssumption DEF RevocationHeeded, Verdicts
<1>14. Responders'
  <2> SUFFICES ASSUME ~ dropped PROVE Responders'
    BY <1>1 DEF Responders
  <2>1. cache' # None => Changed(cache.from)' /\ (changedAt' # None => changedAt' <= cache'.put)
    BY <1>1, <1>5 DEF AdmInv, Responders, Changed
  <2>2. (flight' # None => Changed(flight.from)') /\ (refresh' # None => Changed(refresh)')
    BY <1>1, <1>6, <1>8, <1>9 DEF AdmInv, Responders, Changed
  <2>3. \A j \in Checks : check'[j].pc = "ocsp" => Changed(check[j].url)'
    BY <1>1, <1>3, <1>4 DEF AdmInv, Responders, Changed
  <2> QED BY <2>1, <2>2, <2>3 DEF Responders
<1> QED BY <1>10, <1>11, <1>12, <1>13, <1>14 DEF AdmInv

\* refresh and the cache's eviction: a refresh keeps the answer it may need.
LEMMA RefreshEvictSteps ==
  ASSUME AdmInv, Refresh \/ Evict
  PROVE  AdmInv'
<1>1. UNCHANGED <<tick, revokedAt, deniedAt, setUrl, epoch, url, changedAt, dropped, loaded, deniedHere, poll,
                  lastEpoch, polledAt, coveredFrom, crlUntil, outage, check>> /\ verdict' = None
  BY DEF Refresh, Evict, dbSide, pollSide, anchorSide
<1>2. tick \in Nat /\ incidents \in Nat
  BY DEF AdmInv, AdmissionTypeOK
<1>3. cache' = cache \/ cache' = None
  BY DEF Refresh, Evict
<1>4. \/ flight' = flight
      \/ /\ flight' = [from |-> refresh, began |-> tick, old |-> cache] /\ refresh \in Settings
  BY DEF Refresh, Evict, AdmInv, AdmissionTypeOK
<1>5. \/ flight' = flight
      \/ /\ flight' \in Flight /\ flight'.from = refresh /\ flight'.began = tick /\ flight'.old = cache
         /\ refresh \in Settings /\ refresh # None
  BY <1>2, <1>4, AnswersAssumption DEF Flight, AdmInv, AdmissionTypeOK
<1>6. refresh' \in {refresh, None} /\ incidents' \in 0..MaxIncidents
  BY AdmissionAssumption DEF Refresh, Evict, AdmInv, AdmissionTypeOK, ocspSide
<1>7. AdmissionTypeOK'
  BY <1>1, <1>3, <1>5, <1>6 DEF AdmInv, AdmissionTypeOK
<1>8. Clocks' /\ Polling'
  <2>1. Clocks'
    BY <1>1, <1>2, <1>5, AdmissionAssumption DEF AdmInv, Clocks
  <2> QED BY <2>1, <1>1, PollingFrame DEF AdmInv
<1>9. Answers' /\ RevocationHeeded'
  BY <1>1, <1>3, <1>5, AnswersAssumption DEF AdmInv, Answers, Timely, RevocationHeeded, Verdicts
<1>10. Responders'
  BY <1>1, <1>3, <1>5, <1>6 DEF AdmInv, Responders, Changed
<1> QED BY <1>7, <1>8, <1>9, <1>10 DEF AdmInv

-----------------------------------------------------------------------------
(* The two decisions.                                                      *)

\* checkWeb and checkMCP ask the responder in force.
LEMMA CheckSteps ==
  ASSUME AdmInv, NEW k \in Checks, NEW p \in Peers, CheckWeb(k, p) \/ CheckMCP(k, p)
  PROVE  AdmInv'
<1>1. UNCHANGED <<tick, revokedAt, deniedAt, setUrl, epoch, url, changedAt, dropped, loaded, deniedHere, poll,
                  lastEpoch, polledAt, coveredFrom, crlUntil, cache, flight, refresh, outage, incidents>>
      /\ verdict' = None
  BY DEF CheckWeb, CheckMCP, dbSide, pollSide, anchorSide, ocspSide
<1>2. url \in Settings
  BY DEF CheckWeb, CheckMCP, AuthorizePeer, AdmitMCP, VerifyPeer, AdmInv, AdmissionTypeOK, Anchored
<1>3. PICK c \in Check : check' = [check EXCEPT ![k] = c] /\ c.url = url /\ c.answer = "fail"
  <2> DEFINE n == IF url = "off" THEN "answered" ELSE "ocsp"
             c(path) == [NoCheck EXCEPT !.path = path, !.url = url, !.pc = n]
  <2>1. n \in {"answered", "ocsp"}
    OBVIOUS
  <2>2. check' = [check EXCEPT ![k] = c("web")] \/ check' = [check EXCEPT ![k] = c("mcp")]
    BY DEF CheckWeb, CheckMCP
  <2> HIDE DEF n
  <2>3. \A path \in {"web", "mcp"} : c(path) \in Check /\ c(path).url = url /\ c(path).answer = "fail"
    BY <1>2, <2>1 DEF NoCheck, Check, Statuses
  <2> HIDE DEF c
  <2> QED BY <2>2, <2>3
<1>4. check' \in [Checks -> Check] /\ check'[k] = c /\ \A j \in Checks \ {k} : check'[j] = check[j]
  BY <1>3 DEF AdmInv, AdmissionTypeOK
<1>5. AdmissionTypeOK'
  BY <1>1, <1>4 DEF AdmInv, AdmissionTypeOK
<1>6. Clocks' /\ Polling'
  BY <1>1, PollingFrame DEF AdmInv, Clocks
<1>7. Answers'
  BY <1>1, <1>3, <1>4 DEF AdmInv, Answers, Timely
<1>8. RevocationHeeded'
  BY <1>1, AnswersAssumption DEF RevocationHeeded, Verdicts
<1>9. Responders'
  BY <1>1, <1>3, <1>4 DEF AdmInv, Responders, Changed
<1> QED BY <1>5, <1>6, <1>7, <1>8, <1>9 DEF AdmInv

\* An answer that admits is acted on at once.
LEMMA ConcludeStep ==
  ASSUME AdmInv, NEW k \in Checks, Conclude(k)
  PROVE  AdmInv'
<1>1. UNCHANGED <<tick, revokedAt, deniedAt, setUrl, epoch, url, changedAt, dropped, loaded, deniedHere, poll,
                  lastEpoch, polledAt, coveredFrom, crlUntil, cache, flight, refresh, incidents>>
  BY DEF Conclude, dbSide, pollSide, anchorSide, ocspSide
<1>2. check' = [check EXCEPT ![k] = NoCheck] /\ check[k].pc = "answered"
  BY DEF Conclude
<1>3. check' \in [Checks -> Check] /\ check'[k] = NoCheck /\ \A j \in Checks \ {k} : check'[j] = check[j]
  BY <1>2, AnswerForms DEF AdmInv, AdmissionTypeOK
<1>4. verdict' \in Verdicts \cup {None} /\ (verdict' = "ocsp" => check[k].answer = "good")
  BY AnswersAssumption DEF Conclude, Verdicts
<1>5. outage' \in BOOLEAN
  BY DEF Conclude, AdmInv, AdmissionTypeOK
<1>6. AdmissionTypeOK'
  BY <1>1, <1>3, <1>4, <1>5 DEF AdmInv, AdmissionTypeOK
<1>7. Clocks' /\ Polling'
  BY <1>1, PollingFrame DEF AdmInv, Clocks
<1>8. Answers'
  BY <1>1, <1>3, AnswerForms DEF AdmInv, Answers, Timely
<1>9. RevocationHeeded'
  BY <1>1, <1>2, <1>4 DEF AdmInv, Answers, RevocationHeeded
<1>10. Responders'
  BY <1>1, <1>3, AnswerForms DEF AdmInv, Responders, Changed
<1> QED BY <1>6, <1>7, <1>8, <1>9, <1>10 DEF AdmInv

-----------------------------------------------------------------------------
(* The poll.                                                               *)

\* Answers and questions depend on the poll only through the settings.
LEMMA AnswersFrame ==
  ASSUME AdmInv, UNCHANGED <<tick, revokedAt, cache, flight, refresh, check>>, verdict' = None
  PROVE  /\ Answers' /\ RevocationHeeded'
         /\ UNCHANGED <<url, changedAt, dropped>> => Responders'
<1>1. Answers'
  BY DEF AdmInv, Answers, Timely
<1>2. RevocationHeeded'
  BY AnswersAssumption DEF RevocationHeeded, Verdicts
<1>3. UNCHANGED <<url, changedAt, dropped>> => Responders'
  BY DEF AdmInv, Responders, Changed
<1> QED BY <1>1, <1>2, <1>3

\* PollOnce that has nothing to do, or that begins, reloads or fails.
LEMMA PollSteps ==
  ASSUME AdmInv, PollStarts \/ PollReloads \/ PollFails
  PROVE  AdmInv'
<1>1. UNCHANGED <<tick, revokedAt, deniedAt, setUrl, epoch, url, changedAt, dropped,
                  crlUntil, cache, flight, refresh, check, outage, incidents>>
      /\ verdict' = None
  BY DEF PollStarts, PollReloads, PollFails, dbSide, anchorSide, ocspSide
<1>2. /\ tick \in Nat /\ epoch \in Nat /\ lastEpoch \in Nat /\ deniedAt \in Times /\ coveredFrom \in Nat
      /\ poll \in PollRec /\ polledAt \in Nat /\ loaded \in BOOLEAN /\ deniedHere \in BOOLEAN
  BY DEF AdmInv, AdmissionTypeOK
<1>3. Answers' /\ RevocationHeeded' /\ Responders'
  BY <1>1, AnswersFrame
<1>4. CASE PollStarts
  <2> DEFINE p == [pc |-> PollNext(setUrl = url, epoch), began |-> tick, epoch |-> epoch]
  <2>1. p \in PollRec /\ p.began = tick /\ p.epoch = epoch /\ p.pc = PollNext(setUrl = url, epoch)
    BY <1>2 DEF PollRec, PollNext
  <2>2. deniedHere' = deniedHere /\ loaded' = loaded
    BY <1>4 DEF PollStarts, anchorSide
  <2>3. /\ p.pc = "reload" => setUrl = url /\ epoch # lastEpoch
        /\ p.pc = "idle" => setUrl = url /\ epoch = lastEpoch
    BY <2>1 DEF PollNext
  <2>4. \/ p.pc # "idle" /\ poll' = p /\ UNCHANGED <<polledAt, coveredFrom, lastEpoch>>
        \/ p.pc = "idle" /\ polledAt' = tick /\ coveredFrom' = p.began /\ lastEpoch' = p.epoch /\ poll' = NoPoll
    BY <1>4 DEF PollStarts, Finished
  <2> HIDE DEF p
  <2>5. AdmissionTypeOK'
    BY <1>1, <1>2, <2>1, <2>2, <2>4, AnswerForms DEF AdmInv, AdmissionTypeOK
  <2>6. Clocks'
    BY <1>1, <1>2, <2>1, <2>4, AnswerForms DEF AdmInv, Clocks
  <2>7. Polling'
    <3>1. CASE p.pc # "idle"
      BY <3>1, <1>1, <1>2, <2>1, <2>2, <2>3, <2>4 DEF AdmInv, Clocks, Polling, Epochs, Denials, CRLs, Times
    <3>2. CASE p.pc = "idle"
      BY <3>2, <1>1, <1>2, <2>1, <2>2, <2>3, <2>4, AnswerForms DEF AdmInv, Polling, Epochs, Denials, CRLs
    <3> QED BY <3>1, <3>2
  <2> QED BY <1>3, <2>5, <2>6, <2>7 DEF AdmInv
<1>5. CASE PollReloads
  <2>1. /\ poll.pc = "reload" /\ deniedHere' = (deniedAt # None) /\ loaded' = (url # "gone")
        /\ polledAt' = tick /\ coveredFrom' = poll.began /\ lastEpoch' = poll.epoch /\ poll' = NoPoll
    BY <1>5 DEF PollReloads, Finished
  <2>2. deniedHere' \in BOOLEAN /\ loaded' \in BOOLEAN
    BY <2>1
  <2>3. AdmissionTypeOK'
    BY <1>1, <1>2, <2>1, <2>2, AnswerForms DEF AdmInv, AdmissionTypeOK
  <2>4. Clocks'
    BY <1>1, <1>2, <2>1, AnswerForms DEF AdmInv, Clocks
  <2>5. Polling'
    BY <1>1, <1>2, <2>1, AnswerForms DEF AdmInv, Polling, Epochs, Denials, CRLs
  <2> QED BY <1>3, <2>3, <2>4, <2>5 DEF AdmInv
<1>6. CASE PollFails
  <2>1. poll' = NoPoll /\ UNCHANGED <<deniedHere, loaded, lastEpoch, polledAt, coveredFrom>>
    BY <1>6 DEF PollFails, anchorSide
  <2>2. AdmissionTypeOK'
    BY <1>1, <2>1, AnswerForms DEF AdmInv, AdmissionTypeOK
  <2>3. Clocks'
    BY <1>1, <2>1, AnswerForms DEF AdmInv, Clocks
  <2>4. Polling'
    BY <1>1, <2>1, AnswerForms DEF AdmInv, Polling, Epochs, Denials, CRLs
  <2> QED BY <1>3, <2>2, <2>3, <2>4 DEF AdmInv
<1> QED BY <1>4, <1>5, <1>6

\* Rebuild with SetAnchors: what is cached goes with the settings it came by,
\* and an operator CA that comes back is still behind the epoch.
LEMMA PollRebuildsStep ==
  ASSUME AdmInv, PollRebuilds
  PROVE  AdmInv'
<1> DEFINE p == [poll EXCEPT !.pc = PollNext(TRUE, poll.epoch)]
<1>1. UNCHANGED <<tick, revokedAt, deniedAt, setUrl, epoch, deniedHere, crlUntil, flight, refresh, check, incidents>>
      /\ verdict' = None /\ url' = setUrl /\ poll.pc = "rebuild"
  BY DEF PollRebuilds, dbSide
<1>2. /\ tick \in Nat /\ epoch \in Nat /\ lastEpoch \in Nat /\ deniedAt \in Times /\ coveredFrom \in Nat
      /\ poll \in PollRec /\ polledAt \in Nat /\ setUrl \in Anchored
  BY DEF AdmInv, AdmissionTypeOK
<1>3. /\ p \in PollRec /\ p.began = poll.began /\ p.epoch = poll.epoch
      /\ p.pc \in {"reload", "idle"} /\ (p.pc = "reload" <=> poll.epoch # lastEpoch)
  BY <1>2 DEF PollRec, PollNext
<1>4. \/ p.pc = "reload" /\ poll' = p /\ UNCHANGED <<polledAt, coveredFrom, lastEpoch>>
      \/ p.pc = "idle" /\ polledAt' = tick /\ coveredFrom' = p.began /\ lastEpoch' = p.epoch /\ poll' = NoPoll
  BY DEF PollRebuilds, Finished
<1> HIDE DEF p
<1>5. \/ /\ setUrl # url /\ "gone" \notin {setUrl, url}
         /\ cache' = None /\ changedAt' = tick /\ outage' = FALSE /\ UNCHANGED <<dropped, loaded>>
      \/ /\ setUrl # url /\ "gone" \in {setUrl, url}
         /\ dropped' = TRUE /\ loaded' = FALSE /\ outage' = FALSE /\ UNCHANGED <<cache, changedAt>>
      \/ setUrl = url /\ UNCHANGED <<cache, changedAt, outage, dropped, loaded>>
  BY DEF PollRebuilds, ClearAnchor
<1>6. (cache' = None \/ cache' = cache) /\ (changedAt' = changedAt \/ changedAt' = tick)
      /\ outage' \in BOOLEAN /\ dropped' \in BOOLEAN /\ loaded' \in BOOLEAN
  BY <1>5 DEF AdmInv, AdmissionTypeOK
<1>7. /\ poll' \in PollRec /\ polledAt' \in Nat /\ coveredFrom' \in Nat /\ lastEpoch' \in Nat
      /\ lastEpoch' = lastEpoch /\ coveredFrom' \in {coveredFrom, poll.began}
  BY <1>2, <1>3, <1>4, AnswerForms
<1>8. AdmissionTypeOK'
  BY <1>1, <1>2, <1>6, <1>7 DEF AdmInv, AdmissionTypeOK, Times
<1>9. Clocks'
  BY <1>1, <1>2, <1>3, <1>4, <1>6, AnswerForms DEF AdmInv, Clocks
<1>10. Answers' /\ RevocationHeeded'
  BY <1>1, <1>6, AnswersAssumption DEF AdmInv, Answers, Timely, RevocationHeeded, Verdicts
<1>11. Epochs' /\ Denials'
  <2>1. Epochs'
    BY <1>1, <1>2, <1>3, <1>4, AnswerForms DEF AdmInv, Polling, Epochs
  <2>2. Denials'
    BY <1>1, <1>2, <1>3, <1>4, AnswerForms DEF AdmInv, Polling, Denials, Times
  <2> QED BY <2>1, <2>2
<1>12. CRLs'
  BY <1>1, <1>5, <1>7 DEF AdmInv, Polling, CRLs
<1>13. Responders'
  <2>1. CASE setUrl # url /\ "gone" \notin {setUrl, url}
    BY <2>1, <1>1, <1>2, <1>5, AdmissionAssumption DEF AdmInv, Responders, Changed
  <2>2. CASE setUrl # url /\ "gone" \in {setUrl, url}
    BY <2>2, <1>5 DEF Responders
  <2>3. CASE setUrl = url
    BY <2>3, <1>1, <1>5 DEF AdmInv, Responders, Changed
  <2> QED BY <2>1, <2>2, <2>3
<1> QED BY <1>8, <1>9, <1>10, <1>11, <1>12, <1>13 DEF AdmInv, Polling

-----------------------------------------------------------------------------
(* Elsewhere, and time.                                                    *)

\* A revocation, a denial, a setting and a rotation of another replica: each
\* that a reload must bring moves the epoch past what this replica has read.
LEMMA ElsewhereStep ==
  ASSUME AdmInv, Elsewhere
  PROVE  AdmInv'
<1>1. UNCHANGED <<tick, url, changedAt, dropped, loaded, deniedHere, poll, lastEpoch, polledAt, coveredFrom,
                  cache, flight, refresh, check, outage>> /\ verdict' = None
  BY DEF Elsewhere, pollSide, anchorSide, ocspSide
<1>2. incidents' \in 0..MaxIncidents
  BY AdmissionAssumption DEF Elsewhere, AdmInv, AdmissionTypeOK
<1>3. /\ tick \in Nat /\ epoch \in Nat /\ lastEpoch \in Nat /\ coveredFrom \in Nat /\ revokedAt \in Times
      /\ poll \in PollRec /\ tick + CRLLife \in Nat /\ deniedAt \in Times
  BY AdmissionAssumption DEF AdmInv, AdmissionTypeOK
<1>4. revokedAt' = revokedAt \/ (revokedAt = None /\ revokedAt' = tick)
  BY DEF Elsewhere
<1>5. \/ UNCHANGED <<deniedAt, epoch>>
         /\ (setUrl' = setUrl \/ (setUrl # "gone" /\ setUrl' \in Anchored))
      \/ deniedAt' = tick /\ epoch' = epoch + 1 /\ UNCHANGED setUrl
      \/ epoch' = epoch + 1 /\ setUrl = "gone" /\ setUrl' \in Settings /\ UNCHANGED deniedAt
  BY DEF Elsewhere, RotatedBack, Anchored, Settings
<1>6. crlUntil' \in Nat
  BY <1>3 DEF Elsewhere, AdmInv, AdmissionTypeOK
<1>7. epoch' \in Nat /\ setUrl' \in Anchored /\ deniedAt' \in Times /\ revokedAt' \in Times
  BY <1>3, <1>4, <1>5 DEF AdmInv, AdmissionTypeOK, Anchored, Times
<1>8. AdmissionTypeOK'
  BY <1>1, <1>2, <1>6, <1>7 DEF AdmInv, AdmissionTypeOK
<1>9. Clocks'
  BY <1>1, <1>3, <1>4 DEF AdmInv, Clocks
<1>10. Answers'
  <2>1. FetchTime \in Nat /\ PreSigned \in Nat /\ MaxTTL \in Nat \ {0}
    BY AdmissionAssumption
  <2>2. /\ cache # None => Timely(cache) /\ cache.put \in Nat
        /\ flight # None /\ flight.old # None => Timely(flight.old) /\ flight.old.put \in Nat
    BY AnswerForms DEF AdmInv, Answers, AdmissionTypeOK
  <2>3. CASE revokedAt' = revokedAt
    BY <2>3, <1>1 DEF AdmInv, Answers, Timely
  <2>4. CASE revokedAt' = tick
    BY <2>1, <2>2, <2>4, <1>1, <1>3 DEF Answers, Timely
  <2> QED BY <1>4, <2>3, <2>4
<1>11. RevocationHeeded'
  BY <1>1, AnswersAssumption DEF RevocationHeeded, Verdicts
<1>12. Epochs'
  BY <1>1, <1>3, <1>5, AnswerForms DEF AdmInv, Polling, Epochs
<1>13. Denials'
  BY <1>1, <1>3, <1>5, AnswerForms DEF AdmInv, Clocks, Polling, Epochs, Denials
<1>14. CRLs'
  BY <1>1, <1>3, <1>5, AnswerForms DEF AdmInv, Polling, Epochs, CRLs
<1>15. Responders'
  BY <1>1 DEF AdmInv, Responders, Changed
<1> QED BY <1>8, <1>9, <1>10, <1>11, <1>12, <1>13, <1>14, <1>15 DEF AdmInv, Polling

\* Time passes while nobody has an answer in hand and no fetch is overdue.
LEMMA PassesStep ==
  ASSUME AdmInv, Passes
  PROVE  AdmInv'
<1>1. UNCHANGED <<revokedAt, deniedAt, setUrl, epoch, url, changedAt, dropped, loaded, deniedHere, poll,
                  lastEpoch, polledAt, coveredFrom, crlUntil, cache, flight, refresh, check, outage, incidents>>
      /\ verdict' = None /\ tick' = tick + 1
  BY DEF Passes, dbSide, pollSide, anchorSide, ocspSide
<1>2. /\ tick \in Nat /\ tick' \in 0..LastTick /\ flight \in Flight \cup {None} /\ poll \in PollRec
      /\ revokedAt \in Times /\ changedAt \in Times /\ coveredFrom \in Nat /\ cache \in Entry \cup {None}
  BY AdmissionAssumption DEF Passes, AdmInv, AdmissionTypeOK
<1>3. flight # None => tick - flight.began < FetchTime
  BY DEF Passes
<1>4. AdmissionTypeOK'
  BY <1>1, <1>2 DEF AdmInv, AdmissionTypeOK
<1>5. Clocks'
  BY <1>1, <1>2, <1>3, AnswerForms, AdmissionAssumption DEF AdmInv, Clocks, Times
<1>6. Answers'
  <2>1. /\ cache # None => Timely(cache) /\ cache.put \in Nat
        /\ flight # None /\ flight.old # None => Timely(flight.old) /\ flight.old.put \in Nat
    BY AnswerForms DEF AdmInv, Answers, AdmissionTypeOK
  <2>2. \A k \in Checks : check[k].pc # "answered"
    BY DEF Passes
  <2> QED BY <2>1, <2>2, <1>1, <1>2 DEF Answers, Timely
<1>7. RevocationHeeded'
  BY <1>1, AnswersAssumption DEF RevocationHeeded, Verdicts
<1>8. Polling' /\ Responders'
  BY <1>1, PollingFrame DEF AdmInv, Responders, Changed
<1> QED BY <1>4, <1>5, <1>6, <1>7, <1>8 DEF AdmInv

-----------------------------------------------------------------------------
(* The theorems.                                                           *)

\* Every step keeps the inductive invariant.
LEMMA AdmissionStep ==
  ASSUME AdmInv, [AdmissionNext]_admVars
  PROVE  AdmInv'
<1>1. CASE UNCHANGED admVars
  <2>1. UNCHANGED <<tick, revokedAt, deniedAt, setUrl, epoch, url, changedAt, dropped, loaded, deniedHere, poll,
                    lastEpoch, polledAt, coveredFrom, crlUntil, cache, flight, refresh, check, outage, verdict,
                    incidents>>
    BY <1>1 DEF admVars, dbSide, pollSide, anchorSide, ocspSide
  <2>2. AdmissionTypeOK' /\ Clocks' /\ Polling'
    BY <2>1, PollingFrame DEF AdmInv, AdmissionTypeOK, Clocks
  <2>3. Answers' /\ RevocationHeeded' /\ Responders'
    BY <2>1 DEF AdmInv, Answers, Timely, RevocationHeeded, Responders, Changed
  <2> QED BY <2>2, <2>3 DEF AdmInv
<1>2. CASE AdmissionNext
  BY <1>2, PassesStep, ElsewhereStep, RefreshEvictSteps, FillStep, CheckSteps, OCSPCheckStep, ConcludeStep,
     PollSteps, PollRebuildsStep DEF AdmissionNext
<1> QED BY <1>1, <1>2

\* A replica starts with nothing cached, denied or revoked.
LEMMA AdmissionStarts ==
  ASSUME AdmissionInit
  PROVE  AdmInv
<1> USE DEF AdmissionInit
<1>1. AdmissionTypeOK
  <2>1. check \in [Checks -> Check]
    BY AnswerForms
  <2>2. tick \in 0..LastTick /\ incidents \in 0..MaxIncidents /\ crlUntil \in Nat
    BY AdmissionAssumption
  <2>3. {deniedHere, outage, dropped, loaded} \subseteq BOOLEAN
    OBVIOUS
  <2> QED BY <2>1, <2>2, <2>3, AnswerForms DEF AdmissionTypeOK, Times, Anchored, Settings
<1>2. Clocks /\ Polling
  BY AnswerForms DEF Clocks, Polling, Epochs, Denials, CRLs
<1>3. Answers /\ RevocationHeeded /\ Responders
  BY AnswerForms DEF Answers, RevocationHeeded, Responders, Changed
<1> QED BY <1>1, <1>2, <1>3 DEF AdmInv

\* The inductive invariant holds in every reachable state.
LEMMA AdmissionInvariant == AdmissionSpec => []AdmInv
<1>1. AdmissionInit => AdmInv
  BY AdmissionStarts
<1>2. AdmInv /\ [AdmissionNext]_admVars => AdmInv'
  BY AdmissionStep
<1> QED BY <1>1, <1>2, PTL DEF AdmissionSpec

\* Every reachable state of the checks, the OCSP client and the poll is well
\* formed.
THEOREM AdmissionTypeCorrect == AdmissionSpec => []AdmissionTypeOK
<1>1. AdmInv => AdmissionTypeOK
  BY DEF AdmInv
<1> QED BY <1>1, AdmissionInvariant, PTL

\* validate, Check, fill and refresh: a certificate revoked at the operator CA is
\* admitted through OCSP for less than the age PreSigned of the oldest answer its
\* responders serve, a fetch and a cached answer's longest lifetime, whatever that
\* age, the answers and their lifetimes, the number of requests that share a
\* fetch, and the settings' changes.
THEOREM RevocationReachesWeb == AdmissionSpec => []RevocationHeeded
<1>1. AdmInv => RevocationHeeded
  BY DEF AdmInv
<1> QED BY <1>1, AdmissionInvariant, PTL

\* SetAnchors: after new OCSP settings no answer of the old responder is left
\* in the cache but one that was still on its way.
THEOREM OldResponderForgotten == AdmissionSpec => []OldAnswersDropped
<1>1. AdmInv => OldAnswersDropped
  BY DEF AdmInv, AdmissionTypeOK, Responders, Changed, OldAnswersDropped, Entry, Times
<1> QED BY <1>1, AdmissionInvariant, PTL

\* install, PollOnce and RotateOperatorCA: an operator CA trusted without its
\* CRL has the load to come, whenever its rows and the epoch were read.
THEOREM CRLNeverForgotten == AdmissionSpec => []CRLOwed
<1>1. AdmInv => CRLOwed
  BY DEF AdmInv, Polling, CRLs, CRLOwed
<1> QED BY <1>1, AdmissionInvariant, PTL

\* checkMCPSets: MCP lets a certificate past the denylist only when that holds
\* every denial committed before a poll began that ended at most MaxAge ago,
\* whatever polls fail, overlap or take their time.
THEOREM McpSeesDenials == AdmissionSpec => McpHeedsDenials
<1> DEFINE Past == \A k \in Checks : check[k].pc = "idle" /\ check'[k].pc # "idle" /\ check'[k].path = "mcp" =>
             /\ tick <= polledAt + MaxAge
             /\ deniedAt = None \/ deniedAt >= coveredFrom
<1>1. ASSUME AdmInv, AdmissionNext
      PROVE  Past
  <2> SUFFICES ASSUME NEW k \in Checks, check[k].pc = "idle", check'[k].pc # "idle", check'[k].path = "mcp"
               PROVE  tick <= polledAt + MaxAge /\ (deniedAt = None \/ deniedAt >= coveredFrom)
    OBVIOUS
  <2>1. \E p \in Peers : CheckMCP(k, p)
    <3>1. CASE Passes \/ Elsewhere \/ Evict \/ Refresh \/ PollStarts \/ PollRebuilds \/ PollReloads \/ PollFails
      BY <3>1 DEF Passes, Elsewhere, Evict, Refresh, PollStarts, PollRebuilds, PollReloads, PollFails
    <3>2. CASE \E r \in Responses, made \in (0 - PreSigned)..tick, s \in Statuses : Fill(r, made, s)
      <4>1. PICK r \in Responses, made \in (0 - PreSigned)..tick, s \in Statuses : Fill(r, made, s)
        BY <3>2
      <4>2. check'[k] = check[k]
        BY <4>1 DEF Fill
      <4> QED BY <4>2
    <3>3. ASSUME NEW j \in Checks, OCSPCheck(j) \/ Conclude(j) PROVE FALSE
      <4>1. check'[k] = check[k] \/ check'[k] = NoCheck
        <5>1. CASE OCSPCheck(j)
          <6>1. j # k
            BY <5>1 DEF OCSPCheck
          <6>2. check \in [Checks -> Check]
            BY <1>1 DEF AdmInv, AdmissionTypeOK
          <6>3. CASE Live(cache)
            <7>1. check' = [check EXCEPT ![j] = [check[j] EXCEPT !.pc = "answered", !.answer = cache.status,
                                                                 !.put = cache.put]]
              BY <5>1, <6>2, <6>3 DEF OCSPCheck
            <7> QED BY <6>1, <6>2, <7>1
          <6>4. CASE ~ Live(cache)
            BY <5>1, <6>1, <6>2, <6>4 DEF OCSPCheck
          <6> QED BY <6>3, <6>4
        <5>2. CASE Conclude(j)
          BY <1>1, <5>2 DEF Conclude, AdmInv, AdmissionTypeOK
        <5> QED BY <3>3, <5>1, <5>2
      <4> QED BY <4>1, AnswerForms
    <3>4. ASSUME NEW j \in Checks, NEW p \in Peers, CheckWeb(j, p) PROVE FALSE
      <4>1. check'[k] = check[k] \/ check'[k].path = "web"
        BY <1>1, <3>4 DEF CheckWeb, NoCheck, AdmInv, AdmissionTypeOK
      <4> QED BY <4>1
    <3>5. ASSUME NEW j \in Checks, NEW p \in Peers, CheckMCP(j, p) PROVE j = k
      BY <1>1, <3>5 DEF CheckMCP, AdmInv, AdmissionTypeOK
    <3> QED BY <1>1, <3>1, <3>2, <3>3, <3>4, <3>5 DEF AdmissionNext
  <2>2. PolledLately /\ ~ deniedHere
    BY <2>1 DEF CheckMCP
  <2>3. tick \in Nat /\ polledAt \in Nat /\ MaxAge \in Nat /\ coveredFrom \in Nat /\ deniedAt \in Nat \cup {None}
    BY <1>1, AdmissionAssumption DEF AdmInv, AdmissionTypeOK, Times
  <2>4. deniedAt = None \/ coveredFrom <= deniedAt
    BY <1>1, <2>2 DEF AdmInv, Polling, Denials
  <2> QED BY <2>2, <2>3, <2>4 DEF PolledLately
<1>2. AdmInv /\ [AdmissionNext]_admVars => [Past]_admVars
  BY <1>1
<1> QED BY <1>2, AdmissionInvariant, PTL DEF AdmissionSpec, McpHeedsDenials

(***************************************************************************)
(* CRLRefresh.                                                             *)
(***************************************************************************)
\* The CRL comes from a URL that answers, and the newest one is stored.
FromURL == answering /\ caRow # None /\ caRow.source = "url"
Newest == crlRow.number = published

\* The last tick of quiet at which a refresh can begin: one put off by a recent
\* attempt less than half an interval into it, and an interval with its jitter
\* later.
Latest == Interval + Jitter + Half - 1

Bounded ==
  /\ crlRow.number <= published
  /\ \A r \in Refreshers : sched[r] # None => sched[r].due <= Interval + Jitter
Leased ==
  /\ \A r \in Refreshers : step[r] # "idle" => r \in alive
  /\ lease # None => step[lease] # "idle"

\* A replica that is not behind has what is stored.
InUse == \A r \in alive \ behind : inUse[r] = crlRow.number /\ (caRow # None => known[r] = caRow.source)

\* After a tick of quiet every replica knows the source, and what is fetched is
\* the newest CRL.
Told == steady >= 1 /\ caRow # None => \A r \in alive : known[r] = caRow.source
Fetched == steady >= 1 => \A r \in Refreshers : step[r] = "store" => got[r] = published

\* A good attempt that missed the newest CRL is as old as the quiet.
Aged == FromURL /\ ~ Newest /\ crlRow.number > 0 /\ ~ crlRow.failed =>
  crlRow.age >= steady \/ crlRow.age = Interval

\* From half an interval on, the newest CRL is stored, a refresh is under way
\* in time, or every replica waits for one that is.
UnderWay(r) ==
  \/ step[r] \in {"check", "fetch"} /\ steady <= Latest
  \/ step[r] \in {"slow", "store"} /\ steady <= Latest + 1
Waiting(r) == step[r] = "idle" /\ sched[r] # None /\ sched[r].due + steady <= Latest
InTime == FromURL /\ ~ Newest /\ steady >= Half =>
  (\E r \in alive : UnderWay(r)) \/ (\A r \in alive : Waiting(r))
Settled == steady = Bound /\ FromURL => alive = {} \/ (Newest /\ behind = {})

Standing == Bounded /\ Leased /\ InUse
Quiet == Told /\ Fetched /\ Aged /\ InTime /\ Settled
RefInv == RefreshTypeOK /\ Standing /\ Quiet

-----------------------------------------------------------------------------
\* The ticks that matter, in order.
LEMMA Ticks ==
  /\ Interval \in Nat /\ Jitter \in Nat /\ Half \in Nat /\ 1 <= Half /\ Half < Interval /\ Jitter < Interval
  /\ Latest \in Nat /\ Half <= Latest /\ Bound = Latest + 2
<1>1. Interval \in Nat /\ Interval >= 2 /\ Jitter \in Nat /\ Jitter < Interval
  BY CRLRefreshAssumption
<1>2. Half \in Nat /\ 1 <= Half /\ Half < Interval
  BY <1>1 DEF Half
<1> QED BY <1>1, <1>2 DEF Latest, Bound

\* Rows and schedules have their types, and None is not one.
LEMMA RefreshForms ==
  /\ \A x \in CARow : x # None /\ x.cert \in Uploads /\ x.source \in Sources
  /\ \A x \in CRLRow : x.number \in 0..MaxCRLs /\ x.failed \in BOOLEAN /\ x.age \in 0..Interval
  /\ \A x \in Schedule : x # None /\ x.due \in Nat /\ x.backoff \in 0..Interval
BY CRLRowsAssumption DEF CARow, CRLRow, Schedule

\* What has just been disturbed has its whole time left.
LEMMA Disturbed ==
  ASSUME RefreshTypeOK', Standing', steady' = 0
  PROVE  RefInv'
<1>1. crlRow'.age \in Nat
  BY RefreshForms, Ticks DEF RefreshTypeOK
<1>2. Told' /\ Fetched' /\ InTime'
  BY Ticks DEF Told, Fetched, InTime
<1>3. Aged' /\ Settled'
  BY <1>1, Ticks DEF Aged, Settled
<1> QED BY <1>2, <1>3 DEF RefInv, Quiet

\* nextRefresh: never later than an interval with its jitter.
LEMMA DoneForm ==
  ASSUME RefreshTypeOK, NEW r \in Refreshers, NEW error \in BOOLEAN, Done(r, error)
  PROVE  /\ \E s \in Schedule : s.due <= Interval + Jitter /\ sched' = [sched EXCEPT ![r] = s]
         /\ step' = [step EXCEPT ![r] = "idle"] /\ got' = [got EXCEPT ![r] = 0]
         /\ lease' = IF lease = r THEN None ELSE lease
<1>1. PICK s \in [due : 0..(2 * Interval), backoff : 0..(2 * Interval)] :
        NextRefresh(sched[r], error, inUse'[r], s) /\ sched' = [sched EXCEPT ![r] = s]
  BY DEF Done
<1>2. s.due \in Nat /\ s.backoff \in Nat /\ s = [due |-> s.due, backoff |-> s.backoff]
  BY Ticks
<1>3. sched[r] # None => sched[r].backoff \in Nat
  BY RefreshForms, Ticks DEF RefreshTypeOK
<1>4. s.due <= Interval + Jitter /\ s.backoff <= Interval
  <2>1. CASE sched[r] = None /\ s = [due |-> 0, backoff |-> 0]
    BY <2>1, Ticks
  <2>2. ASSUME sched[r] # None,
               LET b == IF Double(sched[r].backoff) < Interval THEN Double(sched[r].backoff) ELSE Interval IN
               s = [due |-> b, backoff |-> b]
        PROVE  s.due <= Interval + Jitter /\ s.backoff <= Interval
    <3>1. Double(sched[r].backoff) \in Nat
      BY <1>3, <2>2 DEF Double
    <3> QED BY <2>2, <3>1, Ticks
  <2>3. ASSUME NEW wait \in (Interval - Jitter)..(Interval + Jitter), NEW n,
               s = [due |-> IF n > 0 /\ left[n] < wait THEN left[n] ELSE wait, backoff |-> 0]
        PROVE  s.due <= Interval + Jitter /\ s.backoff <= Interval
    <3>1. s.backoff = 0 /\ (s.due = wait \/ (s.due = left[n] /\ left[n] < wait))
      BY <2>3
    <3> QED BY <3>1, <1>2, Ticks
  <2> QED BY <1>1, <2>1, <2>2, <2>3 DEF NextRefresh
<1>5. s \in Schedule
  BY <1>2, <1>4, Ticks DEF Schedule
<1> QED BY <1>1, <1>4, <1>5 DEF Done

-----------------------------------------------------------------------------
(* What disturbs the quiet.                                                *)

\* putCRLTx: the row only moves forward, to a CRL that was published.
LEMMA PutCRLForm ==
  ASSUME RefInv, NEW n \in 0..published, PutCRL(n)
  PROVE  /\ crlRow' \in CRLRow /\ crlRow.number <= crlRow'.number /\ crlRow'.number <= published
         /\ n = 0 => crlRow' = crlRow
         /\ n # 0 => crlRow'.number = n
<1>1. published \in 1..MaxCRLs /\ MaxCRLs \in Nat /\ crlRow \in CRLRow /\ crlRow.number <= published
  BY CRLRefreshAssumption DEF RefInv, RefreshTypeOK, Standing, Bounded
<1>2. crlRow.number \in Nat /\ n \in Nat
  BY <1>1, RefreshForms
<1>3. [number |-> n, failed |-> FALSE, age |-> 0] \in CRLRow
  BY <1>1, <1>2, Ticks DEF CRLRow
<1> QED BY <1>1, <1>2, <1>3 DEF PutCRL

\* A registration and a change of the source.
LEMMA SourceSteps ==
  ASSUME RefInv, NEW r \in Refreshers, NEW c \in Uploads, NEW s \in Sources, NEW n \in 0..MaxCRLs,
         r \in alive, StoreSource(r, c, s, n), mishaps' \in 0..MaxMishaps
  PROVE  RefInv'
<1>1. /\ UNCHANGED <<published, left, answering, lease, alive, policy, sched, step, got>> /\ steady' = 0
      /\ PutCRL(n) /\ caRow' = [cert |-> c, source |-> s] /\ behind' = alive \ {r}
      /\ known' = [known EXCEPT ![r] = s] /\ inUse' = [inUse EXCEPT ![r] = crlRow'.number]
  BY DEF StoreSource, outside
<1>2. n \in 0..published
  BY CRLRefreshAssumption DEF StoreSource, CheckCRLChoice, RefInv, RefreshTypeOK
<1>3. crlRow' \in CRLRow /\ crlRow.number <= crlRow'.number /\ crlRow'.number <= published
  BY <1>1, <1>2, PutCRLForm
<1>4. crlRow.number \in Nat /\ crlRow'.number \in Nat
  BY <1>3, RefreshForms DEF RefInv, RefreshTypeOK
<1>5. /\ caRow' \in CARow /\ caRow'.source = s
      /\ known' \in [Refreshers -> Sources \cup {None}] /\ known'[r] = s
      /\ inUse' \in [Refreshers -> 0..crlRow'.number] /\ inUse'[r] = crlRow'.number
  BY <1>1, <1>3, <1>4 DEF RefInv, RefreshTypeOK, CARow
<1>6. RefreshTypeOK'
  BY <1>1, <1>3, <1>5, Ticks DEF RefInv, RefreshTypeOK
<1>7. Standing'
  BY <1>1, <1>3, <1>5 DEF RefInv, Standing, Bounded, Leased, InUse
<1> QED BY <1>1, <1>6, <1>7, Disturbed

\* A replica starts, loading what is stored.
LEMMA StartStep ==
  ASSUME RefInv, NEW r \in Refreshers, StartRefresher(r)
  PROVE  RefInv'
<1>1. /\ UNCHANGED <<published, left, answering, caRow, crlRow, lease, policy, step, got, mishaps>> /\ steady' = 0
      /\ alive' = alive \cup {r} /\ behind' = behind \ {r}
      /\ known' = [known EXCEPT ![r] = IF caRow = None THEN None ELSE caRow.source]
      /\ inUse' = [inUse EXCEPT ![r] = crlRow.number]
      /\ sched' = [sched EXCEPT ![r] = IF known'[r] = "url" THEN None ELSE [due |-> 0, backoff |-> 0]]
  BY DEF StartRefresher, Load, outside, crlTables
<1>2. crlRow.number \in Nat /\ (caRow # None => caRow.source \in Sources)
  BY RefreshForms DEF RefInv, RefreshTypeOK
<1>3. [due |-> 0, backoff |-> 0] \in Schedule /\ [due |-> 0, backoff |-> 0].due <= Interval + Jitter
  BY Ticks DEF Schedule
<1>4. /\ known' \in [Refreshers -> Sources \cup {None}] /\ (caRow # None => known'[r] = caRow.source)
      /\ inUse' \in [Refreshers -> 0..crlRow.number] /\ inUse'[r] = crlRow.number
  BY <1>1, <1>2 DEF RefInv, RefreshTypeOK
<1>5. sched' \in [Refreshers -> Schedule \cup {None}]
      /\ \A q \in Refreshers : sched'[q] # None => sched'[q].due <= Interval + Jitter
  BY <1>1, <1>3 DEF RefInv, RefreshTypeOK, Standing, Bounded
<1>6. RefreshTypeOK'
  BY <1>1, <1>4, <1>5, Ticks DEF RefInv, RefreshTypeOK
<1>7. Standing'
  BY <1>1, <1>4, <1>5 DEF RefInv, RefreshTypeOK, Standing, Bounded, Leased, InUse
<1> QED BY <1>1, <1>6, <1>7, Disturbed

\* A replica stops, with its lock.
LEMMA StopStep ==
  ASSUME RefInv, NEW r \in Refreshers, StopRefresher(r)
  PROVE  RefInv'
<1>1. /\ UNCHANGED <<published, left, answering, caRow, crlRow, policy>> /\ steady' = 0
      /\ mishaps' \in 0..MaxMishaps
      /\ alive' = alive \ {r} /\ behind' = behind \ {r}
      /\ known' = [known EXCEPT ![r] = None] /\ inUse' = [inUse EXCEPT ![r] = 0]
      /\ sched' = [sched EXCEPT ![r] = None]
      /\ step' = [step EXCEPT ![r] = "idle"] /\ got' = [got EXCEPT ![r] = 0]
      /\ lease' = IF lease = r THEN None ELSE lease
  BY CRLRefreshAssumption DEF StopRefresher, Mishap, outside, crlTables, RefInv, RefreshTypeOK
<1>2. crlRow.number \in Nat /\ published \in Nat
  BY RefreshForms DEF RefInv, RefreshTypeOK
<1>3. RefreshTypeOK'
  <2>1. /\ known' \in [Refreshers -> Sources \cup {None}] /\ inUse' \in [Refreshers -> 0..crlRow.number]
        /\ sched' \in [Refreshers -> Schedule \cup {None}] /\ got' \in [Refreshers -> 0..published]
    BY <1>1, <1>2 DEF RefInv, RefreshTypeOK
  <2>2. step' \in [Refreshers -> {"idle", "check", "fetch", "slow", "store"}]
    BY <1>1 DEF RefInv, RefreshTypeOK
  <2>3. lease' \in alive' \cup {None} /\ alive' \subseteq Refreshers /\ behind' \subseteq alive'
    BY <1>1 DEF RefInv, RefreshTypeOK
  <2> QED BY <1>1, <2>1, <2>2, <2>3, Ticks DEF RefInv, RefreshTypeOK
<1>4. Standing'
  <2>1. Bounded' /\ InUse'
    BY <1>1 DEF RefInv, RefreshTypeOK, Standing, Bounded, InUse
  <2>2. Leased'
    BY <1>1 DEF RefInv, RefreshTypeOK, Standing, Leased
  <2> QED BY <2>1, <2>2 DEF Standing
<1> QED BY <1>1, <1>3, <1>4, Disturbed

\* The policy, the lock's connection, the operator CA's URL and its CRLs.
LEMMA MishapSteps ==
  ASSUME RefInv, ChangePolicy \/ LoseLease \/ Publish \/ Outage \/ Recover
  PROVE  RefInv'
<1>1. UNCHANGED <<left, caRow, crlRow, alive, behind, known, inUse, sched, step, got>> /\ steady' = 0
  BY DEF ChangePolicy, LoseLease, Publish, Outage, Recover, Mishap, outside, crlTables, copies
<1>2. mishaps' \in 0..MaxMishaps
  BY CRLRefreshAssumption DEF ChangePolicy, LoseLease, Publish, Outage, Recover, Mishap, RefInv, RefreshTypeOK
<1>3. published' \in 1..MaxCRLs /\ published <= published' /\ answering' \in BOOLEAN /\ policy' \in {"soft", "hard"}
  <2>1. published' \in 1..MaxCRLs /\ published <= published'
    BY CRLRefreshAssumption DEF ChangePolicy, LoseLease, Publish, Outage, Recover, outside, RefInv, RefreshTypeOK
  <2>2. answering' \in BOOLEAN
    BY DEF ChangePolicy, LoseLease, Publish, Outage, Recover, outside, RefInv, RefreshTypeOK
  <2>3. policy' \in {"soft", "hard"}
    BY DEF ChangePolicy, LoseLease, Publish, Outage, Recover, RefInv, RefreshTypeOK
  <2> QED BY <2>1, <2>2, <2>3
<1>4. lease' = lease \/ lease' = None
  BY DEF ChangePolicy, LoseLease, Publish, Outage, Recover
<1>5. published \in Nat /\ published' \in Nat /\ crlRow.number \in Nat
  BY <1>3, RefreshForms, CRLRefreshAssumption DEF RefInv, RefreshTypeOK
<1>6. got' \in [Refreshers -> 0..published']
  BY <1>1, <1>3, <1>5 DEF RefInv, RefreshTypeOK
<1>7. RefreshTypeOK'
  BY <1>1, <1>2, <1>3, <1>4, <1>6, Ticks DEF RefInv, RefreshTypeOK
<1>8. Standing'
  BY <1>1, <1>3, <1>4, <1>5 DEF RefInv, Standing, Bounded, Leased, InUse
<1> QED BY <1>1, <1>7, <1>8, Disturbed

-----------------------------------------------------------------------------
(* The refresher.                                                          *)

\* A poll loads what is stored.
LEMMA PollOnceStep ==
  ASSUME RefInv, NEW r \in Refreshers, PollOnce(r)
  PROVE  RefInv'
<1>1. /\ UNCHANGED <<published, left, answering, caRow, crlRow, lease, alive, policy, sched, step, got, steady, mishaps>>
      /\ r \in behind /\ behind' = behind \ {r}
      /\ known' = [known EXCEPT ![r] = IF caRow = None THEN None ELSE caRow.source]
      /\ inUse' = [inUse EXCEPT ![r] = crlRow.number]
  BY DEF PollOnce, Load, outside, crlTables
<1>2. crlRow.number \in Nat /\ (caRow # None => caRow.source \in Sources)
  BY RefreshForms DEF RefInv, RefreshTypeOK
<1>3. /\ known' \in [Refreshers -> Sources \cup {None}] /\ (caRow # None => known'[r] = caRow.source)
      /\ inUse' \in [Refreshers -> 0..crlRow.number] /\ inUse'[r] = crlRow.number
      /\ \A q \in Refreshers \ {r} : known'[q] = known[q] /\ inUse'[q] = inUse[q]
  BY <1>1, <1>2 DEF RefInv, RefreshTypeOK
<1>4. RefreshTypeOK'
  BY <1>1, <1>3 DEF RefInv, RefreshTypeOK
<1>5. Standing'
  BY <1>1, <1>3 DEF RefInv, RefreshTypeOK, Standing, Bounded, Leased, InUse
<1>6. Told'
  BY <1>1, <1>3 DEF RefInv, RefreshTypeOK, Quiet, Told
<1>7. Fetched' /\ Aged' /\ InTime'
  BY <1>1 DEF RefInv, Quiet, Fetched, Aged, InTime, FromURL, Newest, UnderWay, Waiting
<1>8. Settled'
  BY <1>1 DEF RefInv, RefreshTypeOK, Quiet, Settled, FromURL, Newest
<1> QED BY <1>4, <1>5, <1>6, <1>7, <1>8 DEF RefInv, Quiet

\* An upload, of an operator CA that has no URL.
LEMMA UploadStep ==
  ASSUME RefInv, NEW r \in Refreshers, NEW n \in 0..MaxCRLs, UploadOperatorCRL(r, n)
  PROVE  RefInv'
<1>1. /\ UNCHANGED <<published, left, answering, caRow, lease, alive, policy, known, sched, step, got, steady, mishaps>>
      /\ r \in alive \ behind /\ caRow # None /\ caRow.source = "upload"
      /\ n \in (crlRow.number + 1)..published /\ PutCRL(n)
      /\ inUse' = [inUse EXCEPT ![r] = n] /\ behind' = behind \cup (alive \ {r})
  BY DEF UploadOperatorCRL, outside
<1>2. crlRow.number \in Nat /\ published \in Nat
  BY RefreshForms DEF RefInv, RefreshTypeOK
<1>3. n \in 0..published /\ n # 0
  BY <1>1, <1>2
<1>4. crlRow' \in CRLRow /\ crlRow.number <= n /\ n <= published /\ crlRow'.number = n
  BY <1>1, <1>2, <1>3, PutCRLForm
<1>5. inUse' \in [Refreshers -> 0..n] /\ inUse'[r] = n
  BY <1>1, <1>2, <1>3, <1>4 DEF RefInv, RefreshTypeOK
<1>6. RefreshTypeOK'
  BY <1>1, <1>4, <1>5 DEF RefInv, RefreshTypeOK
<1>7. Standing'
  BY <1>1, <1>4, <1>5 DEF RefInv, RefreshTypeOK, Standing, Bounded, Leased, InUse
<1>8. Told' /\ Fetched'
  BY <1>1 DEF RefInv, Quiet, Told, Fetched
<1>9. Aged' /\ InTime' /\ Settled'
  BY <1>1 DEF Aged, InTime, Settled, FromURL
<1> QED BY <1>6, <1>7, <1>8, <1>9 DEF RefInv, Quiet

\* RefreshOnce begins, or leaves the CRL to the replica that has the lock.
LEMMA TryLeaseStep ==
  ASSUME RefInv, NEW r \in Refreshers, TryLease(r)
  PROVE  RefInv'
<1>1. /\ UNCHANGED <<published, left, answering, caRow, crlRow, alive, policy, behind, known, inUse, steady, mishaps>>
      /\ r \in alive /\ step[r] = "idle" /\ (sched[r] # None => sched[r].due = 0)
  BY DEF TryLease, Due, Done, outside, crlTables
<1>2. CASE lease = None /\ lease' = r /\ step' = [step EXCEPT ![r] = "check"] /\ UNCHANGED <<sched, got>>
  <2>1. step' \in [Refreshers -> {"idle", "check", "fetch", "slow", "store"}] /\ step'[r] = "check"
        /\ \A q \in Refreshers \ {r} : step'[q] = step[q]
    BY <1>2 DEF RefInv, RefreshTypeOK
  <2>2. RefreshTypeOK'
    BY <1>1, <1>2, <2>1 DEF RefInv, RefreshTypeOK
  <2>3. Standing'
    BY <1>1, <1>2, <2>1, CRLRefreshAssumption DEF RefInv, Standing, Bounded, Leased, InUse
  <2>4. Told' /\ Fetched' /\ Aged' /\ Settled'
    BY <1>1, <1>2, <2>1 DEF RefInv, Quiet, Told, Fetched, Aged, Settled, FromURL, Newest
  <2>5. InTime'
    <3> SUFFICES ASSUME FromURL, ~ Newest, steady >= Half
                 PROVE  \E q \in alive' : UnderWay(q)'
      BY <1>1 DEF InTime, FromURL, Newest
    <3>1. CASE \E q \in alive : UnderWay(q)
      <4>1. PICK q \in alive : UnderWay(q)
        BY <3>1
      <4>2. q # r /\ q \in Refreshers
        BY <4>1, <1>1 DEF UnderWay, RefInv, RefreshTypeOK
      <4> QED BY <4>1, <4>2, <2>1, <1>1 DEF UnderWay
    <3>2. CASE \A q \in alive : Waiting(q)
      <4>1. steady <= Latest
        BY <3>2, <1>1, Ticks DEF Waiting, RefInv, RefreshTypeOK
      <4> QED BY <4>1, <1>1, <2>1 DEF UnderWay
    <3> QED BY <3>1, <3>2 DEF RefInv, Quiet, InTime
  <2> QED BY <2>2, <2>3, <2>4, <2>5 DEF RefInv, Quiet
<1>3. CASE lease # None /\ Done(r, FALSE)
  <2>1. PICK s \in Schedule : s.due <= Interval + Jitter /\ sched' = [sched EXCEPT ![r] = s]
    BY <1>3, DoneForm DEF RefInv
  <2>2. step' = step /\ got' = [got EXCEPT ![r] = 0] /\ lease' = lease
    <3>1. step' = [step EXCEPT ![r] = "idle"] /\ got' = [got EXCEPT ![r] = 0]
          /\ lease' = IF lease = r THEN None ELSE lease
      BY <1>3, DoneForm DEF RefInv
    <3>2. lease # r
      BY <1>1, <1>3 DEF RefInv, Standing, Leased
    <3> QED BY <3>1, <3>2, <1>1 DEF RefInv, RefreshTypeOK
  <2>3. sched' \in [Refreshers -> Schedule \cup {None}] /\ sched'[r] = s
        /\ \A q \in Refreshers \ {r} : sched'[q] = sched[q]
    BY <2>1 DEF RefInv, RefreshTypeOK
  <2>4. got' \in [Refreshers -> 0..published] /\ \A q \in Refreshers \ {r} : got'[q] = got[q]
    BY <2>2 DEF RefInv, RefreshTypeOK
  <2>5. RefreshTypeOK'
    BY <1>1, <2>2, <2>3, <2>4 DEF RefInv, RefreshTypeOK
  <2>6. Standing'
    BY <1>1, <2>1, <2>2, <2>3 DEF RefInv, Standing, Bounded, Leased, InUse
  <2>7. Told' /\ Fetched' /\ Aged' /\ Settled'
    BY <1>1, <2>2, <2>4 DEF RefInv, Quiet, Told, Fetched, Aged, Settled, FromURL, Newest
  <2>8. InTime'
    <3> SUFFICES ASSUME FromURL, ~ Newest, steady >= Half
                 PROVE  \E q \in alive' : UnderWay(q)'
      BY <1>1 DEF InTime, FromURL, Newest
    <3>1. ~ \A q \in alive : Waiting(q)
      BY <1>3 DEF Waiting, RefInv, RefreshTypeOK, Standing, Leased
    <3>2. \E q \in alive : UnderWay(q)
      BY <3>1 DEF RefInv, Quiet, InTime
    <3> QED BY <3>2, <1>1, <2>2 DEF UnderWay
  <2> QED BY <2>5, <2>6, <2>7, <2>8 DEF RefInv, Quiet
<1> QED BY <1>2, <1>3 DEF TryLease

\* RefreshOnce returns: only the replica's own schedule and step change.
LEMMA DoneMoves ==
  ASSUME RefInv, NEW r \in Refreshers, NEW error \in BOOLEAN, Done(r, error), UNCHANGED alive
  PROVE  /\ sched' \in [Refreshers -> Schedule \cup {None}]
         /\ \A q \in Refreshers : sched'[q] # None => sched'[q].due <= Interval + Jitter
         /\ step' \in [Refreshers -> {"idle", "check", "fetch", "slow", "store"}] /\ step'[r] = "idle"
         /\ got' \in [Refreshers -> 0..published]
         /\ \A q \in Refreshers \ {r} : step'[q] = step[q] /\ got'[q] = got[q]
         /\ lease' \in alive' \cup {None} /\ Leased'
<1>1. PICK s \in Schedule : s.due <= Interval + Jitter /\ sched' = [sched EXCEPT ![r] = s]
  BY DoneForm DEF RefInv
<1>2. step' = [step EXCEPT ![r] = "idle"] /\ got' = [got EXCEPT ![r] = 0]
      /\ lease' = IF lease = r THEN None ELSE lease
  BY DoneForm DEF RefInv
<1>3. sched' \in [Refreshers -> Schedule \cup {None}]
      /\ \A q \in Refreshers : sched'[q] # None => sched'[q].due <= Interval + Jitter
  BY <1>1 DEF RefInv, RefreshTypeOK, Standing, Bounded
<1>4. /\ step' \in [Refreshers -> {"idle", "check", "fetch", "slow", "store"}] /\ step'[r] = "idle"
      /\ \A q \in Refreshers \ {r} : step'[q] = step[q]
  BY <1>2 DEF RefInv, RefreshTypeOK
<1>5. published \in Nat
  BY DEF RefInv, RefreshTypeOK
<1>6. got' \in [Refreshers -> 0..published] /\ \A q \in Refreshers \ {r} : got'[q] = got[q]
  BY <1>2, <1>5 DEF RefInv, RefreshTypeOK
<1>7. lease' \in alive' \cup {None} /\ Leased'
  BY <1>2, <1>4 DEF RefInv, RefreshTypeOK, Standing, Leased
<1> QED BY <1>3, <1>4, <1>6, <1>7

\* recentlyRefreshed: from half an interval of quiet on, only the newest CRL
\* was stored recently.
LEMMA RecentlyRefreshedStep ==
  ASSUME RefInv, NEW r \in Refreshers, RecentlyRefreshed(r)
  PROVE  RefInv'
<1>1. /\ UNCHANGED <<published, left, answering, caRow, crlRow, alive, policy, behind, known, inUse, steady, mishaps>>
      /\ step[r] = "check"
  BY DEF RecentlyRefreshed, Done, outside, crlTables
<1>2. r \in alive
  BY <1>1 DEF RefInv, Standing, Leased
<1>3. CASE Recent /\ Done(r, FALSE)
  <2>1. /\ sched' \in [Refreshers -> Schedule \cup {None}]
        /\ \A q \in Refreshers : sched'[q] # None => sched'[q].due <= Interval + Jitter
        /\ step' \in [Refreshers -> {"idle", "check", "fetch", "slow", "store"}] /\ step'[r] = "idle"
        /\ got' \in [Refreshers -> 0..published]
        /\ \A q \in Refreshers \ {r} : step'[q] = step[q] /\ got'[q] = got[q]
        /\ lease' \in alive' \cup {None} /\ Leased'
    BY <1>1, <1>3, DoneMoves
  <2>2. RefreshTypeOK'
    BY <1>1, <2>1 DEF RefInv, RefreshTypeOK
  <2>3. Standing'
    BY <1>1, <2>1 DEF RefInv, Standing, Bounded, InUse
  <2>4. Told' /\ Fetched' /\ Aged' /\ Settled'
    BY <1>1, <2>1 DEF RefInv, Quiet, Told, Fetched, Aged, Settled, FromURL, Newest
  <2>5. InTime'
    <3> SUFFICES ASSUME FromURL, ~ Newest, steady >= Half PROVE FALSE
      BY <1>1 DEF InTime, FromURL, Newest
    <3>1. crlRow.age >= steady \/ crlRow.age = Interval
      BY <1>3 DEF Recent, RefInv, Quiet, Aged
    <3>2. crlRow.age < Half /\ crlRow.age \in Nat /\ steady \in Nat
      BY <1>3, RefreshForms, Ticks DEF Recent, RefInv, RefreshTypeOK
    <3> QED BY <3>1, <3>2, Ticks
  <2> QED BY <2>2, <2>3, <2>4, <2>5 DEF RefInv, Quiet
<1>4. CASE step' = [step EXCEPT ![r] = "fetch"] /\ UNCHANGED <<sched, got, lease>>
  <2>1. step' \in [Refreshers -> {"idle", "check", "fetch", "slow", "store"}] /\ step'[r] = "fetch"
        /\ \A q \in Refreshers \ {r} : step'[q] = step[q]
    BY <1>4 DEF RefInv, RefreshTypeOK
  <2>2. RefreshTypeOK'
    BY <1>1, <1>4, <2>1 DEF RefInv, RefreshTypeOK
  <2>3. Standing'
    BY <1>1, <1>2, <1>4, <2>1 DEF RefInv, RefreshTypeOK, Standing, Bounded, Leased, InUse
  <2>4. Told' /\ Fetched' /\ Aged' /\ Settled'
    BY <1>1, <1>4, <2>1 DEF RefInv, Quiet, Told, Fetched, Aged, Settled, FromURL, Newest
  <2>5. InTime'
    <3> SUFFICES ASSUME FromURL, ~ Newest, steady >= Half
                 PROVE  \E q \in alive' : UnderWay(q)'
      BY <1>1 DEF InTime, FromURL, Newest
    <3>1. PICK q \in alive : UnderWay(q)
      BY <1>1, <1>2 DEF RefInv, Quiet, InTime, Waiting
    <3>2. q \in Refreshers
      BY DEF RefInv, RefreshTypeOK
    <3> QED BY <3>1, <3>2, <2>1, <1>1 DEF UnderWay
  <2> QED BY <2>2, <2>3, <2>4, <2>5 DEF RefInv, Quiet
<1> QED BY <1>3, <1>4 DEF RecentlyRefreshed

\* Fetch brings the newest CRL.
LEMMA FetchStep ==
  ASSUME RefInv, NEW r \in Refreshers, Fetch(r)
  PROVE  RefInv'
<1>1. /\ UNCHANGED <<published, left, answering, caRow, crlRow, lease, alive, policy, behind, known, inUse,
                     sched, steady, mishaps>>
      /\ step[r] \in {"fetch", "slow"}
      /\ got' = [got EXCEPT ![r] = published] /\ step' = [step EXCEPT ![r] = "store"]
  BY DEF Fetch, outside, crlTables, copies
<1>2. published \in Nat /\ steady \in Nat
  BY Ticks DEF RefInv, RefreshTypeOK
<1>3. /\ step' \in [Refreshers -> {"idle", "check", "fetch", "slow", "store"}] /\ step'[r] = "store"
      /\ got' \in [Refreshers -> 0..published] /\ got'[r] = published
      /\ \A q \in Refreshers \ {r} : step'[q] = step[q] /\ got'[q] = got[q]
  BY <1>1, <1>2 DEF RefInv, RefreshTypeOK
<1>4. RefreshTypeOK'
  BY <1>1, <1>3 DEF RefInv, RefreshTypeOK
<1>5. Standing'
  BY <1>1, <1>3 DEF RefInv, RefreshTypeOK, Standing, Bounded, Leased, InUse
<1>6. Told' /\ Fetched' /\ Aged' /\ Settled'
  BY <1>1, <1>3 DEF RefInv, Quiet, Told, Fetched, Aged, Settled, FromURL, Newest
<1>7. InTime'
  <2> SUFFICES ASSUME FromURL, ~ Newest, steady >= Half
               PROVE  \E q \in alive' : UnderWay(q)'
    BY <1>1 DEF InTime, FromURL, Newest
  <2>1. r \in alive
    BY <1>1 DEF RefInv, Standing, Leased
  <2>2. PICK q \in alive : UnderWay(q)
    BY <1>1, <2>1 DEF RefInv, Quiet, InTime, Waiting
  <2>3. q \in Refreshers
    BY DEF RefInv, RefreshTypeOK
  <2>4. CASE q = r
    BY <2>1, <2>2, <2>4, <1>1, <1>2, <1>3, Ticks DEF UnderWay
  <2>5. CASE q # r
    BY <2>2, <2>3, <2>5, <1>1, <1>3 DEF UnderWay
  <2> QED BY <2>4, <2>5
<1> QED BY <1>4, <1>5, <1>6, <1>7 DEF RefInv, Quiet

\* An attempt ends: the row says how, a newer CRL is stored.
LEMMA EndSteps ==
  ASSUME RefInv, NEW r \in Refreshers, FetchFails(r) \/ Finish(r)
  PROVE  RefInv'
<1>1. UNCHANGED <<published, left, answering, caRow, alive, policy, known, steady, mishaps>>
  BY DEF FetchFails, Finish, outside
<1>2. /\ step[r] # "idle" /\ published \in Nat /\ crlRow \in CRLRow /\ crlRow.number \in Nat /\ steady \in Nat
      /\ crlRow.number <= published /\ got[r] \in 0..published /\ inUse \in [Refreshers -> 0..crlRow.number]
  <2>1. step[r] # "idle"
    BY DEF FetchFails, Finish
  <2>2. published \in Nat /\ crlRow \in CRLRow /\ steady \in Nat /\ crlRow.number <= published
        /\ got[r] \in 0..published /\ inUse \in [Refreshers -> 0..crlRow.number]
    BY Ticks DEF RefInv, RefreshTypeOK, Standing, Bounded
  <2> QED BY <2>1, <2>2, RefreshForms
<1>3. \E error \in BOOLEAN : Done(r, error)
  BY DEF FetchFails, Finish, StoreCRL
<1>4. /\ sched' \in [Refreshers -> Schedule \cup {None}]
      /\ \A q \in Refreshers : sched'[q] # None => sched'[q].due <= Interval + Jitter
      /\ step' \in [Refreshers -> {"idle", "check", "fetch", "slow", "store"}] /\ step'[r] = "idle"
      /\ got' \in [Refreshers -> 0..published]
      /\ \A q \in Refreshers \ {r} : step'[q] = step[q] /\ got'[q] = got[q]
      /\ lease' \in alive' \cup {None} /\ Leased'
  BY <1>1, <1>3, DoneMoves
<1>5. r \in alive
  BY <1>2 DEF RefInv, Standing, Leased
<1>6. \/ /\ step[r] = "store" /\ got[r] > crlRow.number /\ PutCRL(got[r])
         /\ inUse' = [inUse EXCEPT ![r] = got[r]] /\ behind' = behind \cup (alive \ {r})
      \/ /\ UNCHANGED <<inUse, behind>>
         /\ \/ step[r] = "store" /\ got[r] = crlRow.number /\ crlRow' = [crlRow EXCEPT !.failed = FALSE, !.age = 0]
            \/ /\ ~ answering \/ (step[r] = "store" /\ got[r] < crlRow.number)
               /\ crlRow' = [crlRow EXCEPT !.failed = TRUE, !.age = 0]
  BY DEF FetchFails, Finish, StoreCRL, Failed
<1>7. CASE /\ step[r] = "store" /\ got[r] > crlRow.number /\ PutCRL(got[r])
           /\ inUse' = [inUse EXCEPT ![r] = got[r]] /\ behind' = behind \cup (alive \ {r})
  <2>1. crlRow' \in CRLRow /\ crlRow'.number = got[r] /\ crlRow'.age \in Nat
    <3>1. got[r] # 0
      BY <1>2, <1>7
    <3>2. crlRow' \in CRLRow /\ crlRow'.number = got[r]
      BY <1>2, <1>7, <3>1, PutCRLForm
    <3> QED BY <3>2, RefreshForms, Ticks
  <2>2. inUse' \in [Refreshers -> 0..crlRow'.number] /\ inUse'[r] = got[r]
    BY <1>2, <1>7, <2>1
  <2>3. RefreshTypeOK'
    BY <1>1, <1>4, <1>7, <2>1, <2>2 DEF RefInv, RefreshTypeOK
  <2>4. Standing'
    <3>1. Bounded'
      BY <1>1, <1>2, <1>4, <2>1 DEF Bounded
    <3>2. InUse'
      BY <1>1, <1>7, <2>1, <2>2 DEF RefInv, RefreshTypeOK, Standing, InUse
    <3> QED BY <1>4, <3>1, <3>2 DEF Standing
  <2>5. steady >= 1 => Newest' /\ ~ Newest
    BY <1>1, <1>2, <1>7, <2>1 DEF RefInv, Quiet, Fetched, Newest
  <2>6. Told' /\ Fetched'
    BY <1>1, <1>4 DEF RefInv, Quiet, Told, Fetched
  <2>7. Aged' /\ InTime'
    BY <1>1, <1>2, <2>1, <2>5, Ticks DEF Aged, InTime
  <2>8. Settled'
    BY <1>1, <1>5, <2>5, Ticks DEF RefInv, Quiet, Settled, FromURL
  <2> QED BY <2>3, <2>4, <2>6, <2>7, <2>8 DEF RefInv, Quiet
<1>8. CASE /\ UNCHANGED <<inUse, behind>>
           /\ \/ step[r] = "store" /\ got[r] = crlRow.number /\ crlRow' = [crlRow EXCEPT !.failed = FALSE, !.age = 0]
              \/ /\ ~ answering \/ (step[r] = "store" /\ got[r] < crlRow.number)
                 /\ crlRow' = [crlRow EXCEPT !.failed = TRUE, !.age = 0]
  <2>1. crlRow' \in CRLRow /\ crlRow'.number = crlRow.number /\ crlRow'.age = 0
    <3>1. ASSUME NEW b \in BOOLEAN
          PROVE  /\ [crlRow EXCEPT !.failed = b, !.age = 0] \in CRLRow
                 /\ [crlRow EXCEPT !.failed = b, !.age = 0].number = crlRow.number
                 /\ [crlRow EXCEPT !.failed = b, !.age = 0].age = 0
      <4>1. 0 \in 0..Interval
        BY Ticks
      <4> QED BY <1>2, <4>1 DEF CRLRow
    <3>2. \E b \in BOOLEAN : crlRow' = [crlRow EXCEPT !.failed = b, !.age = 0]
      BY <1>8
    <3> QED BY <3>1, <3>2
  <2>2. steady >= 1 => ~ answering \/ Newest
    BY <1>2, <1>8 DEF RefInv, Quiet, Fetched, Newest
  <2>3. RefreshTypeOK'
    BY <1>1, <1>4, <1>8, <2>1 DEF RefInv, RefreshTypeOK
  <2>4. Standing'
    BY <1>1, <1>4, <1>8, <2>1 DEF RefInv, Standing, Bounded, InUse
  <2>5. Told' /\ Fetched'
    BY <1>1, <1>4 DEF RefInv, Quiet, Told, Fetched
  <2>6. Aged' /\ InTime'
    BY <1>1, <1>2, <2>1, <2>2, Ticks DEF Aged, InTime, FromURL, Newest
  <2>7. Settled'
    BY <1>1, <1>8, <2>1 DEF RefInv, Quiet, Settled, FromURL, Newest
  <2> QED BY <2>3, <2>4, <2>5, <2>6, <2>7 DEF RefInv, Quiet
<1> QED BY <1>6, <1>7, <1>8

\* A tick of quiet: whoever waits is a tick nearer, and a fetch is in its last.
LEMMA TimePassesStep ==
  ASSUME RefInv, TimePasses
  PROVE  RefInv'
<1>1. /\ UNCHANGED <<published, answering, caRow, lease, alive, policy, behind, known, inUse, got, mishaps>>
      /\ behind = {}
      /\ \A r \in Refreshers : step[r] \in {"idle", "fetch"} /\ ~ Due(r)
      /\ left' = [n \in 1..MaxCRLs |-> IF n <= published THEN Less(left[n]) ELSE left[n]]
      /\ crlRow' = [crlRow EXCEPT !.age = More(@, Interval)]
      /\ sched' = [r \in Refreshers |-> IF sched[r] = None THEN None ELSE [sched[r] EXCEPT !.due = Less(@)]]
      /\ step' = [r \in Refreshers |-> IF step[r] = "fetch" THEN "slow" ELSE step[r]]
      /\ steady' = More(steady, Bound)
  BY DEF TimePasses, copies
<1>2. /\ steady \in 0..Bound /\ crlRow \in CRLRow /\ crlRow.age \in 0..Interval /\ crlRow.number \in Nat
      /\ Validity \in Nat /\ left \in [1..MaxCRLs -> 0..Validity]
      /\ sched \in [Refreshers -> Schedule \cup {None}] /\ alive \subseteq Refreshers
  BY RefreshForms, CRLRefreshAssumption DEF RefInv, RefreshTypeOK
<1>3. steady' \in 0..Bound /\ steady' = (IF steady < Bound THEN steady + 1 ELSE Bound)
  BY <1>1, <1>2, Ticks DEF More
<1>4. /\ crlRow' \in CRLRow /\ crlRow'.number = crlRow.number /\ crlRow'.failed = crlRow.failed
      /\ crlRow'.age = (IF crlRow.age < Interval THEN crlRow.age + 1 ELSE Interval)
  BY <1>1, <1>2, Ticks DEF CRLRow, More
<1>5. left' \in [1..MaxCRLs -> 0..Validity]
  BY <1>1, <1>2 DEF Less
<1>6. \A r \in Refreshers :
        /\ sched[r] = None => sched'[r] = None
        /\ sched[r] # None => /\ sched'[r] \in Schedule
                              /\ sched'[r].due = IF sched[r].due > 0 THEN sched[r].due - 1 ELSE 0
  <2> SUFFICES ASSUME NEW r \in Refreshers
               PROVE  /\ sched[r] = None => sched'[r] = None
                      /\ sched[r] # None => /\ sched'[r] \in Schedule
                                            /\ sched'[r].due = IF sched[r].due > 0 THEN sched[r].due - 1 ELSE 0
    OBVIOUS
  <2>1. CASE sched[r] = None
    BY <2>1, <1>1
  <2>2. CASE sched[r] # None
    <3>1. sched[r] \in Schedule /\ sched[r].due \in Nat
      BY <2>2, <1>2, RefreshForms
    <3>2. sched'[r] = [sched[r] EXCEPT !.due = Less(sched[r].due)] /\ Less(sched[r].due) \in Nat
      BY <2>2, <3>1, <1>1 DEF Less
    <3> QED BY <2>2, <3>1, <3>2 DEF Schedule, Less
  <2> QED BY <2>1, <2>2
<1>7. \A r \in Refreshers : step'[r] = IF step[r] = "fetch" THEN "slow" ELSE "idle"
  BY <1>1
<1>8. RefreshTypeOK'
  <2>1. sched' \in [Refreshers -> Schedule \cup {None}]
    BY <1>1, <1>6
  <2>2. step' \in [Refreshers -> {"idle", "check", "fetch", "slow", "store"}]
    BY <1>1
  <2>3. inUse' \in [Refreshers -> 0..crlRow'.number]
    BY <1>1, <1>4 DEF RefInv, RefreshTypeOK
  <2> QED BY <1>1, <1>3, <1>4, <1>5, <2>1, <2>2, <2>3 DEF RefInv, RefreshTypeOK
<1>9. Standing'
  <2>1. Bounded'
    BY <1>1, <1>2, <1>4, <1>6, RefreshForms, Ticks DEF RefInv, Standing, Bounded
  <2>2. Leased' /\ InUse'
    BY <1>1, <1>2, <1>4, <1>7 DEF RefInv, RefreshTypeOK, Standing, Leased, InUse
  <2> QED BY <2>1, <2>2 DEF Standing
<1>10. Told' /\ Fetched'
  BY <1>1, <1>2, <1>7 DEF RefInv, Standing, InUse, Told, Fetched
<1>11. Aged'
  BY <1>1, <1>2, <1>3, <1>4, Ticks DEF RefInv, Quiet, Aged, FromURL, Newest
<1>12. ASSUME FromURL, NEW r \in alive, step[r] = "idle"
       PROVE  sched[r] # None /\ sched'[r] # None /\ sched[r].due \in Nat \ {0} /\ sched'[r].due = sched[r].due - 1
  <2>1. known[r] = "url" /\ r \in Refreshers
    BY <1>1, <1>2, <1>12 DEF RefInv, Standing, InUse, FromURL
  <2>2. sched[r] # None /\ sched[r].due # 0
    BY <2>1, <1>1, <1>12 DEF Due
  <2> QED BY <2>1, <2>2, <1>2, <1>6, RefreshForms
<1>13. InTime'
  <2> SUFFICES ASSUME FromURL, ~ Newest, steady' >= Half
               PROVE  (\E r \in alive' : UnderWay(r)') \/ (\A r \in alive' : Waiting(r)')
    BY <1>1, <1>4 DEF InTime, FromURL, Newest
  <2>1. CASE \E r \in alive : step[r] = "fetch" /\ steady <= Latest
    BY <2>1, <1>1, <1>2, <1>3, <1>7, Ticks DEF UnderWay
  <2>2. CASE steady < Half /\ \A r \in alive : step[r] = "idle"
    <3> SUFFICES ASSUME NEW r \in alive PROVE Waiting(r)'
      BY <1>1
    <3>1. /\ sched[r] # None /\ sched'[r] # None /\ sched[r].due \in Nat \ {0}
          /\ sched'[r].due = sched[r].due - 1 /\ r \in Refreshers
      BY <2>2, <1>2, <1>12
    <3>2. sched[r].due <= Interval + Jitter
      BY <3>1 DEF RefInv, Standing, Bounded
    <3>3. sched'[r].due + steady' <= Latest
      BY <3>1, <3>2, <2>2, <1>2, <1>3, Ticks DEF Latest
    <3> QED BY <3>1, <3>3, <2>2, <1>7 DEF Waiting
  <2>3. CASE steady >= Half /\ \A r \in alive : step[r] = "idle"
    <3>1. \A r \in alive : Waiting(r)
      BY <2>3 DEF RefInv, Quiet, InTime, UnderWay
    <3> SUFFICES ASSUME NEW r \in alive PROVE Waiting(r)'
      BY <1>1
    <3>2. /\ sched[r] # None /\ sched'[r] # None /\ sched[r].due \in Nat \ {0}
          /\ sched'[r].due = sched[r].due - 1 /\ r \in Refreshers
      BY <2>3, <1>2, <1>12
    <3>3. sched'[r].due + steady' <= Latest
      BY <3>1, <3>2, <1>2, <1>3, Ticks DEF Waiting
    <3> QED BY <3>2, <3>3, <2>3, <1>7 DEF Waiting
  <2>4. CASE \E r \in alive : step[r] = "fetch" /\ ~ (steady <= Latest)
    <3>1. steady >= Half
      BY <2>4, <1>2, Ticks
    <3>2. ~ \E r \in alive : UnderWay(r)
      BY <2>4, <1>1, <1>2 DEF UnderWay
    <3> QED BY <2>4, <3>1, <3>2 DEF RefInv, Quiet, InTime, Waiting
  <2> QED BY <2>1, <2>2, <2>3, <2>4, <1>1, <1>2, Ticks
<1>14. Settled'
  <2> SUFFICES ASSUME FromURL, steady' = Bound, ~ Newest, NEW r \in alive PROVE FALSE
    BY <1>1, <1>4 DEF Settled, FromURL, Newest
  <2>1. steady # Bound
    BY DEF RefInv, Quiet, Settled
  <2>2. steady = Latest + 1
    <3>1. steady \in Nat /\ Bound \in Nat
      BY <1>2, Ticks
    <3>2. steady' = steady + 1
      BY <2>1, <1>2, <1>3, Ticks
    <3>3. Bound = steady + 1
      BY <3>2
    <3>4. Latest \in Nat /\ Bound = Latest + 2
      BY Ticks
    <3> QED BY <3>1, <3>3, <3>4
  <2>3. \A q \in alive : ~ UnderWay(q)
    BY <2>2, <1>1, <1>2, Ticks DEF UnderWay
  <2>4. Waiting(r)
    BY <2>2, <2>3, Ticks DEF RefInv, Quiet, InTime
  <2>5. sched[r].due \in Nat
    BY <2>4, <1>12 DEF Waiting
  <2> QED BY <2>2, <2>4, <2>5, Ticks DEF Waiting
<1> QED BY <1>8, <1>9, <1>10, <1>11, <1>13, <1>14 DEF RefInv, Quiet

-----------------------------------------------------------------------------
(* The theorems.                                                           *)

\* Every step keeps the inductive invariant.
LEMMA RefreshKeeps ==
  ASSUME RefInv, [RefreshNext]_refVars
  PROVE  RefInv'
<1>1. CASE UNCHANGED refVars
  <2>1. UNCHANGED <<published, left, answering, caRow, crlRow, lease, alive, policy, behind, known, inUse,
                    sched, step, got, steady, mishaps>>
    BY <1>1 DEF refVars, outside, crlTables, copies
  <2>2. RefreshTypeOK' /\ Standing'
    BY <2>1 DEF RefInv, RefreshTypeOK, Standing, Bounded, Leased, InUse
  <2>3. Quiet'
    BY <2>1 DEF RefInv, Quiet, Told, Fetched, Aged, InTime, Settled, FromURL, Newest, UnderWay, Waiting
  <2> QED BY <2>2, <2>3 DEF RefInv
<1>2. ASSUME NEW r \in Refreshers, RefreshStep(r) PROVE RefInv'
  BY <1>2, TryLeaseStep, RecentlyRefreshedStep, FetchStep, EndSteps DEF RefreshStep
<1>3. ASSUME NEW r \in Refreshers, NEW c \in Uploads, NEW s \in Sources, NEW n \in 0..MaxCRLs,
             RegisterOperatorCA(r, c, s, n)
      PROVE  RefInv'
  BY <1>3, SourceSteps DEF RegisterOperatorCA, RefInv, RefreshTypeOK
<1>4. ASSUME NEW r \in Refreshers, NEW s \in Sources, NEW n \in 0..MaxCRLs, SetOperatorCACRLSource(r, s, n)
      PROVE  RefInv'
  <2>1. caRow.cert \in Uploads
    BY <1>4, RefreshForms DEF SetOperatorCACRLSource, RefInv, RefreshTypeOK
  <2>2. mishaps' \in 0..MaxMishaps
    BY <1>4, CRLRefreshAssumption DEF SetOperatorCACRLSource, Mishap, RefInv, RefreshTypeOK
  <2> QED BY <1>4, <2>1, <2>2, SourceSteps DEF SetOperatorCACRLSource
<1>5. CASE RefreshNext
  BY <1>2, <1>3, <1>4, <1>5, StartStep, StopStep, MishapSteps, PollOnceStep, UploadStep, TimePassesStep
     DEF RefreshNext
<1> QED BY <1>1, <1>5

\* At the start nothing runs and no operator CA is registered.
LEMMA RefreshStarts ==
  ASSUME RefreshInit
  PROVE  RefInv
<1> USE DEF RefreshInit
<1>1. RefreshTypeOK
  BY Ticks, CRLRefreshAssumption DEF RefreshTypeOK, CRLRow
<1>2. Standing
  BY DEF Standing, Bounded, Leased, InUse
<1>3. Quiet
  BY Ticks DEF Quiet, Told, Fetched, Aged, InTime, Settled, FromURL
<1> QED BY <1>1, <1>2, <1>3 DEF RefInv

\* The inductive invariant holds in every reachable state.
LEMMA RefreshInvariant == RefreshSpec => []RefInv
<1>1. RefreshInit => RefInv
  BY RefreshStarts
<1>2. RefInv /\ [RefreshNext]_refVars => RefInv'
  BY RefreshKeeps
<1> QED BY <1>1, <1>2, PTL DEF RefreshSpec

\* Every reachable state of the CRL rows and the refreshers is well formed, and
\* a CRL in use was stored.
THEOREM RefreshTypeCorrect == RefreshSpec => []RefreshTypeOK
<1>1. RefInv => RefreshTypeOK
  BY DEF RefInv
<1> QED BY <1>1, RefreshInvariant, PTL

\* nextRefresh, recentlyRefreshed, RefreshOnce and StoreCRL: after an interval
\* and a half with the jitter and a fetch in which nothing changes, every
\* replica uses the newest CRL, for any interval, jitter, validity, number of
\* replicas and earlier mishaps.
THEOREM NewestInTime == RefreshSpec => []RefreshedInTime
<1>1. RefInv => RefreshedInTime
  BY DEF RefInv, Standing, Quiet, InUse, Settled, FromURL, Newest, RefreshedInTime
<1> QED BY <1>1, RefreshInvariant, PTL
=============================================================================
