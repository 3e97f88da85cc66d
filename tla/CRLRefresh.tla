----------------------------- MODULE CRLRefresh -----------------------------
(***************************************************************************)
(* Where an operator CA's CRL comes from and how it is kept current: the   *)
(* checks of a registration and of a CRL source change, and the CRL        *)
(* refresher that every replica runs (internal/operatorca/registration.go, *)
(* anchor.go, resolve.go, refresh.go, fetch.go).                           *)
(*                                                                         *)
(* Time is kept as what is left of it, in ticks of minCRLRetry.  A poll    *)
(* and a database write are one step here: their interleavings are those   *)
(* of OperatorCAs and Revocation.  The error each replica keeps for its    *)
(* status page decides nothing and is left out; the one in the row does.   *)
(***************************************************************************)
EXTENDS Levels, Integers

CONSTANTS
  Refreshers,   \* manager processes
  Uploads,      \* certificates an admin may upload: see ValidateAnchor
  MaxCRLs,      \* bound: CRLs the operator CA publishes
  Validity,     \* from a CRL's publication to its nextUpdate
  Interval, Jitter, \* DefaultCRLInterval, crlJitter
  MaxMishaps    \* bound: outages, crashes, lost connections and source changes

ASSUME CRLRefreshAssumption ==
  /\ {MaxCRLs, Validity} \subseteq Nat \ {0} /\ Interval \in Nat \ {0, 1}
  /\ {Jitter, MaxMishaps} \subseteq Nat /\ Jitter < Interval
  /\ None \notin Refreshers \cup Uploads \cup Nat

VARIABLES
  \* outside
  published,   \* number of the newest CRL at the operator CA's URL
  left,        \* ticks to each CRL's nextUpdate
  answering,   \* whether the URL answers
  \* the database
  caRow,       \* the operator CA and its CRL source; None before it is registered
  crlRow,      \* the CRL row: number (0 without a CRL), last error, age of the last attempt
  lease,       \* the process that has the advisory lock of this CRL
  \* each process
  alive, policy,  \* and the operatorRevocationPolicy they are configured with
  behind,      \* processes whose last poll is older than the last change
  known,       \* the CRL source of the CA in the trust generation
  inUse,       \* number of the CRL in use
  sched,       \* when the refresher is due, and its backoff; None before the first refresh
  step, got,   \* the refresh in progress and the CRL it fetched
  steady,      \* history: ticks since something last went wrong or changed
  mishaps

outside == <<published, left, answering>>
crlTables == <<caRow, crlRow>>
copies == <<behind, known, inUse>>
refVars == <<outside, crlTables, lease, alive, policy, copies, sched, step, got, steady, mishaps>>

Sources == {"none", "url", "upload"}
Half == Interval \div 2
\* A refresh put off by an attempt of the last half interval, the longest wait
\* to the next one, the fetch, and the tick in which it ends.
Bound == (Half - 1) + (Interval + Jitter) + 1 + 1
CARow == [cert : Uploads, source : Sources]
CRLRow == [number : 0..MaxCRLs, failed : BOOLEAN, age : 0..Interval]
Schedule == [due : Nat, backoff : 0..Interval]

\* None is no row, source or schedule.
ASSUME CRLRowsAssumption == None \notin CARow \cup Sources \cup Schedule

\* Types, and that a CRL in use was stored.
RefreshTypeOK ==
  /\ published \in 1..MaxCRLs /\ left \in [1..MaxCRLs -> 0..Validity] /\ answering \in BOOLEAN
  /\ caRow \in CARow \cup {None} /\ crlRow \in CRLRow
  /\ lease \in alive \cup {None}
  /\ alive \subseteq Refreshers /\ behind \subseteq alive /\ policy \in {"soft", "hard"}
  /\ known \in [Refreshers -> Sources \cup {None}]
  /\ inUse \in [Refreshers -> 0..crlRow.number]
  /\ sched \in [Refreshers -> Schedule \cup {None}]
  /\ step \in [Refreshers -> {"idle", "check", "fetch", "slow", "store"}]
  /\ got \in [Refreshers -> 0..published]
  /\ steady \in 0..Bound /\ mishaps \in 0..MaxMishaps

RefreshInit ==
  /\ published = 1 /\ left = [n \in 1..MaxCRLs |-> Validity] /\ answering = TRUE
  /\ caRow = None /\ crlRow = [number |-> 0, failed |-> FALSE, age |-> Interval]
  /\ lease = None /\ alive = {} /\ policy \in {"soft", "hard"}
  /\ behind = {} /\ known = [r \in Refreshers |-> None] /\ inUse = [r \in Refreshers |-> 0]
  /\ sched = [r \in Refreshers |-> None]
  /\ step = [r \in Refreshers |-> "idle"] /\ got = [r \in Refreshers |-> 0]
  /\ steady = 0 /\ mishaps = 0

Mishap == mishaps < MaxMishaps /\ mishaps' = mishaps + 1 /\ steady' = 0

-----------------------------------------------------------------------------
(* Registration and CRL source.                                            *)

\* ValidateAnchor: a CA certificate that signs certificates, valid long enough,
\* with a strong enough key that is no CryptOS node's, and that signs CRLs when
\* one will be verified against it.
ValidateAnchor(c, needsCRL) ==
  c.isCA /\ c.lasts /\ c.strongKey /\ ~ c.nodeCA /\ (needsCRL => c.crlSign)

\* CheckCRLChoice: none (acknowledged), or a CRL the CA signed, fetched now from
\* the URL or uploaded.
CheckCRLChoice(c, source, n) ==
  \/ source = "none" /\ n = 0
  \/ source = "url" /\ c.crlSign /\ answering /\ n = published
  \/ source = "upload" /\ c.crlSign /\ n \in 1..published

\* uploadUnderHard.
UploadAllowed(source) == ~ (source = "upload" /\ policy = "hard")

\* putCRLTx: an older CRL is a rollback and fails the transaction; the one that
\* is stored already changes nothing; a newer one becomes the row.
PutCRL(n) ==
  /\ n = 0 \/ n >= crlRow.number
  /\ crlRow' = IF n > crlRow.number THEN [number |-> n, failed |-> FALSE, age |-> 0] ELSE crlRow

\* The change is stored, and applyTrustChange loads it on the replica that
\* made it.
StoreSource(r, c, source, n) ==
  /\ UploadAllowed(source)
  /\ CheckCRLChoice(c, source, n)
  /\ PutCRL(n)
  /\ caRow' = [cert |-> c, source |-> source]
  /\ behind' = alive \ {r}
  /\ known' = [known EXCEPT ![r] = source]
  /\ inUse' = [inUse EXCEPT ![r] = crlRow'.number]
  /\ steady' = 0
  /\ UNCHANGED <<outside, lease, alive, policy, sched, step, got>>

RegisterOperatorCA(r, c, source, n) ==
  /\ r \in alive /\ caRow = None
  /\ ValidateAnchor(c, source # "none")
  /\ StoreSource(r, c, source, n)
  /\ UNCHANGED mishaps

SetOperatorCACRLSource(r, source, n) ==
  /\ r \in alive /\ caRow # None
  /\ StoreSource(r, caRow.cert, source, n)
  /\ Mishap

\* UploadOperatorCRL: StoreCRL of an uploaded CRL.
UploadOperatorCRL(r, n) ==
  /\ r \in alive \ behind /\ caRow # None /\ caRow.source = "upload"
  /\ n \in (crlRow.number + 1)..published
  /\ PutCRL(n)
  /\ inUse' = [inUse EXCEPT ![r] = n]
  /\ behind' = behind \cup (alive \ {r})
  /\ UNCHANGED <<outside, caRow, lease, alive, policy, known, sched, step, got, steady, mishaps>>

-----------------------------------------------------------------------------
(* Processes.                                                              *)

Load(r) ==
  /\ known' = [known EXCEPT ![r] = IF caRow = None THEN None ELSE caRow.source]
  /\ inUse' = [inUse EXCEPT ![r] = crlRow.number]
  /\ behind' = behind \ {r}

\* Resolve: a hard policy doesn't start over an operator CA that takes its CRL
\* by upload.
Resolve == ~ (policy = "hard" /\ caRow # None /\ caRow.source = "upload")

\* The start loads what is stored; refreshCRLs comes next where there is
\* something to fetch.
StartRefresher(r) ==
  /\ r \notin alive /\ Resolve
  /\ alive' = alive \cup {r}
  /\ Load(r)
  /\ sched' = [sched EXCEPT ![r] = IF known'[r] = "url" THEN None ELSE [due |-> 0, backoff |-> 0]]
  /\ steady' = 0
  /\ UNCHANGED <<outside, crlTables, lease, policy, step, got, mishaps>>

StopRefresher(r) ==
  /\ r \in alive /\ Mishap
  /\ alive' = alive \ {r}
  /\ behind' = behind \ {r}
  /\ known' = [known EXCEPT ![r] = None] /\ inUse' = [inUse EXCEPT ![r] = 0]
  /\ sched' = [sched EXCEPT ![r] = None]
  /\ step' = [step EXCEPT ![r] = "idle"] /\ got' = [got EXCEPT ![r] = 0]
  /\ lease' = IF lease = r THEN None ELSE lease
  /\ UNCHANGED <<outside, crlTables, policy>>

\* The configuration file is changed while nothing runs.
ChangePolicy ==
  /\ alive = {} /\ Mishap
  /\ policy' \in {"soft", "hard"} \ {policy}
  /\ UNCHANGED <<outside, crlTables, lease, alive, copies, sched, step, got>>

PollOnce(r) ==
  /\ r \in behind
  /\ Load(r)
  /\ UNCHANGED <<outside, crlTables, lease, alive, policy, sched, step, got, steady, mishaps>>

\* The connection of the advisory lock breaks; its holder goes on.
LoseLease ==
  /\ lease # None /\ Mishap
  /\ lease' = None
  /\ UNCHANGED <<outside, crlTables, alive, policy, copies, sched, step, got>>

-----------------------------------------------------------------------------
(* The refresher.                                                          *)

Double(b) == IF 2 * b < 1 THEN 1 ELSE 2 * b

\* Variant: the backoff doubles without a limit.
NextRefreshUncapped(s, error, n, s2) ==
  \/ s = None /\ s2 = [due |-> 0, backoff |-> 0]
  \/ /\ s # None /\ (error \/ (n > 0 /\ left[n] = 0))
     /\ s2 = [due |-> Double(s.backoff), backoff |-> Double(s.backoff)]
  \/ /\ s # None /\ ~ error /\ (n > 0 => left[n] > 0)
     /\ \E wait \in (Interval - Jitter)..(Interval + Jitter) : s2 = [due |-> wait, backoff |-> 0]

\* nextRefresh after a refresh that left CRL n in use: the interval, or
\* nextUpdate if that comes first; after an error or past nextUpdate a backoff
\* that starts at a tick and doubles up to the interval.  The refresh of the
\* start is followed by the loop's first at once.
NextRefresh(s, error, n, s2) ==
  \/ s = None /\ s2 = [due |-> 0, backoff |-> 0]
  \/ /\ s # None /\ (error \/ (n > 0 /\ left[n] = 0))
     /\ LET b == IF Double(s.backoff) < Interval THEN Double(s.backoff) ELSE Interval IN
        s2 = [due |-> b, backoff |-> b]
  \/ /\ s # None /\ ~ error /\ (n > 0 => left[n] > 0)
     /\ \E wait \in (Interval - Jitter)..(Interval + Jitter) :
          s2 = [due |-> IF n > 0 /\ left[n] < wait THEN left[n] ELSE wait, backoff |-> 0]

\* RefreshOnce returns.
Done(r, error) ==
  /\ \E s2 \in [due : 0..(2 * Interval), backoff : 0..(2 * Interval)] :
       NextRefresh(sched[r], error, inUse'[r], s2) /\ sched' = [sched EXCEPT ![r] = s2]
  /\ step' = [step EXCEPT ![r] = "idle"] /\ got' = [got EXCEPT ![r] = 0]
  /\ lease' = IF lease = r THEN None ELSE lease

Due(r) == r \in alive /\ step[r] = "idle" /\ known[r] = "url" /\ (sched[r] # None => sched[r].due = 0)

\* Another replica has the lock: it is left to it.
TryLease(r) ==
  /\ Due(r)
  /\ \/ lease = None /\ lease' = r /\ step' = [step EXCEPT ![r] = "check"] /\ UNCHANGED <<sched, got, inUse>>
     \/ lease # None /\ UNCHANGED inUse /\ Done(r, FALSE)
  /\ UNCHANGED <<outside, crlTables, alive, policy, behind, known, steady, mishaps>>

\* recentlyRefreshed: a good attempt in the last half interval left a CRL that
\* is still current.
Recent == crlRow.number > 0 /\ ~ crlRow.failed /\ left[crlRow.number] > 0 /\ crlRow.age < Half

RecentlyRefreshed(r) ==
  /\ step[r] = "check"
  /\ \/ Recent /\ UNCHANGED inUse /\ Done(r, FALSE)
     \/ ~ Recent /\ step' = [step EXCEPT ![r] = "fetch"] /\ UNCHANGED <<sched, got, lease, inUse>>
  /\ UNCHANGED <<outside, crlTables, alive, policy, behind, known, steady, mishaps>>

\* Fetch within its limits.
Fetch(r) ==
  /\ step[r] \in {"fetch", "slow"} /\ answering
  /\ got' = [got EXCEPT ![r] = published]
  /\ step' = [step EXCEPT ![r] = "store"]
  /\ UNCHANGED <<outside, crlTables, lease, alive, policy, copies, sched, steady, mishaps>>

\* fail: the error is recorded with the attempt; the CRL stays.
Failed == crlRow' = [crlRow EXCEPT !.failed = TRUE, !.age = 0]

FetchFails(r) ==
  /\ step[r] \in {"fetch", "slow"} /\ ~ answering
  /\ Failed
  /\ UNCHANGED inUse
  /\ Done(r, TRUE)
  /\ UNCHANGED <<outside, caRow, alive, policy, behind, known, steady, mishaps>>

\* StoreCRL of a newer CRL, which moves the revocation epoch.
StoreCRL(r) ==
  /\ PutCRL(got[r]) /\ got[r] > crlRow.number
  /\ inUse' = [inUse EXCEPT ![r] = got[r]]
  /\ behind' = behind \cup (alive \ {r})
  /\ Done(r, FALSE)

\* The fetched CRL is stored, is the one that is stored, or is older.
Finish(r) ==
  /\ step[r] = "store"
  /\ \/ StoreCRL(r)
     \/ /\ got[r] = crlRow.number
        /\ crlRow' = [crlRow EXCEPT !.failed = FALSE, !.age = 0]
        /\ UNCHANGED <<inUse, behind>> /\ Done(r, FALSE)
     \/ got[r] < crlRow.number /\ Failed /\ UNCHANGED <<inUse, behind>> /\ Done(r, TRUE)
  /\ UNCHANGED <<outside, caRow, alive, policy, known, steady, mishaps>>

-----------------------------------------------------------------------------
(* Outside, and time.                                                      *)

Publish ==
  /\ published < MaxCRLs
  /\ published' = published + 1 /\ steady' = 0
  /\ UNCHANGED <<left, answering, crlTables, lease, alive, policy, copies, sched, step, got, mishaps>>

Outage ==
  /\ answering /\ Mishap
  /\ answering' = FALSE
  /\ UNCHANGED <<published, left, crlTables, lease, alive, policy, copies, sched, step, got>>

Recover ==
  /\ ~ answering /\ answering' = TRUE /\ steady' = 0
  /\ UNCHANGED <<published, left, crlTables, lease, alive, policy, copies, sched, step, got, mishaps>>

Less(n) == IF n > 0 THEN n - 1 ELSE 0
More(n, max) == IF n < max THEN n + 1 ELSE max

\* Only a fetch takes time, a tick at most; a refresh that is due begins (the
\* refresher looks every 15 seconds) and a poll runs (every 5).
TimePasses ==
  /\ \A r \in Refreshers : step[r] \in {"idle", "fetch"} /\ ~ Due(r)
  /\ behind = {}
  /\ left' = [n \in 1..MaxCRLs |-> IF n <= published THEN Less(left[n]) ELSE left[n]]
  /\ crlRow' = [crlRow EXCEPT !.age = More(@, Interval)]
  /\ sched' = [r \in Refreshers |-> IF sched[r] = None THEN None ELSE [sched[r] EXCEPT !.due = Less(@)]]
  /\ step' = [r \in Refreshers |-> IF step[r] = "fetch" THEN "slow" ELSE step[r]]
  /\ steady' = More(steady, Bound)
  /\ UNCHANGED <<published, answering, caRow, lease, alive, policy, copies, got, mishaps>>

RefreshStep(r) == TryLease(r) \/ RecentlyRefreshed(r) \/ Fetch(r) \/ FetchFails(r) \/ Finish(r)

RefreshNext ==
  \/ Publish \/ Outage \/ Recover \/ TimePasses \/ LoseLease \/ ChangePolicy
  \/ \E r \in Refreshers : StartRefresher(r) \/ StopRefresher(r) \/ PollOnce(r) \/ RefreshStep(r)
  \/ \E r \in Refreshers, c \in Uploads, s \in Sources, n \in 0..MaxCRLs : RegisterOperatorCA(r, c, s, n)
  \/ \E r \in Refreshers, s \in Sources, n \in 0..MaxCRLs :
       SetOperatorCACRLSource(r, s, n) \/ UploadOperatorCRL(r, n)

RefreshSpec == RefreshInit /\ [][RefreshNext]_refVars

-----------------------------------------------------------------------------
(* Properties.                                                             *)

\* Once the URL answers and nothing changes for an interval and a half with the
\* jitter and a fetch, the newest CRL is stored and every replica uses it,
\* whichever fetched it: no backoff, lock held by another replica or recent
\* attempt puts the refresh off for longer (nextRefresh, recentlyRefreshed,
\* RefreshOnce, StoreCRL).
RefreshedInTime ==
  steady = Bound /\ answering /\ caRow # None /\ caRow.source = "url" =>
    \A r \in alive : inUse[r] = published
=============================================================================
