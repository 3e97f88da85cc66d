------------------------------ MODULE FirstRun ------------------------------
(***************************************************************************)
(* First run of the Fleet Manager (internal/bootstrap over the Postgres    *)
(* store).  Several replicas serve the same database.  A token printed in  *)
(* the log starts the one session, the session registers the operator CA   *)
(* and submits the first admin's certificate, and the first admin request  *)
(* closes first run.  An offline break-glass command reopens it.           *)
(*                                                                         *)
(* A request is a process in a slot of Procs that takes one step for each  *)
(* database transaction it runs, so everything another request, another    *)
(* replica, a crash or the clock can do between two transactions is a      *)
(* behaviour of this module.  Reads that only decide whether the request   *)
(* goes on are folded into the step that follows them when no write can    *)
(* make the folded reads disagree in a way the handler would notice.       *)
(***************************************************************************)
EXTENDS Naturals, FiniteSets

CONSTANTS
  Replicas,        \* manager processes sharing the database
  HostReplica,     \* the replica behind the configured listen address, which
                   \* is the one the break-glass command probes
  Procs,           \* slots for requests being served at the same time
  Tokens,          \* identities for bootstrap tokens (random, never repeated)
  Sessions,        \* identities for session secrets (random, never repeated)
  CAs,             \* external operator CAs somebody may register
  Certs,           \* admin certificates those CAs signed
  Issuer,          \* Issuer[c]: the CA that signed c
  Console,         \* the break-glass command, as a holder of the token lock
  GlobalFailures,  \* globalFailures: refusals that trip the global window
  MaxFaults,       \* bound: crashes, lost lock connections and database errors
  MaxResets,       \* bound: break-glass resets
  None

ASSUME FirstRunAssumption ==
  /\ HostReplica \in Replicas
  /\ Issuer \in [Certs -> CAs]
  /\ GlobalFailures \in Nat \ {0}
  /\ MaxFaults \in Nat
  /\ MaxResets \in Nat
  /\ None \notin Replicas \cup Tokens \cup Sessions \cup CAs \cup Certs
  /\ Console \notin Replicas \cup {None}

VARIABLES
  \* the database
  closed,          \* bootstrap_state.closed_at is set
  token,           \* bootstrap_tokens
  session,         \* bootstrap_sessions
  ca,              \* operator_cas.state
  confirmedBy,     \* operator_cas.confirmed_session_hash
  firstAdmins,     \* operator_credentials with kind first_admin
  denylist,        \* operator_denylist
  lock,            \* holder of the advisory lock fleetos.bootstrap_token
  \* each replica
  up,              \* replicas that are running
  latch,           \* replicas whose Latch.closed flag is set
  ticker,          \* where the token goroutine of each replica is
  release,         \* replicas that believe they hold the lock
  unprinted,       \* tokens a replica stored and has not printed yet
  trust,           \* operator CAs in the replica's trust generation
  denied,          \* the replica's copy of the denylist
  fails,           \* refusals in the replica's global window
  \* requests, the break-glass command and the people outside
  console,         \* how far the break-glass command is
  req,             \* the request in each slot
  printed,         \* tokens somebody can read in a log
  handed,          \* session secrets a client has received
  submitted,       \* history: certificates recorded by a session
  faults, resets  \* taken so far

dbVars == <<closed, token, session, ca, confirmedBy, firstAdmins, denylist, lock>>
repVars == <<up, latch, ticker, release, unprinted, trust, denied, fails>>
outVars == <<console, printed, handed, submitted, faults, resets>>
extVars == <<req, outVars>>
vars == <<dbVars, repVars, extVars>>

-----------------------------------------------------------------------------
(* Rows.  A token row is unused while used_at is NULL, whether or not it   *)
(* has expired; "gone" marks a row that was deleted, so its identity is    *)
(* never drawn again.                                                      *)

TokenState == {"none", "live", "expired", "used", "gone"}
SessionState == {"none", "live", "lapsed", "ended", "gone"}
CAState == {"none", "active", "retired"}
Pc == {"idle", "start", "issue", "register", "rebuild", "reconfirm", "confirm",
       "submit", "earlier", "supersede"}

Unused == {t \in Tokens : token[t] \in {"live", "expired"}}
Open == {s \in Sessions : session[s] \in {"live", "lapsed"}}
Active == {a \in CAs : ca[a] = "active"}

Request == [pc : Pc, at : Replicas \cup {None}, tok : Tokens \cup {None},
            sess : Sessions \cup {None}, ca : CAs \cup {None},
            cert : Certs \cup {None}, todo : SUBSET Certs]

NoRequest == [pc |-> "idle", at |-> None, tok |-> None, sess |-> None,
              ca |-> None, cert |-> None, todo |-> {}]

TypeOK ==
  /\ closed \in BOOLEAN
  /\ token \in [Tokens -> TokenState]
  /\ session \in [Sessions -> SessionState]
  /\ ca \in [CAs -> CAState]
  /\ confirmedBy \in [CAs -> Sessions \cup {None}]
  /\ firstAdmins \subseteq Certs
  /\ denylist \subseteq Certs
  /\ lock \in Replicas \cup {None, Console}
  /\ up \subseteq Replicas
  /\ latch \subseteq up
  /\ ticker \in [Replicas -> {"off", "idle", "lock", "issue"}]
  /\ release \subseteq up
  /\ unprinted \in [Replicas -> SUBSET Tokens]
  /\ trust \in [Replicas -> SUBSET CAs]
  /\ denied \in [Replicas -> SUBSET Certs]
  /\ fails \in [Replicas -> 0..(GlobalFailures - 1)]
  /\ console \in {"off", "locked", "probed"}
  /\ req \in [Procs -> Request]
  /\ printed \subseteq Tokens
  /\ handed \subseteq Sessions
  /\ submitted \subseteq Certs
  /\ faults \in 0..MaxFaults
  /\ resets \in 0..MaxResets

Init ==
  /\ closed = FALSE
  /\ token = [t \in Tokens |-> "none"]
  /\ session = [s \in Sessions |-> "none"]
  /\ ca = [a \in CAs |-> "none"]
  /\ confirmedBy = [a \in CAs |-> None]
  /\ firstAdmins = {} /\ denylist = {} /\ lock = None
  /\ up = {} /\ latch = {}
  /\ ticker = [r \in Replicas |-> "off"]
  /\ release = {}
  /\ unprinted = [r \in Replicas |-> {}]
  /\ trust = [r \in Replicas |-> {}]
  /\ denied = [r \in Replicas |-> {}]
  /\ fails = [r \in Replicas |-> 0]
  /\ console = "off"
  /\ req = [p \in Procs |-> NoRequest]
  /\ printed = {} /\ handed = {} /\ submitted = {}
  /\ faults = 0 /\ resets = 0

-----------------------------------------------------------------------------
(* Statements and transactions of the Postgres store.                      *)

\* Variant: an expired session is taken for one that has ended.
EndAllLive(ss) == [s \in Sessions |-> IF ss[s] = "live" THEN "ended" ELSE ss[s]]

\* UPDATE bootstrap_sessions SET ended_at ... WHERE ended_at IS NULL
EndAll(ss) == [s \in Sessions |-> IF ss[s] \in {"live", "lapsed"} THEN "ended" ELSE ss[s]]

\* Variant: the transaction does not look at the latch row.
IssueAnyTime(t) ==
  /\ token[t] = "none"
  /\ token' = [u \in Tokens |-> IF u = t THEN "live"
                                ELSE IF u \in Unused THEN "used" ELSE token[u]]

\* Variant: an expired row is left as it is.
IssueKeepExpired(t) ==
  /\ ~closed
  /\ token[t] = "none"
  /\ token' = [u \in Tokens |-> IF u = t THEN "live"
                                ELSE IF token[u] = "live" THEN "used" ELSE token[u]]

\* IssueBootstrapToken behind lockOpen: every unused row is marked used and
\* the new row is inserted; nothing happens once first run is closed.
Issue(t) ==
  /\ ~closed
  /\ token[t] = "none"
  /\ token' = [u \in Tokens |-> IF u = t THEN "live"
                                ELSE IF u \in Unused THEN "used" ELSE token[u]]

\* The rows RegisterFirstRunOperatorCA leaves: the other trusted rows retired,
\* a active (a retired row with the same fingerprint is brought back).
Registered(a) == [b \in CAs |-> IF b = a THEN "active"
                                ELSE IF ca[b] = "active" THEN "retired" ELSE ca[b]]

\* DELETE FROM bootstrap_tokens / bootstrap_sessions
Deleted(f) == [x \in DOMAIN f |-> IF f[x] = "none" THEN "none" ELSE "gone"]

\* tokens.stop: give up the lock if this replica believes it holds it.
Stop(r) ==
  /\ release' = release \ {r}
  /\ lock' = IF r \in release /\ lock = r THEN None ELSE lock

\* Latch.markClosed: the flag, and onClose the first time.
MarkClosed(r) ==
  /\ latch' = latch \cup {r}
  /\ IF r \in latch THEN UNCHANGED <<release, lock>> ELSE Stop(r)

-----------------------------------------------------------------------------
(* Replicas.                                                               *)

\* New reads the latch, NewTrustStore and Reload read the trust data; Start
\* leaves a closed first run alone, otherwise runs ensure(force) and then
\* ticks.  A replica that gets the lock issues even when a token is live.
Boot(r) ==
  /\ r \notin up
  /\ up' = up \cup {r}
  /\ trust' = [trust EXCEPT ![r] = Active]
  /\ denied' = [denied EXCEPT ![r] = denylist]
  /\ IF closed
       THEN latch' = latch \cup {r} /\ UNCHANGED <<ticker, lock, release>>
       ELSE /\ latch' = latch
            /\ IF lock = None
                 THEN /\ lock' = r /\ release' = release \cup {r}
                      /\ ticker' = [ticker EXCEPT ![r] = "issue"]
                 ELSE /\ ticker' = [ticker EXCEPT ![r] = "idle"]
                      /\ UNCHANGED <<lock, release>>
  /\ UNCHANGED <<closed, token, session, ca, confirmedBy, firstAdmins, denylist,
                 unprinted, fails, extVars>>

\* The ticker: the goroutine ends when the latch flag is set; TickTokens
\* re-reads the latch row and notes a close another replica made.
Tick(r) ==
  /\ ticker[r] = "idle"
  /\ \/ /\ r \in latch
        /\ ticker' = [ticker EXCEPT ![r] = "off"]
        /\ UNCHANGED <<latch, release, lock>>
     \/ /\ r \notin latch /\ closed
        /\ MarkClosed(r)
        /\ UNCHANGED ticker
     \/ /\ r \notin latch /\ ~closed
        /\ ticker' = [ticker EXCEPT ![r] = "lock"]
        /\ UNCHANGED <<latch, release, lock>>
  /\ UNCHANGED <<closed, token, session, ca, confirmedBy, firstAdmins, denylist,
                 up, unprinted, trust, denied, fails, extVars>>

\* Variant: any unused row counts as a live token, expired or not.
TickLockUnused(r) ==
  /\ ticker[r] = "lock"
  /\ LET holds == r \in release \/ lock = None
     IN /\ IF r \notin release /\ lock = None
             THEN lock' = r /\ release' = release \cup {r}
             ELSE UNCHANGED <<lock, release>>
        /\ ticker' = [ticker EXCEPT ![r] = IF holds /\ Unused = {} THEN "issue" ELSE "idle"]
  /\ UNCHANGED <<closed, token, session, ca, confirmedBy, firstAdmins, denylist,
                 up, latch, unprinted, trust, denied, fails, extVars>>

\* ensure(false): holdLock, then issue only when no token is live.
TickLock(r) ==
  /\ ticker[r] = "lock"
  /\ LET holds == r \in release \/ lock = None
         live == \E t \in Tokens : token[t] = "live"
     IN /\ IF r \notin release /\ lock = None
             THEN lock' = r /\ release' = release \cup {r}
             ELSE UNCHANGED <<lock, release>>
        /\ ticker' = [ticker EXCEPT ![r] = IF holds /\ ~live THEN "issue" ELSE "idle"]
  /\ UNCHANGED <<closed, token, session, ca, confirmedBy, firstAdmins, denylist,
                 up, latch, unprinted, trust, denied, fails, extVars>>

\* Variant: the lock is kept when first run turns out to be closed.
TickIssueKeepLock(r) ==
  /\ ticker[r] = "issue"
  /\ ticker' = [ticker EXCEPT ![r] = "idle"]
  /\ \/ \E t \in Tokens :
          /\ Issue(t)
          /\ unprinted' = [unprinted EXCEPT ![r] = @ \cup {t}]
     \/ closed /\ UNCHANGED <<token, unprinted>>
  /\ UNCHANGED <<closed, session, ca, confirmedBy, firstAdmins, denylist, lock,
                 up, latch, release, trust, denied, fails, extVars>>

\* ensure's call of issue.  ErrBootstrapClosed gives the lock up.
TickIssue(r) ==
  /\ ticker[r] = "issue"
  /\ ticker' = [ticker EXCEPT ![r] = "idle"]
  /\ \/ \E t \in Tokens :
          /\ Issue(t)
          /\ unprinted' = [unprinted EXCEPT ![r] = @ \cup {t}]
          /\ UNCHANGED <<lock, release>>
     \/ /\ closed /\ Stop(r)
        /\ UNCHANGED <<token, unprinted>>
  /\ UNCHANGED <<closed, session, ca, confirmedBy, firstAdmins, denylist,
                 up, latch, trust, denied, fails, extVars>>

\* ensure's issue fails on the database: logged, and left to the next tick.
IssueFails(r) ==
  /\ ticker[r] = "issue" /\ faults < MaxFaults
  /\ ticker' = [ticker EXCEPT ![r] = "idle"]
  /\ faults' = faults + 1
  /\ UNCHANGED <<dbVars, up, latch, release, unprinted, trust, denied, fails,
                 console, req, printed, handed, submitted, resets>>

\* issue's banner: the token appears in the log of the replica that stored it.
Banner(r) ==
  /\ unprinted[r] # {}
  /\ printed' = printed \cup unprinted[r]
  /\ unprinted' = [unprinted EXCEPT ![r] = {}]
  /\ UNCHANGED <<dbVars, up, latch, ticker, release, trust, denied, fails,
                 console, req, handed, submitted, faults, resets>>

\* The trust and revocation poll, which this module takes as one step
\* (OperatorCAs and Revocation have its parts).
Poll(r) ==
  /\ r \in up
  /\ trust' = [trust EXCEPT ![r] = Active]
  /\ denied' = [denied EXCEPT ![r] = denylist]
  /\ UNCHANGED <<dbVars, up, latch, ticker, release, unprinted, fails, extVars>>

\* CloseBootstrap: closes the row once, and in the same transaction ends every
\* session and deletes every token.
CloseBootstrap ==
  /\ closed' = TRUE
  /\ \/ ~closed /\ session' = EndAll(session) /\ token' = Deleted(token)
     \/ closed /\ UNCHANGED <<session, token>>

\* Latch.Observe: an admin certificate passed the chain and revocation checks
\* of replica r.  Whoever closed first run records the certificate, and a
\* failure to record is logged and dropped.
Observe(r, c) ==
  /\ r \in up /\ r \notin latch
  /\ Issuer[c] \in trust[r] /\ c \notin denied[r]
  /\ CloseBootstrap
  /\ MarkClosed(r)
  /\ \/ ~closed /\ firstAdmins' = firstAdmins \cup {c}
     \/ UNCHANGED firstAdmins
  /\ UNCHANGED <<ca, confirmedBy, denylist, up, ticker, unprinted, trust, denied, fails, extVars>>

\* The process stops: its memory is lost, the database drops its connection
\* and with it the advisory lock, and its requests get no answer.
Crash(r) ==
  /\ r \in up /\ faults < MaxFaults
  /\ faults' = faults + 1
  /\ up' = up \ {r} /\ latch' = latch \ {r} /\ release' = release \ {r}
  /\ lock' = IF lock = r THEN None ELSE lock
  /\ ticker' = [ticker EXCEPT ![r] = "off"]
  /\ unprinted' = [unprinted EXCEPT ![r] = {}]
  /\ trust' = [trust EXCEPT ![r] = {}]
  /\ denied' = [denied EXCEPT ![r] = {}]
  /\ fails' = [fails EXCEPT ![r] = 0]
  /\ req' = [p \in Procs |-> IF req[p].at = r THEN NoRequest ELSE req[p]]
  /\ UNCHANGED <<closed, token, session, ca, confirmedBy, firstAdmins, denylist,
                 console, printed, handed, submitted, resets>>

\* The connection that carries the advisory lock breaks while the replica
\* runs on; the replica still believes it holds the lock.
LockLost ==
  /\ lock # None /\ faults < MaxFaults
  /\ lock' = None
  /\ faults' = faults + 1
  /\ UNCHANGED <<closed, token, session, ca, confirmedBy, firstAdmins, denylist, repVars,
                 console, req, printed, handed, submitted, resets>>

\* Reset: the token lock, or ErrManagerRunning ...
ResetLock ==
  /\ console = "off" /\ resets < MaxResets /\ lock = None
  /\ console' = "locked" /\ lock' = Console
  /\ UNCHANGED <<closed, token, session, ca, confirmedBy, firstAdmins, denylist, repVars,
                 req, printed, handed, submitted, faults, resets>>

\* ... the probe of the configured listen address, or ErrManagerRunning ...
ResetProbe ==
  /\ console = "locked"
  /\ IF HostReplica \in up
       THEN console' = "off" /\ lock' = IF lock = Console THEN None ELSE lock
       ELSE console' = "probed" /\ UNCHANGED lock
  /\ UNCHANGED <<closed, token, session, ca, confirmedBy, firstAdmins, denylist, repVars,
                 req, printed, handed, submitted, faults, resets>>

\* ... and ResetFirstRun, one transaction; the deferred release follows it.
ResetCommit ==
  /\ console = "probed"
  /\ console' = "off" /\ lock' = IF lock = Console THEN None ELSE lock
  /\ resets' = resets + 1
  /\ closed' = FALSE
  /\ session' = Deleted(session)
  /\ token' = Deleted(token)
  /\ ca' = [a \in CAs |-> IF ca[a] = "none" THEN "none" ELSE "retired"]
  /\ UNCHANGED <<confirmedBy, firstAdmins, denylist, repVars,
                 req, printed, handed, submitted, faults>>

-----------------------------------------------------------------------------
(* Time: TokenTTL, and SessionIdle or SessionMax, whichever ends first.    *)

ExpireToken(t) ==
  /\ token[t] = "live"
  /\ token' = [token EXCEPT ![t] = "expired"]
  /\ UNCHANGED <<closed, session, ca, confirmedBy, firstAdmins, denylist, lock, repVars, extVars>>

LapseSession(s) ==
  /\ session[s] = "live"
  /\ session' = [session EXCEPT ![s] = "lapsed"]
  /\ UNCHANGED <<closed, token, ca, confirmedBy, firstAdmins, denylist, lock, repVars, extVars>>

\* Window.Fail forgets refusals older than globalWindow.
ForgetFailures(r) ==
  /\ \E n \in 0..(fails[r] - 1) : fails' = [fails EXCEPT ![r] = n]
  /\ UNCHANGED <<dbVars, up, latch, ticker, release, unprinted, trust, denied, extVars>>

-----------------------------------------------------------------------------
(* Requests.                                                               *)

\* Variant: the window trips one refusal late.
FailLate(p, r, ss) ==
  IF fails[r] + 1 =< GlobalFailures
    THEN /\ fails' = [fails EXCEPT ![r] = @ + 1]
         /\ session' = ss
         /\ req' = [req EXCEPT ![p] = NoRequest]
    ELSE /\ fails' = [fails EXCEPT ![r] = 0]
         /\ session' = EndAll(ss)
         /\ req' = [req EXCEPT ![p] = [NoRequest EXCEPT !.pc = "issue", !.at = r]]

\* fail: count the refusal in the replica's window.  The refusal that trips
\* the window starts the count over, ends the live session and goes on to
\* issue a new token.  ss is the session table after the request's own write.
Fail(p, r, ss) ==
  IF fails[r] + 1 < GlobalFailures
    THEN /\ fails' = [fails EXCEPT ![r] = @ + 1]
         /\ session' = ss
         /\ req' = [req EXCEPT ![p] = NoRequest]
    ELSE /\ fails' = [fails EXCEPT ![r] = 0]
         /\ session' = EndAll(ss)
         /\ req' = [req EXCEPT ![p] = [NoRequest EXCEPT !.pc = "issue", !.at = r]]

\* gate, for a request that reaches a replica after the close: refused before
\* any token or session is read, and the replica notes the close.
RefuseClosed(r) ==
  /\ r \in up /\ r \notin latch /\ closed
  /\ MarkClosed(r)
  /\ UNCHANGED <<closed, token, session, ca, confirmedBy, firstAdmins, denylist,
                 up, ticker, unprinted, trust, denied, fails, extVars>>

Admitted(p, r) == req[p].pc = "idle" /\ r \in up /\ r \notin latch /\ ~closed

\* StartBootstrapSession up to the store call, with a token read in a log.
StartCall(p, r, t) ==
  /\ Admitted(p, r) /\ t \in printed
  /\ req' = [req EXCEPT ![p] = [NoRequest EXCEPT !.pc = "start", !.at = r, !.tok = t]]
  /\ UNCHANGED <<dbVars, repVars, outVars>>

\* Variant: the token is looked up and not consumed.
StartCommitReuse(p) ==
  /\ req[p].pc = "start"
  /\ LET r == req[p].at t == req[p].tok IN
     \/ /\ ~closed /\ token[t] = "live"
        /\ \E s \in Sessions :
             /\ session[s] = "none"
             /\ session' = [EndAll(session) EXCEPT ![s] = "live"]
             /\ req' = [req EXCEPT ![p].pc = "issue", ![p].sess = s]
        /\ UNCHANGED <<token, fails>>
     \/ /\ closed \/ token[t] # "live"
        /\ Fail(p, r, session)
        /\ UNCHANGED token
  /\ UNCHANGED <<closed, ca, confirmedBy, firstAdmins, denylist, lock, up, latch, ticker,
                 release, unprinted, trust, denied, outVars>>

\* store.StartBootstrapSession: consume the token, end the earlier session
\* and insert the new one, or report false and change nothing.
StartCommit(p) ==
  /\ req[p].pc = "start"
  /\ LET r == req[p].at t == req[p].tok IN
     \/ /\ ~closed /\ token[t] = "live"
        /\ \E s \in Sessions :
             /\ session[s] = "none"
             /\ token' = [token EXCEPT ![t] = "used"]
             /\ session' = [EndAll(session) EXCEPT ![s] = "live"]
             /\ req' = [req EXCEPT ![p].pc = "issue", ![p].sess = s]
        /\ UNCHANGED fails
     \/ /\ closed \/ token[t] # "live"
        /\ Fail(p, r, session)
        /\ UNCHANGED token
  /\ UNCHANGED <<closed, ca, confirmedBy, firstAdmins, denylist, lock, up, latch, ticker,
                 release, unprinted, trust, denied, outVars>>

\* tokens.issue after a session start or a tripped window; an error is
\* logged only.  A started session's secret goes back to its client.
IssueNext(p) ==
  /\ req[p].pc = "issue"
  /\ \/ \E t \in Tokens :
          /\ Issue(t)
          /\ unprinted' = [unprinted EXCEPT ![req[p].at] = @ \cup {t}]
     \/ closed /\ UNCHANGED <<token, unprinted>>
  /\ handed' = handed \cup ({req[p].sess} \ {None})
  /\ req' = [req EXCEPT ![p] = NoRequest]
  /\ UNCHANGED <<closed, session, ca, confirmedBy, firstAdmins, denylist, lock, up, latch,
                 ticker, release, trust, denied, fails, console, printed, submitted, faults, resets>>

\* The start of RegisterOperatorCA and SubmitFirstAdminCertificate: gate,
\* then session().  A lapsed session is ended and refused, an ended or
\* deleted one refused; a live one is touched and the request goes on.
SessionCall(p, r, s, kind, a, c) ==
  /\ Admitted(p, r) /\ s \in handed
  /\ \/ /\ session[s] = "live"
        /\ req' = [req EXCEPT ![p] = [NoRequest EXCEPT
                     !.pc = kind, !.at = r, !.sess = s, !.ca = a, !.cert = c]]
        /\ UNCHANGED <<session, fails>>
     \/ /\ session[s] # "live"
        /\ Fail(p, r, IF session[s] = "lapsed" THEN [session EXCEPT ![s] = "ended"] ELSE session)
  /\ UNCHANGED <<closed, token, ca, confirmedBy, firstAdmins, denylist, lock, up, latch, ticker,
                 release, unprinted, trust, denied, outVars>>

RegisterCall(p, r, s, a) == SessionCall(p, r, s, "register", a, None)
ReconfirmCall(p, r, s, a) == SessionCall(p, r, s, "reconfirm", a, None)
SubmitCall(p, r, s, c) == SessionCall(p, r, s, "submit", None, c)

\* A refusal that changes nothing but the failure count: an upload that fails
\* a check, a fingerprint that does not match, a CA this session has not
\* confirmed, a certificate that is not the active CA's or is denied here.
Refuse(p) ==
  LET q == req[p] IN
  /\ \/ q.pc = "register"
     \/ q.pc = "reconfirm" /\ q.ca \notin Active
     \/ q.pc = "submit" /\ ~ \E a \in Active : /\ confirmedBy[a] = q.sess
                                               /\ Issuer[q.cert] = a
                                               /\ q.cert \notin denied[q.at]
  /\ Fail(p, q.at, session)
  /\ trust' = IF q.pc = "submit" THEN [trust EXCEPT ![q.at] = Active] ELSE trust
  /\ UNCHANGED <<closed, token, ca, confirmedBy, firstAdmins, denylist, lock, up, latch, ticker,
                 release, unprinted, denied, outVars>>

\* Variant: the transaction does not look at the latch row.
RegisterCommitAnyTime(p) ==
  /\ req[p].pc = "register"
  /\ ca' = Registered(req[p].ca)
  /\ confirmedBy' = [confirmedBy EXCEPT ![req[p].ca] = req[p].sess]
  /\ req' = [req EXCEPT ![p].pc = "rebuild"]
  /\ UNCHANGED <<closed, token, session, firstAdmins, denylist, lock, repVars, outVars>>

\* RegisterFirstRunOperatorCA, one transaction behind lockOpen.
RegisterCommit(p) ==
  /\ req[p].pc = "register"
  /\ \/ /\ ~closed
        /\ ca' = Registered(req[p].ca)
        /\ confirmedBy' = [confirmedBy EXCEPT ![req[p].ca] = req[p].sess]
        /\ req' = [req EXCEPT ![p].pc = "rebuild"]
     \/ /\ closed
        /\ req' = [req EXCEPT ![p] = NoRequest]
        /\ UNCHANGED <<ca, confirmedBy>>
  /\ UNCHANGED <<closed, token, session, firstAdmins, denylist, lock, repVars,
                 outVars>>

\* trust.Rebuild and rev.Reload on the replica that served the registration.
RegisterRebuild(p) ==
  /\ req[p].pc = "rebuild"
  /\ trust' = [trust EXCEPT ![req[p].at] = Active]
  /\ denied' = [denied EXCEPT ![req[p].at] = denylist]
  /\ req' = [req EXCEPT ![p] = NoRequest]
  /\ UNCHANGED <<dbVars, up, latch, ticker, release, unprinted, fails,
                 outVars>>

\* reconfirm: read the active row, compare the fingerprint ...
ReconfirmRead(p) ==
  /\ req[p].pc = "reconfirm" /\ req[p].ca \in Active
  /\ req' = [req EXCEPT ![p].pc = "confirm"]
  /\ UNCHANGED <<dbVars, repVars, outVars>>

\* ... and ConfirmOperatorCA, an UPDATE that looks at nothing else.
ConfirmWrite(p) ==
  /\ req[p].pc = "confirm"
  /\ confirmedBy' = [confirmedBy EXCEPT ![req[p].ca] = req[p].sess]
  /\ req' = [req EXCEPT ![p] = NoRequest]
  /\ UNCHANGED <<closed, token, session, ca, firstAdmins, denylist, lock, repVars,
                 outVars>>

\* SubmitFirstAdminCertificate: Rebuild, the active row, its confirmation and
\* checkFirstAdmin.
SubmitCheck(p) ==
  LET q == req[p] IN
  /\ q.pc = "submit"
  /\ Issuer[q.cert] \in Active
  /\ confirmedBy[Issuer[q.cert]] = q.sess
  /\ q.cert \notin denied[q.at]
  /\ trust' = [trust EXCEPT ![q.at] = Active]
  /\ req' = [req EXCEPT ![p].pc = "earlier"]
  /\ UNCHANGED <<dbVars, up, latch, ticker, release, unprinted, denied, fails,
                 outVars>>

\* Variant: only the certificates of the same CA are superseded.
SupersedeReadSameCA(p) ==
  /\ req[p].pc = "earlier"
  /\ req' = [req EXCEPT ![p].pc = "supersede",
       ![p].todo = {c \in firstAdmins \ {req[p].cert} : Issuer[c] = Issuer[req[p].cert]}]
  /\ UNCHANGED <<dbVars, repVars, outVars>>

\* supersede: FirstAdminCredentials ...
SupersedeRead(p) ==
  /\ req[p].pc = "earlier"
  /\ req' = [req EXCEPT ![p].pc = "supersede", ![p].todo = firstAdmins \ {req[p].cert}]
  /\ UNCHANGED <<dbVars, repVars, outVars>>

\* ... then one Deny for each earlier certificate this replica does not know
\* to be denied; Deny writes the row and reloads this replica's denylist.
SupersedeDeny(p, c) ==
  LET q == req[p] IN
  /\ q.pc = "supersede" /\ c \in q.todo
  /\ req' = [req EXCEPT ![p].todo = @ \ {c}]
  /\ \/ c \in denied[q.at] /\ UNCHANGED <<denylist, denied>>
     \/ /\ c \notin denied[q.at]
        /\ denylist' = denylist \cup {c}
        /\ denied' = [denied EXCEPT ![q.at] = denylist']
  /\ UNCHANGED <<closed, token, session, ca, confirmedBy, firstAdmins, lock, up, latch, ticker,
                 release, unprinted, trust, fails, outVars>>

\* RecordFirstAdmin, an upsert that looks at nothing else.
RecordFirstAdmin(p) ==
  LET q == req[p] IN
  /\ q.pc = "supersede" /\ q.todo = {}
  /\ firstAdmins' = firstAdmins \cup {q.cert}
  /\ submitted' = submitted \cup {q.cert}
  /\ req' = [req EXCEPT ![p] = NoRequest]
  /\ UNCHANGED <<closed, token, session, ca, confirmedBy, denylist, lock, repVars,
                 console, printed, handed, faults, resets>>

\* A query of a request fails and ends it where it is.  The session that was
\* started before a failed issue still goes back to its client.
RequestFails(p) ==
  /\ req[p].pc # "idle" /\ faults < MaxFaults
  /\ faults' = faults + 1
  /\ handed' = IF req[p].pc = "issue" THEN handed \cup ({req[p].sess} \ {None}) ELSE handed
  /\ req' = [req EXCEPT ![p] = NoRequest]
  /\ UNCHANGED <<dbVars, repVars, console, printed, submitted, resets>>

-----------------------------------------------------------------------------
(* The specification.                                                      *)

ReplicaStep(r) == Tick(r) \/ TickLock(r) \/ TickIssue(r) \/ Banner(r)

ProcStep(p) ==
  \/ StartCommit(p) \/ IssueNext(p) \/ Refuse(p)
  \/ RegisterCommit(p) \/ RegisterRebuild(p)
  \/ ReconfirmRead(p) \/ ConfirmWrite(p)
  \/ SubmitCheck(p) \/ SupersedeRead(p) \/ RecordFirstAdmin(p)
  \/ \E c \in Certs : SupersedeDeny(p, c)

Call(p, r) ==
  \/ \E t \in Tokens : StartCall(p, r, t)
  \/ \E s \in Sessions, a \in CAs : RegisterCall(p, r, s, a) \/ ReconfirmCall(p, r, s, a)
  \/ \E s \in Sessions, c \in Certs : SubmitCall(p, r, s, c)

DatabaseError == (\E r \in Replicas : IssueFails(r)) \/ (\E p \in Procs : RequestFails(p))

Environment ==
  \/ \E r \in Replicas : Boot(r) \/ Poll(r) \/ Crash(r) \/ RefuseClosed(r) \/ ForgetFailures(r)
  \/ DatabaseError
  \/ \E r \in Replicas, c \in Certs : Observe(r, c)
  \/ \E p \in Procs, r \in Replicas : Call(p, r)
  \/ \E t \in Tokens : ExpireToken(t)
  \/ \E s \in Sessions : LapseSession(s)
  \/ LockLost \/ ResetLock \/ ResetProbe \/ ResetCommit

Next ==
  \/ \E r \in Replicas : ReplicaStep(r)
  \/ \E p \in Procs : ProcStep(p)
  \/ Environment

Spec == Init /\ [][Next]_vars

\* Every goroutine and every request a replica is serving makes progress while
\* the replica runs, the ticker of an open first run fires again and again,
\* a token's hour passes, and a replica that is down is started again (the
\* chart runs the manager as a Deployment).
Fairness ==
  /\ \A r \in Replicas : WF_vars(Tick(r)) /\ WF_vars(TickLock(r)) /\ WF_vars(TickIssue(r))
                         /\ WF_vars(Banner(r)) /\ WF_vars(Boot(r))
  /\ \A p \in Procs : WF_vars(ProcStep(p))
  /\ \A t \in Tokens : WF_vars(ExpireToken(t))

FairSpec == Spec /\ Fairness

-----------------------------------------------------------------------------
(* Safety.                                                                 *)

\* However token goroutines, session starts, tripped windows, crashes and a
\* lost lock connection interleave, at most one stored token is unused
\* (IssueBootstrapToken retires the others in the transaction that inserts).
OneUnusedToken == \A t, u \in Unused : t = u

\* Starting a session ends every earlier one, lapsed ones included, so at most
\* one session row is not ended (StartBootstrapSession).
OneOpenSession == \A s, u \in Open : s = u

\* A token starts at most one session, also when two requests present it at
\* the same time on two replicas (the conditional UPDATE of used_at).
SingleUse ==
  Cardinality({s \in Sessions : session[s] # "none"})
    =< Cardinality({t \in Tokens : token[t] \in {"used", "gone"}})

\* Once first run is closed no token is usable and no session is open: nothing
\* that was in flight when CloseBootstrap committed can leave one behind.
ClosedEndsAll == closed => Unused = {} /\ Open = {}

\* First run never trusts two operator CAs: a registration retires the others
\* in its own transaction (RegisterFirstRunOperatorCA).
OneActiveCA == \A a, b \in Active : a = b

\* No registration lands after the close: the operator CAs stay as they are
\* until the break-glass reset reopens first run (lockOpen).
ClosedFreezesTrust == [][closed /\ closed' => ca' = ca]_vars

\* Of the certificates submitted in first run at most one is not on the
\* denylist, also when requests crash halfway (supersede).
NewestFirstAdmin == \A c, d \in submitted \ denylist : c = d

-----------------------------------------------------------------------------
(* The inductive invariant of the proofs (FirstRun_proofs).                *)

\* A token goroutine and a request in progress belong to a running replica, a
\* session start carries its token and a submission its certificate, and a
\* break-glass command that has the lock is within the bound.
Placed ==
  /\ console # "off" => resets < MaxResets
  /\ \A r \in Replicas : ticker[r] # "off" => r \in up
  /\ \A p \in Procs : /\ req[p].pc # "idle" => req[p].at \in up
                      /\ req[p].pc = "start" => req[p].tok \in Tokens
                      /\ req[p].pc \in {"submit", "earlier", "supersede"} => req[p].cert \in Certs

Inv == OneUnusedToken /\ OneOpenSession /\ ClosedEndsAll /\ OneActiveCA

IndInv == TypeOK /\ Placed /\ Inv

-----------------------------------------------------------------------------
(* Liveness, under FairSpec.                                               *)

Readable == \E t \in printed : token[t] = "live"
Fresh == {t \in Tokens : token[t] = "none"}

\* While first run is open and some replica knows it to be open, a live token
\* can again be read in a log, whatever expired, crashed before its banner or
\* was used up (TickTokens keeps a token live).  Identities are the bound.
TokenReturns == ~closed ~> (closed \/ Readable \/ Fresh = {})

\* After the close no replica keeps the token lock, also the one whose tick took
\* it while first run was closing, so the lock never makes the break-glass
\* command refuse for good (onClose, and ensure's ErrBootstrapClosed).  An issue
\* that fails on the database instead of finding first run closed is excepted.
BreakGlassFree == closed ~> (lock \notin Replicas \/ faults > 0)

=============================================================================
