# TLA+ models of the Fleet Manager

The Fleet Manager runs as several identical replicas over one Postgres
database. It has no leader: replicas agree through rows, row locks, advisory
locks and two version counters that each of them polls. It decides who may sign
in (first run, operator CAs, revocation), what agents may do (MCP keys,
approvals) and what happens to CA nodes it reaches over the network. A mistake
there shows only when requests, replicas, polls, crashes, reboots and the clock
meet in an order that nobody wrote a test for, and that is what the models are
about.

## 1. The system's parts

| Part | State | Operations | What makes it correct | Module |
|---|---|---|---|---|
| First-run service (`internal/bootstrap/service.go`, `token.go`) | token and session rows, advisory lock, failure window, a goroutine per replica | issue, print, expire, start a session, count refusals, rotate after too many | one usable token, used once; one session; a token comes back as long as first run is open | `FirstRun` |
| First-run registration (`register.go`) | operator CA rows, the confirming session | register, reconfirm | one active CA; none changed after the close | `FirstRun` |
| First admin (`firstadmin.go`) | first-admin records, denylist | check, supersede, record | only the newest certificate can sign in | `FirstRun` |
| Latch (`latch.go`) | the closed row, a flag per replica | observe an admin request | the close is final and complete | `FirstRun` |
| Break-glass reset (`reset.go`) | advisory lock | lock, probe, reset | does not run beside a manager; leaves nothing usable | `FirstRun` |
| Operator CA management (`internal/fleet/operatorca_rpcs.go`) | operator CA rows | register, retire, set CRL source and OCSP mode | at most one active and one retiring, always one active | `OperatorCAs` |
| Trust store and its poll (`truststore.go`, `revocation.go`) | a trust generation and the last version per replica | load, rebuild, poll | every replica ends up trusting the rows | `OperatorCAs` |
| Revocation engine (`revocation.go`, `crl.go`, `fleet/operators.go`) | denylist, CRL row, epoch; a copy per replica | deny, upload or refresh a CRL, reload | no rollback; every replica enforces what is stored | `Revocation` |
| Admission and OCSP (`checkWeb`, `checkMCP`, `ocsp.go`, `ocspclient.go`, `lru.go`) | OCSP cache, running fetches, the poll's age | check a request, fetch, refresh, poll | a revocation or denial is heeded within its bound | `Admission` |
| CRL sources and refresher (`registration.go`, `anchor.go`, `resolve.go`, `refresh.go`, `fetch.go`) | CRL row with the last attempt, advisory lock, schedule and backoff | register, change the source, fetch when due, back off, record | a new CRL is in use on every replica in time | `CRLRefresh` |
| Approvals and step-up (`internal/approval`, `internal/mcpserver`, `fleet/approvals.go`) | approval rows with expiry | raise, decide, spend, run the tool | an approval runs one operation, the one it was raised for | `StepUp`, `OneShot` |
| MCP keys and OAuth (`internal/mcpauth`, `internal/oauth`) | keys, login requests, codes | authorize, consent, redeem, mint, resolve, revoke | a login mints one key, for who asked, as consented | `McpLogin` |
| Credential requests and sightings (`fleet/credreqs.go`, `certcheck.go`, `observed.go`) | requests, credential rows, a queue and an LRU per replica | file, cancel, expire, record, observe | one certificate per request; sightings lose nothing | `Credentials` |
| Nodes (`fleet/adopt.go`, `linknode.go`, `enrollment.go`, `nodes.go`, `nodeid.go`, `removenode.go`, `decommission.go`, `nodetrust.go`, `internal/nodeclient`) | inventory, name history, enrollments, credential files, the machines | adopt, link, enroll, rename, remove, decommission, confirm a fingerprint | an adoption can be retried, and ends if its node answers; only confirmed pins; names stay traceable | `Nodes` |
| Node configuration (`fleet/config.go`, `protocols.go`, `profiles.go`) | the node's config, reboot tracker | apply, switch a protocol, apply a profile, probe | a switch changes what it says; the audit says what happened | `NodeConfig` |
| Node keys (`fleet/rekey.go`, `escrow.go`, `certs.go`) | CA identities, envelopes, certificate lists | re-key, export, restore, list, revoke | a re-key keeps the issuer; a revoked certificate is listed so | `NodeKeys` |
| Start and audit log (`cmd/manager`, migrations, seed, `AddAuditEvent`) | migrations, seed, server certificate, the hash chain | connect, migrate, seed, serve, append | replicas agree and come up; one unforked chain | `Startup` |
| Levels (`internal/authz`) | none | compare | | `Levels` |

`PROJECT.json` lists all parts with their files and status, and the hazards with
the line where each one bites.

How they interact: first run creates the first row of `operator_cas` and the
first-admin records; every later operator CA write and every denial goes
through the fleet API of some replica. A write changes rows, then updates the
memory of the replica that served it. Other replicas learn of it from the poll
(every 5 s), which compares the row count and newest `updated_at` of
`operator_cas` and the revocation epoch with what it saw last. A certificate is
accepted on a replica by that replica's trust generation, its revocation copy
and its OCSP cache; an MCP key is accepted by the certificate that owns it. A
tool call that needs a person raises an approval, which an operator decides in
the web UI, and then runs the same handler the web UI would. Handlers about a
node read from it, work out a change and send it, with nothing locked between.

What is hard about it: handlers run several transactions or node calls with
nothing held between them; values read before a transaction are used after it;
a poll's read, install and remember are separate steps beside a writer's own
install; a replica can lose its lock connection without noticing; a crash can
fall between any two of these; cached answers outlive what they were about.

## 2. Modules

| Module | Content |
|---|---|
| `Levels` | access levels, and `None` |
| `FirstRun`, `MCFirstRun`, `FirstRun_proofs` | first run over the database; eight theorems |
| `OperatorCAs`, `MCOperatorCAs`, `OperatorCAs_proofs` | rotation, retirement, settings and the trust poll; four theorems |
| `Revocation`, `MCRevocation`, `Revocation_proofs` | denylist, CRL row, epoch and the revocation poll; four theorems |
| `OneShot` | abstract: what a step-up approval promises |
| `StepUp` | approvals and the tools they let run, implementing `OneShot` |
| `McpLogin` | login, keys and their check |
| `Mcp_proofs` | three theorems of `StepUp`, two of `McpLogin` |
| `Credentials`, `Credentials_proofs` | credential requests and sightings; four theorems |
| `Admission` | the web and MCP decisions with OCSP and the poll |
| `CRLRefresh` | CRL sources and the refresher |
| `Guard_proofs` | five theorems of `Admission`, two of `CRLRefresh` |
| `Nodes`, `MCNodes` | inventory, adoption, enrollment |
| `NodeConfig` | a node's configuration |
| `NodeKeys` | CA keys and certificate lists |
| `Fleet_proofs` | five theorems of `Nodes`, three of `NodeConfig`, three of `NodeKeys` |
| `Startup`, `Startup_proofs` | starting replicas and the audit chain; three theorems |
| `MCTrust` | `OperatorCAs`, `Revocation` and `Startup` for TLC |
| `MCAccess` | `StepUp`, `McpLogin` and `Credentials` for TLC |
| `MCGuard` | `Admission`, `CRLRefresh`, `NodeConfig` and `NodeKeys` for TLC |

Conventions. Variables are grouped into the database, each replica's memory,
and the requests. A request occupies a slot; its `pc` names the next
transaction, node call or file write it runs. One action is one of those, or
one read or install in memory, together with everything the code does up to the
next point where somebody else may act. A definition introduced by "Variant" is
an altered form of the one after it, used to show that a property notices that
mistake; no specification uses it. `MCTrust`, `MCAccess` and `MCGuard` put
components that share no state into one run: a behaviour picks its `part` at
the start and moves only that one, so the run explores the sum of the parts and
not their product. What such components could do to one another is what
their models already let the outside do (a certificate stops being admitted in
`McpLogin`, a key changes its level in `StepUp`, a denial arrives in
`Admission`).

### FirstRun

* Rows. `token`, `session` and `ca` hold row states. A token or session that
  the close or a reset deletes becomes `gone`, as random identities do not
  come back. Every token, session and registration transaction starts with
  `lockOpen`, a `SELECT ... FOR UPDATE` of the latch row; so does the close.
  Each of them is therefore one step with `~closed` as its guard.
  `ConfirmOperatorCA`, `RecordFirstAdmin` and the denials do not take that
  lock and have no such guard.
* Replica. `Boot`, `Tick`, `TickLock`, `TickIssue` and `Banner` are the token
  goroutine: `Start`, the 30 s ticker with its latch read, `holdLock` with the
  live-token read, the issue, the print. `release` is the replica's belief that
  it holds the lock and `lock` is the database's; `LockLost` separates them.
  `Poll` is the whole trust and revocation poll in one step; the other two
  modules have its parts.
* Requests. `StartCall`/`StartCommit`/`IssueNext` are
  `StartBootstrapSession`; `RegisterCall`/`RegisterCommit`/`RegisterRebuild`
  and `ReconfirmCall`/`ReconfirmRead`/`ConfirmWrite` are the two paths of
  `RegisterOperatorCA`; `SubmitCall`/`SubmitCheck`/`SupersedeRead`/
  `SupersedeDeny`/`RecordFirstAdmin` are `SubmitFirstAdminCertificate`.
  `Refuse` and `Fail` are the refusals, which count in the global window and
  rotate the token when they trip it.
* Close and reset. `Observe` is an admin certificate that passed the checks of
  a replica. `ResetLock`, `ResetProbe` and `ResetCommit` are the break-glass
  command; it probes `HostReplica` only, as the command does with its one
  listen address.
* Faults. `Crash`, `LockLost`, `IssueFails` and `RequestFails`, together at most
  `MaxFaults`.

### OperatorCAs

A write is two steps: the statements, which take row locks and read
`clock_timestamp()` for `updated_at` (`Rotate`, `Retire`, `Set`), and `Commit`.
The handler's check (`RegisterCall`, `RetireCall`, `SetCall`) is a step before
them and `applyTrustChange` (`Apply`) one after. `gen` is the trust generation
of a replica, `last` is `Poller.last`. `setting` stands for the CRL and OCSP
columns and is named by the write that set it, so any two writes differ. Rows
are never deleted, so the set of rows stands for their count.

### Revocation

One issuer, since every row and every map is keyed by the issuer. A CRL is its
number: `AcceptNewer` compares the CRL number and falls back to `thisUpdate`,
and both make one order. `Reload` is four steps (read the denylist, install
it, read the CRLs, install them and remember the epoch); `Deny` and `StoreCRL`
are a transaction and then their own install. `bumpEpoch` is part of the
commit: the epoch row's lock is held from there on and orders the
transactions. `rowLock` is the lock `SELECT ... FOR UPDATE` takes on the CRL
row, when there is a row. `RecordAttempt` is a refresh that left a row without
a CRL. The URL refresher runs under its own advisory lock, so overlapping CRL
writers are uploads and path reads beside it.

### StepUp and OneShot

`Receive` to `Spend` are one tool call: the key is resolved, the summary is
made, the gate raises an approval or looks at the one presented (`Use`), and
`UseApproval` spends it with one conditional update (`Spend`) before the
operation runs. `DecideRead` and `DecideCommit` are `Service.Decide`, whose row
is read in one statement and updated conditionally in another. All seven
step-up operations are there (`RunProfile`, `SetAdapterEnabled`,
`RevokeCertificate`, `ApplyRead`/`ApplyPush`, `IssueCheck`/`IssueLeaf`), since
what an approval is worth depends on when they read what they act on. `OneShot`
is the promise without keys, digests and clocks: none, pending, approved or
denied, used, and one operation after that. `Promise` maps a row to its status
and the history to how often it ran.

### McpLogin

`/authorize`, the consent page, the token endpoint and `Mint` are one step per
store call, over `oauth_requests`, `oauth_codes` and `mcp_keys`. A code travels
through the browser to a loopback port and any client there may present it; the
PKCE verifier is knowing which client asked. `Resolve` takes the key's row and
its owner's certificate as they are at that moment; `TouchMcpKey` audits a first
use.

### Credentials

A store method is one transaction; recording is a read, a check that may ask an
OCSP responder, and a transaction that re-checks. Sightings: `Observe` is the
send to the queue and then `seen.put`, with the worker free to run in between;
`raced` records that window, for as long as a call that is in it or an entry it
left can hold a sighting back. The queue drops what does not fit, the LRU (a
sequence with the most recent first) evicts from its end.

### Admission

One replica, one certificate, time in ticks. A check runs `checkWeb` or
`checkMCP`; an OCSP answer comes from the cache, from a fetch another check
started, or from its own, and is used or kept by the lifetimes of
`ocspclient.go`. An answer says what the responder knew when it was made, which
may be up to `PreSigned` before it is fetched (`Says`): `validate` asks that
`thisUpdate` is not in the future and `nextUpdate` not in the past, and a
response without a nonce is accepted. `HasCRL` is whether the CA has a CRL
source, for the refusal without one. The poll reads the version, rebuilds,
reloads and marks its time in separate steps, any of which may fail.

### CRLRefresh

Registration and source changes check what `registration.go`, `anchor.go` and
`resolve.go` check, over the facts they look at (`Uploads`). Each replica's
refresher has its due time, backoff and attempt; a fetch happens under the
advisory lock of the CRL and may outlive the lock's connection. Durations are
kept as what is left of them, so the state space stays finite without an end
of time. `steady` counts the ticks in which nothing changed and nothing failed,
and `Bound` says how many of them are enough for the newest CRL to be in use
everywhere: an attempt less than half an interval old lets one refresh be
skipped (`recentlyRefreshed`), then comes an interval with its jitter, a fetch, and
the poll of the others.

### Nodes

Machines are in maintenance mode, installing, rebooting or running; an impostor
may answer at an address. `AdoptNode` to `RegisterAdd` are the adoption's
goroutine, one action per file write, node call or store call; `AdoptCrash` may
end it after any, `AdoptTimeout` where the code has a timer. `NodeSilent` is a
node that keeps its connection and does not answer: the calls have no deadline,
so the adoption waits in them (`Answers`). LINK and SUBORDINATE enrollments,
renames, removals and decommissions work on the same tables and folders. A
SUBORDINATE approval is the ferry, one action per call: `FindParent`,
`GetSubordinateCSR`, `SignChildCSR`, `SubmitSubordinateCertificate`, `KeepChain`
(the chain file, whose failure is only logged) and `RecordChild` (the inventory
entry as it was read). It may stop after each, and other requests run between
them; `ferried` remembers to whom an enrollment's certificate was delivered.

### NodeConfig and NodeKeys

Read, change, apply, as separate steps, two requests at a time. In `NodeConfig`
the tracker of pending reboots and the audit rows are history the properties
compare with what the node really took. In `NodeKeys` a node is found by the
common name on a certificate, so a rename or a re-key between two looks
matters.

### Startup

Connect within the window, migrate, seed, choose or store the server
certificate, serve. The configuration file is part of it because it decides
which replicas come up at all and which of them share the stored certificate. A
transaction of another replica is invisible until it commits. A replica that is
migrating when the database stops retries within its window or exits. Audit writers take the chain's advisory lock, read the last row and
insert.

## 3. Runs

The first seven runs check for deadlock. The others set `CHECK_DEADLOCK FALSE`:
their clocks, ids and edits are bounded, so a behaviour may use them up and end.

| Run | Bounds | Properties | Result |
|---|---|---|---|
| `FirstRunTokens` | 2 replicas, 2 requests, 2 tokens, 2 sessions, 1 CA, 1 certificate, window of 2 refusals | `TypeOK`, `OneOpenSession`, `SingleUse` | holds |
| `FirstRunAdmin` | 2 replicas, 1 request, 2 tokens, 2 sessions, 2 CAs, 2 certificates, 1 reset, 1 fault | `NewestFirstAdmin`, `ClosedFreezesTrust` | holds |
| `FirstRunLive` | 2 replicas, 1 request, 2 tokens, 1 session, 1 CA, 1 certificate, 1 fault, fair | `OneUnusedToken`, `ClosedEndsAll`, `TokenReturns`, `BreakGlassFree` | holds |
| `FirstRunRace` | 1 replica, 2 requests | `NewestFirstAdmin` | violated |
| `OperatorCAsMissed` | 2 replicas, 2 requests, 2 CAs, 3 writes | `NothingMissed` | violated |
| `OperatorCAsStale` | 1 replica, 2 requests, 2 CAs, 4 writes | `ActiveKept` | violated |
| `RevocationDeny` | 1 replica, 2 writers, 2 serials | `DenylistCurrent` | violated |
| `Trust` | CAs: 2 replicas, 1 write at a time, 2 CAs, 3 writes, 1 fault; or 2 rotations at a time, 3 CAs, 1 replica. Revocation: 2 replicas, 1 writer at a time, 1 serial, 1 CRL, 1 fault; or 2 uploads at a time, 2 CRLs, 1 replica. Startup: 2 replicas, 5 configurations, 2 audit writers, 1 crash or outage. Fair | `OneOfEach`, `ActiveKept`, `NothingMissed`, `DenylistCurrent`, `CRLCurrent`, `NoRollback`, `CopiesConverge`, `ChainUnforked`, `StartedAlike`, `StartsEventually` | holds |
| `Access` | StepUp: 1 approval, 2 calls, 2 deciders, 2 keys, 7 tools, 1 tick, 1 edit. McpLogin: 1 login, 2 keys, 2 clients, 2 URIs, 1 fault. Credentials: 2 requests, 2 certificates, 2 recorders, 2 replicas, queue and cache of 1 | `RunsAsRaised`, `ImplementsOneShot`, `KeyAsConsented`, `CompletedByOne`, `KnownKept`, `SightingKept` | holds |
| `Guard` | Admission: 3 ticks, or 4 after a revocation, answers up to 1 tick old, 2 incidents. CRLRefresh: 2 replicas, 2 CRLs, 2 mishaps, both policies. NodeConfig: 2 requests, 2 protocols, 1 profile. NodeKeys: 3 nodes, 2 re-keys at once, 1 rename | `RevocationHeeded`, `OldAnswersDropped`, `CRLOwed`, `McpHeedsDenials`, `RefreshedInTime`, `EventsTrue`, `SwitchAlone`, `IssuerKept`, `RevokedShown` | holds |
| `Nodes` | 1 running machine, 1 to adopt, 2 names, 1 enrollment, an impostor; 1 adoption with 1 request at a time and a fault or a rename, or 2 requests at a time on the adopted machine with a fault and a rename. Fair | `RetrySafe`, `PinsConfirmed`, `NamesTraced`, `ApprovedAdmits`, `AdoptionWaitsOnNode` | holds |
| `AdoptionHangs` | 1 machine to adopt, 1 adoption, 1 fault, fair | `AdoptionEnds` | violated |

What they show, and why the bounds are enough:

* `FirstRunTokens`: two requests on two replicas present the same token, start
  sessions and register while the token expires, the session lapses or an admin
  request closes first run. Two tokens and two sessions give one superseded and
  one live of each, which is what the properties compare; a window of two
  refusals covers both branches of the failure count, the one that rotates the
  token beside the other request included.
* `FirstRunAdmin`: two operator CAs and a certificate of each, over two
  replicas whose trust and denylist copies are from different moments.
  `NewestFirstAdmin` holds for one request at a time also when the second
  certificate comes from another CA and another replica, after the break-glass
  command has reopened first run, or after a fault has stopped a supersede
  halfway. After a fault one replica runs at a time (`FaultAlone`): the retry of
  a stopped submission needs no second one.
* `FirstRunLive`: a crash, a lost lock connection or a database error at every
  point, with another replica to carry on. One fault is enough to stop any
  request halfway, to make two replicas believe they hold the lock, and to leave
  an issue for after the close, where it must find first run closed. After an expiry, a crash before the banner, a failed issue or
  a use, a token that can be read in a log comes back; and a replica whose tick
  took the lock while first run was closing gives it up. Token identities are
  the bound, hence `Fresh = {}` in `TokenReturns`; two of them cover a token
  that goes and the next one.
* `Trust`: one API write at a time, with the poll's read, a write between it
  and the rebuild, and a crash or error before the writer's own rebuild. Three
  writes are a rotation, a retirement and one more behind an earlier version; a
  denial and a CRL make two epochs. With two writers at once `NothingMissed`,
  `ActiveKept` and `DenylistCurrent` fail (the violation runs), while
  `OneOfEach` and `NoRollback` have to hold. Two more parts are for them, on one
  replica, as only the database keeps writers apart. In `rotations` two
  registrations of different CAs overlap at every step, with a third CA retiring
  or not and a crash between the statements and the commit. In `uploads` two
  CRLs of different numbers are stored at once over a recorded one, so each
  order of the row lock, the check and the commit occurs; a stored CRL is in use
  before the next one commits (`InTurn`), as section 7 says what happens
  otherwise. The theorems have `OneOfEach` and `NoRollback` for any number of
  writers, and the others for one writer at a time, with
  any number of replicas, CAs, serials, CRLs, writes and faults. Two starting
  replicas meet at every migration, seed and certificate step; one crash or
  outage falls on either of them.
* `Access`: two calls present one approval while two operators decide it, the
  clock reaches its expiry and the profile or a key is edited; a second key
  tries an approval that is not its own. Calls and approvals in flight are of
  one tool at a time (`OneTool`) and two keys meet only before the clock and
  the edits move (`FewKeys`), and once something was edited one operator decides
  at a time (`FewDeciders`; a decision reads the row alone): tools differ in level, arguments and effect, and
  no step compares two of them but `Matches`, which the theorems cover for
  all mixes. Two clients race for one login's code, two certificates fit two
  requests, two replicas queue sightings; `FewSightings` and `FewRecorders` let
  recordings meet the sightings of one replica, and two replicas' sightings meet
  each other. The symmetry permutes calls, deciders and both kinds of keys,
  which the specification never tells apart.
* `Guard`: every lifetime is one or two ticks, so each pair of them (answer and
  fetch, failure and retry, poll and age) is reached in both orders within three
  ticks. `RevocationHeeded` allows an answer's age, a fetch and a lifetime, one
  tick, one tick and two, so it needs the part that runs for four ticks after a
  revocation (`answers`). The refresh interval is two ticks; the bound that `RefreshedInTime`
  names depends on it, and `NewestInTime` proves it for every interval (its
  inductive invariant was also checked with intervals of 3 and 4, and at 4 one
  tick less is violated). Two mishaps are an outage and a crash, or a lost lock beside a source
  change. Two configuration requests on two protocols, one profile; a root, an
  intermediate and a fresh node with two re-keys, so that the parent's key
  changes while the child waits for it.
* `Nodes`: one machine that is linked by hand and one that is adopted, with a
  removal, a rename, a decommission and an enrollment between an adoption's
  steps, a fault after any of them, a node that stops answering and answers
  again or not, and a retry. `RetrySafe` is about one adoption and one request
  at a time (section 5). The part `requests` starts where an adoption has left a
  subordinate that waits for its certificate, and lets two requests overlap: a
  ferry, stopped after any of its calls, beside a second approval, a rejection,
  a rename or a removal of its child. The other three invariants are proved for
  any number of requests and adoptions.
* `AdoptionHangs`: one adoption whose node stops answering once.

## 4. Fairness

Weak fairness is assumed for what the code's own scheduling gives:

* the steps of a request and of the goroutines: they run while the process does,
  and every query has an end;
* `Tick` and the polls: `Service.Start` and `Poller.Run` loop over a ticker (30 s
  and 5 s) and carry on after an error;
* `Boot`, `TrustBoot` and `StartStep`: the chart runs the manager as a
  Deployment, which restarts it; a lock's holder that crashes loses its
  connection and with it the lock;
* `DatabaseStarts`: an outage of the database ends (`Trust` only);
* `ExpireToken`: an hour passes;
* `AdoptSteps`: the adoption's goroutine goes on, and the waits for the reboot
  and for the operator have timeouts. A node call is enabled only while the node
  answers, so no answer is assumed.

Nothing is assumed of clients, admins, agents, nodes, the break-glass command,
refusals or faults; faults are bounded, so they end. Weak fairness is enough, as
each of these steps stays enabled until it is taken or overtaken by one that has
the same effect. `FirstRun` has these conditions in `FairSpec`, `MCTrust` in
`CopyFairness` (each guarded by the part that moves and its bounds), `MCNodes` in
`Spec`.

## 5. Proofs

Eight modules hold the theorems. Each proves `Spec => []IndInv` for an
inductive invariant of its own (initial states, one lemma per action or group
of actions, and what follows), for every value of the constants that satisfies
the named assumptions: any number of replicas, requests, rows, faults and ticks.
The assumptions say that constants have their types, that lifetimes, sizes and
intervals are not zero where the code's defaults are not, and that the absent
value `None` is not a row. TLC evaluates all of them, and TLC has also checked
every inductive invariant on an instance of its module.

`FirstRun_proofs`: `TypeCorrect` (`TypeOK`, which includes the bound of the
failure window), `CloseIsComplete` (`ClosedEndsAll`), `TokenUnique`
(`OneUnusedToken`), `SessionUnique` (`OneOpenSession`), `ActiveUnique`
(`OneActiveCA`), `TrustFrozen` (`ClosedFreezesTrust`), `TokensAreSingleUse`
(`SingleUse`) and, with one request at a time, `OneFirstAdmin`
(`NewestFirstAdmin`).

* The inductive invariant is `IndInv == TypeOK /\ Placed /\ Inv`. `Placed` is
  needed for the types alone: a request in progress sits on a running replica
  (otherwise its refusal would count in the window of no replica), a session
  start has its token and a submission its certificate, and a reset in progress
  is within its bound. `Inv` is the conjunction of the four invariants;
  `ClosedEndsAll` and the uniqueness of tokens and sessions lean on each other
  only through `CloseBootstrap` and `Issue`, so the lemmas `IssueKeeps`,
  `EndedAndDeleted`, `FailKeeps` and `Shrinks` do the work and each action cites
  the one it needs. The proof never uses `lock`: the advisory lock keeps two
  replicas from printing tokens at the same time, but it is the transaction of
  `IssueBootstrapToken` that keeps the token unique.
* `SingleUse` compares how many sessions were started with how many tokens were
  spent. `Counted` adds that both sets are finite; a step either starts no
  session, or starts one and spends one token (`Spends`).
* `OneFirstAdmin` needs `Superseding`: a replica's copy of the denylist has
  nothing that the denylist has not, and a submission still has to deny every
  usable earlier certificate. That stops being true when a second submission
  records its certificate in between, which `FirstRunRace` shows, so the
  theorem assumes that all requests use one slot.

`Revocation_proofs`: `TypeCorrect` (with `Asked`: a denial names a serial),
`AntiRollback` (`NoRollback`) and, with one writer at a time,
`DenylistFollowed` (`DenylistCurrent`) and `CRLFollowed` (`CRLCurrent`).

* `AntiRollback`: if a CRL row exists (`Recorded`), the stored CRL never gets
  older, for any number of overlapping writers, crashes and errors. The
  inductive invariant is `Decided`: a writer that `AcceptNewer` let through
  holds the row, and its CRL is still newer than the stored one. `Recorded` is
  a real condition: see section 7 for what happens without a row.
* The other two rest on `Copies`: while a poll runs its replica is behind the
  epoch; if no epoch was committed since the poll began, what it has read is
  what is stored (`Reading`); a replica that has seen the newest epoch has what
  is stored (`Synced`); and what the writer holds is what it found or left
  (`Writing`). The last is where a second writer does harm (`RevocationDeny`).

`OperatorCAs_proofs`: `TypeCorrect` (`CAsTypeOK`) and `RotationsExclude`
(`OneOfEach`) for any number of overlapping writes; `ActiveRemains`
(`ActiveKept`) and `NoChangeMissed` (`NothingMissed`) with one request at a time.

* Uniqueness is not inductive as it stands, since a write is decided on before
  it commits. The strengthening (`Separate`, `Shaped`, `Alone`) says that two
  writes in progress have no row in common, that what a write brings is one of
  the forms the statements make, and that a rotation in progress holds the only
  row it could clash with.
* `Serial` adds what one request at a time gives: a retirement in progress is
  of a row that is still retiring (`Kept`), a write in progress is newer than
  every visible row (`Fresh`), and a replica that has seen the current version
  trusts the rows (`Watched`). Overlapping requests break the first two, which
  `OperatorCAsStale` and `OperatorCAsMissed` show.

`Mcp_proofs`, for any number of approvals, keys, calls, deciders, logins and
clients: of `StepUp`, `TypeCorrect`, `RunsOnlyAsRaised` (`RunsAsRaised`) and
`Implements` (`ImplementsOneShot`: `StepUp` refines `OneShot`); of `McpLogin`,
`LoginTypeCorrect` and `OneKeyAsConsented` (`KeyAsConsented`).

* `StepUp`: `Placed` says that requests in progress have what they need (a call
  that presents an approval names a raised one, a push holds a profile's body).
  `Inv` adds what the interleavings hinge on: `Spending`, the checks of `Use`
  still hold when the row is spent, though other steps came in between;
  `Holding` and `Apart`, a call that runs has spent its row and no other call
  runs under it; `RanOnce`. Steps are grouped by what they change (`CallMoves`,
  `RaiseMoves`, `DecisionMoves`, `UseMoves`, `RunMoves`), each shown once to
  keep the invariant; `MoveAllowed`, `RunAllowed` and `StutterAllowed` map them
  to steps of `OneShot`.
* `McpLogin`: what was consented to is carried unchanged from the request to
  the code, the handler and the key (`Carried`), and one thing at a time stands
  for a login: the handler that took it, its code or its key (`Single`). This is
  what the deletes that return the row they deleted are for: two clients that
  race for a code find it once. `UsedOnce` is about the first-use audit row.

`Credentials_proofs`: `CredentialsTypeCorrect`, `CompletedOnce`
(`CompletedByOne`), `SightingsTakeNothingBack` (`KnownKept`) and
`HeldBackIsKept` (`SightingKept`).

* `CompletedOnce`: requests and certificates name each other (`Naming`,
  `Named`), and what a recording checked before its transaction still fits
  there, as filed requests do not change their level and key (`Fitting`,
  `Unchanged`).
* `HeldBackIsKept`: every fresh cache entry and every `Observe` call in
  progress has its sighting in the table, in the queue or in `raced`
  (`EntriesKept`, `VisitsKept`), with one cache entry per certificate
  (`OneEntry`) so that a forgotten entry is really forgotten.

`Startup_proofs`: `StartupTypeCorrect`, `OneChain` (`ChainUnforked`) and
`OneSeedOneCertificate` (`StartedAlike`). Each rests on a lock held from a read
to a write: a writer that is about to append holds the hash of the newest row
(`Locking`, `Linking`); a seed in progress found the tables empty and they still
are (`Unseeded`), and after a removal nobody will find them so
(`StaysRemoved`); the reader of the server certificate has the stored one
(`Reading`).

`Guard_proofs`: of `Admission`, `AdmissionTypeCorrect`, `RevocationReachesWeb`
(`RevocationHeeded`), `McpSeesDenials` (`McpHeedsDenials`),
`OldResponderForgotten` (`OldAnswersDropped`) and `CRLNeverForgotten`
(`CRLOwed`), for all lifetimes and responders; of `CRLRefresh`,
`RefreshTypeCorrect` and `NewestInTime` (`RefreshedInTime`), for any interval of
at least two ticks, any jitter below it, any validity and number of replicas.

* `Admission`: an answer in the cache, in a fetch or in a check's hands is no
  older than its lifetime allows and, if good, was made before the revocation and
  so asked for at most `PreSigned` after it (`Answers`, `Clocks`). `PreSigned` is
  the responder's: a property of the manager alone would have no bound, as it
  sets none (section 7). A denial or a CRL that the replica lacks is
  one its next reload brings, as its epoch is behind (`Epochs`, `Denials`,
  `CRLs`), also if that denial arrived while the poll was reading. Only a change
  of the settings leaves a question to another responder (`Responders`).
* `CRLRefresh`: `Standing` is about the lease and what replicas that are not
  behind use. `Quiet` follows a quiet time tick by tick: after one tick every
  replica knows the source and fetches the newest CRL (`Told`, `Fetched`); a
  good attempt that missed it is as old as the quiet (`Aged`), so from half an
  interval on none is recent and every replica has a refresh under way or
  waits for one within the bound (`InTime`); `Settled` is the end. An interval
  with its jitter and a fetch is not enough: see section 7.

`Fleet_proofs`: of `NodeConfig`, `ConfigTypeCorrect`, `AuditedSwitchesTaken`
(`EventsTrue`) and `SwitchTouchesNoOther` (`SwitchAlone`); of `NodeKeys`,
`KeysTypeCorrect`, `RevocationsListed` (`RevokedShown`) and `RekeyKeepsIssuer`
(`IssuerKept`); of `Nodes`, `NodesTypeCorrect`, `OnlyConsolePinned`
(`PinsConfirmed`), `HistoryTraced` (`NamesTraced`), `ApprovedJoined`
(`ApprovedAdmits`) and, with one adoption and one request at a time,
`AdoptionRetries` (`RetrySafe`).

* `NodeConfig`: what a request is about to send has the switches it will audit
  and, for `SetNodeProtocol`, no other block (`Sent`, `Alone`), however old the
  config it was made from.
* `NodeKeys`: a re-key in progress carries the issuer its child is under, and
  its parent was found by that name (`Carries`); revocations known when a
  listing began still are (`Listing`).
* `Nodes`: what the operator is shown is what is pinned (`Awaiting`,
  `Adopting`), so a pin is of the machine's own certificate (`Genuine`). Names in
  the inventory are unique and every entry has one open span (`Tables`). A
  request that is about to approve holds a node that joined, with its
  certificate delivered under this enrollment if it has to have one (`Asking`,
  `Rows`), though the row was read before the ferry's calls and others write it.
* `AdoptionRetries` adds `RetryInv`. Until an adoption has minted its pair there
  is none under its name, and what it installs is the pair stored there
  (`Holds`), so a machine it installed can be reached with a stored pair
  (`Installed`). That lasts until a node is removed, as its files are then moved
  aside, so a removed node has to stay removed (`Removing`) and links have to
  write elsewhere (`Linking`). `OneByOne` is what the theorem assumes: one
  adoption at a time (two under one name overwrite each other's certificate),
  one request at a time (a `RecordChild` brings back a node that another request
  removes, before its files are moved aside), and no name that a linked machine
  and an adopted one may both have. TLC finds a counterexample without the
  first and without the second.

Every module states its types (`...TypeOK`), proved in all of them and not
repeated in a run but for `FirstRunTokens`, where the bound of the failure window
is part of the type. `OneActiveCA` is proved and not run.

Only model-checked: all liveness (`TokenReturns`, `BreakGlassFree`,
`CopiesConverge`, `StartsEventually`, `AdoptionWaitsOnNode`), which is out of the
prover's reach. `NewestFirstAdmin`, `ActiveKept`, `NothingMissed`,
`DenylistCurrent`, `CRLCurrent` and `RetrySafe` are proved for one request or
writer at a time and do not hold for more: four have a run that shows it, and
sections 5 and 7 say why for `CRLCurrent` and `RetrySafe`.

## 6. Findings

* `FirstRunRace`: two first-admin submissions at once can both stay usable,
  since the earlier records are read, denied and added to in separate
  transactions. The code's comment promises that only the newest can sign in.
* `OperatorCAsMissed`: `updated_at` is the time of the statement. A write that
  stamped earlier and commits later than another does not move the trust
  version, and a replica that polled in between does not load it.
* `OperatorCAsStale`: a retirement that was admitted while its row was retiring
  and stored after that row was retired and registered again retires the
  active operator CA.
* `RevocationDeny`: a denial's own reload reads before it locks, so it can put
  an older denylist over one that the poll has loaded; the epoch no longer
  differs, so a denied certificate is accepted on that replica until the next
  revocation.

* `AdoptionHangs`: none of the calls an adoption makes to its node has a
  deadline, and the connections have no keepalive. A node that stops answering
  in the middle of one, for example of the ceremony's stream, keeps the adoption
  waiting for as long as its client does; the comments say that an adoption
  never hangs. `AdoptionWaitsOnNode` is what does hold: nothing else keeps it.

## 7. Behaviours to know of

The models also show these, which no run is kept for:

* Confirmations, denials and first-admin records do not take the latch row. A
  request that passed its checks before the close completes its write after it.
* A replica whose trust store still has an operator CA that a later registration
  retired lets that CA's admin certificate close first run, for one poll.
* A registration checks its session at the start of the request; a session that
  was ended by a newer one meanwhile still registers.
* Without a CRL row there is nothing to lock: two writers of the first CRL both
  pass the anti-rollback check, and the older one may be stored last.
* `StoreCRL` puts its CRL in use after its transaction. Two calls on one replica
  can do so in the other order than they committed, with a poll in between;
  the older CRL then stays in use until the next epoch.
* A poll that read the denylist before a denial can install it after the
  denial's own reload; the next poll repairs it.
* A tick that takes the token lock while first run is closing and then fails on
  the database, rather than finding first run closed, keeps the lock until the
  process ends. The break-glass command refuses beside a running manager
  anyway; hence the `faults > 0` in `BreakGlassFree`.
* A call that applies a profile runs with the catalog's profile of that moment.
  If it was edited after the approval was raised, the approver read another
  body (`StepUp!RunsAsShown` does not hold; `internal/mcpserver/server.go:189`
  says the summary "describes exactly what the call will do").
* `cert_issue_from_csr` looks at the node's profile to decide whether a person
  has to approve; the node signs under the profile it carries when it is asked.
* A rename leaves the credential folder where it is, named after the old name. A
  node that takes that name later shares the folder (`Nodes!OwnFolder` does not
  hold; `docs/node-trust.md:354` says every later connection verifies the node
  with the stored files).
* `SetNodeProtocol` sends the blocks it read, without the other protocols, but
  with the profiles it read: a profile applied in between is lost
  (`NodeConfig!OnlyTheSwitch`; the comment at `protocols.go:147` promises
  nothing but the switch changes).
* `RekeyNode` recognises a root by comparing two names read at two moments; a
  rename between them lets a root be re-keyed under itself
  (`NodeKeys!RootKeptOut`; `rekey.go:112` says to refuse it).
* An OCSP fetch in flight when the settings change stores the old responder's
  answer afterwards, and an operator CA that was dropped and rotated back finds
  its old answers (`OldAnswersDropped` names both; `revocation.go:174` says the
  cached answers are dropped).
* `validate` accepts a response whose `thisUpdate` is any time ago, as long as
  its `nextUpdate`, if any, is to come, and one without a nonce
  (`docs/operator-ca.md:103-104`). How long a revocation goes unheeded depends on
  how old the answers are that the responder serves (`PreSigned`).
* A ferry whose chain file cannot be written is approved all the same, with the
  failure in the log: the manager then refuses the node's new certificate until
  somebody sets its chain.
* A worker that fails to write a sighting before `Observe` has marked it leaves
  the certificate unwritten for an hour (`raced` in `SightingKept`).
* A replica that crashes right after a good attempt leaves the attempt on
  record. Another replica that comes up to half an interval later skips its own
  refresh as recently done and waits a whole interval, so a CRL published just
  after that attempt is in use an interval and a half later, not one
  (`Bound` in `CRLRefresh`).
* The denylist is not looked at again after the wait for an OCSP answer.
* Two adoptions of one machine under two names each install a credential, and
  only the last is trusted; under one name, they overwrite each other's
  certificate. `RetrySafe` is about one at a time.
* A name that was free when `LINK` checked it may be taken by the time `AddNode`
  replaces the entry of that name.
* `UpdateEnrollment` reads without a lock: an approval and a rejection at once
  both succeed, and the later one stands.
* `RecordChild` writes back the inventory entry it read before the ferry; a node
  removed in between comes back into the inventory, without its files.
* A seed that looked before a removal was recorded inserts the node after it.
* Two switches of one protocol may record their pending reboot in the other
  order than they were applied.

## 8. Abstractions

* In `FirstRun`, what makes an upload or a certificate acceptable (X.509 checks,
  preview digests, fingerprints typed by the user) is a nondeterministic
  refusal. In `CRLRefresh`, `Admission` and `Credentials` it is a predicate over
  the facts the code looks at, given as records; parsing them out of DER is not
  modelled.
* Digests, PKCE challenges, key secrets and fingerprints are the identity of
  what they are taken of. Hashes of the audit chain are the row they cover.
* Previews, listings and connectivity tests are reads. The per-client limiter
  only turns requests away. Audit rows are left out but for those a property is
  about.
* The latch row and the epoch row exist from the migration on.
* A refusal for lack of revocation data does not count in the failure window,
  as in the code; it changes nothing and has no action.
* In `OperatorCAs` the CRL that a registration or a source change stores is left
  out, and with it the `Reload` of `applyTrustChange`; `Revocation` has the
  storing, and `Admission` has a CA that is trusted before its CRL is loaded
  (`CRLOwed`).
* One profile, one adapter, one certificate and one node stand for all in
  `StepUp`, one certificate in `Admission`, one node in `NodeConfig`: the code
  keys every row and every map by them.
* External to the repository and modelled from how it is used: Postgres (row
  and advisory locks, snapshots of committed rows), the OCSP responder (with the
  age of what it serves) and CRL server, the node's install, boot, signing and key services, the browser and
  the MCP client.

## 9. Not modelled

* The generated API (`gen/`, more than a third of all lines), the store's test
  suite (`storetest`), demo data and the in-memory store, which stands in for
  the tables in tests.
* The catalog of profile templates, error codes, list and status RPCs, health
  endpoints, flags, TLS listeners and session tickets: reads, constants or I/O.
* `nodecawatch`, which compares two sets of certificates and logs.
* `VerifyPeer`'s cache of verified chains: what it decides is X.509 path
  validation, and the models have no intermediate certificates.
* The web UI, `opext` and the command-line helpers.

## 10. Plan

1. Abstract specifications: first run as a latch that opens and closes with at
   most one token and one session; a CRL register whose value only grows. The
   theorems of `FirstRun_proofs` and `AntiRollback` are what their refinement
   needs.
2. A composition of `OperatorCAs` and `Revocation` with a registration that
   stores its CRL, beyond what `Admission` says of one replica.
3. `VerifyPeer`'s cache with chains of more than one certificate.
