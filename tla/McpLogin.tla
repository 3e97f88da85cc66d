------------------------------ MODULE McpLogin ------------------------------
(***************************************************************************)
(* MCP keys: the browser login that mints one (internal/oauth), the web    *)
(* UI's own minting and revocation (internal/mcpauth/keys.go and the       *)
(* FleetService RPCs) and the check of a key on every request (resolver    *)
(* and middleware), over the oauth_requests, oauth_codes and mcp_keys      *)
(* tables.                                                                 *)
(*                                                                         *)
(* Every replica serves every step.  A handler takes one step per store    *)
(* call.  A code travels through the operator's browser to a loopback      *)
(* port, so any client on that machine may present it; only the client     *)
(* that asked knows the PKCE verifier.                                     *)
(***************************************************************************)
EXTENDS Levels, FiniteSets

CONSTANTS
  Logins,      \* login requests; a code is named by the login it came from
  McpKeys,     \* key ids
  Clients,     \* MCP clients on the operator's machine
  URIs,        \* redirect URIs a client may name
  Loopback,    \* those to 127.0.0.1, [::1] or localhost
  LoginCerts,       \* operator certificates
  LoginHandlers,    \* slots for HTTP requests
  CertLevel,   \* the level each certificate carries
  RequestTTL,  \* requestTTL and codeTTL, in ticks
  CodeTTL,
  MaxLoginClock,   \* bound: the clock
  MaxLoginFaults   \* bound: crashes, and certificates losing or regaining admission

ASSUME McpLoginAssumption ==
  /\ Loopback \subseteq URIs
  /\ CertLevel \in [LoginCerts -> Levels]
  /\ RequestTTL \in Nat \ {0} /\ CodeTTL \in Nat \ {0}
  /\ MaxLoginClock \in Nat /\ MaxLoginFaults \in Nat
  /\ None \notin Logins \cup McpKeys \cup Clients \cup LoginCerts \cup LoginHandlers \cup Nat

VARIABLES
  loginClock,
  oauthRequests, oauthCodes, mcpKeys,
  admitted,    \* certificates that pass the chain, validity and revocation checks now
  handler,
  consent,     \* history: what the operator decided on each login
  firstUses,   \* history: mcp-key-first-used audit rows
  loginFaults

loginTables == <<oauthRequests, oauthCodes, mcpKeys>>
loginVars == <<loginClock, loginTables, admitted, handler, consent, firstUses, loginFaults>>

Owner == [cert : LoginCerts, ceiling : Levels \cup {None}]
OAuthRequest == [client : Clients, uri : URIs, exp : Nat]
OAuthCode == [client : Clients, uri : URIs, owner : Owner, exp : Nat]
McpKey == [owner : Owner, login : Logins \cup {None}, holder : Clients \cup {None},
           revoked : BOOLEAN, used : BOOLEAN]
Consent == [state : {"none", "asked", "denied", "given"}, client : Clients \cup {None},
            uri : URIs \cup {None}, owner : Owner \cup {None}]
NotAsked == [state |-> "none", client |-> None, uri |-> None, owner |-> None]
Handler == [pc : {"idle", "code", "mint", "add", "touch", "revoke"},
            login : Logins \cup {None}, client : Clients \cup {None}, uri : URIs \cup {None},
            owner : Owner \cup {None}, key : McpKeys \cup {None}]
NoHandler == [pc |-> "idle", login |-> None, client |-> None, uri |-> None, owner |-> None, key |-> None]

\* None stands for no row, so it is not one, nor a value of a column.
ASSUME RowAssumption == None \notin OAuthRequest \cup OAuthCode \cup McpKey \cup Owner \cup URIs

\* Types, and that no login has a pending request and a code at once: the
\* request is taken before its code is stored.
LoginTypeOK ==
  /\ loginClock \in 0..MaxLoginClock
  /\ oauthRequests \in [Logins -> OAuthRequest \cup {None}]
  /\ oauthCodes \in [Logins -> OAuthCode \cup {None}]
  /\ mcpKeys \in [McpKeys -> McpKey \cup {None}]
  /\ admitted \subseteq LoginCerts
  /\ handler \in [LoginHandlers -> Handler]
  /\ consent \in [Logins -> Consent]
  /\ firstUses \in [McpKeys -> Nat]
  /\ loginFaults \in 0..MaxLoginFaults
  /\ \A q \in Logins : oauthRequests[q] = None \/ oauthCodes[q] = None

LoginInit ==
  /\ loginClock = 0
  /\ oauthRequests = [q \in Logins |-> None]
  /\ oauthCodes = [q \in Logins |-> None]
  /\ mcpKeys = [k \in McpKeys |-> None]
  /\ admitted = LoginCerts
  /\ handler = [h \in LoginHandlers |-> NoHandler]
  /\ consent = [q \in Logins |-> NotAsked]
  /\ firstUses = [k \in McpKeys |-> 0]
  /\ loginFaults = 0

Start(h, s) == handler[h].pc = "idle" /\ handler' = [handler EXCEPT ![h] = s]
Done(h) == handler' = [handler EXCEPT ![h] = NoHandler]

\* A ceiling may not be above the operator's own level; none means that level.
Allowed(owner) == owner.ceiling \in {None} \cup Viewer..CertLevel[owner.cert]

-----------------------------------------------------------------------------
(* The login.                                                              *)

\* register stores nothing: the client_id is the registration itself, so it
\* may be one this server never issued, and decodeClientID checks it again.
ClientID(uris) == uris # {} /\ uris \subseteq Loopback

\* AddOAuthRequest drops the OAuth state that has expired first.
Unexpired(rows) == [q \in Logins |-> IF rows[q] # None /\ rows[q].exp < loginClock THEN None ELSE rows[q]]
AddOAuthRequest(q, row) ==
  /\ oauthRequests' = [Unexpired(oauthRequests) EXCEPT ![q] = row]
  /\ oauthCodes' = Unexpired(oauthCodes)

\* authorize stores a pending request under a fresh id, for one of the
\* client's own redirect URIs.
Authorize(q, client, uris, uri) ==
  /\ consent[q].state = "none"
  /\ ClientID(uris) /\ uri \in uris
  /\ consent' = [consent EXCEPT ![q].state = "asked"]
  /\ AddOAuthRequest(q, [client |-> client, uri |-> uri, exp |-> loginClock + RequestTTL])
  /\ UNCHANGED <<loginClock, mcpKeys, admitted, handler, firstUses, loginFaults>>

\* consentDecide up to TakeOAuthRequest: the request is deleted before its
\* expiry is looked at (pending), and a denial stores nothing.
ConsentDecide(h, q, owner, approve) ==
  /\ owner.cert \in admitted /\ Allowed(owner)
  /\ oauthRequests[q] # None
  /\ handler[h].pc = "idle"
  /\ oauthRequests' = [oauthRequests EXCEPT ![q] = None]
  /\ LET r == oauthRequests[q] IN
     IF loginClock >= r.exp THEN UNCHANGED <<handler, consent>>
     ELSE IF ~ approve THEN consent' = [consent EXCEPT ![q].state = "denied"] /\ UNCHANGED handler
     ELSE /\ consent' = [consent EXCEPT ![q] =
               [state |-> "given", client |-> r.client, uri |-> r.uri, owner |-> owner]]
          /\ Start(h, [NoHandler EXCEPT !.pc = "code", !.login = q, !.owner = owner,
                                   !.client = r.client, !.uri = r.uri])
  /\ UNCHANGED <<loginClock, oauthCodes, mcpKeys, admitted, firstUses, loginFaults>>

\* AddOAuthCode, and the code goes to the browser.
AddOAuthCode(h) ==
  /\ handler[h].pc = "code"
  /\ oauthCodes' = [oauthCodes EXCEPT ![handler[h].login] =
       [client |-> handler[h].client, uri |-> handler[h].uri, owner |-> handler[h].owner,
        exp |-> loginClock + CodeTTL]]
  /\ Done(h)
  /\ UNCHANGED <<loginClock, oauthRequests, mcpKeys, admitted, consent, firstUses, loginFaults>>

\* The checks on client_id, redirect_uri and the verifier: a client that did
\* not ask cannot answer the challenge.
Redeems(client, row) == loginClock < row.exp /\ client = row.client

\* Variant: the row stays until it expires.
ReadOAuthCode(q) == UNCHANGED oauthCodes

\* TakeOAuthCode deletes and returns the row in one statement.
TakeOAuthCode(q) == oauthCodes' = [oauthCodes EXCEPT ![q] = None]

\* token up to its checks: the code is gone whatever they say.
Token(h, q, client) ==
  /\ handler[h].pc = "idle"
  /\ oauthCodes[q] # None
  /\ TakeOAuthCode(q)
  /\ IF Redeems(client, oauthCodes[q])
     THEN Start(h, [NoHandler EXCEPT !.pc = "mint", !.login = q, !.owner = oauthCodes[q].owner,
                                !.client = client])
     ELSE UNCHANGED handler
  /\ UNCHANGED <<loginClock, oauthRequests, mcpKeys, admitted, consent, firstUses, loginFaults>>

-----------------------------------------------------------------------------
(* Keys.                                                                   *)

\* CreateMcpKey: an operator certificate, never a key, asks for one directly.
CreateMcpKey(h, owner) ==
  /\ owner.cert \in admitted
  /\ Start(h, [NoHandler EXCEPT !.pc = "mint", !.owner = owner])
  /\ UNCHANGED <<loginClock, loginTables, admitted, consent, firstUses, loginFaults>>

\* Mint: the ceiling against the owner's level, then Admit ...
Mint(h) ==
  /\ handler[h].pc = "mint"
  /\ IF Allowed(handler[h].owner) /\ handler[h].owner.cert \in admitted
     THEN handler' = [handler EXCEPT ![h].pc = "add"]
     ELSE Done(h)
  /\ UNCHANGED <<loginClock, loginTables, admitted, consent, firstUses, loginFaults>>

\* ... then AddMcpKey stores the hash; the client gets the key itself.
AddMcpKey(h, k) ==
  /\ handler[h].pc = "add"
  /\ mcpKeys[k] = None
  /\ mcpKeys' = [mcpKeys EXCEPT ![k] =
       [owner |-> handler[h].owner, login |-> handler[h].login, holder |-> handler[h].client,
        revoked |-> FALSE, used |-> FALSE]]
  /\ Done(h)
  /\ UNCHANGED <<loginClock, oauthRequests, oauthCodes, admitted, consent, firstUses, loginFaults>>

\* Revoke: the key's own certificate or an admin; a revoked key ends here.
MayRevoke(cert, row) == ~ row.revoked /\ (cert = row.owner.cert \/ CertLevel[cert] = Admin)

\* RevokeMcpKey, called with an operator certificate and never with a key.
RevokeKey(h, k, cert) ==
  /\ cert \in admitted
  /\ mcpKeys[k] # None /\ MayRevoke(cert, mcpKeys[k])
  /\ Start(h, [NoHandler EXCEPT !.pc = "revoke", !.key = k])
  /\ UNCHANGED <<loginClock, loginTables, admitted, consent, firstUses, loginFaults>>

\* RevokeMcpKey keeps the first revocation time of a revoked key.
RevokeMcpKey(h) ==
  /\ handler[h].pc = "revoke"
  /\ mcpKeys' = [mcpKeys EXCEPT ![handler[h].key].revoked = TRUE]
  /\ Done(h)
  /\ UNCHANGED <<loginClock, oauthRequests, oauthCodes, admitted, consent, firstUses, loginFaults>>

\* validate: the key is not revoked (none is minted with an expiry) and its
\* certificate passes the live checks.
Valid(row) == ~ row.revoked /\ row.owner.cert \in admitted

\* Resolve reads the key by its hash and validates it; the request then acts
\* at the lower of its certificate's level and its ceiling.
Resolve(h, k) ==
  /\ mcpKeys[k] # None /\ Valid(mcpKeys[k])
  /\ Start(h, [NoHandler EXCEPT !.pc = "touch", !.key = k])
  /\ UNCHANGED <<loginClock, loginTables, admitted, consent, firstUses, loginFaults>>

\* TouchMcpKey reports a first use from the value it replaced, in one
\* statement; the first use is audited.
FirstUse(h) == ~ mcpKeys[handler[h].key].used
TouchMcpKey(h) ==
  /\ handler[h].pc = "touch"
  /\ mcpKeys' = [mcpKeys EXCEPT ![handler[h].key].used = TRUE]
  /\ firstUses' = IF FirstUse(h) THEN [firstUses EXCEPT ![handler[h].key] = @ + 1] ELSE firstUses
  /\ Done(h)
  /\ UNCHANGED <<loginClock, oauthRequests, oauthCodes, admitted, consent, loginFaults>>

-----------------------------------------------------------------------------
LoginTick ==
  /\ loginClock < MaxLoginClock
  /\ loginClock' = loginClock + 1
  /\ UNCHANGED <<loginTables, admitted, handler, consent, firstUses, loginFaults>>

\* The replica serving a request stops: what it had taken is lost.
HandlerCrash(h) ==
  /\ handler[h].pc # "idle" /\ loginFaults < MaxLoginFaults
  /\ loginFaults' = loginFaults + 1
  /\ Done(h)
  /\ UNCHANGED <<loginClock, loginTables, admitted, consent, firstUses>>

\* A certificate is denied, revoked, expires, or its CA's CRL goes stale; or
\* its CA's CRL is fresh again.
Admission(cert) ==
  /\ loginFaults < MaxLoginFaults
  /\ loginFaults' = loginFaults + 1
  /\ admitted' = IF cert \in admitted THEN admitted \ {cert} ELSE admitted \cup {cert}
  /\ UNCHANGED <<loginClock, loginTables, handler, consent, firstUses>>

LoginNext ==
  \/ LoginTick
  \/ \E cert \in LoginCerts : Admission(cert)
  \/ \E q \in Logins, client \in Clients, uris \in SUBSET URIs, uri \in URIs :
       Authorize(q, client, uris, uri)
  \/ \E h \in LoginHandlers :
       \/ \E q \in Logins, owner \in Owner, approve \in BOOLEAN : ConsentDecide(h, q, owner, approve)
       \/ \E q \in Logins, client \in Clients : Token(h, q, client)
       \/ \E owner \in Owner : CreateMcpKey(h, owner)
       \/ \E k \in McpKeys, cert \in LoginCerts : RevokeKey(h, k, cert)
       \/ \E k \in McpKeys : AddMcpKey(h, k) \/ Resolve(h, k)
       \/ AddOAuthCode(h) \/ Mint(h) \/ RevokeMcpKey(h) \/ TouchMcpKey(h) \/ HandlerCrash(h)

LoginSpec == LoginInit /\ [][LoginNext]_loginVars

-----------------------------------------------------------------------------
(* Properties.                                                             *)

\* A login mints at most one key, held by the client that asked for it, bound
\* to the certificate that consented, under the ceiling it chose and sent to a
\* loopback port: two consents, two redemptions of a code, another client with
\* the code, a client_id this server never issued or a crash in between never
\* make a second key or a different one.  However many requests race to be the
\* first with it, its first use is audited once (consentDecide, token, Mint,
\* TouchMcpKey).
KeyAsConsented ==
  /\ \A k \in McpKeys : mcpKeys[k] # None /\ mcpKeys[k].login # None =>
       LET c == consent[mcpKeys[k].login] IN
       /\ c.state = "given"
       /\ mcpKeys[k].owner = c.owner /\ mcpKeys[k].holder = c.client /\ c.uri \in Loopback
  /\ \A j, k \in McpKeys : j # k /\ mcpKeys[j] # None /\ mcpKeys[k] # None =>
       mcpKeys[j].login = None \/ mcpKeys[j].login # mcpKeys[k].login
  /\ \A k \in McpKeys : firstUses[k] <= 1
=============================================================================
