------------------------------- MODULE Accounts -------------------------------
(***************************************************************************)
(* Sessions of the dashboard: login with the upgrade of an old password     *)
(* hash, registration, the cookie that is minted from a bearer token, the   *)
(* tokens that are revoked at logout, the gates before pages and endpoints, *)
(* and the audit row of a granted request.                                  *)
(*                                                                         *)
(* One account, one browser with several tabs, and whoever else still holds *)
(* a token of the account.  A request runs on a thread of the server; what  *)
(* is between two calls of the database is one step.                        *)
(***************************************************************************)
EXTENDS Naturals, Sequences

CONSTANTS
    HttpThreads,
    Modes,         \* bound on RBAC_MODE: "warn", "enforce"
    Uses,          \* bound on what is used beside each other, after a login
    Roles,         \* roles an account may have
    AllowedRoles,  \* require_roles of an endpoint
    SessionLife,   \* JWT_ACCESS_TOKEN_MINUTES
    AuditWindow,   \* _RBAC_GRANTED_AUDIT_INTERVAL_S
    MaxTokens, MaxChanges, AccountHorizon,   \* bounds on tokens, on what others do, on time
    NoToken, NoAudit

ASSUME AccountAssumption ==
    /\ {SessionLife, AuditWindow, MaxTokens, MaxChanges, AccountHorizon} \subseteq Nat
    /\ AllowedRoles \subseteq Roles /\ "user" \in Roles /\ Modes \subseteq {"warn", "enforce"}
    /\ "enforce" \in Modes /\ Uses \subseteq SUBSET {"login page", "page", "logout", "member", "api"}
    /\ NoToken \notin Nat /\ NoAudit \notin Nat

VARIABLES
    minute,
    mode,       \* RBAC_MODE
    uses,       \* what is used in this behaviour
    account,    \* the row of users: none, or its role, the password and how it is hashed
    tokens,     \* the tokens issued, in order
    browser,    \* the token of localStorage and the cookie
    revoked,    \* _REVOKED_JTIS
    ended,      \* history: the tokens revoked since the process started
    throttle,   \* _rbac_granted_audit_written_at
    traced,     \* history: when the last row of a granted request was written; the first could not be
    changes,    \* how much others have done
    request     \* what a thread does

accountVars == <<minute, mode, uses, account, tokens, browser, revoked, ended, throttle, traced, changes, request>>

Minutes == 0..AccountHorizon
TokenIds == 1..MaxTokens
NoAccount == [role |-> "none", password |-> 0, hash |-> "none"]
NoRequest == [pc |-> "idle", kind |-> "none", token |-> NoToken, role |-> "none", password |-> 0,
              held |-> {}, granted |-> FALSE, sent |-> FALSE, calm |-> TRUE]

AccountsTypeOK ==
    /\ minute \in Minutes /\ mode \in Modes /\ uses \in Uses
    /\ account \in [role : Roles, password : 0..MaxChanges, hash : {"bcrypt", "scrypt"}] \cup {NoAccount}
    /\ Len(tokens) <= MaxTokens
    /\ \A i \in 1..Len(tokens) : tokens[i] \in [expires : 1..(AccountHorizon + SessionLife), role : Roles]
    /\ browser \in [bearer : TokenIds \cup {NoToken}, cookie : TokenIds \cup {NoToken}]
    /\ revoked \subseteq TokenIds /\ ended \subseteq TokenIds
    /\ throttle \in Minutes \cup {NoAudit}
    /\ traced \in [at : Minutes \cup {NoAudit}, lost : BOOLEAN] /\ changes \in 0..MaxChanges
    /\ request \in [HttpThreads ->
          [pc : {"idle", "upgrades", "issues", "mints", "enters", "looks", "peeks", "marks", "writes",
                 "view", "shown", "bounced", "revokes"},
           kind : {"none", "login", "session", "page", "member", "api", "logout"},
           token : TokenIds \cup {NoToken}, role : Roles \cup {"none"}, password : 0..MaxChanges,
           held : SUBSET Roles, granted : BOOLEAN, sent : BOOLEAN, calm : BOOLEAN]]

AccountsInit ==
    /\ minute = 0 /\ uses \in Uses /\ mode \in (IF "api" \in uses THEN Modes ELSE {"enforce"})
    /\ account \in [role : Roles, password : {0}, hash : {"bcrypt", "scrypt"}] \cup {NoAccount}
    /\ tokens = <<>> /\ browser = [bearer |-> NoToken, cookie |-> NoToken]
    /\ revoked = {} /\ ended = {} /\ throttle = NoAudit
    /\ traced = [at |-> NoAudit, lost |-> FALSE] /\ changes = 0
    /\ request = [w \in HttpThreads |-> NoRequest]

-----------------------------------------------------------------------------
(* Tokens. *)

\* create_access_token.
Issues(role) == tokens' = Append(tokens, [expires |-> minute + SessionLife, role |-> role])
Issued == Len(tokens) + 1
CanIssue == Len(tokens) < MaxTokens

\* A token is admitted while it is not expired and not revoked (verify_jwt_in_request,
\* check_if_token_revoked).
Admitted(t) == t # NoToken /\ minute < tokens[t].expires /\ t \notin revoked

\* A form with a plausible bug: it keeps what has expired, and drops the rest.
KeptExpired(t) == {k \in revoked : minute >= tokens[k].expires} \cup {t}

\* _revoke_jti drops what has expired meanwhile.
KeptRevoked(t) == {k \in revoked : minute < tokens[k].expires} \cup {t}

MovesOn(w, pc) == request' = [request EXCEPT ![w].pc = pc]
Answered(w) == request' = [request EXCEPT ![w] = NoRequest]
Idle(w) == request[w].pc = "idle"
HeldRoles == IF account = NoAccount THEN {} ELSE {account.role}
Asked(kind, pc, token) ==
    [NoRequest EXCEPT !.pc = pc, !.kind = kind, !.token = token, !.held = HeldRoles]

-----------------------------------------------------------------------------
(* Login and registration. *)

\* verify_and_rehash_password of the right password: an old hash is replaced.
NeedsUpgrade == account.hash = "bcrypt"

\* authenticate_user reads the row; without it, with a wrong password or without a database the
\* answer is a refusal.
LoginReads(w) ==
    /\ Idle(w) /\ CanIssue /\ account # NoAccount
    /\ request' = [request EXCEPT ![w] =
          [NoRequest EXCEPT !.pc = IF NeedsUpgrade THEN "upgrades" ELSE "issues",
                            !.kind = "login", !.role = account.role, !.password = account.password]]
    /\ UNCHANGED <<minute, mode, uses, account, tokens, browser, revoked, ended, throttle, traced, changes>>

\* A new hash of the password that was given replaces the old one, whatever the row holds by now;
\* a failure is passed over.
LoginUpgrades(w) ==
    /\ request[w].pc = "upgrades"
    /\ \/ account' = [account EXCEPT !.password = request[w].password, !.hash = "scrypt"]
       \/ UNCHANGED account
    /\ MovesOn(w, "issues")
    /\ UNCHANGED <<minute, mode, uses, tokens, browser, revoked, ended, throttle, traced, changes>>

\* The answer of a login: the browser keeps the token in localStorage and as a cookie.
LoginIssues(w) ==
    /\ request[w].pc = "issues" /\ CanIssue
    /\ Issues(request[w].role)
    /\ browser' = [bearer |-> Issued, cookie |-> Issued]
    /\ Answered(w)
    /\ UNCHANGED <<minute, mode, uses, account, revoked, ended, throttle, traced, changes>>

\* create_user with its token; an email that is registered is refused.
NewAccount == [role |-> "user", password |-> 0, hash |-> "scrypt"]
Registers ==
    /\ account = NoAccount /\ CanIssue
    /\ account' = NewAccount
    /\ Issues("user")
    /\ browser' = [bearer |-> Issued, cookie |-> Issued]
    /\ UNCHANGED <<minute, mode, uses, revoked, ended, throttle, traced, changes, request>>

-----------------------------------------------------------------------------
(* The browser. *)

\* The login page, opened with a token in localStorage, verifies it and asks for a cookie before
\* it goes on; a token that is not admitted is forgotten.
OpensLogin(w) ==
    /\ Idle(w) /\ "login page" \in uses /\ browser.bearer # NoToken
    /\ IF Admitted(browser.bearer)
       THEN /\ request' = [request EXCEPT ![w] = Asked("session", "mints", browser.bearer)]
            /\ UNCHANGED browser
       ELSE browser' = [browser EXCEPT !.bearer = NoToken] /\ UNCHANGED request
    /\ UNCHANGED <<minute, mode, uses, account, tokens, revoked, ended, throttle, traced, changes>>

\* A form with a plausible bug: no cookie is set.
MintsNothing(w) ==
    /\ request[w].pc = "mints"
    /\ request' = [request EXCEPT ![w] = [Asked("page", "enters", @.token) EXCEPT !.sent = TRUE]]
    /\ UNCHANGED <<minute, mode, uses, account, tokens, browser, revoked, ended, throttle, traced, changes>>

\* api_auth_session copies the claims into a new token, the cookie, and the page navigates.
MintsCookie(w) ==
    /\ request[w].pc = "mints" /\ CanIssue
    /\ Issues(tokens[request[w].token].role)
    /\ browser' = [browser EXCEPT !.cookie = Issued]
    /\ request' = [request EXCEPT ![w] = [Asked("page", "enters", Issued) EXCEPT !.sent = TRUE]]
    /\ UNCHANGED <<minute, mode, uses, account, revoked, ended, throttle, traced, changes>>

\* A page opened directly.
OpensPage(w) ==
    /\ Idle(w) /\ "page" \in uses /\ browser.cookie # NoToken
    /\ request' = [request EXCEPT ![w] = Asked("page", "enters", browser.cookie)]
    /\ UNCHANGED <<minute, mode, uses, account, tokens, browser, revoked, ended, throttle, traced, changes>>

\* To the login page, without the cookie: the other pages under way may miss it.
Bounces(w) ==
    /\ browser' = [browser EXCEPT !.cookie = NoToken]
    /\ request' = [v \in HttpThreads |-> IF v = w THEN [request[w] EXCEPT !.pc = "bounced"]
                                          ELSE [request[v] EXCEPT !.calm = FALSE]]

\* _ui_auth_required: the cookie the browser sends by now.
EntersPage(w) ==
    /\ request[w].pc = "enters"
    /\ IF Admitted(browser.cookie) THEN MovesOn(w, "looks") /\ UNCHANGED browser ELSE Bounces(w)
    /\ UNCHANGED <<minute, mode, uses, account, tokens, revoked, ended, throttle, traced, changes>>

\* The logout button: the bearer token decides what is revoked; without one that is admitted
\* nothing is, and the browser forgets both.
Forgets == browser' = [bearer |-> NoToken, cookie |-> NoToken]
Unsettles(w, r) ==
    request' = [v \in HttpThreads |-> IF v = w THEN r ELSE [request[v] EXCEPT !.calm = FALSE]]
LogsOut(w) ==
    /\ Idle(w) /\ "logout" \in uses /\ browser # [bearer |-> NoToken, cookie |-> NoToken]
    /\ IF Admitted(browser.bearer)
       THEN /\ request' = [request EXCEPT ![w] = Asked("logout", "revokes", browser.bearer)]
            /\ UNCHANGED browser
       ELSE Forgets /\ Unsettles(w, NoRequest)
    /\ UNCHANGED <<minute, mode, uses, account, tokens, revoked, ended, throttle, traced, changes>>

Revokes(w) ==
    /\ request[w].pc = "revokes"
    /\ revoked' = KeptRevoked(request[w].token)
    /\ ended' = ended \cup {request[w].token}
    /\ Forgets /\ Unsettles(w, NoRequest)
    /\ UNCHANGED <<minute, mode, uses, account, tokens, throttle, traced, changes>>

-----------------------------------------------------------------------------
(* The gates. *)

\* A request of whoever holds a token, to an endpoint with roles or for subscribers.
CallsEndpoint(w, kind, t) ==
    /\ Idle(w) /\ kind \in uses /\ Admitted(t)
    /\ request' = [request EXCEPT ![w] = Asked(kind, "looks", t)]
    /\ UNCHANGED <<minute, mode, uses, account, tokens, browser, revoked, ended, throttle, traced, changes>>

\* _subscription_required_ui, _admin_required_ui: a lookup that fails is like an account that is
\* not there.
LooksForPage(w) ==
    /\ request[w].pc = "looks" /\ request[w].kind = "page"
    /\ \/ account # NoAccount /\ MovesOn(w, "shown") /\ UNCHANGED browser
       \/ /\ browser' = [browser EXCEPT !.cookie = NoToken]
          /\ request' = [v \in HttpThreads |->
                [request[v] EXCEPT !.calm = FALSE, !.pc = (IF v = w THEN "bounced" ELSE @)]]
    /\ UNCHANGED <<minute, mode, uses, account, tokens, revoked, ended, throttle, traced, changes>>

\* require_active_subscription: served, told to pay, or told to log in.
LooksForMember(w) ==
    /\ request[w].pc = "looks" /\ request[w].kind = "member"
    /\ Answered(w)
    /\ UNCHANGED <<minute, mode, uses, account, tokens, browser, revoked, ended, throttle, traced, changes>>

\* require_roles: both the claim and the row must have a role that is allowed; who has not is
\* served all the same where the roles are only watched.
Authorized(w) == tokens[request[w].token].role \in AllowedRoles /\ account.role \in AllowedRoles

\* A form with a plausible bug: the claim of the token is enough.
LooksForClaim(w) ==
    /\ request[w].pc = "looks" /\ request[w].kind = "api"
    /\ IF tokens[request[w].token].role \in AllowedRoles
       THEN request' = [request EXCEPT ![w].pc = "peeks", ![w].granted = TRUE]
       ELSE IF mode = "enforce" THEN Answered(w) ELSE MovesOn(w, "view")
    /\ UNCHANGED <<minute, mode, uses, account, tokens, browser, revoked, ended, throttle, traced, changes>>

LooksForRole(w) ==
    /\ request[w].pc = "looks" /\ request[w].kind = "api"
    /\ \/ Answered(w)   \* the lookup fails
       \/ Authorized(w) /\ request' = [request EXCEPT ![w].pc = "peeks", ![w].granted = TRUE]
       \/ ~Authorized(w) /\ IF mode = "enforce" THEN Answered(w) ELSE MovesOn(w, "view")
    /\ UNCHANGED <<minute, mode, uses, account, tokens, browser, revoked, ended, throttle, traced, changes>>

\* _should_write_rbac_granted_audit: the look at the throttle and its write are two steps.
Throttled == throttle # NoAudit /\ minute - throttle < AuditWindow
PeeksThrottle(w) ==
    /\ request[w].pc = "peeks"
    /\ MovesOn(w, IF Throttled THEN "view" ELSE "marks")
    /\ UNCHANGED <<minute, mode, uses, account, tokens, browser, revoked, ended, throttle, traced, changes>>

MarksThrottle(w) ==
    /\ request[w].pc = "marks"
    /\ throttle' = minute
    /\ MovesOn(w, "writes")
    /\ UNCHANGED <<minute, mode, uses, account, tokens, browser, revoked, ended, traced, changes>>

\* _write_security_audit: a failure is logged only.
WritesAudit(w) ==
    /\ request[w].pc = "writes"
    /\ \/ traced' = [at |-> minute, lost |-> FALSE]
       \/ traced' = [traced EXCEPT !.lost = TRUE]
    /\ MovesOn(w, "view")
    /\ UNCHANGED <<minute, mode, uses, account, tokens, browser, revoked, ended, throttle, changes>>

Serves(w) ==
    /\ request[w].pc \in {"view", "shown", "bounced"} /\ Answered(w)
    /\ UNCHANGED <<minute, mode, uses, account, tokens, browser, revoked, ended, throttle, traced, changes>>

-----------------------------------------------------------------------------
(* Others. *)

\* An operator gives the account another role; the start of another process gives it a new password.
ChangesRole(role) ==
    /\ account # NoAccount /\ changes < MaxChanges /\ role # account.role
    /\ changes' = changes + 1 /\ account' = [account EXCEPT !.role = role]
    /\ request' = [w \in HttpThreads |->
          [request[w] EXCEPT !.held = (IF Idle(w) THEN {} ELSE @ \cup {role})]]
    /\ UNCHANGED <<minute, mode, uses, tokens, browser, revoked, ended, throttle, traced>>

RotatesPassword ==
    /\ account # NoAccount /\ changes < MaxChanges
    /\ changes' = changes + 1
    /\ account' = [account EXCEPT !.password = changes', !.hash = "scrypt"]
    /\ UNCHANGED <<minute, mode, uses, tokens, browser, revoked, ended, throttle, traced, request>>

\* The process ends: the revoked tokens and the throttle are forgotten, and the requests lost.
HttpRestarts ==
    /\ changes < MaxChanges /\ changes' = changes + 1
    /\ revoked' = {} /\ ended' = {} /\ throttle' = NoAudit
    /\ request' = [w \in HttpThreads |-> NoRequest]
    /\ UNCHANGED <<minute, mode, uses, account, tokens, browser, traced>>

AccountTime ==
    /\ minute < AccountHorizon /\ minute' = minute + 1
    /\ UNCHANGED <<mode, uses, account, tokens, browser, revoked, ended, throttle, traced, changes, request>>

AccountsNext ==
    \/ \E w \in HttpThreads :
        \/ LoginReads(w) \/ LoginUpgrades(w) \/ LoginIssues(w) \/ OpensLogin(w) \/ MintsCookie(w)
        \/ OpensPage(w) \/ EntersPage(w) \/ LogsOut(w) \/ Revokes(w)
        \/ \E kind \in {"api", "member"}, t \in 1..Len(tokens) : CallsEndpoint(w, kind, t)
        \/ LooksForPage(w) \/ LooksForMember(w) \/ LooksForRole(w)
        \/ PeeksThrottle(w) \/ MarksThrottle(w) \/ WritesAudit(w) \/ Serves(w)
    \/ Registers \/ RotatesPassword \/ HttpRestarts \/ AccountTime
    \/ \E role \in Roles : ChangesRole(role)

AccountsSpec == AccountsInit /\ [][AccountsNext]_accountVars

-----------------------------------------------------------------------------
\* A token that was revoked stays revoked until it expires, whatever is revoked after it; only a
\* new process forgets (_revoke_jti).
EndedStaysEnded ==
    \A t \in ended : minute < tokens[t].expires => t \in revoked

\* A request is granted only to a token that claims an allowed role and to an account that had one
\* at a moment of the request; where the roles are enforced, nothing else is served (require_roles).
GrantedByRole ==
    \A w \in HttpThreads : request[w].kind = "api" /\ request[w].pc = "view" =>
        /\ mode = "enforce" => request[w].granted
        /\ request[w].granted => /\ tokens[request[w].token].role \in AllowedRoles
                                 /\ request[w].held \cap AllowedRoles # {}

\* Granted requests go without a row of their own only while one is there since the throttle was
\* set, is being written, or could not be (_should_write_rbac_granted_audit).
GrantsTraced ==
    throttle # NoAudit =>
        \/ traced.lost
        \/ traced.at # NoAudit /\ traced.at >= throttle
        \/ \E w \in HttpThreads : request[w].pc = "writes"

\* A browser that the login page sent on comes back to it only when the lookup failed, another tab
\* logged out or lost the cookie, or the token's life was over (api_auth_session: "makes a
\* login<->dashboard redirect loop structurally impossible").
BouncesExplained ==
    \A w \in HttpThreads : request[w].pc = "bounced" /\ request[w].sent /\ request[w].calm =>
        minute >= tokens[request[w].token].expires

\* The sessions of the dashboard together (api_auth_login, api_auth_session, api_auth_logout,
\* require_roles, _ui_auth_required).
AccountsSound == EndedStaysEnded /\ GrantedByRole /\ GrantsTraced /\ BouncesExplained

\* Not kept, and in no run: a password that was replaced does not come back.  A login that read the
\* row before writes its own hash after (authenticate_user).
RotationKept == [][account # NoAccount => account'.password >= account.password]_accountVars
=============================================================================
