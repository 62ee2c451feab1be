---------------------------- MODULE SophosClient ----------------------------
(***************************************************************************)
(* The client of Sophos Central that everything shares: one token, and the *)
(* tenant and the data region it belongs to, which every request carries.  *)
(* A call that finds no valid token logs in first, so several calls may    *)
(* log in at once, and every save of the settings drops what is cached,    *)
(* also while a login is being answered.                                   *)
(***************************************************************************)
EXTENDS Integers, FiniteSets

CONSTANTS
    Accounts,      \* accounts of Sophos Central: credentials, tenant, region
    NoAccount,     \* nothing cached
    SophosCalls,   \* concurrent calls
    MaxSaves, MaxSophosCalls  \* bounds

ASSUME SophosClientAssumption ==
    NoAccount \notin Accounts /\ MaxSaves \in Nat /\ MaxSophosCalls \in Nat

VARIABLES
    credentials, \* the account the settings name
    preset,      \* whether the settings name its tenant too
    session,     \* what SophosClient has cached
    calls,       \* the progress of each call
    crossed,     \* whether a save has met a login that was being answered
    saves, started  \* bounds: saves, calls

sophosVars == <<credentials, preset, session, calls, crossed, saves, started>>

Known == Accounts \cup {NoAccount}
NoCall == [pc |-> "idle"]

\* __init__: nothing is cached; the tenant may come from the settings.
Blank(account) ==
    [token |-> NoAccount, fresh |-> FALSE, resolved |-> FALSE, region |-> NoAccount,
     tenant |-> IF preset THEN account ELSE NoAccount]

\* Mutant: the tenant and the region of the account before are kept.
ForgottenToken(account) == [session EXCEPT !.token = NoAccount, !.fresh = FALSE]

\* reload
Forgotten(account) == Blank(account)

SophosTypeOK ==
    /\ credentials \in Accounts /\ preset \in BOOLEAN /\ crossed \in BOOLEAN
    /\ session \in [token : Known, tenant : Known, region : Known,
                    fresh : BOOLEAN, resolved : BOOLEAN]
    /\ \A c \in SophosCalls : calls[c].pc \in {"idle", "login", "whoami", "sent"}
    /\ saves \in 0..MaxSaves /\ started \in 0..MaxSophosCalls

SophosInit ==
    /\ credentials \in Accounts /\ preset \in BOOLEAN
    /\ session = Blank(credentials)
    /\ calls = [c \in SophosCalls |-> NoCall]
    /\ crossed = FALSE /\ saves = 0 /\ started = 0

\* _ensure_auth
NeedsLogin == session.token = NoAccount \/ ~session.fresh

\* _auth_headers and _base_url, of a call that began under an account.
Sent(account, s) ==
    [pc |-> "sent", of |-> account, first |-> TRUE,
     token |-> s.token, tenant |-> s.tenant, region |-> s.region]

LoggingIn(account) == [pc |-> "login", of |-> account]

\* Any method: with a valid token the request is sent at once.
CallStart(c) ==
    /\ calls[c] = NoCall
    /\ started < MaxSophosCalls /\ started' = started + 1
    /\ calls' = [calls EXCEPT ![c] =
         IF NeedsLogin THEN LoggingIn(credentials) ELSE Sent(credentials, session)]
    /\ UNCHANGED <<credentials, preset, session, crossed, saves>>

\* _authenticate has its token; the first of a session asks who it is.
LoggedIn(c) ==
    /\ calls[c].pc = "login"
    /\ session' = [session EXCEPT !.token = calls[c].of, !.fresh = TRUE]
    /\ calls' = [calls EXCEPT ![c] =
         IF session.resolved THEN Sent(@.of, session') ELSE [@ EXCEPT !.pc = "whoami"]]
    /\ UNCHANGED <<credentials, preset, crossed, saves, started>>

\* _resolve_whoami keeps a tenant that is known already.
Identified(c) ==
    /\ calls[c].pc = "whoami"
    /\ session' = [session EXCEPT
         !.tenant = IF @ = NoAccount THEN calls[c].of ELSE @,
         !.region = calls[c].of, !.resolved = TRUE]
    /\ calls' = [calls EXCEPT ![c] = Sent(@.of, session')]
    /\ UNCHANGED <<credentials, preset, crossed, saves, started>>

\* Either request fails after its retries: a token that was stored stays.
LoginFails(c) ==
    /\ calls[c].pc \in {"login", "whoami"}
    /\ calls' = [calls EXCEPT ![c] = NoCall]
    /\ UNCHANGED <<credentials, preset, session, crossed, saves, started>>

\* One resource: read, created, changed or deleted; 404 reads as nothing.
ResourceAnswered(c) ==
    /\ calls[c].pc = "sent"
    /\ calls' = [calls EXCEPT ![c] = NoCall]
    /\ UNCHANGED <<credentials, preset, session, crossed, saves, started>>

\* A list goes on page by page under the headers of its first request; a
\* search of the quarantine takes those of the session, as it is by now.
NextSearchPage(c) ==
    /\ calls[c].pc = "sent"
    /\ calls' = [calls EXCEPT ![c] = [Sent(@.of, session) EXCEPT !.first = FALSE]]
    /\ UNCHANGED <<credentials, preset, session, crossed, saves, started>>

Crosses == \E c \in SophosCalls : calls[c].pc \in {"login", "whoami"}

\* reload, after any save of the settings: the account may have changed.
SettingsSaved ==
    /\ saves < MaxSaves /\ saves' = saves + 1
    /\ credentials' \in Accounts
    /\ session' = Forgotten(credentials')
    /\ crossed' = (crossed \/ Crosses)
    /\ UNCHANGED <<preset, calls, started>>

\* "Test connection" reloads and logs in, whatever was cached.
TestConnection(c) ==
    /\ calls[c] = NoCall
    /\ started < MaxSophosCalls /\ started' = started + 1
    /\ session' = Forgotten(credentials)
    /\ crossed' = (crossed \/ Crosses)
    /\ calls' = [calls EXCEPT ![c] = LoggingIn(credentials)]
    /\ UNCHANGED <<credentials, preset, saves>>

TokenExpires ==
    /\ session.fresh
    /\ session' = [session EXCEPT !.fresh = FALSE]
    /\ UNCHANGED <<credentials, preset, calls, crossed, saves, started>>

CallStep(c) ==
    \/ CallStart(c) \/ LoggedIn(c) \/ Identified(c) \/ LoginFails(c)
    \/ ResourceAnswered(c) \/ NextSearchPage(c) \/ TestConnection(c)

SophosStep == (\E c \in SophosCalls : CallStep(c)) \/ SettingsSaved \/ TokenExpires

----------------------------------------------------------------------------
(* The token, the tenant and the region a request carries belong to one    *)
(* account - for the first request of a call to the one that was set when  *)
(* the call began - however many logins overlap, fail half-way or expire,  *)
(* as long as no save (and no test of the connection) has dropped the      *)
(* session while a login was being answered: such a login stores what      *)
(* belongs to the account before, and a token of the new account may then  *)
(* be sent with the tenant of the old one.  A part that is missing names   *)
(* no account: a token may go out without a tenant, or to the default      *)
(* region, when the second request of the login had failed.                *)
OneAccount ==
    ~crossed => \A c \in SophosCalls :
      calls[c].pc = "sent" =>
        LET named == {calls[c].token, calls[c].tenant, calls[c].region} \ {NoAccount}
        IN /\ Cardinality(named) <= 1
           /\ calls[c].first => calls[c].token = calls[c].of
=============================================================================
