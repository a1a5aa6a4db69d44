---------------------------- MODULE SingleSignOn ----------------------------
(***************************************************************************)
(* Users and sessions of SSOManager in src/vsrs/enterprise/sso.py.  Two    *)
(* tables index a session, by identifier and by token, and four callers    *)
(* take it out of them: logout, two lookups that find it expired, and the  *)
(* cleanup, which lists what is expired and removes it afterwards.  What a *)
(* provider asserts about a user is one of Identities.                     *)
(***************************************************************************)
EXTENDS Naturals, Sequences, FiniteSets

CONSTANTS
    Identities,     \* provider and external id pairs providers assert
    Sessions,       \* bound: the sessions logins create, in order 1, 2, ...
    Callers,        \* threads calling the manager
    Lifetime,       \* hours a session lasts, and a refresh extends it by
    LastHour        \* bound: the clock stops there

ASSUME SsoAssumption == {Sessions, Lifetime, LastHour} \subseteq Nat

VARIABLES
    byId, byToken,  \* _sessions, _sessions_by_token: the sessions they hold
    expires,        \* expires_at of each session object
    account,        \* [user, identity] of each session: its user_id, and whom its
                    \*   provider asserted (history)
    users,          \* _users: the identity in the metadata of users 1, 2, ...
    userOf,         \* _user_by_provider; 0 for an identity without user
    hour,           \* the clock
    doing,          \* the method each caller is in the middle of, and its locals
    cause           \* history: why a session may be gone, or "none"

ssoVars == <<byId, byToken, expires, account, users, userOf, hour, doing, cause>>

\* A caller in no method.
Resting == [method |-> "none"]

SsoInit ==
    /\ byId = {} /\ byToken = {}
    /\ expires = <<>> /\ account = <<>> /\ cause = <<>>
    /\ users = <<>>
    /\ userOf = [i \in Identities |-> 0]
    /\ hour = 0
    /\ doing = [c \in Callers |-> Resting]

\* is_expired (a session always has an expiry).
Expired(s) == hour > expires[s]

Starts(c, d) == doing[c] = Resting /\ doing' = [doing EXCEPT ![c] = d]

Is(c, method) == doing[c].method = method

Returns(c) == doing' = [doing EXCEPT ![c] = Resting]

\* Sessions a caller has set out to take away.
Leaving(c) ==
    IF doing[c].method \in {"scan", "remove", "unindex"}
    THEN {doing[c].gone[i] : i \in DOMAIN doing[c].gone}
             \union IF Is(c, "unindex") THEN {doing[c].session} ELSE {}
    ELSE {}

Doomed == UNION {Leaving(c) : c \in Callers}

-----------------------------------------------------------------------------
\* authenticate_oidc and authenticate_saml, on a token or response that is
\* valid, down to the lookup of the user in _provision_user.
Authenticate(c, i) ==
    /\ Len(expires) + Cardinality({d \in Callers : Is(d, "login")}) < Sessions
    /\ Starts(c, [method |-> "login", identity |-> i, user |-> userOf[i]])
    /\ UNCHANGED <<byId, byToken, expires, account, users, userOf, hour, cause>>

\* The user of the identity: the one found, or a new one.
Provisioned(c) == IF doing[c].user = 0 THEN Len(users) + 1 ELSE doing[c].user

\* The rest of _provision_user, and _create_session: a user not found by the
\* lookup is created now, even if another login has created one meanwhile.
Login(c) ==
    /\ Is(c, "login")
    /\ users' = IF doing[c].user = 0 THEN Append(users, doing[c].identity) ELSE users
    /\ userOf' = [userOf EXCEPT ![doing[c].identity] = Provisioned(c)]
    /\ LET s == Len(expires) + 1 IN
           /\ byId' = byId \union {s} /\ byToken' = byToken \union {s}
    /\ expires' = Append(expires, hour + Lifetime)
    /\ account' = Append(account, [user |-> Provisioned(c), identity |-> doing[c].identity])
    /\ cause' = Append(cause, "none")
    /\ Returns(c)
    /\ UNCHANGED hour

\* logout(token), a client's: the first of its two pops.
Logout(c, s) ==
    /\ s \in byToken
    /\ Starts(c, [method |-> "unindex", session |-> s, gone |-> <<>>])
    /\ byToken' = byToken \ {s}
    /\ cause' = [cause EXCEPT ![s] = "logout"]
    /\ UNCHANGED <<byId, expires, account, users, userOf, hour>>

\* get_session and get_session_by_id, on a session that has expired: it will be
\* logged out.
FindExpired(c, s) ==
    /\ s \in byId \union byToken
    /\ Expired(s)
    /\ Starts(c, [method |-> "remove", gone |-> <<s>>])
    /\ cause' = IF cause[s] = "none" THEN [cause EXCEPT ![s] = "expired"] ELSE cause
    /\ UNCHANGED <<byId, byToken, expires, account, users, userOf, hour>>

\* refresh_session, on any session still indexed by its identifier, expired or not.
RefreshSession(s) ==
    /\ s \in byId
    /\ expires' = [expires EXCEPT ![s] = hour + Lifetime]
    /\ cause' = IF cause[s] = "expired" /\ s \notin Doomed THEN [cause EXCEPT ![s] = "none"] ELSE cause
    /\ UNCHANGED <<byId, byToken, account, users, userOf, hour, doing>>

-----------------------------------------------------------------------------
\* A cleanup that iterates over a table of `size` sessions: the last one it looked
\* at, how many are left, and those it found expired.
Scan(last, left, size, gone) ==
    [method |-> "scan", last |-> last, left |-> left, size |-> size, gone |-> gone]

\* The sessions the iteration of a cleanup has still to look at: a dictionary
\* is iterated in the order its keys came.
Ahead(c) == {s \in byId : s > doing[c].last}

\* The iteration raises when the table has not the size it started with, or has
\* more to show than it had then.
Undone(c) == \/ Cardinality(byId) # doing[c].size
             \/ doing[c].left = 0 /\ Ahead(c) # {}

\* cleanup_expired_sessions starts to iterate over _sessions ...
CleanupStart(c) ==
    /\ Starts(c, Scan(0, Cardinality(byId), Cardinality(byId), <<>>))
    /\ UNCHANGED <<byId, byToken, expires, account, users, userOf, hour, cause>>

\* Taking a session whose last hour has begun for expired.
FaultyCleanupLook(c) ==
    /\ Is(c, "scan") /\ ~Undone(c)
    /\ \E s \in Ahead(c) :
           /\ \A r \in Ahead(c) : s <= r
           /\ LET d == doing[c]
                  gone == IF hour >= expires[s] THEN Append(d.gone, s) ELSE d.gone
              IN  doing' = [doing EXCEPT ![c] = Scan(s, d.left - 1, d.size, gone)]
           /\ cause' = IF Expired(s) /\ cause[s] = "none" THEN [cause EXCEPT ![s] = "expired"] ELSE cause
    /\ UNCHANGED <<byId, byToken, expires, account, users, userOf, hour>>

\* ... looks at one session after another ...
CleanupLook(c) ==
    /\ Is(c, "scan") /\ ~Undone(c)
    /\ \E s \in Ahead(c) :
           /\ \A r \in Ahead(c) : s <= r
           /\ LET d == doing[c]
                  gone == IF Expired(s) THEN Append(d.gone, s) ELSE d.gone
              IN  doing' = [doing EXCEPT ![c] = Scan(s, d.left - 1, d.size, gone)]
           /\ cause' = IF Expired(s) /\ cause[s] = "none" THEN [cause EXCEPT ![s] = "expired"] ELSE cause
    /\ UNCHANGED <<byId, byToken, expires, account, users, userOf, hour>>

\* ... raises when the table changed meanwhile, removing nothing ...
CleanupRaises(c) ==
    /\ Is(c, "scan") /\ Undone(c)
    /\ Returns(c)
    /\ UNCHANGED <<byId, byToken, expires, account, users, userOf, hour, cause>>

\* ... and goes on to log out those it saw expired.
CleanupRemove(c) ==
    /\ Is(c, "scan") /\ ~Undone(c) /\ Ahead(c) = {}
    /\ doing' = [doing EXCEPT ![c] = [method |-> "remove", gone |-> doing[c].gone]]
    /\ UNCHANGED <<byId, byToken, expires, account, users, userOf, hour, cause>>

\* logout of the first session to go: not a second time when its token is gone.
RemoveToken(c) ==
    /\ Is(c, "remove") /\ doing[c].gone # <<>>
    /\ LET s == Head(doing[c].gone)
           rest == Tail(doing[c].gone) IN
           /\ byToken' = byToken \ {s}
           /\ doing' = [doing EXCEPT ![c] = IF s \in byToken
                                            THEN [method |-> "unindex", session |-> s, gone |-> rest]
                                            ELSE [method |-> "remove", gone |-> rest]]
    /\ UNCHANGED <<byId, expires, account, users, userOf, hour, cause>>

\* The second pop of logout.
RemoveId(c) ==
    /\ Is(c, "unindex")
    /\ byId' = byId \ {doing[c].session}
    /\ doing' = [doing EXCEPT ![c] = [method |-> "remove", gone |-> doing[c].gone]]
    /\ UNCHANGED <<byToken, expires, account, users, userOf, hour, cause>>

RemoveDone(c) ==
    /\ Is(c, "remove") /\ doing[c].gone = <<>>
    /\ Returns(c)
    /\ UNCHANGED <<byId, byToken, expires, account, users, userOf, hour, cause>>

HourPasses ==
    /\ hour < LastHour
    /\ hour' = hour + 1
    /\ UNCHANGED <<byId, byToken, expires, account, users, userOf, doing, cause>>

SsoNext ==
    \/ HourPasses
    \/ \E s \in byId : RefreshSession(s)
    \/ \E c \in Callers :
           \/ Login(c) \/ CleanupStart(c) \/ CleanupLook(c) \/ CleanupRaises(c) \/ CleanupRemove(c)
           \/ RemoveToken(c) \/ RemoveId(c) \/ RemoveDone(c)
           \/ \E i \in Identities : Authenticate(c, i)
           \/ \E s \in byId \union byToken : Logout(c, s) \/ FindExpired(c, s)

SsoSpec == SsoInit /\ [][SsoNext]_ssoVars

-----------------------------------------------------------------------------
\* A session is found by its token and by its identifier alike until its client
\* logs it out or somebody finds it expired (and a refresh in time undoes that);
\* while it is being taken away the token goes first.  It belongs to a user
\* provisioned for the identity its provider asserted, the one that identity
\* still leads to unless two first logins of the identity met.
SessionsAccounted ==
    \A s \in DOMAIN expires :
        /\ cause[s] = "none" => s \in byId /\ s \in byToken
        /\ s \in byToken => s \in byId
        /\ s \in byId \ byToken => \E c \in Callers : Is(c, "unindex") /\ doing[c].session = s
        /\ account[s].user \in DOMAIN users
        /\ users[account[s].user] = account[s].identity
        /\ (\A u \in DOMAIN users : users[u] = account[s].identity => u = account[s].user)
              => userOf[account[s].identity] = account[s].user
=============================================================================
