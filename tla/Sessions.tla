------------------------------ MODULE Sessions ------------------------------
(***************************************************************************)
(* Login, refresh and logout (app/api/auth.py) with the login limiter      *)
(* (app/core/rate_limit.py), beside the admin who deactivates users        *)
(* (app/api/users.py).                                                     *)
(*                                                                         *)
(* A login is a sequence of calls to Redis and Postgres; logins of one     *)
(* address interleave between any two of them.  Access tokens are not in   *)
(* the state: they are signed and stored nowhere.                          *)
(***************************************************************************)
EXTENDS Naturals, FiniteSets

CONSTANTS
    LOGIN_MAX_FAILURES,
    Logins,      \* requests to log in, a pool
    Addresses, Users,
    NoUser, NoAddress,
    MayDie       \* TRUE: a login may be cut off between two calls

ASSUME SessionsAssumption ==
    /\ LOGIN_MAX_FAILURES \in Nat \ {0}
    /\ IsFiniteSet(Logins)
    /\ NoUser \notin Users
    /\ NoAddress \notin Addresses
    /\ MayDie \in BOOLEAN

VARIABLES
    failures,  \* rate:login:<address> in Redis; 0: no key
    timed,     \* the addresses whose key has a time to live
    login,     \* the requests under way
    active,    \* the users with is_active
    sessions,  \* the users with refresh tokens that are valid
    untimed    \* the addresses of logins that died before their EXPIRE

sessionVars == <<failures, timed, login, active, sessions, untimed>>

Login == [pc: {"idle", "authenticate", "record", "expire", "reset", "issue"},
          from: Addresses \cup {NoAddress}, as: Users \cup {NoUser}]
NoLogin == [pc |-> "idle", from |-> NoAddress, as |-> NoUser]

SessionsInit ==
    /\ failures = [a \in Addresses |-> 0]
    /\ timed = {}
    /\ login = [l \in Logins |-> NoLogin]
    /\ active = Users
    /\ sessions = {}
    /\ untimed = {}

-----------------------------------------------------------------------------
\* One more failure than it says.
MutantBlocked(a) == failures[a] > LOGIN_MAX_FAILURES
\* is_blocked
Blocked(a) == failures[a] >= LOGIN_MAX_FAILURES

LoginBegins(l, a) ==
    /\ login[l].pc = "idle"
    /\ ~Blocked(a)
    /\ login' = [login EXCEPT ![l] = [pc |-> "authenticate", from |-> a, as |-> NoUser]]
    /\ UNCHANGED <<failures, timed, active, sessions, untimed>>

\* The credentials are those of an active user, or they are not.
Authenticate(l) ==
    /\ login[l].pc = "authenticate"
    /\ \/ \E u \in active :
            login' = [login EXCEPT ![l].pc = "reset", ![l].as = u]
       \/ login' = [login EXCEPT ![l].pc = "record"]
    /\ UNCHANGED <<failures, timed, active, sessions, untimed>>

\* The time to live is set when the block begins, by the login that began it.
MutantRecordFailure(l) ==
    LET a == login[l].from IN
    /\ login[l].pc = "record"
    /\ failures' = [failures EXCEPT ![a] = @ + 1]
    /\ login' = [login EXCEPT
                   ![l] = IF failures[a] + 1 = LOGIN_MAX_FAILURES + 1
                          THEN [@ EXCEPT !.pc = "expire"] ELSE NoLogin]
    /\ UNCHANGED <<timed, active, sessions, untimed>>

\* record_failure: INCR keeps the key's time to live, and makes the key without
\* one.
RecordFailure(l) ==
    LET a == login[l].from IN
    /\ login[l].pc = "record"
    /\ failures' = [failures EXCEPT ![a] = @ + 1]
    /\ login' = [login EXCEPT
                   ![l] = IF failures[a] + 1 = 1
                          THEN [@ EXCEPT !.pc = "expire"] ELSE NoLogin]
    /\ UNCHANGED <<timed, active, sessions, untimed>>

\* EXPIRE does nothing if the key is gone.
SetExpiry(l) ==
    LET a == login[l].from IN
    /\ login[l].pc = "expire"
    /\ timed' = IF failures[a] > 0 THEN timed \cup {a} ELSE timed
    /\ untimed' = IF failures[a] > 0 THEN untimed \ {a} ELSE untimed
    /\ login' = [login EXCEPT ![l] = NoLogin]
    /\ UNCHANGED <<failures, active, sessions>>

\* The key goes: DEL after a login that succeeds, or its 15 minutes are over.
Forget(a) ==
    /\ failures' = [failures EXCEPT ![a] = 0]
    /\ timed' = timed \ {a}
    /\ untimed' = untimed \ {a}

ResetFailures(l) ==
    /\ login[l].pc = "reset"
    /\ Forget(login[l].from)
    /\ login' = [login EXCEPT ![l].pc = "issue"]
    /\ UNCHANGED <<active, sessions>>

KeyExpires(a) ==
    /\ a \in timed
    /\ Forget(a)
    /\ UNCHANGED <<login, active, sessions>>

\* The refresh token's row is committed; the cookie goes out with the answer.
IssueToken(l) ==
    /\ login[l].pc = "issue"
    /\ sessions' = sessions \cup {login[l].as}
    /\ login' = [login EXCEPT ![l] = NoLogin]
    /\ UNCHANGED <<failures, timed, active, untimed>>

\* The request is cut off, or a call of it raises.
LoginDies(l) ==
    /\ MayDie
    /\ login[l].pc # "idle"
    /\ login' = [login EXCEPT ![l] = NoLogin]
    /\ untimed' = IF /\ login[l].pc = "expire"
                     /\ failures[login[l].from] > 0
                     /\ login[l].from \notin timed
                  THEN untimed \cup {login[l].from} ELSE untimed
    /\ UNCHANGED <<failures, timed, active, sessions>>

\* logout deletes the row of the token; a token expires after some days.
Logout(u) ==
    /\ sessions' = sessions \ {u}
    /\ UNCHANGED <<failures, timed, login, active, untimed>>

\* update_user; superadmins are left alone.
UpdateUser(u) ==
    /\ \/ active' = active \ {u}
       \/ active' = active \cup {u}
    /\ UNCHANGED <<failures, timed, login, sessions, untimed>>

LoginStep(l) ==
    \/ Authenticate(l) \/ RecordFailure(l) \/ SetExpiry(l)
    \/ ResetFailures(l) \/ IssueToken(l)

SessionsNext ==
    \/ \E l \in Logins : \/ \E a \in Addresses : LoginBegins(l, a)
                         \/ LoginStep(l) \/ LoginDies(l)
    \/ \E a \in Addresses : KeyExpires(a)
    \/ \E u \in Users : Logout(u) \/ UpdateUser(u)

\* A request that began goes on, and keys expire.
SessionsFairness ==
    /\ \A l \in Logins : WF_sessionVars(LoginStep(l))
    /\ \A a \in Addresses : WF_sessionVars(KeyExpires(a))

SessionsSpec == SessionsInit /\ [][SessionsNext]_sessionVars /\ SessionsFairness

-----------------------------------------------------------------------------
(* Properties. *)
SessionsTypeOK ==
    /\ failures \in [Addresses -> Nat]
    /\ timed \subseteq Addresses
    /\ login \in [Logins -> Login]
    /\ active \subseteq Users
    /\ sessions \subseteq Users
    /\ untimed \subseteq Addresses

\* The logins that were let through before the block and may still fail.
Admitted(a) == {l \in Logins : /\ login[l].from = a
                               /\ login[l].pc \in {"authenticate", "record"}}

\* "After 5 failed login attempts from the same IP [...] return HTTP 429"
\* (TASK-05): the check and the count are two calls, but the failures beyond the
\* limit are of logins that passed the check before it was reached.
FailuresBounded ==
    \A a \in Addresses :
        failures[a] + Cardinality(Admitted(a))
            <= LOGIN_MAX_FAILURES - 1 + Cardinality(Logins)

\* "[...] within 15 minutes": a key that counts has a time to live, or the login
\* that made it is about to set one, or died before it could.
BlocksAreTimed ==
    \A a \in Addresses : failures[a] > 0 =>
        \/ a \in timed
        \/ a \in untimed
        \/ \E l \in Logins : login[l].pc = "expire" /\ login[l].from = a

\* So that an address that is blocked is let in again, unless such a login died.
BlockedIsFreed ==
    \A a \in Addresses : Blocked(a) ~> ~Blocked(a) \/ a \in untimed
=============================================================================
