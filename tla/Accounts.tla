------------------------------ MODULE Accounts ------------------------------
(***************************************************************************)
(* Signing up and logging in with one email, whose failed logins are       *)
(* counted in Redis (backend/app/api/auth.py).  The requests of one API    *)
(* process interleave at every call to PostgreSQL and Redis.  A token is   *)
(* no state of the server: whoever is let in leaves only cleared counters. *)
(***************************************************************************)
EXTENDS Integers, FiniteSets

CONSTANTS Logins,        \* names for the requests at work at once
          MaxFailures,   \* _MAX_ATTEMPTS (5)
          MaxGuesses,    \* bound: wrong passwords in a row
          MaxAuthFaults  \* bound: failures of Redis, of PostgreSQL, restarts

ASSUME AccountsAssumption ==
    /\ IsFiniteSet(Logins)
    /\ MaxFailures \in Nat \ {0}
    /\ MaxGuesses \in Nat
    /\ MaxAuthFaults \in Nat

VARIABLES
    account,     \* is there a row of profiles?
    attempts,    \* login_attempts:<email>, 0 when there is no such key
    expires,     \* has that key a time to live?
    lockout,     \* is there login_lockout:<email>?
    login,     \* which await a request is in
    counted,     \* what its INCR answered
    guesses,     \* wrong passwords looked up since the keys were last cleared
    authFaults

accountVars == <<account, attempts, expires, lockout, login, counted, guesses, authFaults>>

AccountsInit ==
    /\ account = FALSE
    /\ attempts = 0 /\ expires = FALSE /\ lockout = FALSE
    /\ login = [l \in Logins |-> "none"] /\ counted = [l \in Logins |-> 0]
    /\ guesses = 0 /\ authFaults = 0

Goes(l, from, to) == login[l] = from /\ login' = [login EXCEPT ![l] = to]

-----------------------------------------------------------------------------
\* signup finds no account and goes on to hash the password.
BeginSignup(l) ==
    /\ ~account
    /\ Goes(l, "none", "signup")
    /\ UNCHANGED <<account, attempts, expires, lockout, counted, guesses, authFaults>>

\* The INSERT and its commit; the unique index refuses a second account.
InsertProfile(l) ==
    /\ Goes(l, "signup", "none")
    /\ account' = TRUE
    /\ UNCHANGED <<attempts, expires, lockout, counted, guesses, authFaults>>

-----------------------------------------------------------------------------
\* A request that finds the lockout is answered 429 and leaves no trace.
CheckLockout(l) ==
    /\ ~lockout
    /\ Goes(l, "none", "look")
    /\ UNCHANGED <<account, attempts, expires, lockout, counted, guesses, authFaults>>

RightPassword(l) ==
    /\ account
    /\ Goes(l, "look", "clear")
    /\ UNCHANGED <<account, attempts, expires, lockout, counted, guesses, authFaults>>

\* So is a password for an email without an account.
WrongPassword(l) ==
    /\ guesses < MaxGuesses
    /\ guesses' = guesses + 1
    /\ Goes(l, "look", "count")
    /\ UNCHANGED <<account, attempts, expires, lockout, counted, authFaults>>

\* INCR
CountFailure(l) ==
    /\ Goes(l, "count", "expire")
    /\ attempts' = attempts + 1
    /\ counted' = [counted EXCEPT ![l] = attempts + 1]
    /\ UNCHANGED <<account, expires, lockout, guesses, authFaults>>

\* Variant: only the last attempt that is allowed locks the account.
JudgeFailure_Exactly(l) ==
    /\ Goes(l, "expire", IF counted[l] = MaxFailures THEN "lock" ELSE "none")
    /\ expires' = (attempts > 0)
    /\ UNCHANGED <<account, attempts, lockout, counted, guesses, authFaults>>

\* EXPIRE, of a key that may be gone; too many attempts lock the account.
JudgeFailure(l) ==
    /\ Goes(l, "expire", IF counted[l] >= MaxFailures THEN "lock" ELSE "none")
    /\ expires' = (attempts > 0)
    /\ UNCHANGED <<account, attempts, lockout, counted, guesses, authFaults>>

\* SET with a time to live; the counter goes after it.
LockAccount(l) ==
    /\ Goes(l, "lock", "delete")
    /\ lockout' = TRUE
    /\ UNCHANGED <<account, attempts, expires, counted, guesses, authFaults>>

DeleteCounter(l) ==
    /\ Goes(l, "delete", "none")
    /\ attempts' = 0 /\ expires' = FALSE
    /\ UNCHANGED <<account, lockout, counted, guesses, authFaults>>

\* _clear_failed_logins: two DELs.
ClearCounter(l) ==
    /\ Goes(l, "clear", "unlock")
    /\ attempts' = 0 /\ expires' = FALSE /\ guesses' = 0
    /\ UNCHANGED <<account, lockout, counted, authFaults>>

ClearLockout(l) ==
    /\ Goes(l, "unlock", "none")
    /\ lockout' = FALSE /\ guesses' = 0
    /\ UNCHANGED <<account, attempts, expires, counted, authFaults>>

-----------------------------------------------------------------------------
\* Fifteen minutes have passed.
CounterExpires ==
    /\ expires
    /\ attempts' = 0 /\ expires' = FALSE /\ guesses' = 0
    /\ UNCHANGED <<account, lockout, login, counted, authFaults>>

LockoutExpires ==
    /\ lockout
    /\ lockout' = FALSE /\ guesses' = 0
    /\ UNCHANGED <<account, attempts, expires, login, counted, authFaults>>

\* A call fails, done or not, and the request with it.
RequestIsLost(l) ==
    /\ login[l] # "none"
    /\ authFaults < MaxAuthFaults
    /\ authFaults' = authFaults + 1
    /\ login' = [login EXCEPT ![l] = "none"]
    /\ UNCHANGED <<account, attempts, expires, lockout, counted, guesses>>

AccountsNext ==
    \/ \E l \in Logins :
          \/ BeginSignup(l) \/ InsertProfile(l)
          \/ CheckLockout(l) \/ RightPassword(l) \/ WrongPassword(l)
          \/ CountFailure(l) \/ JudgeFailure(l) \/ LockAccount(l) \/ DeleteCounter(l)
          \/ ClearCounter(l) \/ ClearLockout(l) \/ RequestIsLost(l)
    \/ CounterExpires
    \/ LockoutExpires

AccountsSpec == AccountsInit /\ [][AccountsNext]_accountVars

-----------------------------------------------------------------------------
\* Every variable has the shape its declaration describes.
AccountsTypeOK ==
    /\ account \in BOOLEAN /\ expires \in BOOLEAN /\ lockout \in BOOLEAN
    /\ attempts \in Nat /\ counted \in [Logins -> Nat]
    /\ login \in [Logins -> {"none", "signup", "look", "count", "expire", "lock",
                               "delete", "clear", "unlock"}]
    /\ guesses \in 0..MaxGuesses /\ authFaults \in 0..MaxAuthFaults

\* Wrong passwords run into the lockout, although lockout and counter are keys
\* of their own: each request at work at once can gain one round of attempts,
\* by deleting late the counter that somebody else is already using, or one
\* attempt, by having passed the check before the lockout, and each lost
\* request one attempt.
GuessesAreBounded == guesses <= MaxFailures * Cardinality(Logins) + authFaults
=============================================================================
