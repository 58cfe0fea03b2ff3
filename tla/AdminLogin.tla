----------------------------- MODULE AdminLogin ----------------------------
(***************************************************************************)
(* Signing in to the /config console (admin.py, routes/config.py): the     *)
(* failures of one client address, the lockout, and the signed cookies.    *)
(*                                                                         *)
(* config_login looks at the lockout, then awaits the body, then compares  *)
(* the token: several attempts of one address can be past the lockout      *)
(* check before the first of them is counted.  The cookie is signed with   *)
(* SESSION_SECRET and nothing of it is kept by the server.                 *)
(***************************************************************************)
EXTENDS Integers, Sequences, FiniteSets

CONSTANTS
    Attempt,                \* login requests that can be under way at a time
    ADMIN_MAX_FAILED,
    ADMIN_LOCKOUT_SECONDS,  \* in ticks of the clock
    ADMIN_SESSION_HOURS     \* in ticks of the clock

ASSUME LoginAssumption ==
    /\ {ADMIN_MAX_FAILED, ADMIN_LOCKOUT_SECONDS, ADMIN_SESSION_HOURS} \subseteq Nat \ {0}
    /\ IsFiniteSet(Attempt) /\ Attempt # {}

VARIABLES
    now,        \* the clock
    failures,   \* state.admin_failures of the address: count, first failure
    reading,    \* attempts past the lockout check that wait for their body
    cookies,    \* cookies handed out: the secret that signed it, its expiry
    guesses     \* history: when this process was sent wrong tokens, since the
                \* last right one

loginVars == <<now, failures, reading, cookies, guesses>>

NoEntry == [count |-> 0, first |-> 0]

-----------------------------------------------------------------------------

\* mutant: one failure more
BeyondMax == failures.count > ADMIN_MAX_FAILED

TooMany == failures.count >= ADMIN_MAX_FAILED
Served == now - failures.first >= ADMIN_LOCKOUT_SECONDS

\* the entry after _admin_lockout_remaining has looked at it
AfterCheck == IF TooMany /\ Served THEN NoEntry ELSE failures

BeginLogin(a) ==
    /\ a \notin reading
    /\ ~TooMany \/ Served
    /\ failures' = AfterCheck
    /\ reading' = reading \cup {a}
    /\ UNCHANGED <<now, cookies, guesses>>

_record_admin_failure ==
    IF failures = NoEntry \/ now - failures.first > ADMIN_LOCKOUT_SECONDS
    THEN [count |-> 1, first |-> now]
    ELSE [failures EXCEPT !.count = @ + 1]

WrongToken(a) ==
    /\ a \in reading
    /\ reading' = reading \ {a}
    /\ failures' = _record_admin_failure
    /\ guesses' = Append(guesses, now)
    /\ UNCHANGED <<now, cookies>>

RightToken(a, secret) ==
    /\ a \in reading
    /\ reading' = reading \ {a}
    /\ failures' = NoEntry
    /\ cookies' = cookies \cup {[secret |-> secret, expires |-> now + ADMIN_SESSION_HOURS]}
    /\ guesses' = <<>>
    /\ UNCHANGED now

_verify_admin_cookie(c, secret) == c.expires > now /\ c.secret = secret

Tick ==
    /\ now' = now + 1
    /\ UNCHANGED <<failures, reading, cookies, guesses>>

\* a process that ends takes its failures and requests with it
ForgetLogins ==
    /\ failures' = NoEntry
    /\ reading' = {}
    /\ guesses' = <<>>
    /\ UNCHANGED <<now, cookies>>

-----------------------------------------------------------------------------
(* The lockout bounds how many wrong tokens an address has compared within *)
(* any span of one lockout: at most two runs of failures fit, one begun    *)
(* before the span, each overrun by the attempts that were past the check  *)
(* already, and the first without the failure that began it.               *)
GuessesBounded ==
    \A t \in 0..now :
        Cardinality({i \in DOMAIN guesses :
                        guesses[i] \in t .. t + ADMIN_LOCKOUT_SECONDS - 1})
            <= 2 * (ADMIN_MAX_FAILED + Cardinality(Attempt) - 1) - 1
=============================================================================
