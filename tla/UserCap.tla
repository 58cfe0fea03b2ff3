------------------------------ MODULE UserCap ------------------------------
(***************************************************************************)
(* Per-user spend caps: the check the access middleware makes before a     *)
(* request is proxied (middleware.py) and the bucket its cost is added to  *)
(* once the response has ended (quota/users.py).  Between the two lie      *)
(* every await of the request, so requests of one user that overlap are    *)
(* all admitted against the same, not yet charged, bucket.                 *)
(*                                                                         *)
(* Costs are natural numbers (the code's floats only ever grow by a cost   *)
(* and are compared with a cap); periods are numbered in clock order.      *)
(***************************************************************************)
EXTENDS Naturals, FiniteSets

CONSTANTS
    User,             \* user labels
    Slot,             \* requests the server can hold at the same time
    MaxCost,          \* the most one response costs
    USER_QUOTA_CAPS,  \* explicit caps: a function whose domain is a set of users
    Defaults,         \* values USER_QUOTA_DEFAULT_USD may be given (0: no cap)
    MaxPeriod,        \* bound: the last period of a run
    MaxArrivals,      \* bound: requests arriving in a run
    MaxConfig         \* bound: settings changed from /config in a run

ASSUME ConstantsAssumption ==
    /\ User # {}
    /\ IsFiniteSet(Slot)
    /\ MaxCost \in Nat
    /\ DOMAIN USER_QUOTA_CAPS \subseteq User
    /\ \A u \in DOMAIN USER_QUOTA_CAPS : USER_QUOTA_CAPS[u] \in Nat
    /\ Defaults \subseteq Nat
    /\ MaxPeriod \in Nat
    /\ MaxArrivals \in Nat
    /\ MaxConfig \in Nat

VARIABLES
    by_user,   \* quota_stats["by_user"]: one bucket per label
    slot,      \* requests between admission and the end of their response
    enabled,   \* settings.USER_QUOTA_ENABLED
    hard,      \* settings.USER_QUOTA_HARD_LIMIT
    default,   \* settings.USER_QUOTA_DEFAULT_USD
    period,    \* what current_user_period_key() returns now
    sent,      \* cap alerts queued so far (alerts._sent)
    arrivals,  \* requests so far (bound)
    changes,   \* settings changed so far (bound)
    spent,     \* history: cost recorded for a user in this period, since the last admin reset
    free,      \* history: the part of the bucket due to requests admitted unchecked
    high       \* history: the highest cap that admitted a request charged to the bucket

settingsVars == <<enabled, hard, default, changes>>
historyVars == <<spent, free, high>>
vars == <<by_user, slot, enabled, hard, default, period, sent, arrivals,
          changes, spent, free, high>>

Bucket == [known : BOOLEAN, cap_usd : Nat, period_key : Nat, cost_usd : Nat,
           requests : Nat, blocked_count : Nat]

Idle == [busy |-> FALSE, user |-> CHOOSE u \in User : TRUE, checked |-> FALSE]
Request == [busy : BOOLEAN, user : User, checked : BOOLEAN]

TypeOK ==
    /\ by_user \in [User -> Bucket]
    /\ slot \in [Slot -> Request]
    /\ enabled \in BOOLEAN
    /\ hard \in BOOLEAN
    /\ default \in Nat
    /\ period \in Nat
    /\ sent \subseteq User \X Nat \X {"near", "over"}
    /\ arrivals \in Nat
    /\ changes \in Nat
    /\ spent \in [User -> Nat]
    /\ free \in [User -> Nat]
    /\ high \in [User -> Nat]

-----------------------------------------------------------------------------
(* The bucket helpers.                                                     *)

cap_for_label(u) ==
    IF u \in DOMAIN USER_QUOTA_CAPS THEN USER_QUOTA_CAPS[u] ELSE default

_new_user_bucket(u) ==
    [known |-> TRUE, cap_usd |-> cap_for_label(u), period_key |-> period,
     cost_usd |-> 0, requests |-> 0, blocked_count |-> 0]

_reset_user_bucket(b) ==
    [b EXCEPT !.period_key = period, !.cost_usd = 0, !.requests = 0,
              !.blocked_count = 0]

\* mutant: the period is stamped but the counters are kept
KeepsOldSpend(b) == IF b.period_key = period THEN b ELSE [b EXCEPT !.period_key = period]

RolledOver(b) == IF b.period_key = period THEN b ELSE _reset_user_bucket(b)

\* mutant: the cap is only looked up when the bucket is created
CachedCapBucket(u) ==
    IF by_user[u].known THEN RolledOver(by_user[u]) ELSE _new_user_bucket(u)

get_or_create_user_bucket(u) ==
    IF by_user[u].known
    THEN RolledOver([by_user[u] EXCEPT !.cap_usd = cap_for_label(u)])
    ELSE _new_user_bucket(u)

\* get_or_create_user_bucket starts the bucket over
StartsOver(u) == ~by_user[u].known \/ by_user[u].period_key # period

\* mutant: a user exactly at the cap still gets in
BeyondCap(b) == b.cap_usd > 0 /\ b.cost_usd > b.cap_usd

OverCap(b) == b.cap_usd > 0 /\ b.cost_usd >= b.cap_usd

\* is_user_over_cap(u) for an enabled quota, on the bucket it refreshes
is_user_over_cap(u) == OverCap(get_or_create_user_bucket(u))

\* the bucket of u is fetched and stored; the histories follow it
Fetch(u, b) ==
    /\ by_user' = [by_user EXCEPT ![u] = b]
    /\ free' = IF StartsOver(u) THEN [free EXCEPT ![u] = 0] ELSE free

-----------------------------------------------------------------------------
(* The middleware.  Without its prefixes a path may begin with a second    *)
(* slash: the check then passes it by, while the handler forwards and      *)
(* charges it like any other call (passthrough.py, proxy).                 *)

Path == {"/v1/messages", "//v1/messages"}

CapApplies(path) == enabled /\ hard /\ path = "/v1/messages"

\* A request is let through without the cap being looked at.
AdmitUnchecked(s, u, path) ==
    /\ ~slot[s].busy
    /\ arrivals < MaxArrivals
    /\ ~CapApplies(path)
    /\ slot' = [slot EXCEPT ![s] = [busy |-> TRUE, user |-> u, checked |-> FALSE]]
    /\ arrivals' = arrivals + 1
    /\ UNCHANGED <<by_user, settingsVars, period, sent, historyVars>>

\* The cap is enforced and the user is under it, or has none.
AdmitUnderCap(s, u, path) ==
    /\ ~slot[s].busy
    /\ arrivals < MaxArrivals
    /\ CapApplies(path)
    /\ ~is_user_over_cap(u)
    /\ Fetch(u, get_or_create_user_bucket(u))
    /\ slot' = [slot EXCEPT ![s] = [busy |-> TRUE, user |-> u,
                                    checked |-> cap_for_label(u) > 0]]
    /\ high' = [high EXCEPT ![u] =
                  LET base == IF StartsOver(u) THEN 0 ELSE @
                  IN  IF cap_for_label(u) > base THEN cap_for_label(u) ELSE base]
    /\ arrivals' = arrivals + 1
    /\ UNCHANGED <<settingsVars, period, sent, spent>>

\* 429: the request goes no further, only blocked_count remembers it.
Reject(u, path) ==
    /\ arrivals < MaxArrivals
    /\ CapApplies(path)
    /\ is_user_over_cap(u)
    /\ Fetch(u, [get_or_create_user_bucket(u) EXCEPT !.blocked_count = @ + 1])
    /\ high' = IF StartsOver(u) THEN [high EXCEPT ![u] = 0] ELSE high
    /\ arrivals' = arrivals + 1
    /\ UNCHANGED <<slot, settingsVars, period, sent, spent>>

-----------------------------------------------------------------------------
(* The end of a response.                                                  *)

\* mutant: the alert fires only beyond the cap
AlertsBeyondCap(u, b) ==
    IF enabled /\ b.cap_usd > 0 /\ b.cost_usd > b.cap_usd
    THEN {<<u, b.period_key, "over">>} ELSE {}

\* mutant: the alert key carries the level instead of the threshold
AlertsByLevel(u, b) ==
    IF enabled /\ b.cap_usd > 0 /\ b.cost_usd >= b.cap_usd
    THEN {<<u, b.period_key, "danger">>} ELSE {}

\* check_user_cap: one alert per user, period and level
NewAlerts(u, b) ==
    IF ~enabled \/ b.cap_usd = 0 THEN {}
    ELSE IF b.cost_usd >= b.cap_usd THEN {<<u, b.period_key, "over">>}
    ELSE IF 5 * b.cost_usd >= 4 * b.cap_usd THEN {<<u, b.period_key, "near">>}
    ELSE {}

Charged(b, cost) == [b EXCEPT !.cost_usd = @ + cost, !.requests = @ + 1]

\* record_user_usage: the response carried usage, of this cost
Record(s, cost) ==
    LET u == slot[s].user
        b == Charged(get_or_create_user_bucket(u), cost)
    IN  /\ slot[s].busy
        /\ by_user' = [by_user EXCEPT ![u] = b]
        /\ sent' = sent \cup NewAlerts(u, b)
        /\ slot' = [slot EXCEPT ![s] = Idle]
        /\ spent' = [spent EXCEPT ![u] = @ + cost]
        /\ free' = [free EXCEPT ![u] = (IF StartsOver(u) THEN 0 ELSE @)
                                       + (IF slot[s].checked THEN 0 ELSE cost)]
        /\ high' = IF StartsOver(u) THEN [high EXCEPT ![u] = 0] ELSE high
        /\ UNCHANGED <<settingsVars, period, arrivals>>

\* The response carried no usage: an error, another path, a lost stream.
EndUnrecorded(s) ==
    /\ slot[s].busy
    /\ slot' = [slot EXCEPT ![s] = Idle]
    /\ UNCHANGED <<by_user, settingsVars, period, sent, arrivals, historyVars>>

-----------------------------------------------------------------------------
(* The other handlers that touch a bucket.                                 *)

\* /whoami creates a bucket, but only for an enabled quota;
\* /quota/users/{label} and /quota/users refresh the ones there are.
View(u) ==
    /\ enabled \/ by_user[u].known
    /\ Fetch(u, get_or_create_user_bucket(u))
    /\ high' = IF StartsOver(u) THEN [high EXCEPT ![u] = 0] ELSE high
    /\ UNCHANGED <<slot, settingsVars, period, sent, arrivals, spent>>

\* POST /admin/quota/reset/{label}
AdminReset(u) ==
    /\ by_user[u].known
    /\ by_user' = [by_user EXCEPT ![u] = _reset_user_bucket(@)]
    /\ spent' = [spent EXCEPT ![u] = 0]
    /\ free' = [free EXCEPT ![u] = 0]
    /\ high' = [high EXCEPT ![u] = 0]
    /\ UNCHANGED <<slot, settingsVars, period, sent, arrivals>>

\* POST /config on one of the three live settings
Configure(e, h, d) ==
    /\ changes < MaxConfig
    /\ <<e, h, d>> # <<enabled, hard, default>>
    /\ enabled' = e
    /\ hard' = h
    /\ default' = d
    /\ changes' = changes + 1
    /\ UNCHANGED <<by_user, slot, period, sent, arrivals, historyVars>>

\* Midnight, or the first of the month: no code runs, the key just differs.
NextPeriod ==
    /\ period < MaxPeriod
    /\ period' = period + 1
    /\ spent' = [u \in User |-> 0]
    /\ UNCHANGED <<by_user, slot, settingsVars, sent, arrivals, free, high>>

-----------------------------------------------------------------------------
Init ==
    /\ by_user = [u \in User |-> [known |-> FALSE, cap_usd |-> 0,
                                  period_key |-> 0, cost_usd |-> 0,
                                  requests |-> 0, blocked_count |-> 0]]
    /\ slot = [s \in Slot |-> Idle]
    /\ enabled \in BOOLEAN
    /\ hard \in BOOLEAN
    /\ default \in Defaults
    /\ period = 0
    /\ sent = {}
    /\ arrivals = 0
    /\ changes = 0
    /\ spent = [u \in User |-> 0]
    /\ free = [u \in User |-> 0]
    /\ high = [u \in User |-> 0]

Next ==
    \/ \E s \in Slot, u \in User, path \in Path : AdmitUnchecked(s, u, path)
    \/ \E s \in Slot, u \in User, path \in Path : AdmitUnderCap(s, u, path)
    \/ \E u \in User, path \in Path : Reject(u, path)
    \/ \E s \in Slot, cost \in 0..MaxCost : Record(s, cost)
    \/ \E s \in Slot : EndUnrecorded(s)
    \/ \E u \in User : View(u)
    \/ \E u \in User : AdminReset(u)
    \/ \E e \in BOOLEAN, h \in BOOLEAN, d \in Defaults : Configure(e, h, d)
    \/ NextPeriod

Spec == Init /\ [][Next]_vars

-----------------------------------------------------------------------------
(* Properties.                                                             *)

\* What a bucket holds is what was recorded for its user in the period it
\* names, and nothing of an earlier one: rolling a bucket over lazily, on its
\* next use, never drops or carries over spend (get_or_create_user_bucket).
SpendIsCurrent ==
    \A u \in User :
        spent[u] = IF StartsOver(u) THEN 0 ELSE by_user[u].cost_usd

InFlight(u) == {s \in Slot : slot[s].busy /\ slot[s].user = u /\ slot[s].checked}

\* The check is made at admission and the cost charged at the end, so a cap
\* can be overshot; but by requests it was checked for never by more than those
\* in flight at once can cost.  What was let in unchecked comes on top: with the
\* quota off, the limit soft, a cap of 0, or a path that does not begin with
\* /v1/, which no cap holds back.
OvershootBounded ==
    \A u \in User :
        by_user[u].cost_usd <=
            free[u] + (IF high[u] > 0 THEN high[u] - 1 ELSE 0)
                    + Cardinality(Slot) * MaxCost

\* A user is answered 429 only when what they spent in the current period has
\* reached the cap in force now - never for an earlier period's spend, an old
\* cap, or a cap of 0.
BlockedWithCause ==
    [][\A u \in User, path \in Path :
         Reject(u, path) => cap_for_label(u) > 0 /\ spent[u] >= cap_for_label(u)]_vars

\* As long as nobody edits the settings, a user who is answered 429 has been
\* reported over their cap for that period first.
BlockedWasAnnounced ==
    [][\A u \in User, path \in Path :
         Reject(u, path) /\ changes = 0 => <<u, period, "over">> \in sent]_vars
=============================================================================
