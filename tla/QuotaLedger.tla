---------------------------- MODULE QuotaLedger ----------------------------
(***************************************************************************)
(* quota_stats: the ledger every recorded response is added to             *)
(* (quota/usage.py, quota/accounts.py), its eviction caps, the monthly     *)
(* reset, and the file it survives a restart in (quota/persist.py).        *)
(*                                                                         *)
(* Of a response only the cost is kept, as a natural number; the token     *)
(* counters move with it.  Dictionaries are functions on a finite domain.  *)
(* Time is counted in days.  A bucket's last_seen is the number of the     *)
(* response that touched it last: responses within one second, whose order *)
(* the code takes from the dictionary, are thus told apart the same way.   *)
(***************************************************************************)
EXTENDS Integers, FiniteSets, Functions

CONSTANTS
    Session, User, Account,  \* ids seen in requests
    None,                    \* no session id, no label, no account
    QUOTA_MAX_SESSIONS,
    QUOTA_MAX_DAYS,
    QUOTA_MAX_DAY_SESSIONS,
    MAX_ACCOUNTS,
    DaysPerMonth,
    MaxDay,                  \* bound: the last day of a run
    MaxSteps,                \* bound: responses of a run
    MaxCrashes               \* bound: crashes and shutdowns of a run

ASSUME ConstantsAssumption ==
    /\ None \notin Session \cup User \cup Account
    /\ {QUOTA_MAX_SESSIONS, QUOTA_MAX_DAYS, QUOTA_MAX_DAY_SESSIONS,
        MAX_ACCOUNTS, DaysPerMonth} \subseteq Nat \ {0}
    /\ {MaxDay, MaxSteps, MaxCrashes} \subseteq Nat

UNLABELED == "(unlabeled)"

VARIABLES
    phase,      \* "up", "closing" after the forced save of a shutdown, "down"
    tracking,   \* QUOTA_TRACKING_ENABLED, in the process and in .env
    stats,      \* quota_stats
    disk,       \* .quota.json, in the same shape; NoFile before the first save
    due,        \* QUOTA_PERSIST_INTERVAL has passed since the last save
    today,      \* the local date
    steps,      \* responses so far: the clock of last_seen (bound)
    crashes,    \* (bound)
    thisMonth,  \* history: the cost of all responses recorded this month
    lossy,      \* history: some of it was lost to this process this month
    saved,      \* history: nothing was recorded since the last save or load;
                \* an orderly shutdown that can write counts as a save
    loaded      \* history: this process read the file, or has replaced it

history == <<thisMonth, lossy, saved, loaded>>
vars == <<phase, tracking, stats, disk, due, today, steps, crashes, history>>

Month == today \div DaysPerMonth
NoMonth == -1
Empty == [k \in {} |-> 0]
NoFile == [file |-> "none"]

EmptyLedger ==
    [total |-> 0, by_session |-> Empty, by_day |-> Empty,
     by_day_user |-> Empty, by_day_session |-> Empty, accounts |-> Empty,
     period_month |-> NoMonth]

-----------------------------------------------------------------------------
(* Dictionaries.                                                           *)

GetOr(f, k, default) == IF k \in DOMAIN f THEN f[k] ELSE default
Put(f, k, v) == [x \in DOMAIN f \cup {k} |-> IF x = k THEN v ELSE f[x]]
Drop(f, ks) == Restrict(f, DOMAIN f \ ks)
Add(f, k, cost) == Put(f, k, GetOr(f, k, 0) + cost)
Total(f) == FoldFunction(+, 0, f)
Costs(f) == [k \in DOMAIN f |-> f[k].cost]

\* the key of the least age, once there are more than max of them
Oldest(age, max) ==
    IF Cardinality(DOMAIN age) <= max THEN {}
    ELSE {CHOOSE k \in DOMAIN age : \A j \in DOMAIN age : age[k] <= age[j]}

LastSeen(f) == [k \in DOMAIN f |-> f[k].last_seen]

Touch(f, k, cost) ==
    Put(f, k, [cost |-> GetOr(Costs(f), k, 0) + cost, last_seen |-> steps + 1])

-----------------------------------------------------------------------------
(* The parts of _record_usage.                                             *)

\* mutant: the cap is applied before the session is added
EvictsFirst(q, s, cost) ==
    IF s = None THEN q
    ELSE [q EXCEPT !.by_session =
            Touch(Drop(@, Oldest(LastSeen(@), QUOTA_MAX_SESSIONS)), s, cost)]

AddSession(q, s, cost) ==
    IF s = None THEN q
    ELSE LET f == Touch(q.by_session, s, cost)
         IN  [q EXCEPT !.by_session = Drop(f, Oldest(LastSeen(f), QUOTA_MAX_SESSIONS))]

_record_day_session(q, s, cost) ==
    IF s = None THEN q
    ELSE LET day == Touch(GetOr(q.by_day_session, today, Empty), s, cost)
         IN  [q EXCEPT !.by_day_session =
                Put(@, today, Drop(day, Oldest(LastSeen(day), QUOTA_MAX_DAY_SESSIONS)))]

\* mutant: the newest date goes first
NewestDay(f) ==
    IF Cardinality(DOMAIN f) <= QUOTA_MAX_DAYS THEN {}
    ELSE {CHOOSE d \in DOMAIN f : \A e \in DOMAIN f : d >= e}

OldestDay(f) == Oldest([d \in DOMAIN f |-> d], QUOTA_MAX_DAYS)

AddDay(q, cost) ==
    LET f == Add(q.by_day, today, cost)
    IN  [q EXCEPT !.by_day = Drop(f, OldestDay(f))]

\* by_day_user, and the dates by_day no longer has: only for a labelled user
AddDayUser(q, u, cost) ==
    IF u = None THEN q
    ELSE LET f == Put(q.by_day_user, today,
                      Add(GetOr(q.by_day_user, today, Empty), u, cost))
         IN  [q EXCEPT !.by_day_user = Restrict(f, DOMAIN f \cap DOMAIN q.by_day),
                       !.by_day_session =
                          Restrict(@, DOMAIN @ \cap DOMAIN q.by_day)]

\* an account without a response yet is older than any that has one
AccountAge(f) ==
    [k \in DOMAIN f |-> IF f[k].last_seen = 0 THEN f[k].first_seen
                        ELSE MaxSteps + f[k].last_seen]

\* accounts.py:_bucket - the accounts once there is a bucket for a, and the
\* oldest of too many, which may be the new one, is gone
_bucket(accounts, a) ==
    IF a \in DOMAIN accounts THEN accounts
    ELSE LET f == Put(accounts, a, [cost |-> 0, members |-> Empty,
                                    first_seen |-> steps + 1, last_seen |-> 0])
         IN  Drop(f, Oldest(AccountAge(f), MAX_ACCOUNTS))

\* mutant: an unlabelled response has no member row
LabelledOnly(b, u, cost) ==
    [b EXCEPT !.cost = @ + cost, !.last_seen = steps + 1,
              !.members = IF u = None THEN @ ELSE Add(@, u, cost)]

ChargedAccount(b, u, cost) ==
    [b EXCEPT !.cost = @ + cost, !.last_seen = steps + 1,
              !.members = Add(@, IF u = None THEN UNLABELED ELSE u, cost)]

\* what is charged to a bucket that has just been evicted is seen by nobody
record_account_usage(q, a, u, cost) ==
    IF a = None THEN q
    ELSE LET f == _bucket(q.accounts, a)
         IN  [q EXCEPT !.accounts =
                IF a \in DOMAIN f THEN Put(f, a, ChargedAccount(f[a], u, cost)) ELSE f]

\* the totals and by_model, which nothing evicts
AddTotals(q, cost) == [q EXCEPT !.total = @ + cost]

Recorded(q, s, u, a, cost) ==
    AddDayUser(
      record_account_usage(
        AddDay(_record_day_session(AddSession(AddTotals(q, cost), s, cost), s, cost),
               cost),
        a, u, cost),
      u, cost)

-----------------------------------------------------------------------------
(* The monthly reset and the file.                                         *)

NewMonth(q) == q.period_month \notin {NoMonth, Month}

Cleared(q) ==
    [q EXCEPT !.total = 0, !.by_session = Empty,
              !.accounts = [a \in DOMAIN @ |-> [@[a] EXCEPT !.cost = 0, !.members = Empty]]]

\* mutant: the new month is stamped, nothing is cleared
StampsOnly(q) == [q EXCEPT !.period_month = Month]

\* _check_monthly_reset, all but its save
Reset(q) == [(IF NewMonth(q) THEN Cleared(q) ELSE q) EXCEPT !.period_month = Month]

\* Its forced save comes before period_month is set: the file names the old
\* month.  ok: the write succeeded.
ResetFile(q, file, ok) == IF NewMonth(q) /\ ok THEN Cleared(q) ELSE file
DueAfterReset(q, was, ok) == was /\ ~(NewMonth(q) /\ ok)

-----------------------------------------------------------------------------
(* Actions.                                                                *)

\* _record_usage for a response of this cost.  With tracking off it returns at
\* once.  In closing it is the end of a stream that is collected at an await
\* after the forced save, or by the event loop on its way out.
Record(s, u, a, cost, ok) ==
    LET before == Reset(stats)
        q == Recorded(before, s, u, a, cost)
        save == DueAfterReset(stats, due, ok)
    IN  /\ phase # "down"
        /\ tracking
        /\ steps < MaxSteps
        /\ stats' = q
        /\ disk' = IF save /\ ok THEN q ELSE ResetFile(stats, disk, ok)
        /\ due' = (save /\ ~ok)
        /\ steps' = steps + 1
        /\ thisMonth' = thisMonth + cost
        /\ saved' = (save /\ ok)
        /\ loaded' = (loaded \/ disk' # disk)
        /\ UNCHANGED <<phase, tracking, today, crashes, lossy>>

\* _record_rate_limits: the headers of an account's first response make a
\* bucket, before its usage is known (afterwards they only replace limits)
Headers(a) ==
    /\ phase = "up"
    /\ tracking
    /\ steps < MaxSteps
    /\ a \notin DOMAIN stats.accounts
    /\ stats' = [stats EXCEPT !.accounts = _bucket(@, a)]
    /\ steps' = steps + 1
    /\ UNCHANGED <<phase, tracking, disk, due, today, crashes, history>>

\* the console's QUOTA_TRACKING, a live setting, or an edit of .env meanwhile
Switch ==
    /\ phase # "closing"
    /\ tracking' = ~tracking
    /\ UNCHANGED <<phase, stats, disk, due, today, steps, crashes, history>>

\* mutant: the save of the shutdown waits for its interval like any other
FinalSaveIfDue(ok) == tracking /\ ok /\ due

FinalSave(ok) == tracking /\ ok

\* lifespan shutdown: the forced save, which is nothing with tracking off
Shutdown(ok) ==
    LET writes == FinalSave(ok)
    IN  /\ phase = "up"
        /\ crashes < MaxCrashes
        /\ crashes' = crashes + 1
        /\ phase' = "closing"
        /\ disk' = IF writes THEN stats ELSE disk
        /\ due' = (due /\ ~writes)
        /\ saved' = (saved \/ (tracking /\ ok))
        /\ loaded' = (loaded \/ writes)
        /\ UNCHANGED <<tracking, stats, today, steps, thisMonth, lossy>>

\* the process is gone, and its memory
Gone ==
    /\ phase' = "down"
    /\ stats' = EmptyLedger
    /\ due' = TRUE
    /\ lossy' = (lossy \/ (thisMonth > 0 /\ ~saved))
    /\ saved' = TRUE
    /\ loaded' = TRUE
    /\ UNCHANGED <<tracking, disk, today, steps, thisMonth>>

Exit ==
    /\ phase = "closing"
    /\ Gone
    /\ UNCHANGED crashes

Crash ==
    /\ phase = "up"
    /\ crashes < MaxCrashes
    /\ crashes' = crashes + 1
    /\ Gone

\* mutant: the daily buckets are not read back
LoadedV1(file) == [file EXCEPT !.by_day = Empty]

Loaded(file) == file

\* A new process: load, which ends with the monthly check.  With tracking off,
\* or a file that cannot be read or has another version, it starts empty, and
\* the next save replaces the file.
Start(reads, ok) ==
    /\ phase = "down"
    /\ phase' = "up"
    /\ IF tracking /\ reads /\ disk # NoFile
       THEN /\ stats' = Reset(Loaded(disk))
            /\ disk' = ResetFile(disk, disk, ok)
            /\ due' = DueAfterReset(disk, TRUE, ok)
            /\ UNCHANGED <<lossy, loaded>>
       ELSE /\ loaded' = (disk = NoFile)
            /\ lossy' = (lossy \/ (thisMonth > 0 /\ ~loaded'))
            /\ UNCHANGED <<stats, disk, due>>
    /\ UNCHANGED <<tracking, today, steps, crashes, thisMonth, saved>>

\* QUOTA_PERSIST_INTERVAL passes
IntervalPasses ==
    /\ phase = "up"
    /\ ~due
    /\ due' = TRUE
    /\ UNCHANGED <<phase, tracking, stats, disk, today, steps, crashes, history>>

Midnight ==
    /\ today < MaxDay
    /\ today' = today + 1
    /\ LET same == Month' = Month
       IN  /\ thisMonth' = IF same THEN thisMonth ELSE 0
           /\ lossy' = (same /\ lossy)
    /\ UNCHANGED <<phase, tracking, stats, disk, due, steps, crashes, saved, loaded>>

Init ==
    /\ phase = "up"
    /\ tracking \in BOOLEAN
    /\ stats = EmptyLedger
    /\ disk = NoFile
    /\ due = TRUE
    /\ today = 0
    /\ steps = 0
    /\ crashes = 0
    /\ thisMonth = 0
    /\ lossy = FALSE
    /\ saved = TRUE
    /\ loaded = TRUE

Next ==
    \/ \E s \in Session \cup {None}, u \in User \cup {None},
         a \in Account \cup {None}, ok \in BOOLEAN : Record(s, u, a, 1, ok)
    \/ \E a \in Account : Headers(a)
    \/ \E ok \in BOOLEAN : Shutdown(ok)
    \/ Exit
    \/ Crash
    \/ Switch
    \/ \E reads, ok \in BOOLEAN : Start(reads, ok)
    \/ IntervalPasses
    \/ Midnight

Spec == Init /\ [][Next]_vars

-----------------------------------------------------------------------------
(* Properties.                                                             *)

Dict(K, V) == UNION {[D -> V] : D \in SUBSET K}
Days == 0..MaxDay
Bucket == [cost : 0..MaxSteps, last_seen : 0..MaxSteps]
Member == User \cup {UNLABELED}

LedgerOK(q) ==
    /\ q.total \in Nat
    /\ q.by_session \in Dict(Session, Bucket)
    /\ Cardinality(DOMAIN q.by_session) <= QUOTA_MAX_SESSIONS
    /\ q.by_day \in Dict(Days, 0..MaxSteps)
    /\ Cardinality(DOMAIN q.by_day) <= QUOTA_MAX_DAYS
    /\ DOMAIN q.by_day_user \subseteq Days
    /\ \A d \in DOMAIN q.by_day_user : q.by_day_user[d] \in Dict(User, 0..MaxSteps)
    /\ DOMAIN q.by_day_session \subseteq Days
    /\ \A d \in DOMAIN q.by_day_session :
         /\ q.by_day_session[d] \in Dict(Session, Bucket)
         /\ Cardinality(DOMAIN q.by_day_session[d]) <= QUOTA_MAX_DAY_SESSIONS
    /\ DOMAIN q.accounts \subseteq Account
    /\ Cardinality(DOMAIN q.accounts) <= MAX_ACCOUNTS
    /\ \A a \in DOMAIN q.accounts : q.accounts[a].members \in Dict(Member, 0..MaxSteps)
    /\ q.period_month \in Int

TypeOK ==
    /\ phase \in {"up", "closing", "down"}
    /\ LedgerOK(stats)
    /\ disk = NoFile \/ LedgerOK(disk)
    /\ {tracking, due, lossy, saved, loaded} \subseteq BOOLEAN
    /\ {today, steps, crashes, thisMonth} \subseteq Nat

\* The breakdowns never claim more than what they break down, and an account's
\* members add up to exactly its cost - through every eviction, reset, crash
\* and reload, in memory and in the file.
AddsUp(q) ==
    /\ Total(Costs(q.by_session)) <= q.total
    /\ Total(Costs(q.accounts)) <= q.total
    /\ \A a \in DOMAIN q.accounts : Total(q.accounts[a].members) = q.accounts[a].cost
    /\ \A d \in DOMAIN q.by_day :
         /\ Total(GetOr(q.by_day_user, d, Empty)) <= q.by_day[d]
         /\ Total(Costs(GetOr(q.by_day_session, d, Empty))) <= q.by_day[d]
BreakdownsAddUp == AddsUp(stats) /\ (disk # NoFile => AddsUp(disk))

\* The period's total is what was recorded this month: never a cost of an
\* earlier month, whatever crash or failed write falls between the reset, its
\* save and the stamp of the new month; and all of it, unless a process died
\* with something unsaved or one started without reading the file.  An orderly
\* shutdown loses nothing but what is recorded after its save.
TotalIsThisMonth ==
    phase # "down" =>
        /\ stats.period_month = Month => stats.total <= thisMonth
        /\ stats.period_month = NoMonth => stats.total = 0
        /\ ~lossy => IF stats.period_month = Month THEN stats.total = thisMonth
                     ELSE thisMonth = 0

\* What is in the file was in memory: within a period no total and no day is
\* ever larger on disk than in the process that loaded it, or replaced it.
FileNeverAhead ==
    phase # "down" /\ loaded /\ disk # NoFile =>
        /\ disk.period_month = stats.period_month => disk.total <= stats.total
        /\ \A d \in DOMAIN disk.by_day \cap DOMAIN stats.by_day :
             disk.by_day[d] <= stats.by_day[d]

\* Dates that by_day has dropped while the per-user or per-session split still
\* holds them are older than every date it kept: the daily history is always
\* the most recent one, and a dropped date never comes back beside its split.
LeftoversAreOld ==
    \A d \in (DOMAIN stats.by_day_user \cup DOMAIN stats.by_day_session)
                \ DOMAIN stats.by_day :
        \A kept \in DOMAIN stats.by_day : d < kept

\* README, "Several Claude accounts": each account gets its spend this month.
AccountCharged ==
    [][\A s \in Session \cup {None}, u \in User \cup {None}, a \in Account,
         ok \in BOOLEAN :
         Record(s, u, a, 1, ok) => a \in DOMAIN stats'.accounts]_vars
=============================================================================
