------------------------------ MODULE CacheTtl -----------------------------
(***************************************************************************)
(* The statistics by which one sees whether a cache entry of an hour pays  *)
(* (quota/cache_ttl.py): how long a session pauses between two turns with  *)
(* a model, and how often clients ask for the hour themselves.  The last   *)
(* turns are kept for _MAX_TRACKED pairs of session and model, in memory   *)
(* only; the counts are a part of the quota file, start again with the     *)
(* month, and come back with a restart (quota/persist.py).  The rest of    *)
(* that file is the subject of QuotaLedger, and so are files that cannot   *)
(* be read.  The amounts of money that go with a pause are left out.       *)
(***************************************************************************)
EXTENDS Integers, Sequences, SequencesExt, FiniteSets

CONSTANTS
    NoSession,
    FIVE_MIN, ONE_HOUR,     \* in ticks of the clock
    _MAX_TRACKED

ASSUME CacheTtlAssumption ==
    /\ {FIVE_MIN, ONE_HOUR, _MAX_TRACKED} \subseteq Nat \ {0}
    /\ FIVE_MIN <= ONE_HOUR

VARIABLES
    now, month,
    quota,          \* QUOTA_TRACKING_ENABLED and QUOTA_MONTHLY_RESET
    period_month,
    gaps,
    counted,        \* requests_client_1h, requests_forced_5m
    stored,         \* the three in .quota.json; NoFile before the first save
    _last_turn,     \* the pairs in the order of their last turns, [key, at]
    turns,          \* history: this process's turns of known sessions, [key, at]
    since,          \* history: how many of them were before the last reset
    loaded          \* history: the gaps it began with, or nothing after a reset

countVars == <<period_month, gaps, counted, stored>>
turnVars == <<_last_turn, turns, since, loaded>>
ttlVars == <<now, month, quota, countVars, turnVars>>

Pause == {"under_5m", "5m_to_1h", "over_1h"}

Quotas == [tracking : BOOLEAN, reset : BOOLEAN]

NoMonth == 0
NoFile == [file |-> "none"]
NoGaps == [p \in Pause |-> 0]
NothingCounted == [client_1h |-> 0, forced_5m |-> 0]

File(period, g, c) == [period_month |-> period, gaps |-> g, counted |-> c]

TtlInit ==
    /\ now = 0 /\ month = 1
    /\ period_month = NoMonth
    /\ gaps = NoGaps
    /\ counted = NothingCounted
    /\ stored = NoFile
    /\ _last_turn = <<>>
    /\ turns = <<>> /\ since = 0 /\ loaded = NoGaps

-----------------------------------------------------------------------------

PauseOf(gap) ==
    IF gap < FIVE_MIN THEN "under_5m"
    ELSE IF gap <= ONE_HOUR THEN "5m_to_1h" ELSE "over_1h"

Places(key) == {i \in DOMAIN _last_turn : _last_turn[i].key = key}

\* _last_turn.pop(key, None)
Without(key) ==
    IF Places(key) = {} THEN _last_turn
    ELSE RemoveAt(_last_turn, CHOOSE i \in Places(key) : TRUE)

\* mutant: a pair is overwritten where it stands
Overwritten(turn) ==
    IF Places(turn.key) = {} THEN Append(_last_turn, turn)
    ELSE [i \in DOMAIN _last_turn |-> IF i \in Places(turn.key) THEN turn ELSE _last_turn[i]]

\* a pair that has a turn moves to the end
Moved(turn) == Append(Without(turn.key), turn)

\* g are the gaps before
record_cache_ttl_usage(session, model_key, g) ==
    IF session = NoSession THEN gaps' = g /\ UNCHANGED <<_last_turn, turns>>
    ELSE
    LET turn  == [key |-> <<session, model_key>>, at |-> now]
        moved == Moved(turn)
    IN  /\ _last_turn' = IF Len(moved) > _MAX_TRACKED THEN Tail(moved) ELSE moved
        /\ gaps' = [p \in Pause |->
                       g[p] + Cardinality({i \in Places(turn.key) :
                                                  PauseOf(now - _last_turn[i].at) = p})]
        /\ turns' = Append(turns, turn)

\* _check_monthly_reset, in month m: whether it clears the counts of a period,
\* and the period there is afterwards
Clears(period, m) == quota.reset /\ period \notin {NoMonth, m}
Stamped(period, m) == IF quota.reset THEN m ELSE period

\* the save of the reset comes before the new period is stamped
Cleared(period) == File(period, NoGaps, NothingCounted)

\* What _record_usage does to the counts.  A save goes through or not: it may be
\* too early for one, or the write may fail.
_record_usage(session, model_key) ==
    IF ~quota.tracking THEN UNCHANGED <<countVars, turnVars>>
    ELSE LET clears == Clears(period_month, month)
         IN  /\ period_month' = Stamped(period_month, month)
             /\ counted' = IF clears THEN NothingCounted ELSE counted
             /\ record_cache_ttl_usage(session, model_key, IF clears THEN NoGaps ELSE gaps)
             /\ since' = IF clears THEN Len(turns) ELSE since
             /\ loaded' = IF clears THEN NoGaps ELSE loaded
             /\ stored' \in {stored, File(period_month', gaps', counted')}
                               \cup IF clears THEN {Cleared(period_month)} ELSE {}

\* record_client_cache_ttl and force_short_ttl, of a request in which the client
\* asks for the hour and is denied it
CountRequest(asked, forced) ==
    counted' = [client_1h |-> counted.client_1h + (IF asked THEN 1 ELSE 0),
                forced_5m |-> counted.forced_5m + (IF forced THEN 1 ELSE 0)]

\* The process ends, with the forced save of a shutdown or without, and in
\* month m the next one starts: _load_quota_stats.
Reload(m) ==
    \E file \in {stored} \cup IF quota.tracking THEN {File(period_month, gaps, counted)} ELSE {} :
      LET reads  == quota.tracking /\ file # NoFile
          clears == reads /\ Clears(file.period_month, m)
      IN  /\ month' = m
          /\ period_month' = IF reads THEN Stamped(file.period_month, m) ELSE NoMonth
          /\ gaps' = IF reads /\ ~clears THEN file.gaps ELSE NoGaps
          /\ counted' = IF reads /\ ~clears THEN file.counted ELSE NothingCounted
          /\ stored' \in {file} \cup IF clears THEN {Cleared(file.period_month)} ELSE {}
          /\ _last_turn' = <<>>
          /\ turns' = <<>> /\ since' = 0 /\ loaded' = gaps'
          /\ UNCHANGED <<now, quota>>

-----------------------------------------------------------------------------

\* the turn before the i-th of the same session and model
Before(i) == {j \in 1 .. i - 1 : /\ turns[j].key = turns[i].key
                                 /\ \A k \in j + 1 .. i - 1 : turns[k].key # turns[i].key}

Between(j, i) == {turns[k].key : k \in j + 1 .. i - 1}

(* Beside what the process began with, each turn of the month is counted   *)
(* with the pause since the previous one of its session and model, which   *)
(* may have been in the month before, unless as many other pairs as are    *)
(* kept have had turns since then; the first of a pair after a start is    *)
(* counted with none.                                                      *)
PausesRight ==
    \A p \in Pause :
        gaps[p] = loaded[p] + Cardinality({i \in since + 1 .. Len(turns) :
                      \E j \in Before(i) : /\ Cardinality(Between(j, i)) < _MAX_TRACKED
                                           /\ PauseOf(turns[i].at - turns[j].at) = p})
=============================================================================
