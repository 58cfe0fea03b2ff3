-------------------------- MODULE LifespanProofs ---------------------------
(***************************************************************************)
(* What the prices, the alerts and the coach's file promise over starts,   *)
(* shutdowns and crashes, for every value of the constants and whatever    *)
(* the budgets of a run.                                                   *)
(*                                                                         *)
(* The three parts share no state: of each, a lemma says what a step of    *)
(* the process may do to it, and the invariants follow part by part.       *)
(***************************************************************************)
EXTENDS Lifespan, FiniteSetTheorems, SequenceTheorems, WellFoundedInduction, TLAPS

-----------------------------------------------------------------------------
(* The prices.                                                             *)

PricingStep ==
    \/ \E m : Charge(m)
    \/ \E f \in Fetcher : BeginRefresh(f) \/ Answered(f) \/ EndRefresh(f) \/ RefreshFails(f)
    \/ pricing_view
    \/ Publish
    \/ Tomorrow
    \/ ForgetPrices
    \/ load_cached_remote
    \/ UNCHANGED pricingVars

(* The table in use, and the cache file, are the newest document's unless  *)
(* there is a reason; and an answer can be older than what was installed   *)
(* only if that came while its fetcher was waiting.                        *)
PricesInv ==
    /\ day \in Nat
    /\ published \in Nat \ {0}
    /\ PricingTypeOK
    /\ _table # newest => stale # {}
    /\ priceCache # newest => stale # {}
    /\ \A f \in Fetcher \ overlapped : fetch[f] >= 0 => fetch[f] >= newest
    /\ PricesRight

LEMMA PricingSteps == [Next]_vars => PricingStep
  <1> SUFFICES ASSUME [Next]_vars PROVE PricingStep
    OBVIOUS
  <1> USE DEF PricingStep
  <1>1. CASE Start
    BY <1>1 DEF Start
  <1>2. CASE Stop \/ Crash
    BY <1>2 DEF Stop, Crash
  <1>3. ASSUME NEW m, NEW u, EndTurn(m, u)
        PROVE  PricingStep
    BY <1>3 DEF EndTurn, pricingVars
  <1>4. ASSUME NEW f \in Fetcher, Refresh(f)
        PROVE  PricingStep
    BY <1>4 DEF Refresh
  <1>5. CASE ViewPrices \/ NewDocument \/ NextDay
    BY <1>5 DEF ViewPrices, NewDocument, NextDay
  <1>6. CASE \/ Wait \/ SaveAll \/ Exit \/ SetCoach \/ Interval \/ ClockTick
    BY <1>6 DEF Wait, SaveAll, Exit, SetCoach, Interval, ClockTick
  <1>7. CASE \/ \E u, n : ToolResults(u, n)
             \/ \E k : Alert(k)
             \/ \E i : AlertEnds(i)
             \/ \E r, open : Mark(r, open)
    BY <1>7 DEF ToolResults, Alert, AlertEnds, Mark
  <1>8. CASE UNCHANGED vars
    BY <1>8 DEF vars
  <1> QED
    BY <1>1, <1>2, <1>3, <1>4, <1>5, <1>6, <1>7, <1>8 DEF Next

LEMMA InitPrices == Init => PricesInv
  <1> SUFFICES ASSUME Init PROVE PricesInv
    OBVIOUS
  <1> USE DEF Init, PricingInit
  <1>1. PricingTypeOK
    BY DEF PricingTypeOK, Idle, Asked
  <1>2. PricesRight
    BY DEF PricesRight, NoCharge
  <1> QED
    BY <1>1, <1>2 DEF PricesInv, Idle

\* today's rates are the ones the table has for today
LEMMA EnsureToday ==
    ASSUME PricingTypeOK, _ensure_today
    PROVE  PRICING' = InForce(_table, day) /\ _priced_day' = day
  BY DEF PricingTypeOK, _ensure_today

LEMMA ChargeRight ==
    ASSUME PricesInv, NEW m, Charge(m)
    PROVE  PricesRight'
  <1> SUFFICES ASSUME charged'.excuse = {}
               PROVE  charged'.price = charged'.right
    BY DEF PricesRight
  <1>1. charged' = [price  |-> PriceOf(_normalize_model_key(m), PRICING'),
                    right  |-> RightPrice(m),
                    excuse |-> IF _table # newest THEN stale
                               ELSE IF DOMAIN PRICING # DOMAIN InForce(_table, day)
                               THEN {"new key"} ELSE {}]
    BY DEF Charge
  <1>2. _table = newest
    BY <1>1 DEF PricesInv
  <1>3. DOMAIN PRICING = DOMAIN InForce(newest, day)
    BY <1>1, <1>2
  <1>4. PRICING' = InForce(newest, day)
    BY <1>2, EnsureToday DEF PricesInv, Charge
  <1>5. _normalize_model_key(m) = KeyAmong(m, DOMAIN InForce(newest, day))
    BY <1>3 DEF _normalize_model_key
  <1> QED
    BY <1>1, <1>4, <1>5 DEF RightPrice

LEMMA PriceViewSteps ==
    ASSUME PricesInv, (\E m : Charge(m)) \/ pricing_view
    PROVE  PricesInv'
  <1>1. PRICING' = InForce(_table, day) /\ _priced_day' = day
    BY EnsureToday DEF PricesInv, Charge, pricing_view
  <1>2. UNCHANGED <<day, _table, priceCache, published, fetch, overlapped, newest, stale>>
    BY DEF Charge, pricing_view
  <1>3. PricesRight'
    <2>1. CASE \E m : Charge(m)
      BY <2>1, ChargeRight
    <2>2. CASE pricing_view
      BY <2>2 DEF pricing_view, PricesInv, PricesRight
    <2> QED
      BY <2>1, <2>2
  <1>4. PricingTypeOK'
    BY <1>1, <1>2 DEF PricesInv, PricingTypeOK
  <1> QED
    BY <1>2, <1>3, <1>4 DEF PricesInv

LEMMA FetchSteps ==
    ASSUME PricesInv, NEW f \in Fetcher, BeginRefresh(f) \/ Answered(f) \/ RefreshFails(f)
    PROVE  PricesInv'
  <1> USE DEF PricesInv, PricingTypeOK, Idle, Asked
  <1>1. UNCHANGED <<day, _table, PRICING, _priced_day, priceCache, published, newest, stale,
                    charged>>
    BY DEF BeginRefresh, Answered, RefreshFails
  <1>2. PricesRight'
    BY <1>1 DEF PricesRight
  <1>3. CASE BeginRefresh(f)
    BY <1>1, <1>2, <1>3 DEF BeginRefresh
  <1>4. CASE Answered(f)
    BY <1>1, <1>2, <1>4 DEF Answered
  <1>5. CASE RefreshFails(f)
    BY <1>1, <1>2, <1>5 DEF RefreshFails
  <1> QED
    BY <1>3, <1>4, <1>5

LEMMA EndRefreshStep ==
    ASSUME PricesInv, NEW f \in Fetcher, EndRefresh(f)
    PROVE  PricesInv'
  <1> USE DEF PricesInv, PricingTypeOK, Idle, Asked
  <1>1. UNCHANGED <<day, published, charged>> /\ fetch[f] >= 0
        /\ fetch' = [fetch EXCEPT ![f] = Idle]
    BY DEF EndRefresh
  <1>2. PricesRight'
    BY <1>1 DEF PricesRight
  <1>3. CASE parse_pricing(Documents[fetch[f]])
    <2>1. /\ _table' = fetch[f] /\ PRICING' = InForce(fetch[f], day) /\ _priced_day' = day
          /\ priceCache' \in {fetch[f], priceCache}
          /\ overlapped' = {g \in Fetcher \ {f} : fetch[g] # Idle} \cup overlapped
          /\ newest' = IF fetch[f] > newest THEN fetch[f] ELSE newest
          /\ stale' = IF fetch[f] < newest
                      THEN stale \cup IF f \in overlapped THEN {"overtaken"} ELSE {}
                      ELSE IF priceCache' = fetch[f] THEN {} ELSE stale \cup {"unwritten"}
      BY <1>3 DEF EndRefresh, install_table
    <2>2. PricingTypeOK'
      BY <1>1, <2>1
    <2>3. fetch[f] < newest => f \in overlapped /\ stale' # {}
      BY <1>1, <2>1
    <2>4. fetch[f] >= newest =>
            /\ newest' = fetch[f]
            /\ priceCache' # newest' => stale' # {}
      BY <2>1
    <2>5. \A g \in Fetcher \ overlapped' : fetch'[g] >= 0 => fetch'[g] >= newest'
      BY <1>1, <2>1
    <2> QED
      BY <1>1, <1>2, <2>1, <2>2, <2>3, <2>4, <2>5
  <1>4. CASE ~parse_pricing(Documents[fetch[f]])
    <2>1. UNCHANGED <<_table, PRICING, _priced_day, priceCache, overlapped, newest, stale>>
      BY <1>4 DEF EndRefresh
    <2> QED
      BY <1>1, <1>2, <2>1
  <1> QED
    BY <1>3, <1>4

LEMMA LoadPrices ==
    ASSUME PricesInv, load_cached_remote
    PROVE  PricesInv'
  <1> USE DEF PricesInv, PricingTypeOK
  <1> PICK n \in {0, priceCache} :
        /\ install_table(n)
        /\ stale' = IF n = priceCache THEN stale ELSE stale \cup {"unread"}
    BY DEF load_cached_remote
  <1>1. UNCHANGED <<day, priceCache, published, fetch, overlapped, newest, charged>>
    BY DEF load_cached_remote
  <1>2. PricesRight'
    BY <1>1 DEF PricesRight
  <1> QED
    BY <1>1, <1>2 DEF install_table

LEMMA OtherPriceSteps ==
    ASSUME PricesInv, Publish \/ Tomorrow \/ ForgetPrices \/ UNCHANGED pricingVars
    PROVE  PricesInv'
  <1> USE DEF PricesInv, PricingTypeOK, Idle, Asked
  <1>1. UNCHANGED <<_table, PRICING, _priced_day, priceCache, overlapped, newest, stale,
                    charged>>
    BY DEF Publish, Tomorrow, ForgetPrices, pricingVars
  <1>2. PricesRight'
    BY <1>1 DEF PricesRight
  <1>3. CASE Publish
    BY <1>1, <1>2, <1>3 DEF Publish
  <1>4. CASE Tomorrow
    BY <1>1, <1>2, <1>4 DEF Tomorrow
  <1>5. CASE ForgetPrices
    BY <1>1, <1>2, <1>5 DEF ForgetPrices
  <1>6. CASE UNCHANGED pricingVars
    BY <1>1, <1>2, <1>6 DEF pricingVars
  <1> QED
    BY <1>3, <1>4, <1>5, <1>6

LEMMA PricesInvHolds == Spec => []PricesInv
  <1>1. PricesInv /\ [Next]_vars => PricesInv'
    BY PricingSteps, PriceViewSteps, FetchSteps, EndRefreshStep, LoadPrices, OtherPriceSteps
       DEF PricingStep
  <1> QED
    BY InitPrices, <1>1, PTL DEF Spec

(* A response is charged at the day's rate of the newest document any      *)
(* refresh has brought (calculate_cost, install_table, load_cached_remote, *)
(* remote_pricing_loop), unless one of the excuses holds.                  *)
THEOREM RightPrices == Spec => []PricesRight
  BY PricesInvHolds, PTL DEF PricesInv
-----------------------------------------------------------------------------
(* The alerts.                                                             *)

BudgetOK == budget \in Budget

NotifyStep == Up /\ UNCHANGED phase /\ \E k \in Keys : notify(k)

OtherAlertStep ==
    \/ UNCHANGED phase /\ \E i : Sent(i)
    \/ UNCHANGED phase /\ ClockTicks
    \/ Running /\ phase' = "draining" /\ BeginDrain
    \/ phase = "draining" /\ UNCHANGED phase /\ DrainTimesOut
    \/ phase = "draining" /\ Drained /\ phase' = "closing" /\ UNCHANGED alertVars
    \/ phase = "closing" /\ phase' = "off" /\ AbandonTasks
    \/ NewAlerts /\ phase' \in {"off", "running"}
    \/ UNCHANGED <<alertVars, phase>>

\* the keys of the places i+1 to j-1 of a queue
Between(q, i, j) == {q[n].key : n \in i + 1 .. j - 1}

Entry == [key : Keys, at : 0..clock]

(* What the map s knows of the queue q: keys that were queued, each once;  *)
(* behind a key, but the stall's, only keys queued since; and the time of  *)
(* the last stall.                                                         *)
Remembers(s, q) ==
    /\ \A p, r \in DOMAIN s : s[p].key = s[r].key => p = r
    /\ \A p \in DOMAIN s : \E i \in DOMAIN q : q[i].key = s[p].key
    /\ \A p, r \in DOMAIN s, i \in DOMAIN q :
         p < r /\ s[p].key # Stall /\ q[i].key = s[p].key
            => s[r].key \in Between(q, i, Len(q) + 1)
    /\ \A p \in DOMAIN s, i \in DOMAIN q :
         s[p].key = Stall /\ q[i].key = Stall => q[i].at <= s[p].at

\* what has to have happened since place i of q for its key to be forgotten
Excused(q, i, j) ==
    /\ q[i].key # Stall => Cardinality(Between(q, i, j)) >= _MAX_KEYS
    /\ q[i].key = Stall =>
         /\ Cardinality(Between(q, 0, j) \ {Stall}) >= _MAX_KEYS
         /\ Between(q, i, j) # {}

\* a key that was queued is in the map, unless it had to be forgotten
Forgets(s, q) ==
    \A i \in DOMAIN q : Places(s, q[i].key) = {} => Excused(q, i, Len(q) + 1)

MapInv ==
    /\ clock \in Nat
    /\ queued \in Seq(Entry)
    /\ _sent \in Seq(Entry)
    /\ Len(_sent) <= _MAX_KEYS
    /\ Remembers(_sent, queued)
    /\ Forgets(_sent, queued)
    /\ RepeatsExplained

(* The tasks are places of the queue; those a shutdown owes an answer are  *)
(* the ones it waits for, and none when it is over.                        *)
TasksInv ==
    /\ phase \in {"off", "running", "draining", "closing"}
    /\ queued \in Seq(Entry)
    /\ _tasks \cup awaited \cup due \cup unsent \subseteq DOMAIN queued
    /\ due \cap _tasks \subseteq awaited
    /\ phase = "closing" => due \cap _tasks = {}
    /\ Up => unsent = {}
    /\ LossesExplained

LEMMA AlertSteps ==
    ASSUME BudgetOK, [Next]_vars
    PROVE  NotifyStep \/ OtherAlertStep
  <1> USE DEF NotifyStep, OtherAlertStep
  <1>1. CASE Start
    BY <1>1 DEF Start
  <1>2. CASE Stop \/ Crash
    BY <1>2 DEF Stop, Crash
  <1>3. ASSUME NEW m, NEW u, EndTurn(m, u)
        PROVE  NotifyStep \/ OtherAlertStep
    <2>1. budget.caps \subseteq Keys
      BY DEF BudgetOK, Budget, Keys
    <2> QED
      BY <1>3, <2>1 DEF EndTurn, alertVars
  <1>4. CASE Wait \/ SaveAll \/ Exit
    BY <1>4 DEF Wait, SaveAll, Exit
  <1>5. ASSUME NEW k \in Keys, Alert(k)
        PROVE  NotifyStep \/ OtherAlertStep
    BY <1>5 DEF Alert, Running, Up
  <1>6. CASE ClockTick \/ \E i : AlertEnds(i)
    BY <1>6 DEF ClockTick, AlertEnds
  <1>7. CASE SetCoach \/ Interval \/ ViewPrices \/ NewDocument \/ NextDay
    BY <1>7 DEF SetCoach, Interval, ViewPrices, NewDocument, NextDay
  <1>8. CASE \/ \E u, n : ToolResults(u, n)
             \/ \E r, open : Mark(r, open)
             \/ \E f : Refresh(f)
    BY <1>8 DEF ToolResults, Mark, Refresh
  <1>9. CASE UNCHANGED vars
    BY <1>9 DEF vars
  <1> QED
    BY <1>1, <1>2, <1>3, <1>4, <1>5, <1>6, <1>7, <1>8, <1>9 DEF Next

-----------------------------------------------------------------------------
(* Counting the keys of a queue.                                           *)

LEMMA ImageIsFinite ==
    ASSUME NEW f, IsFiniteSet(DOMAIN f)
    PROVE  IsFiniteSet({f[x] : x \in DOMAIN f})
  <1> DEFINE S == DOMAIN f
             T == {f[x] : x \in DOMAIN f}
             g == [x \in S |-> f[x]]
  <1>1. g \in Surjection(S, T)
    BY DEF Surjection
  <1> QED
    BY <1>1, FS_Surjection

LEMMA InjectiveImage ==
    ASSUME NEW f, IsFiniteSet(DOMAIN f), \A x, y \in DOMAIN f : f[x] = f[y] => x = y
    PROVE  Cardinality({f[x] : x \in DOMAIN f}) = Cardinality(DOMAIN f)
  <1> DEFINE S == DOMAIN f
             T == {f[x] : x \in DOMAIN f}
             g == [x \in S |-> f[x]]
  <1>1. g \in Surjection(S, T)
    BY DEF Surjection
  <1>2. g \in Injection(S, T)
    BY DEF Injection, IsInjective
  <1> QED
    BY <1>1, <1>2, FS_Surjection

LEMMA BetweenIsFinite ==
    ASSUME NEW q, NEW i \in Int, NEW j \in Int
    PROVE  IsFiniteSet(Between(q, i, j))
  <1> DEFINE S == i + 1 .. j - 1
             f == [n \in S |-> q[n].key]
  <1>1. IsFiniteSet(DOMAIN f)
    BY FS_Interval
  <1>2. Between(q, i, j) = {f[n] : n \in DOMAIN f}
    BY DEF Between
  <1> HIDE DEF f
  <1> QED
    BY <1>1, <1>2, ImageIsFinite

\* an excuse stays one when more is queued
LEMMA ExcusesStay ==
    ASSUME NEW q, NEW r, NEW i \in Nat, NEW j \in Nat, NEW k \in Nat, i < j, j <= k,
           \A n \in Nat \ {0} : n < j => q[n] = r[n],
           Excused(q, i, j), i > 0
    PROVE  Excused(r, i, k)
  <1>1. Between(q, i, j) \subseteq Between(r, i, k) /\ Between(q, 0, j) \subseteq Between(r, 0, k)
    BY DEF Between
  <1>2. IsFiniteSet(Between(r, i, k)) /\ IsFiniteSet(Between(r, 0, k))
    BY BetweenIsFinite
  <1>3. Cardinality(Between(q, i, j)) <= Cardinality(Between(r, i, k))
    BY <1>1, <1>2, FS_Subset
  <1>4. IsFiniteSet(Between(r, 0, k) \ {Stall})
    BY <1>2, FS_RemoveElement
  <1>5. Cardinality(Between(q, 0, j) \ {Stall}) <= Cardinality(Between(r, 0, k) \ {Stall})
    <2>1. Between(q, 0, j) \ {Stall} \in SUBSET (Between(r, 0, k) \ {Stall})
      BY <1>1
    <2> QED
      BY <1>4, <2>1, FS_Subset
  <1>6. /\ Cardinality(Between(q, i, j)) \in Nat
        /\ Cardinality(Between(r, i, k)) \in Nat
        /\ Cardinality(Between(q, 0, j) \ {Stall}) \in Nat
        /\ Cardinality(Between(r, 0, k) \ {Stall}) \in Nat
    <2>1. /\ IsFiniteSet(Between(q, i, j)) /\ IsFiniteSet(Between(r, i, k))
          /\ IsFiniteSet(Between(q, 0, j)) /\ IsFiniteSet(Between(r, 0, k))
      BY BetweenIsFinite
    <2>2. IsFiniteSet(Between(q, 0, j) \ {Stall}) /\ IsFiniteSet(Between(r, 0, k) \ {Stall})
      BY <2>1, FS_RemoveElement
    <2> QED
      BY <2>1, <2>2, FS_CardinalityType
  <1>7. q[i] = r[i]
    OBVIOUS
  <1>8. _MAX_KEYS \in Nat
    BY AlertsAssumption
  <1> QED
    BY <1>1, <1>3, <1>5, <1>6, <1>7, <1>8 DEF Excused

-----------------------------------------------------------------------------
(* What notify does to the map, in two steps: the key is stamped, and what *)
(* is over the bound is forgotten.                                         *)

LEMMA StampedShape ==
    ASSUME clock \in Nat, _sent \in Seq(Entry), NEW k \in Keys
    PROVE  /\ Stamped(k) \in Seq(Entry)
           /\ Len(_sent) <= Len(Stamped(k))
           /\ \A p \in 1 .. Len(_sent) :
                /\ Stamped(k)[p].key = _sent[p].key
                /\ _sent[p].key # k => Stamped(k)[p].at = _sent[p].at
           /\ \A p \in 1 .. Len(Stamped(k)) :
                Stamped(k)[p].key = k => Stamped(k)[p].at = clock
           /\ Places(_sent, k) = {} =>
                Len(Stamped(k)) = Len(_sent) + 1 /\ Stamped(k)[Len(_sent) + 1].key = k
           /\ Places(_sent, k) # {} => Len(Stamped(k)) = Len(_sent)
  <1> DEFINE m == Len(_sent)
  <1>d. m \in Nat /\ DOMAIN _sent = 1..m /\ \A p \in 1..m : _sent[p] \in Entry
    OBVIOUS
  <1>1. CASE Places(_sent, k) = {}
    <2> DEFINE e == [key |-> k, at |-> clock]
               s == Append(_sent, e)
    <2>1. e \in Entry
      BY DEF Entry
    <2>2. /\ s \in Seq(Entry) /\ Len(s) = m + 1
          /\ \A p \in 1..m : s[p] = _sent[p]
          /\ s[m + 1] = e
      BY <2>1, AppendProperties
    <2>3. \A p \in 1..m : _sent[p].key # k
      BY <1>1, <1>d DEF Places
    <2>4. Stamped(k) = s
      BY <1>1 DEF Stamped
    <2> HIDE DEF s
    <2>5. \A p \in 1..(m + 1) : p \in 1..m \/ p = m + 1
      BY <1>d
    <2>6. \A p \in 1..(m + 1) : s[p].key = k => s[p].at = clock
      BY <2>2, <2>3, <2>5
    <2> QED
      BY <1>1, <1>d, <2>2, <2>3, <2>4, <2>6
  <1>2. CASE Places(_sent, k) # {}
    <2> DEFINE At(e) == [e EXCEPT !.at = clock]
               s == [p \in DOMAIN _sent |-> IF _sent[p].key = k THEN At(_sent[p]) ELSE _sent[p]]
    <2>1. Stamped(k) = s
      BY <1>2 DEF Stamped
    <2>2. \A e \in Entry : At(e) \in Entry /\ At(e).key = e.key /\ At(e).at = clock
      BY DEF Entry
    <2> HIDE DEF At
    <2>3. \A p \in 1..m : s[p] \in Entry
      BY <1>d, <2>2
    <2>4. s \in Seq(Entry) /\ Len(s) = m
      BY <1>d, <2>3
    <2>5. \A p \in 1..m : /\ s[p].key = _sent[p].key
                          /\ _sent[p].key # k => s[p].at = _sent[p].at
      BY <1>d, <2>2
    <2>6. \A p \in 1..m : s[p].key = k => s[p].at = clock
      BY <1>d, <2>2
    <2> HIDE DEF s
    <2>7. \A p \in 1 .. Len(s) : s[p].key = k => s[p].at = clock
      BY <2>4, <2>6
    <2>8. s \in Seq(Entry) /\ Len(_sent) <= Len(s)
      BY <2>4, <1>d
    <2>9. \A p \in 1 .. Len(_sent) :
            s[p].key = _sent[p].key /\ (_sent[p].key # k => s[p].at = _sent[p].at)
      BY <2>5
    <2> QED
      BY <1>2, <2>1, <2>4, <2>7, <2>8, <2>9
  <1> QED
    BY <1>1, <1>2

LEMMA StampedRemembers ==
    ASSUME clock \in Nat, queued \in Seq(Entry), _sent \in Seq(Entry), NEW k \in Keys,
           Remembers(_sent, queued), Forgets(_sent, queued),
           k # Stall => Places(_sent, k) = {},
           NEW q \in Seq(Entry), Len(q) = Len(queued) + 1,
           \A i \in 1 .. Len(queued) : q[i] = queued[i],
           q[Len(queued) + 1] = [key |-> k, at |-> clock]
    PROVE  Remembers(Stamped(k), q) /\ Forgets(Stamped(k), q)
  <1> DEFINE n == Len(queued)
             m == Len(_sent)
             s == Stamped(k)
  <1>1. /\ q \in Seq(Entry) /\ Len(q) = n + 1
        /\ \A i \in 1..n : q[i] = queued[i]
        /\ q[n + 1].key = k /\ q[n + 1].at = clock
    OBVIOUS
  <1>a. /\ s \in Seq(Entry)
        /\ m <= Len(s)
    BY StampedShape
  <1>b. \A p \in 1..m : s[p].key = _sent[p].key
    BY StampedShape
  <1>c. \A p \in 1..m : _sent[p].key # k => s[p].at = _sent[p].at
    BY StampedShape
  <1>g. \A p \in 1 .. Len(s) : s[p].key = k => s[p].at = clock
    BY StampedShape
  <1>2. /\ Places(_sent, k) = {} => Len(s) = m + 1 /\ s[m + 1].key = k
        /\ Places(_sent, k) # {} => Len(s) = m
    BY StampedShape
  <1> HIDE DEF s
  <1>d. /\ n \in Nat /\ m \in Nat /\ Len(s) \in Nat
        /\ DOMAIN queued = 1..n /\ DOMAIN q = 1..(n + 1)
        /\ DOMAIN _sent = 1..m /\ DOMAIN s = 1 .. Len(s) /\ m <= Len(s)
    BY <1>1, <1>a
  <1>q. Len(queued) = n
    OBVIOUS
  <1>l. Len(q) + 1 = n + 2 /\ (Len(q) + 1) - 1 = n + 1
    BY <1>1, <1>d
  <1> HIDE DEF n, m
  <1>e. /\ \A i \in 1..n : queued[i].at \in Nat /\ queued[i].at <= clock
        /\ \A i \in 1..n + 1 : q[i].at \in Nat /\ q[i].at <= clock
    <2>1. \A e \in Entry : e.at \in Nat /\ e.at <= clock
      BY DEF Entry
    <2> QED
      BY <1>1, <1>d, <2>1, ElementOfSeq
  <1>3. \A p \in DOMAIN s :
          \/ p \in 1..m /\ s[p].key = _sent[p].key
          \/ p = m + 1 /\ s[p].key = k /\ Places(_sent, k) = {}
    <2>1. CASE Places(_sent, k) = {}
      BY <2>1, <1>2, <1>b, <1>d
    <2>2. CASE Places(_sent, k) # {}
      BY <2>2, <1>2, <1>b, <1>d
    <2> QED
      BY <2>1, <2>2
  <1>k. \E p \in DOMAIN s : s[p].key = k
    <2>1. CASE Places(_sent, k) = {}
      <3>1. Len(s) = m + 1 /\ s[m + 1].key = k
        BY <2>1, <1>2
      <3>2. m + 1 \in DOMAIN s
        <4>1. m + 1 \in 1 .. m + 1
          BY <1>d
        <4> QED
          BY <3>1, <4>1, <1>d
      <3> QED
        BY <3>1, <3>2
    <2>2. CASE Places(_sent, k) # {}
      <3>1. PICK p \in 1..m : _sent[p].key = k
        BY <2>2, <1>d DEF Places
      <3>2. p \in DOMAIN s /\ s[p].key = k
        BY <2>2, <1>2, <1>b, <1>d, <3>1
      <3> QED
        BY <3>2
    <2> QED
      BY <2>1, <2>2
  <1>n. Places(_sent, k) = {} => \A p \in 1..m : _sent[p].key # k
    BY <1>d DEF Places
  <1>4. \A p, r \in DOMAIN s : s[p].key = s[r].key => p = r
    <2> SUFFICES ASSUME NEW p \in DOMAIN s, NEW r \in DOMAIN s, s[p].key = s[r].key
                 PROVE  p = r
      OBVIOUS
    <2>1. \A x, y \in 1..m : _sent[x].key = _sent[y].key => x = y
      BY <1>d DEF Remembers
    <2>2. CASE p \in 1..m /\ r \in 1..m
      BY <2>1, <2>2, <1>b
    <2>3. CASE p = m + 1 /\ r = m + 1
      BY <2>3
    <2>4. CASE \/ p \in 1..m /\ s[r].key = k /\ Places(_sent, k) = {}
               \/ r \in 1..m /\ s[p].key = k /\ Places(_sent, k) = {}
      BY <2>4, <1>n, <1>b
    <2> QED
      BY <1>3, <2>2, <2>3, <2>4
  <1>5. \A p \in DOMAIN s : \E i \in DOMAIN q : q[i].key = s[p].key
    <2> SUFFICES ASSUME NEW p \in DOMAIN s
                 PROVE  \E i \in DOMAIN q : q[i].key = s[p].key
      OBVIOUS
    <2>1. CASE p \in 1..m /\ s[p].key = _sent[p].key
      <3>1. PICK i \in 1..n : queued[i].key = _sent[p].key
        BY <2>1, <1>d DEF Remembers
      <3>2. i \in DOMAIN q /\ q[i] = queued[i]
        BY <1>1, <1>d
      <3> QED
        BY <3>1, <3>2, <2>1
    <2>2. CASE s[p].key = k
      BY <2>2, <1>1, <1>d
    <2> QED
      BY <2>1, <2>2, <1>3
  <1>6. \A p, r \in DOMAIN s, i \in DOMAIN q :
          p < r /\ s[p].key # Stall /\ q[i].key = s[p].key
             => s[r].key \in Between(q, i, Len(q) + 1)
    <2> SUFFICES ASSUME NEW p \in DOMAIN s, NEW r \in DOMAIN s, NEW i \in DOMAIN q,
                        p < r, s[p].key # Stall, q[i].key = s[p].key
                 PROVE  \E x \in i + 1 .. n + 1 : q[x].key = s[r].key
      BY <1>l, SMTT(30) DEF Between
    <2>1. p \in 1..m /\ s[p].key = _sent[p].key
      BY <1>3, <1>d
    <2>2. i \in 1..n
      <3> SUFFICES ASSUME i = n + 1 PROVE FALSE
        BY <1>d
      <3>1. s[p].key = k
        BY <1>1
      <3> QED
        BY <3>1, <2>1, <1>n
    <2>3. CASE r \in 1..m /\ s[r].key = _sent[r].key
      <3>1. _sent[r].key \in Between(queued, i, n + 1)
        BY <1>1, <1>q, <1>d, <2>1, <2>2, <2>3 DEF Remembers
      <3>2. PICK x \in i + 1 .. n : queued[x].key = _sent[r].key
        BY <3>1, <1>d DEF Between
      <3>3. x \in 1..n
        BY <1>d
      <3> QED
        BY <1>1, <1>d, <2>3, <3>2, <3>3
    <2>4. CASE s[r].key = k
      BY <1>1, <1>d, <2>2, <2>4
    <2> QED
      BY <1>3, <2>3, <2>4
  <1>7. \A p \in DOMAIN s, i \in DOMAIN q :
          s[p].key = Stall /\ q[i].key = Stall => q[i].at <= s[p].at
    <2> SUFFICES ASSUME NEW p \in DOMAIN s, NEW i \in DOMAIN q,
                        s[p].key = Stall, q[i].key = Stall
                 PROVE  q[i].at <= s[p].at
      OBVIOUS
    <2>1. CASE k = Stall
      BY <2>1, <1>g, <1>d, <1>e
    <2>2. CASE k # Stall
      <3>1. p \in 1..m /\ s[p].at = _sent[p].at /\ _sent[p].key = Stall
        BY <2>2, <1>c, <1>3
      <3>2. i \in 1..n /\ q[i] = queued[i]
        BY <2>2, <1>1, <1>d
      <3> QED
        BY <3>1, <3>2, <1>d DEF Remembers
    <2> QED
      BY <2>1, <2>2
  <1>8. Forgets(s, q)
    <2> SUFFICES ASSUME NEW i \in DOMAIN q, Places(s, q[i].key) = {}
                 PROVE  Excused(q, i, Len(q) + 1)
      BY DEF Forgets
    <2>1. q[i].key # k
      BY <1>k DEF Places
    <2>2. i \in 1..n /\ q[i] = queued[i]
      BY <2>1, <1>1, <1>d
    <2>3. Places(_sent, queued[i].key) = {}
      <3>1. \A p \in 1..m : p \in DOMAIN s
        BY <1>d
      <3> QED
        BY <2>2, <3>1, <1>b, <1>d DEF Places
    <2>4. Excused(queued, i, n + 1)
      BY <2>2, <2>3, <1>d, <1>q DEF Forgets
    <2> DEFINE next == n + 1
               after == n + 2
    <2>5. \A x \in Nat \ {0} : x < next => queued[x] = q[x]
      BY <1>1, <1>d
    <2>6. /\ i \in Nat /\ i > 0 /\ next \in Nat /\ after \in Nat
          /\ i < next /\ next <= after
      BY <2>2, <1>d
    <2> HIDE DEF next, after
    <2>7. Excused(q, i, after)
      <3>1. Excused(queued, i, next)
        BY <2>4 DEF next
      <3> QED
        BY <2>6, <2>5, <3>1, ExcusesStay
    <2> QED
      BY <2>7, <1>l DEF after
  <1> QED
    BY <1>4, <1>5, <1>6, <1>7, <1>8 DEF Remembers, s

\* the keys of a full map are as many as it has places
LEMMA OthersCounted ==
    ASSUME NEW s \in Seq(Entry), Len(s) = _MAX_KEYS + 1,
           \A p, r \in DOMAIN s : s[p].key = s[r].key => p = r,
           NEW T, IsFiniteSet(T), \A p \in 2 .. _MAX_KEYS + 1 : s[p].key \in T
    PROVE  Cardinality(T) >= _MAX_KEYS
  <1> DEFINE S == 2 .. _MAX_KEYS + 1
             f == [p \in S |-> s[p].key]
             K == {f[p] : p \in DOMAIN f}
  <1>1. _MAX_KEYS \in Nat
    BY AlertsAssumption
  <1>2. IsFiniteSet(S) /\ Cardinality(S) = _MAX_KEYS
    BY <1>1, FS_Interval
  <1>3. \A p, r \in S : f[p] = f[r] => p = r
    BY <1>1
  <1>4. Cardinality(K) = _MAX_KEYS
    <2>1. DOMAIN f = S
      OBVIOUS
    <2> HIDE DEF f, S
    <2> QED
      BY <1>2, <1>3, <2>1, InjectiveImage
  <1>5. K \in SUBSET T
    OBVIOUS
  <1>6. IsFiniteSet(K) /\ Cardinality(K) <= Cardinality(T)
    BY <1>5, FS_Subset
  <1>7. Cardinality(T) \in Nat
    BY FS_CardinalityType
  <1> HIDE DEF K
  <1> QED
    BY <1>1, <1>4, <1>6, <1>7

LEMMA BoundedRemembers ==
    ASSUME NEW q \in Seq(Entry), NEW s \in Seq(Entry), Len(s) <= _MAX_KEYS + 1,
           Remembers(s, q), Forgets(s, q),
           Len(s) > _MAX_KEYS => Len(q) > 0 /\ s[Len(s)].key = q[Len(q)].key
    PROVE  /\ Bounded(s) \in Seq(Entry)
           /\ Len(Bounded(s)) <= _MAX_KEYS
           /\ Remembers(Bounded(s), q)
           /\ Forgets(Bounded(s), q)
  <1>1. _MAX_KEYS \in Nat \ {0} /\ Len(s) \in Nat /\ Len(q) \in Nat
    BY AlertsAssumption
  <1>2. CASE Len(s) <= _MAX_KEYS
    <2>1. Bounded(s) = s
      BY <1>1, <1>2 DEF Bounded
    <2> QED
      BY <1>2, <2>1
  <1>3. CASE Len(s) > _MAX_KEYS
    <2> DEFINE t == Tail(s)
               M == _MAX_KEYS
    <2>1. Bounded(s) = t
      BY <1>3 DEF Bounded
    <2>2. Len(s) = M + 1
      BY <1>1, <1>3
    <2>3. t \in Seq(Entry) /\ Len(t) = M /\ \A p \in 1..M : t[p] = s[p + 1]
      <3>1. s # <<>>
        BY <1>1, <2>2
      <3> QED
        BY <1>1, <2>2, <3>1, HeadTailProperties
    <2>4. DOMAIN s = 1..(M + 1) /\ DOMAIN t = 1..M /\ DOMAIN q = 1 .. Len(q)
      BY <1>1, <2>2, <2>3
    <2>5. \A p \in DOMAIN t : p + 1 \in DOMAIN s /\ t[p] = s[p + 1] /\ p \in Int
      BY <1>1, <2>3, <2>4
    <2> HIDE DEF t
    <2>6. Remembers(t, q)
      <3>1. \A p, r \in DOMAIN t : t[p].key = t[r].key => p = r
        <4>1. \A x, y \in DOMAIN s : s[x].key = s[y].key => x = y
          BY DEF Remembers
        <4>2. \A p, r \in DOMAIN t : t[p].key = t[r].key => p + 1 = r + 1
          BY <4>1, <2>5
        <4>3. \A x, y \in Int : x + 1 = y + 1 => x = y
          OBVIOUS
        <4> QED
          BY <2>5, <4>2, <4>3
      <3>2. \A p \in DOMAIN t : \E i \in DOMAIN q : q[i].key = t[p].key
        <4>1. \A p \in DOMAIN s : \E i \in DOMAIN q : q[i].key = s[p].key
          BY DEF Remembers
        <4> QED
          BY <2>5, <4>1
      <3>3. \A p, r \in DOMAIN t, i \in DOMAIN q :
              p < r /\ t[p].key # Stall /\ q[i].key = t[p].key
                 => t[r].key \in Between(q, i, Len(q) + 1)
        <4> SUFFICES ASSUME NEW p \in DOMAIN t, NEW r \in DOMAIN t, NEW i \in DOMAIN q,
                            p < r, t[p].key # Stall, q[i].key = t[p].key
                     PROVE  t[r].key \in Between(q, i, Len(q) + 1)
          OBVIOUS
        <4>1. p + 1 < r + 1
          BY <2>5
        <4> QED
          BY <2>5, <4>1 DEF Remembers
      <3>4. \A p \in DOMAIN t, i \in DOMAIN q :
              t[p].key = Stall /\ q[i].key = Stall => q[i].at <= t[p].at
        BY <2>5 DEF Remembers
      <3> QED
        BY <3>1, <3>2, <3>3, <3>4 DEF Remembers
    <2>7. ASSUME NEW i \in DOMAIN q, q[i].key = s[1].key
          PROVE  Excused(q, i, Len(q) + 1)
      <3>1. \A p, r \in DOMAIN s : s[p].key = s[r].key => p = r
        BY DEF Remembers
      <3>2. /\ IsFiniteSet(Between(q, i, Len(q) + 1))
            /\ IsFiniteSet(Between(q, 0, Len(q) + 1) \ {Stall})
        BY <1>1, <2>4, BetweenIsFinite, FS_RemoveElement
      <3>3. CASE s[1].key # Stall
        <4>1. \A p \in 2 .. M + 1 : s[p].key \in Between(q, i, Len(q) + 1)
          <5> SUFFICES ASSUME NEW p \in 2 .. M + 1
                       PROVE  s[p].key \in Between(q, i, Len(q) + 1)
            OBVIOUS
          <5>1. 1 \in DOMAIN s /\ p \in DOMAIN s /\ 1 < p
            BY <1>1, <2>4
          <5> QED
            BY <5>1, <2>7, <3>3 DEF Remembers
        <4>2. Cardinality(Between(q, i, Len(q) + 1)) >= _MAX_KEYS
          BY <2>2, <3>1, <3>2, <4>1, OthersCounted
        <4> QED
          BY <2>7, <3>3, <4>2 DEF Excused
      <3>4. CASE s[1].key = Stall
        <4>1. \A p \in 2 .. M + 1 : s[p].key \in Between(q, 0, Len(q) + 1) \ {Stall}
          <5> SUFFICES ASSUME NEW p \in 2 .. M + 1
                       PROVE  s[p].key \in Between(q, 0, Len(q) + 1) \ {Stall}
            OBVIOUS
          <5>1. 1 \in DOMAIN s /\ p \in DOMAIN s /\ p # 1
            BY <1>1, <2>4
          <5>2. s[p].key # Stall
            BY <5>1, <3>1, <3>4
          <5>3. PICK n \in DOMAIN q : q[n].key = s[p].key
            BY <5>1 DEF Remembers
          <5>4. n \in 0 + 1 .. (Len(q) + 1) - 1
            BY <1>1, <2>4
          <5> QED
            BY <5>2, <5>3, <5>4 DEF Between
        <4>2. Cardinality(Between(q, 0, Len(q) + 1) \ {Stall}) >= _MAX_KEYS
          BY <2>2, <3>1, <3>2, <4>1, OthersCounted
        <4>3. q[Len(q)].key # Stall
          <5>1. 1 \in DOMAIN s /\ Len(s) \in DOMAIN s /\ Len(s) # 1
            BY <1>1, <2>2, <2>4
          <5> QED
            BY <5>1, <1>3, <3>1, <3>4
        <4>4. i # Len(q)
          BY <4>3, <2>7, <3>4
        <4>5. Len(q) \in i + 1 .. (Len(q) + 1) - 1
          BY <4>4, <1>1, <2>4
        <4>6. Between(q, i, Len(q) + 1) # {}
          BY <4>5 DEF Between
        <4> QED
          BY <2>7, <3>4, <4>2, <4>6 DEF Excused
      <3> QED
        BY <3>3, <3>4
    <2>8. Forgets(t, q)
      <3> SUFFICES ASSUME NEW i \in DOMAIN q, Places(t, q[i].key) = {}
                   PROVE  Excused(q, i, Len(q) + 1)
        BY DEF Forgets
      <3>1. CASE q[i].key = s[1].key
        BY <2>7, <3>1
      <3>2. CASE q[i].key # s[1].key
        <4>1. ASSUME NEW p \in DOMAIN s, s[p].key = q[i].key
              PROVE  FALSE
          <5>1. p # 1
            BY <4>1, <3>2
          <5>2. p - 1 \in DOMAIN t /\ t[p - 1] = s[p]
            <6>1. p - 1 \in 1..M /\ (p - 1) + 1 = p
              BY <1>1, <2>4, <5>1
            <6> QED
              BY <6>1, <2>3, <2>4
          <5> QED
            BY <5>2, <4>1 DEF Places
        <4>2. Places(s, q[i].key) = {}
          BY <4>1 DEF Places
        <4> QED
          BY <4>2 DEF Forgets
      <3> QED
        BY <3>1, <3>2
    <2> QED
      BY <1>1, <2>1, <2>3, <2>6, <2>8
  <1> QED
    BY <1>1, <1>2, <1>3

\* RepeatsExplained in terms of a queue
Repeated(q, i, j) ==
    /\ i < j
    /\ q[i].key = q[j].key
    /\ q[i].key = Stall => q[j].at - q[i].at < Cooldown

LEMMA Repeats ==
    RepeatsExplained <=>
        \A i, j \in DOMAIN queued : Repeated(queued, i, j) => Excused(queued, i, j)
  <1>1. \A i, j : KeysBetween(i, j) = Between(queued, i, j)
    BY DEF KeysBetween, Between
  <1> QED
    BY <1>1 DEF RepeatsExplained, Repeated, Excused

LEMMA MapNotify ==
    ASSUME MapInv, NEW k \in Keys, notify(k)
    PROVE  MapInv'
  <1> DEFINE n == Len(queued)
             e == [key |-> k, at |-> clock]
             s == Stamped(k)
             q == Append(queued, e)
  <1> USE DEF MapInv
  <1>1. ~Quiet(k) /\ _sent' = Bounded(s) /\ queued' = q /\ clock' = clock
    BY DEF notify
  <1>2. /\ q \in Seq(Entry) /\ Len(q) = n + 1 /\ n \in Nat
        /\ \A i \in 1..n : q[i] = queued[i]
        /\ q[n + 1] = e
    <2>1. e \in Entry
      BY DEF Entry
    <2> QED
      BY <2>1, AppendProperties
  <1>3. k # Stall => Places(_sent, k) = {}
    BY <1>1 DEF Quiet
  <1>4. Remembers(s, q) /\ Forgets(s, q)
    <2> HIDE DEF q
    <2> QED
      BY <1>2, <1>3, StampedRemembers
  <1>5. /\ s \in Seq(Entry) /\ Len(s) <= _MAX_KEYS + 1
        /\ Len(s) > _MAX_KEYS => s[Len(s)].key = k
    <2>1. CASE Places(_sent, k) = {}
      <3>1. Len(s) = Len(_sent) + 1 /\ s[Len(_sent) + 1].key = k
        BY <2>1, StampedShape
      <3> QED
        BY <3>1, StampedShape, AlertsAssumption
    <2>2. CASE Places(_sent, k) # {}
      <3>1. Len(s) = Len(_sent)
        BY <2>2, StampedShape
      <3> QED
        BY <3>1, StampedShape, AlertsAssumption
    <2> QED
      BY <2>1, <2>2
  <1>6. /\ Bounded(s) \in Seq(Entry)
        /\ Len(Bounded(s)) <= _MAX_KEYS
        /\ Remembers(Bounded(s), q)
        /\ Forgets(Bounded(s), q)
    <2>1. Len(q) > 0 /\ q[Len(q)].key = k
      BY <1>2
    <2> HIDE DEF q, s
    <2> QED
      BY <1>2, <1>4, <1>5, <2>1, BoundedRemembers
  <1>7. RepeatsExplained'
    <2> SUFFICES ASSUME NEW i \in DOMAIN q, NEW j \in DOMAIN q, Repeated(q, i, j)
                 PROVE  Excused(q, i, j)
      <3>1. \A i, j \in DOMAIN q : Repeated(q, i, j) => Excused(q, i, j)
        OBVIOUS
      <3>2. (\A i, j \in DOMAIN queued : Repeated(queued, i, j) => Excused(queued, i, j))'
        <4>1. queued' = q
          BY <1>1
        <4> HIDE DEF q
        <4> QED
          BY <3>1, <4>1
      <3>3. (RepeatsExplained <=>
              \A i, j \in DOMAIN queued : Repeated(queued, i, j) => Excused(queued, i, j))'
        BY Repeats, PTL
      <3> QED
        BY <3>2, <3>3
    <2>d. /\ i < j
          /\ q[i].key = q[j].key
          /\ q[i].key = Stall => q[j].at - q[i].at < Cooldown
      BY DEF Repeated
    <2>1. i \in 1..n /\ q[i] = queued[i]
      BY <1>2, <2>d
    <2>2. CASE j \in 1..n
      <3>1. Excused(queued, i, j)
        <4>1. queued[j] = q[j]
          BY <2>2, <1>2
        <4>2. j \in DOMAIN queued /\ i \in DOMAIN queued
          BY <2>1, <2>2
        <4> QED
          BY <2>1, <2>d, <4>1, <4>2, Repeats DEF Repeated
      <3>2. \A x \in Nat \ {0} : x < j => queued[x] = q[x]
        BY <2>2, <1>2
      <3>3. i \in Nat /\ i > 0 /\ j \in Nat /\ i < j /\ j <= j
        BY <2>1, <2>2, <2>d
      <3> HIDE DEF q
      <3> QED
        BY <3>1, <3>2, <3>3, ExcusesStay
    <2>3. CASE j = n + 1
      <3>1. q[j] = e /\ queued[i].key = k
        BY <2>1, <2>3, <1>2, <2>d
      <3>2. Places(_sent, k) = {}
        <4> SUFFICES ASSUME NEW p \in DOMAIN _sent, _sent[p].key = k
                     PROVE  FALSE
          BY DEF Places
        <4>1. k = Stall /\ ~(clock - _sent[p].at < Cooldown)
          BY <1>1 DEF Quiet, Places
        <4>2. queued[i].at <= _sent[p].at
          BY <2>1, <3>1, <4>1 DEF Remembers
        <4>3. queued[i].at \in Nat /\ _sent[p].at \in Nat /\ Cooldown \in Nat
          <5>1. queued[i] \in Entry /\ _sent[p] \in Entry
            BY <2>1
          <5> QED
            BY <5>1, AlertsAssumption DEF Entry
        <4>4. clock - queued[i].at < Cooldown
          BY <2>1, <3>1, <4>1, <2>d
        <4> QED
          BY <4>1, <4>2, <4>3, <4>4
      <3>3. Excused(queued, i, n + 1)
        BY <2>1, <3>1, <3>2 DEF Forgets
      <3> DEFINE next == n + 1
      <3>4. \A x \in Nat \ {0} : x < next => queued[x] = q[x]
        BY <1>2
      <3>5. i \in Nat /\ i > 0 /\ next \in Nat /\ i < next /\ next <= next
        BY <2>1, <1>2
      <3>6. Excused(q, i, next)
        <4>1. Excused(queued, i, next)
          BY <3>3
        <4> HIDE DEF next, q
        <4> QED
          BY <4>1, <3>4, <3>5, ExcusesStay
      <3> QED
        BY <2>3, <3>6
    <2> QED
      BY <1>2, <2>2, <2>3
  <1>8. Entry' = Entry
    BY <1>1 DEF Entry
  <1> HIDE DEF q, s
  <1> QED
    BY <1>1, <1>2, <1>6, <1>7, <1>8 DEF Remembers, Forgets

-----------------------------------------------------------------------------
(* The other steps, and the tasks.                                         *)

LEMMA EntriesStay ==
    ASSUME clock \in Nat, clock' = clock + 1
    PROVE  \A s \in Seq(Entry) : s \in Seq(Entry')
  <1>1. Entry \subseteq Entry'
    BY DEF Entry
  <1> QED
    BY <1>1

LEMMA MapRest ==
    ASSUME MapInv, OtherAlertStep
    PROVE  MapInv'
  <1>r. UNCHANGED queued => RepeatsExplained'
    <2> SUFFICES ASSUME UNCHANGED queued PROVE RepeatsExplained'
      OBVIOUS
    <2>1. \A i, j : KeysBetween(i, j)' = KeysBetween(i, j)
      BY DEF KeysBetween
    <2>2. RepeatsExplained
      BY DEF MapInv
    <2> QED
      BY <2>1, <2>2 DEF RepeatsExplained
  <1>1. CASE ClockTicks
    <2>1. clock' = clock + 1 /\ UNCHANGED <<_sent, queued>>
      BY <1>1 DEF ClockTicks
    <2>2. clock' \in Nat /\ queued' \in Seq(Entry') /\ _sent' \in Seq(Entry')
      BY <2>1, EntriesStay DEF MapInv
    <2> QED
      BY <2>1, <2>2, <1>r DEF MapInv
  <1>2. CASE NewAlerts
    <2>1. _sent' = <<>> /\ queued' = <<>> /\ clock' = clock
      BY <1>2 DEF NewAlerts
    <2>2. Remembers(<<>>, <<>>) /\ Forgets(<<>>, <<>>)
      BY DEF Remembers, Forgets
    <2>3. RepeatsExplained'
      BY <2>1 DEF RepeatsExplained
    <2> QED
      BY <2>1, <2>2, <2>3, AlertsAssumption DEF MapInv
  <1>3. CASE UNCHANGED <<clock, _sent, queued>>
    <2>1. Entry' = Entry
      BY <1>3 DEF Entry
    <2> QED
      BY <2>1, <1>3, <1>r DEF MapInv
  <1> QED
    BY <1>1, <1>2, <1>3
       DEF OtherAlertStep, Sent, BeginDrain, DrainTimesOut, AbandonTasks, alertVars

LEMMA InitMap == Init => MapInv
  <1> SUFFICES ASSUME Init PROVE MapInv
    OBVIOUS
  <1>1. clock = 0 /\ _sent = <<>> /\ queued = <<>>
    BY DEF Init, AlertsInit
  <1>2. Remembers(<<>>, <<>>) /\ Forgets(<<>>, <<>>)
    BY DEF Remembers, Forgets
  <1>3. RepeatsExplained
    BY <1>1 DEF RepeatsExplained
  <1> QED
    BY <1>1, <1>2, <1>3, AlertsAssumption DEF MapInv

LEMMA InitTasks == Init => TasksInv
  <1> SUFFICES ASSUME Init PROVE TasksInv
    OBVIOUS
  <1> QED
    BY DEF Init, AlertsInit, TasksInv, Up, LossesExplained

LEMMA TasksNotify ==
    ASSUME MapInv, TasksInv, NEW k \in Keys, notify(k), Up, UNCHANGED phase
    PROVE  TasksInv'
  <1> DEFINE n == Len(queued)
             e == [key |-> k, at |-> clock]
  <1>1. /\ queued' = Append(queued, e) /\ _tasks' = _tasks \cup {Len(queued')}
        /\ UNCHANGED <<clock, awaited, due, unsent>>
    BY DEF notify
  <1>2. /\ queued' \in Seq(Entry') /\ Len(queued') = n + 1 /\ n \in Nat
        /\ DOMAIN queued = 1..n /\ DOMAIN queued' = 1..(n + 1)
    <2>1. e \in Entry /\ Entry' = Entry /\ queued \in Seq(Entry)
      BY <1>1 DEF Entry, MapInv
    <2> QED
      BY <1>1, <2>1, AppendProperties
  <1>3. n + 1 \notin due
    BY <1>2 DEF TasksInv
  <1> QED
    BY <1>1, <1>2, <1>3 DEF TasksInv, Up, LossesExplained

LEMMA TasksRest ==
    ASSUME TasksInv, OtherAlertStep, clock \in Nat
    PROVE  TasksInv'
  <1> USE DEF TasksInv, Up, Running, LossesExplained
  <1>1. CASE UNCHANGED phase /\ \E i : Sent(i)
    BY <1>1 DEF Sent, Entry
  <1>2. CASE UNCHANGED phase /\ ClockTicks
    BY <1>2, EntriesStay DEF ClockTicks
  <1>3. CASE Running /\ phase' = "draining" /\ BeginDrain
    BY <1>3 DEF BeginDrain, Entry
  <1>4. CASE phase = "draining" /\ UNCHANGED phase /\ DrainTimesOut
    BY <1>4 DEF DrainTimesOut, Entry
  <1>5. CASE phase = "draining" /\ Drained /\ phase' = "closing" /\ UNCHANGED alertVars
    BY <1>5 DEF Drained, alertVars, Entry
  <1>6. CASE phase = "closing" /\ phase' = "off" /\ AbandonTasks
    BY <1>6 DEF AbandonTasks, Entry
  <1>7. CASE NewAlerts /\ phase' \in {"off", "running"}
    BY <1>7 DEF NewAlerts
  <1>8. CASE UNCHANGED <<alertVars, phase>>
    BY <1>8 DEF alertVars, Entry
  <1> QED
    BY <1>1, <1>2, <1>3, <1>4, <1>5, <1>6, <1>7, <1>8 DEF OtherAlertStep

\* the budget of a run stays one
LEMMA BudgetStays == Spec => []BudgetOK
  <1> USE DEF BudgetOK
  <1>1. Init => BudgetOK
    BY LifespanAssumption DEF Init
  <1>2. ASSUME BudgetOK, [Next]_vars
        PROVE  BudgetOK'
    <2>1. ASSUME NEW kind \in {"starts", "crashes", "turns", "requests", "alerts", "marks",
                               "toggles", "refreshes", "documents", "ticks", "days"},
                 Spend(kind)
          PROVE  BudgetOK'
      BY <1>2, <2>1 DEF Spend, Budget
    <2>2. CASE UNCHANGED budget
      BY <1>2, <2>2
    <2>3. CASE UNCHANGED vars
      BY <2>2, <2>3 DEF vars
    <2>4. CASE Start \/ Crash \/ SetCoach \/ NewDocument \/ ClockTick \/ NextDay
      BY <2>1, <2>4 DEF Start, Crash, SetCoach, NewDocument, ClockTick, NextDay
    <2>5. CASE Stop \/ Wait \/ SaveAll \/ Exit \/ Interval \/ ViewPrices
      BY <2>2, <2>5 DEF Stop, Wait, SaveAll, Exit, Interval, ViewPrices
    <2>6. CASE \/ \E m, u : EndTurn(m, u)
               \/ \E u, n : ToolResults(u, n)
               \/ \E k : Alert(k)
               \/ \E r, open : Mark(r, open)
      BY <2>1, <2>6 DEF EndTurn, ToolResults, Alert, Mark
    <2>7. CASE (\E i : AlertEnds(i)) \/ \E f : Refresh(f)
      BY <2>1, <2>2, <2>7 DEF AlertEnds, Refresh
    <2> QED
      BY <1>2, <2>3, <2>4, <2>5, <2>6, <2>7 DEF Next
  <1> QED
    BY <1>1, <1>2, PTL DEF Spec

LEMMA AlertsInvHolds == Spec => [](MapInv /\ TasksInv)
  <1>1. ASSUME MapInv, TasksInv, BudgetOK, [Next]_vars
        PROVE  (MapInv /\ TasksInv)'
    <2>1. CASE NotifyStep
      BY <1>1, <2>1, MapNotify, TasksNotify DEF NotifyStep
    <2>2. CASE OtherAlertStep
      <3>1. clock \in Nat
        BY <1>1 DEF MapInv
      <3> QED
        BY <1>1, <2>2, <3>1, MapRest, TasksRest
    <2> QED
      BY <1>1, <2>1, <2>2, AlertSteps
  <1> QED
    BY InitMap, InitTasks, <1>1, BudgetStays, PTL DEF Spec

(* An alert comes again before its time only if the map had to forget it   *)
(* (notify, _MAX_KEYS), and a shutdown gives up only on alerts that came   *)
(* after it had begun or that it has waited five seconds for (drain).      *)
THEOREM AlertsAccountedFor == Spec => []AlertsExplained
  BY AlertsInvHolds, PTL DEF MapInv, TasksInv, AlertsExplained

-----------------------------------------------------------------------------
(* The coach.                                                              *)

Counts == [turns : Nat, results : Nat]

\* counts by keys of K, not more than max of them
Buckets(f, K, max) ==
    /\ DOMAIN f \subseteq K
    /\ IsFiniteSet(DOMAIN f)
    /\ Cardinality(DOMAIN f) <= max
    /\ \A k \in DOMAIN f : f[k] \in Counts

Fields(q) == {"turns", "results", "by_week", "by_user", "rec_marks"} \subseteq DOMAIN q

MarksOK(marks) ==
    /\ marks \in Seq(Rec)
    /\ \A i, j \in 1 .. Len(marks) : marks[i] = marks[j] => i = j
    /\ Len(marks) <= MAX_REC_MARKS

StatsOK(q) ==
    /\ Fields(q)
    /\ q.turns \in Nat
    /\ q.results \in Nat
    /\ Buckets(q.by_week, 0..week, MAX_COACH_WEEKS)
    /\ Buckets(q.by_user, CoachUser, MAX_COACH_USERS)
    /\ MarksOK(q.rec_marks)

\* no week of f is missing or less in g, but those before g's first; some is left
WeeksKept(f, g) ==
    /\ \A w \in DOMAIN f :
         /\ w \notin DOMAIN g => \A x \in DOMAIN g : x > w
         /\ w \in DOMAIN g => g[w].turns >= f[w].turns /\ g[w].results >= f[w].results
    /\ DOMAIN f # {} => DOMAIN g # {}

CountsKept(old, new) ==
    /\ new.turns >= old.turns /\ new.results >= old.results
    /\ WeeksKept(old.by_week, new.by_week)
    /\ UsersKeep(old.by_user, new.by_user)

KeepsWell(old, new, back) ==
    CountsKept(old, new) /\ MarksKeep(old.rec_marks, new.rec_marks, back)

(* What a step does to the statistics: no count is forgotten, and no week  *)
(* but the current one is new.  The second keeps the first transitive.     *)
Grows(old, new) ==
    CountsKept(old, new) /\ DOMAIN new.by_week \subseteq DOMAIN old.by_week \cup {week}

\* and to the marks: what was kept, or taken back, still is
MarksGrow ==
    \A m : MarksKeep(m, coach_stats.rec_marks, opened) =>
           MarksKeep(m, coach_stats'.rec_marks, opened')

(* A process that loaded the file has all of it; one that is over, or is   *)
(* about to be, has no more than the file.                                 *)
CoachInv ==
    /\ week \in Nat
    /\ StatsOK(coach_stats)
    /\ StatsOK(coachFile)
    /\ coachDue \in BOOLEAN /\ COACH_ENABLED \in BOOLEAN
    /\ excused \subseteq {"unloaded", "crashed", "late", "unwritten", "disabled"}
    /\ opened \subseteq Rec /\ IsFiniteSet(opened)
    /\ "unloaded" \notin excused => KeepsWell(coachFile, coach_stats, opened)
    /\ phase \in {"closing", "off"} /\ excused \subseteq {"unloaded"} =>
         coachFile = coach_stats

CoachStep ==
    \/ /\ Up /\ UNCHANGED phase
       /\ \E u \in CoachUser \cup {NoUser} : _coach_record_response(u, phase = "closing")
    \/ /\ Running /\ UNCHANGED phase
       /\ \E u \in CoachUser \cup {NoUser}, n \in 1..2 : _coach_record_data(u, n)
    \/ /\ Running /\ UNCHANGED phase
       /\ \E r \in Rec, open \in BOOLEAN : set_rec_status(r, open)
    \/ UNCHANGED phase /\ (ToggleCoach \/ CoachIntervalPasses \/ NextWeek)
    \/ FinalSave
    \/ CoachCrash
    \/ _load_coach_stats /\ phase' = "running"
    \/ /\ UNCHANGED coachVars
       /\ phase' \in {"closing", "off"} => phase \in {"closing", "off"}

LEMMA CoachSteps ==
    ASSUME BudgetOK, [Next]_vars
    PROVE  CoachStep
  <1> USE DEF CoachStep
  <1>1. CASE Start
    BY <1>1 DEF Start
  <1>2. CASE Stop
    BY <1>2 DEF Stop
  <1>3. CASE SaveAll \/ Crash
    BY <1>3 DEF SaveAll, Crash
  <1>4. CASE Exit
    BY <1>4 DEF Exit
  <1>5. CASE Wait \/ ViewPrices \/ NewDocument \/ ClockTick
    BY <1>5 DEF Wait, ViewPrices, NewDocument, ClockTick
  <1>6. ASSUME NEW m, NEW u \in budget.users, EndTurn(m, u)
        PROVE  CoachStep
    <2>1. u \in CoachUser \cup {NoUser}
      BY DEF BudgetOK, Budget
    <2> QED
      BY <1>6, <2>1 DEF EndTurn
  <1>7. ASSUME NEW n \in 1..2, NEW u \in budget.users, ToolResults(u, n)
        PROVE  CoachStep
    <2>1. u \in CoachUser \cup {NoUser}
      BY DEF BudgetOK, Budget
    <2> QED
      BY <1>7, <2>1 DEF ToolResults
  <1>8. ASSUME NEW r \in Rec, NEW open \in BOOLEAN, Mark(r, open)
        PROVE  CoachStep
    BY <1>8 DEF Mark
  <1>9. CASE SetCoach \/ Interval \/ NextDay
    BY <1>9 DEF SetCoach, Interval, NextDay
  <1>10. CASE (\E k : Alert(k)) \/ (\E i : AlertEnds(i)) \/ (\E f : Refresh(f))
    BY <1>10 DEF Alert, AlertEnds, Refresh
  <1>11. CASE UNCHANGED vars
    BY <1>11 DEF vars
  <1> QED
    BY <1>1, <1>2, <1>3, <1>4, <1>5, <1>6, <1>7, <1>8, <1>9, <1>10, <1>11 DEF Next

-----------------------------------------------------------------------------
(* What the operators on buckets keep.                                     *)

\* g has the counts of f, and of k, where they may be more
Added(f, k, g) ==
    /\ DOMAIN g = DOMAIN f \cup {k}
    /\ IsFiniteSet(DOMAIN g)
    /\ Cardinality(DOMAIN f) <= Cardinality(DOMAIN g)
    /\ Cardinality(DOMAIN g) <= Cardinality(DOMAIN f) + 1
    /\ \A x \in DOMAIN g : g[x] \in Counts
    /\ \A x \in DOMAIN f : g[x].turns >= f[x].turns /\ g[x].results >= f[x].results

LEMMA CountAdded ==
    ASSUME NEW f, NEW K, NEW max \in Nat, Buckets(f, K, max),
           NEW k \in K, NEW turns \in Nat, NEW results \in Nat
    PROVE  Added(f, k, With(f, k, turns, results))
  <1> DEFINE g == With(f, k, turns, results)
             b == BucketOf(f, k)
             c == [turns |-> b.turns + turns, results |-> b.results + results]
  <1>1. b \in Counts
    BY DEF BucketOf, Buckets, Counts
  <1>2. c \in Counts /\ c.turns >= b.turns /\ c.results >= b.results
    <2>1. b.turns \in Nat /\ b.results \in Nat
      BY <1>1 DEF Counts
    <2> HIDE DEF b
    <2> QED
      BY <2>1 DEF Counts
  <1>3. g = [x \in DOMAIN f \cup {k} |-> IF x = k THEN c ELSE f[x]]
    BY DEF With
  <1>4. k \in DOMAIN f => b = f[k]
    BY DEF BucketOf
  <1> HIDE DEF b, c, g
  <1>5. DOMAIN g = DOMAIN f \cup {k}
    BY <1>3
  <1>6. \A x \in DOMAIN g : g[x] \in Counts
    BY <1>2, <1>3, <1>5 DEF Buckets
  <1>7. \A x \in DOMAIN f : g[x].turns >= f[x].turns /\ g[x].results >= f[x].results
    <2> SUFFICES ASSUME NEW x \in DOMAIN f
                 PROVE  g[x].turns >= f[x].turns /\ g[x].results >= f[x].results
      OBVIOUS
    <2>1. CASE x = k
      BY <2>1, <1>2, <1>3, <1>4
    <2>2. CASE x # k
      <3>1. g[x] = f[x] /\ f[x].turns \in Nat /\ f[x].results \in Nat
        BY <2>2, <1>3 DEF Buckets, Counts
      <3> QED
        BY <3>1
    <2> QED
      BY <2>1, <2>2
  <1>8. /\ IsFiniteSet(DOMAIN g)
        /\ Cardinality(DOMAIN f) <= Cardinality(DOMAIN g)
        /\ Cardinality(DOMAIN g) <= Cardinality(DOMAIN f) + 1
    <2>1. IsFiniteSet(DOMAIN f) /\ Cardinality(DOMAIN f) \in Nat
      BY FS_CardinalityType DEF Buckets
    <2>2. /\ IsFiniteSet(DOMAIN f \cup {k})
          /\ Cardinality(DOMAIN f \cup {k}) \in {Cardinality(DOMAIN f), Cardinality(DOMAIN f) + 1}
      BY <2>1, FS_AddElement
    <2> QED
      BY <1>5, <2>1, <2>2
  <1>9. Added(f, k, g)
    BY <1>5, <1>6, <1>7, <1>8 DEF Added
  <1> QED
    BY <1>9, Zenon DEF g

LEMMA LeastOf ==
    ASSUME NEW D \in SUBSET Nat, D # {}
    PROVE  \E d \in D : \A e \in D : d <= e
  <1>1. PICK d \in D : \A e \in D : ~(<<e, d>> \in OpToRel(<, Nat))
    BY NatLessThanWellFounded, WFMin
  <1>2. \A e \in D : ~(e < d)
    BY <1>1 DEF OpToRel
  <1> QED
    BY <1>2

LEMMA WeekCounted ==
    ASSUME week \in Nat, NEW f, Buckets(f, 0..week, MAX_COACH_WEEKS),
           NEW turns \in Nat, NEW results \in Nat,
           NEW h, h = WithoutOldest(With(f, week, turns, results))
    PROVE  /\ Buckets(h, 0..week, MAX_COACH_WEEKS)
           /\ WeeksKept(f, h)
           /\ DOMAIN h \subseteq DOMAIN f \cup {week}
  <1> DEFINE M == MAX_COACH_WEEKS
             g == With(f, week, turns, results)
             D == DOMAIN g
             L == {w \in D : \E x \in D : x < w}
  <1>1. M \in Nat \ {0}
    BY CoachAssumption
  <1>2. /\ D = DOMAIN f \cup {week}
        /\ IsFiniteSet(D)
        /\ Cardinality(D) <= Cardinality(DOMAIN f) + 1
        /\ \A x \in D : g[x] \in Counts
        /\ \A x \in DOMAIN f : g[x].turns >= f[x].turns /\ g[x].results >= f[x].results
    <2>1. week \in 0..week
      OBVIOUS
    <2>2. Added(f, week, g)
      BY <1>1, <2>1, CountAdded
    <2> QED
      BY <2>2 DEF Added
  <1>3. D \subseteq 0..week /\ week \in D
    <2>1. DOMAIN f \subseteq 0..week /\ week \in 0..week
      BY DEF Buckets
    <2> QED
      BY <1>2, <2>1
  <1>4. h = IF Cardinality(D) <= M THEN g ELSE Restrict(g, L)
    BY DEF WithoutOldest
  <1>5. Cardinality(D) \in Nat /\ Cardinality(DOMAIN f) \in Nat /\ Cardinality(D) <= M + 1
    BY <1>1, <1>2, FS_CardinalityType DEF Buckets
  <1> HIDE DEF g, D
  <1>6. CASE Cardinality(D) <= M
    <2>1. h = g /\ DOMAIN h = D
      BY <1>4, <1>6 DEF D
    <2> QED
      BY <2>1, <1>2, <1>3, <1>6 DEF Buckets, WeeksKept
  <1>7. CASE ~(Cardinality(D) <= M)
    <2>1. DOMAIN h = L /\ \A x \in L : h[x] = g[x]
      BY <1>4, <1>7 DEF Restrict
    <2>2. PICK d \in D : \A e \in D : d <= e
      BY <1>3, LeastOf
    <2>3. L \in SUBSET (D \ {d})
      BY <1>3, <2>2
    <2>4. IsFiniteSet(D \ {d}) /\ Cardinality(D \ {d}) = Cardinality(D) - 1
      BY <1>2, FS_RemoveElement
    <2>5. IsFiniteSet(L) /\ Cardinality(L) <= Cardinality(D) - 1
      BY <2>3, <2>4, FS_Subset
    <2>6. Cardinality(L) <= M /\ Cardinality(L) \in Nat
      BY <2>5, <1>1, <1>5, FS_CardinalityType
    <2>7. week \in L
      <3>1. d # week
        <4>1. \A e \in D : e \in Nat /\ e <= week
          BY <1>3
        <4>2. ASSUME d = week
              PROVE  FALSE
          <5>1. \A e \in D : e = week
            BY <4>1, <4>2, <2>2
          <5>2. D = {week}
            BY <5>1, <1>3
          <5>3. Cardinality(D) = 1
            BY <5>2, FS_Singleton
          <5> QED
            BY <5>3, <1>1, <1>7
        <4> QED
          BY <4>2
      <3> QED
        BY <1>3, <2>2, <3>1
    <2>8. \A w \in D : w \notin L => \A x \in L : x > w
      BY <1>3
    <2>9. Buckets(h, 0..week, M)
      BY <2>1, <2>5, <2>6, <1>2, <1>3 DEF Buckets
    <2>10. WeeksKept(f, h)
      BY <2>1, <2>7, <2>8, <1>2 DEF WeeksKept
    <2> QED
      BY <2>1, <2>9, <2>10, <1>2
  <1> QED
    BY <1>6, <1>7

LEMMA UserCounted ==
    ASSUME NEW f, Buckets(f, CoachUser, MAX_COACH_USERS), NEW u \in CoachUser,
           NEW turns \in Nat, NEW results \in Nat,
           NEW h \in WithoutIdlest(With(f, u, turns, results))
    PROVE  /\ Buckets(h, CoachUser, MAX_COACH_USERS)
           /\ turns <= 1 => UsersKeep(f, h)
  <1> DEFINE M == MAX_COACH_USERS
             g == With(f, u, turns, results)
             D == DOMAIN g
  <1>1. M \in Nat \ {0}
    BY CoachAssumption
  <1>2. /\ D = DOMAIN f \cup {u}
        /\ IsFiniteSet(D)
        /\ Cardinality(DOMAIN f) <= Cardinality(D)
        /\ Cardinality(D) <= Cardinality(DOMAIN f) + 1
        /\ \A x \in D : g[x] \in Counts
        /\ \A x \in DOMAIN f : g[x].turns >= f[x].turns /\ g[x].results >= f[x].results
    <2>1. Added(f, u, g)
      BY <1>1, CountAdded
    <2> QED
      BY <2>1 DEF Added
  <1>3. D \subseteq CoachUser
    BY <1>2 DEF Buckets
  <1>4. /\ Cardinality(D) \in Nat /\ Cardinality(DOMAIN f) \in Nat
        /\ Cardinality(DOMAIN f) <= M
    BY <1>1, <1>2, FS_CardinalityType DEF Buckets
  <1>5. /\ Cardinality(D) <= M => h = g
        /\ ~(Cardinality(D) <= M) =>
             \E x \in D : /\ h = Restrict(g, D \ {x})
                          /\ \A y \in D : g[x].turns <= g[y].turns
    BY DEF WithoutIdlest
  <1>d. D = DOMAIN g
    OBVIOUS
  <1>n. u \notin DOMAIN f => g[u].turns = turns
    BY DEF With, BucketOf
  <1> HIDE DEF g, D
  <1>6. CASE Cardinality(D) <= M
    BY <1>2, <1>3, <1>4, <1>5, <1>6, <1>d DEF Buckets, UsersKeep
  <1>7. CASE ~(Cardinality(D) <= M)
    <2>1. PICK x \in D : /\ h = Restrict(g, D \ {x})
                         /\ \A y \in D : g[x].turns <= g[y].turns
      BY <1>5, <1>7
    <2>2. DOMAIN h = D \ {x} /\ \A y \in D \ {x} : h[y] = g[y]
      BY <2>1 DEF Restrict
    <2>3. IsFiniteSet(D \ {x}) /\ Cardinality(D \ {x}) = Cardinality(D) - 1
      BY <1>2, FS_RemoveElement
    <2>4. Cardinality(D) - 1 = M /\ Cardinality(D) - 1 >= Cardinality(DOMAIN f)
      BY <1>1, <1>2, <1>4, <1>7
    <2>5. Buckets(h, CoachUser, M)
      <3>1. Cardinality(DOMAIN h) <= M /\ IsFiniteSet(DOMAIN h)
        BY <1>1, <2>2, <2>3, <2>4
      <3>2. DOMAIN h \subseteq CoachUser /\ \A y \in DOMAIN h : h[y] \in Counts
        BY <1>2, <1>3, <2>2
      <3> QED
        BY <3>1, <3>2 DEF Buckets
    <2>6. Cardinality(DOMAIN h) = M /\ Cardinality(DOMAIN h) >= Cardinality(DOMAIN f)
      BY <2>2, <2>3, <2>4
    <2>7. u \notin DOMAIN f
      <3>1. u \in DOMAIN f => D = DOMAIN f
        BY <1>2
      <3> QED
        BY <3>1, <1>4, <1>7
    <2>8. g[x].turns <= turns
      BY <1>2, <1>n, <2>1, <2>7
    <2>9. ASSUME turns <= 1, NEW v \in DOMAIN f
          PROVE  \/ /\ v \in DOMAIN h
                    /\ h[v].turns >= f[v].turns /\ h[v].results >= f[v].results
                 \/ f[v].turns <= 1
      <3>1. g[v].turns >= f[v].turns /\ g[v].results >= f[v].results /\ v \in D
        BY <1>2
      <3>2. f[v].turns \in Nat /\ g[v].turns \in Nat
        BY <1>2, <3>1 DEF Buckets, Counts
      <3>3. CASE v = x
        BY <2>8, <2>9, <3>1, <3>2, <3>3
      <3>4. CASE v # x
        BY <2>2, <3>1, <3>4
      <3> QED
        BY <3>3, <3>4
    <2> QED
      BY <2>5, <2>6, <2>9 DEF UsersKeep
  <1> QED
    BY <1>6, <1>7

-----------------------------------------------------------------------------
(* The marks.                                                              *)

LEMMA MarkRemoved ==
    ASSUME NEW marks, MarksOK(marks), NEW r
    PROVE  /\ MarksOK(RemoveFirst(marks, r))
           /\ \A i \in 1 .. Len(RemoveFirst(marks, r)) : RemoveFirst(marks, r)[i] # r
           /\ \A x \in Range(marks) : x # r => x \in Range(RemoveFirst(marks, r))
  <1> DEFINE n == Len(marks)
             t == RemoveFirst(marks, r)
  <1>1. n \in Nat /\ DOMAIN marks = 1..n /\ \A i \in 1..n : marks[i] \in Rec
    BY DEF MarksOK
  <1>2. CASE ~\E i \in 1..n : marks[i] = r
    <2>1. RemoveFirst(marks, r) = marks
      BY <1>2 DEF RemoveFirst
    <2> QED
      BY <1>1, <1>2, <2>1
  <1>3. CASE \E i \in 1..n : marks[i] = r
    <2> DEFINE I == {i \in 1..n : marks[i] = r}
               k == Min(I)
               a == SubSeq(marks, 1, k - 1)
               b == SubSeq(marks, k + 1, n)
    <2>1. t = a \o b
      BY <1>3 DEF RemoveFirst, RemoveAt, SelectInSeq
    <2>2. k \in I
      <3>1. I \in SUBSET Nat /\ I # {}
        BY <1>3
      <3>2. \E x \in I : \A y \in I : x <= y
        BY <3>1, LeastOf
      <3> QED
        BY <3>2 DEF Min
    <2> HIDE DEF k
    <2>3. k \in 1..n /\ marks[k] = r
      BY <2>2
    <2>4. a \in Seq(Rec) /\ Len(a) = k - 1 /\ \A i \in 1 .. k - 1 : a[i] = marks[i]
      BY <1>1, <2>3, SubSeqProperties
    <2>5. b \in Seq(Rec) /\ Len(b) = n - k /\ \A i \in 1 .. n - k : b[i] = marks[i + k]
      <3> DEFINE m == k + 1
      <3>1. m \in Int /\ \A i \in m .. n : marks[i] \in Rec
        BY <1>1, <2>3
      <3>2. /\ b \in Seq(Rec)
            /\ Len(b) = IF m <= n THEN n - m + 1 ELSE 0
            /\ \A i \in 1 .. n - m + 1 : b[i] = marks[m + i - 1]
        <4>1. b = SubSeq(marks, m, n) /\ n \in Int
          BY <1>1
        <4> HIDE DEF m, b, n
        <4> QED
          BY <4>1, <3>1, SubSeqProperties
      <3>3. n - m + 1 = n - k
        BY <1>1, <2>3
      <3>4. Len(b) = n - k
        <4>1. k \in Int /\ n \in Int /\ k <= n
          BY <1>1, <2>3
        <4>2. \A x, y \in Int : x <= y /\ ~(x + 1 <= y) => y - x = 0
          OBVIOUS
        <4>3. ~(m <= n) => n - k = 0
          BY <4>1, <4>2
        <4> HIDE DEF m, b, n
        <4> QED
          BY <3>2, <3>3, <4>3
      <3>5. ASSUME NEW i \in 1 .. n - k
            PROVE  b[i] = marks[i + k]
        <4>1. b[i] = marks[m + i - 1]
          BY <3>2, <3>3
        <4>2. m + i - 1 = i + k
          BY <1>1, <2>3
        <4> QED
          BY <4>1, <4>2
      <3> QED
        BY <3>2, <3>4, <3>5
    <2> HIDE DEF a, b, t
    <2>6. /\ t \in Seq(Rec) /\ Len(t) = n - 1
          /\ \A i \in 1 .. n - 1 : t[i] = marks[IF i < k THEN i ELSE i + 1]
      <3>1. /\ t \in Seq(Rec)
            /\ Len(t) = Len(a) + Len(b)
            /\ \A i \in 1 .. Len(a) + Len(b) : t[i] = IF i <= Len(a) THEN a[i] ELSE b[i - Len(a)]
        BY <2>1, <2>4, <2>5, ConcatProperties
      <3>2. Len(a) + Len(b) = n - 1
        BY <1>1, <2>3, <2>4, <2>5
      <3>3. ASSUME NEW i \in 1 .. n - 1
            PROVE  t[i] = marks[IF i < k THEN i ELSE i + 1]
        <4>1. CASE i < k
          <5>1. t[i] = a[i] /\ i \in 1 .. k - 1
            BY <3>1, <3>2, <2>3, <2>4, <1>1, <4>1
          <5> QED
            BY <5>1, <4>1, <2>4
        <4>2. CASE ~(i < k)
          <5>1. t[i] = b[i - (k - 1)]
            BY <3>1, <3>2, <2>3, <2>4, <1>1, <4>2
          <5>2. i - (k - 1) \in 1 .. n - k /\ i - (k - 1) + k = i + 1
            BY <2>3, <1>1, <4>2
          <5> QED
            BY <5>1, <5>2, <4>2, <2>5
        <4> QED
          BY <4>1, <4>2
      <3> QED
        BY <3>1, <3>2, <3>3
    <2> DEFINE at(i) == IF i < k THEN i ELSE i + 1
    <2>7. \A i \in 1 .. n - 1 : at(i) \in 1..n /\ at(i) # k /\ t[i] = marks[at(i)]
      BY <1>1, <2>3, <2>6
    <2>8. \A i, j \in 1 .. n - 1 : at(i) = at(j) => i = j
      BY <1>1, <2>3
    <2>o. \A i \in 1..n : i # k => \E j \in 1 .. n - 1 : at(j) = i
      <3>1. \A i \in 1..n : i < k => i \in 1 .. n - 1 /\ at(i) = i
        BY <1>1, <2>3
      <3>2. \A i \in 1..n : i > k => i - 1 \in 1 .. n - 1 /\ at(i - 1) = i
        BY <1>1, <2>3
      <3> HIDE DEF at
      <3> QED
        BY <1>1, <2>3, <3>1, <3>2
    <2> HIDE DEF at
    <2>9. \A i, j \in 1..n : marks[i] = marks[j] => i = j
      BY DEF MarksOK
    <2>10. \A i \in 1 .. n - 1 : t[i] # r
      BY <2>3, <2>7, <2>9
    <2>11. \A i, j \in 1 .. n - 1 : t[i] = t[j] => i = j
      BY <2>7, <2>8, <2>9
    <2>12. n - 1 <= MAX_REC_MARKS
      BY <1>1, CoachAssumption DEF MarksOK
    <2>13. DOMAIN t = 1 .. n - 1
      BY <2>6
    <2>14. \A x \in Range(marks) : x # r => x \in Range(t)
      <3>1. ASSUME NEW i \in 1..n, marks[i] # r
            PROVE  \E j \in DOMAIN t : t[j] = marks[i]
        BY <3>1, <2>3, <2>7, <2>o, <2>13
      <3> HIDE DEF n
      <3> QED
        BY <1>1, <3>1 DEF Range
    <2> QED
      BY <2>6, <2>10, <2>11, <2>12, <2>14 DEF MarksOK, t
  <1> QED
    BY <1>2, <1>3

LEMMA MarkSet ==
    ASSUME NEW marks, MarksOK(marks), NEW r \in Rec
    PROVE  /\ MarksOK(Marks(Append(RemoveFirst(marks, r), r)))
           /\ \/ Range(marks) \cup {r} \subseteq
                   Range(Marks(Append(RemoveFirst(marks, r), r)))
              \/ Len(Marks(Append(RemoveFirst(marks, r), r))) = MAX_REC_MARKS
  <1> DEFINE M == MAX_REC_MARKS
             rest == RemoveFirst(marks, r)
             n == Len(rest)
             s == Append(rest, r)
  <1>1. /\ rest \in Seq(Rec) /\ n <= M /\ n \in Nat /\ M \in Nat
        /\ \A i, j \in 1..n : rest[i] = rest[j] => i = j
        /\ \A i \in 1..n : rest[i] # r
        /\ \A x \in Range(marks) : x # r => x \in Range(rest)
    BY MarkRemoved, CoachAssumption DEF MarksOK
  <1> HIDE DEF rest
  <1>2. /\ s \in Seq(Rec) /\ Len(s) = n + 1
        /\ \A i \in 1..n : s[i] = rest[i]
        /\ s[n + 1] = r
    BY <1>1, AppendProperties
  <1> HIDE DEF s
  <1>3. \A i, j \in 1..(n + 1) : s[i] = s[j] => i = j
    <2>1. \A i \in 1..(n + 1) : i \in 1..n \/ i = n + 1
      BY <1>1
    <2> HIDE DEF n
    <2> QED
      BY <1>1, <1>2, <2>1
  <1>4. CASE n + 1 <= M
    <2>1. Marks(s) = s
      BY <1>1, <1>2, <1>4 DEF Marks
    <2>2. DOMAIN rest = 1..n /\ DOMAIN s = 1 .. n + 1
      BY <1>1, <1>2
    <2>3. r \in Range(s) /\ \A x \in Range(rest) : x \in Range(s)
      <3>1. n + 1 \in 1 .. n + 1 /\ \A i \in 1..n : i \in 1 .. n + 1
        BY <1>1
      <3> HIDE DEF n
      <3> QED
        BY <1>2, <2>2, <3>1 DEF Range
    <2>4. Range(marks) \cup {r} \subseteq Range(s)
      BY <1>1, <2>3
    <2> QED
      BY <1>2, <1>3, <1>4, <2>1, <2>4 DEF MarksOK, s, rest
  <1>5. CASE n + 1 > M
    <2> DEFINE t == Tail(s)
    <2>1. Marks(s) = t
      BY <1>2, <1>5 DEF Marks
    <2>2. s # <<>>
      BY <1>1, <1>2
    <2>3. t \in Seq(Rec) /\ Len(t) = n /\ \A i \in 1..n : t[i] = s[i + 1]
      BY <1>1, <1>2, <2>2, HeadTailProperties
    <2> HIDE DEF t
    <2>4. \A i \in 1..n : i + 1 \in 1..(n + 1) /\ i \in Int
      BY <1>1
    <2>5. \A i, j \in Int : i + 1 = j + 1 => i = j
      OBVIOUS
    <2>6. \A i, j \in 1..n : t[i] = t[j] => i = j
      BY <1>3, <2>3, <2>4, <2>5
    <2>7. n = M
      BY <1>1, <1>5
    <2> QED
      BY <1>1, <2>1, <2>3, <2>6, <2>7 DEF MarksOK, s, rest
  <1> QED
    BY <1>1, <1>4, <1>5

LEMMA MarksCounted ==
    ASSUME NEW marks, MarksOK(marks)
    PROVE  IsFiniteSet(Range(marks)) /\ Cardinality(Range(marks)) = Len(marks)
  <1> DEFINE n == Len(marks)
             S == Range(marks)
  <1>1. n \in Nat /\ DOMAIN marks = 1..n /\ marks \in [1..n -> Rec]
    BY DEF MarksOK
  <1>2. marks \in Bijection(1..n, S)
    <2>1. marks \in [1..n -> S] /\ \A x \in S : \E i \in 1..n : marks[i] = x
      BY <1>1 DEF Range
    <2>2. \A i, j \in 1..n : marks[i] = marks[j] => i = j
      BY DEF MarksOK
    <2> QED
      BY <2>1, <2>2 DEF Bijection, Injection, Surjection, IsInjective
  <1>3. ExistsBijection(1..n, S)
    BY <1>2 DEF ExistsBijection
  <1>4. IsFiniteSet(1..n) /\ Cardinality(1..n) = n
    BY <1>1, FS_Interval
  <1> HIDE DEF n, S
  <1> QED
    BY <1>3, <1>4, FS_Bijection DEF n, S

-----------------------------------------------------------------------------
(* What the steps keep.                                                    *)

LEMMA KeepsItself ==
    ASSUME NEW q, StatsOK(q)
    PROVE  /\ CountsKept(q, q)
           /\ Grows(q, q)
           /\ \A back : KeepsWell(q, q, back)
  <1>1. q.turns >= q.turns /\ q.results >= q.results
    BY DEF StatsOK
  <1>2. \A w \in DOMAIN q.by_week : /\ q.by_week[w].turns >= q.by_week[w].turns
                                    /\ q.by_week[w].results >= q.by_week[w].results
    <2>1. \A w \in DOMAIN q.by_week : /\ q.by_week[w].turns \in Nat
                                      /\ q.by_week[w].results \in Nat
      BY DEF StatsOK, Buckets, Counts
    <2> QED
      BY <2>1
  <1>3. UsersKeep(q.by_user, q.by_user)
    <2> DEFINE f == q.by_user
    <2>1. Buckets(f, CoachUser, MAX_COACH_USERS)
      BY DEF StatsOK
    <2> HIDE DEF f
    <2>2. Cardinality(DOMAIN f) >= Cardinality(DOMAIN f)
      BY <2>1, FS_CardinalityType DEF Buckets
    <2>3. \A u \in DOMAIN f : f[u].turns \in Nat /\ f[u].results \in Nat
      BY <2>1 DEF Buckets, Counts
    <2>4. UsersKeep(f, f)
      BY <2>2, <2>3 DEF UsersKeep
    <2> QED
      BY <2>4 DEF f
  <1>4. WeeksKept(q.by_week, q.by_week)
    BY <1>2 DEF WeeksKept
  <1>5. \A back : MarksKeep(q.rec_marks, q.rec_marks, back)
    BY DEF MarksKeep
  <1> QED
    BY <1>1, <1>3, <1>4, <1>5 DEF KeepsWell, CountsKept, Grows

LEMMA UsersKeptOn ==
    ASSUME NEW f, NEW g, NEW h,
           Buckets(f, CoachUser, MAX_COACH_USERS),
           Buckets(g, CoachUser, MAX_COACH_USERS),
           Buckets(h, CoachUser, MAX_COACH_USERS),
           UsersKeep(f, g), UsersKeep(g, h)
    PROVE  UsersKeep(f, h)
  <1> DEFINE M == MAX_COACH_USERS
  <1>1. /\ M \in Nat
        /\ Cardinality(DOMAIN f) \in Nat
        /\ Cardinality(DOMAIN g) \in Nat
        /\ Cardinality(DOMAIN h) \in Nat
        /\ Cardinality(DOMAIN h) <= M
    BY CoachAssumption, FS_CardinalityType DEF Buckets
  <1>2. /\ Cardinality(DOMAIN g) >= Cardinality(DOMAIN f)
        /\ Cardinality(DOMAIN h) >= Cardinality(DOMAIN g)
    BY DEF UsersKeep
  <1>3. Cardinality(DOMAIN g) = M => Cardinality(DOMAIN h) = M
    BY <1>1, <1>2
  <1>4. ASSUME NEW u \in DOMAIN f
        PROVE  \/ /\ u \in DOMAIN h
                  /\ h[u].turns >= f[u].turns /\ h[u].results >= f[u].results
               \/ f[u].turns <= 1 /\ Cardinality(DOMAIN h) = M
    <2>1. CASE u \in DOMAIN g /\ g[u].turns >= f[u].turns /\ g[u].results >= f[u].results
      <3>1. f[u] \in Counts /\ g[u] \in Counts
        BY <2>1 DEF Buckets
      <3>2. CASE u \in DOMAIN h /\ h[u].turns >= g[u].turns /\ h[u].results >= g[u].results
        <4>1. h[u] \in Counts
          BY <3>2 DEF Buckets
        <4> QED
          BY <2>1, <3>1, <3>2, <4>1 DEF Counts
      <3>3. CASE g[u].turns <= 1 /\ Cardinality(DOMAIN h) = M
        BY <2>1, <3>1, <3>3 DEF Counts
      <3> QED
        BY <2>1, <3>2, <3>3 DEF UsersKeep
    <2>2. CASE f[u].turns <= 1 /\ Cardinality(DOMAIN g) = M
      BY <1>3, <2>2
    <2> QED
      BY <2>1, <2>2 DEF UsersKeep
  <1>5. Cardinality(DOMAIN h) >= Cardinality(DOMAIN f)
    BY <1>1, <1>2
  <1> QED
    BY <1>4, <1>5 DEF UsersKeep

LEMMA KeepingIsTransitive ==
    ASSUME week \in Nat, NEW a, NEW b, NEW c, StatsOK(a), StatsOK(b), StatsOK(c),
           CountsKept(a, b), Grows(b, c)
    PROVE  CountsKept(a, c)
  <1> DEFINE A == DOMAIN a.by_week
             B == DOMAIN b.by_week
             C == DOMAIN c.by_week
  <1>1. c.turns >= a.turns /\ c.results >= a.results
    BY DEF CountsKept, Grows, StatsOK
  <1>2. UsersKeep(a.by_user, c.by_user)
    BY UsersKeptOn DEF CountsKept, Grows, StatsOK
  <1>3. A \subseteq 0..week /\ B \subseteq 0..week /\ C \subseteq 0..week /\ C \subseteq B \cup {week}
    BY DEF StatsOK, Buckets, Grows
  <1>4. /\ WeeksKept(a.by_week, b.by_week)
        /\ WeeksKept(b.by_week, c.by_week)
    BY DEF CountsKept, Grows
  <1>5. ASSUME NEW w \in A, w \notin C, NEW x \in C
        PROVE  x > w
    <2>1. CASE w \in B
      BY <1>4, <1>5, <2>1 DEF WeeksKept
    <2>2. CASE w \notin B
      <3>1. \A y \in B : y > w
        BY <1>4, <2>2 DEF WeeksKept
      <3>2. x \in B \/ x = week
        BY <1>3
      <3>3. x # w /\ w <= week /\ w \in Int /\ x \in Int
        BY <1>3, <1>5
      <3> QED
        BY <3>1, <3>2, <3>3
    <2> QED
      BY <2>1, <2>2
  <1>6. ASSUME NEW w \in A, w \in C
        PROVE  /\ c.by_week[w].turns >= a.by_week[w].turns
               /\ c.by_week[w].results >= a.by_week[w].results
    <2>1. w \in B
      <3> SUFFICES ASSUME w \notin B PROVE FALSE
        OBVIOUS
      <3>1. w = week
        BY <1>3, <1>6
      <3>2. PICK y \in B : TRUE
        BY <1>4 DEF WeeksKept
      <3>3. y > w
        BY <1>4 DEF WeeksKept
      <3> QED
        BY <1>3, <3>1, <3>3
    <2>2. /\ b.by_week[w].turns >= a.by_week[w].turns
          /\ b.by_week[w].results >= a.by_week[w].results
      BY <1>4, <2>1 DEF WeeksKept
    <2>3. /\ c.by_week[w].turns >= b.by_week[w].turns
          /\ c.by_week[w].results >= b.by_week[w].results
      BY <1>4, <1>6, <2>1 DEF WeeksKept
    <2>4. /\ a.by_week[w] \in Counts /\ b.by_week[w] \in Counts /\ c.by_week[w] \in Counts
      BY <1>6, <2>1 DEF StatsOK, Buckets
    <2> QED
      BY <2>2, <2>3, <2>4 DEF Counts
  <1>7. A # {} => C # {}
    BY <1>4 DEF WeeksKept
  <1>8. WeeksKept(a.by_week, c.by_week)
    BY <1>5, <1>6, <1>7 DEF WeeksKept
  <1> QED
    BY <1>1, <1>2, <1>8 DEF CountsKept

\* the fields of statistics in which some were replaced
LEMMA CountsReplaced ==
    ASSUME NEW q, Fields(q), NEW t, NEW r, NEW w, NEW u,
           NEW p, p = [q EXCEPT !.turns = t, !.results = r, !.by_week = w, !.by_user = u]
    PROVE  /\ Fields(p) /\ p.turns = t /\ p.results = r /\ p.by_week = w /\ p.by_user = u
           /\ p.rec_marks = q.rec_marks
  BY DEF Fields

LEMMA MarksReplaced ==
    ASSUME NEW q, Fields(q), NEW m, NEW p, p = [q EXCEPT !.rec_marks = m]
    PROVE  /\ Fields(p) /\ p.turns = q.turns /\ p.results = q.results
           /\ p.by_week = q.by_week /\ p.by_user = q.by_user /\ p.rec_marks = m
  BY DEF Fields

LEMMA BumpGrows ==
    ASSUME week \in Nat, StatsOK(coach_stats), NEW u \in CoachUser \cup {NoUser},
           NEW turns \in 0..1, NEW results \in Nat, NEW p \in Bumped(u, turns, results)
    PROVE  StatsOK(p) /\ Grows(coach_stats, p) /\ p.rec_marks = coach_stats.rec_marks
  <1> DEFINE q == coach_stats
             w == WithoutOldest(With(q.by_week, week, turns, results))
  <1>1. PICK users \in IF u = NoUser THEN {q.by_user}
                       ELSE WithoutIdlest(With(q.by_user, u, turns, results)) :
               p = [q EXCEPT !.turns = q.turns + turns, !.results = q.results + results,
                             !.by_week = w, !.by_user = users]
    BY DEF Bumped
  <1>2. /\ Fields(p) /\ p.turns = q.turns + turns /\ p.results = q.results + results
        /\ p.by_week = w /\ p.by_user = users /\ p.rec_marks = q.rec_marks
    <2>1. Fields(q)
      BY DEF StatsOK
    <2> DEFINE t == q.turns + turns
               r == q.results + results
    <2>2. p = [q EXCEPT !.turns = t, !.results = r, !.by_week = w, !.by_user = users]
      BY <1>1
    <2> HIDE DEF q, w, t, r
    <2>3. /\ Fields(p) /\ p.turns = t /\ p.results = r /\ p.by_week = w /\ p.by_user = users
          /\ p.rec_marks = q.rec_marks
      BY <2>1, <2>2 DEF Fields
    <2> QED
      BY <2>3 DEF t, r
  <1>3. /\ Buckets(w, 0..week, MAX_COACH_WEEKS)
        /\ WeeksKept(q.by_week, w)
        /\ DOMAIN w \subseteq DOMAIN q.by_week \cup {week}
    <2> DEFINE f == q.by_week
    <2>1. Buckets(f, 0..week, MAX_COACH_WEEKS)
      BY SMTT(30) DEF StatsOK
    <2> HIDE DEF f
    <2> QED
      BY <2>1, WeekCounted DEF f
  <1>4. /\ Buckets(users, CoachUser, MAX_COACH_USERS)
        /\ UsersKeep(q.by_user, users)
    <2>1. CASE u = NoUser
      BY <2>1, <1>1, KeepsItself DEF StatsOK, CountsKept
    <2>2. CASE u # NoUser
      BY <2>2, <1>1, UserCounted DEF StatsOK
    <2> QED
      BY <2>1, <2>2
  <1>5. /\ q.turns + turns \in Nat /\ q.turns + turns >= q.turns
        /\ q.results + results \in Nat /\ q.results + results >= q.results
    BY DEF StatsOK
  <1> HIDE DEF w
  <1>6. StatsOK(p)
    BY <1>2, <1>3, <1>4, <1>5 DEF StatsOK
  <1>7. CountsKept(q, p)
    BY <1>2, <1>3, <1>4, <1>5 DEF CountsKept
  <1> QED
    BY <1>2, <1>3, <1>6, <1>7 DEF Grows

LEMMA MarkGrows ==
    ASSUME week \in Nat, StatsOK(coach_stats), NEW r \in Rec, NEW open \in BOOLEAN,
           opened \subseteq Rec, IsFiniteSet(opened), set_rec_status(r, open)
    PROVE  /\ StatsOK(coach_stats') /\ Grows(coach_stats, coach_stats')
           /\ MarksGrow
           /\ opened' \subseteq Rec /\ IsFiniteSet(opened')
  <1> DEFINE q == coach_stats
             m == IF open THEN RemoveFirst(q.rec_marks, r)
                  ELSE Marks(Append(RemoveFirst(q.rec_marks, r), r))
  <1>1. coach_stats' = [q EXCEPT !.rec_marks = m]
    BY DEF set_rec_status
  <1>2. MarksOK(m)
    BY MarkRemoved, MarkSet DEF StatsOK
  <1> DEFINE p == coach_stats'
  <1>3. /\ Fields(p) /\ p.turns = q.turns /\ p.results = q.results
        /\ p.by_week = q.by_week /\ p.by_user = q.by_user /\ p.rec_marks = m
    <2>1. Fields(q) /\ p = [q EXCEPT !.rec_marks = m]
      BY <1>1 DEF StatsOK
    <2> HIDE DEF q, m, p
    <2> QED
      BY <2>1, MarksReplaced
  <1> HIDE DEF m
  <1>4. StatsOK(coach_stats')
    BY <1>2, <1>3 DEF StatsOK
  <1>5. Grows(q, q)
    BY KeepsItself
  <1>6. Grows(q, coach_stats')
    BY <1>3, <1>5 DEF Grows, CountsKept
  <1> DEFINE old == q.rec_marks
             new == Range(p.rec_marks)
  <1>7. MarksOK(old) /\ IsFiniteSet(Range(old)) /\ IsFiniteSet(new)
    BY <1>2, <1>3, MarksCounted DEF StatsOK
  <1>8. opened' = IF open THEN opened \cup ({r} \cap Range(old)) ELSE opened \ {r}
    BY DEF set_rec_status
  <1>9. opened' \subseteq Rec /\ IsFiniteSet(opened')
    <2>1. opened' \in SUBSET (opened \cup {r})
      BY <1>8
    <2>2. IsFiniteSet(opened \cup {r})
      BY FS_AddElement
    <2> QED
      BY <2>1, <2>2, FS_Subset
  <1>10. \/ Range(old) \cup opened \subseteq new \cup opened'
         \/ Cardinality(new) = MAX_REC_MARKS
    <2>1. CASE open
      <3>1. p.rec_marks = RemoveFirst(old, r)
        BY <1>3, <2>1 DEF m
      <3>2. \A x \in Range(old) : x # r => x \in new
        BY <1>7, <3>1, MarkRemoved
      <3> QED
        BY <1>8, <2>1, <3>2
    <2>2. CASE ~open
      <3>1. p.rec_marks = Marks(Append(RemoveFirst(old, r), r))
        BY <1>3, <2>2 DEF m
      <3>2. Range(old) \cup {r} \subseteq new \/ Len(p.rec_marks) = MAX_REC_MARKS
        BY <1>7, <3>1, MarkSet
      <3>3. Len(p.rec_marks) = MAX_REC_MARKS => Cardinality(new) = MAX_REC_MARKS
        BY <1>2, <1>3, MarksCounted
      <3> QED
        BY <1>8, <2>2, <3>2, <3>3
    <2> QED
      BY <2>1, <2>2
  <1>11. MarksGrow
    <2> DEFINE U == Range(old) \cup opened
               V == new \cup opened'
    <2>1. IsFiniteSet(V) /\ IsFiniteSet(U) /\ Cardinality(V) \in Nat /\ Cardinality(U) \in Nat
      BY <1>7, <1>9, FS_Union, FS_CardinalityType
    <2>2. U \in SUBSET V => Cardinality(U) <= Cardinality(V)
      BY <2>1, FS_Subset
    <2>3. Cardinality(new) <= Cardinality(V) /\ Cardinality(new) \in Nat
      <3>1. new \in SUBSET V
        OBVIOUS
      <3> QED
        BY <1>7, <2>1, <3>1, FS_Subset, FS_CardinalityType
    <2>4. MAX_REC_MARKS \in Nat
      BY CoachAssumption
    <2>5. U \subseteq V \/ Cardinality(new) = MAX_REC_MARKS
      BY <1>10
    <2> SUFFICES ASSUME NEW mm, MarksKeep(mm, old, opened), NEW x \in Range(mm) \ new
                 PROVE  x \in opened' \/ Cardinality(V) >= MAX_REC_MARKS
      BY DEF MarksGrow, MarksKeep
    <2>6. x \in U \/ Cardinality(U) >= MAX_REC_MARKS
      BY DEF MarksKeep
    <2>7. x \in V => x \in opened'
      OBVIOUS
    <2> HIDE DEF U, V, new, old
    <2> QED
      BY <2>1, <2>2, <2>3, <2>4, <2>5, <2>6, <2>7
  <1> QED
    BY <1>4, <1>6, <1>9, <1>11

LEMMA NothingCounted == StatsOK(NoStats)
  <1>1. /\ Fields(NoStats) /\ NoStats.turns = 0 /\ NoStats.results = 0
        /\ DOMAIN NoStats.by_week = {} /\ DOMAIN NoStats.by_user = {}
        /\ NoStats.rec_marks = <<>>
    BY DEF NoStats, NoBuckets, Fields
  <1>2. IsFiniteSet({}) /\ Cardinality({}) = 0
    BY FS_EmptySet
  <1>3. MarksOK(<<>>)
    BY CoachAssumption DEF MarksOK
  <1> QED
    BY <1>1, <1>2, <1>3, CoachAssumption DEF StatsOK, Buckets

LEMMA InitCoach == Init => CoachInv
  <1> SUFFICES ASSUME Init PROVE CoachInv
    OBVIOUS
  <1>1. /\ coach_stats = NoStats /\ coachFile = NoStats /\ coachDue = TRUE
        /\ COACH_ENABLED = TRUE /\ week = 0 /\ excused = {} /\ opened = {}
    BY DEF Init, CoachInit
  <1>2. KeepsWell(NoStats, NoStats, {})
    BY NothingCounted, KeepsItself
  <1> QED
    BY <1>1, <1>2, NothingCounted, FS_EmptySet DEF CoachInv

(* Any step in which the statistics only grow, and are written or not,     *)
(* keeps the file; only a load does something else.                        *)
LEMMA GrowthKeeps ==
    ASSUME CoachInv, week' \in {week, week + 1},
           StatsOK(coach_stats'), Grows(coach_stats, coach_stats'),
           coachFile' \in {coach_stats', coachFile},
           MarksGrow, opened' \subseteq Rec, IsFiniteSet(opened'),
           coachDue' \in BOOLEAN, COACH_ENABLED' \in BOOLEAN,
           excused \subseteq excused',
           excused' \subseteq {"unloaded", "crashed", "late", "unwritten", "disabled"},
           phase' \in {"closing", "off"} /\ excused' \subseteq {"unloaded"} =>
             coachFile' = coach_stats'
    PROVE  CoachInv' /\ FileKeeps
  <1> DEFINE new == coach_stats'
             file == coachFile'
  <1>1. week \in Nat /\ StatsOK(coach_stats) /\ StatsOK(coachFile)
    BY DEF CoachInv
  <1>2. "unloaded" \notin excused' => KeepsWell(coachFile, new, opened')
    <2>1. "unloaded" \notin excused' => KeepsWell(coachFile, coach_stats, opened)
      BY DEF CoachInv
    <2>2. CountsKept(coachFile, coach_stats) => CountsKept(coachFile, new)
      BY <1>1, KeepingIsTransitive
    <2>3. MarksKeep(coachFile.rec_marks, coach_stats.rec_marks, opened) =>
            MarksKeep(coachFile.rec_marks, new.rec_marks, opened')
      BY DEF MarksGrow
    <2> QED
      BY <2>1, <2>2, <2>3 DEF KeepsWell
  <1>3. StatsOK(file) /\ KeepsWell(new, new, opened')
    BY <1>1, KeepsItself
  <1>4. FileKeeps
    BY <1>2 DEF FileKeeps, KeepsWell, CountsKept, Keeps, WeeksKept, WeeksKeep
  <1>5. "unloaded" \notin excused' => KeepsWell(file, new, opened')
    BY <1>2, <1>3
  <1>6. ASSUME NEW q, StatsOK(q)
        PROVE  /\ Fields(q) /\ q.turns \in Nat /\ q.results \in Nat
               /\ Buckets(q.by_week, 0..week', MAX_COACH_WEEKS)
               /\ Buckets(q.by_user, CoachUser, MAX_COACH_USERS)
               /\ MarksOK(q.rec_marks)
    <2>1. 0..week \subseteq 0..week'
      BY <1>1
    <2> QED
      BY <1>6, <2>1 DEF StatsOK, Buckets
  <1>7. StatsOK(coach_stats)' /\ StatsOK(coachFile)'
    BY <1>3, <1>6 DEF StatsOK
  <1>8. week' \in Nat
    BY <1>1
  <1> QED
    BY <1>4, <1>5, <1>7, <1>8 DEF CoachInv

LEMMA CoachInvStep ==
    ASSUME CoachInv, CoachStep
    PROVE  CoachInv' /\ FileKeeps
  <1>1. /\ week \in Nat /\ StatsOK(coach_stats) /\ StatsOK(coachFile)
        /\ coachDue \in BOOLEAN /\ COACH_ENABLED \in BOOLEAN
        /\ excused \subseteq {"unloaded", "crashed", "late", "unwritten", "disabled"}
    BY DEF CoachInv
  <1>2. Grows(coach_stats, coach_stats)
    BY <1>1, KeepsItself
  <1>o. opened \subseteq Rec /\ IsFiniteSet(opened)
    BY DEF CoachInv
  <1>m. ASSUME UNCHANGED opened, coach_stats'.rec_marks = coach_stats.rec_marks
        PROVE  MarksGrow /\ opened' \subseteq Rec /\ IsFiniteSet(opened')
    BY <1>o, <1>m DEF MarksGrow
  <1>3. ASSUME NEW u \in CoachUser \cup {NoUser}, Up, UNCHANGED phase,
               _coach_record_response(u, phase = "closing")
        PROVE  CoachInv' /\ FileKeeps
    <2>1. coach_stats' \in Bumped(u, 1, 0) /\ UNCHANGED <<COACH_ENABLED, week, opened>>
      BY <1>3 DEF _coach_record_response
    <2>2. /\ StatsOK(coach_stats') /\ Grows(coach_stats, coach_stats')
          /\ coach_stats'.rec_marks = coach_stats.rec_marks
      BY <1>1, <2>1, BumpGrows
    <2>3. coachFile' \in {coach_stats', coachFile} /\ coachDue' \in BOOLEAN
      BY <1>1, <1>3 DEF _coach_record_response, _save_coach_stats, Saved
    <2>4. excused' = excused \cup IF phase = "closing" THEN {"late"} ELSE {}
      BY <1>3 DEF _coach_record_response
    <2>5. phase' \in {"closing", "off"} => ~(excused' \subseteq {"unloaded"})
      BY <1>3, <2>4 DEF Up
    <2>6. MarksGrow /\ opened' \subseteq Rec /\ IsFiniteSet(opened')
      BY <1>m, <2>1, <2>2
    <2> QED
      BY <1>1, <2>1, <2>2, <2>3, <2>4, <2>5, <2>6, GrowthKeeps
  <1>4. ASSUME NEW u \in CoachUser \cup {NoUser}, NEW n \in 1..2, Running, UNCHANGED phase,
               _coach_record_data(u, n)
        PROVE  CoachInv' /\ FileKeeps
    <2>1. /\ coach_stats' \in Bumped(u, 0, n)
          /\ UNCHANGED <<coachFile, coachDue, COACH_ENABLED, week, excused, opened>>
      BY <1>4 DEF _coach_record_data
    <2>2. /\ StatsOK(coach_stats') /\ Grows(coach_stats, coach_stats')
          /\ coach_stats'.rec_marks = coach_stats.rec_marks
      BY <1>1, <2>1, BumpGrows
    <2>3. phase' \notin {"closing", "off"}
      BY <1>4 DEF Running
    <2>4. MarksGrow /\ opened' \subseteq Rec /\ IsFiniteSet(opened')
      BY <1>m, <2>1, <2>2
    <2> QED
      BY <1>1, <2>1, <2>2, <2>3, <2>4, GrowthKeeps
  <1>5. ASSUME NEW r \in Rec, NEW open \in BOOLEAN, Running, UNCHANGED phase,
               set_rec_status(r, open)
        PROVE  CoachInv' /\ FileKeeps
    <2>1. /\ StatsOK(coach_stats') /\ Grows(coach_stats, coach_stats')
          /\ MarksGrow /\ opened' \subseteq Rec /\ IsFiniteSet(opened')
      BY <1>1, <1>o, <1>5, MarkGrows
    <2>2. /\ coachFile' \in {coach_stats', coachFile} /\ coachDue' \in BOOLEAN
          /\ UNCHANGED <<COACH_ENABLED, week, excused>>
      BY <1>1, <1>5 DEF set_rec_status, _save_coach_stats, Saved
    <2>3. phase' \notin {"closing", "off"}
      BY <1>5 DEF Running
    <2> QED
      BY <1>1, <2>1, <2>2, <2>3, GrowthKeeps
  <1>6. ASSUME UNCHANGED phase, ToggleCoach \/ CoachIntervalPasses \/ NextWeek
        PROVE  CoachInv' /\ FileKeeps
    <2>1. /\ UNCHANGED <<coach_stats, coachFile, excused, opened>>
          /\ week' \in {week, week + 1}
          /\ coachDue' \in BOOLEAN /\ COACH_ENABLED' \in BOOLEAN
      BY <1>1, <1>6 DEF ToggleCoach, CoachIntervalPasses, NextWeek
    <2>2. phase' \in {"closing", "off"} /\ excused' \subseteq {"unloaded"} =>
            coachFile' = coach_stats'
      BY <1>6, <2>1 DEF CoachInv
    <2>3. MarksGrow /\ opened' \subseteq Rec /\ IsFiniteSet(opened')
      BY <1>m, <2>1
    <2> QED
      BY <1>1, <1>2, <2>1, <2>2, <2>3, GrowthKeeps
  <1>7. CASE FinalSave \/ CoachCrash
    <2>1. /\ UNCHANGED <<coach_stats, COACH_ENABLED, week, opened>>
          /\ coachFile' \in {coach_stats', coachFile}
          /\ coachDue' \in BOOLEAN
      BY <1>1, <1>7 DEF FinalSave, CoachCrash, Saved
    <2>2. /\ excused' \subseteq excused \cup {"crashed", "unwritten", "disabled"}
          /\ excused \subseteq excused'
          /\ excused' \subseteq {"unloaded"} => coachFile' = coach_stats'
      BY <1>1, <1>7 DEF FinalSave, CoachCrash, Saved
    <2>3. excused' \subseteq {"unloaded", "crashed", "late", "unwritten", "disabled"}
      BY <1>1, <2>2
    <2>4. MarksGrow /\ opened' \subseteq Rec /\ IsFiniteSet(opened')
      BY <1>m, <2>1
    <2> QED
      BY <1>1, <1>2, <2>1, <2>2, <2>3, <2>4, GrowthKeeps
  <1>8. CASE UNCHANGED coachVars /\ (phase' \in {"closing", "off"} => phase \in {"closing", "off"})
    <2>1. UNCHANGED <<coach_stats, coachFile, coachDue, COACH_ENABLED, week, excused,
                     opened>>
      BY <1>8 DEF coachVars
    <2>2. phase' \in {"closing", "off"} /\ excused' \subseteq {"unloaded"} =>
            coachFile' = coach_stats'
      BY <1>8, <2>1 DEF CoachInv
    <2>3. MarksGrow /\ opened' \subseteq Rec /\ IsFiniteSet(opened')
      BY <1>m, <2>1
    <2> QED
      BY <1>1, <1>2, <2>1, <2>2, <2>3, GrowthKeeps
  <1>9. CASE _load_coach_stats /\ phase' = "running"
    <2>1. /\ UNCHANGED <<coachFile, COACH_ENABLED, week>>
          /\ coachDue' = TRUE /\ opened' = {}
          /\ \/ coach_stats' = coachFile /\ excused' = {}
             \/ coach_stats' = NoStats /\ excused' = {"unloaded"}
      BY <1>9 DEF _load_coach_stats
    <2>2. StatsOK(coach_stats') /\ KeepsWell(coachFile, coachFile, {}) /\ IsFiniteSet({})
      BY <1>1, <2>1, NothingCounted, KeepsItself, FS_EmptySet
    <2>3. "unloaded" \notin excused' => KeepsWell(coachFile', coach_stats', opened')
      BY <2>1, <2>2
    <2>4. StatsOK(coach_stats)' /\ StatsOK(coachFile)'
      BY <1>1, <2>1, <2>2 DEF StatsOK
    <2>5. FileKeeps
      BY <2>1 DEF FileKeeps
    <2> QED
      BY <1>1, <1>9, <2>1, <2>2, <2>3, <2>4, <2>5 DEF CoachInv
  <1> QED
    BY <1>3, <1>4, <1>5, <1>6, <1>7, <1>8, <1>9 DEF CoachStep

LEMMA CoachInvHolds == Spec => []CoachInv
  <1>1. ASSUME CoachInv, BudgetOK, [Next]_vars
        PROVE  CoachInv'
    BY <1>1, CoachSteps, CoachInvStep
  <1> QED
    BY InitCoach, <1>1, BudgetStays, PTL DEF Spec

(* .coach.json never loses or lessens a week, a user or a mark it had, but *)
(* what is beyond the caps (an old week, a user of at most one turn, a     *)
(* mark once they are full) and the marks taken back, unless the process   *)
(* had started without reading it; and a process that stops leaves all it  *)
(* counted there (_save_coach_stats at the end of lifespan), unless it     *)
(* crashed, could not write, was disabled or counted a turn later still.   *)
THEOREM CoachHistory == Spec => HistoryKept
  <1>1. CoachInv => StoppedSaved(~Up)
    BY DEF CoachInv, StoppedSaved, Up
  <1>2. CoachInv /\ BudgetOK /\ [Next]_vars => [FileKeeps]_vars
    BY CoachSteps, CoachInvStep
  <1> QED
    BY <1>1, <1>2, CoachInvHolds, BudgetStays, PTL DEF Spec, HistoryKept

-----------------------------------------------------------------------------
(* The types.                                                              *)

FetchersIdle == ~Running => fetch = [f \in Fetcher |-> Idle]

LEMMA FetchersIdleHolds == Spec => []FetchersIdle
  <1> USE DEF FetchersIdle, Running
  <1>1. Init => FetchersIdle
    BY DEF Init, PricingInit
  <1>2. ASSUME FetchersIdle, [Next]_vars
        PROVE  FetchersIdle'
    <2>1. CASE Start \/ Stop \/ Crash
      BY <2>1 DEF Start, Stop, Crash, ForgetPrices
    <2>2. CASE Wait \/ SaveAll \/ Exit
      BY <1>2, <2>2 DEF Wait, SaveAll, Exit, pricingVars
    <2>3. CASE \E m, u : EndTurn(m, u)
      BY <1>2, <2>3 DEF EndTurn, Charge, pricingVars
    <2>4. CASE \/ \E u, n : ToolResults(u, n)
               \/ \E k : Alert(k)
               \/ \E r, open : Mark(r, open)
      BY <1>2, <2>4 DEF ToolResults, Alert, Mark, pricingVars
    <2>5. CASE \E i : AlertEnds(i)
      BY <1>2, <2>5 DEF AlertEnds, pricingVars
    <2>6. CASE \E f : Refresh(f)
      BY <2>6 DEF Refresh
    <2>7. CASE SetCoach \/ Interval \/ ClockTick
      BY <1>2, <2>7 DEF SetCoach, Interval, ClockTick, pricingVars
    <2>8. CASE ViewPrices \/ NewDocument \/ NextDay
      BY <1>2, <2>8 DEF ViewPrices, NewDocument, NextDay, pricing_view, Publish, Tomorrow
    <2>9. CASE UNCHANGED vars
      BY <1>2, <2>9 DEF vars, pricingVars
    <2> QED
      BY <1>2, <2>1, <2>2, <2>3, <2>4, <2>5, <2>6, <2>7, <2>8, <2>9 DEF Next
  <1> QED
    BY <1>1, <1>2, PTL DEF Spec

LEMMA AlertsTyped ==
    ASSUME MapInv, TasksInv
    PROVE  AlertsTypeOK
  <1>1. \A k \in Keys : Cardinality(Places(_sent, k)) <= 1
    <2> SUFFICES ASSUME NEW k \in Keys
                 PROVE  Cardinality(Places(_sent, k)) <= 1
      OBVIOUS
    <2>1. \A p, r \in DOMAIN _sent : _sent[p].key = _sent[r].key => p = r
      BY DEF MapInv, Remembers
    <2>2. CASE Places(_sent, k) = {}
      BY <2>2, FS_EmptySet
    <2>3. ASSUME NEW p \in Places(_sent, k)
          PROVE  Cardinality(Places(_sent, k)) <= 1
      <3>1. \A r \in Places(_sent, k) : r = p
        BY <2>1 DEF Places
      <3>2. Places(_sent, k) = {p}
        BY <3>1
      <3> QED
        BY <3>2, FS_Singleton
    <2> QED
      BY <2>2, <2>3
  <1>2. /\ _sent \in Seq([key : Keys, at : 0..clock])
        /\ Len(_sent) <= _MAX_KEYS
    BY DEF MapInv, Entry
  <1>3. _tasks \cup awaited \cup due \cup unsent \subseteq DOMAIN queued
    BY DEF TasksInv
  <1> QED
    BY <1>1, <1>2, <1>3 DEF AlertsTypeOK

LEMMA CoachTyped ==
    ASSUME CoachInv
    PROVE  CoachTypeOK
  <1>1. ASSUME NEW q, StatsOK(q)
        PROVE  /\ {q.turns, q.results} \subseteq Nat
               /\ DOMAIN q.by_week \subseteq 0..week
               /\ Cardinality(DOMAIN q.by_week) <= MAX_COACH_WEEKS
               /\ DOMAIN q.by_user \subseteq CoachUser
               /\ Cardinality(DOMAIN q.by_user) <= MAX_COACH_USERS
               /\ Range(q.rec_marks) \subseteq Rec
               /\ IsInjective(q.rec_marks)
               /\ Len(q.rec_marks) <= MAX_REC_MARKS
    <2>1. MarksOK(q.rec_marks)
      BY <1>1 DEF StatsOK
    <2>2. /\ Range(q.rec_marks) \subseteq Rec
          /\ IsInjective(q.rec_marks)
          /\ Len(q.rec_marks) <= MAX_REC_MARKS
      BY <2>1 DEF MarksOK, Range, IsInjective
    <2> QED
      BY <1>1, <2>2 DEF StatsOK, Buckets
  <1>2. StatsOK(coach_stats) /\ StatsOK(coachFile)
    BY DEF CoachInv
  <1> QED
    BY <1>1, <1>2 DEF CoachInv, CoachTypeOK

(* The bounds of the maps among them: the alerts remembered, each key once *)
(* (_MAX_KEYS), and the weeks, users and marks of the coach, in memory and *)
(* on disk (MAX_COACH_WEEKS, MAX_COACH_USERS, MAX_REC_MARKS); the prices   *)
(* in use are those of the installed document on the day of the rebuild;   *)
(* and no refresh outlives the process's running.                          *)
THEOREM LifespanTyped == Spec => []TypeOK
  <1>1. MapInv /\ TasksInv /\ CoachInv /\ PricesInv /\ FetchersIdle => TypeOK
    BY AlertsTyped, CoachTyped DEF TypeOK, PricesInv, FetchersIdle, TasksInv
  <1> QED
    BY <1>1, AlertsInvHolds, CoachInvHolds, PricesInvHolds, FetchersIdleHolds, PTL
=============================================================================
