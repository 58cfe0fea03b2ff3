--------------------------- MODULE UserCapProofs ---------------------------
(***************************************************************************)
(* UserCap for every set of users and slots, every cost and cap, and       *)
(* without any of the bounds of the runs.                                  *)
(***************************************************************************)
EXTENDS UserCap, FiniteSetTheorems, TLAPS

\* What the requests in flight that were checked against the cap of u may
\* still add to its bucket.
Load(u) == MaxCost * Cardinality(InFlight(u))

Base(h) == IF h > 0 THEN h - 1 ELSE 0

Capacity == Cardinality(Slot) * MaxCost

\* The strengthening of OvershootBounded: a bucket and what is in flight on
\* it, together, stay under the bound, so any order of ending them does.
LoadBounded ==
    \A u \in User : by_user[u].cost_usd + Load(u)
                      <= free[u] + Base(high[u]) + Capacity

\* While the settings stand, having reached the cap means having been reported.
Announced ==
    \A u \in User :
        /\ changes = 0
        /\ enabled
        /\ cap_for_label(u) > 0
        /\ spent[u] >= cap_for_label(u)
        => <<u, period, "over">> \in sent

\* A bucket was never charged for a period still to come.
KeysPast == \A u \in User : by_user[u].period_key <= period

-----------------------------------------------------------------------------
\* Any set of slots is finite, and what its requests may cost fits Capacity.
LEMMA SlotsFit ==
    ASSUME NEW S \in SUBSET Slot
    PROVE  /\ IsFiniteSet(S)
           /\ Cardinality(S) \in Nat
           /\ MaxCost * Cardinality(S) \in Nat
           /\ MaxCost * Cardinality(S) <= Capacity
           /\ Capacity \in Nat
<1>1. IsFiniteSet(Slot) /\ MaxCost \in Nat
  BY ConstantsAssumption
<1>2. IsFiniteSet(S) /\ Cardinality(S) <= Cardinality(Slot)
  BY <1>1, FS_Subset
<1>3. Cardinality(S) \in Nat /\ Cardinality(Slot) \in Nat
  BY <1>1, <1>2, FS_CardinalityType
<1>4. \A a, b, c \in Nat : a <= b => /\ c * a \in Nat
                                    /\ b * c \in Nat
                                    /\ c * a <= b * c
  OBVIOUS
<1> QED BY <1>1, <1>2, <1>3, <1>4 DEF Capacity

\* One request less in flight may cost MaxCost less.
LEMMA SlotRemoved ==
    ASSUME NEW S \in SUBSET Slot, NEW s \in S
    PROVE  MaxCost * Cardinality(S \ {s}) = MaxCost * Cardinality(S) - MaxCost
<1>1. Cardinality(S \ {s}) = Cardinality(S) - 1
  BY SlotsFit, FS_RemoveElement
<1>2. Cardinality(S) \in Nat /\ MaxCost \in Nat
  BY SlotsFit, ConstantsAssumption
<1>3. \A m, k \in Nat : m * (k - 1) = m * k - m
  OBVIOUS
<1> QED BY <1>1, <1>2, <1>3

LEMMA TypeInit == Init => TypeOK
  BY ConstantsAssumption DEF Init, TypeOK, Bucket, Request, Idle

\* The bucket the helper returns is a bucket, with the current cap and period
\* and with the stored spend unless it starts over.
LEMMA BucketFetched ==
    ASSUME TypeOK, NEW u \in User
    PROVE  LET b == get_or_create_user_bucket(u)
           IN  /\ b \in Bucket
               /\ b.cap_usd = cap_for_label(u)
               /\ b.period_key = period
               /\ b.known
               /\ b.cost_usd = IF StartsOver(u) THEN 0 ELSE by_user[u].cost_usd
<1>1. cap_for_label(u) \in Nat
  BY ConstantsAssumption DEF TypeOK, cap_for_label
<1>2. by_user[u] \in Bucket /\ period \in Nat
  BY DEF TypeOK
<1> QED
  BY <1>1, <1>2 DEF get_or_create_user_bucket, RolledOver, StartsOver,
     _reset_user_bucket, _new_user_bucket, Bucket

LEMMA ChargedBucket ==
    ASSUME NEW b \in Bucket, NEW cost \in Nat
    PROVE  /\ Charged(b, cost) \in Bucket
           /\ Charged(b, cost).cost_usd = b.cost_usd + cost
           /\ Charged(b, cost).cap_usd = b.cap_usd
           /\ Charged(b, cost).period_key = b.period_key
           /\ Charged(b, cost).known = b.known
<1> DEFINE c == b.cost_usd + cost
           r == b.requests + 1
<1>1. c \in Nat /\ r \in Nat
  BY DEF Bucket
<1>2. Charged(b, cost) = [b EXCEPT !.cost_usd = c, !.requests = r]
  BY Zenon DEF Charged
<1> HIDE DEF c, r
<1>3. [b EXCEPT !.cost_usd = c, !.requests = r] \in Bucket
  BY <1>1 DEF Bucket
<1> QED BY <1>1, <1>2, <1>3 DEF Bucket, c

LEMMA AlertsTyped ==
    ASSUME NEW u \in User, NEW b \in Bucket
    PROVE  NewAlerts(u, b) \subseteq User \X Nat \X {"near", "over"}
  BY DEF NewAlerts, Bucket

LEMMA TypeStep == TypeOK /\ [Next]_vars => TypeOK'
<1> SUFFICES ASSUME TypeOK, [Next]_vars PROVE TypeOK'
  OBVIOUS
<1>0. \A u \in User : get_or_create_user_bucket(u) \in Bucket
  BY BucketFetched
<1>a. \A u \in User : cap_for_label(u) \in Nat
  BY ConstantsAssumption DEF cap_for_label, TypeOK
<1>b. \A u \in User : _reset_user_bucket(by_user[u]) \in Bucket
  BY DEF _reset_user_bucket, Bucket, TypeOK
<1> USE <1>a DEF TypeOK, settingsVars, historyVars
<1>1. ASSUME NEW s \in Slot, NEW u \in User, NEW path \in Path,
             AdmitUnchecked(s, u, path) PROVE TypeOK'
  BY <1>1 DEF AdmitUnchecked, Request
<1>2. ASSUME NEW s \in Slot, NEW u \in User, NEW path \in Path,
             AdmitUnderCap(s, u, path) PROVE TypeOK'
  <2>1. slot' \in [Slot -> Request]
    BY <1>2 DEF AdmitUnderCap, Request
  <2>2. high' \in [User -> Nat] /\ by_user' \in [User -> Bucket] /\ free' \in [User -> Nat]
    BY <1>0, <1>2 DEF AdmitUnderCap, Fetch
  <2> QED BY <1>2, <2>1, <2>2 DEF AdmitUnderCap
<1>3. ASSUME NEW u \in User, NEW path \in Path, Reject(u, path) PROVE TypeOK'
  <2>1. [get_or_create_user_bucket(u) EXCEPT !.blocked_count = @ + 1] \in Bucket
    BY <1>0 DEF Bucket
  <2> QED BY <1>3, <2>1 DEF Reject, CapApplies, Fetch
<1>4. ASSUME NEW s \in Slot, NEW cost \in 0..MaxCost, Record(s, cost) PROVE TypeOK'
  <2> DEFINE u == slot[s].user
             b == Charged(get_or_create_user_bucket(u), cost)
  <2>1. u \in User /\ cost \in Nat
    BY ConstantsAssumption DEF Request
  <2>2. b \in Bucket
    BY <1>0, <2>1, ChargedBucket
  <2>3. sent' \subseteq User \X Nat \X {"near", "over"}
    BY <1>4, <2>1, <2>2, AlertsTyped DEF Record
  <2>4. slot' \in [Slot -> Request]
    BY <1>4, ConstantsAssumption DEF Record, Idle, Request
  <2>5. by_user' \in [User -> Bucket]
    BY <1>4, <2>1, <2>2 DEF Record
  <2>6. spent' \in [User -> Nat] /\ free' \in [User -> Nat] /\ high' \in [User -> Nat]
    BY <1>4, <2>1 DEF Record
  <2> QED BY <1>4, <2>3, <2>4, <2>5, <2>6 DEF Record
<1>5. ASSUME NEW s \in Slot, EndUnrecorded(s) PROVE TypeOK'
  BY <1>5, ConstantsAssumption DEF EndUnrecorded, Idle, Request
<1>6. ASSUME NEW u \in User, View(u) PROVE TypeOK'
  BY <1>0, <1>6 DEF View, Fetch
<1>7. ASSUME NEW u \in User, AdminReset(u) PROVE TypeOK'
  BY <1>b, <1>7 DEF AdminReset
<1>8. ASSUME NEW e \in BOOLEAN, NEW h \in BOOLEAN, NEW d \in Defaults, Configure(e, h, d)
      PROVE  TypeOK'
  BY <1>8, ConstantsAssumption DEF Configure
<1>9. CASE NextPeriod
  BY <1>9 DEF NextPeriod
<1>10. CASE UNCHANGED vars
  BY <1>10 DEF vars
<1> QED BY <1>1, <1>2, <1>3, <1>4, <1>5, <1>6, <1>7, <1>8, <1>9, <1>10 DEF Next

\* Every reachable state has the types the model declares.
THEOREM TypeCorrect == Spec => []TypeOK
  BY TypeInit, TypeStep, PTL DEF Spec

-----------------------------------------------------------------------------
(* Spend and alerts.                                                       *)

SpendInv == TypeOK /\ KeysPast /\ SpendIsCurrent /\ Announced

LEMMA SpendInit == Init => SpendInv
<1> SUFFICES ASSUME Init PROVE SpendInv
  OBVIOUS
<1>1. TypeOK
  BY TypeInit
<1>2. \A u \in User : cap_for_label(u) \in Nat
  BY <1>1, ConstantsAssumption DEF cap_for_label, TypeOK
<1>3. KeysPast /\ SpendIsCurrent
  BY DEF Init, KeysPast, SpendIsCurrent, StartsOver
<1>4. Announced
  BY <1>2 DEF Init, Announced
<1> QED BY <1>1, <1>3, <1>4 DEF SpendInv

\* Storing a bucket that get_or_create_user_bucket returned keeps every bucket
\* in line with what was recorded.
LEMMA FetchKeepsSpend ==
    ASSUME TypeOK, KeysPast, SpendIsCurrent, NEW u \in User, NEW b \in Bucket,
           b.known, b.period_key = period, NEW c \in Nat,
           b.cost_usd = (IF StartsOver(u) THEN 0 ELSE by_user[u].cost_usd) + c,
           by_user' = [by_user EXCEPT ![u] = b],
           spent' = [spent EXCEPT ![u] = @ + c],
           period' = period
    PROVE  KeysPast' /\ SpendIsCurrent'
<1>1. ASSUME NEW v \in User, v # u
      PROVE  by_user'[v] = by_user[v] /\ spent'[v] = spent[v]
  BY <1>1 DEF TypeOK
<1>2. by_user'[u] = b /\ spent'[u] = spent[u] + c
  BY DEF TypeOK
<1>3. spent[u] = IF StartsOver(u) THEN 0 ELSE by_user[u].cost_usd
  BY DEF SpendIsCurrent
<1>4. KeysPast'
  BY <1>1, <1>2 DEF KeysPast, TypeOK
<1>5. SpendIsCurrent'
  BY <1>1, <1>2, <1>3 DEF SpendIsCurrent, StartsOver, TypeOK
<1> QED BY <1>4, <1>5

LEMMA SpendStep == SpendInv /\ [Next]_vars => SpendInv'
<1> SUFFICES ASSUME SpendInv, [Next]_vars
             PROVE  KeysPast' /\ SpendIsCurrent' /\ Announced'
  BY TypeStep DEF SpendInv
<1>0. TypeOK /\ KeysPast /\ SpendIsCurrent /\ Announced
  BY DEF SpendInv
<1> USE <1>0
<1>a. \A u \in User : /\ get_or_create_user_bucket(u) \in Bucket
                      /\ get_or_create_user_bucket(u).known
                      /\ get_or_create_user_bucket(u).period_key = period
                      /\ get_or_create_user_bucket(u).cap_usd = cap_for_label(u)
                      /\ get_or_create_user_bucket(u).cost_usd =
                           IF StartsOver(u) THEN 0 ELSE by_user[u].cost_usd
  BY BucketFetched
<1>b. \A u \in User : [spent EXCEPT ![u] = @ + 0] = spent
  BY DEF TypeOK
<1>c. ASSUME NEW u \in User, Fetch(u, get_or_create_user_bucket(u)),
             UNCHANGED <<spent, period>>
      PROVE  KeysPast' /\ SpendIsCurrent'
  <2> DEFINE b == get_or_create_user_bucket(u)
  <2>1. b.cost_usd = (IF StartsOver(u) THEN 0 ELSE by_user[u].cost_usd) + 0
    BY <1>a DEF Bucket
  <2>2. by_user' = [by_user EXCEPT ![u] = b]
    BY <1>c DEF Fetch
  <2>3. b \in Bucket /\ b.known /\ b.period_key = period
    BY <1>a
  <2>4. spent' = [spent EXCEPT ![u] = @ + 0] /\ period' = period
    BY <1>b, <1>c
  <2> HIDE DEF b
  <2> QED BY <2>1, <2>2, <2>3, <2>4, FetchKeepsSpend
<1>1. ASSUME NEW s \in Slot, NEW u \in User, NEW path \in Path,
             AdmitUnchecked(s, u, path)
      PROVE  KeysPast' /\ SpendIsCurrent' /\ Announced'
  BY <1>1 DEF AdmitUnchecked, settingsVars, historyVars, KeysPast,
     SpendIsCurrent, Announced, StartsOver, cap_for_label
<1>2. ASSUME NEW s \in Slot, NEW u \in User, NEW path \in Path,
             AdmitUnderCap(s, u, path)
      PROVE  KeysPast' /\ SpendIsCurrent' /\ Announced'
  <2>1. KeysPast' /\ SpendIsCurrent'
    BY <1>2, <1>c DEF AdmitUnderCap
  <2>2. Announced'
    BY <1>2 DEF AdmitUnderCap, settingsVars, Announced, cap_for_label
  <2> QED BY <2>1, <2>2
<1>3. ASSUME NEW u \in User, NEW path \in Path, Reject(u, path)
      PROVE  KeysPast' /\ SpendIsCurrent' /\ Announced'
  <2> DEFINE b == [get_or_create_user_bucket(u) EXCEPT !.blocked_count = @ + 1]
  <2>1. b \in Bucket /\ b.known /\ b.period_key = period
        /\ b.cost_usd = get_or_create_user_bucket(u).cost_usd
    BY <1>a DEF Bucket
  <2>2. KeysPast' /\ SpendIsCurrent'
    <3>1. b.cost_usd = (IF StartsOver(u) THEN 0 ELSE by_user[u].cost_usd) + 0
      BY <1>a, <2>1 DEF Bucket
    <3>2. by_user' = [by_user EXCEPT ![u] = b] /\ UNCHANGED <<spent, period>>
      BY <1>3 DEF Reject, CapApplies, Fetch
    <3> HIDE DEF b
    <3> QED BY <1>b, <2>1, <3>1, <3>2, FetchKeepsSpend
  <2>3. Announced'
    BY <1>3 DEF Reject, CapApplies, settingsVars, Announced, cap_for_label
  <2> QED BY <2>2, <2>3
<1>4. ASSUME NEW s \in Slot, NEW cost \in 0..MaxCost, Record(s, cost)
      PROVE  KeysPast' /\ SpendIsCurrent' /\ Announced'
  <2> DEFINE u == slot[s].user
             b == Charged(get_or_create_user_bucket(u), cost)
  <2>1. u \in User /\ cost \in Nat
    BY ConstantsAssumption DEF TypeOK, Request
  <2>2. /\ b \in Bucket
        /\ b.known
        /\ b.period_key = period
        /\ b.cap_usd = cap_for_label(u)
        /\ b.cost_usd = (IF StartsOver(u) THEN 0 ELSE by_user[u].cost_usd) + cost
    BY <1>a, <2>1, ChargedBucket
  <2>3. /\ by_user' = [by_user EXCEPT ![u] = b]
        /\ spent' = [spent EXCEPT ![u] = @ + cost]
        /\ sent' = sent \cup NewAlerts(u, b)
        /\ UNCHANGED <<period, enabled, default, changes>>
    BY <1>4 DEF Record, settingsVars
  <2> HIDE DEF u, b
  <2>4. KeysPast' /\ SpendIsCurrent'
    BY <2>1, <2>2, <2>3, FetchKeepsSpend
  <2>5. spent'[u] = b.cost_usd
    BY <2>1, <2>2, <2>3 DEF TypeOK, SpendIsCurrent
  <2>6. \A v \in User : v # u => spent'[v] = spent[v]
    BY <2>3 DEF TypeOK
  <2>7. ASSUME NEW v \in User, changes' = 0, enabled', cap_for_label(v)' > 0,
               spent'[v] >= cap_for_label(v)'
        PROVE  <<v, period', "over">> \in sent'
    <3>1. cap_for_label(v)' = cap_for_label(v)
      BY <2>3 DEF cap_for_label
    <3>2. CASE v # u
      BY <2>3, <2>6, <2>7, <3>1, <3>2 DEF Announced
    <3>3. CASE v = u
      <4>1. b.cost_usd >= b.cap_usd /\ b.cap_usd # 0 /\ enabled
        BY <2>2, <2>3, <2>5, <2>7, <3>1, <3>3, ConstantsAssumption
        DEF TypeOK, cap_for_label
      <4>2. NewAlerts(u, b) = {<<u, b.period_key, "over">>}
        BY <4>1 DEF NewAlerts
      <4> QED BY <2>2, <2>3, <3>3, <4>2
    <3> QED BY <3>2, <3>3
  <2> QED BY <2>4, <2>7 DEF Announced
<1>5. ASSUME NEW s \in Slot, EndUnrecorded(s)
      PROVE  KeysPast' /\ SpendIsCurrent' /\ Announced'
  BY <1>5 DEF EndUnrecorded, settingsVars, historyVars, KeysPast,
     SpendIsCurrent, Announced, StartsOver, cap_for_label
<1>6. ASSUME NEW u \in User, View(u)
      PROVE  KeysPast' /\ SpendIsCurrent' /\ Announced'
  <2>1. KeysPast' /\ SpendIsCurrent'
    BY <1>6, <1>c DEF View
  <2>2. Announced'
    BY <1>6 DEF View, settingsVars, Announced, cap_for_label
  <2> QED BY <2>1, <2>2
<1>7. ASSUME NEW u \in User, AdminReset(u)
      PROVE  KeysPast' /\ SpendIsCurrent' /\ Announced'
  <2> DEFINE b == _reset_user_bucket(by_user[u])
  <2>1. b.known = by_user[u].known /\ b.period_key = period /\ b.cost_usd = 0
    BY DEF _reset_user_bucket, TypeOK, Bucket
  <2>2. /\ by_user' = [by_user EXCEPT ![u] = b]
        /\ spent' = [spent EXCEPT ![u] = 0]
        /\ UNCHANGED <<period, sent, enabled, default, changes>>
    BY <1>7 DEF AdminReset, settingsVars
  <2> HIDE DEF b
  <2>3. \A v \in User : /\ v # u => by_user'[v] = by_user[v] /\ spent'[v] = spent[v]
                        /\ v = u => by_user'[v] = b /\ spent'[v] = 0
    BY <2>2 DEF TypeOK
  <2>4. KeysPast'
    BY <2>1, <2>2, <2>3 DEF KeysPast, TypeOK
  <2>5. SpendIsCurrent'
    BY <2>1, <2>2, <2>3 DEF SpendIsCurrent, StartsOver
  <2>6. Announced'
    BY <2>2, <2>3, ConstantsAssumption DEF Announced, cap_for_label, TypeOK
  <2> QED BY <2>4, <2>5, <2>6
<1>8. ASSUME NEW e \in BOOLEAN, NEW h \in BOOLEAN, NEW d \in Defaults, Configure(e, h, d)
      PROVE  KeysPast' /\ SpendIsCurrent' /\ Announced'
  <2>1. changes' # 0
    BY <1>8 DEF Configure, TypeOK
  <2> QED
    BY <1>8, <2>1 DEF Configure, historyVars, KeysPast, SpendIsCurrent,
       Announced, StartsOver
<1>9. CASE NextPeriod
  <2>1. period' = period + 1 /\ by_user' = by_user /\ spent' = [u \in User |-> 0]
        /\ UNCHANGED <<sent, enabled, default, changes>>
    BY <1>9 DEF NextPeriod, settingsVars
  <2>2. KeysPast'
    BY <2>1 DEF KeysPast, TypeOK, Bucket
  <2>3. \A u \in User : StartsOver(u)'
    BY <2>1 DEF StartsOver, KeysPast, TypeOK, Bucket
  <2>4. SpendIsCurrent'
    BY <2>1, <2>3 DEF SpendIsCurrent
  <2>5. Announced'
    BY <2>1, ConstantsAssumption DEF Announced, cap_for_label, TypeOK
  <2> QED BY <2>2, <2>4, <2>5
<1>10. CASE UNCHANGED vars
  BY <1>10 DEF vars, KeysPast, SpendIsCurrent, Announced, StartsOver, cap_for_label
<1> QED
  BY <1>1, <1>2, <1>3, <1>4, <1>5, <1>6, <1>7, <1>8, <1>9, <1>10 DEF Next

LEMMA SpendAlways == Spec => []SpendInv
  BY SpendInit, SpendStep, PTL DEF Spec

\* A bucket holds what was recorded for its user in the period it names, in
\* every reachable state, whatever the interleaving of requests and rollovers.
THEOREM SpendCurrent == Spec => []SpendIsCurrent
  BY SpendAlways, PTL DEF SpendInv

\* A 429 has a cause in this period's spend and the cap in force.
THEOREM BlockedOnlyWithCause == Spec => BlockedWithCause
<1>1. ASSUME SpendInv, NEW u \in User, NEW path \in Path, Reject(u, path)
      PROVE  cap_for_label(u) > 0 /\ spent[u] >= cap_for_label(u)
  BY <1>1, BucketFetched
  DEF Reject, CapApplies, is_user_over_cap, OverCap, SpendInv, SpendIsCurrent
<1>2. SpendInv => [\A u \in User, path \in Path :
         Reject(u, path) => cap_for_label(u) > 0 /\ spent[u] >= cap_for_label(u)]_vars
  BY <1>1
<1> QED BY <1>2, SpendAlways, PTL DEF BlockedWithCause

\* While the settings stand, a 429 was announced.
THEOREM BlockedOnlyAnnounced == Spec => BlockedWasAnnounced
<1>1. ASSUME SpendInv, NEW u \in User, NEW path \in Path, Reject(u, path), changes = 0
      PROVE  <<u, period, "over">> \in sent
  BY <1>1, BucketFetched
  DEF Reject, CapApplies, is_user_over_cap, OverCap, SpendInv, SpendIsCurrent, Announced
<1>2. SpendInv => [\A u \in User, path \in Path :
         Reject(u, path) /\ changes = 0 => <<u, period, "over">> \in sent]_vars
  BY <1>1
<1> QED BY <1>2, SpendAlways, PTL DEF BlockedWasAnnounced

-----------------------------------------------------------------------------
(* The overshoot of a cap.                                                 *)

LEMMA LoadTyped ==
    ASSUME NEW u \in User
    PROVE  Load(u) \in Nat /\ Load(u) <= Capacity /\ Capacity \in Nat
<1>1. InFlight(u) \in SUBSET Slot
  BY DEF InFlight
<1> QED BY <1>1, SlotsFit DEF Load

LEMMA LoadTypedNext ==
    ASSUME NEW u \in User
    PROVE  Load(u)' \in Nat /\ Load(u)' <= Capacity
<1>1. InFlight(u)' \in SUBSET Slot
  BY DEF InFlight
<1> QED BY <1>1, SlotsFit DEF Load

\* A step after which the requests in flight on u are the same, and the room
\* left in its bucket no smaller, keeps the bound.
LEMMA LoadKept ==
    ASSUME TypeOK, TypeOK', LoadBounded, NEW u \in User,
           InFlight(u)' \subseteq InFlight(u),
           \/ by_user'[u].cost_usd = 0
           \/ /\ by_user'[u].cost_usd = by_user[u].cost_usd
              /\ free'[u] = free[u]
              /\ Base(high'[u]) >= Base(high[u])
    PROVE  by_user'[u].cost_usd + Load(u)' <= free'[u] + Base(high'[u]) + Capacity
<1>1. InFlight(u) \in SUBSET Slot /\ InFlight(u)' \in SUBSET Slot
  BY DEF InFlight
<1>2. Load(u)' <= Load(u)
  <2>1. Cardinality(InFlight(u)') <= Cardinality(InFlight(u))
    BY <1>1, SlotsFit, FS_Subset
  <2>2. \A a, b, m \in Nat : a <= b => m * a <= m * b
    OBVIOUS
  <2> QED BY <1>1, <2>1, <2>2, SlotsFit, ConstantsAssumption DEF Load
<1>3. /\ by_user[u].cost_usd \in Nat /\ by_user'[u].cost_usd \in Nat
      /\ free[u] \in Nat /\ free'[u] \in Nat
      /\ high[u] \in Nat /\ high'[u] \in Nat
  BY DEF TypeOK, Bucket
<1>4. by_user[u].cost_usd + Load(u) <= free[u] + Base(high[u]) + Capacity
  BY DEF LoadBounded
<1>5. Base(high[u]) \in Nat /\ Base(high'[u]) \in Nat
  BY <1>3 DEF Base
<1> QED BY <1>2, <1>3, <1>4, <1>5, LoadTyped, LoadTypedNext

LEMMA LoadStep == TypeOK /\ LoadBounded /\ [Next]_vars => LoadBounded'
<1> SUFFICES ASSUME TypeOK, LoadBounded, [Next]_vars, NEW v \in User
             PROVE  by_user'[v].cost_usd + Load(v)'
                      <= free'[v] + Base(high'[v]) + Capacity
  BY DEF LoadBounded, Capacity
<1> DEFINE Goal == by_user'[v].cost_usd + Load(v)'
                     <= free'[v] + Base(high'[v]) + Capacity
<1>0. TypeOK'
  BY TypeStep
<1>a. \A u \in User : /\ get_or_create_user_bucket(u) \in Bucket
                      /\ get_or_create_user_bucket(u).cap_usd = cap_for_label(u)
                      /\ get_or_create_user_bucket(u).cost_usd =
                           IF StartsOver(u) THEN 0 ELSE by_user[u].cost_usd
  BY BucketFetched
<1>b. /\ by_user[v] \in Bucket /\ by_user'[v] \in Bucket
      /\ free[v] \in Nat /\ high[v] \in Nat /\ free'[v] \in Nat /\ high'[v] \in Nat
      /\ \A u \in User : cap_for_label(u) \in Nat
  BY <1>0, ConstantsAssumption DEF TypeOK, cap_for_label
<1>c. /\ by_user[v].cost_usd + Load(v) <= free[v] + Base(high[v]) + Capacity
      /\ by_user[v].cost_usd \in Nat /\ Base(high[v]) \in Nat
  BY <1>b DEF LoadBounded, Bucket, Base
<1>d. ASSUME InFlight(v)' \subseteq InFlight(v),
             by_user'[v] = by_user[v], free'[v] = free[v], high'[v] = high[v]
      PROVE  Goal
  BY <1>0, <1>d, <1>c, LoadKept
\* fetching a bucket charges nothing
<1>e. ASSUME NEW u \in User, NEW b \in Bucket, InFlight(v)' \subseteq InFlight(v),
             b.cost_usd = get_or_create_user_bucket(u).cost_usd,
             Fetch(u, b),
             high' = IF StartsOver(u) THEN [high EXCEPT ![u] = 0] ELSE high
      PROVE  Goal
  <2>1. CASE v # u
    BY <1>d, <1>e, <2>1 DEF Fetch, TypeOK
  <2>2. CASE v = u
    <3>1. by_user'[v] = b
      BY <1>e, <2>2 DEF Fetch, TypeOK
    <3>2. CASE StartsOver(u)
      BY <1>0, <1>a, <1>e, <2>2, <3>1, <3>2, LoadKept
    <3>3. CASE ~StartsOver(u)
      BY <1>0, <1>a, <1>c, <1>e, <2>2, <3>1, <3>3, LoadKept DEF Fetch
    <3> QED BY <3>2, <3>3
  <2> QED BY <2>1, <2>2
<1>1. ASSUME NEW s \in Slot, NEW u \in User, NEW path \in Path,
             AdmitUnchecked(s, u, path) PROVE Goal
  <2>1. InFlight(v)' \subseteq InFlight(v)
    BY <1>1 DEF AdmitUnchecked, InFlight, TypeOK
  <2> QED BY <1>1, <1>d, <2>1 DEF AdmitUnchecked, historyVars
<1>2. ASSUME NEW s \in Slot, NEW u \in User, NEW path \in Path,
             AdmitUnderCap(s, u, path) PROVE Goal
  <2> DEFINE b == get_or_create_user_bucket(u)
             base == IF StartsOver(u) THEN 0 ELSE high[u]
             cap == cap_for_label(u)
  <2>1. CASE v # u
    <3>1. InFlight(v)' \subseteq InFlight(v)
      BY <1>2, <2>1 DEF AdmitUnderCap, InFlight, TypeOK
    <3> QED BY <1>2, <1>d, <2>1, <3>1 DEF AdmitUnderCap, Fetch, TypeOK
  <2>2. CASE v = u
    <3>1. /\ by_user'[v] = b
          /\ high'[v] = IF cap > base THEN cap ELSE base
          /\ free'[v] = IF StartsOver(u) THEN 0 ELSE free[v]
      BY <1>2, <2>2 DEF AdmitUnderCap, Fetch, TypeOK
    <3>2. base \in Nat /\ cap \in Nat /\ b.cost_usd \in Nat /\ b.cap_usd = cap
      BY <1>a, <1>b, <2>2 DEF Bucket
    <3>3. CASE cap > 0
      <4>1. b.cost_usd < cap
        BY <1>2, <3>2, <3>3 DEF AdmitUnderCap, is_user_over_cap, OverCap
      <4>2. high'[v] >= cap
        BY <3>1, <3>2
      <4>3. b.cost_usd <= Base(high'[v]) /\ Base(high'[v]) \in Nat
        BY <1>b, <3>2, <3>3, <4>1, <4>2 DEF Base
      <4> QED BY <1>b, <3>1, <3>2, <4>3, LoadTyped, LoadTypedNext
    <3>4. CASE cap = 0
      <4>1. InFlight(v)' \subseteq InFlight(v)
        <5>0. (cap_for_label(u) > 0) = FALSE
          BY <3>4
        <5>1. slot' = [slot EXCEPT ![s] = [busy |-> TRUE, user |-> u, checked |-> FALSE]]
          BY <1>2, <5>0, Zenon DEF AdmitUnderCap
        <5> QED BY <5>1 DEF InFlight, TypeOK
      <4>2. high'[v] = base
        BY <3>1, <3>2, <3>4
      <4>3. CASE StartsOver(u)
        BY <1>0, <1>a, <2>2, <3>1, <4>1, <4>3, LoadKept
      <4>4. CASE ~StartsOver(u)
        BY <1>0, <1>a, <1>c, <2>2, <3>1, <4>1, <4>2, <4>4, LoadKept
      <4> QED BY <4>3, <4>4
    <3> QED BY <3>2, <3>3, <3>4
  <2> QED BY <2>1, <2>2
<1>3. ASSUME NEW u \in User, NEW path \in Path, Reject(u, path) PROVE Goal
  <2> DEFINE b == [get_or_create_user_bucket(u) EXCEPT !.blocked_count = @ + 1]
  <2>1. b \in Bucket /\ b.cost_usd = get_or_create_user_bucket(u).cost_usd
    BY <1>a DEF Bucket
  <2>2. InFlight(v)' \subseteq InFlight(v)
    BY <1>3 DEF Reject, CapApplies, InFlight
  <2> QED BY <1>3, <1>e, <2>1, <2>2 DEF Reject
<1>4. ASSUME NEW s \in Slot, NEW cost \in 0..MaxCost, Record(s, cost) PROVE Goal
  <2> DEFINE u == slot[s].user
             b == Charged(get_or_create_user_bucket(u), cost)
  <2>1. u \in User /\ cost \in Nat /\ cost <= MaxCost /\ MaxCost \in Nat
    BY ConstantsAssumption DEF TypeOK, Request
  <2>2. /\ by_user' = [by_user EXCEPT ![u] = b]
        /\ free' = [free EXCEPT ![u] = (IF StartsOver(u) THEN 0 ELSE @)
                                       + (IF slot[s].checked THEN 0 ELSE cost)]
        /\ high' = IF StartsOver(u) THEN [high EXCEPT ![u] = 0] ELSE high
        /\ slot' = [slot EXCEPT ![s] = Idle]
        /\ slot[s].busy
    BY <1>4 DEF Record
  <2>3. b.cost_usd = get_or_create_user_bucket(u).cost_usd + cost
    BY <1>a, <2>1, ChargedBucket
  <2>4. CASE v # u
    <3>1. InFlight(v)' \subseteq InFlight(v)
      BY <2>2 DEF InFlight, Idle, TypeOK
    <3> QED BY <1>d, <2>1, <2>2, <2>4, <3>1 DEF TypeOK
  <2>5. CASE v = u
    <3>1. by_user'[v].cost_usd = (IF StartsOver(u) THEN 0 ELSE by_user[v].cost_usd) + cost
      BY <1>a, <2>1, <2>2, <2>3, <2>5 DEF TypeOK
    <3>2. free'[v] = (IF StartsOver(u) THEN 0 ELSE free[v])
                       + (IF slot[s].checked THEN 0 ELSE cost)
      BY <2>1, <2>2, <2>5 DEF TypeOK
    <3>3. high'[v] = IF StartsOver(u) THEN 0 ELSE high[v]
      BY <2>1, <2>2, <2>5 DEF TypeOK
    <3>4. InFlight(v)' = InFlight(v) \ {s}
      BY <2>2 DEF InFlight, Idle, TypeOK
    <3>5. InFlight(v) \in SUBSET Slot
      BY DEF InFlight
    <3>6. CASE slot[s].checked
      <4>1. s \in InFlight(v)
        BY <2>2, <2>5, <3>6 DEF InFlight
      <4>2. Load(v)' = Load(v) - MaxCost
        BY <3>4, <3>5, <4>1, SlotRemoved DEF Load
      <4> QED
        BY <1>b, <1>c, <2>1, <3>1, <3>2, <3>3, <3>6, <4>2, LoadTyped, LoadTypedNext
        DEF Base
    <3>7. CASE ~slot[s].checked
      <4>1. InFlight(v)' = InFlight(v)
        BY <3>4, <3>7 DEF InFlight
      <4>2. Load(v)' = Load(v)
        BY <4>1 DEF Load
      <4> QED
        BY <1>b, <1>c, <2>1, <3>1, <3>2, <3>3, <3>7, <4>2, LoadTyped, LoadTypedNext
        DEF Base
    <3> QED BY <3>6, <3>7
  <2> QED BY <2>4, <2>5
<1>5. ASSUME NEW s \in Slot, EndUnrecorded(s) PROVE Goal
  <2>1. InFlight(v)' \subseteq InFlight(v)
    BY <1>5 DEF EndUnrecorded, InFlight, Idle, TypeOK
  <2> QED BY <1>5, <1>d, <2>1 DEF EndUnrecorded, historyVars
<1>6. ASSUME NEW u \in User, View(u) PROVE Goal
  <2>1. InFlight(v)' \subseteq InFlight(v)
    BY <1>6 DEF View, InFlight
  <2> QED BY <1>6, <1>a, <1>e, <2>1 DEF View
<1>7. ASSUME NEW u \in User, AdminReset(u) PROVE Goal
  <2>1. InFlight(v)' \subseteq InFlight(v)
    BY <1>7 DEF AdminReset, InFlight
  <2>2. CASE v # u
    BY <1>7, <1>d, <2>1, <2>2 DEF AdminReset, TypeOK
  <2>3. CASE v = u
    <3>1. by_user'[v].cost_usd = 0
      BY <1>7, <1>b, <2>3 DEF AdminReset, _reset_user_bucket, TypeOK, Bucket
    <3> QED BY <1>0, <2>1, <3>1, LoadKept
  <2> QED BY <2>2, <2>3
<1>8. ASSUME NEW e \in BOOLEAN, NEW h \in BOOLEAN, NEW d \in Defaults, Configure(e, h, d)
      PROVE  Goal
  BY <1>8, <1>d DEF Configure, historyVars, InFlight
<1>9. CASE NextPeriod
  BY <1>9, <1>d DEF NextPeriod, InFlight
<1>10. CASE UNCHANGED vars
  BY <1>10, <1>d DEF vars, InFlight
<1> QED BY <1>1, <1>2, <1>3, <1>4, <1>5, <1>6, <1>7, <1>8, <1>9, <1>10 DEF Next

LEMMA LoadInit == Init => LoadBounded
<1> SUFFICES ASSUME Init, NEW u \in User
             PROVE  by_user[u].cost_usd + Load(u) <= free[u] + Base(high[u]) + Capacity
  BY DEF LoadBounded
<1>1. by_user[u].cost_usd = 0 /\ free[u] = 0 /\ Base(high[u]) = 0
  BY DEF Init, Base
<1> QED BY <1>1, LoadTyped

\* For any number of users and slots: however requests interleave with period
\* rollovers, admin resets and live settings changes, a bucket exceeds the cap
\* it was admitted under by less than what the slots can cost at once.
THEOREM OvershootIsBounded == Spec => []OvershootBounded
<1>1. TypeOK /\ LoadBounded => OvershootBounded
  <2> SUFFICES ASSUME TypeOK, LoadBounded, NEW u \in User
               PROVE  by_user[u].cost_usd <= free[u] + Base(high[u]) + Capacity
    BY DEF OvershootBounded, Base, Capacity
  <2>1. /\ by_user[u].cost_usd \in Nat /\ free[u] \in Nat /\ Base(high[u]) \in Nat
        /\ by_user[u].cost_usd + Load(u) <= free[u] + Base(high[u]) + Capacity
    BY DEF TypeOK, Bucket, Base, LoadBounded
  <2> QED BY <2>1, LoadTyped
<1> QED BY <1>1, TypeInit, TypeStep, LoadInit, LoadStep, PTL DEF Spec
=============================================================================
