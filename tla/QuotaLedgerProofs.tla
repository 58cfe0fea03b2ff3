------------------------- MODULE QuotaLedgerProofs -------------------------
(***************************************************************************)
(* The ledger's total, its days and its file, for every value of the       *)
(* constants.                                                              *)
(*                                                                         *)
(* A start replaces the memory by the file, and a save the file by the     *)
(* memory, so the invariants say the same of both.  RightTotal is a period *)
(* that is not ahead of the calendar, with a total that holds nothing but  *)
(* this month's cost, and ExactTotal all of it; RightDays is about the     *)
(* daily buckets.  Behind relates the two.  LedgerAt adds what the caps    *)
(* and the breakdowns promise; it needs a theory of sums (AnyKeyFirst).    *)
(***************************************************************************)
EXTENDS QuotaLedger, FiniteSetTheorems, WellFoundedInduction, TLAPS

HasTotals(q) == {"total", "period_month"} \subseteq DOMAIN q

\* not ahead of the calendar, and no cost but this month's
RightTotal(q) ==
    /\ HasTotals(q)
    /\ q.total \in Nat
    /\ q.period_month \in Int
    /\ q.period_month <= Month
    /\ q.period_month = Month => q.total <= thisMonth
    /\ q.period_month = NoMonth => q.total = 0

\* all of this month's
ExactTotal(q) ==
    /\ q.period_month = Month => q.total = thisMonth
    /\ q.period_month # Month => thisMonth = 0

Scalars ==
    /\ today \in Nat
    /\ thisMonth \in Nat
    /\ phase \in {"up", "closing", "down"}
    /\ lossy \in BOOLEAN
    /\ saved \in BOOLEAN
    /\ loaded \in BOOLEAN

MemoryRight == RightTotal(stats) /\ (phase # "down" /\ ~lossy => ExactTotal(stats))

FileRight ==
    /\ disk # NoFile => RightTotal(disk)
    /\ disk # NoFile /\ saved /\ ~lossy => ExactTotal(disk)
    /\ disk = NoFile /\ saved /\ ~lossy => thisMonth = 0

NoMemory == phase = "down" => stats = EmptyLedger /\ saved

TotalInv == Scalars /\ MemoryRight /\ FileRight /\ NoMemory

-----------------------------------------------------------------------------
(* The calendar.                                                           *)

LEMMA DivGrows ==
    ASSUME NEW t \in Nat, NEW d \in Nat \ {0}
    PROVE  /\ t \div d \in Nat
           /\ (t + 1) \div d \in Nat
           /\ t \div d <= (t + 1) \div d
  BY Z3

-----------------------------------------------------------------------------
(* What the operators on a ledger do to its total and its period.          *)

\* q became p, and n was added to its total
Charges(q, p, n) ==
    /\ HasTotals(p)
    /\ p.total = q.total + n
    /\ p.period_month = q.period_month

LEMMA BreakdownsChargeNothing ==
    ASSUME NEW q, HasTotals(q), q.total \in Nat, NEW s, NEW u, NEW a, NEW cost
    PROVE  /\ Charges(q, AddSession(q, s, cost), 0)
           /\ Charges(q, _record_day_session(q, s, cost), 0)
           /\ Charges(q, AddDay(q, cost), 0)
           /\ Charges(q, record_account_usage(q, a, u, cost), 0)
           /\ Charges(q, AddDayUser(q, u, cost), 0)
  <1>1. Charges(q, q, 0)
    BY DEF Charges, HasTotals
  <1>2. ASSUME NEW v, NEW w
        PROVE  /\ Charges(q, [q EXCEPT !.by_session = v], 0)
               /\ Charges(q, [q EXCEPT !.by_day_session = v], 0)
               /\ Charges(q, [q EXCEPT !.by_day = v], 0)
               /\ Charges(q, [q EXCEPT !.accounts = v], 0)
               /\ Charges(q, [q EXCEPT !.by_day_user = v, !.by_day_session = w], 0)
    BY DEF Charges, HasTotals
  <1>3. Charges(q, AddSession(q, s, cost), 0)
    BY <1>1, <1>2 DEF AddSession
  <1>4. Charges(q, _record_day_session(q, s, cost), 0)
    BY <1>1, <1>2 DEF _record_day_session
  <1>5. Charges(q, AddDay(q, cost), 0)
    BY <1>2 DEF AddDay
  <1>6. Charges(q, record_account_usage(q, a, u, cost), 0)
    BY <1>1, <1>2 DEF record_account_usage
  <1>7. Charges(q, AddDayUser(q, u, cost), 0)
    BY <1>1, <1>2 DEF AddDayUser
  <1> QED
    BY <1>3, <1>4, <1>5, <1>6, <1>7

LEMMA RecordedCharges ==
    ASSUME NEW q, HasTotals(q), q.total \in Nat, NEW s, NEW u, NEW a, NEW cost \in Nat
    PROVE  Charges(q, Recorded(q, s, u, a, cost), cost)
  <1> DEFINE q1 == AddTotals(q, cost)
             q2 == AddSession(q1, s, cost)
             q3 == _record_day_session(q2, s, cost)
             q4 == AddDay(q3, cost)
             q5 == record_account_usage(q4, a, u, cost)
             q6 == AddDayUser(q5, u, cost)
  <1>1. Charges(q, q1, cost)
    BY DEF Charges, HasTotals, AddTotals
  <1>2. ASSUME NEW p, NEW r, Charges(q, p, cost), Charges(p, r, 0)
        PROVE  Charges(q, r, cost)
    BY <1>2 DEF Charges
  <1>3. ASSUME NEW p, Charges(q, p, cost)
        PROVE  HasTotals(p) /\ p.total \in Nat
    BY <1>3 DEF Charges
  <1> HIDE DEF q1, q2, q3, q4, q5, q6
  <1>4. Charges(q, q2, cost)
    BY <1>1, <1>2, <1>3, BreakdownsChargeNothing DEF q2
  <1>5. Charges(q, q3, cost)
    BY <1>4, <1>2, <1>3, BreakdownsChargeNothing DEF q3
  <1>6. Charges(q, q4, cost)
    BY <1>5, <1>2, <1>3, BreakdownsChargeNothing DEF q4
  <1>7. Charges(q, q5, cost)
    BY <1>6, <1>2, <1>3, BreakdownsChargeNothing DEF q5
  <1>8. Charges(q, q6, cost)
    BY <1>7, <1>2, <1>3, BreakdownsChargeNothing DEF q6
  <1>9. Recorded(q, s, u, a, cost) = q6
    BY DEF Recorded, q1, q2, q3, q4, q5, q6
  <1> QED
    BY <1>8, <1>9

LEMMA HeadersChargeNothing ==
    ASSUME NEW q, HasTotals(q), q.total \in Nat, NEW v
    PROVE  Charges(q, [q EXCEPT !.accounts = v], 0)
  BY DEF Charges, HasTotals

LEMMA NotNoFile ==
    ASSUME NEW q, HasTotals(q)
    PROVE  q # NoFile
  BY DEF HasTotals, NoFile

LEMMA MonthIsNat == ASSUME Scalars PROVE Month \in Nat
  BY DivGrows, ConstantsAssumption DEF Scalars, Month

\* The monthly reset: the total of another month becomes 0, in memory and in
\* the file the reset writes, which still names that month.
LEMMA ResetTotals ==
    ASSUME Scalars, NEW q, RightTotal(q)
    PROVE  /\ RightTotal(Reset(q))
           /\ Reset(q).period_month = Month
           /\ ExactTotal(q) => ExactTotal(Reset(q))
           /\ NewMonth(q) => /\ RightTotal(Cleared(q))
                             /\ Cleared(q).period_month # Month
                             /\ ExactTotal(q) => ExactTotal(Cleared(q))
  <1>1. Month \in Nat
    BY MonthIsNat
  <1>2. /\ HasTotals(Cleared(q))
        /\ Cleared(q).total = 0
        /\ Cleared(q).period_month = q.period_month
    BY DEF Cleared, RightTotal, HasTotals
  <1>3. ASSUME NEW p, HasTotals(p)
        PROVE  /\ HasTotals([p EXCEPT !.period_month = Month])
               /\ [p EXCEPT !.period_month = Month].total = p.total
               /\ [p EXCEPT !.period_month = Month].period_month = Month
    BY <1>3 DEF HasTotals
  <1>4. CASE NewMonth(q)
    <2>1. Reset(q) = [Cleared(q) EXCEPT !.period_month = Month]
      BY <1>4 DEF Reset
    <2>2. /\ HasTotals(Reset(q))
          /\ Reset(q).total = 0
          /\ Reset(q).period_month = Month
      BY <2>1, <1>2, <1>3
    <2> QED
      BY <1>1, <1>2, <1>4, <2>2 DEF Scalars, RightTotal, ExactTotal, NewMonth, NoMonth
  <1>5. CASE ~NewMonth(q)
    <2>1. Reset(q) = [q EXCEPT !.period_month = Month]
      BY <1>5 DEF Reset
    <2>2. /\ HasTotals(Reset(q))
          /\ Reset(q).total = q.total
          /\ Reset(q).period_month = Month
      BY <2>1, <1>3 DEF RightTotal
    <2> QED
      BY <1>1, <1>5, <2>2 DEF Scalars, RightTotal, ExactTotal, NewMonth, NoMonth
  <1> QED
    BY <1>4, <1>5

-----------------------------------------------------------------------------
(* The invariant.                                                          *)

LEMMA EmptyIsRight == ASSUME Scalars PROVE RightTotal(EmptyLedger)
  BY MonthIsNat DEF Scalars, RightTotal, HasTotals, EmptyLedger, NoMonth

LEMMA InitRight == Init => TotalInv
  <1> SUFFICES ASSUME Init PROVE TotalInv
    OBVIOUS
  <1>1. Scalars /\ NoMemory
    BY DEF Init, Scalars, NoMemory
  <1>2. MemoryRight
    BY <1>1, EmptyIsRight, MonthIsNat
       DEF Init, MemoryRight, ExactTotal, EmptyLedger, NoMonth
  <1>3. FileRight
    BY DEF Init, FileRight
  <1> QED
    BY <1>1, <1>2, <1>3 DEF TotalInv

\* A response: all that it adds to the total it adds to this month, whatever
\* the reset before it did, and whichever of the two saves takes place.
LEMMA RecordRight ==
    ASSUME TotalInv, NEW s, NEW u, NEW a, NEW ok \in BOOLEAN, Record(s, u, a, 1, ok)
    PROVE  TotalInv'
  <1> DEFINE before == Reset(stats)
             q == Recorded(before, s, u, a, 1)
             save == DueAfterReset(stats, due, ok)
  <1>1. /\ stats' = q
        /\ disk' = IF save /\ ok THEN q ELSE ResetFile(stats, disk, ok)
        /\ thisMonth' = thisMonth + 1
        /\ saved' = (save /\ ok)
        /\ loaded' = (loaded \/ disk' # disk)
        /\ UNCHANGED <<phase, today, lossy>>
        /\ phase # "down"
    BY DEF Record
  <1>2. /\ RightTotal(before)
        /\ before.period_month = Month
        /\ ~lossy => ExactTotal(before)
        /\ NewMonth(stats) => RightTotal(Cleared(stats)) /\ Cleared(stats).period_month # Month
    BY <1>1, ResetTotals DEF TotalInv, MemoryRight
  <1>3. Charges(before, q, 1)
    BY <1>2, RecordedCharges DEF RightTotal
  <1> HIDE DEF before, q, save
  <1>4. Scalars'
    BY <1>1 DEF TotalInv, Scalars
  <1>5. Month' = Month /\ Month \in Nat
    BY <1>1, MonthIsNat DEF Month, TotalInv
  <1>6. /\ HasTotals(q)
        /\ q.total = before.total + 1
        /\ q.period_month = Month
        /\ before.total \in Nat
        /\ before.total <= thisMonth
        /\ ~lossy => before.total = thisMonth
    BY <1>2, <1>3 DEF Charges, RightTotal, ExactTotal
  <1>7. RightTotal(stats)' /\ (~lossy' => ExactTotal(stats)')
    BY <1>1, <1>5, <1>6 DEF RightTotal, ExactTotal, HasTotals, TotalInv, Scalars, NoMonth
  <1>8. FileRight'
    <2>1. CASE save /\ ok
      <3>1. disk' = stats' /\ disk' # NoFile
        BY <1>1, <1>6, <2>1, NotNoFile
      <3> QED
        BY <3>1, <1>7 DEF FileRight, RightTotal, ExactTotal, HasTotals
    <2>2. CASE ~(save /\ ok) /\ NewMonth(stats) /\ ok
      <3>1. disk' = Cleared(stats) /\ ~saved'
        BY <1>1, <2>2 DEF ResetFile
      <3>2. RightTotal(Cleared(stats)) /\ Cleared(stats).period_month # Month
        BY <1>2, <2>2
      <3>3. disk' = Cleared(stats) /\ Month' = Month
        BY <3>1, <1>5
      <3>4. RightTotal(disk)'
        BY <3>2, <3>3 DEF RightTotal, HasTotals
      <3> QED
        BY <3>1, <3>4 DEF FileRight
    <2>3. CASE ~(save /\ ok) /\ ~(NewMonth(stats) /\ ok)
      <3>1. disk' = disk /\ ~saved'
        BY <1>1, <2>3 DEF ResetFile
      <3>2. disk' # NoFile => RightTotal(disk)'
        BY <3>1, <1>1, <1>5 DEF TotalInv, Scalars, FileRight, RightTotal, HasTotals
      <3> QED
        BY <3>1, <3>2 DEF FileRight
    <2> QED
      BY <2>1, <2>2, <2>3
  <1> QED
    BY <1>1, <1>4, <1>7, <1>8 DEF TotalInv, MemoryRight, NoMemory

\* What the two ends of a process leave behind.
LEMMA GoneRight ==
    ASSUME TotalInv, Gone
    PROVE  TotalInv'
  <1>1. /\ phase' = "down"
        /\ stats' = EmptyLedger
        /\ lossy' = (lossy \/ (thisMonth > 0 /\ ~saved))
        /\ saved' = TRUE
        /\ loaded' = TRUE
        /\ UNCHANGED <<disk, today, thisMonth>>
    BY DEF Gone
  <1>2. Scalars' /\ NoMemory'
    BY <1>1 DEF TotalInv, Scalars, NoMemory
  <1>3. Month' = Month /\ Month \in Nat
    BY <1>1, MonthIsNat DEF Month, TotalInv
  <1>4. MemoryRight'
    BY <1>1, <1>2, <1>3
       DEF MemoryRight, RightTotal, HasTotals, EmptyLedger, Scalars, NoMonth
  <1>5. disk' # NoFile => RightTotal(disk)'
    BY <1>1, <1>3 DEF TotalInv, FileRight, RightTotal, HasTotals
  <1>6. FileRight'
    <2>1. CASE saved
      BY <1>1, <1>3, <1>5, <2>1 DEF TotalInv, FileRight, ExactTotal
    <2>2. CASE thisMonth = 0
      BY <1>1, <1>3, <1>5, <2>2 DEF FileRight, RightTotal, ExactTotal
    <2>3. CASE ~saved /\ thisMonth # 0
      <3>1. thisMonth > 0
        BY <2>3 DEF TotalInv, Scalars
      <3>2. lossy'
        BY <1>1, <2>3, <3>1
      <3> QED
        BY <3>2, <1>5 DEF FileRight
    <2> QED
      BY <2>1, <2>2, <2>3
  <1> QED
    BY <1>2, <1>4, <1>6 DEF TotalInv

LEMMA ShutdownRight ==
    ASSUME TotalInv, NEW ok \in BOOLEAN, Shutdown(ok)
    PROVE  TotalInv'
  <1>1. /\ phase = "up"
        /\ phase' = "closing"
        /\ disk' = IF tracking /\ ok THEN stats ELSE disk
        /\ saved' = (saved \/ (tracking /\ ok))
        /\ loaded' = (loaded \/ (tracking /\ ok))
        /\ UNCHANGED <<stats, today, thisMonth, lossy>>
    BY DEF Shutdown, FinalSave
  <1>2. Scalars' /\ NoMemory'
    BY <1>1 DEF TotalInv, Scalars, NoMemory
  <1>3. Month' = Month
    BY <1>1 DEF Month
  <1>4. MemoryRight'
    BY <1>1, <1>3 DEF TotalInv, MemoryRight, RightTotal, HasTotals, ExactTotal
  <1>5. FileRight'
    <2>1. CASE tracking /\ ok
      <3>1. disk' = stats /\ disk' # NoFile
        BY <1>1, <2>1, NotNoFile DEF TotalInv, MemoryRight, RightTotal
      <3> QED
        BY <3>1, <1>1, <1>4 DEF FileRight, MemoryRight, RightTotal, HasTotals, ExactTotal
    <2>2. CASE ~(tracking /\ ok)
      <3>1. disk' = disk /\ (saved' <=> saved)
        BY <1>1, <2>2 DEF TotalInv, Scalars
      <3> QED
        BY <3>1, <1>1, <1>3 DEF TotalInv, FileRight, RightTotal, HasTotals, ExactTotal
    <2> QED
      BY <2>1, <2>2
  <1> QED
    BY <1>2, <1>4, <1>5 DEF TotalInv

\* A start reads the file and resets it, or goes on from nothing.
LEMMA StartRight ==
    ASSUME TotalInv, NEW reads \in BOOLEAN, NEW ok \in BOOLEAN, Start(reads, ok)
    PROVE  TotalInv'
  <1>1. /\ phase = "down"
        /\ phase' = "up"
        /\ UNCHANGED <<today, thisMonth, saved>>
        /\ saved
    BY DEF Start, TotalInv, NoMemory
  <1>2. Month' = Month /\ Month \in Nat
    BY <1>1, MonthIsNat DEF Month, TotalInv
  <1>3. CASE tracking /\ reads /\ disk # NoFile
    <2>1. /\ stats' = Reset(disk)
          /\ disk' = ResetFile(disk, disk, ok)
          /\ UNCHANGED <<lossy, loaded>>
      BY <1>3 DEF Start, Loaded
    <2>2. /\ RightTotal(disk)
          /\ ~lossy => ExactTotal(disk)
      BY <1>1, <1>3 DEF TotalInv, FileRight
    <2>3. /\ RightTotal(Reset(disk))
          /\ ~lossy => ExactTotal(Reset(disk))
          /\ NewMonth(disk) => /\ RightTotal(Cleared(disk))
                               /\ ~lossy => ExactTotal(Cleared(disk))
      BY <2>2, ResetTotals DEF TotalInv
    <2>4. MemoryRight'
      BY <1>1, <1>2, <2>1, <2>3 DEF MemoryRight, RightTotal, HasTotals, ExactTotal
    <2>5. /\ RightTotal(disk')
          /\ ~lossy => ExactTotal(disk')
      BY <2>1, <2>2, <2>3 DEF ResetFile
    <2>6. disk' # NoFile
      BY <2>5, NotNoFile DEF RightTotal
    <2>7. FileRight'
      BY <1>1, <1>2, <2>1, <2>5, <2>6 DEF FileRight, RightTotal, HasTotals, ExactTotal
    <2> QED
      BY <1>1, <2>1, <2>4, <2>7 DEF TotalInv, Scalars, NoMemory
  <1>4. CASE ~(tracking /\ reads /\ disk # NoFile)
    <2>1. /\ loaded' = (disk = NoFile)
          /\ lossy' = (lossy \/ (thisMonth > 0 /\ ~loaded'))
          /\ UNCHANGED <<stats, disk>>
          /\ stats = EmptyLedger
      BY <1>1, <1>4 DEF Start, TotalInv, NoMemory
    <2>2. Scalars' /\ NoMemory'
      BY <1>1, <2>1 DEF TotalInv, Scalars, NoMemory
    <2>3. ASSUME ~lossy' PROVE thisMonth = 0
      <3>1. ~lossy /\ ~(thisMonth > 0 /\ ~loaded')
        BY <2>1, <2>3
      <3>2. CASE disk = NoFile
        BY <1>1, <3>1, <3>2 DEF TotalInv, FileRight
      <3>3. CASE disk # NoFile
        <4>1. ~loaded'
          BY <2>1, <3>3
        <4>2. ~(thisMonth > 0)
          BY <3>1, <4>1
        <4> QED
          BY <4>2 DEF TotalInv, Scalars
      <3> QED
        BY <3>2, <3>3
    <2>4. MemoryRight'
      BY <1>1, <1>2, <2>1, <2>2, <2>3
         DEF MemoryRight, RightTotal, HasTotals, ExactTotal, EmptyLedger, Scalars, NoMonth
    <2>5. FileRight'
      BY <1>1, <1>2, <2>1, <2>3
         DEF TotalInv, FileRight, RightTotal, HasTotals, ExactTotal
    <2> QED
      BY <2>2, <2>4, <2>5 DEF TotalInv
  <1> QED
    BY <1>3, <1>4

\* Midnight: within a month nothing changes; in a new one every period that
\* was right is now an earlier one.
LEMMA MidnightRight ==
    ASSUME TotalInv, Midnight
    PROVE  TotalInv'
  <1>1. /\ today' = today + 1
        /\ thisMonth' = IF Month' = Month THEN thisMonth ELSE 0
        /\ lossy' = (Month' = Month /\ lossy)
        /\ UNCHANGED <<phase, stats, disk, saved, loaded>>
    BY DEF Midnight
  <1>2. Month \in Nat /\ Month' \in Nat /\ Month <= Month'
    BY <1>1, DivGrows, ConstantsAssumption DEF TotalInv, Scalars, Month
  <1>3. Scalars' /\ NoMemory'
    BY <1>1 DEF TotalInv, Scalars, NoMemory
  <1>4. CASE Month' = Month
    <2>1. thisMonth' = thisMonth /\ (lossy' <=> lossy)
      BY <1>1, <1>4 DEF TotalInv, Scalars
    <2>2. MemoryRight'
      BY <1>1, <1>4, <2>1 DEF TotalInv, MemoryRight, RightTotal, HasTotals, ExactTotal
    <2>3. FileRight'
      BY <1>1, <1>4, <2>1 DEF TotalInv, FileRight, RightTotal, HasTotals, ExactTotal
    <2> QED
      BY <1>3, <2>2, <2>3 DEF TotalInv
  <1>5. CASE Month' # Month
    <2>1. Month < Month' /\ thisMonth' = 0
      BY <1>1, <1>2, <1>5
    <2>2. MemoryRight'
      BY <1>1, <1>2, <2>1 DEF TotalInv, MemoryRight, RightTotal, HasTotals, ExactTotal
    <2>3. FileRight'
      BY <1>1, <1>2, <2>1 DEF TotalInv, FileRight, RightTotal, HasTotals, ExactTotal
    <2> QED
      BY <1>3, <2>2, <2>3 DEF TotalInv
  <1> QED
    BY <1>4, <1>5

LEMMA HeadersRight ==
    ASSUME TotalInv, NEW a, Headers(a)
    PROVE  TotalInv'
  <1>1. /\ stats' = [stats EXCEPT !.accounts = _bucket(@, a)]
        /\ UNCHANGED <<phase, disk, today, thisMonth, lossy, saved, loaded>>
        /\ phase = "up"
    BY DEF Headers, history
  <1>2. Charges(stats, stats', 0)
    BY <1>1, HeadersChargeNothing DEF TotalInv, MemoryRight, RightTotal
  <1>3. Month' = Month
    BY <1>1 DEF Month
  <1>4. MemoryRight'
    BY <1>1, <1>2, <1>3 DEF TotalInv, MemoryRight, RightTotal, ExactTotal, Charges
  <1>5. FileRight'
    BY <1>1, <1>3 DEF TotalInv, FileRight, RightTotal, HasTotals, ExactTotal
  <1> QED
    BY <1>1, <1>4, <1>5 DEF TotalInv, Scalars, NoMemory

\* The switch, the interval and stuttering touch nothing the invariant names.
LEMMA RestRight ==
    ASSUME TotalInv, UNCHANGED <<phase, stats, disk, today, history>>
    PROVE  TotalInv'
  <1>1. /\ Month' = Month
        /\ UNCHANGED <<phase, stats, disk, today, thisMonth, lossy, saved, loaded>>
    BY DEF Month, history
  <1> QED
    BY <1>1 DEF TotalInv, Scalars, NoMemory, MemoryRight, FileRight,
                RightTotal, HasTotals, ExactTotal

LEMMA NextRight == TotalInv /\ [Next]_vars => TotalInv'
  <1> SUFFICES ASSUME TotalInv, [Next]_vars PROVE TotalInv'
    OBVIOUS
  <1>1. ASSUME NEW s \in Session \cup {None}, NEW u \in User \cup {None},
               NEW a \in Account \cup {None}, NEW ok \in BOOLEAN,
               Record(s, u, a, 1, ok)
        PROVE  TotalInv'
    BY <1>1, RecordRight
  <1>2. ASSUME NEW a \in Account, Headers(a)
        PROVE  TotalInv'
    BY <1>2, HeadersRight
  <1>3. ASSUME NEW ok \in BOOLEAN, Shutdown(ok)
        PROVE  TotalInv'
    BY <1>3, ShutdownRight
  <1>4. CASE Exit
    BY <1>4, GoneRight DEF Exit
  <1>5. CASE Crash
    BY <1>5, GoneRight DEF Crash
  <1>6. CASE Switch
    BY <1>6, RestRight DEF Switch
  <1>7. ASSUME NEW reads \in BOOLEAN, NEW ok \in BOOLEAN, Start(reads, ok)
        PROVE  TotalInv'
    BY <1>7, StartRight
  <1>8. CASE IntervalPasses
    BY <1>8, RestRight DEF IntervalPasses
  <1>9. CASE Midnight
    BY <1>9, MidnightRight
  <1>10. CASE UNCHANGED vars
    BY <1>10, RestRight DEF vars
  <1> QED
    BY <1>1, <1>2, <1>3, <1>4, <1>5, <1>6, <1>7, <1>8, <1>9, <1>10 DEF Next

LEMMA TotalInvHolds == Spec => []TotalInv
  BY InitRight, NextRight, PTL DEF Spec

\* The period's total is this month's cost and no other, all of it unless a
\* process died with something unsaved or started without reading the file:
\* through every order of resets, failed writes, crashes, shutdowns with late
\* responses, and switches of QUOTA_TRACKING.
THEOREM TotalRight == Spec => []TotalIsThisMonth
  <1>1. TotalInv => TotalIsThisMonth
    <2> SUFFICES ASSUME TotalInv, phase # "down" PROVE
            /\ stats.period_month = Month => stats.total <= thisMonth
            /\ stats.period_month = NoMonth => stats.total = 0
            /\ ~lossy => IF stats.period_month = Month THEN stats.total = thisMonth
                         ELSE thisMonth = 0
      BY DEF TotalIsThisMonth
    <2> QED
      BY DEF TotalInv, MemoryRight, RightTotal, ExactTotal
  <1> QED
    BY <1>1, TotalInvHolds, PTL

-----------------------------------------------------------------------------
(* The daily buckets.                                                      *)

Leftovers(q) == (DOMAIN q.by_day_user \cup DOMAIN q.by_day_session) \ DOMAIN q.by_day

HasDays(q) == {"by_day", "by_day_user", "by_day_session"} \subseteq DOMAIN q

RightDays(q) ==
    /\ HasDays(q)
    /\ DOMAIN q.by_day \subseteq 0..today
    /\ DOMAIN q.by_day_user \subseteq 0..today
    /\ DOMAIN q.by_day_session \subseteq 0..today
    /\ \A d \in DOMAIN q.by_day : q.by_day[d] \in Nat
    /\ \A d \in Leftovers(q), kept \in DOMAIN q.by_day : d < kept

SameDays(q, p) ==
    /\ HasDays(p)
    /\ p.by_day = q.by_day
    /\ p.by_day_user = q.by_day_user
    /\ p.by_day_session = q.by_day_session

LEMMA LeastDay ==
    ASSUME NEW D \in SUBSET Nat, D # {}
    PROVE  \E d \in D : \A e \in D : d <= e
  <1>1. PICK d \in D : \A e \in D : ~(<<e, d>> \in OpToRel(<, Nat))
    BY NatLessThanWellFounded, WFMin
  <1>2. \A e \in D : ~(e < d)
    BY <1>1 DEF OpToRel
  <1> QED
    BY <1>2

\* What the cap on days evicts is older than what it keeps, and never today.
LEMMA OldestDayIsOld ==
    ASSUME Scalars, NEW f, DOMAIN f \subseteq 0..today, today \in DOMAIN f
    PROVE  /\ today \notin OldestDay(f)
           /\ \A d \in OldestDay(f), kept \in DOMAIN f \ OldestDay(f) : d < kept
  <1> DEFINE D == DOMAIN f
             least == CHOOSE k \in D : \A j \in D : k <= j
  <1>1. OldestDay(f) = IF Cardinality(D) <= QUOTA_MAX_DAYS THEN {} ELSE {least}
    BY DEF OldestDay, Oldest
  <1>2. CASE Cardinality(D) <= QUOTA_MAX_DAYS
    BY <1>1, <1>2
  <1>3. CASE ~(Cardinality(D) <= QUOTA_MAX_DAYS)
    <2>1. D \in SUBSET Nat /\ D # {}
      BY DEF Scalars
    <2>2. \E k \in D : \A j \in D : k <= j
      BY <2>1, LeastDay
    <2>3. least \in D /\ \A j \in D : least <= j
      BY <2>2
    <2>4. least # today
      <3> SUFFICES ASSUME least = today PROVE FALSE
        OBVIOUS
      <3>1. D = {today}
        BY <2>1, <2>3 DEF Scalars
      <3>2. Cardinality(D) = 1
        BY <3>1, FS_Singleton
      <3>3. 1 <= QUOTA_MAX_DAYS
        BY ConstantsAssumption
      <3> QED
        BY <1>3, <3>2, <3>3
    <2>5. OldestDay(f) = {least}
      BY <1>1, <1>3
    <2>6. \A kept \in D \ {least} : least < kept
      BY <2>1, <2>3
    <2> QED
      BY <2>4, <2>5, <2>6
  <1> QED
    BY <1>2, <1>3

LEMMA TodayAdded ==
    ASSUME Scalars, NEW f, DOMAIN f \subseteq 0..today,
           \A d \in DOMAIN f : f[d] \in Nat, NEW cost \in Nat,
           NEW g, g = Add(f, today, cost)
    PROVE  /\ DOMAIN g = DOMAIN f \cup {today}
           /\ \A d \in DOMAIN g : g[d] \in Nat
           /\ \A d \in DOMAIN f : f[d] <= g[d]
  BY DEF Add, Put, GetOr, Scalars

LEMMA DayAdded ==
    ASSUME Scalars, NEW q, HasDays(q), DOMAIN q.by_day \subseteq 0..today,
           \A d \in DOMAIN q.by_day : q.by_day[d] \in Nat, NEW cost \in Nat,
           NEW p, p = AddDay(q, cost)
    PROVE  /\ HasDays(p)
           /\ p.by_day_user = q.by_day_user
           /\ p.by_day_session = q.by_day_session
           /\ DOMAIN p.by_day \subseteq DOMAIN q.by_day \cup {today}
           /\ today \in DOMAIN p.by_day
           /\ \A d \in DOMAIN p.by_day : p.by_day[d] \in Nat
           /\ \A d \in DOMAIN p.by_day \cap DOMAIN q.by_day : q.by_day[d] <= p.by_day[d]
           /\ \A d \in (DOMAIN q.by_day \cup {today}) \ DOMAIN p.by_day,
                 kept \in DOMAIN p.by_day : d < kept
  <1> DEFINE f == Add(q.by_day, today, cost)
             g == Drop(f, OldestDay(f))
  <1>1. /\ DOMAIN f = DOMAIN q.by_day \cup {today}
        /\ \A d \in DOMAIN f : f[d] \in Nat
        /\ \A d \in DOMAIN q.by_day : q.by_day[d] <= f[d]
    BY TodayAdded
  <1>2. p = [q EXCEPT !.by_day = g]
    BY DEF AddDay
  <1>3. today \in Nat
    BY DEF Scalars
  <1> HIDE DEF f
  <1>4. /\ today \notin OldestDay(f)
        /\ \A d \in OldestDay(f), kept \in DOMAIN f \ OldestDay(f) : d < kept
    BY <1>1, <1>3, OldestDayIsOld
  <1>5. /\ DOMAIN g = DOMAIN f \ OldestDay(f)
        /\ \A d \in DOMAIN g : g[d] = f[d]
    BY DEF Drop, Restrict
  <1> HIDE DEF g
  <1>6. /\ HasDays(p)
        /\ p.by_day = g
        /\ p.by_day_user = q.by_day_user
        /\ p.by_day_session = q.by_day_session
    BY <1>2 DEF HasDays
  <1> QED
    BY <1>1, <1>4, <1>5, <1>6

\* The parts of a recording that leave the daily buckets alone.
LEMMA OthersKeepDays ==
    ASSUME NEW q, HasDays(q), NEW s, NEW u, NEW a, NEW cost
    PROVE  /\ SameDays(q, AddTotals(q, cost))
           /\ SameDays(q, AddSession(q, s, cost))
           /\ SameDays(q, record_account_usage(q, a, u, cost))
           /\ SameDays(q, Cleared(q))
           /\ SameDays(q, Reset(q))
  <1>1. SameDays(q, q)
    BY DEF SameDays, HasDays
  <1>2. ASSUME NEW v
        PROVE  /\ SameDays(q, [q EXCEPT !.total = v])
               /\ SameDays(q, [q EXCEPT !.by_session = v])
               /\ SameDays(q, [q EXCEPT !.accounts = v])
    BY DEF SameDays, HasDays
  <1>3. SameDays(q, AddTotals(q, cost))
    BY <1>2 DEF AddTotals
  <1>4. SameDays(q, AddSession(q, s, cost))
    BY <1>1, <1>2 DEF AddSession
  <1>5. SameDays(q, record_account_usage(q, a, u, cost))
    BY <1>1, <1>2 DEF record_account_usage
  <1>6. SameDays(q, Cleared(q))
    BY DEF SameDays, HasDays, Cleared
  <1>7. ASSUME NEW p, SameDays(q, p)
        PROVE  SameDays(q, [p EXCEPT !.period_month = Month])
    BY <1>7 DEF SameDays, HasDays
  <1>8. SameDays(q, Reset(q))
    BY <1>1, <1>6, <1>7 DEF Reset
  <1> QED
    BY <1>3, <1>4, <1>5, <1>6, <1>8

LEMMA SameIsRight ==
    ASSUME NEW q, NEW p, RightDays(q), SameDays(q, p)
    PROVE  RightDays(p)
  BY DEF RightDays, SameDays, HasDays, Leftovers

LEMMA DaySessionAdded ==
    ASSUME Scalars, NEW q, RightDays(q), NEW s, NEW cost,
           NEW p, p = _record_day_session(q, s, cost)
    PROVE  /\ HasDays(p)
           /\ p.by_day = q.by_day
           /\ p.by_day_user = q.by_day_user
           /\ DOMAIN p.by_day_session \subseteq DOMAIN q.by_day_session \cup {today}
  <1>1. CASE s = None
    BY <1>1 DEF _record_day_session, RightDays
  <1>2. CASE s # None
    <2>1. ASSUME NEW v
          PROVE  DOMAIN Put(q.by_day_session, today, v) = DOMAIN q.by_day_session \cup {today}
      BY DEF Put
    <2>2. PICK v : p = [q EXCEPT !.by_day_session = Put(@, today, v)]
      BY <1>2 DEF _record_day_session
    <2>3. /\ HasDays(p)
          /\ p.by_day = q.by_day
          /\ p.by_day_user = q.by_day_user
          /\ p.by_day_session = Put(q.by_day_session, today, v)
      BY <2>2 DEF RightDays, HasDays
    <2> QED
      BY <2>1, <2>3
  <1> QED
    BY <1>1, <1>2

LEMMA DayUserAdded ==
    ASSUME Scalars, NEW q, HasDays(q), NEW u, NEW cost,
           NEW p, p = AddDayUser(q, u, cost)
    PROVE  /\ HasDays(p)
           /\ p.by_day = q.by_day
           /\ DOMAIN p.by_day_user \subseteq DOMAIN q.by_day_user \cup {today}
           /\ DOMAIN p.by_day_session \subseteq DOMAIN q.by_day_session
  <1>1. CASE u = None
    BY <1>1 DEF AddDayUser
  <1>2. CASE u # None
    <2> DEFINE f == Put(q.by_day_user, today,
                        Add(GetOr(q.by_day_user, today, Empty), u, cost))
               f2 == Restrict(f, DOMAIN f \cap DOMAIN q.by_day)
               g2 == Restrict(q.by_day_session, DOMAIN q.by_day_session \cap DOMAIN q.by_day)
    <2>1. p = [q EXCEPT !.by_day_user = f2, !.by_day_session = g2]
      BY <1>2 DEF AddDayUser
    <2>2. DOMAIN f = DOMAIN q.by_day_user \cup {today}
      BY DEF Put
    <2> HIDE DEF f
    <2>3. DOMAIN f2 = DOMAIN f \cap DOMAIN q.by_day
      BY DEF Restrict
    <2>4. DOMAIN g2 = DOMAIN q.by_day_session \cap DOMAIN q.by_day
      BY DEF Restrict
    <2> HIDE DEF f2, g2
    <2>5. HasDays(p) /\ p.by_day = q.by_day /\ p.by_day_user = f2 /\ p.by_day_session = g2
      BY <2>1 DEF HasDays
    <2> QED
      BY <2>2, <2>3, <2>4, <2>5
  <1> QED
    BY <1>1, <1>2

\* A recording keeps the days right: what is left over of a dropped date is
\* older than all that are kept, today is kept, and no kept day loses cost.
LEMMA RecordedDays ==
    ASSUME Scalars, NEW q, RightDays(q), NEW s, NEW u, NEW a, NEW cost \in Nat,
           NEW p, p = Recorded(q, s, u, a, cost)
    PROVE  /\ RightDays(p)
           /\ today \in DOMAIN p.by_day
           /\ DOMAIN p.by_day \subseteq DOMAIN q.by_day \cup {today}
           /\ \A d \in DOMAIN p.by_day \cap DOMAIN q.by_day : q.by_day[d] <= p.by_day[d]
  <1> DEFINE q1 == AddTotals(q, cost)
             q2 == AddSession(q1, s, cost)
             q3 == _record_day_session(q2, s, cost)
             q4 == AddDay(q3, cost)
             q5 == record_account_usage(q4, a, u, cost)
             q6 == AddDayUser(q5, u, cost)
  <1>1. p = q6
    BY DEF Recorded
  <1>2. today \in Nat
    BY DEF Scalars
  <1> HIDE DEF q1, q2, q3, q4, q5, q6
  <1>3. SameDays(q, q1) /\ RightDays(q1)
    BY OthersKeepDays, SameIsRight DEF q1, RightDays
  <1>4. SameDays(q1, q2) /\ RightDays(q2)
    BY <1>3, OthersKeepDays, SameIsRight DEF q2, RightDays
  <1>5. /\ HasDays(q3)
        /\ q3.by_day = q2.by_day
        /\ q3.by_day_user = q2.by_day_user
        /\ DOMAIN q3.by_day_session \subseteq DOMAIN q2.by_day_session \cup {today}
    BY <1>4, DaySessionAdded DEF q3
  <1>5a. DOMAIN q3.by_day \subseteq 0..today /\ \A d \in DOMAIN q3.by_day : q3.by_day[d] \in Nat
    BY <1>4, <1>5 DEF RightDays
  <1>6. /\ HasDays(q4)
        /\ q4.by_day_user = q3.by_day_user
        /\ q4.by_day_session = q3.by_day_session
        /\ DOMAIN q4.by_day \subseteq DOMAIN q3.by_day \cup {today}
        /\ today \in DOMAIN q4.by_day
        /\ \A d \in DOMAIN q4.by_day : q4.by_day[d] \in Nat
        /\ \A d \in DOMAIN q4.by_day \cap DOMAIN q3.by_day : q3.by_day[d] <= q4.by_day[d]
        /\ \A d \in (DOMAIN q3.by_day \cup {today}) \ DOMAIN q4.by_day,
              kept \in DOMAIN q4.by_day : d < kept
    BY <1>5, <1>5a, DayAdded DEF q4
  <1>7. SameDays(q4, q5)
    BY <1>6, OthersKeepDays DEF q5
  <1>8. /\ HasDays(q6)
        /\ q6.by_day = q5.by_day
        /\ DOMAIN q6.by_day_user \subseteq DOMAIN q5.by_day_user \cup {today}
        /\ DOMAIN q6.by_day_session \subseteq DOMAIN q5.by_day_session
    BY <1>7, DayUserAdded DEF q6, SameDays
  <1>9. /\ q3.by_day = q.by_day
        /\ DOMAIN q6.by_day_user \subseteq DOMAIN q.by_day_user \cup {today}
        /\ DOMAIN q6.by_day_session \subseteq DOMAIN q.by_day_session \cup {today}
        /\ q6.by_day = q4.by_day
    BY <1>3, <1>4, <1>5, <1>6, <1>7, <1>8 DEF SameDays
  <1>10. ASSUME NEW d \in Leftovers(q6), NEW kept \in DOMAIN q6.by_day
         PROVE  d < kept
    <2>1. /\ d \in DOMAIN q.by_day_user \cup DOMAIN q.by_day_session \cup {today}
          /\ d \notin DOMAIN q4.by_day
          /\ kept \in DOMAIN q4.by_day
          /\ d # today
      BY <1>6, <1>9 DEF Leftovers
    <2>2. CASE d \in DOMAIN q.by_day
      BY <2>1, <2>2, <1>6, <1>9
    <2>3. CASE d \notin DOMAIN q.by_day /\ kept = today
      BY <1>2, <2>1, <2>3 DEF RightDays
    <2>4. CASE d \notin DOMAIN q.by_day /\ kept # today
      <3>1. kept \in DOMAIN q.by_day /\ d \in Leftovers(q)
        BY <2>1, <2>4, <1>6, <1>9 DEF Leftovers
      <3> QED
        BY <3>1 DEF RightDays
    <2> QED
      BY <2>2, <2>3, <2>4
  <1>11. RightDays(q6)
    <2>1. /\ DOMAIN q6.by_day \subseteq 0..today
          /\ DOMAIN q6.by_day_user \subseteq 0..today
          /\ DOMAIN q6.by_day_session \subseteq 0..today
      BY <1>2, <1>6, <1>9 DEF RightDays
    <2>2. \A d \in DOMAIN q6.by_day : q6.by_day[d] \in Nat
      BY <1>6, <1>9
    <2> QED
      BY <1>8, <1>10, <2>1, <2>2 DEF RightDays
  <1> QED
    BY <1>1, <1>6, <1>9, <1>11

-----------------------------------------------------------------------------
(* The invariant of the days, and of the file against the memory.          *)

\* file is not ahead of q.  Today's bucket is never evicted, so a day the file
\* has and q has not cannot come back to q with less.
Behind(file, q) ==
    /\ file.period_month <= q.period_month
    /\ file.period_month = q.period_month => file.total <= q.total
    /\ today \in DOMAIN file.by_day => today \in DOMAIN q.by_day
    /\ \A d \in DOMAIN file.by_day \cap DOMAIN q.by_day : file.by_day[d] <= q.by_day[d]

DaysRight == RightDays(stats) /\ (disk # NoFile => RightDays(disk))

FileBehind == phase # "down" /\ loaded /\ disk # NoFile => Behind(disk, stats)

DayInv == TotalInv /\ DaysRight /\ FileBehind

LEMMA BehindItself ==
    ASSUME Scalars, NEW q, RightTotal(q), RightDays(q)
    PROVE  Behind(q, q)
  BY DEF Behind, RightTotal, RightDays

LEMMA EmptyDays == ASSUME Scalars PROVE RightDays(EmptyLedger)
  BY DEF RightDays, HasDays, Leftovers, EmptyLedger, Empty

LEMMA InitDays == Init => DayInv
  BY InitRight, EmptyDays DEF Init, DayInv, TotalInv, DaysRight, FileBehind

LEMMA RecordDays ==
    ASSUME DayInv, NEW s, NEW u, NEW a, NEW ok \in BOOLEAN, Record(s, u, a, 1, ok)
    PROVE  DaysRight' /\ FileBehind'
  <1> DEFINE before == Reset(stats)
             q == Recorded(before, s, u, a, 1)
             save == DueAfterReset(stats, due, ok)
  <1>1. /\ stats' = q
        /\ disk' = IF save /\ ok THEN q ELSE ResetFile(stats, disk, ok)
        /\ loaded' = (loaded \/ disk' # disk)
        /\ today' = today
        /\ phase' = phase
        /\ phase # "down"
    BY DEF Record
  <1>2. Scalars /\ RightTotal(stats) /\ RightDays(stats)
    BY DEF DayInv, TotalInv, MemoryRight, DaysRight
  <1>3. /\ RightTotal(before)
        /\ before.period_month = Month
        /\ ~NewMonth(stats) => before.total = stats.total
    <2>1. ~NewMonth(stats) => before.total = stats.total
      BY <1>2 DEF Reset, RightTotal, HasTotals
    <2> QED
      BY <1>2, <2>1, ResetTotals
  <1>4. /\ SameDays(stats, before)
        /\ SameDays(stats, Cleared(stats))
    BY <1>2, OthersKeepDays DEF RightDays
  <1>5. RightDays(before) /\ RightDays(Cleared(stats))
    BY <1>2, <1>4, SameIsRight
  <1>6. /\ HasTotals(q)
        /\ q.total = before.total + 1
        /\ q.period_month = Month
    BY <1>3, RecordedCharges DEF Charges, RightTotal
  <1>7. /\ RightDays(q)
        /\ today \in DOMAIN q.by_day
        /\ DOMAIN q.by_day \subseteq DOMAIN stats.by_day \cup {today}
        /\ \A d \in DOMAIN q.by_day \cap DOMAIN stats.by_day : stats.by_day[d] <= q.by_day[d]
    BY <1>2, <1>4, <1>5, RecordedDays DEF SameDays
  <1>8. Month \in Nat
    BY <1>2, MonthIsNat
  <1> HIDE DEF before, q, save
  <1>9. Behind(q, q)
    <2>1. q.period_month \in Int /\ q.total \in Nat
      BY <1>3, <1>6, <1>8 DEF RightTotal
    <2> QED
      BY <1>7, <2>1 DEF Behind, RightDays
  <1>10. ASSUME NewMonth(stats)
         PROVE  Behind(Cleared(stats), q)
    <2>1. RightTotal(Cleared(stats)) /\ Cleared(stats).period_month # Month
      BY <1>2, <1>10, ResetTotals
    <2>2. Cleared(stats).by_day = stats.by_day
      BY <1>4 DEF SameDays
    <2> QED
      BY <1>6, <1>7, <1>8, <2>1, <2>2 DEF Behind, RightTotal
  <1>11. ASSUME loaded, disk # NoFile
         PROVE  Behind(disk, q)
    <2>1. Behind(disk, stats) /\ RightTotal(disk) /\ RightDays(disk)
      BY <1>1, <1>11 DEF DayInv, DaysRight, FileBehind, TotalInv, FileRight
    <2>2. disk.period_month <= q.period_month
      BY <1>6, <2>1 DEF RightTotal
    <2>3. disk.period_month = q.period_month => disk.total <= q.total
      <3> SUFFICES ASSUME disk.period_month = Month PROVE disk.total <= q.total
        BY <1>6
      <3>1. stats.period_month = Month
        BY <1>2, <1>8, <2>1 DEF Behind, RightTotal
      <3>2. ~NewMonth(stats)
        BY <3>1 DEF NewMonth
      <3> QED
        BY <1>2, <1>3, <1>6, <2>1, <3>1, <3>2 DEF Behind, RightTotal
    <2>4. ASSUME NEW d \in DOMAIN disk.by_day \cap DOMAIN q.by_day
          PROVE  disk.by_day[d] <= q.by_day[d]
      <3>1. d \in DOMAIN stats.by_day
        BY <1>7, <2>1 DEF Behind
      <3>2. disk.by_day[d] <= stats.by_day[d] /\ stats.by_day[d] <= q.by_day[d]
        BY <1>7, <2>1, <3>1 DEF Behind
      <3>3. disk.by_day[d] \in Nat /\ stats.by_day[d] \in Nat /\ q.by_day[d] \in Nat
        BY <1>2, <1>7, <2>1, <3>1 DEF RightDays
      <3> QED
        BY <3>2, <3>3
    <2> QED
      BY <1>7, <2>2, <2>3, <2>4 DEF Behind
  <1>12. (disk' # NoFile => RightDays(disk')) /\ (loaded' /\ disk' # NoFile => Behind(disk', q))
    <2>1. CASE save /\ ok
      BY <1>1, <1>7, <1>9, <2>1
    <2>2. CASE ~(save /\ ok) /\ NewMonth(stats) /\ ok
      <3>1. disk' = Cleared(stats)
        BY <1>1, <2>2 DEF ResetFile
      <3>2. Behind(Cleared(stats), q)
        BY <1>10, <2>2
      <3> QED
        BY <1>5, <3>1, <3>2
    <2>3. CASE ~(save /\ ok) /\ ~(NewMonth(stats) /\ ok)
      <3>1. disk' = disk
        BY <1>1, <2>3 DEF ResetFile
      <3>2. loaded' => loaded
        BY <1>1, <3>1
      <3> QED
        BY <1>11, <3>1, <3>2 DEF DayInv, DaysRight
    <2> QED
      BY <2>1, <2>2, <2>3
  <1> QED
    BY <1>1, <1>7, <1>12 DEF DaysRight, FileBehind, RightDays, Behind

LEMMA ShutdownDays ==
    ASSUME DayInv, NEW ok \in BOOLEAN, Shutdown(ok)
    PROVE  DaysRight' /\ FileBehind'
  <1>1. /\ phase = "up"
        /\ disk' = IF tracking /\ ok THEN stats ELSE disk
        /\ loaded' = (loaded \/ (tracking /\ ok))
        /\ UNCHANGED <<stats, today>>
    BY DEF Shutdown, FinalSave
  <1>2. CASE tracking /\ ok
    <2>1. disk' = stats /\ Behind(stats, stats)
      BY <1>1, <1>2, BehindItself DEF DayInv, TotalInv, MemoryRight, DaysRight
    <2> QED
      BY <1>1, <2>1 DEF DayInv, DaysRight, FileBehind, RightDays, Behind
  <1>3. CASE ~(tracking /\ ok)
    <2>1. disk' = disk /\ (loaded' => loaded)
      BY <1>1, <1>3
    <2> QED
      BY <1>1, <2>1 DEF DayInv, DaysRight, FileBehind, RightDays, Behind
  <1> QED
    BY <1>2, <1>3

LEMMA StartDays ==
    ASSUME DayInv, NEW reads \in BOOLEAN, NEW ok \in BOOLEAN, Start(reads, ok)
    PROVE  DaysRight' /\ FileBehind'
  <1>1. UNCHANGED today
    BY DEF Start
  <1>2. CASE tracking /\ reads /\ disk # NoFile
    <2>1. /\ stats' = Reset(disk)
          /\ disk' = ResetFile(disk, disk, ok)
      BY <1>2 DEF Start, Loaded
    <2>2. Scalars /\ RightTotal(disk) /\ RightDays(disk)
      BY <1>2 DEF DayInv, TotalInv, FileRight, DaysRight
    <2>3. /\ SameDays(disk, Reset(disk)) /\ RightDays(Reset(disk))
          /\ SameDays(disk, Cleared(disk)) /\ RightDays(Cleared(disk))
      BY <2>2, OthersKeepDays, SameIsRight DEF RightDays
    <2>4. /\ RightTotal(Reset(disk))
          /\ Reset(disk).period_month = Month
          /\ NewMonth(disk) => RightTotal(Cleared(disk)) /\ Cleared(disk).period_month # Month
      BY <2>2, ResetTotals
    <2>5. ~NewMonth(disk) => Reset(disk).total = disk.total
      BY <2>2 DEF Reset, RightTotal, HasTotals
    <2>6. NewMonth(disk) => disk.period_month # Month
      BY DEF NewMonth
    <2>7. Month \in Nat
      BY <2>2, MonthIsNat
    <2>8. Behind(disk, Reset(disk))
      BY <2>2, <2>3, <2>4, <2>5, <2>6, <2>7 DEF Behind, RightTotal, RightDays, SameDays
    <2>9. NewMonth(disk) => Behind(Cleared(disk), Reset(disk))
      BY <2>2, <2>3, <2>4, <2>7 DEF Behind, RightTotal, RightDays, SameDays
    <2>10. RightDays(disk') /\ Behind(disk', Reset(disk))
      BY <2>1, <2>2, <2>3, <2>8, <2>9 DEF ResetFile
    <2> QED
      BY <1>1, <2>1, <2>3, <2>10 DEF DaysRight, FileBehind, RightDays, Behind
  <1>3. CASE ~(tracking /\ reads /\ disk # NoFile)
    <2>1. loaded' = (disk = NoFile) /\ UNCHANGED <<stats, disk>>
      BY <1>3 DEF Start
    <2> QED
      BY <1>1, <2>1 DEF DayInv, DaysRight, FileBehind, RightDays
  <1> QED
    BY <1>2, <1>3

LEMMA GoneDays ==
    ASSUME DayInv, Gone
    PROVE  DaysRight' /\ FileBehind'
  <1>1. phase' = "down" /\ stats' = EmptyLedger /\ UNCHANGED <<disk, today>>
    BY DEF Gone
  <1>2. RightDays(EmptyLedger)
    BY EmptyDays DEF DayInv, TotalInv
  <1> QED
    BY <1>1, <1>2 DEF DayInv, DaysRight, FileBehind, RightDays

LEMMA MidnightDays ==
    ASSUME DayInv, Midnight
    PROVE  DaysRight' /\ FileBehind'
  <1>1. today' = today + 1 /\ today \in Nat /\ UNCHANGED <<phase, stats, disk, loaded>>
    BY DEF Midnight, DayInv, TotalInv, Scalars
  <1>2. DaysRight'
    BY <1>1 DEF DayInv, DaysRight, RightDays
  <1>3. disk # NoFile => today' \notin DOMAIN disk.by_day
    BY <1>1 DEF DayInv, DaysRight, RightDays
  <1> QED
    BY <1>1, <1>2, <1>3 DEF DayInv, FileBehind, Behind

LEMMA HeadersDays ==
    ASSUME DayInv, NEW a, Headers(a)
    PROVE  DaysRight' /\ FileBehind'
  <1>1. /\ stats' = [stats EXCEPT !.accounts = _bucket(@, a)]
        /\ UNCHANGED <<phase, disk, today, loaded>>
    BY DEF Headers, history
  <1>2. ASSUME NEW v
        PROVE  /\ SameDays(stats, [stats EXCEPT !.accounts = v])
               /\ Charges(stats, [stats EXCEPT !.accounts = v], 0)
    BY HeadersChargeNothing
       DEF DayInv, TotalInv, MemoryRight, DaysRight, RightDays, RightTotal, SameDays, HasDays
  <1>3. SameDays(stats, stats') /\ Charges(stats, stats', 0)
    BY <1>1, <1>2
  <1>4. RightDays(stats')
    BY <1>3, SameIsRight DEF DayInv, DaysRight
  <1>5. stats'.by_day = stats.by_day
    BY <1>3 DEF SameDays
  <1>6. stats'.period_month = stats.period_month /\ stats'.total = stats.total
    BY <1>3 DEF Charges, DayInv, TotalInv, MemoryRight, RightTotal
  <1> HIDE DEF Headers
  <1>7. DaysRight'
    BY <1>1, <1>4 DEF DayInv, DaysRight, RightDays
  <1>8. FileBehind'
    BY <1>1, <1>5, <1>6 DEF DayInv, FileBehind, Behind
  <1> QED
    BY <1>7, <1>8

LEMMA RestDays ==
    ASSUME DayInv, UNCHANGED <<phase, stats, disk, today, history>>
    PROVE  DaysRight' /\ FileBehind'
  BY DEF history, DayInv, DaysRight, FileBehind, RightDays, HasDays, Leftovers, Behind

LEMMA NextDays == DayInv /\ [Next]_vars => DayInv'
  <1> SUFFICES ASSUME DayInv, [Next]_vars PROVE DaysRight' /\ FileBehind'
    BY NextRight DEF DayInv
  <1>1. ASSUME NEW s \in Session \cup {None}, NEW u \in User \cup {None},
               NEW a \in Account \cup {None}, NEW ok \in BOOLEAN,
               Record(s, u, a, 1, ok)
        PROVE  DaysRight' /\ FileBehind'
    BY <1>1, RecordDays
  <1>2. ASSUME NEW a \in Account, Headers(a)
        PROVE  DaysRight' /\ FileBehind'
    BY <1>2, HeadersDays
  <1>3. ASSUME NEW ok \in BOOLEAN, Shutdown(ok)
        PROVE  DaysRight' /\ FileBehind'
    BY <1>3, ShutdownDays
  <1>4. CASE Exit
    BY <1>4, GoneDays DEF Exit
  <1>5. CASE Crash
    BY <1>5, GoneDays DEF Crash
  <1>6. CASE Switch
    BY <1>6, RestDays DEF Switch
  <1>7. ASSUME NEW reads \in BOOLEAN, NEW ok \in BOOLEAN, Start(reads, ok)
        PROVE  DaysRight' /\ FileBehind'
    BY <1>7, StartDays
  <1>8. CASE IntervalPasses
    BY <1>8, RestDays DEF IntervalPasses
  <1>9. CASE Midnight
    BY <1>9, MidnightDays
  <1>10. CASE UNCHANGED vars
    BY <1>10, RestDays DEF vars
  <1> QED
    BY <1>1, <1>2, <1>3, <1>4, <1>5, <1>6, <1>7, <1>8, <1>9, <1>10 DEF Next

LEMMA DayInvHolds == Spec => []DayInv
  BY InitDays, NextDays, PTL DEF Spec

\* A date whose splits outlived it in by_day is older than every date that
\* by_day kept: unlabelled responses, which evict the date and not its splits,
\* late responses and restarts included.
THEOREM LeftoversOld == Spec => []LeftoversAreOld
  <1>1. DayInv => LeftoversAreOld
    BY DEF DayInv, DaysRight, RightDays, Leftovers, LeftoversAreOld
  <1> QED
    BY <1>1, DayInvHolds, PTL

\* Nothing in the file is larger than in the process that read or replaced it:
\* neither the period's total nor any day, whichever writes fail.
THEOREM FileBehindMemory == Spec => []FileNeverAhead
  <1>1. DayInv => FileNeverAhead
    BY DEF DayInv, FileBehind, Behind, FileNeverAhead
  <1> QED
    BY <1>1, DayInvHolds, PTL

-----------------------------------------------------------------------------
(* Sums.  Total(f) folds f over its domain, taking one key after another as *)
(* CHOOSE has it; what is shown is that the order does not matter.          *)

KeyOf(S) == CHOOSE k \in S : TRUE

\* g has the sum of f over each part of its domain
IsSums(g, f) ==
    g = [S \in SUBSET DOMAIN f |->
            IF S = {} THEN 0 ELSE f[KeyOf(S)] + g[S \ {KeyOf(S)}]]

Sums(f) == CHOOSE g : IsSums(g, f)

LEMMA TotalIsSum == ASSUME NEW f PROVE Total(f) = Sums(f)[DOMAIN f]
  BY DEF Total, FoldFunction, FoldFunctionOnSet, MapThenFoldSet, Sums, IsSums, KeyOf

LEMMA KeyOfIsKey == ASSUME NEW S, S # {} PROVE KeyOf(S) \in S
  BY DEF KeyOf

\* There are sums: of the parts with n keys from those with one less.
LEMMA SumsExist ==
    ASSUME NEW f, IsFiniteSet(DOMAIN f)
    PROVE  IsSums(Sums(f), f)
  <1> DEFINE Upto(n) == {S \in SUBSET DOMAIN f : Cardinality(S) <= n}
             Value(g, S) == IF S = {} THEN 0 ELSE f[KeyOf(S)] + g[S \ {KeyOf(S)}]
             Partial(n, g) == g = [S \in Upto(n) |-> Value(g, S)]
             Bad == {n \in Nat : ~\E g : Partial(n, g)}
  <1>1. \A S \in SUBSET DOMAIN f : IsFiniteSet(S) /\ Cardinality(S) \in Nat
    BY FS_Subset, FS_CardinalityType
  <1>2. ASSUME NEW n \in Nat, NEW S \in Upto(n), S # {}
        PROVE  n > 0 /\ S \ {KeyOf(S)} \in Upto(n - 1)
    <2>1. KeyOf(S) \in S
      BY <1>2, KeyOfIsKey
    <2>2. Cardinality(S \ {KeyOf(S)}) = Cardinality(S) - 1
      BY <1>1, <2>1, FS_RemoveElement
    <2>3. Cardinality(S \ {KeyOf(S)}) \in Nat
      BY <1>1
    <2> QED
      BY <1>1, <2>2, <2>3
  <1>3. Bad = {}
    <2> SUFFICES ASSUME Bad # {} PROVE FALSE
      OBVIOUS
    <2>1. PICK n \in Bad : \A m \in Bad : n <= m
      <3> HIDE DEF Partial
      <3> QED
        BY LeastDay
    <2>2. CASE n = 0
      <3> DEFINE g == [S \in Upto(0) |-> 0]
      <3>1. \A S \in Upto(0) : S = {}
        <4> SUFFICES ASSUME NEW S \in Upto(0), S # {} PROVE FALSE
          OBVIOUS
        <4>1. 0 > 0
          <5> HIDE DEF Upto, Bad, Partial
          <5> QED
            BY <1>2
        <4> QED
          BY <4>1
      <3>2. Partial(0, g)
        BY <3>1
      <3> QED
        BY <2>2, <3>2
    <2>3. CASE n > 0
      <3>1. n - 1 \in Nat /\ n - 1 \notin Bad
        <4>1. n \in Nat
          OBVIOUS
        <4> HIDE DEF Bad
        <4> QED
          BY <2>1, <2>3, <4>1
      <3>2. PICK g : Partial(n - 1, g)
        BY <3>1
      <3> DEFINE h == [S \in Upto(n) |-> Value(g, S)]
      <3>3. \A S \in Upto(n - 1) : S \in Upto(n) /\ h[S] = g[S]
        <4>1. \A S \in Upto(n - 1) : g[S] = Value(g, S)
          BY <3>2
        <4>2. \A S \in Upto(n - 1) : S \in Upto(n)
          BY <1>1
        <4> HIDE DEF Value, Upto
        <4> QED
          BY <4>1, <4>2
      <3>4. \A S \in Upto(n) : Value(g, S) = Value(h, S)
        <4> SUFFICES ASSUME NEW S \in Upto(n), S # {}
                     PROVE  g[S \ {KeyOf(S)}] = h[S \ {KeyOf(S)}]
          OBVIOUS
        <4>1. S \ {KeyOf(S)} \in Upto(n - 1)
          BY <1>2, <2>1
        <4> HIDE DEF Upto, h
        <4> QED
          BY <4>1, <3>3
      <3>5. Partial(n, h)
        <4> HIDE DEF Value, Upto
        <4> QED
          BY <3>4
      <3> HIDE DEF h, Partial
      <3> QED
        BY <2>1, <3>5
    <2> QED
      BY <2>1, <2>2, <2>3
  <1>4. PICK g : Partial(Cardinality(DOMAIN f), g)
    BY <1>1, <1>3
  <1>5. Upto(Cardinality(DOMAIN f)) = SUBSET DOMAIN f
    BY FS_Subset
  <1>6. IsSums(g, f)
    BY <1>4, <1>5 DEF IsSums
  <1> QED
    BY <1>6 DEF Sums

LEMMA SumStep ==
    ASSUME NEW f, IsFiniteSet(DOMAIN f)
    PROVE  /\ Sums(f)[{}] = 0
           /\ \A S \in SUBSET DOMAIN f :
                S # {} => Sums(f)[S] = f[KeyOf(S)] + Sums(f)[S \ {KeyOf(S)}]
  <1> DEFINE g == Sums(f)
  <1>1. g = [S \in SUBSET DOMAIN f |->
               IF S = {} THEN 0 ELSE f[KeyOf(S)] + g[S \ {KeyOf(S)}]]
    BY SumsExist DEF IsSums
  <1> HIDE DEF g
  <1>2. \A S \in SUBSET DOMAIN f :
          g[S] = IF S = {} THEN 0 ELSE f[KeyOf(S)] + g[S \ {KeyOf(S)}]
    BY <1>1
  <1> QED
    BY <1>2 DEF g
\* Any key of a part may be the one that is taken first.
LEMMA AnyKeyFirst ==
    ASSUME NEW f, IsFiniteSet(DOMAIN f), \A k \in DOMAIN f : f[k] \in Nat
    PROVE  \A S \in SUBSET DOMAIN f :
             /\ Sums(f)[S] \in Nat
             /\ \A k \in S : Sums(f)[S] = f[k] + Sums(f)[S \ {k}]
  <1> DEFINE g == Sums(f)
             Right(S) == /\ g[S] \in Nat
                         /\ \A k \in S : g[S] = f[k] + g[S \ {k}]
             Bad == {n \in Nat : \E S \in SUBSET DOMAIN f : Cardinality(S) = n /\ ~Right(S)}
  <1>1. /\ g[{}] = 0
        /\ \A S \in SUBSET DOMAIN f :
             S # {} => g[S] = f[KeyOf(S)] + g[S \ {KeyOf(S)}]
    BY SumStep
  <1> HIDE DEF g
  <1>2. Right({})
    BY <1>1
  <1>3. \A S \in SUBSET DOMAIN f : IsFiniteSet(S) /\ Cardinality(S) \in Nat
    BY FS_Subset, FS_CardinalityType
  <1>4. ASSUME NEW S \in SUBSET DOMAIN f, NEW k \in S
        PROVE  S \ {k} \in SUBSET DOMAIN f /\ Cardinality(S \ {k}) = Cardinality(S) - 1
    BY <1>3, FS_RemoveElement
  <1>5. Bad = {}
    <2> SUFFICES ASSUME Bad # {} PROVE FALSE
      OBVIOUS
    <2>1. PICK n \in Bad : \A m \in Bad : n <= m
      <3> HIDE DEF Right
      <3> QED
        BY LeastDay
    <2>2. PICK S \in SUBSET DOMAIN f : Cardinality(S) = n /\ ~Right(S)
      OBVIOUS
    <2>3. ASSUME NEW k \in S
          PROVE  Right(S \ {k})
      <3>1. Cardinality(S \ {k}) = n - 1 /\ S \ {k} \in SUBSET DOMAIN f
        BY <1>4, <2>2
      <3>2. n - 1 \in Nat
        BY <3>1, <1>3
      <3> HIDE DEF Right
      <3> QED
        BY <2>1, <3>1, <3>2
    <2>4. S # {}
      <3> HIDE DEF Right
      <3> QED
        BY <1>2, <2>2
    <2> DEFINE x == KeyOf(S)
    <2>5. x \in S /\ g[S] = f[x] + g[S \ {x}]
      BY <2>4, <1>1, KeyOfIsKey
    <2> HIDE DEF x
    <2>6. g[S] \in Nat
      <3>1. g[S \ {x}] \in Nat
        BY <2>3, <2>5
      <3>2. f[x] \in Nat
        BY <2>5
      <3> QED
        BY <2>5, <3>1, <3>2
    <2>7. ASSUME NEW k \in S, k # x
          PROVE  g[S] = f[k] + g[S \ {k}]
      <3>1. g[S \ {x}] = f[k] + g[(S \ {x}) \ {k}]
        BY <2>3, <2>5, <2>7
      <3>2. g[S \ {k}] = f[x] + g[(S \ {k}) \ {x}]
        BY <2>3, <2>5, <2>7
      <3>3. (S \ {x}) \ {k} = (S \ {k}) \ {x}
        OBVIOUS
      <3>4. g[(S \ {k}) \ {x}] \in Nat
        <4>1. Cardinality((S \ {k}) \ {x}) = n - 2 /\ (S \ {k}) \ {x} \in SUBSET DOMAIN f
          <5>1. Cardinality(S \ {k}) = n - 1 /\ S \ {k} \in SUBSET DOMAIN f
            BY <1>4, <2>2
          <5>2. x \in S \ {k}
            BY <2>5, <2>7
          <5>3. /\ (S \ {k}) \ {x} \in SUBSET DOMAIN f
                /\ Cardinality((S \ {k}) \ {x}) = Cardinality(S \ {k}) - 1
            BY <1>4, <5>1, <5>2
          <5> QED
            BY <5>1, <5>3
        <4>2. n - 2 \in Nat
          BY <4>1, <1>3
        <4>3. Right((S \ {k}) \ {x})
          <5> HIDE DEF Right
          <5> QED
            BY <2>1, <4>1, <4>2
        <4> QED
          BY <4>3
      <3>5. f[k] \in Nat /\ f[x] \in Nat
        BY <2>5
      <3> QED
        BY <2>5, <3>1, <3>2, <3>3, <3>4, <3>5
    <2>8. Right(S)
      BY <2>5, <2>6, <2>7
    <2> QED
      BY <2>2, <2>8
  <1>6. \A S \in SUBSET DOMAIN f : Right(S)
    <2> HIDE DEF Right
    <2> QED
      BY <1>3, <1>5
  <1> QED
    BY <1>6 DEF g

\* The sum over a part is the same in another function that agrees there.
LEMMA SameSums ==
    ASSUME NEW f, IsFiniteSet(DOMAIN f), NEW h, DOMAIN h \subseteq DOMAIN f,
           \A k \in DOMAIN h : h[k] = f[k]
    PROVE  \A S \in SUBSET DOMAIN h : Sums(h)[S] = Sums(f)[S]
  <1> DEFINE g == Sums(f)
             i == Sums(h)
             Bad == {n \in Nat : \E S \in SUBSET DOMAIN h : Cardinality(S) = n /\ i[S] # g[S]}
  <1>1. IsFiniteSet(DOMAIN h)
    BY FS_Subset
  <1>2. /\ g[{}] = 0
        /\ \A S \in SUBSET DOMAIN f :
             S # {} => g[S] = f[KeyOf(S)] + g[S \ {KeyOf(S)}]
    BY SumStep
  <1>3. /\ i[{}] = 0
        /\ \A S \in SUBSET DOMAIN h :
             S # {} => i[S] = h[KeyOf(S)] + i[S \ {KeyOf(S)}]
    BY <1>1, SumStep
  <1> HIDE DEF g, i
  <1>4. \A S \in SUBSET DOMAIN h : IsFiniteSet(S) /\ Cardinality(S) \in Nat
    BY <1>1, FS_Subset, FS_CardinalityType
  <1>5. Bad = {}
    <2> SUFFICES ASSUME Bad # {} PROVE FALSE
      OBVIOUS
    <2>1. PICK n \in Bad : \A m \in Bad : n <= m
      BY LeastDay
    <2>2. PICK S \in SUBSET DOMAIN h : Cardinality(S) = n /\ i[S] # g[S]
      OBVIOUS
    <2>3. S # {}
      BY <1>2, <1>3, <2>2
    <2> DEFINE x == KeyOf(S)
    <2>4. x \in S
      BY <2>3, KeyOfIsKey
    <2>5. /\ g[S] = f[x] + g[S \ {x}]
          /\ i[S] = h[x] + i[S \ {x}]
      BY <1>2, <1>3, <2>3
    <2> HIDE DEF x
    <2>6. Cardinality(S \ {x}) = n - 1 /\ S \ {x} \in SUBSET DOMAIN h
      BY <1>4, <2>2, <2>4, FS_RemoveElement
    <2>7. n - 1 \in Nat
      BY <1>4, <2>6
    <2>8. i[S \ {x}] = g[S \ {x}]
      BY <2>1, <2>6, <2>7
    <2> QED
      BY <2>2, <2>4, <2>5, <2>8
  <1> QED
    BY <1>4, <1>5 DEF g, i

Summable(f) == IsFiniteSet(DOMAIN f) /\ \A k \in DOMAIN f : f[k] \in Nat

LEMMA TotalIsNat == ASSUME NEW f, Summable(f) PROVE Total(f) \in Nat
  BY TotalIsSum, AnyKeyFirst DEF Summable

LEMMA TotalOfNothing == ASSUME NEW f, DOMAIN f = {} PROVE Total(f) = 0
  BY TotalIsSum, SumStep, FS_EmptySet

LEMMA TotalOfSame ==
    ASSUME NEW f, Summable(f), NEW h, DOMAIN h = DOMAIN f, \A k \in DOMAIN f : h[k] = f[k]
    PROVE  Total(h) = Total(f)
  BY TotalIsSum, SameSums DEF Summable

\* One key taken out.
LEMMA TotalWithout ==
    ASSUME NEW f, Summable(f), NEW k \in DOMAIN f,
           NEW h, DOMAIN h = DOMAIN f \ {k}, \A j \in DOMAIN h : h[j] = f[j]
    PROVE  Total(f) = f[k] + Total(h)
  <1>1. Sums(f)[DOMAIN f] = f[k] + Sums(f)[DOMAIN f \ {k}]
    BY AnyKeyFirst DEF Summable
  <1>2. Sums(h)[DOMAIN h] = Sums(f)[DOMAIN h]
    BY SameSums DEF Summable
  <1> QED
    BY <1>1, <1>2, TotalIsSum

LEMMA TotalPut ==
    ASSUME NEW f, Summable(f), NEW k, NEW v \in Nat
    PROVE  /\ Summable(Put(f, k, v))
           /\ Total(Put(f, k, v)) + GetOr(f, k, 0) = Total(f) + v
  <1> DEFINE g == Put(f, k, v)
             h == [j \in DOMAIN f \ {k} |-> f[j]]
  <1>1. /\ DOMAIN g = DOMAIN f \cup {k}
        /\ g[k] = v
        /\ \A j \in DOMAIN f \ {k} : g[j] = f[j]
    BY DEF Put
  <1> HIDE DEF g
  <1>2. Summable(g)
    BY <1>1, FS_AddElement DEF Summable
  <1>3. Total(g) = v + Total(h)
    <2>1. DOMAIN h = DOMAIN g \ {k} /\ \A j \in DOMAIN h : h[j] = g[j]
      BY <1>1
    <2> HIDE DEF h
    <2> QED
      BY <1>1, <1>2, <2>1, TotalWithout
  <1>4. Total(f) = GetOr(f, k, 0) + Total(h)
    <2>1. DOMAIN h = DOMAIN f \ {k} /\ \A j \in DOMAIN h : h[j] = f[j]
      OBVIOUS
    <2>2. Summable(h)
      BY <2>1, FS_RemoveElement DEF Summable
    <2> HIDE DEF h
    <2>3. CASE k \in DOMAIN f
      BY <2>1, <2>3, TotalWithout DEF GetOr
    <2>4. CASE k \notin DOMAIN f
      <3>1. Total(h) = Total(f)
        BY <2>1, <2>4, TotalOfSame
      <3> QED
        BY <2>2, <2>4, <3>1, TotalIsNat DEF GetOr
    <2> QED
      BY <2>3, <2>4
  <1>5. Total(h) \in Nat /\ GetOr(f, k, 0) \in Nat
    <2>1. Summable(h)
      BY FS_RemoveElement DEF Summable
    <2> HIDE DEF h
    <2> QED
      BY <2>1, TotalIsNat DEF Summable, GetOr
  <1> HIDE DEF h
  <1> QED
    <2>1. Total(g) + GetOr(f, k, 0) = Total(f) + v
      BY <1>3, <1>4, <1>5
    <2> QED
      BY <1>2, <2>1 DEF g

LEMMA TotalAdd ==
    ASSUME NEW f, Summable(f), NEW k, NEW cost \in Nat
    PROVE  /\ Summable(Add(f, k, cost))
           /\ Total(Add(f, k, cost)) = Total(f) + cost
  <1>1. GetOr(f, k, 0) \in Nat
    BY DEF Summable, GetOr
  <1>2. GetOr(f, k, 0) + cost \in Nat
    BY <1>1
  <1>3. /\ Summable(Add(f, k, cost))
        /\ Total(Add(f, k, cost)) + GetOr(f, k, 0) = Total(f) + (GetOr(f, k, 0) + cost)
    BY <1>2, TotalPut DEF Add
  <1>4. Total(f) \in Nat /\ Total(Add(f, k, cost)) \in Nat
    BY <1>3, TotalIsNat
  <1>5. ASSUME NEW x \in Nat, NEW y \in Nat, NEW old \in Nat, y + old = x + (old + cost)
        PROVE  y = x + cost
    BY <1>5
  <1>6. Total(Add(f, k, cost)) = Total(f) + cost
    BY <1>1, <1>3, <1>4, <1>5
  <1> QED
    BY <1>3, <1>6

\* An eviction takes away.
LEMMA TotalDrop ==
    ASSUME NEW f, Summable(f), NEW ks, ks = {} \/ \E k \in DOMAIN f : ks = {k}
    PROVE  /\ Summable(Drop(f, ks))
           /\ Total(Drop(f, ks)) <= Total(f)
  <1> DEFINE h == Drop(f, ks)
  <1>1. DOMAIN h = DOMAIN f \ ks /\ \A k \in DOMAIN h : h[k] = f[k]
    BY DEF Drop, Restrict
  <1> HIDE DEF h
  <1>2. Summable(h)
    BY <1>1, FS_Difference DEF Summable
  <1>3. Total(h) \in Nat /\ Total(f) \in Nat
    BY <1>2, TotalIsNat
  <1>4. CASE ks = {}
    <2>1. DOMAIN h = DOMAIN f /\ \A k \in DOMAIN f : h[k] = f[k]
      BY <1>1, <1>4
    <2>2. Total(h) = Total(f)
      BY <2>1, TotalOfSame
    <2> QED
      BY <1>2, <1>3, <2>2 DEF h
  <1>5. ASSUME NEW k \in DOMAIN f, ks = {k}
        PROVE  Total(h) <= Total(f)
    <2>1. Total(f) = f[k] + Total(h)
      BY <1>1, <1>5, TotalWithout
    <2>2. f[k] \in Nat
      BY DEF Summable
    <2> QED
      BY <1>3, <2>1, <2>2
  <1> QED
    BY <1>2, <1>4, <1>5 DEF h

LEMMA TotalOfZeros ==
    ASSUME NEW f, IsFiniteSet(DOMAIN f), \A k \in DOMAIN f : f[k] = 0
    PROVE  Total(f) = 0
  <1> DEFINE g == Sums(f)
             Bad == {n \in Nat : \E S \in SUBSET DOMAIN f : Cardinality(S) = n /\ g[S] # 0}
  <1>1. /\ g[{}] = 0
        /\ \A S \in SUBSET DOMAIN f, k \in DOMAIN f : k \in S => g[S] = f[k] + g[S \ {k}]
    BY SumStep, AnyKeyFirst
  <1> HIDE DEF g
  <1>2. \A S \in SUBSET DOMAIN f : IsFiniteSet(S) /\ Cardinality(S) \in Nat
    BY FS_Subset, FS_CardinalityType
  <1>3. Bad = {}
    <2> SUFFICES ASSUME Bad # {} PROVE FALSE
      OBVIOUS
    <2>1. PICK n \in Bad : \A m \in Bad : n <= m
      BY LeastDay
    <2>2. PICK S \in SUBSET DOMAIN f : Cardinality(S) = n /\ g[S] # 0
      OBVIOUS
    <2>3. PICK k \in S : TRUE
      BY <1>1, <2>2
    <2>4. Cardinality(S \ {k}) = n - 1 /\ S \ {k} \in SUBSET DOMAIN f
      BY <1>2, <2>2, FS_RemoveElement
    <2>5. n - 1 \in Nat
      BY <1>2, <2>4
    <2>6. g[S \ {k}] = 0
      BY <2>1, <2>4, <2>5
    <2> QED
      BY <1>1, <2>2, <2>6
  <1>4. g[DOMAIN f] = 0
    BY <1>2, <1>3
  <1> QED
    BY <1>4, TotalIsSum DEF g

-----------------------------------------------------------------------------
(* Dictionaries and their caps.                                            *)

Capped(f, K, V, max) ==
    /\ f \in Dict(K, V)
    /\ IsFiniteSet(DOMAIN f)
    /\ Cardinality(DOMAIN f) <= max

LEMMA DictIs ==
    ASSUME NEW K, NEW V, NEW f
    PROVE  f \in Dict(K, V) <=>
             /\ f = [k \in DOMAIN f |-> f[k]]
             /\ DOMAIN f \subseteq K
             /\ \A k \in DOMAIN f : f[k] \in V
  <1>1. f \in Dict(K, V) <=> \E D \in SUBSET K : f \in [D -> V]
    BY DEF Dict
  <1>2. ASSUME NEW D \in SUBSET K, f \in [D -> V]
        PROVE  /\ f = [k \in DOMAIN f |-> f[k]]
               /\ DOMAIN f \subseteq K
               /\ \A k \in DOMAIN f : f[k] \in V
    BY <1>2
  <1>3. ASSUME f = [k \in DOMAIN f |-> f[k]], DOMAIN f \subseteq K,
               \A k \in DOMAIN f : f[k] \in V
        PROVE  f \in [DOMAIN f -> V]
    BY <1>3
  <1> QED
    BY <1>1, <1>2, <1>3

LEMMA DictOf ==
    ASSUME NEW K, NEW V, NEW D \in SUBSET K, NEW f, f \in [D -> V]
    PROVE  f \in Dict(K, V)
  BY DEF Dict

LEMMA PutKeys ==
    ASSUME NEW f, NEW k, NEW v
    PROVE  /\ DOMAIN Put(f, k, v) = DOMAIN f \cup {k}
           /\ Put(f, k, v)[k] = v
           /\ \A j \in DOMAIN f : j # k => Put(f, k, v)[j] = f[j]
  BY DEF Put

LEMMA DictPut ==
    ASSUME NEW K, NEW V, NEW f \in Dict(K, V), NEW k \in K, NEW v \in V
    PROVE  Put(f, k, v) \in Dict(K, V)
  <1>1. DOMAIN f \subseteq K /\ \A j \in DOMAIN f : f[j] \in V
    BY DictIs
  <1>2. DOMAIN f \cup {k} \in SUBSET K
    BY <1>1
  <1>3. Put(f, k, v) \in [DOMAIN f \cup {k} -> V]
    BY <1>1 DEF Put
  <1> QED
    BY <1>2, <1>3, DictOf

LEMMA DropKeys ==
    ASSUME NEW f, NEW ks
    PROVE  /\ DOMAIN Drop(f, ks) = DOMAIN f \ ks
           /\ \A k \in DOMAIN f \ ks : Drop(f, ks)[k] = f[k]
  BY DEF Drop, Restrict

LEMMA DictDrop ==
    ASSUME NEW K, NEW V, NEW f \in Dict(K, V), NEW ks
    PROVE  Drop(f, ks) \in Dict(K, V)
  <1>1. DOMAIN f \subseteq K /\ \A j \in DOMAIN f : f[j] \in V
    BY DictIs
  <1>2. DOMAIN f \ ks \in SUBSET K
    BY <1>1
  <1>3. Drop(f, ks) \in [DOMAIN f \ ks -> V]
    BY <1>1 DEF Drop, Restrict
  <1> QED
    BY <1>2, <1>3, DictOf

LEMMA DictGrows ==
    ASSUME NEW K, NEW V, NEW W, V \subseteq W, NEW f \in Dict(K, V)
    PROVE  f \in Dict(K, W)
  BY DictIs

\* What a cap evicts is at most one key, and enough for the cap to hold
\* if it held before the last key was put.
LEMMA OldestIsEnough ==
    ASSUME NEW age, IsFiniteSet(DOMAIN age), \A k \in DOMAIN age : age[k] \in Nat,
           NEW max \in Nat
    PROVE  /\ Oldest(age, max) = {} \/ \E k \in DOMAIN age : Oldest(age, max) = {k}
           /\ Cardinality(DOMAIN age) <= max + 1
                => Cardinality(DOMAIN age \ Oldest(age, max)) <= max
  <1> DEFINE D == DOMAIN age
             least == CHOOSE k \in D : \A j \in D : age[k] <= age[j]
  <1>1. Cardinality(D) \in Nat
    BY FS_CardinalityType
  <1>2. Oldest(age, max) = IF Cardinality(D) <= max THEN {} ELSE {least}
    BY DEF Oldest
  <1>3. CASE Cardinality(D) <= max
    <2>1. D \ Oldest(age, max) = D
      BY <1>2, <1>3
    <2> QED
      BY <1>2, <1>3, <2>1
  <1>4. CASE ~(Cardinality(D) <= max)
    <2>1. D # {}
      BY <1>4, FS_EmptySet
    <2>2. \E k \in D : \A j \in D : age[k] <= age[j]
      <3> DEFINE A == {age[k] : k \in D}
      <3>1. A \in SUBSET Nat /\ A # {}
        BY <2>1
      <3>2. PICK a \in A : \A b \in A : a <= b
        <4> HIDE DEF A
        <4> QED
          BY <3>1, LeastDay
      <3> QED
        BY <3>2
    <2>3. least \in D
      BY <2>2
    <2>4. Cardinality(D \ {least}) = Cardinality(D) - 1
      BY <2>3, FS_RemoveElement
    <2>5. Oldest(age, max) = {least}
      BY <1>2, <1>4
    <2> HIDE DEF least
    <2> QED
      BY <1>1, <2>3, <2>4, <2>5
  <1> QED
    BY <1>3, <1>4

Row(n) == [cost : 0..n, last_seen : 0..n]
Charged(K, n) == {f \in Dict(K, 0..n) : IsFiniteSet(DOMAIN f)}
AccountRow(n) ==
    [cost : 0..n, members : Charged(Member, n), first_seen : Nat, last_seen : Nat]

AccountsAt(f, n) ==
    /\ Capped(f, Account, AccountRow(n), MAX_ACCOUNTS)
    /\ \A a \in DOMAIN f : Total(f[a].members) = f[a].cost

SessionsAt(f, n, max) == Capped(f, Session, Row(n), max)

UserDaysAt(f, n) ==
    /\ DOMAIN f \subseteq Days
    /\ \A d \in DOMAIN f : f[d] \in Charged(User, n)

SessionDaysAt(f, n) ==
    /\ DOMAIN f \subseteq Days
    /\ \A d \in DOMAIN f : SessionsAt(f[d], n, QUOTA_MAX_DAY_SESSIONS)

\* the splits of a day that is kept are within it; without days no split is left over
SplitsAgree(q) ==
    /\ \A d \in DOMAIN q.by_day \cap DOMAIN q.by_day_user :
         Total(q.by_day_user[d]) <= q.by_day[d]
    /\ \A d \in DOMAIN q.by_day \cap DOMAIN q.by_day_session :
         Total(Costs(q.by_day_session[d])) <= q.by_day[d]
    /\ DOMAIN q.by_day = {} => Leftovers(q) = {}

\* typed, within its caps, and adding up, n responses into the run
LedgerAt(q, n) ==
    /\ DOMAIN q = DOMAIN EmptyLedger
    /\ q.total \in Nat
    /\ SessionsAt(q.by_session, n, QUOTA_MAX_SESSIONS)
    /\ Total(Costs(q.by_session)) <= q.total
    /\ AccountsAt(q.accounts, n)
    /\ Total(Costs(q.accounts)) <= q.total
    /\ Capped(q.by_day, Days, 0..n, QUOTA_MAX_DAYS)
    /\ UserDaysAt(q.by_day_user, n)
    /\ SessionDaysAt(q.by_day_session, n)
    /\ SplitsAgree(q)

-----------------------------------------------------------------------------
(* The parts of a recording.                                               *)

LEMMA EmptyIsCapped ==
    ASSUME NEW K, NEW V, NEW max \in Nat
    PROVE  /\ Capped(Empty, K, V, max)
           /\ Total(Empty) = 0
           /\ Total(Costs(Empty)) = 0
  <1>1. DOMAIN Empty = {} /\ Empty = [k \in DOMAIN Empty |-> Empty[k]]
    BY DEF Empty
  <1> HIDE DEF Empty
  <1>2. DOMAIN Costs(Empty) = {}
    BY <1>1 DEF Costs
  <1>3. Empty \in Dict(K, V)
    BY <1>1, DictIs
  <1> QED
    BY <1>1, <1>2, <1>3, TotalOfNothing, FS_EmptySet DEF Capped

LEMMA CostsOfPut ==
    ASSUME NEW f, NEW k, NEW row
    PROVE  Costs(Put(f, k, row)) = Put(Costs(f), k, row.cost)
  <1> DEFINE g == Put(f, k, row)
  <1>1. DOMAIN g = DOMAIN f \cup {k} /\ g[k] = row /\ \A x \in DOMAIN f : x # k => g[x] = f[x]
    BY DEF Put
  <1> HIDE DEF g
  <1>2. Costs(g) = [x \in DOMAIN f \cup {k} |-> IF x = k THEN row.cost ELSE f[x].cost]
    BY <1>1 DEF Costs
  <1>3. Put(Costs(f), k, row.cost)
          = [x \in DOMAIN f \cup {k} |-> IF x = k THEN row.cost ELSE f[x].cost]
    BY DEF Put, Costs
  <1> QED
    BY <1>2, <1>3 DEF g

LEMMA CostsOfDrop ==
    ASSUME NEW f, NEW ks
    PROVE  Costs(Drop(f, ks)) = Drop(Costs(f), ks)
  BY DEF Costs, Drop, Restrict

\* A dictionary of sessions after a response: within its cap, one dearer at most.
LEMMA SessionTouched ==
    ASSUME steps \in Nat, NEW max \in Nat \ {0}, NEW f, SessionsAt(f, steps, max),
           NEW s \in Session, NEW g, g = Touch(f, s, 1),
           NEW h, h = Drop(g, Oldest(LastSeen(g), max))
    PROVE  /\ SessionsAt(h, steps + 1, max)
           /\ Total(Costs(h)) <= Total(Costs(f)) + 1
           /\ Total(Costs(f)) \in Nat
           /\ Total(Costs(h)) \in Nat
  <1> DEFINE row == [cost |-> GetOr(Costs(f), s, 0) + 1, last_seen |-> steps + 1]
             ks == Oldest(LastSeen(g), max)
  <1>1. /\ f \in Dict(Session, Row(steps))
        /\ IsFiniteSet(DOMAIN f)
        /\ Cardinality(DOMAIN f) <= max
    BY DEF SessionsAt, Capped
  <1>2. \A k \in DOMAIN f : f[k] \in Row(steps)
    BY <1>1, DictIs
  <1>3. /\ DOMAIN Costs(f) = DOMAIN f
        /\ \A k \in DOMAIN f : Costs(f)[k] \in 0..steps
    BY <1>2 DEF Costs, Row
  <1>4. Summable(Costs(f))
    BY <1>1, <1>3 DEF Summable
  <1>5. row \in Row(steps + 1)
    BY <1>3 DEF Row, GetOr
  <1>6. f \in Dict(Session, Row(steps + 1))
    <2>1. Row(steps) \subseteq Row(steps + 1)
      BY DEF Row
    <2> QED
      BY <1>1, <2>1, DictGrows
  <1>7. g = Put(f, s, row)
    BY DEF Touch
  <1>8. Costs(g) = Add(Costs(f), s, 1)
    BY <1>7, CostsOfPut DEF Add
  <1>9. Summable(Costs(g)) /\ Total(Costs(g)) = Total(Costs(f)) + 1
    BY <1>4, <1>8, TotalAdd
  <1> HIDE DEF row
  <1>10. /\ g \in Dict(Session, Row(steps + 1))
         /\ DOMAIN g = DOMAIN f \cup {s}
    <2>1. g \in Dict(Session, Row(steps + 1))
      BY <1>5, <1>6, <1>7, DictPut
    <2>2. DOMAIN g = DOMAIN f \cup {s}
      BY <1>7, PutKeys
    <2> QED
      BY <2>1, <2>2
  <1>11. IsFiniteSet(DOMAIN g) /\ Cardinality(DOMAIN g) <= max + 1
    <2>1. /\ IsFiniteSet(DOMAIN g)
          /\ Cardinality(DOMAIN g) = IF s \in DOMAIN f THEN Cardinality(DOMAIN f)
                                      ELSE Cardinality(DOMAIN f) + 1
      BY <1>1, <1>10, FS_AddElement
    <2>2. Cardinality(DOMAIN f) \in Nat
      BY <1>1, FS_CardinalityType
    <2> QED
      BY <1>1, <2>1, <2>2
  <1>12. DOMAIN LastSeen(g) = DOMAIN g /\ \A k \in DOMAIN g : LastSeen(g)[k] \in Nat
    <2>1. \A k \in DOMAIN g : g[k] \in Row(steps + 1)
      BY <1>10, DictIs
    <2> QED
      BY <2>1 DEF LastSeen, Row
  <1>13. /\ ks = {} \/ \E k \in DOMAIN g : ks = {k}
         /\ Cardinality(DOMAIN g \ ks) <= max
    BY <1>11, <1>12, OldestIsEnough
  <1>14. h \in Dict(Session, Row(steps + 1)) /\ DOMAIN h = DOMAIN g \ ks
    <2>1. h \in Dict(Session, Row(steps + 1))
      BY <1>10, DictDrop
    <2>2. DOMAIN h = DOMAIN g \ ks
      BY DropKeys
    <2> QED
      BY <2>1, <2>2
  <1>15. IsFiniteSet(DOMAIN h)
    <2>1. IsFiniteSet(DOMAIN g \ ks)
      BY <1>11, FS_Difference
    <2> QED
      BY <1>14, <2>1
  <1>16. Costs(h) = Drop(Costs(g), ks)
    BY CostsOfDrop
  <1>17. DOMAIN Costs(g) = DOMAIN g
    BY DEF Costs
  <1> HIDE DEF ks
  <1>18. Summable(Costs(h)) /\ Total(Costs(h)) <= Total(Costs(g))
    BY <1>9, <1>13, <1>16, <1>17, TotalDrop
  <1>19. Total(Costs(h)) \in Nat /\ Total(Costs(f)) \in Nat
    BY <1>4, <1>18, TotalIsNat
  <1> QED
    BY <1>9, <1>13, <1>14, <1>15, <1>18, <1>19 DEF SessionsAt, Capped

LEMMA SessionsGrow ==
    ASSUME NEW n \in Nat, NEW f, NEW max, SessionsAt(f, n, max)
    PROVE  SessionsAt(f, n + 1, max)
  <1>1. Row(n) \subseteq Row(n + 1)
    BY DEF Row
  <1> QED
    BY <1>1, DictGrows DEF SessionsAt, Capped

LEMMA ChargedGrows ==
    ASSUME NEW n \in Nat, NEW K, NEW f \in Charged(K, n)
    PROVE  f \in Charged(K, n + 1)
  <1>1. 0..n \subseteq 0..(n + 1)
    OBVIOUS
  <1> QED
    BY <1>1, DictGrows DEF Charged

LEMMA ChargedAdd ==
    ASSUME NEW n \in Nat, NEW K, NEW f \in Charged(K, n), NEW k \in K
    PROVE  /\ Add(f, k, 1) \in Charged(K, n + 1)
           /\ Total(Add(f, k, 1)) = Total(f) + 1
           /\ Total(f) \in Nat
  <1>1. f \in Dict(K, 0..n) /\ IsFiniteSet(DOMAIN f)
    BY DEF Charged
  <1>2. \A j \in DOMAIN f : f[j] \in 0..n
    BY <1>1, DictIs
  <1>3. Summable(f)
    BY <1>1, <1>2 DEF Summable
  <1>4. f \in Dict(K, 0..(n + 1))
    BY ChargedGrows DEF Charged
  <1>5. GetOr(f, k, 0) + 1 \in 0..(n + 1)
    BY <1>2 DEF GetOr
  <1>6. /\ Add(f, k, 1) \in Dict(K, 0..(n + 1))
        /\ DOMAIN Add(f, k, 1) = DOMAIN f \cup {k}
    BY <1>4, <1>5, DictPut, PutKeys DEF Add
  <1>7. IsFiniteSet(DOMAIN Add(f, k, 1))
    BY <1>1, <1>6, FS_AddElement
  <1>8. Total(Add(f, k, 1)) = Total(f) + 1
    BY <1>3, TotalAdd
  <1> QED
    BY <1>3, <1>6, <1>7, <1>8, TotalIsNat DEF Charged

\* The daily buckets after a response: within their cap, today's one dearer.
LEMMA DayTouched ==
    ASSUME Scalars, today \in Days, NEW n \in Nat, NEW f, Capped(f, Days, 0..n, QUOTA_MAX_DAYS),
           DOMAIN f \subseteq 0..today,
           NEW g, g = Add(f, today, 1), NEW h, h = Drop(g, OldestDay(g))
    PROVE  /\ Capped(h, Days, 0..(n + 1), QUOTA_MAX_DAYS)
           /\ today \in DOMAIN h
           /\ h[today] = GetOr(f, today, 0) + 1
           /\ \A d \in DOMAIN h : d # today => d \in DOMAIN f /\ h[d] = f[d]
  <1>1. /\ f \in Dict(Days, 0..n)
        /\ IsFiniteSet(DOMAIN f)
        /\ Cardinality(DOMAIN f) <= QUOTA_MAX_DAYS
    BY DEF Capped
  <1>2. f \in Charged(Days, n)
    BY <1>1 DEF Charged
  <1>3. g \in Dict(Days, 0..(n + 1)) /\ IsFiniteSet(DOMAIN g)
    BY <1>2, ChargedAdd DEF Charged
  <1>4. /\ DOMAIN g = DOMAIN f \cup {today}
        /\ g[today] = GetOr(f, today, 0) + 1
        /\ \A d \in DOMAIN f : d # today => g[d] = f[d]
    BY DEF Add, Put
  <1>5. Cardinality(DOMAIN g) <= QUOTA_MAX_DAYS + 1
    <2>1. Cardinality(DOMAIN g) = IF today \in DOMAIN f THEN Cardinality(DOMAIN f)
                                  ELSE Cardinality(DOMAIN f) + 1
      BY <1>1, <1>4, FS_AddElement
    <2>2. Cardinality(DOMAIN f) \in Nat
      BY <1>1, FS_CardinalityType
    <2> QED
      BY <1>1, <2>1, <2>2, ConstantsAssumption
  <1>6. today \notin OldestDay(g)
    BY <1>4, OldestDayIsOld DEF Scalars
  <1>7. Cardinality(DOMAIN g \ OldestDay(g)) <= QUOTA_MAX_DAYS
    <2> DEFINE age == [d \in DOMAIN g |-> d]
    <2>1. DOMAIN age = DOMAIN g /\ \A d \in DOMAIN age : age[d] \in Nat
      BY <1>4 DEF Scalars
    <2>2. QUOTA_MAX_DAYS \in Nat
      BY ConstantsAssumption
    <2>3. OldestDay(g) = Oldest(age, QUOTA_MAX_DAYS)
      BY DEF OldestDay
    <2> HIDE DEF age
    <2> QED
      BY <1>3, <1>5, <2>1, <2>2, <2>3, OldestIsEnough
  <1>8. /\ h \in Dict(Days, 0..(n + 1))
        /\ DOMAIN h = DOMAIN g \ OldestDay(g)
        /\ \A d \in DOMAIN g \ OldestDay(g) : h[d] = g[d]
    <2>1. h \in Dict(Days, 0..(n + 1))
      BY <1>3, DictDrop
    <2>2. /\ DOMAIN h = DOMAIN g \ OldestDay(g)
          /\ \A d \in DOMAIN g \ OldestDay(g) : h[d] = g[d]
      BY DEF Drop, Restrict
    <2> QED
      BY <2>1, <2>2
  <1>9. IsFiniteSet(DOMAIN h)
    <2>1. IsFiniteSet(DOMAIN g \ OldestDay(g))
      BY <1>3, FS_Difference
    <2> QED
      BY <1>8, <2>1
  <1>10. Capped(h, Days, 0..(n + 1), QUOTA_MAX_DAYS)
    BY <1>7, <1>8, <1>9 DEF Capped
  <1> QED
    BY <1>4, <1>6, <1>8, <1>10

LEMMA AccountRows ==
    ASSUME NEW n \in Nat, NEW f, AccountsAt(f, n)
    PROVE  /\ f \in Dict(Account, AccountRow(n))
           /\ IsFiniteSet(DOMAIN f)
           /\ Cardinality(DOMAIN f) <= MAX_ACCOUNTS
           /\ \A a \in DOMAIN f : f[a] \in AccountRow(n)
           /\ Summable(Costs(f))
  <1>1. /\ f \in Dict(Account, AccountRow(n))
        /\ IsFiniteSet(DOMAIN f)
        /\ Cardinality(DOMAIN f) <= MAX_ACCOUNTS
    BY DEF AccountsAt, Capped
  <1>2. \A a \in DOMAIN f : f[a] \in AccountRow(n)
    BY <1>1, DictIs
  <1>3. \A a \in DOMAIN f : f[a].cost \in Nat
    BY <1>2 DEF AccountRow
  <1>4. Summable(Costs(f))
    BY <1>1, <1>3 DEF Costs, Summable
  <1> QED
    BY <1>1, <1>2, <1>4

LEMMA AccountsGrow ==
    ASSUME NEW n \in Nat, NEW f, AccountsAt(f, n)
    PROVE  AccountsAt(f, n + 1)
  <1>1. AccountRow(n) \subseteq AccountRow(n + 1)
    BY ChargedGrows DEF AccountRow
  <1>2. f \in Dict(Account, AccountRow(n + 1))
    BY <1>1, AccountRows, DictGrows
  <1> QED
    BY <1>2 DEF AccountsAt, Capped

\* A bucket of its own, if the cap leaves it one; nothing is charged.
LEMMA BucketMade ==
    ASSUME steps \in Nat, NEW n \in Nat, NEW f, AccountsAt(f, n), NEW a \in Account,
           NEW h, h = _bucket(f, a)
    PROVE  /\ AccountsAt(h, n)
           /\ Total(Costs(h)) <= Total(Costs(f))
           /\ Total(Costs(h)) \in Nat
           /\ Total(Costs(f)) \in Nat
  <1>1. /\ f \in Dict(Account, AccountRow(n))
        /\ IsFiniteSet(DOMAIN f)
        /\ Cardinality(DOMAIN f) <= MAX_ACCOUNTS
        /\ Summable(Costs(f))
    BY AccountRows
  <1>2. Total(Costs(f)) \in Nat
    BY <1>1, TotalIsNat
  <1>3. CASE a \in DOMAIN f
    BY <1>2, <1>3 DEF _bucket
  <1>4. CASE a \notin DOMAIN f
    <2>1. PICK b : b = [cost |-> 0, members |-> Empty, first_seen |-> steps + 1, last_seen |-> 0]
      OBVIOUS
    <2>2. PICK g : g = Put(f, a, b)
      OBVIOUS
    <2>3. PICK ks : ks = Oldest(AccountAge(g), MAX_ACCOUNTS)
      OBVIOUS
    <2>4. h = Drop(g, ks)
      BY <1>4, <2>1, <2>2, <2>3 DEF _bucket
    <2>5. Empty \in Charged(Member, n) /\ Total(Empty) = 0
      BY EmptyIsCapped DEF Capped, Charged
    <2>6. /\ b \in AccountRow(n)
          /\ b.cost = 0
          /\ b.members = Empty
      BY <2>1, <2>5 DEF AccountRow
    <2>7. g \in Dict(Account, AccountRow(n))
      BY <1>1, <2>2, <2>6, DictPut
    <2>8. /\ DOMAIN g = DOMAIN f \cup {a}
          /\ g[a] = b
          /\ \A k \in DOMAIN f : g[k] = f[k]
      BY <1>4, <2>2 DEF Put
    <2>9. /\ IsFiniteSet(DOMAIN g)
          /\ Cardinality(DOMAIN g) = Cardinality(DOMAIN f) + 1
      <3>1. /\ IsFiniteSet(DOMAIN f \cup {a})
            /\ Cardinality(DOMAIN f \cup {a}) = Cardinality(DOMAIN f) + 1
        BY <1>1, <1>4, FS_AddElement
      <3> QED
        BY <2>8, <3>1
    <2>10. \A k \in DOMAIN g : g[k] \in AccountRow(n)
      BY <2>7, DictIs
    <2>11. DOMAIN AccountAge(g) = DOMAIN g /\ \A k \in DOMAIN g : AccountAge(g)[k] \in Nat
      <3>1. MaxSteps \in Nat
        BY ConstantsAssumption
      <3>2. \A k \in DOMAIN g : g[k].last_seen \in Nat /\ g[k].first_seen \in Nat
        BY <2>10 DEF AccountRow
      <3> QED
        BY <3>1, <3>2 DEF AccountAge
    <2>12. /\ ks = {} \/ \E k \in DOMAIN g : ks = {k}
           /\ Cardinality(DOMAIN g \ ks) <= MAX_ACCOUNTS
      <3>1. MAX_ACCOUNTS \in Nat
        BY ConstantsAssumption
      <3>2. Cardinality(DOMAIN f) \in Nat
        BY <1>1, FS_CardinalityType
      <3>3. Cardinality(DOMAIN g) <= MAX_ACCOUNTS + 1
        BY <1>1, <2>9, <3>1, <3>2
      <3> QED
        BY <2>3, <2>9, <2>11, <3>1, <3>3, OldestIsEnough
    <2>13. Costs(g) = Put(Costs(f), a, 0)
      BY <2>2, <2>6, CostsOfPut
    <2>14. Summable(Costs(g)) /\ Total(Costs(g)) = Total(Costs(f))
      <3>1. GetOr(Costs(f), a, 0) = 0
        BY <1>4 DEF GetOr, Costs
      <3>2. /\ Summable(Costs(g))
            /\ Total(Costs(g)) + GetOr(Costs(f), a, 0) = Total(Costs(f)) + 0
        BY <1>1, <2>13, TotalPut
      <3>3. Total(Costs(g)) \in Nat
        BY <3>2, TotalIsNat
      <3> QED
        BY <1>2, <3>1, <3>2, <3>3
    <2>15. h \in Dict(Account, AccountRow(n))
      BY <2>4, <2>7, DictDrop
    <2>16. /\ DOMAIN h = DOMAIN g \ ks
           /\ \A k \in DOMAIN h : h[k] = g[k]
      BY <2>4 DEF Drop, Restrict
    <2>17. IsFiniteSet(DOMAIN h) /\ Cardinality(DOMAIN h) <= MAX_ACCOUNTS
      <3>1. IsFiniteSet(DOMAIN g \ ks)
        BY <2>9, FS_Difference
      <3> QED
        BY <2>12, <2>16, <3>1
    <2>18. \A k \in DOMAIN h : Total(h[k].members) = h[k].cost
      BY <2>5, <2>6, <2>8, <2>16 DEF AccountsAt
    <2>19. AccountsAt(h, n)
      BY <2>15, <2>17, <2>18 DEF AccountsAt, Capped
    <2>20. Costs(h) = Drop(Costs(g), ks)
      BY <2>4, CostsOfDrop
    <2>21. DOMAIN Costs(g) = DOMAIN g
      BY DEF Costs
    <2>22. Summable(Costs(h)) /\ Total(Costs(h)) <= Total(Costs(g))
      BY <2>12, <2>14, <2>20, <2>21, TotalDrop
    <2>23. Total(Costs(h)) \in Nat
      BY <2>22, TotalIsNat
    <2> QED
      BY <1>2, <2>14, <2>19, <2>22, <2>23
  <1> QED
    BY <1>3, <1>4

\* An account that has a bucket is charged: its members add up as before.
LEMMA BucketCharged ==
    ASSUME steps \in Nat, NEW n \in Nat, NEW f, AccountsAt(f, n), NEW a \in DOMAIN f,
           NEW u \in User \cup {None}, NEW h, h = Put(f, a, ChargedAccount(f[a], u, 1))
    PROVE  /\ AccountsAt(h, n + 1)
           /\ Total(Costs(h)) = Total(Costs(f)) + 1
  <1>1. /\ f \in Dict(Account, AccountRow(n))
        /\ IsFiniteSet(DOMAIN f)
        /\ Cardinality(DOMAIN f) <= MAX_ACCOUNTS
        /\ f[a] \in AccountRow(n)
        /\ Summable(Costs(f))
    BY AccountRows
  <1>2. PICK m : m = IF u = None THEN UNLABELED ELSE u
    OBVIOUS
  <1>3. PICK b : b = ChargedAccount(f[a], u, 1)
    OBVIOUS
  <1>4. PICK o : o = f[a]
    OBVIOUS
  <1>5. /\ o.cost \in 0..n
        /\ o.members \in Charged(Member, n)
        /\ o.first_seen \in Nat
        /\ o = [cost |-> o.cost, members |-> o.members, first_seen |-> o.first_seen,
                last_seen |-> o.last_seen]
    BY <1>1, <1>4 DEF AccountRow
  <1>6. m \in Member
    BY <1>2 DEF Member
  <1>7. /\ Add(o.members, m, 1) \in Charged(Member, n + 1)
        /\ Total(Add(o.members, m, 1)) = Total(o.members) + 1
    BY <1>5, <1>6, ChargedAdd
  <1>8. b = [cost |-> o.cost + 1, members |-> Add(o.members, m, 1),
             first_seen |-> o.first_seen, last_seen |-> steps + 1]
    <2>1. b = [o EXCEPT !.cost = @ + 1, !.last_seen = steps + 1, !.members = Add(@, m, 1)]
      BY <1>2, <1>3, <1>4 DEF ChargedAccount
    <2> QED
      BY <1>5, <2>1
  <1>9. b \in AccountRow(n + 1) /\ b.cost = o.cost + 1 /\ Total(b.members) = b.cost
    <2>1. Total(o.members) = o.cost
      BY <1>4 DEF AccountsAt
    <2>2. o.cost + 1 \in 0..(n + 1) /\ steps + 1 \in Nat
      BY <1>5
    <2>3. b \in AccountRow(n + 1)
      BY <1>5, <1>7, <1>8, <2>2 DEF AccountRow
    <2> QED
      BY <1>7, <1>8, <2>1, <2>3
  <1>10. f \in Dict(Account, AccountRow(n + 1))
    BY AccountsGrow DEF AccountsAt, Capped
  <1>11. h = Put(f, a, b)
    BY <1>3
  <1>12. a \in Account
    BY <1>1, DictIs
  <1>13. h \in Dict(Account, AccountRow(n + 1))
    BY <1>9, <1>10, <1>11, <1>12, DictPut
  <1>14. DOMAIN h = DOMAIN f /\ h[a] = b /\ \A k \in DOMAIN f : k # a => h[k] = f[k]
    BY <1>11 DEF Put
  <1>15. \A k \in DOMAIN h : Total(h[k].members) = h[k].cost
    BY <1>9, <1>14 DEF AccountsAt
  <1>16. AccountsAt(h, n + 1)
    BY <1>1, <1>13, <1>14, <1>15 DEF AccountsAt, Capped
  <1>17. Costs(h) = Add(Costs(f), a, 1)
    <2>1. Costs(h) = Put(Costs(f), a, o.cost + 1)
      BY <1>9, <1>11, CostsOfPut
    <2>2. GetOr(Costs(f), a, 0) = o.cost
      BY <1>4 DEF GetOr, Costs
    <2> QED
      BY <2>1, <2>2 DEF Add
  <1>18. Total(Costs(h)) = Total(Costs(f)) + 1
    BY <1>1, <1>17, TotalAdd
  <1> QED
    BY <1>16, <1>18

LEMMA AccountsRecorded ==
    ASSUME steps \in Nat, NEW n \in Nat, NEW f, AccountsAt(f, n), NEW a \in Account,
           NEW u \in User \cup {None}, NEW g, g = _bucket(f, a),
           NEW h, h = IF a \in DOMAIN g THEN Put(g, a, ChargedAccount(g[a], u, 1)) ELSE g
    PROVE  /\ AccountsAt(h, n + 1)
           /\ Total(Costs(h)) \in Nat
           /\ Total(Costs(f)) \in Nat
           /\ Total(Costs(h)) <= Total(Costs(f)) + 1
  <1>1. /\ AccountsAt(g, n)
        /\ Total(Costs(g)) <= Total(Costs(f))
        /\ Total(Costs(g)) \in Nat
        /\ Total(Costs(f)) \in Nat
    BY BucketMade
  <1>2. CASE a \in DOMAIN g
    <2>1. AccountsAt(h, n + 1) /\ Total(Costs(h)) = Total(Costs(g)) + 1
      BY <1>1, <1>2, BucketCharged
    <2> QED
      BY <1>1, <2>1
  <1>3. CASE a \notin DOMAIN g
    BY <1>1, <1>3, AccountsGrow
  <1> QED
    BY <1>2, <1>3

\* the splits of the days that are kept
SplitOf(f, kept) == Restrict(f, DOMAIN f \cap kept)

DayUsers(f, u) == Put(f, today, Add(GetOr(f, today, Empty), u, 1))

OtherDaysKept(f, h) == \A d \in DOMAIN h : d # today => d \in DOMAIN f /\ h[d] = f[d]

TodayDearer(f, h) ==
    today \in DOMAIN h => /\ Total(h[today]) = Total(GetOr(f, today, Empty)) + 1
                          /\ Total(GetOr(f, today, Empty)) \in Nat

\* The split of a day by users, after a labelled response.
LEMMA DayUserTouched ==
    ASSUME steps \in Nat, today \in Days, NEW f, UserDaysAt(f, steps), NEW u \in User, NEW kept,
           NEW h, h = SplitOf(DayUsers(f, u), kept)
    PROVE  /\ UserDaysAt(h, steps + 1)
           /\ OtherDaysKept(f, h)
           /\ TodayDearer(f, h)
  <1>1. PICK row : row = GetOr(f, today, Empty)
    OBVIOUS
  <1>2. Empty \in Charged(User, steps)
    BY EmptyIsCapped DEF Capped, Charged
  <1>3. row \in Charged(User, steps)
    BY <1>1, <1>2 DEF GetOr, UserDaysAt
  <1>4. /\ Add(row, u, 1) \in Charged(User, steps + 1)
        /\ Total(Add(row, u, 1)) = Total(row) + 1
        /\ Total(row) \in Nat
    BY <1>3, ChargedAdd
  <1>5. PICK new : new = Add(row, u, 1)
    OBVIOUS
  <1> DEFINE g == DayUsers(f, u)
  <1>6. /\ DOMAIN g = DOMAIN f \cup {today}
        /\ g[today] = new
        /\ \A d \in DOMAIN f : d # today => g[d] = f[d]
    BY <1>1, <1>5 DEF Put, DayUsers
  <1>7. /\ DOMAIN h = DOMAIN g \cap kept
        /\ \A d \in DOMAIN h : h[d] = g[d]
    BY DEF Restrict, SplitOf
  <1> HIDE DEF g
  <1>8. \A d \in DOMAIN f : f[d] \in Charged(User, steps + 1)
    BY ChargedGrows DEF UserDaysAt
  <1>9. UserDaysAt(h, steps + 1)
    BY <1>4, <1>5, <1>6, <1>7, <1>8 DEF UserDaysAt
  <1>10. OtherDaysKept(f, h)
    BY <1>6, <1>7 DEF OtherDaysKept
  <1>11. TodayDearer(f, h)
    BY <1>1, <1>4, <1>5, <1>6, <1>7 DEF TodayDearer
  <1> QED
    BY <1>9, <1>10, <1>11

DaySessions(f, s) ==
    LET day == Touch(GetOr(f, today, Empty), s, 1)
    IN  Put(f, today, Drop(day, Oldest(LastSeen(day), QUOTA_MAX_DAY_SESSIONS)))

\* The split of a day by sessions.
LEMMA DaySessionTouched ==
    ASSUME steps \in Nat, today \in Days, NEW f, SessionDaysAt(f, steps), NEW s \in Session,
           NEW h, h = DaySessions(f, s)
    PROVE  /\ SessionDaysAt(h, steps + 1)
           /\ DOMAIN h = DOMAIN f \cup {today}
           /\ \A d \in DOMAIN f : d # today => h[d] = f[d]
           /\ Total(Costs(h[today])) <= Total(Costs(GetOr(f, today, Empty))) + 1
           /\ Total(Costs(GetOr(f, today, Empty))) \in Nat
           /\ Total(Costs(h[today])) \in Nat
  <1>1. PICK row : row = GetOr(f, today, Empty)
    OBVIOUS
  <1>2. QUOTA_MAX_DAY_SESSIONS \in Nat \ {0}
    BY ConstantsAssumption
  <1>3. SessionsAt(row, steps, QUOTA_MAX_DAY_SESSIONS)
    <2>1. SessionsAt(Empty, steps, QUOTA_MAX_DAY_SESSIONS)
      BY <1>2, EmptyIsCapped DEF SessionsAt
    <2> QED
      BY <1>1, <2>1 DEF GetOr, SessionDaysAt
  <1>4. PICK day : day = Touch(row, s, 1)
    OBVIOUS
  <1>5. PICK new : new = Drop(day, Oldest(LastSeen(day), QUOTA_MAX_DAY_SESSIONS))
    OBVIOUS
  <1>6. /\ SessionsAt(new, steps + 1, QUOTA_MAX_DAY_SESSIONS)
        /\ Total(Costs(new)) <= Total(Costs(row)) + 1
        /\ Total(Costs(row)) \in Nat
        /\ Total(Costs(new)) \in Nat
    BY <1>2, <1>3, <1>4, <1>5, SessionTouched
  <1>7. h = Put(f, today, new)
    BY <1>1, <1>4, <1>5 DEF DaySessions
  <1>8. /\ DOMAIN h = DOMAIN f \cup {today}
        /\ h[today] = new
        /\ \A d \in DOMAIN f : d # today => h[d] = f[d]
    BY <1>7 DEF Put
  <1>9. \A d \in DOMAIN f : SessionsAt(f[d], steps + 1, QUOTA_MAX_DAY_SESSIONS)
    BY SessionsGrow DEF SessionDaysAt
  <1>10. SessionDaysAt(h, steps + 1)
    BY <1>6, <1>8, <1>9 DEF SessionDaysAt
  <1> QED
    BY <1>1, <1>6, <1>8, <1>10

\* What a recording makes of each part of the ledger.
LEMMA RecordedParts ==
    ASSUME NEW q, DOMAIN q = DOMAIN EmptyLedger, NEW s, NEW u, NEW a,
           NEW p, p = Recorded(q, s, u, a, 1)
    PROVE  /\ DOMAIN p = DOMAIN EmptyLedger
           /\ p.total = q.total + 1
           /\ s = None => p.by_session = q.by_session
           /\ s # None => \E f : /\ f = Touch(q.by_session, s, 1)
                                 /\ p.by_session = Drop(f, Oldest(LastSeen(f), QUOTA_MAX_SESSIONS))
           /\ a = None => p.accounts = q.accounts
           /\ a # None => \E f : /\ f = _bucket(q.accounts, a)
                                 /\ p.accounts = IF a \in DOMAIN f
                                                 THEN Put(f, a, ChargedAccount(f[a], u, 1)) ELSE f
           /\ \E f : /\ f = Add(q.by_day, today, 1)
                     /\ p.by_day = Drop(f, OldestDay(f))
           /\ \E f : /\ s = None => f = q.by_day_session
                     /\ s # None => f = DaySessions(q.by_day_session, s)
                     /\ u = None => p.by_day_session = f
                     /\ u # None => p.by_day_session = SplitOf(f, DOMAIN p.by_day)
           /\ u = None => p.by_day_user = q.by_day_user
           /\ u # None => p.by_day_user = SplitOf(DayUsers(q.by_day_user, u), DOMAIN p.by_day)
  <1> DEFINE F == {"total", "by_session", "by_day", "by_day_user", "by_day_session",
                   "accounts", "period_month"}
  <1>1. ASSUME NEW x, NEW r, NEW v, NEW i \in F, DOMAIN x = F, r = [x EXCEPT ![i] = v]
        PROVE  DOMAIN r = F /\ r[i] = v /\ \A j \in F : j # i => r[j] = x[j]
    BY <1>1
  <1>2. DOMAIN EmptyLedger = F
    BY DEF EmptyLedger
  <1>3. PICK q1 : q1 = AddTotals(q, 1)
    OBVIOUS
  <1>4. PICK q2 : q2 = AddSession(q1, s, 1)
    OBVIOUS
  <1>5. PICK q3 : q3 = _record_day_session(q2, s, 1)
    OBVIOUS
  <1>6. PICK q4 : q4 = AddDay(q3, 1)
    OBVIOUS
  <1>7. PICK q5 : q5 = record_account_usage(q4, a, u, 1)
    OBVIOUS
  <1>8. p = AddDayUser(q5, u, 1)
    BY <1>3, <1>4, <1>5, <1>6, <1>7 DEF Recorded
  <1>9. /\ DOMAIN q1 = F
        /\ q1.total = q.total + 1
        /\ \A j \in F \ {"total"} : q1[j] = q[j]
    BY <1>2, <1>3 DEF AddTotals
  <1>10. /\ DOMAIN q2 = F
         /\ \A j \in F \ {"by_session"} : q2[j] = q1[j]
    BY <1>4, <1>9 DEF AddSession
  <1>11. /\ DOMAIN q3 = F
         /\ \A j \in F \ {"by_day_session"} : q3[j] = q2[j]
    BY <1>5, <1>10 DEF _record_day_session
  <1>12. /\ DOMAIN q4 = F
         /\ \A j \in F \ {"by_day"} : q4[j] = q3[j]
    BY <1>6, <1>11 DEF AddDay
  <1>13. /\ DOMAIN q5 = F
         /\ \A j \in F \ {"accounts"} : q5[j] = q4[j]
    BY <1>7, <1>12 DEF record_account_usage
  <1>14. /\ DOMAIN p = F
         /\ \A j \in F \ {"by_day_user", "by_day_session"} : p[j] = q5[j]
    BY <1>8, <1>13 DEF AddDayUser
  <1>15. p.total = q.total + 1
    BY <1>9, <1>10, <1>11, <1>12, <1>13, <1>14
  <1>16. p.by_session = q2.by_session /\ q1.by_session = q.by_session
    BY <1>9, <1>11, <1>12, <1>13, <1>14
  <1>17. p.accounts = q5.accounts /\ q4.accounts = q.accounts
    BY <1>9, <1>10, <1>11, <1>12, <1>14
  <1>18. p.by_day = q4.by_day /\ q3.by_day = q.by_day /\ q5.by_day = p.by_day
    BY <1>9, <1>10, <1>11, <1>13, <1>14
  <1>19. q5.by_day_session = q3.by_day_session /\ q2.by_day_session = q.by_day_session
    BY <1>9, <1>10, <1>12, <1>13
  <1>20. q5.by_day_user = q.by_day_user
    BY <1>9, <1>10, <1>11, <1>12, <1>13
  <1>21. /\ s = None => p.by_session = q.by_session
         /\ s # None => \E f : /\ f = Touch(q.by_session, s, 1)
                               /\ p.by_session = Drop(f, Oldest(LastSeen(f), QUOTA_MAX_SESSIONS))
    <2>1. CASE s = None
      BY <1>4, <1>16, <2>1 DEF AddSession
    <2>2. CASE s # None
      <3>1. PICK f : f = Touch(q1.by_session, s, 1)
        OBVIOUS
      <3>2. q2 = [q1 EXCEPT !.by_session = Drop(f, Oldest(LastSeen(f), QUOTA_MAX_SESSIONS))]
        BY <1>4, <2>2, <3>1 DEF AddSession
      <3>3. q2.by_session = Drop(f, Oldest(LastSeen(f), QUOTA_MAX_SESSIONS))
        BY <1>9, <3>2
      <3> QED
        BY <1>16, <2>2, <3>1, <3>3
    <2> QED
      BY <2>1, <2>2
  <1>22. /\ a = None => p.accounts = q.accounts
         /\ a # None => \E f : /\ f = _bucket(q.accounts, a)
                               /\ p.accounts = IF a \in DOMAIN f
                                               THEN Put(f, a, ChargedAccount(f[a], u, 1)) ELSE f
    <2>1. CASE a = None
      BY <1>7, <1>17, <2>1 DEF record_account_usage
    <2>2. CASE a # None
      <3>1. PICK f : f = _bucket(q4.accounts, a)
        OBVIOUS
      <3>2. q5 = [q4 EXCEPT !.accounts = IF a \in DOMAIN f
                                         THEN Put(f, a, ChargedAccount(f[a], u, 1)) ELSE f]
        BY <1>7, <2>2, <3>1 DEF record_account_usage
      <3>3. q5.accounts = IF a \in DOMAIN f THEN Put(f, a, ChargedAccount(f[a], u, 1)) ELSE f
        BY <1>12, <3>2
      <3> QED
        BY <1>17, <2>2, <3>1, <3>3
    <2> QED
      BY <2>1, <2>2
  <1>23. \E f : f = Add(q.by_day, today, 1) /\ p.by_day = Drop(f, OldestDay(f))
    <2>1. PICK f : f = Add(q3.by_day, today, 1)
      OBVIOUS
    <2>2. q4 = [q3 EXCEPT !.by_day = Drop(f, OldestDay(f))]
      BY <1>6, <2>1 DEF AddDay
    <2>3. q4.by_day = Drop(f, OldestDay(f))
      BY <1>11, <2>2
    <2> QED
      BY <1>18, <2>1, <2>3
  <1>24. /\ s = None => q3.by_day_session = q.by_day_session
         /\ s # None => q3.by_day_session = DaySessions(q.by_day_session, s)
    <2>1. CASE s = None
      BY <1>5, <1>19, <2>1 DEF _record_day_session
    <2>2. CASE s # None
      <3>1. PICK f : f = DaySessions(q2.by_day_session, s)
        OBVIOUS
      <3>2. q3 = [q2 EXCEPT !.by_day_session = f]
        BY <1>5, <2>2, <3>1 DEF _record_day_session, DaySessions
      <3>3. q3.by_day_session = f
        BY <1>10, <3>2
      <3> QED
        BY <1>19, <2>2, <3>1, <3>3
    <2> QED
      BY <2>1, <2>2
  <1>25. u = None => p.by_day_session = q3.by_day_session /\ p.by_day_user = q.by_day_user
    BY <1>8, <1>19, <1>20 DEF AddDayUser
  <1>26. ASSUME u # None
         PROVE  /\ p.by_day_session = SplitOf(q3.by_day_session, DOMAIN p.by_day)
                /\ p.by_day_user = SplitOf(DayUsers(q.by_day_user, u), DOMAIN p.by_day)
    <2>1. PICK g : g = SplitOf(q5.by_day_session, DOMAIN q5.by_day)
      OBVIOUS
    <2>2. PICK h : h = SplitOf(DayUsers(q5.by_day_user, u), DOMAIN q5.by_day)
      OBVIOUS
    <2>3. p = [q5 EXCEPT !.by_day_user = h, !.by_day_session = g]
      BY <1>8, <1>26, <2>1, <2>2 DEF AddDayUser, SplitOf, DayUsers
    <2>4. p.by_day_user = h /\ p.by_day_session = g
      BY <1>13, <2>3
    <2> QED
      BY <1>18, <1>19, <1>20, <2>1, <2>2, <2>4
  <1> QED
    BY <1>2, <1>14, <1>15, <1>21, <1>22, <1>23, <1>24, <1>25, <1>26

-----------------------------------------------------------------------------
(* The whole recording, and the reset.                                     *)

\* No split of today without its bucket, so the splits of today are within it.
LEMMA TodayCovered ==
    ASSUME Scalars, NEW q, LedgerAt(q, steps), RightDays(q), steps \in Nat
    PROVE  /\ GetOr(q.by_day, today, 0) \in Nat
           /\ Total(GetOr(q.by_day_user, today, Empty)) <= GetOr(q.by_day, today, 0)
           /\ Total(Costs(GetOr(q.by_day_session, today, Empty))) <= GetOr(q.by_day, today, 0)
           /\ today \in DOMAIN q.by_day_user => today \in DOMAIN q.by_day
           /\ today \in DOMAIN q.by_day_session => today \in DOMAIN q.by_day
  <1>1. GetOr(q.by_day, today, 0) \in Nat
    BY DEF GetOr, RightDays
  <1>2. Total(Empty) = 0 /\ Total(Costs(Empty)) = 0
    BY EmptyIsCapped
  <1>3. today \notin Leftovers(q)
    <2> SUFFICES ASSUME today \in Leftovers(q) PROVE FALSE
      OBVIOUS
    <2>1. PICK kept \in DOMAIN q.by_day : TRUE
      BY DEF LedgerAt, SplitsAgree
    <2>2. today < kept /\ kept \in 0..today
      BY <2>1 DEF RightDays
    <2> QED
      BY <2>2 DEF Scalars
  <1>4. /\ today \in DOMAIN q.by_day_user => today \in DOMAIN q.by_day
        /\ today \in DOMAIN q.by_day_session => today \in DOMAIN q.by_day
    BY <1>3 DEF Leftovers
  <1>5. Total(GetOr(q.by_day_user, today, Empty)) <= GetOr(q.by_day, today, 0)
    <2>1. CASE today \in DOMAIN q.by_day_user
      <3>1. Total(q.by_day_user[today]) <= q.by_day[today]
        BY <1>4, <2>1 DEF LedgerAt, SplitsAgree
      <3> QED
        BY <1>4, <2>1, <3>1 DEF GetOr
    <2>2. CASE today \notin DOMAIN q.by_day_user
      <3>1. GetOr(q.by_day_user, today, Empty) = Empty
        BY <2>2 DEF GetOr
      <3> QED
        BY <1>1, <1>2, <3>1
    <2> QED
      BY <2>1, <2>2
  <1>6. Total(Costs(GetOr(q.by_day_session, today, Empty))) <= GetOr(q.by_day, today, 0)
    <2>1. CASE today \in DOMAIN q.by_day_session
      <3>1. Total(Costs(q.by_day_session[today])) <= q.by_day[today]
        BY <1>4, <2>1 DEF LedgerAt, SplitsAgree
      <3> QED
        BY <1>4, <2>1, <3>1 DEF GetOr
    <2>2. CASE today \notin DOMAIN q.by_day_session
      <3>1. GetOr(q.by_day_session, today, Empty) = Empty
        BY <2>2 DEF GetOr
      <3> QED
        BY <1>1, <1>2, <3>1
    <2> QED
      BY <2>1, <2>2
  <1> QED
    BY <1>1, <1>4, <1>5, <1>6

LEMMA SessionDaysGrow ==
    ASSUME NEW n \in Nat, NEW f, SessionDaysAt(f, n)
    PROVE  SessionDaysAt(f, n + 1)
  BY SessionsGrow DEF SessionDaysAt

LEMMA UserDaysGrow ==
    ASSUME NEW n \in Nat, NEW f, UserDaysAt(f, n)
    PROVE  UserDaysAt(f, n + 1)
  BY ChargedGrows DEF UserDaysAt

\* A response leaves the ledger typed, within its caps, and adding up.
LEMMA RecordedAddsUp ==
    ASSUME Scalars, steps \in Nat, today \in Days,
           NEW q, LedgerAt(q, steps), RightDays(q),
           NEW s \in Session \cup {None}, NEW u \in User \cup {None},
           NEW a \in Account \cup {None}, NEW p, p = Recorded(q, s, u, a, 1)
    PROVE  LedgerAt(p, steps + 1)
  <1>1. /\ DOMAIN q = DOMAIN EmptyLedger
        /\ q.total \in Nat
        /\ SessionsAt(q.by_session, steps, QUOTA_MAX_SESSIONS)
        /\ Total(Costs(q.by_session)) <= q.total
        /\ AccountsAt(q.accounts, steps)
        /\ Total(Costs(q.accounts)) <= q.total
        /\ Capped(q.by_day, Days, 0..steps, QUOTA_MAX_DAYS)
        /\ UserDaysAt(q.by_day_user, steps)
        /\ SessionDaysAt(q.by_day_session, steps)
    BY DEF LedgerAt
  <1>2. /\ DOMAIN p = DOMAIN EmptyLedger
        /\ p.total = q.total + 1
    BY <1>1, RecordedParts
  <1>3. p.total \in Nat
    BY <1>1, <1>2
  <1>4. /\ SessionsAt(p.by_session, steps + 1, QUOTA_MAX_SESSIONS)
        /\ Total(Costs(p.by_session)) <= p.total
    <2>1. CASE s = None
      <3>1. p.by_session = q.by_session
        BY <1>1, <2>1, RecordedParts
      <3>2. \A k \in DOMAIN q.by_session : q.by_session[k] \in Row(steps)
        BY <1>1, DictIs DEF SessionsAt, Capped
      <3>3. Summable(Costs(q.by_session))
        BY <1>1, <3>2 DEF SessionsAt, Capped, Summable, Costs, Row
      <3>4. Total(Costs(q.by_session)) \in Nat
        BY <3>3, TotalIsNat
      <3>5. SessionsAt(q.by_session, steps + 1, QUOTA_MAX_SESSIONS)
        BY <1>1, SessionsGrow
      <3> QED
        BY <1>1, <1>2, <3>1, <3>4, <3>5
    <2>2. CASE s # None
      <3>1. s \in Session /\ QUOTA_MAX_SESSIONS \in Nat \ {0}
        BY <2>2, ConstantsAssumption
      <3>2. PICK f : /\ f = Touch(q.by_session, s, 1)
                     /\ p.by_session = Drop(f, Oldest(LastSeen(f), QUOTA_MAX_SESSIONS))
        BY <1>1, <2>2, RecordedParts
      <3>3. /\ SessionsAt(p.by_session, steps + 1, QUOTA_MAX_SESSIONS)
            /\ Total(Costs(p.by_session)) <= Total(Costs(q.by_session)) + 1
            /\ Total(Costs(q.by_session)) \in Nat
            /\ Total(Costs(p.by_session)) \in Nat
        BY <1>1, <3>1, <3>2, SessionTouched
      <3> QED
        BY <1>1, <1>2, <3>3
    <2> QED
      BY <2>1, <2>2
  <1>5. /\ AccountsAt(p.accounts, steps + 1)
        /\ Total(Costs(p.accounts)) <= p.total
    <2>1. CASE a = None
      <3>1. p.accounts = q.accounts
        BY <1>1, <2>1, RecordedParts
      <3>2. Summable(Costs(q.accounts))
        BY <1>1, AccountRows
      <3>3. Total(Costs(q.accounts)) \in Nat
        BY <3>2, TotalIsNat
      <3>4. AccountsAt(q.accounts, steps + 1)
        BY <1>1, AccountsGrow
      <3> QED
        BY <1>1, <1>2, <3>1, <3>3, <3>4
    <2>2. CASE a # None
      <3>1. a \in Account
        BY <2>2
      <3>2. PICK f : /\ f = _bucket(q.accounts, a)
                     /\ p.accounts = IF a \in DOMAIN f
                                     THEN Put(f, a, ChargedAccount(f[a], u, 1)) ELSE f
        BY <1>1, <2>2, RecordedParts
      <3>3. /\ AccountsAt(p.accounts, steps + 1)
            /\ Total(Costs(p.accounts)) \in Nat
            /\ Total(Costs(q.accounts)) \in Nat
            /\ Total(Costs(p.accounts)) <= Total(Costs(q.accounts)) + 1
        BY <1>1, <3>1, <3>2, AccountsRecorded
      <3> QED
        BY <1>1, <1>2, <3>3
    <2> QED
      BY <2>1, <2>2
  <1>6. /\ Capped(p.by_day, Days, 0..(steps + 1), QUOTA_MAX_DAYS)
        /\ today \in DOMAIN p.by_day
        /\ p.by_day[today] = GetOr(q.by_day, today, 0) + 1
        /\ \A d \in DOMAIN p.by_day : d # today => d \in DOMAIN q.by_day /\ p.by_day[d] = q.by_day[d]
    <2>1. PICK f : f = Add(q.by_day, today, 1) /\ p.by_day = Drop(f, OldestDay(f))
      BY <1>1, RecordedParts
    <2>2. DOMAIN q.by_day \subseteq 0..today
      BY DEF RightDays
    <2> QED
      BY <1>1, <2>1, <2>2, DayTouched
  <1>7. /\ GetOr(q.by_day, today, 0) \in Nat
        /\ Total(GetOr(q.by_day_user, today, Empty)) <= GetOr(q.by_day, today, 0)
        /\ Total(Costs(GetOr(q.by_day_session, today, Empty))) <= GetOr(q.by_day, today, 0)
        /\ today \in DOMAIN q.by_day_user => today \in DOMAIN q.by_day
        /\ today \in DOMAIN q.by_day_session => today \in DOMAIN q.by_day
    BY TodayCovered
  <1>8. /\ UserDaysAt(p.by_day_user, steps + 1)
        /\ \A d \in DOMAIN p.by_day \cap DOMAIN p.by_day_user :
             Total(p.by_day_user[d]) <= p.by_day[d]
    <2>1. CASE u = None
      <3>1. p.by_day_user = q.by_day_user
        BY <1>1, <2>1, RecordedParts
      <3>2. UserDaysAt(p.by_day_user, steps + 1)
        BY <1>1, <3>1, UserDaysGrow
      <3>3. \A d \in DOMAIN q.by_day \cap DOMAIN q.by_day_user :
              Total(q.by_day_user[d]) <= q.by_day[d]
        BY DEF LedgerAt, SplitsAgree
      <3>4. ASSUME NEW d \in DOMAIN p.by_day, d \in DOMAIN p.by_day_user, d # today
            PROVE  Total(p.by_day_user[d]) <= p.by_day[d]
        BY <1>6, <3>1, <3>3, <3>4
      <3>5. ASSUME today \in DOMAIN p.by_day_user
            PROVE  Total(p.by_day_user[today]) <= p.by_day[today]
        <4>1. GetOr(q.by_day_user, today, Empty) = p.by_day_user[today]
          BY <3>1, <3>5 DEF GetOr
        <4>2. q.by_day_user[today] \in Charged(User, steps)
          BY <1>1, <3>1, <3>5 DEF UserDaysAt
        <4>3. Summable(q.by_day_user[today])
          BY <4>2, DictIs DEF Charged, Summable
        <4>4. Total(p.by_day_user[today]) \in Nat
          BY <3>1, <4>3, TotalIsNat
        <4> QED
          BY <1>6, <1>7, <4>1, <4>4
      <3> QED
        BY <3>2, <3>4, <3>5
    <2>2. CASE u # None
      <3>1. u \in User
        BY <2>2
      <3>2. p.by_day_user = SplitOf(DayUsers(q.by_day_user, u), DOMAIN p.by_day)
        BY <1>1, <2>2, RecordedParts
      <3>3. /\ UserDaysAt(p.by_day_user, steps + 1)
            /\ \A d \in DOMAIN p.by_day_user :
                 d # today => d \in DOMAIN q.by_day_user /\ p.by_day_user[d] = q.by_day_user[d]
            /\ today \in DOMAIN p.by_day_user =>
                 /\ Total(p.by_day_user[today]) = Total(GetOr(q.by_day_user, today, Empty)) + 1
                 /\ Total(GetOr(q.by_day_user, today, Empty)) \in Nat
        <4>1. PICK f : f = q.by_day_user
          OBVIOUS
        <4>2. PICK h : h = p.by_day_user
          OBVIOUS
        <4>3. PICK kept : kept = DOMAIN p.by_day
          OBVIOUS
        <4>4. UserDaysAt(f, steps) /\ h = SplitOf(DayUsers(f, u), kept)
          BY <1>1, <3>2, <4>1, <4>2, <4>3
        <4>5. /\ UserDaysAt(h, steps + 1)
              /\ OtherDaysKept(f, h)
              /\ TodayDearer(f, h)
          BY <3>1, <4>4, DayUserTouched
        <4> QED
          BY <4>1, <4>2, <4>5 DEF OtherDaysKept, TodayDearer
      <3>4. \A d \in DOMAIN q.by_day \cap DOMAIN q.by_day_user :
              Total(q.by_day_user[d]) <= q.by_day[d]
        BY DEF LedgerAt, SplitsAgree
      <3>5. ASSUME NEW d \in DOMAIN p.by_day, d \in DOMAIN p.by_day_user, d # today
            PROVE  Total(p.by_day_user[d]) <= p.by_day[d]
        BY <1>6, <3>3, <3>4, <3>5
      <3>6. ASSUME today \in DOMAIN p.by_day_user
            PROVE  Total(p.by_day_user[today]) <= p.by_day[today]
        BY <1>6, <1>7, <3>3, <3>6
      <3> QED
        BY <3>3, <3>5, <3>6
    <2> QED
      BY <2>1, <2>2
  <1>9. PICK g : /\ s = None => g = q.by_day_session
                 /\ s # None => g = DaySessions(q.by_day_session, s)
                 /\ u = None => p.by_day_session = g
                 /\ u # None => p.by_day_session = SplitOf(g, DOMAIN p.by_day)
    BY <1>1, RecordedParts
  <1>10. /\ SessionDaysAt(g, steps + 1)
         /\ \A d \in DOMAIN g : d # today => d \in DOMAIN q.by_day_session /\ g[d] = q.by_day_session[d]
         /\ today \in DOMAIN g =>
              /\ Total(Costs(g[today])) <= Total(Costs(GetOr(q.by_day_session, today, Empty))) + 1
              /\ Total(Costs(GetOr(q.by_day_session, today, Empty))) \in Nat
              /\ Total(Costs(g[today])) \in Nat
    <2>1. CASE s = None
      <3>1. g = q.by_day_session
        BY <1>9, <2>1
      <3>2. SessionDaysAt(g, steps + 1)
        BY <1>1, <3>1, SessionDaysGrow
      <3>3. ASSUME today \in DOMAIN g
            PROVE  /\ g[today] = GetOr(q.by_day_session, today, Empty)
                   /\ Total(Costs(g[today])) \in Nat
        <4>1. SessionsAt(g[today], steps, QUOTA_MAX_DAY_SESSIONS)
          BY <1>1, <3>1, <3>3 DEF SessionDaysAt
        <4>2. \A k \in DOMAIN g[today] : g[today][k] \in Row(steps)
          BY <4>1, DictIs DEF SessionsAt, Capped
        <4>3. Summable(Costs(g[today]))
          BY <4>1, <4>2 DEF SessionsAt, Capped, Summable, Costs, Row
        <4>4. Total(Costs(g[today])) \in Nat
          BY <4>3, TotalIsNat
        <4> QED
          BY <3>1, <3>3, <4>4 DEF GetOr
      <3> QED
        BY <3>1, <3>2, <3>3
    <2>2. CASE s # None
      <3>1. s \in Session /\ g = DaySessions(q.by_day_session, s)
        BY <1>9, <2>2
      <3> QED
        <4>1. PICK f : f = q.by_day_session
          OBVIOUS
        <4>2. SessionDaysAt(f, steps) /\ g = DaySessions(f, s)
          BY <1>1, <3>1, <4>1
        <4>3. /\ SessionDaysAt(g, steps + 1)
              /\ DOMAIN g = DOMAIN f \cup {today}
              /\ \A d \in DOMAIN f : d # today => g[d] = f[d]
              /\ Total(Costs(g[today])) <= Total(Costs(GetOr(f, today, Empty))) + 1
              /\ Total(Costs(GetOr(f, today, Empty))) \in Nat
              /\ Total(Costs(g[today])) \in Nat
          BY <3>1, <4>2, DaySessionTouched
        <4> QED
          BY <4>1, <4>3
    <2> QED
      BY <2>1, <2>2
  <1>11. /\ DOMAIN p.by_day_session \subseteq DOMAIN g
         /\ \A d \in DOMAIN p.by_day_session : p.by_day_session[d] = g[d]
    <2>1. CASE u = None
      BY <1>9, <2>1
    <2>2. CASE u # None
      BY <1>9, <2>2 DEF Restrict, SplitOf
    <2> QED
      BY <2>1, <2>2
  <1>12. SessionDaysAt(p.by_day_session, steps + 1)
    BY <1>10, <1>11 DEF SessionDaysAt
  <1>13. \A d \in DOMAIN p.by_day \cap DOMAIN p.by_day_session :
           Total(Costs(p.by_day_session[d])) <= p.by_day[d]
    <2>1. ASSUME NEW d \in DOMAIN p.by_day, d \in DOMAIN p.by_day_session, d # today
          PROVE  Total(Costs(p.by_day_session[d])) <= p.by_day[d]
      <3>1. p.by_day_session[d] = q.by_day_session[d] /\ d \in DOMAIN q.by_day_session
        BY <1>10, <1>11, <2>1
      <3>2. d \in DOMAIN q.by_day /\ p.by_day[d] = q.by_day[d]
        BY <1>6, <2>1
      <3>3. Total(Costs(q.by_day_session[d])) <= q.by_day[d]
        BY <3>1, <3>2 DEF LedgerAt, SplitsAgree
      <3> QED
        BY <3>1, <3>2, <3>3
    <2>2. ASSUME today \in DOMAIN p.by_day_session
          PROVE  Total(Costs(p.by_day_session[today])) <= p.by_day[today]
      <3>1. today \in DOMAIN g /\ p.by_day_session[today] = g[today]
        BY <1>11, <2>2
      <3> QED
        BY <1>6, <1>7, <1>10, <3>1
    <2> QED
      BY <2>1, <2>2
  <1>14. SplitsAgree(p)
    BY <1>6, <1>8, <1>13 DEF SplitsAgree
  <1> QED
    BY <1>2, <1>3, <1>4, <1>5, <1>6, <1>8, <1>12, <1>14 DEF LedgerAt

\* A reset leaves nothing to add up but the days.
LEMMA ClearedAddsUp ==
    ASSUME NEW n \in Nat, NEW q, LedgerAt(q, n)
    PROVE  LedgerAt(Cleared(q), n) /\ LedgerAt(Reset(q), n)
  <1>1. PICK f : f = [a \in DOMAIN q.accounts |->
                        [q.accounts[a] EXCEPT !.cost = 0, !.members = Empty]]
    OBVIOUS
  <1>2. AccountsAt(f, n) /\ Total(Costs(f)) = 0
    <2>1. /\ q.accounts \in Dict(Account, AccountRow(n))
          /\ IsFiniteSet(DOMAIN q.accounts)
          /\ Cardinality(DOMAIN q.accounts) <= MAX_ACCOUNTS
          /\ \A a \in DOMAIN q.accounts : q.accounts[a] \in AccountRow(n)
      BY AccountRows DEF LedgerAt
    <2>2. Empty \in Charged(Member, n) /\ Total(Empty) = 0
      BY EmptyIsCapped DEF Capped, Charged
    <2>3. DOMAIN f = DOMAIN q.accounts
      BY <1>1
    <2>4. ASSUME NEW a \in DOMAIN f
          PROVE  f[a] \in AccountRow(n) /\ f[a].cost = 0 /\ f[a].members = Empty
      <3>1. q.accounts[a] \in AccountRow(n)
        BY <2>1, <2>3
      <3>2. f[a] = [q.accounts[a] EXCEPT !.cost = 0, !.members = Empty]
        BY <1>1, <2>3
      <3>3. PICK b : b = q.accounts[a]
        OBVIOUS
      <3>4. /\ b \in AccountRow(n)
            /\ f[a] = [b EXCEPT !.cost = 0, !.members = Empty]
        BY <3>1, <3>2, <3>3
      <3>5. 0 \in 0..n
        OBVIOUS
      <3> QED
        BY <2>2, <3>4, <3>5 DEF AccountRow
    <2>5. f \in [DOMAIN f -> AccountRow(n)]
      BY <1>1, <2>4
    <2>6. DOMAIN f \in SUBSET Account
      BY <2>1, <2>3, DictIs
    <2>7. f \in Dict(Account, AccountRow(n))
      BY <2>5, <2>6, DictOf
    <2>8. AccountsAt(f, n)
      BY <2>1, <2>2, <2>3, <2>4, <2>7 DEF AccountsAt, Capped
    <2>9. DOMAIN Costs(f) = DOMAIN f /\ \A a \in DOMAIN Costs(f) : Costs(f)[a] = 0
      BY <2>4 DEF Costs
    <2>10. Total(Costs(f)) = 0
      BY <2>1, <2>3, <2>9, TotalOfZeros
    <2> QED
      BY <2>8, <2>10
  <1>3. Cleared(q) = [q EXCEPT !.total = 0, !.by_session = Empty, !.accounts = f]
    BY <1>1 DEF Cleared
  <1>4. PICK c : c = Cleared(q)
    OBVIOUS
  <1>5. /\ DOMAIN c = DOMAIN q
        /\ c.total = 0
        /\ c.by_session = Empty
        /\ c.accounts = f
        /\ c.by_day = q.by_day
        /\ c.by_day_user = q.by_day_user
        /\ c.by_day_session = q.by_day_session
    BY <1>3, <1>4 DEF LedgerAt, EmptyLedger
  <1>6. SessionsAt(Empty, n, QUOTA_MAX_SESSIONS) /\ Total(Costs(Empty)) = 0
    BY EmptyIsCapped, ConstantsAssumption DEF SessionsAt
  <1>7. LedgerAt(c, n)
    BY <1>2, <1>5, <1>6 DEF LedgerAt, SplitsAgree, Leftovers
  <1>8. ASSUME NEW r, LedgerAt(r, n)
        PROVE  LedgerAt([r EXCEPT !.period_month = Month], n)
    <2>1. PICK t : t = [r EXCEPT !.period_month = Month]
      OBVIOUS
    <2>2. /\ DOMAIN t = DOMAIN r
          /\ t.total = r.total
          /\ t.by_session = r.by_session
          /\ t.accounts = r.accounts
          /\ t.by_day = r.by_day
          /\ t.by_day_user = r.by_day_user
          /\ t.by_day_session = r.by_day_session
      BY <1>8, <2>1 DEF LedgerAt, EmptyLedger
    <2>3. LedgerAt(t, n)
      BY <1>8, <2>2 DEF LedgerAt, SplitsAgree, Leftovers
    <2> QED
      BY <2>1, <2>3
  <1> QED
    BY <1>4, <1>7, <1>8 DEF Reset

-----------------------------------------------------------------------------
(* The invariant of the caps and the breakdowns.                           *)

LEMMA LedgerGrows ==
    ASSUME NEW n \in Nat, NEW q, LedgerAt(q, n)
    PROVE  LedgerAt(q, n + 1)
  <1>1. Capped(q.by_day, Days, 0..(n + 1), QUOTA_MAX_DAYS)
    <2>1. 0..n \subseteq 0..(n + 1)
      OBVIOUS
    <2> QED
      BY <2>1, DictGrows DEF LedgerAt, Capped
  <1>2. SessionsAt(q.by_session, n + 1, QUOTA_MAX_SESSIONS)
    BY SessionsGrow DEF LedgerAt
  <1>3. AccountsAt(q.accounts, n + 1)
    BY AccountsGrow DEF LedgerAt
  <1>4. UserDaysAt(q.by_day_user, n + 1) /\ SessionDaysAt(q.by_day_session, n + 1)
    BY UserDaysGrow, SessionDaysGrow DEF LedgerAt
  <1> QED
    BY <1>1, <1>2, <1>3, <1>4 DEF LedgerAt

LEMMA EmptyAddsUp == ASSUME NEW n \in Nat PROVE LedgerAt(EmptyLedger, n)
  <1>1. PICK q : q = EmptyLedger
    OBVIOUS
  <1>2. /\ DOMAIN q = DOMAIN EmptyLedger
        /\ q.total = 0
        /\ q.by_session = Empty
        /\ q.accounts = Empty
        /\ q.by_day = Empty
        /\ q.by_day_user = Empty
        /\ q.by_day_session = Empty
    BY <1>1 DEF EmptyLedger
  <1>3. DOMAIN Empty = {}
    BY DEF Empty
  <1>4. /\ SessionsAt(Empty, n, QUOTA_MAX_SESSIONS)
        /\ Capped(Empty, Days, 0..n, QUOTA_MAX_DAYS)
        /\ Capped(Empty, Account, AccountRow(n), MAX_ACCOUNTS)
        /\ Total(Costs(Empty)) = 0
    BY EmptyIsCapped, ConstantsAssumption DEF SessionsAt
  <1>5. AccountsAt(Empty, n)
    BY <1>3, <1>4 DEF AccountsAt
  <1>6. UserDaysAt(Empty, n) /\ SessionDaysAt(Empty, n)
    BY <1>3 DEF UserDaysAt, SessionDaysAt
  <1>7. SplitsAgree(q)
    BY <1>2, <1>3 DEF SplitsAgree, Leftovers
  <1>8. LedgerAt(q, n)
    BY <1>2, <1>4, <1>5, <1>6, <1>7 DEF LedgerAt
  <1> QED
    BY <1>1, <1>8

Clock ==
    /\ steps \in 0..MaxSteps
    /\ today \in Days
    /\ crashes \in Nat
    /\ tracking \in BOOLEAN
    /\ due \in BOOLEAN

LedgersAddUp == LedgerAt(stats, steps) /\ (disk # NoFile => LedgerAt(disk, steps))

LedgerInv == DayInv /\ Clock /\ LedgersAddUp

LEMMA InitLedger == Init => LedgerInv
  <1> SUFFICES ASSUME Init PROVE LedgerInv
    OBVIOUS
  <1>1. Clock
    BY ConstantsAssumption DEF Init, Clock, Days
  <1>2. LedgersAddUp
    BY EmptyAddsUp DEF Init, LedgersAddUp
  <1> QED
    BY <1>1, <1>2, InitDays DEF LedgerInv

LEMMA NextClock ==
    ASSUME LedgerInv, [Next]_vars
    PROVE  Clock' /\ (steps' = steps \/ steps' = steps + 1)
  <1> USE DEF LedgerInv, Clock
  <1>1. ASSUME NEW s \in Session \cup {None}, NEW u \in User \cup {None},
               NEW a \in Account \cup {None}, NEW ok \in BOOLEAN,
               Record(s, u, a, 1, ok)
        PROVE  Clock' /\ (steps' = steps \/ steps' = steps + 1)
    BY <1>1, ConstantsAssumption DEF Record
  <1>2. ASSUME NEW a \in Account, Headers(a)
        PROVE  Clock' /\ (steps' = steps \/ steps' = steps + 1)
    BY <1>2, ConstantsAssumption DEF Headers
  <1>3. ASSUME NEW ok \in BOOLEAN, Shutdown(ok)
        PROVE  Clock' /\ (steps' = steps \/ steps' = steps + 1)
    BY <1>3 DEF Shutdown
  <1>4. CASE Exit
    BY <1>4 DEF Exit, Gone
  <1>5. CASE Crash
    BY <1>5 DEF Crash, Gone
  <1>6. CASE Switch
    BY <1>6 DEF Switch
  <1>7. ASSUME NEW reads \in BOOLEAN, NEW ok \in BOOLEAN, Start(reads, ok)
        PROVE  Clock' /\ (steps' = steps \/ steps' = steps + 1)
    BY <1>7 DEF Start, DueAfterReset
  <1>8. CASE IntervalPasses
    BY <1>8 DEF IntervalPasses
  <1>9. CASE Midnight
    BY <1>9, ConstantsAssumption DEF Midnight, Days
  <1>10. CASE UNCHANGED vars
    BY <1>10 DEF vars
  <1> QED
    BY <1>1, <1>2, <1>3, <1>4, <1>5, <1>6, <1>7, <1>8, <1>9, <1>10 DEF Next

LEMMA RecordLedger ==
    ASSUME LedgerInv, NEW s \in Session \cup {None}, NEW u \in User \cup {None},
           NEW a \in Account \cup {None}, NEW ok \in BOOLEAN, Record(s, u, a, 1, ok)
    PROVE  LedgersAddUp'
  <1>1. /\ stats' = Recorded(Reset(stats), s, u, a, 1)
        /\ \/ disk' = stats'
           \/ disk' = Cleared(stats)
           \/ disk' = disk
        /\ steps' = steps + 1
    BY DEF Record, ResetFile
  <1>2. Scalars /\ steps \in Nat /\ today \in Days /\ LedgerAt(stats, steps) /\ RightDays(stats)
    BY DEF LedgerInv, Clock, LedgersAddUp, DayInv, DaysRight, TotalInv
  <1>3. LedgerAt(Reset(stats), steps) /\ LedgerAt(Cleared(stats), steps)
    BY <1>2, ClearedAddsUp
  <1>4. RightDays(Reset(stats))
    BY <1>2, OthersKeepDays, SameIsRight DEF RightDays
  <1>5. LedgerAt(stats', steps + 1)
    BY <1>1, <1>2, <1>3, <1>4, RecordedAddsUp
  <1>6. LedgerAt(Cleared(stats), steps + 1)
    BY <1>2, <1>3, LedgerGrows
  <1>7. disk # NoFile => LedgerAt(disk, steps + 1)
    BY <1>2, LedgerGrows DEF LedgerInv, LedgersAddUp
  <1>8. disk' # NoFile => LedgerAt(disk', steps + 1)
    BY <1>1, <1>5, <1>6, <1>7
  <1> QED
    BY <1>1, <1>5, <1>8 DEF LedgersAddUp

LEMMA HeadersLedger ==
    ASSUME LedgerInv, NEW a \in Account, Headers(a)
    PROVE  LedgersAddUp'
  <1>1. /\ stats' = [stats EXCEPT !.accounts = _bucket(@, a)]
        /\ steps' = steps + 1
        /\ disk' = disk
    BY DEF Headers
  <1>2. steps \in Nat /\ LedgerAt(stats, steps)
    BY DEF LedgerInv, Clock, LedgersAddUp
  <1>3. PICK f : f = _bucket(stats.accounts, a)
    OBVIOUS
  <1>4. PICK q : q = stats
    OBVIOUS
  <1>5. PICK p : p = [q EXCEPT !.accounts = f]
    OBVIOUS
  <1>6. stats' = p
    BY <1>1, <1>3, <1>4, <1>5
  <1>7. LedgerAt(q, steps)
    BY <1>2, <1>4
  <1>8. /\ DOMAIN p = DOMAIN q
        /\ p.total = q.total
        /\ p.by_session = q.by_session
        /\ p.accounts = f
        /\ p.by_day = q.by_day
        /\ p.by_day_user = q.by_day_user
        /\ p.by_day_session = q.by_day_session
    BY <1>5, <1>7 DEF LedgerAt, EmptyLedger
  <1>9. /\ AccountsAt(f, steps)
        /\ Total(Costs(f)) <= Total(Costs(q.accounts))
        /\ Total(Costs(f)) \in Nat
        /\ Total(Costs(q.accounts)) \in Nat
    BY <1>2, <1>3, <1>4, BucketMade DEF LedgerAt
  <1>10. Total(Costs(f)) <= q.total
    BY <1>7, <1>9 DEF LedgerAt
  <1>11. LedgerAt(p, steps)
    BY <1>7, <1>8, <1>9, <1>10 DEF LedgerAt, SplitsAgree, Leftovers
  <1>12. LedgerAt(p, steps + 1)
    BY <1>2, <1>11, LedgerGrows
  <1>13. disk # NoFile => LedgerAt(disk, steps + 1)
    BY <1>2, LedgerGrows DEF LedgerInv, LedgersAddUp
  <1> QED
    BY <1>1, <1>6, <1>12, <1>13 DEF LedgersAddUp

\* Every other step leaves each ledger alone or replaces it by one of these.
LEMMA OthersLedger ==
    ASSUME LedgerInv, steps' = steps,
           stats' \in {stats, EmptyLedger} \/ (disk # NoFile /\ stats' = Reset(disk)),
           disk' \in {disk, stats} \/ (disk # NoFile /\ disk' = Cleared(disk))
    PROVE  LedgersAddUp'
  <1>1. steps \in Nat /\ LedgerAt(stats, steps) /\ (disk # NoFile => LedgerAt(disk, steps))
    BY DEF LedgerInv, Clock, LedgersAddUp
  <1>2. disk # NoFile => LedgerAt(Reset(disk), steps) /\ LedgerAt(Cleared(disk), steps)
    BY <1>1, ClearedAddsUp
  <1>3. LedgerAt(EmptyLedger, steps)
    BY <1>1, EmptyAddsUp
  <1>4. LedgerAt(stats', steps)
    BY <1>1, <1>2, <1>3
  <1>5. disk' # NoFile => LedgerAt(disk', steps)
    BY <1>1, <1>2
  <1> QED
    BY <1>4, <1>5 DEF LedgersAddUp

LEMMA NextLedger == LedgerInv /\ [Next]_vars => LedgerInv'
  <1> SUFFICES ASSUME LedgerInv, [Next]_vars PROVE LedgersAddUp'
    BY NextDays, NextClock DEF LedgerInv
  <1>1. ASSUME NEW s \in Session \cup {None}, NEW u \in User \cup {None},
               NEW a \in Account \cup {None}, NEW ok \in BOOLEAN,
               Record(s, u, a, 1, ok)
        PROVE  LedgersAddUp'
    BY <1>1, RecordLedger
  <1>2. ASSUME NEW a \in Account, Headers(a)
        PROVE  LedgersAddUp'
    BY <1>2, HeadersLedger
  <1>3. ASSUME NEW ok \in BOOLEAN, Shutdown(ok)
        PROVE  LedgersAddUp'
    BY <1>3, OthersLedger DEF Shutdown
  <1>4. CASE Exit
    BY <1>4, OthersLedger DEF Exit, Gone
  <1>5. CASE Crash
    BY <1>5, OthersLedger DEF Crash, Gone
  <1>6. CASE Switch
    BY <1>6, OthersLedger DEF Switch
  <1>7. ASSUME NEW reads \in BOOLEAN, NEW ok \in BOOLEAN, Start(reads, ok)
        PROVE  LedgersAddUp'
    BY <1>7, OthersLedger DEF Start, Loaded, ResetFile
  <1>8. CASE IntervalPasses
    BY <1>8, OthersLedger DEF IntervalPasses
  <1>9. CASE Midnight
    BY <1>9, OthersLedger DEF Midnight
  <1>10. CASE UNCHANGED vars
    BY <1>10, OthersLedger DEF vars
  <1> QED
    BY <1>1, <1>2, <1>3, <1>4, <1>5, <1>6, <1>7, <1>8, <1>9, <1>10 DEF Next

LEMMA LedgerInvHolds == Spec => []LedgerInv
  BY InitLedger, NextLedger, PTL DEF Spec

\* No breakdown claims more than what it breaks down, and the members of an
\* account add up to its cost, in memory and in the file: whichever sessions,
\* days and accounts are evicted, reset, lost in a crash or read back.
THEOREM BreakdownsHold == Spec => []BreakdownsAddUp
  <1>1. ASSUME NEW n \in Nat, NEW q, LedgerAt(q, n)
        PROVE  AddsUp(q)
    <2>1. Total(Empty) = 0 /\ Total(Costs(Empty)) = 0
      BY EmptyIsCapped
    <2>2. \A d \in DOMAIN q.by_day : q.by_day[d] \in 0..n
      BY <1>1, DictIs DEF LedgerAt, Capped
    <2>3. ASSUME NEW d \in DOMAIN q.by_day
          PROVE  Total(GetOr(q.by_day_user, d, Empty)) <= q.by_day[d]
      <3>1. CASE d \in DOMAIN q.by_day_user
        BY <1>1, <3>1 DEF LedgerAt, SplitsAgree, GetOr
      <3>2. CASE d \notin DOMAIN q.by_day_user
        BY <2>1, <2>2, <3>2 DEF GetOr
      <3> QED
        BY <3>1, <3>2
    <2>4. ASSUME NEW d \in DOMAIN q.by_day
          PROVE  Total(Costs(GetOr(q.by_day_session, d, Empty))) <= q.by_day[d]
      <3>1. CASE d \in DOMAIN q.by_day_session
        BY <1>1, <3>1 DEF LedgerAt, SplitsAgree, GetOr
      <3>2. CASE d \notin DOMAIN q.by_day_session
        BY <2>1, <2>2, <3>2 DEF GetOr
      <3> QED
        BY <3>1, <3>2
    <2> QED
      BY <1>1, <2>3, <2>4 DEF LedgerAt, AccountsAt, AddsUp
  <1>2. LedgerInv => BreakdownsAddUp
    BY <1>1 DEF LedgerInv, Clock, LedgersAddUp, BreakdownsAddUp
  <1> QED
    BY <1>2, LedgerInvHolds, PTL

\* The ledger and its file keep their shape and every cap: on sessions, days,
\* the sessions of a day, and accounts.
THEOREM LedgerTyped == Spec => []TypeOK
  <1>1. ASSUME NEW n \in 0..MaxSteps, NEW q, LedgerAt(q, n), RightTotal(q)
        PROVE  LedgerOK(q)
    <2>1. n \in Nat /\ 0..n \subseteq 0..MaxSteps
      BY ConstantsAssumption
    <2>2. Row(n) \subseteq Bucket
      BY <2>1 DEF Row, Bucket
    <2>3. ASSUME NEW f, NEW max, SessionsAt(f, n, max)
          PROVE  f \in Dict(Session, Bucket) /\ Cardinality(DOMAIN f) <= max
      BY <2>2, <2>3, DictGrows DEF SessionsAt, Capped
    <2>4. ASSUME NEW K, NEW f \in Charged(K, n)
          PROVE  f \in Dict(K, 0..MaxSteps)
      BY <2>1, DictGrows DEF Charged
    <2>5. /\ q.by_session \in Dict(Session, Bucket)
          /\ Cardinality(DOMAIN q.by_session) <= QUOTA_MAX_SESSIONS
      BY <1>1, <2>3 DEF LedgerAt
    <2>6. /\ q.by_day \in Dict(Days, 0..MaxSteps)
          /\ Cardinality(DOMAIN q.by_day) <= QUOTA_MAX_DAYS
      BY <1>1, <2>1, DictGrows DEF LedgerAt, Capped
    <2>7. /\ DOMAIN q.by_day_user \subseteq Days
          /\ \A d \in DOMAIN q.by_day_user : q.by_day_user[d] \in Dict(User, 0..MaxSteps)
      BY <1>1, <2>4 DEF LedgerAt, UserDaysAt
    <2>8. /\ DOMAIN q.by_day_session \subseteq Days
          /\ \A d \in DOMAIN q.by_day_session :
               /\ q.by_day_session[d] \in Dict(Session, Bucket)
               /\ Cardinality(DOMAIN q.by_day_session[d]) <= QUOTA_MAX_DAY_SESSIONS
      BY <1>1, <2>3 DEF LedgerAt, SessionDaysAt
    <2>9. /\ q.accounts \in Dict(Account, AccountRow(n))
          /\ Cardinality(DOMAIN q.accounts) <= MAX_ACCOUNTS
          /\ \A a \in DOMAIN q.accounts : q.accounts[a] \in AccountRow(n)
      BY <1>1, <2>1, AccountRows DEF LedgerAt
    <2>10. DOMAIN q.accounts \subseteq Account
      BY <2>9, DictIs
    <2>11. \A a \in DOMAIN q.accounts : q.accounts[a].members \in Charged(Member, n)
      BY <2>9 DEF AccountRow
    <2>12. \A a \in DOMAIN q.accounts : q.accounts[a].members \in Dict(Member, 0..MaxSteps)
      BY <2>4, <2>11
    <2>13. q.total \in Nat /\ q.period_month \in Int
      BY <1>1 DEF RightTotal
    <2> QED
      BY <2>5, <2>6, <2>7, <2>8, <2>9, <2>10, <2>12, <2>13 DEF LedgerOK
  <1>2. LedgerInv => TypeOK
    <2> SUFFICES ASSUME LedgerInv PROVE TypeOK
      OBVIOUS
    <2>1. LedgerOK(stats) /\ (disk # NoFile => LedgerOK(disk))
      BY <1>1 DEF LedgerInv, Clock, LedgersAddUp, DayInv, TotalInv, MemoryRight, FileRight
    <2>2. phase \in {"up", "closing", "down"}
      BY DEF LedgerInv, DayInv, TotalInv, Scalars
    <2>3. {tracking, due, lossy, saved, loaded} \subseteq BOOLEAN
      BY DEF LedgerInv, Clock, DayInv, TotalInv, Scalars
    <2>4. {today, steps, crashes, thisMonth} \subseteq Nat
      BY DEF LedgerInv, Clock, DayInv, TotalInv, Scalars
    <2> QED
      BY <2>1, <2>2, <2>3, <2>4 DEF TypeOK
  <1> QED
    BY <1>2, LedgerInvHolds, PTL
=============================================================================
