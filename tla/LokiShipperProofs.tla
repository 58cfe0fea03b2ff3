------------------------- MODULE LokiShipperProofs -------------------------
(***************************************************************************)
(* LokiShipper for every batch size, every buffer that can hold a batch,   *)
(* and any number of entries.                                              *)
(***************************************************************************)
EXTENDS LokiShipper, FiniteSetTheorems, TLAPS

\* entries before h that are not in D
Missing(h, D) == {e \in 1..MaxEntries : e < h} \ D

\* A push in flight holds entries that were at the front when it started;
\* the front has only moved on since, and the end was behind them.
FlightBehind ==
    posting => /\ from # 0
               /\ from <= head
               /\ from + size <= tail

\* While a push is in flight, what the front has lost since counts as dropped
\* on top of what was lost before: if the push succeeds, the entries deleted
\* in the place of those dropped are no more than these.
LossBound ==
    IF posting
    THEN Cardinality(Missing(from, delivered)) + (head - from) <= dropped
    ELSE Cardinality(Missing(head, delivered)) <= dropped

LossInv == FlightBehind /\ LossBound

\* Nothing is with Loki that was not enqueued.
DeliveredPast == \A d \in delivered : d < tail

OrderInv == DeliveredPast /\ DeliveredInOrder

-----------------------------------------------------------------------------
LEMMA TypeInit == Init => TypeOK
<1> SUFFICES ASSUME Init PROVE TypeOK
  OBVIOUS
<1>1. MaxEntries \in Nat /\ LOKI_MAX_BUFFER \in Nat
  BY ConstantsAssumption
<1>2. tail \in 1..MaxEntries + 1 /\ tail <= head + LOKI_MAX_BUFFER
  BY <1>1 DEF Init
<1>3. delivered \subseteq 1..MaxEntries
  BY DEF Init
<1>4. /\ head \in Nat \ {0} /\ head <= tail
      /\ dropped \in Nat /\ from \in Nat /\ size \in Nat /\ flushes \in Nat
  BY DEF Init
<1>5. posting \in BOOLEAN /\ phase \in {"running", "stopping", "stopped"}
  BY DEF Init
<1> QED BY <1>2, <1>3, <1>4, <1>5 DEF TypeOK

LEMMA TypeStep == TypeOK /\ [Next]_vars => TypeOK'
<1> SUFFICES ASSUME TypeOK, [Next]_vars PROVE TypeOK'
  OBVIOUS
<1> USE ConstantsAssumption DEF TypeOK, flightVars, Batch, Entries
<1>1. CASE Enqueue
  BY <1>1 DEF Enqueue, FullAt
<1>2. CASE StartFlush
  <2>1. BatchSize \in Nat
    BY DEF BatchSize, Least
  <2>2. flushes' \in Nat
    BY <1>2 DEF StartFlush, MayFlush
  <2> QED BY <1>2, <2>1, <2>2 DEF StartFlush, BatchStart
<1>3. CASE PushAccepted
  <2>1. /\ AfterDelete \in Nat
        /\ head <= AfterDelete
        /\ AfterDelete <= tail
    BY DEF AfterDelete, Least
  <2>2. delivered \cup Batch \subseteq 1..MaxEntries
    OBVIOUS
  <2> HIDE DEF Batch, Entries
  <2>3. /\ head' \in Nat \ {0}
        /\ head' <= tail'
        /\ tail' \in 1..MaxEntries + 1
        /\ tail' <= head' + LOKI_MAX_BUFFER
    BY <1>3, <2>1 DEF PushAccepted
  <2> QED BY <1>3, <2>2, <2>3 DEF PushAccepted
<1>4. ASSUME NEW arrived \in BOOLEAN, PushFails(arrived) PROVE TypeOK'
  BY <1>4 DEF PushFails, GivesUp
<1>5. ASSUME NEW arrived \in BOOLEAN, Shutdown(arrived) PROVE TypeOK'
  BY <1>5 DEF Shutdown
<1>6. CASE ShutdownDone
  BY <1>6 DEF ShutdownDone
<1>7. CASE UNCHANGED vars
  BY <1>7 DEF vars
<1> QED BY <1>1, <1>2, <1>3, <1>4, <1>5, <1>6, <1>7 DEF Next

\* The variables keep their types, the buffer stays within its cap, and the
\* front never overtakes the end.
THEOREM TypeCorrect == Spec => []TypeOK
  BY TypeInit, TypeStep, PTL DEF Spec

-----------------------------------------------------------------------------
(* Counting.                                                               *)

\* If all that is missing now was missing before or lies in an interval of
\* k entries, then at most k more are missing.
LEMMA Cover ==
    ASSUME NEW h1, NEW D1, NEW h2, NEW D2, NEW a \in Nat, NEW k \in Nat,
           Missing(h2, D2) \subseteq Missing(h1, D1) \cup (a .. (a + k - 1))
    PROVE  /\ Cardinality(Missing(h1, D1)) \in Nat
           /\ Cardinality(Missing(h2, D2)) \in Nat
           /\ Cardinality(Missing(h2, D2)) <= Cardinality(Missing(h1, D1)) + k
<1> DEFINE M1 == Missing(h1, D1)
           M2 == Missing(h2, D2)
           I == a .. (a + k - 1)
<1>1. IsFiniteSet(1..MaxEntries)
  BY FS_Interval, ConstantsAssumption
<1>2. M1 \subseteq 1..MaxEntries /\ M2 \subseteq 1..MaxEntries
  BY DEF Missing
<1>3. IsFiniteSet(M1) /\ IsFiniteSet(M2)
  BY <1>1, <1>2, FS_Subset
<1>4. IsFiniteSet(I) /\ Cardinality(I) = k
  <2>1. a \in Int /\ a + k - 1 \in Int
    OBVIOUS
  <2>2. IsFiniteSet(I) /\ Cardinality(I) = IF a > a + k - 1 THEN 0 ELSE (a + k - 1) - a + 1
    BY <2>1, FS_Interval
  <2> QED BY <2>2
<1>5. /\ IsFiniteSet(M1 \cup I)
      /\ Cardinality(M1 \cup I) = Cardinality(M1) + Cardinality(I) - Cardinality(M1 \cap I)
  BY <1>3, <1>4, FS_Union
<1>6. IsFiniteSet(M1 \cap I)
  BY <1>3, FS_Subset
<1>7. /\ Cardinality(M1) \in Nat
      /\ Cardinality(M2) \in Nat
      /\ Cardinality(M1 \cap I) \in Nat
  BY <1>3, <1>6, FS_CardinalityType
<1>8. Cardinality(M2) <= Cardinality(M1 \cup I)
  BY <1>5, FS_Subset
<1> HIDE DEF M1, M2, I
<1>9. Cardinality(M2) <= Cardinality(M1) + k
  BY <1>4, <1>5, <1>7, <1>8
<1> QED BY <1>7, <1>9 DEF M1, M2

LEMMA LossInit == Init => LossInv
<1> SUFFICES ASSUME Init PROVE LossInv
  OBVIOUS
<1>1. Missing(head, delivered) = {}
  BY DEF Init, Missing
<1>2. Cardinality(Missing(head, delivered)) = 0
  BY <1>1, FS_EmptySet
<1> QED BY <1>2 DEF Init, LossInv, LossBound, FlightBehind

\* A push ends without a deletion: what the front lost meanwhile is lost.
LEMMA PushOver ==
    ASSUME TypeOK, LossInv, posting, NEW D, delivered \subseteq D
    PROVE  Cardinality(Missing(head, D)) <= dropped
<1>1. /\ from \in Nat /\ head \in Nat /\ dropped \in Nat
      /\ from <= head
      /\ Cardinality(Missing(from, delivered)) + (head - from) <= dropped
  BY DEF TypeOK, LossInv, FlightBehind, LossBound
<1>2. Missing(head, D) \subseteq
        Missing(from, delivered) \cup (from .. (from + (head - from) - 1))
  BY <1>1 DEF Missing
<1>3. head - from \in Nat
  BY <1>1
<1>4. /\ Cardinality(Missing(from, delivered)) \in Nat
      /\ Cardinality(Missing(head, D)) \in Nat
      /\ Cardinality(Missing(head, D))
           <= Cardinality(Missing(from, delivered)) + (head - from)
  BY <1>1, <1>2, <1>3, Cover
<1> QED BY <1>1, <1>3, <1>4

LEMMA LossStep == TypeOK /\ LossInv /\ [Next]_vars => LossInv'
<1> SUFFICES ASSUME TypeOK, LossInv, [Next]_vars PROVE LossInv'
  OBVIOUS
<1>0. /\ head \in Nat /\ tail \in Nat /\ head <= tail /\ dropped \in Nat
      /\ from \in Nat /\ size \in Nat /\ head # 0
      /\ posting \in BOOLEAN
      /\ LOKI_BATCH_SIZE \in Nat
  BY ConstantsAssumption DEF TypeOK
<1>1. CASE Enqueue
  <2>1. /\ posting' = posting /\ from' = from /\ size' = size
        /\ delivered' = delivered /\ tail' = tail + 1
        /\ \/ head' = head + 1 /\ dropped' = dropped + 1
           \/ head' = head /\ dropped' = dropped
    BY <1>1 DEF Enqueue, flightVars
  <2>2. FlightBehind'
    BY <1>0, <2>1 DEF FlightBehind, LossInv
  <2>3. CASE posting
    <3>1. Cardinality(Missing(from, delivered)) + (head - from) <= dropped
      BY <2>3 DEF LossInv, LossBound
    <3>2. Cardinality(Missing(from, delivered)) \in Nat
      <4>1. Missing(from, delivered)
              \subseteq Missing(from, delivered) \cup (0 .. (0 + 0 - 1))
        OBVIOUS
      <4> QED BY <4>1, Cover
    <3>3. Cardinality(Missing(from', delivered')) + (head' - from') <= dropped'
      BY <1>0, <2>1, <3>1, <3>2
    <3> QED BY <2>1, <2>2, <2>3, <3>3 DEF LossInv, LossBound
  <2>4. CASE ~posting
    <3>1. Cardinality(Missing(head, delivered)) <= dropped
      BY <2>4 DEF LossInv, LossBound
    <3>2. Missing(head + 1, delivered)
            \subseteq Missing(head, delivered) \cup (head .. (head + 1 - 1))
      BY <1>0 DEF Missing
    <3>3. /\ Cardinality(Missing(head, delivered)) \in Nat
          /\ Cardinality(Missing(head + 1, delivered)) \in Nat
          /\ Cardinality(Missing(head + 1, delivered))
               <= Cardinality(Missing(head, delivered)) + 1
      BY <1>0, <3>2, Cover
    <3>4. Cardinality(Missing(head', delivered')) <= dropped'
      BY <1>0, <2>1, <3>1, <3>3
    <3> QED BY <2>1, <2>2, <2>4, <3>4 DEF LossInv, LossBound
  <2> QED BY <1>0, <2>3, <2>4
<1>2. CASE StartFlush
  <2>1. /\ ~posting /\ posting' = TRUE /\ from' = head /\ size' = BatchSize
        /\ delivered' = delivered /\ tail' = tail /\ head' = head
        /\ dropped' = dropped
    BY <1>2 DEF StartFlush, BatchStart
  <2>2. BatchSize \in Nat /\ head + BatchSize <= tail
    BY <1>0 DEF BatchSize, Least
  <2>3. FlightBehind'
    BY <1>0, <2>1, <2>2 DEF FlightBehind
  <2>4. Cardinality(Missing(head, delivered)) <= dropped
    BY <2>1 DEF LossInv, LossBound
  <2>5. Cardinality(Missing(head, delivered)) \in Nat
    <3>1. Missing(head, delivered)
            \subseteq Missing(head, delivered) \cup (0 .. (0 + 0 - 1))
      OBVIOUS
    <3> QED BY <3>1, Cover
  <2>6. Cardinality(Missing(from', delivered')) + (head' - from') <= dropped'
    BY <1>0, <2>1, <2>4, <2>5
  <2> QED BY <2>1, <2>3, <2>6 DEF LossInv, LossBound
<1>3. CASE PushAccepted
  <2>1. /\ posting /\ posting' = FALSE
        /\ delivered' = delivered \cup Batch
        /\ head' = AfterDelete /\ dropped' = dropped
    BY <1>3 DEF PushAccepted
  <2>2. /\ from <= head
        /\ from + size <= tail
        /\ Cardinality(Missing(from, delivered)) + (head - from) <= dropped
    BY <2>1 DEF LossInv, LossBound, FlightBehind
  <2>3. AfterDelete <= head + size /\ AfterDelete \in Nat
    BY <1>0 DEF AfterDelete, Least
  <2>4. Missing(AfterDelete, delivered \cup Batch) \subseteq
          Missing(from, delivered)
            \cup ((from + size) .. ((from + size) + (head - from) - 1))
    BY <1>0, <2>2, <2>3 DEF Missing, Batch, Entries
  <2>5. head - from \in Nat /\ from + size \in Nat
    BY <1>0, <2>2
  <2>6. /\ Cardinality(Missing(from, delivered)) \in Nat
        /\ Cardinality(Missing(AfterDelete, delivered \cup Batch)) \in Nat
        /\ Cardinality(Missing(AfterDelete, delivered \cup Batch))
             <= Cardinality(Missing(from, delivered)) + (head - from)
    BY <2>4, <2>5, Cover
  <2>7. Cardinality(Missing(AfterDelete, delivered \cup Batch)) <= dropped
    BY <1>0, <2>2, <2>5, <2>6
  <2>8. Cardinality(Missing(head', delivered')) <= dropped'
    BY <2>1, <2>7
  <2> QED BY <2>1, <2>8 DEF LossInv, LossBound, FlightBehind
<1>4. ASSUME NEW arrived \in BOOLEAN, PushFails(arrived) PROVE LossInv'
  <2>1. /\ posting /\ posting' = FALSE /\ head' = head /\ dropped' = dropped
        /\ delivered \subseteq delivered'
    BY <1>4 DEF PushFails
  <2>2. Cardinality(Missing(head, delivered')) <= dropped
    BY <2>1, PushOver
  <2>3. Cardinality(Missing(head', delivered')) <= dropped'
    BY <2>1, <2>2
  <2> QED BY <2>1, <2>3 DEF LossInv, LossBound, FlightBehind
<1>5. ASSUME NEW arrived \in BOOLEAN, Shutdown(arrived) PROVE LossInv'
  <2>1. /\ posting' = FALSE /\ head' = head /\ dropped' = dropped
        /\ delivered \subseteq delivered'
        /\ ~posting => delivered' = delivered
    BY <1>5 DEF Shutdown
  <2>2. CASE posting
    <3>1. Cardinality(Missing(head, delivered')) <= dropped
      BY <2>1, <2>2, PushOver
    <3>2. Cardinality(Missing(head', delivered')) <= dropped'
      BY <2>1, <3>1
    <3> QED BY <2>1, <3>2 DEF LossInv, LossBound, FlightBehind
  <2>3. CASE ~posting
    <3>1. Cardinality(Missing(head', delivered')) <= dropped'
      BY <2>1, <2>3 DEF LossInv, LossBound
    <3> QED BY <2>1, <3>1 DEF LossInv, LossBound, FlightBehind
  <2> QED BY <1>0, <2>2, <2>3
<1>6. CASE ShutdownDone
  BY <1>6 DEF ShutdownDone, flightVars, LossInv, LossBound, FlightBehind
<1>7. CASE UNCHANGED vars
  BY <1>7 DEF vars, LossInv, LossBound, FlightBehind
<1> QED BY <1>1, <1>2, <1>3, <1>4, <1>5, <1>6, <1>7 DEF Next

LEMMA LossBoundCounts == TypeOK /\ LossInv => LossesCounted
<1> SUFFICES ASSUME TypeOK, LossInv PROVE LossesCounted
  OBVIOUS
<1>1. Lost = Missing(head, delivered)
  BY ConstantsAssumption DEF TypeOK, Lost, Missing, Entries
<1>2. Cardinality(Missing(head, delivered)) <= dropped
  <2>1. CASE posting
    BY <2>1, PushOver
  <2>2. CASE ~posting
    BY <2>2 DEF LossInv, LossBound
  <2> QED BY <2>1, <2>2 DEF TypeOK
<1> QED BY <1>1, <1>2 DEF LossesCounted

\* No entry is lost without being counted, however drops, pushes in flight,
\* failures and the shutdown overlap.
THEOREM LossesAreCounted == Spec => []LossesCounted
<1>1. Init => TypeOK /\ LossInv
  BY TypeInit, LossInit
<1>2. TypeOK /\ LossInv /\ [Next]_vars => (TypeOK /\ LossInv)'
  BY TypeStep, LossStep
<1> QED BY <1>1, <1>2, LossBoundCounts, PTL DEF Spec

-----------------------------------------------------------------------------
(* Order.                                                                  *)

LEMMA OrderInit == Init => OrderInv
  BY DEF Init, OrderInv, DeliveredPast, DeliveredInOrder

\* Loki gets the batch in flight, and everything from the front on that was
\* not in it waits: the batch is before all that.
LEMMA BatchGoesFirst ==
    ASSUME TypeOK, FlightBehind, OrderInv, posting,
           NEW front \in Nat, head <= front,
           NEW e \in Entries, front <= e, e \notin delivered, e \notin Batch,
           NEW d \in delivered \cup Batch
    PROVE  d < e
<1>1. /\ head \in Nat /\ from \in Nat /\ size \in Nat /\ tail \in Nat
      /\ from <= head /\ MaxEntries \in Nat
  BY ConstantsAssumption DEF TypeOK, FlightBehind
<1>2. e \in Nat /\ head <= e
  BY <1>1 DEF Entries
<1>3. CASE d \in delivered
  BY <1>2, <1>3 DEF OrderInv, DeliveredInOrder, Buffer
<1>4. CASE d \in Batch
  <2>1. d \in Nat /\ d < from + size
    BY <1>1, <1>4 DEF Batch, Entries
  <2>2. from + size <= e
    BY <1>1, <1>2 DEF Batch
  <2> QED BY <1>1, <1>2, <2>1, <2>2
<1> QED BY <1>3, <1>4

LEMMA OrderStep ==
    TypeOK /\ FlightBehind /\ OrderInv /\ [Next]_vars => OrderInv'
<1> SUFFICES ASSUME TypeOK, FlightBehind, OrderInv, [Next]_vars PROVE OrderInv'
  OBVIOUS
<1>0. /\ head \in Nat /\ tail \in Nat /\ head <= tail
      /\ from \in Nat /\ size \in Nat
      /\ delivered \subseteq 1..MaxEntries
      /\ MaxEntries \in Nat
  BY ConstantsAssumption DEF TypeOK
<1>1. /\ \A x \in delivered : x < tail
      /\ \A e \in Entries : \A d \in delivered :
           head <= e /\ e \notin delivered => d < e
  BY DEF OrderInv, DeliveredPast, DeliveredInOrder, Buffer
<1>2. \A x \in Batch : x < tail
  BY DEF Batch, Entries
<1>3. CASE Enqueue
  <2>1. tail' = tail + 1 /\ delivered' = delivered /\ head <= head'
    BY <1>0, <1>3 DEF Enqueue
  <2>2. DeliveredPast'
    BY <1>0, <1>1, <2>1 DEF DeliveredPast
  <2>3. ASSUME NEW e \in Buffer' \ delivered', NEW d \in delivered' PROVE d < e
    <3>1. e \in 1..MaxEntries /\ head' <= e /\ e < tail' /\ head' \in Nat
      BY <1>0, <1>3, <2>3 DEF Buffer, Entries, Enqueue
    <3>2. CASE e = tail
      BY <1>1, <2>1, <2>3, <3>2
    <3>3. CASE e # tail
      <4>1. e \in Entries /\ head <= e
        BY <1>0, <2>1, <3>1, <3>3 DEF Entries
      <4> QED BY <1>1, <2>1, <2>3, <4>1
    <3> QED BY <3>2, <3>3
  <2> QED BY <2>2, <2>3 DEF OrderInv, DeliveredInOrder
<1>4. CASE UNCHANGED <<head, tail, delivered>>
  BY <1>4 DEF OrderInv, DeliveredPast, DeliveredInOrder, Buffer, Entries
<1>5. ASSUME posting, tail' = tail, delivered' = delivered \cup Batch,
             head' \in Nat, head <= head'
      PROVE  OrderInv'
  <2>1. DeliveredPast'
    BY <1>1, <1>2, <1>5 DEF DeliveredPast
  <2>2. ASSUME NEW e \in Buffer' \ delivered', NEW d \in delivered' PROVE d < e
    <3>1. /\ e \in Entries /\ head' <= e
          /\ e \notin delivered /\ e \notin Batch
          /\ d \in delivered \cup Batch
      BY <1>5, <2>2 DEF Buffer, Entries
    <3> QED BY <1>5, <3>1, BatchGoesFirst
  <2> QED BY <2>1, <2>2 DEF OrderInv, DeliveredInOrder
<1>6. CASE StartFlush
  BY <1>4, <1>6 DEF StartFlush
<1>7. CASE PushAccepted
  <2>1. AfterDelete \in Nat /\ head <= AfterDelete
    BY <1>0 DEF AfterDelete, Least
  <2> QED BY <1>5, <1>7, <2>1 DEF PushAccepted
<1>8. ASSUME NEW arrived \in BOOLEAN, PushFails(arrived) PROVE OrderInv'
  BY <1>0, <1>4, <1>5, <1>8 DEF PushFails
<1>9. ASSUME NEW arrived \in BOOLEAN, Shutdown(arrived) PROVE OrderInv'
  BY <1>0, <1>4, <1>5, <1>9 DEF Shutdown
<1>10. CASE ShutdownDone
  BY <1>4, <1>10 DEF ShutdownDone
<1>11. CASE UNCHANGED vars
  BY <1>4, <1>11 DEF vars
<1> QED BY <1>3, <1>6, <1>7, <1>8, <1>9, <1>10, <1>11 DEF Next

\* Entries reach Loki in order: none overtakes an older one that still waits,
\* also when a push that seemed to fail had arrived.
THEOREM DeliveryInOrder == Spec => []DeliveredInOrder
<1> DEFINE Inv == TypeOK /\ LossInv /\ OrderInv
<1>1. Init => Inv
  BY TypeInit, LossInit, OrderInit
<1>2. Inv /\ [Next]_vars => Inv'
  BY TypeStep, LossStep, OrderStep DEF LossInv
<1>3. Inv => DeliveredInOrder
  BY DEF OrderInv
<1> QED BY <1>1, <1>2, <1>3, PTL DEF Spec
=============================================================================
