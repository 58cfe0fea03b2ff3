------------------------- MODULE StreamProxyProofs -------------------------
(***************************************************************************)
(* StreamProxy for every set of requests, every size of the pool, any      *)
(* number of retries, chunks and switches.                                 *)
(***************************************************************************)
EXTENDS StreamProxy, FiniteSetTheorems, TLAPS

\* The upstream has not answered, or is not asked.
Sending == {"new", "uploading", "queued", "sent", "backoff"}

\* No answer has been read or given.
Unread == Sending \cup {"buffering", "replying", "delaying"}

\* Every work of the upstream on a request that is still being sent has used
\* up an attempt; the last attempt may add one more.
AttemptsBounded ==
    \A r \in Request :
        IF pc[r] \in Sending
        THEN /\ executed[r] <= attempt[r]
             /\ attempt[r] <= UPSTREAM_CONNECT_RETRIES
        ELSE /\ executed[r] <= attempt[r] + 1
             /\ executed[r] <= UPSTREAM_CONNECT_RETRIES + 1

NothingRead == \A r \in Request : pc[r] \in Unread => ~tap[r] /\ reply[r] = "none"

HandlerInv ==
    /\ TypeOK
    /\ AttemptsBounded
    /\ NothingRead
    /\ LatchLearns

-----------------------------------------------------------------------------
(* The invariant of one request, action by action.                         *)

LEMMA HandlerInit == Init => HandlerInv
<1> SUFFICES ASSUME Init PROVE HandlerInv
  OBVIOUS
<1>1. /\ pc \in [Request -> Places]
      /\ reply \in [Request -> {"none", "local", "error", "buffered", "streamed",
                              "echoed"}]
  BY DEF Init, Places
<1>2. /\ echo \in BOOLEAN
      /\ latched \in BOOLEAN
      /\ extend \in BOOLEAN
      /\ beta \in [Request -> BOOLEAN]
      /\ sse \in [Request -> BOOLEAN]
      /\ tap \in [Request -> BOOLEAN]
      /\ rejected \in [Request -> BOOLEAN]
  BY DEF Init
<1>3. /\ attempt \in [Request -> 0..UPSTREAM_CONNECT_RETRIES + 1]
      /\ chunks \in [Request -> Nat]
      /\ recorded \in [Request -> Nat]
      /\ executed \in [Request -> Nat]
      /\ stats \in [Outcome -> Nat]
      /\ toggles \in Nat
      /\ broken \in Nat
      /\ open \subseteq Request
  BY ConstantsAssumption DEF Init
<1>4. AttemptsBounded
  BY ConstantsAssumption DEF Init, AttemptsBounded, Sending
<1>5. NothingRead /\ LatchLearns
  BY DEF Init, NothingRead, LatchLearns
<1> QED BY <1>1, <1>2, <1>3, <1>4, <1>5 DEF HandlerInv, TypeOK

LEMMA HandlerStep == HandlerInv /\ [Next]_vars => HandlerInv'
<1> SUFFICES ASSUME HandlerInv, [Next]_vars PROVE HandlerInv'
  OBVIOUS
<1> USE ConstantsAssumption
    DEF HandlerInv, TypeOK, AttemptsBounded, NothingRead, LatchLearns, Places, Holding,
        Outcome, Sending, Unread, Goto, Answer, Count, Close, bodyVars, latchVars,
        echoVars
<1>1. CASE UNCHANGED vars
  BY <1>1 DEF vars
<1>2. CASE Toggle
  BY <1>2 DEF Toggle
<1>3. ASSUME NEW r \in Request,
             BlockTelemetry(r) \/ Arrive(r) \/ ServerStep(r) \/ ClientStep(r)
               \/ UpstreamStep(r)
      PROVE  HandlerInv'
  <2>1. ASSUME BlockTelemetry(r) PROVE HandlerInv'
    BY <2>1 DEF BlockTelemetry
  <2>2. ASSUME Arrive(r) PROVE HandlerInv'
    BY <2>2 DEF Arrive
  <2>3. ASSUME GetConnection(r) PROVE HandlerInv'
    BY <2>3 DEF GetConnection
  <2>4. ASSUME PoolTimeout(r) PROVE HandlerInv'
    BY <2>4 DEF PoolTimeout, Fail
  <2>5. ASSUME Resend(r) PROVE HandlerInv'
    BY <2>5 DEF Resend
  <2>6. ASSUME BufferFails(r) PROVE HandlerInv'
    BY <2>6 DEF BufferFails, Fail
  <2>7. ASSUME StartStream(r) PROVE HandlerInv'
    BY <2>7 DEF StartStream
  <2>8. ASSUME Stall(r) PROVE HandlerInv'
    BY <2>8 DEF Stall, AfterError
  <2>9. ASSUME CollectOrphan(r) PROVE HandlerInv'
    BY <2>9 DEF CollectOrphan
  <2>10. ASSUME Finish(r) PROVE HandlerInv'
    BY <2>10 DEF Finish, Charge
  <2>11. ASSUME NEW usage \in BOOLEAN, EchoWhole(r, usage) PROVE HandlerInv'
    BY <2>11 DEF EchoWhole, Charge
  <2>12. ASSUME NEW usage \in BOOLEAN, EchoStream(r, usage) PROVE HandlerInv'
    BY <2>12 DEF EchoStream
  <2>13. ASSUME CollectDeserted(r) PROVE HandlerInv'
    BY <2>13 DEF CollectDeserted, EchoFinish, Charge
  <2>14. ASSUME Prepare(r) PROVE HandlerInv'
    BY <2>14 DEF Prepare, AsksFor1h
  <2>15. ASSUME AbortUpload(r) PROVE HandlerInv'
    BY <2>15 DEF AbortUpload
  <2>16. ASSUME ChunkSent(r) PROVE HandlerInv'
    BY <2>16 DEF ChunkSent
  <2>17. ASSUME ErrorSent(r) PROVE HandlerInv'
    BY <2>17 DEF ErrorSent
  <2>18. ASSUME HangUpReading(r) PROVE HandlerInv'
    BY <2>18 DEF HangUpReading
  <2>19. ASSUME HangUpSending(r) PROVE HandlerInv'
    BY <2>19 DEF HangUpSending
  <2>20. ASSUME FramesSent(r) PROVE HandlerInv'
    BY <2>20 DEF FramesSent, EchoFinish, Charge
  <2>21. ASSUME HangUpEcho(r) PROVE HandlerInv'
    BY <2>21 DEF HangUpEcho
  <2>22. ASSUME NEW ran \in BOOLEAN, SendTimesOut(r, ran) PROVE HandlerInv'
    BY <2>22 DEF SendTimesOut, Fail, Runs
  <2>23. ASSUME NEW ran \in BOOLEAN, SendBreaks(r, ran) PROVE HandlerInv'
    BY <2>23 DEF SendBreaks, Fail, Runs
  <2>24. ASSUME NEW ran \in BOOLEAN, SendDrops(r, ran) PROVE HandlerInv'
    BY <2>24 DEF SendDrops, Fail, Runs, MayRetry
  <2>25. ASSUME NEW refused \in BOOLEAN, NEW names \in BOOLEAN, NEW isSse \in BOOLEAN,
                    Respond(r, refused, names, isSse)
        PROVE  HandlerInv'
    BY <2>25 DEF Respond, Buffers, Runs
  <2>26. ASSUME NEW usage \in BOOLEAN, BufferRead(r, usage) PROVE HandlerInv'
    BY <2>26 DEF BufferRead, Charge
  <2>27. ASSUME NEW usage \in BOOLEAN, Chunk(r, usage) PROVE HandlerInv'
    BY <2>27 DEF Chunk
  <2>28. ASSUME EndOfStream(r) PROVE HandlerInv'
    BY <2>28 DEF EndOfStream
  <2>29. ASSUME UpstreamDrops(r) PROVE HandlerInv'
    BY <2>29 DEF UpstreamDrops, AfterError
  <2>30. ASSUME StreamBreaks(r) PROVE HandlerInv'
    BY <2>30 DEF StreamBreaks
  <2> QED BY <1>3, <2>1, <2>2, <2>3, <2>4, <2>5, <2>6, <2>7, <2>8, <2>9, <2>10,
             <2>11, <2>12, <2>13, <2>14, <2>15, <2>16, <2>17, <2>18, <2>19, <2>20,
             <2>21, <2>22, <2>23, <2>24, <2>25, <2>26, <2>27, <2>28, <2>29, <2>30
         DEF ServerStep, ClientStep, UpstreamStep
<1> QED BY <1>1, <1>2, <1>3 DEF Next

LEMMA HandlerAlways == Spec => []HandlerInv
  BY HandlerInit, HandlerStep, PTL DEF Spec

\* Every variable keeps its type; no retry is made beyond the last one.
THEOREM TypeCorrect == Spec => []TypeOK
<1>1. HandlerInv => TypeOK
  BY DEF HandlerInv
<1> QED BY <1>1, HandlerAlways, PTL

\* Whatever the upstream did before a connection was lost, it works on one
\* client request no more often than there are attempts.
THEOREM ReplaysAreBounded == Spec => []ReplaysBounded
<1>1. HandlerInv => ReplaysBounded
  BY ConstantsAssumption DEF HandlerInv, TypeOK, AttemptsBounded, ReplaysBounded
<1> QED BY <1>1, HandlerAlways, PTL

\* A refused beta that the proxy has read has set the latch for good, whatever
\* other requests and the console did in between (passthrough.py).
THEOREM RefusalsAreLearned == Spec => []LatchLearns
<1>1. HandlerInv => LatchLearns
  BY DEF HandlerInv
<1> QED BY <1>1, HandlerAlways, PTL


-----------------------------------------------------------------------------
(* What a step of a request may do to what requests share.                 *)

Edges ==
    {"new"} \X {"uploading", "done"}
      \cup {"uploading"} \X {"queued", "delaying", "done"}
      \cup {"delaying"} \X {"framing", "done"}
      \cup {"framing"} \X {"deserted", "done"}
      \cup {"deserted"} \X {"done"}
      \cup {"queued"} \X {"sent", "done"}
      \cup {"sent"} \X {"backoff", "buffering", "replying", "done"}
      \cup {"backoff"} \X {"queued"}
      \cup {"buffering"} \X {"done"}
      \cup {"replying"} \X {"reading"}
      \cup {"reading"} \X {"yielding", "erring", "closing"}
      \cup {"yielding"} \X {"reading", "orphan"}
      \cup {"erring"} \X {"closing", "orphan"}
      \cup {"orphan"} \X {"closing"}
      \cup {"closing"} \X {"done"}

\* The pool: r keeps what it has, is granted a slot, or gives it back.
PoolMove(r, q) ==
    \/ open' = open /\ (pc[r] \in Holding <=> q \in Holding)
    \/ /\ pc[r] = "queued" /\ q = "sent"
       /\ Cardinality(open) < UPSTREAM_MAX_CONNECTIONS
       /\ open' = open \cup {r}
    \/ open' = open \ {r} /\ q \notin Holding

\* The ledger: r is charged as it settles, if usage was seen.
ChargeMove(r, q) ==
    /\ \A s \in Request \ {r} : tap'[s] = tap[s]
    /\ pc[r] \in Sending => ~tap'[r]
    /\ q = "done" /\ tap'[r] => recorded' = [recorded EXCEPT ![r] = @ + 1]
    /\ ~(q = "done" /\ tap'[r]) => recorded' = recorded

BetaMove(r) ==
    /\ latched => latched'
    /\ \A s \in Request : beta'[s] => beta[s] \/ (s = r /\ ~latched)

Move(r, q) ==
    /\ <<pc[r], q>> \in Edges
    /\ Goto(r, q)
    /\ PoolMove(r, q)
    /\ ChargeMove(r, q)
    /\ BetaMove(r)

NoMove ==
    /\ UNCHANGED <<pc, open, tap, recorded, beta>>
    /\ latched => latched'

LEMMA StepMoves ==
    ASSUME HandlerInv, [Next]_vars
    PROVE  NoMove \/ \E r \in Request, q \in Places : Move(r, q)
<1> USE DEF HandlerInv, TypeOK, NothingRead, Unread, Sending, Places, Holding, Edges,
            Move, PoolMove, ChargeMove, BetaMove, Goto, Answer, Count, Close, bodyVars,
            latchVars, echoVars
<1>1. CASE UNCHANGED vars
  BY <1>1 DEF vars, NoMove
<1>2. CASE Toggle
  BY <1>2 DEF Toggle, NoMove
<1>3. ASSUME NEW r \in Request,
             BlockTelemetry(r) \/ Arrive(r) \/ ServerStep(r) \/ ClientStep(r)
               \/ UpstreamStep(r)
      PROVE  \E q \in Places : Move(r, q)
  <2>1. ASSUME BlockTelemetry(r) PROVE Move(r, "done")
    BY <2>1 DEF BlockTelemetry
  <2>2. ASSUME Arrive(r) PROVE Move(r, "uploading")
    BY <2>2 DEF Arrive
  <2>3. ASSUME GetConnection(r) PROVE Move(r, "sent")
    BY <2>3 DEF GetConnection
  <2>4. ASSUME PoolTimeout(r) PROVE Move(r, "done")
    BY <2>4 DEF PoolTimeout, Fail
  <2>5. ASSUME Resend(r) PROVE Move(r, "queued")
    BY <2>5 DEF Resend
  <2>6. ASSUME BufferFails(r) PROVE Move(r, "done")
    BY <2>6 DEF BufferFails, Fail
  <2>7. ASSUME StartStream(r) PROVE Move(r, "reading")
    BY <2>7 DEF StartStream
  <2>8. ASSUME Stall(r) PROVE Move(r, "erring") \/ Move(r, "closing")
    BY <2>8 DEF Stall, AfterError
  <2>9. ASSUME CollectOrphan(r) PROVE Move(r, "closing")
    BY <2>9 DEF CollectOrphan
  <2>10. ASSUME Finish(r) PROVE Move(r, "done")
    BY <2>10 DEF Finish, Charge
  <2>11. ASSUME NEW usage \in BOOLEAN, EchoWhole(r, usage) PROVE Move(r, "done")
    BY <2>11 DEF EchoWhole, Charge
  <2>12. ASSUME NEW usage \in BOOLEAN, EchoStream(r, usage) PROVE Move(r, "framing")
    BY <2>12 DEF EchoStream
  <2>13. ASSUME CollectDeserted(r) PROVE Move(r, "done")
    BY <2>13 DEF CollectDeserted, EchoFinish, Charge
  <2>14. ASSUME Prepare(r) PROVE Move(r, "delaying") \/ Move(r, "queued")
    BY <2>14 DEF Prepare, AsksFor1h
  <2>15. ASSUME AbortUpload(r) PROVE Move(r, "done")
    BY <2>15 DEF AbortUpload
  <2>16. ASSUME ChunkSent(r) PROVE Move(r, "reading")
    BY <2>16 DEF ChunkSent
  <2>17. ASSUME ErrorSent(r) PROVE Move(r, "closing")
    BY <2>17 DEF ErrorSent
  <2>18. ASSUME HangUpReading(r) PROVE Move(r, "closing")
    BY <2>18 DEF HangUpReading
  <2>19. ASSUME HangUpSending(r) PROVE Move(r, "orphan")
    BY <2>19 DEF HangUpSending
  <2>20. ASSUME FramesSent(r) PROVE Move(r, "done")
    BY <2>20 DEF FramesSent, EchoFinish, Charge
  <2>21. ASSUME HangUpEcho(r) PROVE Move(r, "deserted")
    BY <2>21 DEF HangUpEcho
  <2>22. ASSUME NEW ran \in BOOLEAN, SendTimesOut(r, ran) PROVE Move(r, "done")
    BY <2>22 DEF SendTimesOut, Fail, Runs
  <2>23. ASSUME NEW ran \in BOOLEAN, SendBreaks(r, ran) PROVE Move(r, "done")
    BY <2>23 DEF SendBreaks, Fail, Runs
  <2>24. ASSUME NEW ran \in BOOLEAN, SendDrops(r, ran)
        PROVE  Move(r, "backoff") \/ Move(r, "done")
    BY <2>24 DEF SendDrops, Fail, Runs, MayRetry
  <2>25. ASSUME NEW refused \in BOOLEAN, NEW names \in BOOLEAN, NEW isSse \in BOOLEAN,
                    Respond(r, refused, names, isSse)
        PROVE  Move(r, "buffering") \/ Move(r, "replying")
    BY <2>25 DEF Respond, Buffers, Runs
  <2>26. ASSUME NEW usage \in BOOLEAN, BufferRead(r, usage) PROVE Move(r, "done")
    BY <2>26 DEF BufferRead, Charge
  <2>27. ASSUME NEW usage \in BOOLEAN, Chunk(r, usage) PROVE Move(r, "yielding")
    BY <2>27 DEF Chunk
  <2>28. ASSUME EndOfStream(r) PROVE Move(r, "closing")
    BY <2>28 DEF EndOfStream
  <2>29. ASSUME UpstreamDrops(r) PROVE Move(r, "erring") \/ Move(r, "closing")
    BY <2>29 DEF UpstreamDrops, AfterError
  <2>30. ASSUME StreamBreaks(r) PROVE Move(r, "closing")
    BY <2>30 DEF StreamBreaks
  <2> HIDE DEF Move
  <2> QED BY <1>3, <2>1, <2>2, <2>3, <2>4, <2>5, <2>6, <2>7, <2>8, <2>9, <2>10,
             <2>11, <2>12, <2>13, <2>14, <2>15, <2>16, <2>17, <2>18, <2>19, <2>20,
             <2>21, <2>22, <2>23, <2>24, <2>25, <2>26, <2>27, <2>28, <2>29, <2>30
         DEF ServerStep, ClientStep, UpstreamStep
<1> HIDE DEF Move
<1> QED BY <1>1, <1>2, <1>3 DEF Next

-----------------------------------------------------------------------------
(* The connections.                                                        *)

\* Every way out of the handler gives its connection back, no connection is
\* given back while it is in use, and the pool is never overdrawn.
THEOREM ConnectionsAreReturned == Spec => []NoConnectionLeaks
<1>1. Init => NoConnectionLeaks
  <2> SUFFICES ASSUME Init PROVE NoConnectionLeaks
    OBVIOUS
  <2>1. Cardinality(open) = 0
    BY FS_EmptySet DEF Init
  <2> QED BY <2>1, ConstantsAssumption DEF Init, NoConnectionLeaks, Holding
<1>2. HandlerInv /\ NoConnectionLeaks /\ [Next]_vars => NoConnectionLeaks'
  <2> SUFFICES ASSUME HandlerInv, NoConnectionLeaks, [Next]_vars
               PROVE  NoConnectionLeaks'
    OBVIOUS
  <2>1. IsFiniteSet(open)
    BY FS_Subset, ConstantsAssumption DEF NoConnectionLeaks
  <2>2. Cardinality(open) \in Nat
    BY <2>1, FS_CardinalityType
  <2>3. CASE NoMove
    BY <2>3 DEF NoMove, NoConnectionLeaks
  <2>4. ASSUME NEW r \in Request, NEW q \in Places, Move(r, q)
        PROVE  NoConnectionLeaks'
    <3>1. pc' = [pc EXCEPT ![r] = q] /\ pc \in [Request -> Places]
      BY <2>4 DEF Move, Goto, HandlerInv, TypeOK
    <3>2. open' = {s \in Request : pc'[s] \in Holding}
      BY <2>4, <3>1 DEF Move, PoolMove, NoConnectionLeaks, Holding
    <3>3. Cardinality(open') <= UPSTREAM_MAX_CONNECTIONS
      <4>1. CASE open' = open
        BY <4>1 DEF NoConnectionLeaks
      <4>2. CASE open' = open \cup {r} /\ Cardinality(open) < UPSTREAM_MAX_CONNECTIONS
        <5>1. Cardinality(open') \in {Cardinality(open), Cardinality(open) + 1}
          BY <2>1, <4>2, FS_AddElement
        <5> QED BY <2>2, <4>2, <5>1, ConstantsAssumption
      <4>3. CASE open' = open \ {r}
        <5>1. Cardinality(open') <= Cardinality(open) /\ Cardinality(open') \in Nat
          BY <2>1, <4>3, FS_Subset, FS_CardinalityType
        <5> QED BY <2>2, <5>1, ConstantsAssumption DEF NoConnectionLeaks
      <4> QED BY <2>4, <4>1, <4>2, <4>3 DEF Move, PoolMove
    <3> QED BY <3>2, <3>3 DEF NoConnectionLeaks
  <2> QED BY <2>3, <2>4, StepMoves
<1> QED BY <1>1, <1>2, HandlerAlways, PTL DEF Spec

-----------------------------------------------------------------------------
(* The charge.                                                             *)

LEMMA ChargeInit == Init => RecordedOnce
  BY DEF Init, RecordedOnce

LEMMA ChargeStep == HandlerInv /\ RecordedOnce /\ [Next]_vars => RecordedOnce'
<1> SUFFICES ASSUME HandlerInv, RecordedOnce, [Next]_vars PROVE RecordedOnce'
  OBVIOUS
<1>1. CASE NoMove
  BY <1>1 DEF NoMove, RecordedOnce
<1>2. ASSUME NEW r \in Request, NEW q \in Places, Move(r, q) PROVE RecordedOnce'
  <2>1. /\ pc' = [pc EXCEPT ![r] = q]
        /\ pc \in [Request -> Places]
        /\ recorded \in [Request -> Nat]
    BY <1>2 DEF Move, Goto, HandlerInv, TypeOK
  <2>2. pc[r] # "done"
    BY <1>2 DEF Move, Edges
  <2> QED BY <1>2, <2>1, <2>2 DEF Move, ChargeMove, RecordedOnce
<1> QED BY <1>1, <1>2, StepMoves

\* However an exchange ends, the usage of its answer is recorded once, at the
\* moment it settles.
THEOREM UsageRecordedOnce == Spec => []RecordedOnce
  BY ChargeInit, ChargeStep, HandlerAlways, PTL DEF Spec

-----------------------------------------------------------------------------
(* The beta.                                                               *)

\* Once the latch is set, the requests that carry the beta only die out.
THEOREM BetaOnlyDiesOut == Spec => BetaDiesOut
<1>1. HandlerInv /\ [Next]_vars => [latched => latched' /\ Carriers' \subseteq Carriers]_vars
  <2> SUFFICES ASSUME HandlerInv, [Next]_vars, latched
               PROVE  latched' /\ Carriers' \subseteq Carriers
    OBVIOUS
  <2>1. CASE NoMove
    BY <2>1 DEF NoMove, Carriers
  <2>2. ASSUME NEW r \in Request, NEW q \in Places, Move(r, q)
        PROVE  latched' /\ Carriers' \subseteq Carriers
    <3>1. pc' = [pc EXCEPT ![r] = q] /\ pc \in [Request -> Places] /\ pc[r] # "done"
      BY <2>2 DEF Move, Goto, HandlerInv, TypeOK, Edges
    <3> QED BY <2>2, <3>1 DEF Move, BetaMove, Carriers
  <2> QED BY <2>1, <2>2, StepMoves
<1> QED BY <1>1, HandlerAlways, PTL DEF Spec, BetaDiesOut

-----------------------------------------------------------------------------
(* The promise of Exchange.                                                *)

LEMMA PhaseMoves ==
    ASSUME NEW r \in Request, NEW q, Goto(r, q), pc \in [Request -> Places]
    PROVE  Phase' = [Phase EXCEPT ![r] = PhaseOf(q)]
  BY DEF Phase, Goto

LEMMA ImplementsInit == Init => X!Init
  BY DEF Init, X!Init, Phase, PhaseOf

LEMMA ImplementsStep ==
    HandlerInv /\ RecordedOnce /\ [Next]_vars => [X!Next]_(X!vars)
<1> SUFFICES ASSUME HandlerInv, RecordedOnce, [Next]_vars
             PROVE  [X!Next]_(X!vars)
  OBVIOUS
<1>1. CASE NoMove
  BY <1>1 DEF NoMove, X!vars, Phase
<1>2. ASSUME NEW r \in Request, NEW q \in Places, Move(r, q)
      PROVE  [X!Next]_(X!vars)
  <2>1. /\ pc \in [Request -> Places]
        /\ recorded \in [Request -> Nat]
        /\ <<pc[r], q>> \in Edges
        /\ Goto(r, q)
    BY <1>2 DEF Move, HandlerInv, TypeOK
  <2>2. Phase' = [Phase EXCEPT ![r] = PhaseOf(q)] /\ Phase[r] = PhaseOf(pc[r])
    BY <2>1, PhaseMoves DEF Phase
  <2>3. recorded[r] = 0
    BY <2>1 DEF RecordedOnce, Edges
  <2>4. \/ recorded' = recorded
        \/ q = "done" /\ recorded' = [recorded EXCEPT ![r] = 1]
    <3>1. CASE q = "done" /\ tap'[r]
      BY <1>2, <2>3, <3>1 DEF Move, ChargeMove
    <3>2. CASE ~(q = "done" /\ tap'[r])
      BY <1>2, <3>2 DEF Move, ChargeMove
    <3> QED BY <3>1, <3>2
  <2>5. \/ PhaseOf(q) = PhaseOf(pc[r]) /\ q # "done"
        \/ PhaseOf(pc[r]) = "new" /\ PhaseOf(q) = "pending" /\ q # "done"
        \/ PhaseOf(pc[r]) = "pending" /\ PhaseOf(q) = "answering" /\ q # "done"
        \/ pc[r] \in Sending /\ PhaseOf(pc[r]) \in {"new", "pending"} /\ q = "done"
        \/ PhaseOf(pc[r]) = "answering" /\ q = "done"
    BY <2>1 DEF Edges, PhaseOf, Sending
  <2>6. pc[r] \in Sending => recorded' = recorded
    BY <1>2, <2>1 DEF Move, ChargeMove
  <2>7. PhaseOf("done") = "settled"
    BY DEF PhaseOf
  <2>8. Phase \in [Request -> {"new", "pending", "answering", "settled"}]
    BY DEF Phase, PhaseOf
  <2> HIDE DEF PhaseOf
  <2>9. CASE PhaseOf(q) = PhaseOf(pc[r]) /\ q # "done"
    BY <2>2, <2>4, <2>8, <2>9 DEF X!vars
  <2>10. CASE PhaseOf(pc[r]) = "new" /\ PhaseOf(q) = "pending" /\ q # "done"
    BY <2>2, <2>4, <2>10 DEF X!Next, X!Accept
  <2>11. CASE PhaseOf(pc[r]) = "pending" /\ PhaseOf(q) = "answering" /\ q # "done"
    BY <2>2, <2>4, <2>11 DEF X!Next, X!Answer
  <2>12. CASE pc[r] \in Sending /\ PhaseOf(pc[r]) \in {"new", "pending"} /\ q = "done"
    BY <2>2, <2>6, <2>7, <2>12 DEF X!Next, X!Refuse
  <2>13. CASE PhaseOf(pc[r]) = "answering" /\ q = "done"
    BY <2>2, <2>4, <2>7, <2>13 DEF X!Next, X!Settle
  <2> QED BY <2>5, <2>9, <2>10, <2>11, <2>12, <2>13
<1> QED BY <1>1, <1>2, StepMoves

\* The handler keeps the promise of Exchange: it settles every exchange once
\* and charges it then, and never one that it refused itself.
THEOREM HandlerImplementsExchange == Spec => Implements
  BY ImplementsInit, ImplementsStep, ChargeInit, ChargeStep, HandlerAlways, PTL
     DEF Spec, Implements, X!Spec

-----------------------------------------------------------------------------
(* The counters.                                                           *)

At(P) == {s \in Request : pc[s] \in P}

\* How a step of r to q changes the number of requests at some places.
LEMMA CountAt ==
    ASSUME NEW P, NEW r \in Request, NEW q, pc \in [Request -> Places], Goto(r, q)
    PROVE  /\ Cardinality(At(P)) \in Nat
           /\ Cardinality(At(P)') \in Nat
           /\ (pc[r] \in P <=> q \in P) => Cardinality(At(P)') = Cardinality(At(P))
           /\ pc[r] \notin P /\ q \in P => Cardinality(At(P)') = Cardinality(At(P)) + 1
           /\ pc[r] \in P /\ q \notin P => Cardinality(At(P)') = Cardinality(At(P)) - 1
<1>1. IsFiniteSet(At(P)) /\ IsFiniteSet(At(P)')
  BY FS_Subset, ConstantsAssumption DEF At
<1>2. Cardinality(At(P)) \in Nat /\ Cardinality(At(P)') \in Nat
  BY <1>1, FS_CardinalityType
<1>3. CASE pc[r] \in P <=> q \in P
  <2>1. At(P)' = At(P)
    BY <1>3 DEF At, Goto
  <2> QED BY <1>2, <1>3, <2>1
<1>4. CASE pc[r] \notin P /\ q \in P
  <2>1. At(P)' = At(P) \cup {r} /\ r \notin At(P)
    BY <1>4 DEF At, Goto
  <2> QED BY <1>1, <1>2, <1>4, <2>1, FS_AddElement
<1>5. CASE pc[r] \in P /\ q \notin P
  <2>1. At(P)' = At(P) \ {r} /\ r \in At(P)
    BY <1>5 DEF At, Goto
  <2> QED BY <1>1, <1>2, <1>5, <2>1, FS_RemoveElement
<1> QED BY <1>2, <1>3, <1>4, <1>5

\* The two places the counters speak of, at once.
LEMMA CountLive ==
    ASSUME HandlerInv, NEW r \in Request, NEW q, Goto(r, q)
    PROVE  LET before == Cardinality(Live)
               after == Cardinality(Live')
               left == Cardinality(Orphans)
               leaves == Cardinality(Orphans')
           IN  /\ before \in Nat /\ after \in Nat /\ left \in Nat /\ leaves \in Nat
               /\ (pc[r] \in Streaming <=> q \in Streaming) => after = before
               /\ pc[r] \notin Streaming /\ q \in Streaming => after = before + 1
               /\ pc[r] \in Streaming /\ q \notin Streaming => after = before - 1
               /\ (pc[r] = "orphan" <=> q = "orphan") => leaves = left
               /\ pc[r] # "orphan" /\ q = "orphan" => leaves = left + 1
               /\ pc[r] = "orphan" /\ q # "orphan" => leaves = left - 1
<1>1. Live = At(Streaming) /\ Live' = At(Streaming)'
  BY DEF Live, At
<1>2. Orphans = At({"orphan"}) /\ Orphans' = At({"orphan"})'
  BY DEF Orphans, At
<1>3. pc \in [Request -> Places]
  BY DEF HandlerInv, TypeOK
<1> QED BY <1>1, <1>2, <1>3, CountAt

\* Only connect_retries, which OutcomesAccounted does not look at, may change.
Uncounted ==
    /\ broken' = broken
    /\ \A o \in Outcome \ {"connect_retries"} : stats'[o] = stats[o]

\* The step neither starts nor ends a stream, save by abandoning it.
StaysStreaming(r, q) ==
    /\ Goto(r, q)
    /\ q \in Streaming => pc[r] \in Streaming
    /\ pc[r] \in Streaming => q \in Streaming \cup {"orphan"}
    /\ pc[r] # "orphan"

LEMMA OutcomeStep ==
    HandlerInv /\ OutcomesAccounted /\ [Next]_vars => OutcomesAccounted'
<1> SUFFICES ASSUME HandlerInv, OutcomesAccounted, [Next]_vars
             PROVE  OutcomesAccounted'
  OBVIOUS
<1>1. stats \in [Outcome -> Nat] /\ broken \in Nat /\ pc \in [Request -> Places]
  BY DEF HandlerInv, TypeOK
<1> USE DEF Outcome, Ended, Count, OutcomesAccounted
<1>2. CASE UNCHANGED vars
  BY <1>2 DEF vars, Live, Orphans
<1>3. CASE Toggle
  BY <1>3 DEF Toggle, Live, Orphans
<1>4. ASSUME NEW r \in Request,
             BlockTelemetry(r) \/ Arrive(r) \/ ServerStep(r) \/ ClientStep(r)
               \/ UpstreamStep(r)
      PROVE  OutcomesAccounted'
  <2>1. CASE StartStream(r)
    <3>1. Goto(r, "reading") /\ pc[r] = "replying"
      BY <2>1 DEF StartStream
    <3>2. /\ stats' = [stats EXCEPT !["streams_started"] = @ + 1]
          /\ broken' = broken
      BY <2>1 DEF StartStream
    <3>3. /\ Cardinality(Live') = Cardinality(Live) + 1
          /\ Cardinality(Orphans') = Cardinality(Orphans)
          /\ Cardinality(Live) \in Nat /\ Cardinality(Orphans) \in Nat
      BY <3>1, CountLive DEF Streaming
    <3> QED BY <1>1, <3>2, <3>3
  <2>2. CASE EndOfStream(r) \/ Stall(r) \/ UpstreamDrops(r)
    <3>1. PICK q \in {"erring", "closing"} : Goto(r, q)
      BY <2>2 DEF EndOfStream, Stall, UpstreamDrops, AfterError
    <3>2. PICK o \in {"streams_completed", "stalls", "upstream_errors"} :
                stats' = [stats EXCEPT ![o] = @ + 1] /\ broken' = broken
      BY <2>2 DEF EndOfStream, Stall, UpstreamDrops
    <3>3. pc[r] = "reading"
      BY <2>2 DEF EndOfStream, Stall, UpstreamDrops
    <3>4. /\ Cardinality(Live') = Cardinality(Live) - 1
          /\ Cardinality(Orphans') = Cardinality(Orphans)
          /\ Cardinality(Live) \in Nat /\ Cardinality(Orphans) \in Nat
      BY <3>1, <3>3, CountLive DEF Streaming
    <3> QED BY <1>1, <3>2, <3>4
  <2>3. CASE HangUpReading(r) \/ CollectOrphan(r)
    <3>1. Goto(r, "closing") /\ pc[r] \in {"reading", "orphan"}
      BY <2>3 DEF HangUpReading, CollectOrphan
    <3>2. /\ stats' = [stats EXCEPT !["client_disconnects"] = @ + 1]
          /\ broken' = broken
      BY <2>3 DEF HangUpReading, CollectOrphan
    <3>3. /\ Cardinality(Live') <= Cardinality(Live)
          /\ Cardinality(Live') + Cardinality(Orphans') =
               Cardinality(Live) + Cardinality(Orphans) - 1
          /\ Cardinality(Live) \in Nat /\ Cardinality(Orphans) \in Nat
          /\ Cardinality(Live') \in Nat /\ Cardinality(Orphans') \in Nat
      BY <3>1, CountLive DEF Streaming
    <3> QED BY <1>1, <3>2, <3>3
  <2>4. CASE StreamBreaks(r)
    <3>1. Goto(r, "closing") /\ pc[r] = "reading"
      BY <2>4 DEF StreamBreaks
    <3>2. stats' = stats /\ broken' = broken + 1
      BY <2>4 DEF StreamBreaks
    <3>3. /\ Cardinality(Live') = Cardinality(Live) - 1
          /\ Cardinality(Orphans') = Cardinality(Orphans)
          /\ Cardinality(Live) \in Nat /\ Cardinality(Orphans) \in Nat
      BY <3>1, CountLive DEF Streaming
    <3> QED BY <1>1, <3>2, <3>3
  <2>5. CASE Uncounted /\ \E q \in Places : StaysStreaming(r, q)
    <3>1. PICK q \in Places : StaysStreaming(r, q)
      BY <2>5
    <3>2. /\ Cardinality(Live') <= Cardinality(Live)
          /\ Cardinality(Live') + Cardinality(Orphans') >=
               Cardinality(Live) + Cardinality(Orphans)
          /\ Cardinality(Live) \in Nat /\ Cardinality(Orphans) \in Nat
          /\ Cardinality(Live') \in Nat /\ Cardinality(Orphans') \in Nat
      BY <3>1, CountLive DEF Streaming, StaysStreaming
    <3> QED BY <1>1, <2>5, <3>2 DEF Uncounted
  <2>6. \/ StartStream(r)
        \/ EndOfStream(r) \/ Stall(r) \/ UpstreamDrops(r)
        \/ HangUpReading(r) \/ CollectOrphan(r)
        \/ StreamBreaks(r)
        \/ Uncounted /\ \E q \in Places : StaysStreaming(r, q)
    <3> SUFFICES ASSUME ~StartStream(r),
                        ~EndOfStream(r), ~Stall(r), ~UpstreamDrops(r),
                        ~HangUpReading(r), ~CollectOrphan(r), ~StreamBreaks(r)
                 PROVE  Uncounted /\ \E q \in Places : StaysStreaming(r, q)
      OBVIOUS
    <3> USE <1>1 DEF Uncounted, StaysStreaming, Streaming, Places, Holding, bodyVars,
                     latchVars, echoVars, Goto
    <3>1. CASE \/ BlockTelemetry(r) \/ Arrive(r) \/ Prepare(r) \/ AbortUpload(r)
               \/ ChunkSent(r) \/ ErrorSent(r) \/ HangUpSending(r)
      BY <3>1 DEF BlockTelemetry, Arrive, Prepare, AbortUpload, ChunkSent, ErrorSent,
                 HangUpSending
    <3>2. CASE \/ FramesSent(r) \/ HangUpEcho(r) \/ CollectDeserted(r)
               \/ \E usage \in BOOLEAN : EchoWhole(r, usage) \/ EchoStream(r, usage)
      BY <3>2 DEF FramesSent, HangUpEcho, CollectDeserted, EchoFinish, EchoWhole,
                 EchoStream
    <3>3. CASE \/ GetConnection(r) \/ PoolTimeout(r) \/ Resend(r) \/ BufferFails(r)
               \/ Finish(r)
      BY <3>3 DEF GetConnection, PoolTimeout, Resend, BufferFails, Finish, Fail
    <3>4. CASE \E ran \in BOOLEAN :
                 SendTimesOut(r, ran) \/ SendBreaks(r, ran) \/ SendDrops(r, ran)
      BY <3>4 DEF SendTimesOut, SendBreaks, SendDrops, Fail
    <3>5. CASE \/ \E refused \in BOOLEAN, names \in BOOLEAN, isSse \in BOOLEAN :
                    Respond(r, refused, names, isSse)
               \/ \E usage \in BOOLEAN : BufferRead(r, usage) \/ Chunk(r, usage)
      BY <3>5 DEF Respond, BufferRead, Chunk
    <3> QED BY <1>4, <3>1, <3>2, <3>3, <3>4, <3>5 DEF ServerStep, ClientStep, UpstreamStep
  <2> QED BY <2>1, <2>2, <2>3, <2>4, <2>5, <2>6
<1> QED BY <1>2, <1>3, <1>4 DEF Next

\* No stream is counted twice as complete or failed, and none that ended is
\* missing from the counters, except those an unnamed exception ended.
THEOREM OutcomesAreAccounted == Spec => []OutcomesAccounted
<1>1. Init => OutcomesAccounted
  <2> SUFFICES ASSUME Init PROVE OutcomesAccounted
    OBVIOUS
  <2>1. Live = {} /\ Orphans = {}
    BY DEF Init, Live, Orphans, Streaming
  <2>2. Cardinality(Live) = 0 /\ Cardinality(Orphans) = 0
    BY <2>1, FS_EmptySet
  <2> QED BY <2>2 DEF Init, OutcomesAccounted, Ended, Outcome
<1> QED BY <1>1, OutcomeStep, HandlerAlways, PTL DEF Spec
=============================================================================
