---------------------------- MODULE LokiShipper ----------------------------
(***************************************************************************)
(* The Loki buffer and its flusher (loki.py), up to the final flushes of   *)
(* the shutdown (app.py).  Entries are numbered as they are enqueued.  The *)
(* buffer only loses entries at its front and gains them at its end, so it *)
(* holds consecutive numbers: those from head up to, not including, tail.  *)
(* A push is in flight across an await, while requests go on enqueueing;   *)
(* when it succeeds the flusher deletes as many entries as it had taken,   *)
(* from whatever is at the front by then.                                  *)
(***************************************************************************)
EXTENDS Naturals, FiniteSets

CONSTANTS
    LOKI_BATCH_SIZE,
    LOKI_MAX_BUFFER,
    LOKI_SHUTDOWN_FLUSHES,
    MaxEntries               \* bound: entries enqueued in a run

ASSUME ConstantsAssumption ==
    /\ LOKI_BATCH_SIZE \in Nat \ {0}
    /\ LOKI_MAX_BUFFER \in Nat \ {0}
    /\ LOKI_MAX_BUFFER >= LOKI_BATCH_SIZE
    /\ LOKI_SHUTDOWN_FLUSHES \in Nat
    /\ MaxEntries \in Nat

VARIABLES
    head, tail,  \* loki_buffer
    dropped,     \* runtime.loki_dropped_count
    posting,     \* the flusher awaits the answer to a push ...
    from, size,  \* ... of the entries from..from+size-1 (batch, batch_size)
    phase,       \* the flusher's task runs, the shutdown flushes, neither
    flushes,     \* shutdown flushes left
    delivered    \* history: entries Loki has got

flightVars == <<posting, from, size>>
vars == <<head, tail, dropped, posting, from, size, phase, flushes, delivered>>

Entries == {e \in 1..MaxEntries : e < tail}
Buffer == {e \in Entries : head <= e}
Batch == {e \in Entries : from <= e /\ e < from + size}

TypeOK ==
    /\ head \in Nat \ {0}
    /\ tail \in 1..MaxEntries + 1
    /\ head <= tail
    /\ tail <= head + LOKI_MAX_BUFFER
    /\ dropped \in Nat
    /\ posting \in BOOLEAN
    /\ from \in Nat
    /\ size \in Nat
    /\ phase \in {"running", "stopping", "stopped"}
    /\ flushes \in Nat
    /\ delivered \subseteq 1..MaxEntries

Least(a, b) == IF a <= b THEN a ELSE b

-----------------------------------------------------------------------------
\* mutant: the buffer may grow one past its cap
OverfullAt == LOKI_MAX_BUFFER + 1

FullAt == LOKI_MAX_BUFFER

\* _loki_enqueue, from any request: a full buffer gives up its oldest entry
Enqueue ==
    /\ phase # "stopped"
    /\ tail <= MaxEntries
    /\ tail' = tail + 1
    /\ IF tail - head >= FullAt
       THEN head' = head + 1 /\ dropped' = dropped + 1
       ELSE UNCHANGED <<head, dropped>>
    /\ UNCHANGED <<flightVars, phase, flushes, delivered>>

MayFlush == phase = "running" \/ (phase = "stopping" /\ flushes > 0)

BatchSize == Least(tail - head, LOKI_BATCH_SIZE)

\* mutant: the newest entries are pushed first
NewestFirst == tail - BatchSize

BatchStart == head

\* mutant: the flusher waits for a full batch
FlushesFullBatches ==
    /\ MayFlush
    /\ ~posting
    /\ tail - head >= LOKI_BATCH_SIZE
    /\ posting' = TRUE
    /\ from' = BatchStart
    /\ size' = BatchSize
    /\ flushes' = IF phase = "stopping" THEN flushes - 1 ELSE flushes
    /\ UNCHANGED <<head, tail, dropped, phase, delivered>>

\* _loki_flush_once up to its await
StartFlush ==
    /\ MayFlush
    /\ ~posting
    /\ head < tail
    /\ posting' = TRUE
    /\ from' = BatchStart
    /\ size' = BatchSize
    /\ flushes' = IF phase = "stopping" THEN flushes - 1 ELSE flushes
    /\ UNCHANGED <<head, tail, dropped, phase, delivered>>

\* mutant: the buffer is emptied, the entries enqueued meanwhile included
Clears == tail

\* del state.loki_buffer[:batch_size]
AfterDelete == Least(tail, head + size)

PushAccepted ==
    /\ posting
    /\ posting' = FALSE
    /\ delivered' = delivered \cup Batch
    /\ head' = AfterDelete
    /\ UNCHANGED <<tail, dropped, from, size, phase, flushes>>

\* mutant: the shutdown goes on after a failed flush, without counting it
NeverGivesUp ==
    /\ phase' = phase
    /\ flushes' = LOKI_SHUTDOWN_FLUSHES

\* what a failed flush means for its caller: the loop tries again later, the
\* shutdown gives up
GivesUp ==
    /\ phase' = IF phase = "stopping" THEN "stopped" ELSE phase
    /\ UNCHANGED flushes

\* Timeout, refusal or HTTP error; Loki may have got the batch all the same.
PushFails(arrived) ==
    /\ posting
    /\ posting' = FALSE
    /\ delivered' = IF arrived THEN delivered \cup Batch ELSE delivered
    /\ GivesUp
    /\ UNCHANGED <<head, tail, dropped, from, size>>

\* lifespan shutdown: the task is cancelled, in the middle of a push or not
Shutdown(arrived) ==
    /\ phase = "running"
    /\ phase' = "stopping"
    /\ flushes' = LOKI_SHUTDOWN_FLUSHES
    /\ posting' = FALSE
    /\ delivered' = IF posting /\ arrived THEN delivered \cup Batch ELSE delivered
    /\ UNCHANGED <<head, tail, dropped, from, size>>

\* nothing left, or no flush left
ShutdownDone ==
    /\ phase = "stopping"
    /\ ~posting
    /\ head = tail \/ flushes = 0
    /\ phase' = "stopped"
    /\ UNCHANGED <<head, tail, dropped, flightVars, flushes, delivered>>

Init ==
    /\ head = 1
    /\ tail = 1
    /\ dropped = 0
    /\ posting = FALSE
    /\ from = 1
    /\ size = 0
    /\ phase = "running"
    /\ flushes = 0
    /\ delivered = {}

Next ==
    \/ Enqueue
    \/ StartFlush
    \/ PushAccepted
    \/ \E arrived \in BOOLEAN : PushFails(arrived) \/ Shutdown(arrived)
    \/ ShutdownDone

Spec == Init /\ [][Next]_vars

\* A push ends (LOKI_TIMEOUT), the loop's sleep ends, and Loki is not down for
\* good: pushes that are tried for ever are accepted again and again.
LiveSpec ==
    /\ Spec
    /\ WF_vars(StartFlush)
    /\ WF_vars(\E arrived \in BOOLEAN : PushFails(arrived))
    /\ SF_vars(PushAccepted /\ phase = "running")
    /\ WF_vars(ShutdownDone)

-----------------------------------------------------------------------------
(* Properties.                                                             *)

\* entries that are neither waiting nor with Loki
Lost == {e \in Entries : e < head} \ delivered

\* Every entry that is lost shows in loki_dropped_count, also when drops and a
\* push in flight overlap and the flusher deletes entries it never sent; as
\* long as nothing was dropped nothing is lost.
LossesCounted == Cardinality(Lost) <= dropped

\* Entries reach Loki in the order they were logged: whatever pushes failed or
\* were answered too late, no entry overtakes an older one that still waits.
DeliveredInOrder ==
    \A e \in Buffer \ delivered, d \in delivered : d < e

\* A buffered entry leaves the buffer, whatever outages Loki has, unless the
\* proxy is shut down first.
Drains ==
    \A e \in 1..MaxEntries : (e \in Buffer) ~> (e \notin Buffer \/ phase # "running")

\* The final flushes end: a Loki that is down does not hold up the shutdown.
ShutdownEnds == (phase = "stopping") ~> (phase = "stopped")

\* state.py:104: "Single-process, single-event-loop FastAPI => no lock needed".
\* Then a push that succeeds takes off the buffer what it sent, nothing else.
FlushRemovesOnlySent ==
    [][PushAccepted => (Buffer \ Buffer') \subseteq Batch]_vars
=============================================================================
