---------------------------- MODULE StreamProxy ----------------------------
(***************************************************************************)
(* The pass-through handler (routes/passthrough.py): proxy() and the       *)
(* generator stream_response() that relays the upstream's answer.  The     *)
(* server is one event loop, so a step of a request is the code between    *)
(* two awaits; pc[r] names the await r is suspended at:                    *)
(*                                                                         *)
(*   new        not yet received                                           *)
(*   uploading  the jitter sleep, then the client's body                   *)
(*   queued     waiting for a slot of the upstream connection pool         *)
(*   sent       on the wire, no response headers yet                       *)
(*   backoff    sleeping before a retry                                    *)
(*   buffering  reading the body of a 400                                  *)
(*   replying   StreamingResponse returned, generator not started          *)
(*   reading    the generator waits for the next chunk                     *)
(*   yielding   the generator is suspended at `yield chunk`                *)
(*   erring     suspended at the yield of an SSE error event               *)
(*   orphan     abandoned at a yield, not yet collected                    *)
(*   closing    in the finally block, response.aclose()                    *)
(*   delaying   DEV_ECHO_MODE: the delay of the synthetic answer           *)
(*   framing    DEV_ECHO_MODE: echo_stream is suspended at `yield frame`   *)
(*   deserted   the same, abandoned, not yet collected                     *)
(*   done       settled                                                    *)
(***************************************************************************)
EXTENDS Naturals, FiniteSets

CONSTANTS
    Request,                   \* requests of a run
    UPSTREAM_MAX_CONNECTIONS,  \* slots of the pool (HTTP/1.1: one request each)
    UPSTREAM_CONNECT_RETRIES,
    MaxChunks,                 \* bound: chunks of one response
    MaxToggles                 \* bound: times /config switches the 1h cache TTL

ASSUME ConstantsAssumption ==
    /\ IsFiniteSet(Request)
    /\ UPSTREAM_MAX_CONNECTIONS \in Nat \ {0}
    /\ UPSTREAM_CONNECT_RETRIES \in Nat
    /\ MaxChunks \in Nat
    /\ MaxToggles \in Nat

VARIABLES
    pc,
    attempt,   \* the retry loop's counter
    echo,      \* settings.DEV_ECHO_MODE, read at start
    beta,      \* the saver added the 1h cache TTL beta to the request
    sse,       \* is_sse: the response is an event stream
    tap,       \* usage_tap has seen usage
    reply,     \* what the client was answered with
    open,      \* requests whose upstream connection is not yet given back
    latched,   \* runtime.cache_ttl_runtime_disabled
    extend,    \* TOKEN_SAVER_ENABLED and CACHE_EXTEND_TTL
    stats,     \* the outcome counters of stream_stats
    chunks,    \* chunks read (bound)
    toggles,   \* (bound)
    recorded,  \* history: _record_usage calls made for r
    executed,  \* history: times the upstream worked on r
    rejected,  \* history: r got a 400 that names the cache TTL beta
    broken     \* history: streams ended by an error that no handler names

bodyVars == <<sse, tap, chunks, recorded>>
latchVars == <<latched, extend, toggles, rejected>>
echoVars == <<attempt, echo, beta, open, stats, executed, broken, sse, chunks>>
vars == <<pc, attempt, echo, beta, sse, tap, reply, open, latched, extend, stats, chunks,
          toggles, recorded, executed, rejected, broken>>

Streaming == {"reading", "yielding"}
Holding == {"sent", "buffering", "replying", "reading", "yielding", "erring",
            "orphan", "closing"}
Places == Holding \cup {"new", "uploading", "queued", "backoff", "delaying", "framing",
                       "deserted", "done"}
Outcome == {"streams_started", "streams_completed", "stalls", "upstream_errors",
            "client_disconnects", "connect_retries"}

TypeOK ==
    /\ pc \in [Request -> Places]
    /\ attempt \in [Request -> 0..UPSTREAM_CONNECT_RETRIES + 1]
    /\ echo \in BOOLEAN
    /\ beta \in [Request -> BOOLEAN]
    /\ sse \in [Request -> BOOLEAN]
    /\ tap \in [Request -> BOOLEAN]
    /\ reply \in [Request -> {"none", "local", "error", "buffered", "streamed",
                            "echoed"}]
    /\ open \subseteq Request
    /\ latched \in BOOLEAN
    /\ extend \in BOOLEAN
    /\ stats \in [Outcome -> Nat]
    /\ chunks \in [Request -> Nat]
    /\ toggles \in Nat
    /\ recorded \in [Request -> Nat]
    /\ executed \in [Request -> Nat]
    /\ rejected \in [Request -> BOOLEAN]
    /\ broken \in Nat

Goto(r, place) == pc' = [pc EXCEPT ![r] = place]
Answer(r, kind) == reply' = [reply EXCEPT ![r] = kind]
Count(what) == stats' = [stats EXCEPT ![what] = @ + 1]
Close(r) == open' = open \ {r}
Runs(r, ran) == executed' = [executed EXCEPT ![r] = IF ran THEN @ + 1 ELSE @]

-----------------------------------------------------------------------------
(* Before the upstream is involved.                                        *)

\* A telemetry path is answered here; it never reaches the upstream.
BlockTelemetry(r) ==
    /\ pc[r] = "new"
    /\ Goto(r, "done")
    /\ Answer(r, "local")
    /\ UNCHANGED <<attempt, beta, open, stats, executed, broken, echo, bodyVars, latchVars>>

Arrive(r) ==
    /\ pc[r] = "new"
    /\ Goto(r, "uploading")
    /\ UNCHANGED <<attempt, beta, reply, open, stats, executed, broken, echo, bodyVars, latchVars>>

\* request.body() raises ClientDisconnect, outside every try.
AbortUpload(r) ==
    /\ pc[r] = "uploading"
    /\ Goto(r, "done")
    /\ UNCHANGED <<attempt, beta, reply, open, stats, executed, broken, echo, bodyVars, latchVars>>

\* mutant: the latch is not looked at
AsksFor1hAnyway == extend

AsksFor1h == extend /\ ~latched

\* The body is in: it is parsed, sanitized and rewritten without an await.
\* Headers and body are kept for the retries.
Prepare(r) ==
    /\ pc[r] = "uploading"
    /\ Goto(r, IF echo THEN "delaying" ELSE "queued")
    /\ beta' = [beta EXCEPT ![r] = AsksFor1h]
    /\ UNCHANGED <<attempt, reply, open, stats, executed, broken, echo, bodyVars, latchVars>>

\* mutant: usage of an interrupted stream is not recorded
ChargesWhenComplete(r, usage) ==
    recorded' = [recorded EXCEPT ![r] = IF usage /\ chunks[r] = MaxChunks
                                        THEN @ + 1 ELSE @]

\* _record_usage, if the tap has seen usage
Charge(r, usage) ==
    recorded' = [recorded EXCEPT ![r] = IF usage THEN @ + 1 ELSE @]

-----------------------------------------------------------------------------
(* DEV_ECHO_MODE: the proxy answers by itself, the ledger is charged all   *)
(* the same.  usage: the answer is one to /v1/messages.                    *)

EchoWhole(r, usage) ==
    /\ pc[r] = "delaying"
    /\ Goto(r, "done")
    /\ Answer(r, "echoed")
    /\ tap' = [tap EXCEPT ![r] = usage]
    /\ Charge(r, usage)
    /\ UNCHANGED <<echoVars, latchVars>>

\* echo_stream up to its first yield; every frame is there already
EchoStream(r, usage) ==
    /\ pc[r] = "delaying"
    /\ Goto(r, "framing")
    /\ Answer(r, "echoed")
    /\ tap' = [tap EXCEPT ![r] = usage]
    /\ UNCHANGED <<echoVars, recorded, latchVars>>

HangUpEcho(r) ==
    /\ pc[r] = "framing"
    /\ Goto(r, "deserted")
    /\ UNCHANGED <<echoVars, tap, reply, recorded, latchVars>>

\* the last frame has been sent, or the event loop closes the generator
EchoFinish(r) ==
    /\ Goto(r, "done")
    /\ Charge(r, tap[r])
    /\ UNCHANGED <<echoVars, tap, reply, latchVars>>

FramesSent(r) == pc[r] = "framing" /\ EchoFinish(r)
CollectDeserted(r) == pc[r] = "deserted" /\ EchoFinish(r)

-----------------------------------------------------------------------------
(* The send loop.                                                          *)

GetConnection(r) ==
    /\ pc[r] = "queued"
    /\ Cardinality(open) < UPSTREAM_MAX_CONNECTIONS
    /\ Goto(r, "sent")
    /\ open' = open \cup {r}
    /\ UNCHANGED <<attempt, beta, reply, stats, executed, broken, echo, bodyVars, latchVars>>

\* The `except` clauses of proxy(): 504, 502 or 500.
Fail(r) ==
    /\ Goto(r, "done")
    /\ Answer(r, "error")
    /\ Close(r)

PoolTimeout(r) ==
    /\ pc[r] = "queued"
    /\ Cardinality(open) >= UPSTREAM_MAX_CONNECTIONS
    /\ Fail(r)
    /\ UNCHANGED <<attempt, beta, stats, executed, broken, echo, bodyVars, latchVars>>

\* Connect, write and read timeouts.
SendTimesOut(r, ran) ==
    /\ pc[r] = "sent"
    /\ Fail(r)
    /\ Runs(r, ran)
    /\ UNCHANGED <<attempt, beta, stats, broken, echo, bodyVars, latchVars>>

\* Any other error of the transport, a WriteError say.
SendBreaks(r, ran) ==
    /\ pc[r] = "sent"
    /\ Fail(r)
    /\ Runs(r, ran)
    /\ UNCHANGED <<attempt, beta, stats, broken, echo, bodyVars, latchVars>>

\* mutant: one retry too many
KeepsRetrying(n) == n <= UPSTREAM_CONNECT_RETRIES + 1

MayRetry(n) == n <= UPSTREAM_CONNECT_RETRIES

\* ConnectError, ReadError, RemoteProtocolError: the connection was lost
\* before the headers came.  The upstream may have had the request or not.
SendDrops(r, ran) ==
    LET n == attempt[r] + 1
    IN  /\ pc[r] = "sent"
        /\ attempt' = [attempt EXCEPT ![r] = n]
        /\ Runs(r, ran)
        /\ \/ /\ MayRetry(n)
              /\ Goto(r, "backoff")
              /\ Count("connect_retries")
              /\ Close(r)
              /\ UNCHANGED reply
           \/ /\ ~MayRetry(n)
              /\ Fail(r)
              /\ UNCHANGED stats
        /\ UNCHANGED <<beta, broken, echo, bodyVars, latchVars>>

Resend(r) ==
    /\ pc[r] = "backoff"
    /\ Goto(r, "queued")
    /\ UNCHANGED <<attempt, beta, reply, open, stats, executed, broken, echo, bodyVars, latchVars>>

\* mutant: 400s are relayed as a stream like everything else
NeverBuffers(refused) == FALSE

\* a 400 is read in full while the 1h cache TTL is in use
Buffers(refused) == refused /\ extend /\ ~latched

\* Response headers: 400 or not, naming the beta or not, an SSE stream or not.
Respond(r, refused, names, isSse) ==
    /\ pc[r] = "sent"
    /\ names => refused
    /\ Runs(r, ~refused)
    /\ sse' = [sse EXCEPT ![r] = isSse]
    /\ rejected' = [rejected EXCEPT ![r] = names]
    /\ Goto(r, IF Buffers(refused) THEN "buffering" ELSE "replying")
    /\ UNCHANGED <<attempt, beta, reply, open, stats, broken, echo, tap, chunks, recorded,
                   latched, extend, toggles>>

-----------------------------------------------------------------------------
(* A buffered 400.                                                         *)

BufferRead(r, usage) ==
    /\ pc[r] = "buffering"
    /\ latched' = (latched \/ rejected[r])
    /\ tap' = [tap EXCEPT ![r] = usage]
    /\ Charge(r, usage)
    /\ Goto(r, "done")
    /\ Answer(r, "buffered")
    /\ Close(r)
    /\ UNCHANGED <<attempt, beta, sse, stats, executed, broken, echo, chunks, extend, toggles,
                   rejected>>

\* the read times out or breaks; the `finally` closes the response
BufferFails(r) ==
    /\ pc[r] = "buffering"
    /\ Fail(r)
    /\ UNCHANGED <<attempt, beta, stats, executed, broken, echo, bodyVars, latchVars>>

-----------------------------------------------------------------------------
(* stream_response().                                                      *)

StartStream(r) ==
    /\ pc[r] = "replying"
    /\ Goto(r, "reading")
    /\ Answer(r, "streamed")
    /\ Count("streams_started")
    /\ UNCHANGED <<attempt, beta, open, executed, broken, echo, bodyVars, latchVars>>

Chunk(r, usage) ==
    /\ pc[r] = "reading"
    /\ chunks[r] < MaxChunks
    /\ chunks' = [chunks EXCEPT ![r] = @ + 1]
    /\ tap' = [tap EXCEPT ![r] = @ \/ usage]
    /\ Goto(r, "yielding")
    /\ UNCHANGED <<attempt, beta, sse, reply, open, stats, recorded, executed, broken, echo,
                   latchVars>>

ChunkSent(r) ==
    /\ pc[r] = "yielding"
    /\ Goto(r, "reading")
    /\ UNCHANGED <<attempt, beta, reply, open, stats, executed, broken, echo, bodyVars, latchVars>>

EndOfStream(r) ==
    /\ pc[r] = "reading"
    /\ Goto(r, "closing")
    /\ Count("streams_completed")
    /\ UNCHANGED <<attempt, beta, reply, open, executed, broken, echo, bodyVars, latchVars>>

\* an SSE client is told of the error before the stream ends
AfterError(r) == Goto(r, IF sse[r] THEN "erring" ELSE "closing")

\* mutant: the watchdog is armed by the first chunk
StallAfterFirstChunk(r) ==
    /\ pc[r] = "reading"
    /\ chunks[r] > 0
    /\ AfterError(r)
    /\ Count("stalls")
    /\ UNCHANGED <<attempt, beta, reply, open, executed, broken, echo, bodyVars, latchVars>>

\* UPSTREAM_STALL_SECONDS, or the read timeout, without a byte
Stall(r) ==
    /\ pc[r] = "reading"
    /\ AfterError(r)
    /\ Count("stalls")
    /\ UNCHANGED <<attempt, beta, reply, open, executed, broken, echo, bodyVars, latchVars>>

\* mutant: a connection lost in mid-stream is retried like one lost before it
RetriesMidStream(r) ==
    /\ pc[r] = "reading"
    /\ Goto(r, "backoff")
    /\ Close(r)
    /\ Count("connect_retries")
    /\ UNCHANGED <<attempt, beta, reply, executed, broken, echo, bodyVars, latchVars>>

\* a TransportError in mid-stream
UpstreamDrops(r) ==
    /\ pc[r] = "reading"
    /\ AfterError(r)
    /\ Count("upstream_errors")
    /\ UNCHANGED <<attempt, beta, reply, open, executed, broken, echo, bodyVars, latchVars>>

\* any other exception, a DecodingError say: no counter, only the `finally`
StreamBreaks(r) ==
    /\ pc[r] = "reading"
    /\ Goto(r, "closing")
    /\ broken' = broken + 1
    /\ UNCHANGED <<attempt, beta, reply, open, stats, executed, echo, bodyVars, latchVars>>

ErrorSent(r) ==
    /\ pc[r] = "erring"
    /\ Goto(r, "closing")
    /\ UNCHANGED <<attempt, beta, reply, open, stats, executed, broken, echo, bodyVars, latchVars>>

\* mutant: only GeneratorExit is caught, not CancelledError
HangUpUncounted(r) ==
    /\ pc[r] = "reading"
    /\ Goto(r, "closing")
    /\ UNCHANGED <<attempt, beta, reply, open, stats, executed, broken, echo, bodyVars, latchVars>>

\* The client goes away while the generator waits for a chunk: the cancelled
\* task raises CancelledError there.
HangUpReading(r) ==
    /\ pc[r] = "reading"
    /\ Goto(r, "closing")
    /\ Count("client_disconnects")
    /\ UNCHANGED <<attempt, beta, reply, open, executed, broken, echo, bodyVars, latchVars>>

\* The client goes away while a chunk is being sent: the task is cancelled
\* outside the generator, which is left suspended at its yield ...
HangUpSending(r) ==
    /\ pc[r] \in {"yielding", "erring"}
    /\ Goto(r, "orphan")
    /\ UNCHANGED <<attempt, beta, reply, open, stats, executed, broken, echo, bodyVars, latchVars>>

\* ... until the event loop's hook closes it and GeneratorExit is raised.
CollectOrphan(r) ==
    /\ pc[r] = "orphan"
    /\ Goto(r, "closing")
    /\ Count("client_disconnects")
    /\ UNCHANGED <<attempt, beta, reply, open, executed, broken, echo, bodyVars, latchVars>>

\* mutant: the response is closed only if it was read to its end
ClosesCompleted(r) ==
    /\ pc[r] = "closing"
    /\ Goto(r, "done")
    /\ open' = IF chunks[r] = MaxChunks THEN open \ {r} ELSE open
    /\ Charge(r, tap[r])
    /\ UNCHANGED <<attempt, beta, sse, tap, reply, stats, chunks, executed,
                   broken, echo, latchVars>>

\* mutant: a stream without usage is not cleaned up
FinishesWithUsage(r) ==
    /\ pc[r] = "closing"
    /\ tap[r]
    /\ Goto(r, "done")
    /\ Close(r)
    /\ Charge(r, tap[r])
    /\ UNCHANGED <<attempt, beta, sse, tap, reply, stats, chunks, executed, broken, echo,
                   latchVars>>

\* the `finally`: aclose(), which may fail unseen, then the usage
Finish(r) ==
    /\ pc[r] = "closing"
    /\ Goto(r, "done")
    /\ Close(r)
    /\ Charge(r, tap[r])
    /\ UNCHANGED <<attempt, beta, sse, tap, reply, stats, chunks, executed, broken, echo,
                   latchVars>>

-----------------------------------------------------------------------------
\* POST /config turns the token saver or CACHE_EXTEND_TTL on or off
Toggle ==
    /\ toggles < MaxToggles
    /\ toggles' = toggles + 1
    /\ extend' = ~extend
    /\ UNCHANGED <<pc, attempt, beta, reply, open, stats, executed, broken, echo, bodyVars,
                   latched, rejected>>

Init ==
    /\ pc = [r \in Request |-> "new"]
    /\ attempt = [r \in Request |-> 0]
    /\ echo \in BOOLEAN
    /\ beta = [r \in Request |-> FALSE]
    /\ sse = [r \in Request |-> FALSE]
    /\ tap = [r \in Request |-> FALSE]
    /\ reply = [r \in Request |-> "none"]
    /\ open = {}
    /\ latched = FALSE
    /\ extend \in BOOLEAN
    /\ stats = [o \in Outcome |-> 0]
    /\ chunks = [r \in Request |-> 0]
    /\ toggles = 0
    /\ recorded = [r \in Request |-> 0]
    /\ executed = [r \in Request |-> 0]
    /\ rejected = [r \in Request |-> FALSE]
    /\ broken = 0

\* What the proxy's own code and timers do, whatever client and upstream do.
ServerStep(r) ==
    \/ GetConnection(r) \/ PoolTimeout(r) \/ Resend(r)
    \/ SendTimesOut(r, FALSE) \/ BufferFails(r)
    \/ StartStream(r) \/ Stall(r) \/ CollectOrphan(r) \/ Finish(r)
    \/ \E usage \in BOOLEAN : EchoWhole(r, usage) \/ EchoStream(r, usage)
    \/ CollectDeserted(r)

\* A client goes on with what the proxy waits for, or hangs up.
ClientStep(r) ==
    \/ Prepare(r) \/ AbortUpload(r)
    \/ ChunkSent(r) \/ ErrorSent(r)
    \/ HangUpReading(r) \/ HangUpSending(r)
    \/ FramesSent(r) \/ HangUpEcho(r)

UpstreamStep(r) ==
    \/ \E ran \in BOOLEAN :
         SendTimesOut(r, ran) \/ SendBreaks(r, ran) \/ SendDrops(r, ran)
    \/ \E refused \in BOOLEAN, names \in BOOLEAN, isSse \in BOOLEAN :
         Respond(r, refused, names, isSse)
    \/ \E usage \in BOOLEAN : BufferRead(r, usage) \/ Chunk(r, usage)
    \/ EndOfStream(r) \/ UpstreamDrops(r) \/ StreamBreaks(r)

Next ==
    \/ \E r \in Request :
         BlockTelemetry(r) \/ Arrive(r) \/ ServerStep(r) \/ ClientStep(r)
           \/ UpstreamStep(r)
    \/ Toggle

Spec == Init /\ [][Next]_vars

\* The server's timers and the event loop always run; nothing is assumed of
\* the upstream, and nothing of a client.
LiveSpec == Spec /\ \A r \in Request : WF_vars(ServerStep(r))

-----------------------------------------------------------------------------
(* Properties.                                                             *)

\* The usage an answer carried is recorded exactly once, whichever way the
\* exchange ended: complete, stalled, dropped, cancelled or abandoned; and an
\* exchange whose answer carried none is not recorded (the `finally` of
\* stream_response and the buffered branch).
RecordedOnce ==
    \A r \in Request :
        recorded[r] = IF pc[r] = "done" /\ tap[r] THEN 1 ELSE 0

\* A connection is held from the moment the pool grants it until the send has
\* failed or the response is closed, never longer: every way out of proxy()
\* and of its generator gives it back, and the pool is never overdrawn.
NoConnectionLeaks ==
    /\ open = {r \in Request : pc[r] \in Holding}
    /\ Cardinality(open) <= UPSTREAM_MAX_CONNECTIONS

\* The upstream works on one client request at most once per attempt, and so
\* at most UPSTREAM_CONNECT_RETRIES times more than the client asked for.
ReplaysBounded ==
    \A r \in Request :
        /\ executed[r] <= 1 + UPSTREAM_CONNECT_RETRIES
        /\ executed[r] <= attempt[r] + 1

Live == {r \in Request : pc[r] \in Streaming}
Orphans == {r \in Request : pc[r] = "orphan"}
Ended == stats["streams_completed"] + stats["stalls"] + stats["upstream_errors"]

\* No stream is counted both as complete and as failed, or before it ended;
\* and every stream that has ended is in some counter, unless an exception no
\* handler names ended it or its generator still awaits collection.
OutcomesAccounted ==
    /\ Ended + Cardinality(Live) <= stats["streams_started"]
    /\ stats["streams_started"] <=
         Ended + stats["client_disconnects"] + Cardinality(Live)
               + Cardinality(Orphans) + broken

\* A refused beta that the proxy has read has switched the 1h cache TTL off for
\* good, whatever other requests and the console did in between
\* (passthrough.py).  Of a refusal that is relayed unread, because it came after
\* the switch or while the console had the 1h TTL off, nothing is said.
LatchLearns ==
    \A r \in Request : rejected[r] /\ reply[r] = "buffered" => latched

Carriers == {r \in Request : beta[r] /\ pc[r] # "done"}

\* Once the latch is set the requests carrying the beta only die out: those
\* prepared earlier still send it, retries included, and no other ever does.
BetaDiesOut ==
    [][latched => latched' /\ Carriers' \subseteq Carriers]_vars

WaitsForClient(r) == pc[r] \in {"new", "uploading", "yielding", "erring", "framing",
                                  "done"}

\* No request waits for ever on the upstream, on the pool, or on the client of
\* another request: time and again it is settled, or it is its own client's
\* turn - even if no other client ever reads.
NeverStuck == \A r \in Request : []<>WaitsForClient(r)

\* A client that keeps reading, or hangs up, has its request settled.
Settles ==
    \A r \in Request :
        WF_vars(ClientStep(r)) => (pc[r] = "uploading" ~> pc[r] = "done")

PhaseOf(place) ==
    IF place = "new" THEN "new"
    ELSE IF place \in {"uploading", "queued", "sent", "backoff"} THEN "pending"
    ELSE IF place = "done" THEN "settled"
    ELSE "answering"

Phase == [r \in Request |-> PhaseOf(pc[r])]

\* The handler keeps the promise of Exchange.
X == INSTANCE Exchange WITH phase <- Phase, charged <- recorded
Implements == X!Spec

\* passthrough.py:210: "a transport failure here means the request never
\* produced output, so replaying it cannot duplicate anything".
ReplayCannotDuplicate == \A r \in Request : executed[r] <= 1
=============================================================================
