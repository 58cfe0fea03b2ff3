------------------------------ MODULE UsageTap -----------------------------
(***************************************************************************)
(* What the tap reads of a response while it is relayed (quota/tap.py):    *)
(* the lines of an event stream as they become whole, a JSON body when it  *)
(* has ended; of a response too long for its buffer, what it had read.     *)
(*                                                                         *)
(* Only responses to v1/messages are tapped.                               *)
(*                                                                         *)
(* A response is the lines it consists of, each with its length, newline   *)
(* included, and its event, and the length of what follows the last        *)
(* newline.  An event has the fields the tap looks at: usage, a function,  *)
(* and model, stop and tool.  A JSON body is one line.                     *)
(***************************************************************************)
EXTENDS Integers, Sequences, SequencesExt, FiniteSetsExt

CONSTANTS
    USAGE_TAP_MAX_BUFFER,
    Nothing         \* no model, stop reason or tool

ASSUME BufferAssumption == USAGE_TAP_MAX_BUFFER \in Nat

VARIABLES
    response,       \* [type, lines, tail]
    fed,            \* bytes relayed
    buffered,       \* those of them in the buffer
    absorbed,       \* usage, model, stop_reason, tools_used
    overflow,
    kept            \* history: bytes relayed before the overflow

tapVars == <<response, fed, buffered, absorbed, overflow, kept>>

NothingRead == [usage |-> [k \in {} |-> 0], model |-> Nothing, stop |-> Nothing,
                tools |-> [t \in {} |-> 0]]

NoResponse == [type |-> "none", lines |-> <<>>, tail |-> 0]

-----------------------------------------------------------------------------

\* how many bytes the first i lines have
EndOf(lines, i) == FoldLeft(LAMBDA n, line : n + line.len, 0, SubSeq(lines, 1, i))

LengthOf(r) == EndOf(r.lines, Len(r.lines)) + r.tail

\* the lines that are whole in the first n bytes
WholeLines(lines, n) == Cardinality({i \in DOMAIN lines : EndOf(lines, i) <= n})

\* those that begin in the first n bytes
Begun(lines, n) == Cardinality({i \in DOMAIN lines : EndOf(lines, i - 1) < n})

\* the events of the lines after the m-th up to the n-th
Events(lines, m, n) == [i \in 1 .. n - m |-> lines[m + i].event]

Updated(f, g) == [x \in DOMAIN f \cup DOMAIN g |-> IF x \in DOMAIN g THEN g[x] ELSE f[x]]

Counted(f, x) ==
    IF x = Nothing THEN f
    ELSE [y \in DOMAIN f \cup {x} |->
             (IF y \in DOMAIN f THEN f[y] ELSE 0) + IF y = x THEN 1 ELSE 0]

_absorb_event(read, event) ==
    [usage |-> Updated(read.usage, event.usage),
     model |-> IF event.model = Nothing THEN read.model ELSE event.model,
     stop  |-> IF event.stop = Nothing THEN read.stop ELSE event.stop,
     tools |-> Counted(read.tools, event.tool)]

Absorbed(read, events) == FoldLeft(_absorb_event, read, events)

-----------------------------------------------------------------------------

BeginResponse(r) ==
    /\ response' = r
    /\ fed' = 0 /\ buffered' = 0
    /\ absorbed' = NothingRead
    /\ overflow' = FALSE /\ kept' = 0

\* mutant: a line is looked for within a chunk only
NothingLeft(lines, n) == 0

\* what stays in the buffer when the bytes up to n are in
Unfinished(lines, n) == n - EndOf(lines, WholeLines(lines, n))

feed(n) ==
    LET lines == response.lines
        first == Begun(lines, fed - buffered)
    IN  /\ n \in 1 .. LengthOf(response) - fed
        /\ fed' = fed + n
        /\ overflow' = (overflow \/ buffered + n > USAGE_TAP_MAX_BUFFER)
        /\ buffered' = IF overflow' THEN 0
                       ELSE IF response.type = "sse" THEN Unfinished(lines, fed')
                       ELSE buffered + n
        /\ absorbed' = IF overflow' \/ response.type # "sse" THEN absorbed
                       ELSE Absorbed(absorbed, Events(lines, first, WholeLines(lines, fed')))
        /\ kept' = IF overflow' THEN kept ELSE fed'
        /\ UNCHANGED response

\* finalize: what the tap returns, wherever the relay has ended; a JSON body
\* that is cut does not parse
finalize ==
    IF response.type = "json" /\ ~overflow /\ fed = LengthOf(response)
    THEN Absorbed(absorbed, Events(response.lines, 0, Len(response.lines)))
    ELSE absorbed

TapInit ==
    /\ response = NoResponse
    /\ fed = 0 /\ buffered = 0
    /\ absorbed = NothingRead
    /\ overflow = FALSE /\ kept = 0

-----------------------------------------------------------------------------

\* the last of the events that says anything of a field
LastSaid(events, said(_), value(_), otherwise) ==
    LET telling == {i \in DOMAIN events : said(events[i])}
    IN  IF telling = {} THEN otherwise ELSE value(events[Max(telling)])

\* a reading of events that does not go through them one by one
Reading(events) ==
    LET used == UNION {DOMAIN events[i].usage : i \in DOMAIN events}
        tools == {events[i].tool : i \in DOMAIN events} \ {Nothing}
    IN  [usage |-> [k \in used |-> LastSaid(events, LAMBDA e : k \in DOMAIN e.usage,
                                            LAMBDA e : e.usage[k], 0)],
         model |-> LastSaid(events, LAMBDA e : e.model # Nothing, LAMBDA e : e.model, Nothing),
         stop  |-> LastSaid(events, LAMBDA e : e.stop # Nothing, LAMBDA e : e.stop, Nothing),
         tools |-> [t \in tools |-> Cardinality({i \in DOMAIN events : events[i].tool = t})]]

(* However the response is cut into chunks and wherever it ends, the tap   *)
(* has read all whole lines of a stream, or the whole body, that came      *)
(* before an overflow; and there is none unless a line and a chunk are     *)
(* longer than the buffer together.                                        *)
ReadsWhatFits(largest) ==
    LET lines == response.lines
        whole == IF kept = LengthOf(response) THEN Len(lines) ELSE 0
    IN  /\ response.type = "sse" =>
             /\ finalize = Reading(Events(lines, 0, WholeLines(lines, kept)))
             /\ overflow => \E n \in {response.tail} \cup {line.len : line \in Range(lines)} :
                                n + largest > USAGE_TAP_MAX_BUFFER
        /\ response.type = "json" => finalize = Reading(Events(lines, 0, whole))
        /\ response.type = "other" => finalize = NothingRead
=============================================================================
