----------------------------- MODULE TokenSaver ----------------------------
(***************************************************************************)
(* What is done to the body of a request to v1/messages to save tokens     *)
(* (tokens.py, quota/cache_ttl.py): cache breakpoints of tools and system  *)
(* prompt are raised to an hour, long tool results of older messages are   *)
(* cut in the middle, or every breakpoint is lowered to five minutes.      *)
(*                                                                         *)
(* A body is read as what may carry a breakpoint: the tools and the blocks *)
(* of the system prompt, each by its mark (the default lifetime is five    *)
(* minutes), and the messages, which are sequences of blocks; the texts of *)
(* a block are those of a tool result, by their marks and lengths.  A      *)
(* system prompt that is a string is String.                               *)
(***************************************************************************)
EXTENDS Integers, Sequences, SequencesExt, FiniteSets, FiniteSetsExt, Functions, Folds

CONSTANTS
    MAX_CACHE_BREAKPOINTS,
    TOOL_RESULT_KEEP_RECENT,
    MarkerLength(_)         \* of the note that so many characters are left out

ASSUME SaverAssumption == MAX_CACHE_BREAKPOINTS \in Int /\ TOOL_RESULT_KEEP_RECENT \in Int

VARIABLES
    saver,      \* the settings [enabled, extend, force5m, truncate, max, head, tail]
    latched,    \* cache_ttl_runtime_disabled
    saved       \* token_saver_stats

saverVars == <<saver, latched, saved>>

NothingSaved == [requests_optimized |-> 0, requests_ttl_upgraded |-> 0,
                 cache_breakpoints_added |-> 0, cache_breakpoints_skipped_full |-> 0,
                 tool_results_truncated |-> 0, bytes_saved |-> 0]

-----------------------------------------------------------------------------

Mark == {"no", "5m", "1h"}

String == <<"text">>

Block == [mark : Mark, texts : Seq([mark : Mark, length : Nat])]

IsBody(body) ==
    /\ DOMAIN body = {"tools", "system", "messages"}
    /\ body.tools \in Seq(Mark)
    /\ body.system \in Seq(Mark) \cup {String}
    /\ body.messages \in Seq(Seq(Block))

IsSaver(s) ==
    s \in [enabled : BOOLEAN, extend : BOOLEAN, force5m : BOOLEAN, truncate : BOOLEAN,
           max : Nat, head : Nat, tail : Nat]

\* up to n a number one greater makes the note no more than a character longer
NoteGrows(n) ==
    /\ \A k \in -n .. n : MarkerLength(k) \in Nat
    /\ \A k \in 1 .. n : MarkerLength(k) - MarkerLength(k - 1) \in {0, 1}

SystemMarks(body) == IF body.system = String THEN <<>> ELSE body.system

\* a block has its own mark, at 0, and those of its texts
BlockMark(block, t) == IF t = 0 THEN block.mark ELSE block.texts[t].mark

MessagePlaces(messages) ==
    UNION {UNION {{<<3, m, b, t>> : t \in {0} \cup DOMAIN messages[m][b].texts}
                    : b \in DOMAIN messages[m]} : m \in DOMAIN messages}

\* where a body may carry a mark
MarkPlaces(body) ==
    {<<1, i, 0, 0>> : i \in DOMAIN body.tools}
      \cup {<<2, i, 0, 0>> : i \in DOMAIN SystemMarks(body)}
      \cup MessagePlaces(body.messages)

Marks(body) ==
    [p \in MarkPlaces(body) |->
        IF p[1] = 1 THEN body.tools[p[2]]
        ELSE IF p[1] = 2 THEN SystemMarks(body)[p[2]]
        ELSE BlockMark(body.messages[p[2]][p[3]], p[4])]

\* a body is processed in the order of its places
Earlier(p, q) == \E i \in 1 .. 4 : p[i] < q[i] /\ \A j \in 1 .. i - 1 : p[j] = q[j]

_asks_for_1h(body) == "1h" \in Range(Marks(body))

Breakpoints(body) ==
    LET marks == Marks(body)
    IN  {p \in DOMAIN marks : marks[p] # "no"}

_count_cache_breakpoints(body) == Cardinality(Breakpoints(body))

-----------------------------------------------------------------------------
(* Breakpoints.                                                            *)

\* mutant: only the last breakpoint is raised
LastRaised(marks) ==
    [i \in DOMAIN marks |-> IF marks[i] = "5m" /\ i = Len(marks) THEN "1h" ELSE marks[i]]

Raised(marks) == [i \in DOMAIN marks |-> IF marks[i] = "5m" THEN "1h" ELSE marks[i]]

\* what may still get a breakpoint at its end
Open(marks) == marks # <<>> /\ Last(marks) = "no"

Closed(marks) == [marks EXCEPT ![Len(marks)] = "1h"]

_apply_cache_breakpoints(body) ==
    LET budget == MAX_CACHE_BREAKPOINTS - _count_cache_breakpoints(body)
        prompt == IF body.system = String THEN <<"no">> ELSE Raised(body.system)
        tools  == Raised(body.tools)
        first  == Open(prompt) /\ budget > 0
        second == Open(tools) /\ budget > (IF first THEN 1 ELSE 0)
    IN  [body |-> [body EXCEPT
                      !.system = IF first THEN Closed(prompt)
                                 ELSE IF body.system = String THEN String ELSE prompt,
                      !.tools = IF second THEN Closed(tools) ELSE tools],
         modified |-> Cardinality({i \in DOMAIN body.tools : body.tools[i] = "5m"})
                      + Cardinality({i \in DOMAIN SystemMarks(body) : body.system[i] = "5m"})
                      + (IF first THEN 1 ELSE 0) + (IF second THEN 1 ELSE 0),
         skipped  |-> (IF Open(prompt) /\ ~first THEN 1 ELSE 0)
                      + (IF Open(tools) /\ ~second THEN 1 ELSE 0)]

\* CACHE_FORCE_TTL = 5m
Lowered(mark) == IF mark = "1h" THEN "5m" ELSE mark

LoweredAll(marks) == [i \in DOMAIN marks |-> Lowered(marks[i])]

force_short_ttl(body) ==
    [tools    |-> LoweredAll(body.tools),
     system   |-> IF body.system = String THEN String ELSE LoweredAll(body.system),
     messages |-> [m \in DOMAIN body.messages |-> [b \in DOMAIN body.messages[m] |->
                      LET block == body.messages[m][b]
                      IN  [mark  |-> Lowered(block.mark),
                           texts |-> [t \in DOMAIN block.texts |->
                               [block.texts[t] EXCEPT !.mark = Lowered(@)]]]]]]

-----------------------------------------------------------------------------
(* Tool results.                                                           *)

Kept(length) == Min({length, saver.head}) + Min({length, saver.tail})

\* the length of what is left, and by how much it is said to be shorter
_head_tail_truncate(length) ==
    LET omitted == length - Kept(length)
    IN  [length  |-> Kept(length) + MarkerLength(omitted),
         removed |-> Max({0, omitted - MarkerLength(omitted)})]

Long(text) == text.length > saver.max

Shortened(text) ==
    IF Long(text) THEN [text EXCEPT !.length = _head_tail_truncate(@).length] ELSE text

OldMessages(body) == 1 .. Len(body.messages) - TOOL_RESULT_KEEP_RECENT

_truncate_tool_results(body) ==
    [body EXCEPT !.messages = [m \in DOMAIN body.messages |->
        IF m \notin OldMessages(body) THEN body.messages[m]
        ELSE [b \in DOMAIN body.messages[m] |->
                 LET block == body.messages[m][b]
                 IN  [block EXCEPT !.texts = [t \in DOMAIN block.texts |->
                                                 Shortened(block.texts[t])]]]]]

TextPlaces(body) == {p \in MessagePlaces(body.messages) : p[4] # 0}

\* the lengths of the texts by their places
TextLengths(body) ==
    [p \in TextPlaces(body) |-> body.messages[p[2]][p[3]].texts[p[4]].length]

\* the places of the texts that are cut
Cut(body) ==
    {p \in TextPlaces(body) : p[2] \in OldMessages(body) /\ TextLengths(body)[p] > saver.max}

SumOf(f) == FoldFunction(+, 0, f)

-----------------------------------------------------------------------------

Extends == saver.enabled /\ saver.extend /\ ~saver.force5m /\ ~latched

\* the body that goes out and whether the headers ask for the beta
Prepared(body) ==
    LET raised == IF Extends THEN _apply_cache_breakpoints(body).body ELSE body
        cut    == IF saver.enabled /\ saver.truncate THEN _truncate_tool_results(raised) ELSE raised
    IN  [body |-> IF saver.force5m THEN force_short_ttl(cut) ELSE cut,
         beta |-> Extends]

optimize_data(body) ==
    LET applied   == _apply_cache_breakpoints(body)
        modified  == IF Extends THEN applied.modified ELSE 0
        skipped   == IF Extends THEN applied.skipped ELSE 0
        lengths   == TextLengths(body)
        cut       == IF saver.enabled /\ saver.truncate THEN Cut(body) ELSE {}
        removed   == SumOf([p \in DOMAIN lengths |->
                         IF p \in cut THEN _head_tail_truncate(lengths[p]).removed ELSE 0])
        changed   == modified > 0 \/ cut # {}
    IN  saved' = [requests_optimized |-> saved.requests_optimized + (IF changed THEN 1 ELSE 0),
                  requests_ttl_upgraded |-> saved.requests_ttl_upgraded
                                              + (IF modified > 0 THEN 1 ELSE 0),
                  cache_breakpoints_added |-> saved.cache_breakpoints_added + modified,
                  cache_breakpoints_skipped_full |-> saved.cache_breakpoints_skipped_full
                                                       + skipped,
                  tool_results_truncated |-> saved.tool_results_truncated
                                               + Cardinality(cut),
                  bytes_saved |-> saved.bytes_saved + removed]

-----------------------------------------------------------------------------

\* no hour after five minutes
Ordered(body) ==
    LET marks == Marks(body)
    IN  \A p \in DOMAIN marks, q \in DOMAIN marks :
            marks[p] = "5m" /\ marks[q] = "1h" => ~Earlier(p, q)

\* the cut pays for every text that is long enough to be cut
CutPays == saver.head + saver.tail + MarkerLength(saver.max) <= saver.max

(* The body that goes out is one the API accepts if the client's was: it   *)
(* has no more breakpoints than allowed and no hour after five minutes, an *)
(* hour the client did not ask for goes with the beta, and none goes out   *)
(* under CACHE_FORCE_TTL = 5m.  The recent messages are whole; where the   *)
(* cut pays the texts are shorter by what is counted as saved.             *)
BodyStaysValid(before, sent, counts) ==
    LET after == sent.body
    IN  /\ _count_cache_breakpoints(after)
             <= Max({MAX_CACHE_BREAKPOINTS, _count_cache_breakpoints(before)})
        /\ Ordered(before) => Ordered(after)
        /\ _asks_for_1h(after) /\ ~_asks_for_1h(before) => sent.beta
        /\ saver.force5m => ~_asks_for_1h(after)
        /\ DOMAIN TextLengths(after) = DOMAIN TextLengths(before)
        /\ \A p \in DOMAIN TextLengths(before) :
               p[2] \notin OldMessages(before) => TextLengths(after)[p] = TextLengths(before)[p]
        /\ CutPays => SumOf(TextLengths(before)) - SumOf(TextLengths(after)) = counts.bytes_saved
        /\ (counts.requests_ttl_upgraded > 0) <=>
               sent.beta /\ Marks(after) # Marks(before)
=============================================================================
