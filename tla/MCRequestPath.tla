--------------------------- MODULE MCRequestPath ---------------------------
(* Instances of RequestPath for TLC.                                       *)
EXTENDS RequestPath

MCLabelOfKey(k) == "bob"
MClabel_for_ip(a) == IF a = "office" THEN "alice" ELSE a

\* two digits of the number in the note, or one
MCMarkerLength(n) == IF n \in 0 .. 9 THEN 1 ELSE 2

SeqsUpTo(S, n) == UNION {[1 .. i -> S] : i \in 0 .. n}

Entry == Address \cup {Garbage}

\* at most one line with something in it, or two
Headers(n) ==
    {<<>>} \cup {<<line>> : line \in SeqsUpTo(Entry, n)}
           \cup {<<line, <<"office">>>> : line \in SeqsUpTo(Entry, 1)}

MCHeader == Headers(3)
MCLabels == {None, "alice"}

Requests ==
    [peer : {"proxy", "home"}, lines : Headers(2), urlKey : {None, "good", "bad"},
     headerKey : {None, "good"}, label : MCLabels, path : {"admin", "stats", "v1", "//v1"}]

Simple == [peer |-> "office", lines |-> <<>>, urlKey |-> None, headerKey |-> None,
           label |-> "carol", path |-> "v1"]

OpenGates == [server |-> FALSE, keys |-> FALSE, bypass |-> FALSE, private |-> FALSE]

-----------------------------------------------------------------------------

Plain(mark) == [mark |-> mark, texts |-> <<>>]
Text(mark, length) == [mark |-> mark, length |-> length]
Result(mark, texts) == [mark |-> mark, texts |-> texts]

MessageLists == {
    <<>>,
    << <<Plain("5m")>> >>,
    << <<Plain("1h")>>, <<Plain("5m")>> >>,
    << <<Plain("1h"), Plain("no")>>, <<Result("5m", <<Text("5m", 12)>>)>> >>,
    << <<Result("no", <<Text("no", 7), Text("no", 20)>>)>>, <<Result("no", <<Text("no", 12)>>)>> >>,
    << <<Result("5m", <<Text("1h", 12)>>), Plain("no")>>, <<Plain("no")>> >>,
    << <<Result("no", <<Text("no", 5)>>)>>, <<Result("no", <<Text("5m", 6)>>)>>,
       <<Plain("1h")>> >> }

Bodies == [tools : SeqsUpTo(Mark, 2), system : SeqsUpTo(Mark, 2) \cup {String},
           messages : MessageLists]

Saver(enabled, extend, force5m, truncate, max, head, tail) ==
    [enabled |-> enabled, extend |-> extend, force5m |-> force5m, truncate |-> truncate,
     max |-> max, head |-> head, tail |-> tail]

Savers ==
    {Saver(e, x, f, t, l[1], l[2], l[3]) :
        e, x, f, t \in BOOLEAN, l \in {<<6, 2, 2>>, <<5, 4, 3>>, <<3, 1, 0>>}}

-----------------------------------------------------------------------------

Event(usage, model, stop, tool) ==
    [usage |-> usage, model |-> model, stop |-> stop, tool |-> tool]

MessageStart(model) == Event("in" :> 3 @@ "out" :> 1, model, Nothing, Nothing)
MessageDelta(n, stop) == Event("out" :> n, Nothing, stop, Nothing)
ToolUse(tool) == Event(<<>>, Nothing, Nothing, tool)
Other == Event(<<>>, Nothing, Nothing, Nothing)

Lines == {[len |-> 4, event |-> MessageStart("m1")], [len |-> 3, event |-> MessageDelta(5, Nothing)],
          [len |-> 2, event |-> MessageDelta(7, "end")], [len |-> 3, event |-> ToolUse("read")],
          [len |-> 1, event |-> Other], [len |-> 7, event |-> ToolUse("write")]}

Whole(model) == [len |-> 5, event |-> Event("in" :> 2, model, "end", "read")]

Responses ==
    [type : {"sse"}, lines : SeqsUpTo(Lines, 3), tail : {0, 2, 5}]
      \cup [type : {"json", "other"}, lines : {<<Whole("m1")>>, <<[Whole("m1") EXCEPT !.len = 9]>>},
            tail : {0}]

Answer(model) == [type |-> "json", lines |-> <<Whole(model)>>, tail |-> 0]

-----------------------------------------------------------------------------

Steps(requests, ticks) ==
    [requests |-> requests, ticks |-> ticks, months |-> 0, restarts |-> 0, edits |-> 0]

\* m3 and m4 have no price of their own, m3 only until the prices are refreshed
Table == ("m1" :> "k1") @@ ("m2" :> "k2")
Refreshed == Table @@ ("m3" :> "k1")

Tracked == [tracking |-> TRUE, reset |-> TRUE]

OneRequest == [requests |-> {Simple}, gates |-> {OpenGates},
               savers |-> {Saver(TRUE, TRUE, FALSE, FALSE, 6, 2, 2)}, latches |-> {FALSE},
               bodies |-> {NoBody}, responses |-> {Answer("m1")}, chunks |-> {5},
               sessions |-> {"s1"}, tables |-> {Table}, quotas |-> {Tracked},
               budget |-> Steps(1, 0)]

ForGates == [OneRequest EXCEPT !.requests = Requests, !.gates = Gates, !.bodies = {}]

ForBodies == [OneRequest EXCEPT !.savers = Savers, !.latches = BOOLEAN,
                                !.bodies = Bodies, !.responses = {}]

ForResponses == [OneRequest EXCEPT !.responses = Responses, !.chunks = {1, 2, 3, 5}]

ForTurns == [OneRequest EXCEPT !.sessions = {"s1", "s2", "s3"}, !.budget = Steps(5, 3)]

ForModels == [OneRequest EXCEPT !.sessions = {"s1", "s2", NoSession}, !.budget = Steps(4, 1),
                                !.responses = {Answer("m1"), Answer("m3"), Answer("m4")},
                                !.tables = {Table, Refreshed}]

ForMonths == [OneRequest EXCEPT !.sessions = {"s1", "s2"}, !.quotas = Quotas,
                                !.budget = [requests |-> 3, ticks |-> 1, months |-> 1,
                                            restarts |-> 1, edits |-> 1]]

MCInputs == <<ForGates, ForBodies, ForResponses, ForTurns, ForModels, ForMonths>>
=============================================================================
