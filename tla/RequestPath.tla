----------------------------- MODULE RequestPath ---------------------------
(***************************************************************************)
(* One request after the other through the parts that decide by themselves *)
(* what becomes of it: the gates (Access), the rewriting of its body       *)
(* (TokenSaver), the reading of its response while it is relayed           *)
(* (UsageTap), and the pauses between the turns of sessions (CacheTtl), in *)
(* the order in which proxy() has them (routes/passthrough.py).  How       *)
(* requests overlap is the subject of StreamProxy and UserCap.             *)
(*                                                                         *)
(* Init draws the inputs of a behaviour from the sequence Inputs: the      *)
(* requests, bodies, responses and settings that occur in it, and how long *)
(* it is.                                                                  *)
(***************************************************************************)
EXTENDS Access, TokenSaver, UsageTap, CacheTtl

CONSTANTS
    Inputs,
    Header, Label   \* what a caller may say of itself

Lists == Seq(Address \cup {Garbage})

IsRequest(r) ==
    /\ DOMAIN r = {"peer", "lines", "urlKey", "headerKey", "label", "path"}
    /\ r.lines \in Seq(Lists)

IsResponse(r) ==
    /\ DOMAIN r = {"type", "lines", "tail"}
    /\ r.tail \in Nat
    /\ DOMAIN r.lines = 1 .. Len(r.lines) /\ Len(r.lines) \in Nat
    /\ \A i \in DOMAIN r.lines : r.lines[i].len \in Nat \ {0}

ASSUME InputsAssumption ==
    /\ Header \subseteq Seq(Lists)
    /\ \A d \in DOMAIN Inputs :
         /\ \A r \in Inputs[d].requests : IsRequest(r)
         /\ \A r \in Inputs[d].responses : IsResponse(r)
         /\ \A s \in Inputs[d].savers : IsSaver(s)
         /\ \A body \in Inputs[d].bodies :
              /\ IsBody(body)
              /\ \A p \in TextPlaces(body) : NoteGrows(TextLengths(body)[p])
         /\ Inputs[d].chunks \subseteq Nat \ {0} /\ IsFiniteSet(Inputs[d].chunks)

VARIABLES
    drawn,          \* the place of the inputs in Inputs
    budget,         \* what there may still be of requests, ticks of the clock,
                    \* months, restarts and edits of the settings
    phase,          \* "idle", "admitted", "sent" or "relaying"
    request,        \* the request under way or last answered; None before
    verdict,
    original, sent, \* its body, as it came and as it goes out
    earlier         \* history: what had been saved before

vars == <<gates, saverVars, tapVars, ttlVars, drawn, budget, phase, request, verdict, original, sent,
          earlier>>

inputs == Inputs[drawn]

NoBody == [tools |-> <<>>, system |-> <<>>, messages |-> <<>>]

Unsent == [body |-> NoBody, beta |-> FALSE]

Init ==
    /\ drawn \in DOMAIN Inputs
    /\ budget = inputs.budget
    /\ quota \in inputs.quotas
    /\ gates \in inputs.gates
    /\ saver \in inputs.savers /\ latched \in inputs.latches
    /\ saved = NothingSaved
    /\ TapInit
    /\ TtlInit
    /\ phase = "idle"
    /\ request = None /\ verdict = None
    /\ original = NoBody /\ sent = Unsent /\ earlier = NothingSaved

-----------------------------------------------------------------------------

Spend(kind) ==
    /\ budget[kind] > 0
    /\ budget' = [budget EXCEPT ![kind] = @ - 1]

\* what is neither blocked nor answered by the proxy itself goes upstream
Forwards(r) == Verdict(r).status = 200 /\ r.path \in {"v1", "//v1"}

Arrive(r) ==
    /\ phase = "idle"
    /\ Spend("requests")
    /\ request' = r
    /\ verdict' = Verdict(r)
    /\ phase' = IF Forwards(r) THEN "admitted" ELSE "idle"
    /\ UNCHANGED <<gates, saverVars, tapVars, ttlVars, drawn, original, sent, earlier>>

Prepare(body) ==
    /\ phase = "admitted"
    /\ phase' = "sent"
    /\ original' = body
    /\ sent' = Prepared(body)
    /\ earlier' = saved
    /\ optimize_data(body)
    /\ CountRequest(_asks_for_1h(body), saver.force5m /\ _asks_for_1h(body))
    /\ UNCHANGED <<gates, saver, latched, tapVars, now, month, quota, period_month, gaps, stored,
                   turnVars, drawn, budget, request, verdict>>

Respond(r) ==
    /\ phase = "sent"
    /\ phase' = "relaying"
    /\ BeginResponse(r)
    /\ UNCHANGED <<gates, saverVars, ttlVars, drawn, budget, request, verdict, original, sent,
                   earlier>>

Relay(n) ==
    /\ phase = "relaying"
    /\ feed(n)
    /\ UNCHANGED <<gates, saverVars, ttlVars, drawn, budget, phase, request, verdict, original, sent,
                   earlier>>

\* by the table of prices that is in use just now (Pricing); the models it has
\* no price for have one key
_normalize_model_key(table, model) ==
    IF model \in DOMAIN table THEN table[model] ELSE "unknown"

\* the relay ends, with the response or before
Finish(session, table) ==
    /\ phase = "relaying"
    /\ phase' = "idle"
    /\ IF finalize.usage = NothingRead.usage THEN UNCHANGED <<countVars, turnVars>>
       ELSE _record_usage(session, _normalize_model_key(table, finalize.model))
    /\ UNCHANGED <<gates, saverVars, tapVars, now, month, quota, drawn, budget, request, verdict,
                   original, sent, earlier>>

Tick ==
    /\ phase = "idle"
    /\ Spend("ticks")
    /\ now' = now + 1
    /\ UNCHANGED <<gates, saverVars, tapVars, month, quota, countVars, turnVars, drawn, phase,
                   request, verdict, original, sent, earlier>>

NextMonth ==
    /\ Spend("months")
    /\ month' = month + 1
    /\ UNCHANGED <<gates, saverVars, tapVars, now, quota, countVars, turnVars, drawn, phase,
                   request, verdict, original, sent, earlier>>

\* the settings of the quota are edited (config_console)
Configure(q) ==
    /\ Spend("edits")
    /\ quota' = q
    /\ UNCHANGED <<gates, saverVars, tapVars, now, month, countVars, turnVars, drawn, phase,
                   request, verdict, original, sent, earlier>>

\* the process ends, whatever it is at, and another starts, perhaps a month later
Restart ==
    /\ Spend("restarts")
    /\ phase' = "idle"
    /\ Reload(month) \/ Reload(month + 1)
    /\ saved' = NothingSaved /\ latched' = FALSE
    /\ UNCHANGED <<gates, saver, tapVars, drawn, request, verdict, original, sent, earlier>>

Next ==
    \/ \E r \in inputs.requests : Arrive(r)
    \/ \E body \in inputs.bodies : Prepare(body)
    \/ \E r \in inputs.responses : Respond(r)
    \/ \E n \in inputs.chunks : Relay(n)
    \/ \E session \in inputs.sessions, table \in inputs.tables : Finish(session, table)
    \/ Tick
    \/ NextMonth
    \/ \E q \in inputs.quotas : Configure(q)
    \/ Restart

Spec == Init /\ [][Next]_vars

-----------------------------------------------------------------------------

(* Whatever a caller says of itself, the verdict on its request is the     *)
(* same (access.py, middleware.py).                                        *)
VerdictsStand ==
    request # None => CallerCannotChoose(request, Header, Label)

(* The body that goes out is valid where the client's was (tokens.py).     *)
BodiesStayValid ==
    phase = "sent" =>
        BodyStaysValid(original, sent, [k \in DOMAIN saved |-> saved[k] - earlier[k]])

(* The tap has read what fits its buffer, however the response was cut     *)
(* into chunks (quota/tap.py).                                             *)
TapReads ==
    phase = "relaying" => ReadsWhatFits(Max(inputs.chunks))
=============================================================================
