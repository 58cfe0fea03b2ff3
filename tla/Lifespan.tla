------------------------------ MODULE Lifespan -----------------------------
(***************************************************************************)
(* The life of the process (app.py, lifespan) around three parts whose     *)
(* work is done beside the requests: the alerts, the coaching counters and *)
(* the prices.  A start loads what is on disk; a shutdown cancels the      *)
(* pricing loop, waits for the alerts under way, saves the counters and    *)
(* closes the clients.  All requests are over when it begins, but the      *)
(* generators of responses whose client hung up may still be collected,    *)
(* and end their turns, at any of its awaits.                              *)
(*                                                                         *)
(* Init draws the bounds of a run from Budgets: how many steps of a kind   *)
(* it may take, and with which inputs.                                     *)
(***************************************************************************)
EXTENDS Alerts, Coach, Pricing

CONSTANTS
    Loop,       \* the fetcher that is remote_pricing_loop
    Budgets

Budget == [starts : Nat, crashes : Nat, turns : Nat, requests : Nat, alerts : Nat,
           marks : Nat, toggles : Nat, refreshes : Nat, documents : Nat, ticks : Nat,
           days : Nat, models : SUBSET Model, users : SUBSET (CoachUser \cup {NoUser}),
           caps : SUBSET AlertKey]

ASSUME LifespanAssumption == Loop \in Fetcher /\ Budgets \subseteq Budget

VARIABLES phase, budget

vars == <<alertVars, coachVars, pricingVars, phase, budget>>

Spend(kind) ==
    /\ budget[kind] > 0
    /\ budget' = [budget EXCEPT ![kind] = @ - 1]

Running == phase = "running"
Up == phase # "off"

-----------------------------------------------------------------------------
(* What the shutdown does in order; phase names the await it is at.        *)

Start ==
    /\ ~Up
    /\ Spend("starts")
    /\ phase' = "running"
    /\ NewAlerts
    /\ _load_coach_stats
    /\ load_cached_remote

Stop ==
    /\ Running
    /\ \A f \in Fetcher \ {Loop} : fetch[f] = Idle
    /\ phase' = "draining"
    /\ BeginDrain
    /\ ForgetPrices
    /\ UNCHANGED <<coachVars, budget>>

Wait ==
    /\ phase = "draining"
    /\ DrainTimesOut
    /\ UNCHANGED <<coachVars, pricingVars, phase, budget>>

SaveAll ==
    /\ phase = "draining"
    /\ Drained
    /\ phase' = "closing"
    /\ FinalSave
    /\ UNCHANGED <<alertVars, pricingVars, budget>>

Exit ==
    /\ phase = "closing"
    /\ phase' = "off"
    /\ AbandonTasks
    /\ UNCHANGED <<coachVars, pricingVars, budget>>

Crash ==
    /\ Up
    /\ Spend("crashes")
    /\ phase' = "off"
    /\ NewAlerts
    /\ CoachCrash
    /\ ForgetPrices

-----------------------------------------------------------------------------

(* A response has ended: it is charged if it had usage, which may raise an *)
(* alert of its user's cap, and counted by the coach.                      *)
EndTurn(m, u) ==
    /\ Up
    /\ Spend("turns")
    /\ \/ Charge(m) /\ ((\E k \in budget.caps : notify(k)) \/ UNCHANGED alertVars)
       \/ UNCHANGED <<pricingVars, alertVars>>
    /\ \/ _coach_record_response(u, phase = "closing")
       \/ ~COACH_ENABLED /\ UNCHANGED coachVars
    /\ UNCHANGED phase

ToolResults(u, n) ==
    /\ Running
    /\ Spend("requests")
    /\ _coach_record_data(u, n)
    /\ UNCHANGED <<alertVars, pricingVars, phase>>

\* an account near its limit, or a stream that stalls
Alert(k) ==
    /\ Running
    /\ Spend("alerts")
    /\ notify(k)
    /\ UNCHANGED <<coachVars, pricingVars, phase>>

AlertEnds(i) ==
    /\ Up
    /\ Sent(i)
    /\ UNCHANGED <<coachVars, pricingVars, phase, budget>>

Mark(r, open) ==
    /\ Running
    /\ Spend("marks")
    /\ set_rec_status(r, open)
    /\ UNCHANGED <<alertVars, pricingVars, phase>>

SetCoach ==
    /\ Running
    /\ Spend("toggles")
    /\ ToggleCoach
    /\ UNCHANGED <<alertVars, pricingVars, phase>>

Interval ==
    /\ Up
    /\ ~coachDue
    /\ CoachIntervalPasses
    /\ UNCHANGED <<alertVars, pricingVars, phase, budget>>

Refresh(f) ==
    /\ Running
    /\ \/ BeginRefresh(f) /\ Spend("refreshes")
       \/ (Answered(f) \/ EndRefresh(f) \/ RefreshFails(f)) /\ UNCHANGED budget
    /\ UNCHANGED <<alertVars, coachVars, phase>>

ViewPrices ==
    /\ Running
    /\ pricing_view
    /\ UNCHANGED <<alertVars, coachVars, phase, budget>>

NewDocument ==
    /\ Spend("documents")
    /\ Publish
    /\ UNCHANGED <<alertVars, coachVars, phase>>

ClockTick ==
    /\ Spend("ticks")
    /\ ClockTicks
    /\ UNCHANGED <<coachVars, pricingVars, phase>>

\* midnight, perhaps between two weeks
NextDay ==
    /\ Spend("days")
    /\ Tomorrow
    /\ NextWeek \/ UNCHANGED coachVars
    /\ UNCHANGED <<alertVars, phase>>

Init ==
    /\ AlertsInit
    /\ CoachInit
    /\ PricingInit
    /\ phase = "off"
    /\ budget \in Budgets

Next ==
    \/ Start
    \/ Stop
    \/ Wait
    \/ SaveAll
    \/ Exit
    \/ Crash
    \/ \E m \in budget.models, u \in budget.users : EndTurn(m, u)
    \/ \E u \in budget.users, n \in 1..2 : ToolResults(u, n)
    \/ \E k \in Keys : Alert(k)
    \/ \E i \in _tasks : AlertEnds(i)
    \/ \E r \in Rec, open \in BOOLEAN : Mark(r, open)
    \/ SetCoach
    \/ Interval
    \/ \E f \in Fetcher : Refresh(f)
    \/ ViewPrices
    \/ NewDocument
    \/ ClockTick
    \/ NextDay

Spec == Init /\ [][Next]_vars

-----------------------------------------------------------------------------

TypeOK ==
    /\ AlertsTypeOK
    /\ CoachTypeOK
    /\ PricingTypeOK
    /\ phase \in {"off", "running", "draining", "closing"}
    /\ ~Running => fetch = [f \in Fetcher |-> Idle]

(* The coach's file keeps what it was given, over restarts and weeks,      *)
(* unless a process that had not loaded it writes; and it is given all     *)
(* there was when the process stops, unless that is by a crash, with the   *)
(* coach disabled, with a write that fails, or before a turn that is       *)
(* counted after the last save.                                            *)
HistoryKept == []StoppedSaved(~Up) /\ [][FileKeeps]_vars
=============================================================================
