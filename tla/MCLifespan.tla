---------------------------- MODULE MCLifespan -----------------------------
(* Instances of Lifespan for TLC.                                          *)
EXTENDS Lifespan

CONSTANTS u1, u2, u3, k1, k2

Price(from, price) == [from |-> from, price |-> price]

MCBundled ==
    ("opus-5"   :> <<Price(0, 15)>>) @@
    ("sonnet-5" :> <<Price(0, 3), Price(1, 2)>>)

\* a model's own price from tomorrow on; an invalid document; a last one
MCDocuments ==
    << "opus-5.5" :> <<Price(1, 6)>>,
       ("sonnet-5" :> <<Price(0, 4), Price(0, 5)>>) @@ ("opus-5" :> <<Price(0, 14)>>),
       ("opus-5.5" :> <<Price(2, 8), Price(0, 7)>>) @@ ("sonnet-5" :> <<Price(1, 1)>>) >>

MCKeysOf(m) ==
    CASE m = "claude-opus-5-5" -> <<"opus-5.5", "opus-5">>
      [] m = "claude-sonnet-5" -> <<"sonnet-5">>
      [] m = "claude-new-6"    -> <<>>

None == [starts |-> 0, crashes |-> 0, turns |-> 0, requests |-> 0, alerts |-> 0,
         marks |-> 0, toggles |-> 0, refreshes |-> 0, documents |-> 0, ticks |-> 0,
         days |-> 0, models |-> {}, users |-> {}, caps |-> {}]

ForAlerts == [None EXCEPT !.starts = 1, !.alerts = 5, !.ticks = 2]

ForLateTurns == [None EXCEPT !.starts = 1, !.crashes = 1, !.turns = 2, !.alerts = 2,
                             !.models = {"claude-sonnet-5"}, !.users = {u1}, !.caps = AlertKey]

ForCoach == [None EXCEPT !.starts = 2, !.crashes = 1, !.turns = 3, !.toggles = 2, !.days = 2,
                         !.models = {"claude-new-6"}, !.users = {u1}]

ForUsers == [None EXCEPT !.starts = 2, !.turns = 4, !.requests = 1,
                         !.models = {"claude-new-6"}, !.users = {u1, u2, u3}]

ForMarks == [None EXCEPT !.starts = 2, !.crashes = 1, !.marks = 4, !.toggles = 1]

ForPrices == [None EXCEPT !.starts = 1, !.turns = 1, !.refreshes = 3, !.documents = 2,
                          !.days = 1, !.models = Model, !.users = {NoUser}]

ForCache == [ForPrices EXCEPT !.starts = 2, !.refreshes = 2, !.days = 2]

MCBudgets == {ForAlerts, ForLateTurns, ForCoach, ForUsers, ForMarks, ForPrices, ForCache}

\* the keys of alerts are told apart by nothing
AlertKeys == Permutations(AlertKey)
=============================================================================
