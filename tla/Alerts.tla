------------------------------- MODULE Alerts ------------------------------
(***************************************************************************)
(* Alerts to a webhook (alerts.py).  notify queues an alert unless its key *)
(* has fired within its cooldown; _sent remembers the keys, as many as     *)
(* _MAX_KEYS, and gives up the one that came in first.  Each alert is a    *)
(* task of its own on the telemetry client; the shutdown waits for those   *)
(* there are, for five seconds.                                            *)
(*                                                                         *)
(* A dictionary of Python keeps a key where it was first put, so _sent is  *)
(* a sequence of [key, at].                                                *)
(***************************************************************************)
EXTENDS Integers, Sequences, FiniteSets

CONSTANTS
    AlertKey,       \* keys that fire once: of a cap's period, of a limit's window
    Stall,          \* the key with a cooldown
    Cooldown,       \* ALERT_COOLDOWN_MINUTES, in ticks of the clock
    _MAX_KEYS

ASSUME AlertsAssumption ==
    Stall \notin AlertKey /\ {Cooldown, _MAX_KEYS} \subseteq Nat \ {0}

VARIABLES
    clock,
    _sent,
    _tasks,     \* alerts on their way: their place in queued
    awaited,    \* the alerts drain waits for, while it does
    queued,     \* history: all alerts of this process, [key, at]
    due,        \* history: those queued before the shutdown, minus those drain
                \* ran out of time for
    unsent      \* history: alerts given up on unsent, their place in queued

alertVars == <<clock, _sent, _tasks, awaited, queued, due, unsent>>

Keys == AlertKey \cup {Stall}
Places(s, k) == {i \in DOMAIN s : s[i].key = k}

-----------------------------------------------------------------------------

\* key has fired and its cooldown, if it has one, has not passed
Quiet(k) ==
    \E i \in Places(_sent, k) : k # Stall \/ clock - _sent[i].at < Cooldown

\* mutant: one key more than the bound
BoundedLate(s) == IF Len(s) > _MAX_KEYS + 1 THEN Tail(s) ELSE s

\* mutant: a full map is emptied
StartsOver(s) == IF Len(s) > _MAX_KEYS THEN <<>> ELSE s

Bounded(s) == IF Len(s) > _MAX_KEYS THEN Tail(s) ELSE s

\* _sent[key] = now
Stamped(k) ==
    IF Places(_sent, k) = {} THEN Append(_sent, [key |-> k, at |-> clock])
    ELSE [i \in DOMAIN _sent |-> IF _sent[i].key = k THEN [_sent[i] EXCEPT !.at = clock]
                                 ELSE _sent[i]]

notify(k) ==
    /\ ~Quiet(k)
    /\ _sent' = Bounded(Stamped(k))
    /\ queued' = Append(queued, [key |-> k, at |-> clock])
    /\ _tasks' = _tasks \cup {Len(queued')}
    /\ UNCHANGED <<clock, awaited, due, unsent>>

(* _send ends: the webhook took the alert, refused it, or was not there,   *)
(* which is all the same to the task.                                      *)
Sent(i) ==
    /\ i \in _tasks
    /\ _tasks' = _tasks \ {i}
    /\ UNCHANGED <<clock, _sent, awaited, queued, due, unsent>>

ClockTicks ==
    /\ clock' = clock + 1
    /\ UNCHANGED <<_sent, _tasks, awaited, queued, due, unsent>>

(* drain waits for the alerts there are, not for those that come while it  *)
(* does.                                                                   *)
BeginDrain ==
    /\ awaited' = _tasks
    /\ due' = _tasks
    /\ UNCHANGED <<clock, _sent, _tasks, queued, unsent>>

Drained == awaited \cap _tasks = {}

\* five seconds have passed
DrainTimesOut ==
    /\ ~Drained
    /\ due' = due \ _tasks
    /\ awaited' = {}
    /\ UNCHANGED <<clock, _sent, _tasks, queued, unsent>>

\* the loop ends and cancels what is left
AbandonTasks ==
    /\ unsent' = unsent \cup _tasks
    /\ _tasks' = {}
    /\ UNCHANGED <<clock, _sent, awaited, queued, due>>

\* a new process starts with nothing
NewAlerts ==
    /\ _sent' = <<>> /\ _tasks' = {} /\ awaited' = {}
    /\ queued' = <<>> /\ due' = {} /\ unsent' = {}
    /\ UNCHANGED clock

AlertsInit ==
    /\ clock = 0
    /\ _sent = <<>> /\ _tasks = {} /\ awaited = {}
    /\ queued = <<>> /\ due = {} /\ unsent = {}

AlertsTypeOK ==
    /\ _sent \in Seq([key : Keys, at : 0..clock])
    /\ Len(_sent) <= _MAX_KEYS
    /\ \A k \in Keys : Cardinality(Places(_sent, k)) <= 1
    /\ _tasks \cup awaited \cup due \cup unsent \subseteq DOMAIN queued

-----------------------------------------------------------------------------

KeysBetween(i, j) == {queued[n].key : n \in i + 1 .. j - 1}

(* The same alert comes again before its time only if the map had to       *)
(* forget it: a key that fires once per process, after _MAX_KEYS others    *)
(* fired in between; the stall, which keeps its old place in the map when  *)
(* it fires again, after _MAX_KEYS others fired since the process started, *)
(* one of them since the last stall.                                       *)
RepeatsExplained ==
    \A i, j \in DOMAIN queued :
        /\ i < j
        /\ queued[i].key = queued[j].key
        /\ queued[i].key = Stall => queued[j].at - queued[i].at < Cooldown
        => /\ queued[i].key # Stall => Cardinality(KeysBetween(i, j)) >= _MAX_KEYS
           /\ queued[i].key = Stall =>
                /\ Cardinality(KeysBetween(0, j) \ {Stall}) >= _MAX_KEYS
                /\ KeysBetween(i, j) # {}

(* A shutdown gives up only on alerts that came after it had begun, and on *)
(* those it has waited five seconds for.                                   *)
LossesExplained == unsent \cap due = {}

(* What becomes of an alert.                                               *)
AlertsExplained == RepeatsExplained /\ LossesExplained
=============================================================================
