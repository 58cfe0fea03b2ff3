--------------------------- MODULE Configuration ---------------------------
(***************************************************************************)
(* The settings of the running process (settings.py) and the batches the   *)
(* /config console applies to them (config_console.py).                    *)
(*                                                                         *)
(* Of the console's table one setting of each kind is kept, with its real  *)
(* limits, besides the two jitter bounds, which the code treats as a pair: *)
(* randint of the pass-through handler raises when they are inverted.      *)
(***************************************************************************)
EXTENDS EnvFile, Sequences

CONSTANTS
    NaN,        \* float("nan"): no number is above or below it
    Infinity,   \* what JSON's 1e999 is read as
    Huge,       \* an integer too large for a float, as 10**400
    Batches     \* sequences of [key, raw] an admin submits

STALL == "UPSTREAM_STALL_SECONDS"
JMIN == "TIMING_JITTER_MIN_MS"
JMAX == "TIMING_JITTER_MAX_MS"
REFRESH == "IDENTITY_REFRESH_DAYS"
CONNECTIONS == "UPSTREAM_MAX_CONNECTIONS"
TOKEN == "ADMIN_TOKEN"

CONFIG_SPECS ==
    [UPSTREAM_STALL_SECONDS   |-> [type |-> "float", scope |-> "live",    min |-> 0, max |-> 3600],
     TIMING_JITTER_MIN_MS     |-> [type |-> "int",   scope |-> "live",    min |-> 0, max |-> 5000],
     TIMING_JITTER_MAX_MS     |-> [type |-> "int",   scope |-> "live",    min |-> 0, max |-> 5000],
     IDENTITY_REFRESH_DAYS    |-> [type |-> "int",   scope |-> "live",    min |-> 0, max |-> 365],
     UPSTREAM_MAX_CONNECTIONS |-> [type |-> "int",   scope |-> "restart", min |-> 1, max |-> 10000],
     ADMIN_TOKEN              |-> [type |-> "str",   scope |-> "locked"]]

Default ==
    [UPSTREAM_STALL_SECONDS   |-> 120,
     TIMING_JITTER_MIN_MS     |-> 5,
     TIMING_JITTER_MAX_MS     |-> 40,
     IDENTITY_REFRESH_DAYS    |-> 14,
     UPSTREAM_MAX_CONNECTIONS |-> 100]

SettingKeys == DOMAIN Default
LiveKeys == {k \in SettingKeys : CONFIG_SPECS[k].scope = "live"}

ASSUME NumbersAssumption ==
    /\ NaN \in Int \ 0..10000 /\ {Infinity, Huge} \subseteq Int \ (0..10000 \cup {NaN})
    /\ Infinity > 10000 /\ Huge > 10000 /\ Infinity # Huge

ASSUME BatchesAssumption == Batches \subseteq Seq([key : STRING, raw : Int])

VARIABLES
    settings,   \* the attributes of the settings module
    broken      \* history: the operator's file had the jitter bounds inverted, a batch
                \* was cut short after it had set one of them, or a save lost one; and
                \* no batch has gone through since that left both in the file

configVars == <<settings, broken>>

\* what importing settings.py makes of the file
LoadedSettings == [k \in SettingKeys |-> env_value(k, Default[k])]

BoundsLost == {JMIN, JMAX} \cap lost # {}
BoundsInverted == LoadedSettings[JMIN] > LoadedSettings[JMAX]

-----------------------------------------------------------------------------
(* _config_coerce raises ValueError for what is not a number, and for a    *)
(* number beyond the limits; the comparisons do not notice a NaN, which    *)
(* only a float parses to.                                                 *)
_config_coerce(spec, raw) ==
    IF raw = NaN THEN spec.type = "float"
    ELSE spec.min <= raw /\ raw <= spec.max

(* int() of an infinite float and float() of a huge integer raise          *)
(* OverflowError, which nothing catches.                                   *)
Overflows(spec, raw) ==
    \/ spec.type = "int" /\ raw = Infinity
    \/ spec.type = "float" /\ raw = Huge

Editable(c) == c.key \in DOMAIN CONFIG_SPECS /\ CONFIG_SPECS[c.key].scope # "locked"
Raises(c) == Editable(c) /\ Overflows(CONFIG_SPECS[c.key], c.raw)
Accepted(c) == Editable(c) /\ _config_coerce(CONFIG_SPECS[c.key], c.raw)

\* the batch has a value at which the loop ends
CutShort(b) == \E i \in DOMAIN b : Raises(b[i])

\* the changes of a batch that are saved, at their places; a refused one is skipped
Changes(b) ==
    [i \in {i \in DOMAIN b : Accepted(b[i]) /\ \A j \in 1..i : ~Raises(b[j])} |->
        <<b[i].key, b[i].raw>>]

\* the settings once these have been saved: each is made live after its save
LiveAfter(changes) ==
    [k \in SettingKeys |-> IF k \in LiveKeys \cap KeysOf(changes) THEN Latest(changes, k)
                           ELSE settings[k]]

\* mutant: the bounds are only looked at when the batch names the lower one
NormalisedIfNamed(s, changes) ==
    IF s[JMIN] > s[JMAX] /\ JMIN \in KeysOf(changes) THEN [s EXCEPT ![JMIN] = s[JMAX]] ELSE s

Normalised(s, changes) == IF s[JMIN] > s[JMAX] THEN [s EXCEPT ![JMIN] = s[JMAX]] ELSE s

\* the settings of a process that gets through the loop, before it saves the bound
Settled(b) ==
    IF CutShort(b) THEN LiveAfter(Changes(b))
    ELSE Normalised(LiveAfter(Changes(b)), Changes(b))

\* the saves of a batch: its changes, then the lower jitter bound when that had
\* to be brought down
BatchSaves(b) ==
    LET changes == Changes(b)
        bound == IF Settled(b) = LiveAfter(changes) THEN {} ELSE {Len(b) + 1}
    IN  [i \in DOMAIN changes \cup bound |->
            IF i \in DOMAIN changes THEN changes[i] ELSE <<JMIN, Settled(b)[JMIN]>>]

\* a series of saves has one of the jitter bounds
Touches(saves) == {JMIN, JMAX} \cap KeysOf(saves) # {}

(* _config_apply, all the way through.                                     *)
ApplyBatch(b) ==
    /\ ~CutShort(b)
    /\ AllSaved(BatchSaves(b))
    /\ settings' = Settled(b)
    /\ broken' = BoundsLost'

(* As far as a value that overflows: the changes before it are saved and   *)
(* live, those after it and the normalisation are skipped.                 *)
BatchRaises(b) ==
    /\ CutShort(b)
    /\ AllSaved(BatchSaves(b))
    /\ settings' = Settled(b)
    /\ broken' = (broken \/ BoundsLost' \/ Touches(BatchSaves(b)))

(* A save raises OSError, which nothing catches either: again the rest and *)
(* the normalisation are skipped.                                          *)
BatchFails(b) ==
    \E n \in DOMAIN BatchSaves(b) :
      /\ SavesFail(BatchSaves(b), n, IF n > Len(b) THEN {JMIN} ELSE {})
      /\ settings' = IF n > Len(b) THEN Settled(b) ELSE LiveAfter(Before(Changes(b), n))
      /\ broken' = (broken \/ BoundsLost' \/ Touches(Before(BatchSaves(b), n)))

(* Saves of others leave the settings alone.                               *)
OthersSaved ==
    /\ settings' = settings
    /\ broken' = (broken \/ BoundsLost')

(* The process dies during a save.                                         *)
BatchCrashes(b) ==
    \E n \in DOMAIN BatchSaves(b) :
      /\ SavesFail(BatchSaves(b), n, {})
      /\ broken' = (broken \/ BoundsLost' \/ Touches(Before(BatchSaves(b), n)))
=============================================================================
