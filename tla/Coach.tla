------------------------------- MODULE Coach -------------------------------
(***************************************************************************)
(* The coaching counters (coach.py): turns and tool results in total, per  *)
(* week and per user, the last two in bounded maps; what an admin made of  *)
(* the recommendations (coach_insights.py); and .coach.json, which is      *)
(* written at most once per persist interval, for a mark, and when the     *)
(* proxy stops.  COACH_ENABLED is a live setting that gates the recording, *)
(* the load and the save.                                                  *)
(***************************************************************************)
EXTENDS Integers, FiniteSets, Sequences, SequencesExt, Functions

CONSTANTS
    CoachUser,
    NoUser,             \* a request without a label
    Rec,                \* recommendations
    MAX_COACH_WEEKS,
    MAX_COACH_USERS,
    MAX_REC_MARKS

ASSUME CoachAssumption ==
    /\ NoUser \notin CoachUser
    /\ {MAX_COACH_WEEKS, MAX_COACH_USERS, MAX_REC_MARKS} \subseteq Nat \ {0}

VARIABLES
    coach_stats,    \* the dead process's, while none runs
    coachFile,      \* .coach.json
    coachDue,       \* the persist interval has passed since the last save
    COACH_ENABLED,  \* also in .env
    week,           \* the current ISO week
    excused,        \* history: why the file may lack what this process counted,
                    \* or what the file had before it
    opened          \* history: the marks this process took back

coachVars == <<coach_stats, coachFile, coachDue, COACH_ENABLED, week, excused, opened>>

NoBuckets == [k \in {} |-> 0]
NoStats == [turns |-> 0, results |-> 0, by_week |-> NoBuckets, by_user |-> NoBuckets,
            rec_marks |-> <<>>]

-----------------------------------------------------------------------------

BucketOf(buckets, k) ==
    IF k \in DOMAIN buckets THEN buckets[k] ELSE [turns |-> 0, results |-> 0]

With(buckets, k, turns, results) ==
    LET b == BucketOf(buckets, k)
    IN  [x \in DOMAIN buckets \cup {k} |->
            IF x = k THEN [turns |-> b.turns + turns, results |-> b.results + results]
            ELSE buckets[x]]

WithoutOldest(buckets) ==
    IF Cardinality(DOMAIN buckets) <= MAX_COACH_WEEKS THEN buckets
    ELSE Restrict(buckets, {w \in DOMAIN buckets : \E x \in DOMAIN buckets : x < w})

(* What may be left when the least active user is dropped, which at the    *)
(* cap can be the newcomer; among equals the code takes the first to come, *)
(* the model any.                                                          *)
WithoutIdlest(buckets) ==
    IF Cardinality(DOMAIN buckets) <= MAX_COACH_USERS THEN {buckets}
    ELSE {Restrict(buckets, DOMAIN buckets \ {u}) :
            u \in {u \in DOMAIN buckets :
                     \A x \in DOMAIN buckets : buckets[u].turns <= buckets[x].turns}}

\* _bump, by week and by user, and the totals
Bumped(u, turns, results) ==
    {[coach_stats EXCEPT
        !.turns = @ + turns,
        !.results = @ + results,
        !.by_week = WithoutOldest(With(@, week, turns, results)),
        !.by_user = users] :
      users \in IF u = NoUser THEN {coach_stats.by_user}
                ELSE WithoutIdlest(With(coach_stats.by_user, u, turns, results))}

\* the tool results a request brings; nothing is saved
_coach_record_data(u, n) ==
    /\ COACH_ENABLED
    /\ coach_stats' \in Bumped(u, 0, n)
    /\ UNCHANGED <<coachFile, coachDue, COACH_ENABLED, week, excused, opened>>

(* _save_coach_stats, of the new statistics, goes through; or it does      *)
(* nothing, because the coach is disabled, the interval has not passed, or *)
(* the write raised OSError, which is swallowed.                           *)
Saved(force) ==
    /\ COACH_ENABLED
    /\ force \/ coachDue
    /\ coachFile' = coach_stats'
    /\ coachDue' = FALSE

_save_coach_stats(force) == Saved(force) \/ UNCHANGED <<coachFile, coachDue>>

(* A turn has ended.  One whose generator is collected after the last save *)
(* of a shutdown counts in memory only.                                    *)
_coach_record_response(u, late) ==
    /\ COACH_ENABLED
    /\ coach_stats' \in Bumped(u, 1, 0)
    /\ _save_coach_stats(FALSE)
    /\ excused' = excused \cup IF late THEN {"late"} ELSE {}
    /\ UNCHANGED <<COACH_ENABLED, week, opened>>

Marks(marks) == IF Len(marks) > MAX_REC_MARKS THEN Tail(marks) ELSE marks

\* set_rec_status: done, dismissed or snoozed is a mark, open is none; the
\* marks are in the order of their time
set_rec_status(r, open) ==
    /\ coach_stats' = [coach_stats EXCEPT !.rec_marks =
           IF open THEN RemoveFirst(@, r) ELSE Marks(Append(RemoveFirst(@, r), r))]
    /\ opened' = IF open THEN opened \cup ({r} \cap Range(coach_stats.rec_marks))
                 ELSE opened \ {r}
    /\ _save_coach_stats(TRUE)
    /\ UNCHANGED <<COACH_ENABLED, week, excused>>

CoachIntervalPasses ==
    /\ coachDue' = TRUE
    /\ UNCHANGED <<coach_stats, coachFile, COACH_ENABLED, week, excused, opened>>

ToggleCoach ==
    /\ COACH_ENABLED' = ~COACH_ENABLED
    /\ UNCHANGED <<coach_stats, coachFile, coachDue, week, excused, opened>>

NextWeek ==
    /\ week' = week + 1
    /\ UNCHANGED <<coach_stats, coachFile, coachDue, COACH_ENABLED, excused, opened>>

\* mutant: the last save keeps to the interval
FinalSaveIfDue ==
    /\ UNCHANGED <<coach_stats, COACH_ENABLED, week, excused, opened>>
    /\ _save_coach_stats(FALSE)

\* the save of a shutdown
FinalSave ==
    /\ UNCHANGED <<coach_stats, COACH_ENABLED, week, opened>>
    /\ \/ Saved(TRUE) /\ UNCHANGED excused
       \/ /\ UNCHANGED <<coachFile, coachDue>>
          /\ excused' = excused \cup {IF COACH_ENABLED THEN "unwritten" ELSE "disabled"}

CoachCrash ==
    /\ excused' = excused \cup {"crashed"}
    /\ UNCHANGED <<coach_stats, coachFile, coachDue, COACH_ENABLED, week, opened>>

(* _load_coach_stats: nothing is loaded when the coach is disabled, or the *)
(* file cannot be read just then.                                          *)
_load_coach_stats ==
    /\ \/ /\ COACH_ENABLED
          /\ coach_stats' = coachFile
          /\ excused' = {}
       \/ /\ coach_stats' = NoStats
          /\ excused' = IF coachFile = NoStats THEN {} ELSE {"unloaded"}
    /\ coachDue' = TRUE
    /\ opened' = {}
    /\ UNCHANGED <<coachFile, COACH_ENABLED, week>>

CoachInit ==
    /\ coach_stats = NoStats
    /\ coachFile = NoStats
    /\ coachDue = TRUE
    /\ COACH_ENABLED = TRUE
    /\ week = 0
    /\ excused = {}
    /\ opened = {}

CoachTypeOK ==
    /\ \A stats \in {coach_stats, coachFile} :
         /\ {stats.turns, stats.results} \subseteq Nat
         /\ DOMAIN stats.by_week \subseteq 0..week
         /\ Cardinality(DOMAIN stats.by_week) <= MAX_COACH_WEEKS
         /\ DOMAIN stats.by_user \subseteq CoachUser
         /\ Cardinality(DOMAIN stats.by_user) <= MAX_COACH_USERS
         /\ Range(stats.rec_marks) \subseteq Rec
         /\ IsInjective(stats.rec_marks)
         /\ Len(stats.rec_marks) <= MAX_REC_MARKS
    /\ {coachDue, COACH_ENABLED} \subseteq BOOLEAN
    /\ excused \subseteq {"unloaded", "crashed", "late", "unwritten", "disabled"}
    /\ opened \subseteq Rec

-----------------------------------------------------------------------------

\* no week is missing or less, but those before the first
WeeksKeep(old, new) ==
    \A w \in DOMAIN old :
      /\ w \notin DOMAIN new => \A x \in DOMAIN new : x > w
      /\ w \in DOMAIN new =>
           new[w].turns >= old[w].turns /\ new[w].results >= old[w].results

\* no user is missing or less, but one of at most one turn when the map is full
UsersKeep(old, new) ==
    /\ Cardinality(DOMAIN new) >= Cardinality(DOMAIN old)
    /\ \A u \in DOMAIN old :
         \/ /\ u \in DOMAIN new
            /\ new[u].turns >= old[u].turns /\ new[u].results >= old[u].results
         \/ old[u].turns <= 1 /\ Cardinality(DOMAIN new) = MAX_COACH_USERS

\* no mark is missing, but one taken back, or any once the marks had filled up
MarksKeep(old, new, back) ==
    \A r \in Range(old) \ Range(new) :
      r \in back \/ Cardinality(Range(new) \cup back) >= MAX_REC_MARKS

Keeps(old, new, back) ==
    /\ new.turns >= old.turns /\ new.results >= old.results
    /\ WeeksKeep(old.by_week, new.by_week)
    /\ UsersKeep(old.by_user, new.by_user)
    /\ MarksKeep(old.rec_marks, new.rec_marks, back)

(* The file never loses or lessens what it had, week by week, user by user *)
(* and mark by mark, except what the caps displace and the marks taken     *)
(* back, as long as the process had loaded it: one that started with the   *)
(* coach disabled, or could not read it, writes over it.                   *)
FileKeeps ==
    coachFile' # coachFile =>
      Keeps(coachFile, coachFile', opened') \/ "unloaded" \in excused'

(* A process that stops leaves all it counted in the file, unless it       *)
(* crashed, was stopped with the coach disabled, could not write, or       *)
(* counted a turn after the last save.                                     *)
StoppedSaved(stopped) ==
    stopped /\ excused \subseteq {"unloaded"} => coachFile = coach_stats
=============================================================================
