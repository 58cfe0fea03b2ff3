------------------------------ MODULE EnvFile ------------------------------
(***************************************************************************)
(* The .env file (env.py): what the process reads its settings, its        *)
(* session secret and the captured identity from when it starts, and what  *)
(* three parts of it rewrite while it runs.  The file is a function from   *)
(* its keys to their values.                                               *)
(*                                                                         *)
(* save_to_env rewrites the file in place, so a save that fails has one of *)
(* two effects: the file could not be opened and is as it was, or it had   *)
(* been emptied and could not be written (a file of this size is written   *)
(* in one piece, when it is closed).  A crash during a save has the same   *)
(* two.                                                                    *)
(***************************************************************************)
EXTENDS Integers, FiniteSetsExt

VARIABLES
    env,        \* the file
    lost        \* history: keys whose value in the running process is not,
                \* or no longer, in the file because a save failed

envVars == <<env, lost>>

EmptyFile == [k \in {} |-> 0]

save_to_env(file, key, value) ==
    [k \in DOMAIN file \cup {key} |-> IF k = key THEN value ELSE file[k]]

\* what a start reads for key, with the default of settings.py
env_value(key, default) == IF key \in DOMAIN env THEN env[key] ELSE default

(* A series of saves is a function from places, in their order, to         *)
(* <<key, value>>; what the code skips leaves its place out.               *)
KeysOf(saves) == {saves[i][1] : i \in DOMAIN saves}

Latest(saves, key) == saves[Max({i \in DOMAIN saves : saves[i][1] = key})][2]

\* the file after all of a series
AfterSaves(saves) ==
    [k \in DOMAIN env \cup KeysOf(saves) |->
        IF k \in KeysOf(saves) THEN Latest(saves, k) ELSE env[k]]

Before(saves, n) == [i \in {i \in DOMAIN saves : i < n} |-> saves[i]]

(* The series went through as a whole.                                     *)
AllSaved(saves) ==
    /\ env' = AfterSaves(saves)
    /\ lost' = lost \ KeysOf(saves)

(* Those before place n went through, that at n did not.  The keys in      *)
(* unsaved have their new value in the process all the same.               *)
SavesFail(saves, n, unsaved) ==
    LET done == Before(saves, n)
    IN  \/ /\ env' = AfterSaves(done)
           /\ lost' = (lost \ KeysOf(done)) \cup unsaved
        \/ /\ env' = EmptyFile
           /\ lost' = lost \cup DOMAIN AfterSaves(done) \cup unsaved
=============================================================================
