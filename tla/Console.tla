------------------------------ MODULE Console ------------------------------
(***************************************************************************)
(* The parts of the proxy that share .env, put together: the settings and  *)
(* the console that changes them, the identity, the session secret, the    *)
(* logins; with failed saves, crashes in the middle of a series of saves,  *)
(* and restarts.                                                           *)
(*                                                                         *)
(* Init draws the bounds of a run from Budgets, so that one run can be     *)
(* long on logins and another on settings.                                 *)
(***************************************************************************)
EXTENDS Configuration, Identity, AdminLogin

CONSTANTS
    InitialFiles,   \* .env files an operator starts with
    Budgets         \* bounds: how many of each step a run may take

\* days count from the day of the first file, its secret is number 0
ASSUME FilesAssumption ==
    \A f \in InitialFiles :
        /\ DOMAIN f \subseteq SettingKeys \cup Headers \cup {STAMP, SECRET}
        /\ \A k \in SettingKeys \cap DOMAIN f : f[k] \in Int
        /\ \A h \in Headers \cap DOMAIN f : f[h] \in Device
        /\ \A k \in {STAMP, SECRET} \cap DOMAIN f : f[k] = 0

VARIABLES
    up,         \* the process runs
    starts,     \* its starts: the secret a start would generate
    budget      \* what is left of the bounds

consoleVars == <<up, starts, budget>>

vars == <<envVars, configVars, identityVars, loginVars, consoleVars>>

Spend(kind) ==
    /\ budget[kind] > 0
    /\ budget' = [budget EXCEPT ![kind] = @ - 1]

-----------------------------------------------------------------------------

(* What the imports take from the file, and persist_generated_session_-    *)
(* secret: a secret the file lacked is generated and saved; when that      *)
(* fails the process runs on with it.                                      *)
SecretGenerated == SECRET \notin DOMAIN env

StartMemory ==
    /\ settings' = LoadedSettings
    /\ captured' = LoadedIdentity
    /\ isCaptured' = (Headers \cap DOMAIN env # {})
    /\ capturedAt' = env_value(STAMP, NoStamp)
    /\ starts' = starts + 1
    /\ secret' = env_value(SECRET, starts')
    /\ torn' = IF "file" \in torn THEN {"file", "memory"} ELSE {}
    /\ cleared' = {}
    /\ UNCHANGED today

\* mutant: only a capture saves the secret
SecretLeftToCapture ==
    /\ env' = env
    /\ lost' = {}

\* a process that has just read the file has lost nothing of it
SecretSaved ==
    /\ env' = IF SecretGenerated THEN save_to_env(env, SECRET, secret') ELSE env
    /\ lost' = {}

SecretUnsaved ==
    /\ SecretGenerated
    /\ \/ env' = env /\ lost' = {SECRET}
       \/ env' = EmptyFile /\ lost' = {SECRET} \cup DOMAIN env

Start ==
    /\ ~up
    /\ Spend("starts")
    /\ up' = TRUE
    /\ StartMemory
    /\ SecretSaved \/ SecretUnsaved
    /\ broken' = (broken \/ BoundsLost')
    /\ UNCHANGED loginVars

Stop ==
    /\ up
    /\ up' = FALSE
    /\ ForgetLogins
    /\ UNCHANGED <<envVars, configVars, identityVars, starts, budget>>

\* an admin's browser has a cookie config_apply accepts
SignedIn == \E c \in cookies : _verify_admin_cookie(c, secret)

\* the body is awaited between the check of the cookie and the batch, which
\* only lets a cookie expire in between
Apply(b) ==
    /\ up
    /\ SignedIn
    /\ Spend("edits")
    /\ \/ (ApplyBatch(b) \/ BatchRaises(b) \/ BatchFails(b)) /\ UNCHANGED <<loginVars, up>>
       \/ BatchCrashes(b) /\ up' = FALSE /\ ForgetLogins /\ UNCHANGED settings
    /\ UNCHANGED <<identityVars, starts>>

Request(d, hs) ==
    /\ up
    /\ Spend("captures")
    /\ \/ /\ Capture(d, hs, settings[REFRESH]) \/ CaptureFails(d, hs, settings[REFRESH])
          /\ UNCHANGED <<loginVars, up>>
       \/ /\ CaptureCrashes(d, hs, settings[REFRESH])
          /\ up' = FALSE
          /\ ForgetLogins
          /\ UNCHANGED <<captured, isCaptured, capturedAt, secret, today, cleared>>
    /\ OthersSaved
    /\ UNCHANGED starts

Login(a) ==
    /\ up
    /\ \/ BeginLogin(a) /\ UNCHANGED budget
       \/ WrongToken(a) /\ Spend("guesses")
       \/ RightToken(a, secret) /\ Spend("logins")
    /\ UNCHANGED <<envVars, configVars, identityVars, up, starts>>

ClockTick ==
    /\ Spend("ticks")
    /\ Tick
    /\ UNCHANGED <<envVars, configVars, identityVars, up, starts>>

NextDay ==
    /\ Spend("days")
    /\ Midnight
    /\ UNCHANGED <<envVars, configVars, loginVars, up, starts>>

Init ==
    /\ env \in InitialFiles
    /\ lost = {}
    /\ settings = Default
    /\ broken = BoundsInverted
    /\ captured = EmptyFile
    /\ isCaptured = FALSE
    /\ capturedAt = NoStamp
    /\ secret = 0
    /\ today = 0
    /\ torn = IF FileWhole THEN {} ELSE {"file"}
    /\ cleared = {}
    /\ now = 0
    /\ failures = NoEntry
    /\ reading = {}
    /\ cookies = {}
    /\ guesses = <<>>
    /\ up = FALSE
    /\ starts = 0
    /\ budget \in Budgets

Next ==
    \/ Start
    \/ Stop
    \/ \E b \in Batches : Apply(b)
    \/ \E d \in Device : \E hs \in HeaderSets : Request(d, hs)
    \/ \E a \in Attempt : Login(a)
    \/ ClockTick
    \/ NextDay

Spec == Init /\ [][Next]_vars

-----------------------------------------------------------------------------

TypeOK ==
    /\ lost \subseteq SettingKeys \cup Headers \cup {STAMP, SECRET}
    /\ DOMAIN env \subseteq SettingKeys \cup Headers \cup {STAMP, SECRET}
    /\ settings \in [SettingKeys -> Int]
    /\ DOMAIN captured \subseteq Headers
    /\ \A h \in DOMAIN captured : captured[h] \in Device
    /\ isCaptured => captured # EmptyFile
    /\ capturedAt \in {NoStamp} \cup 0..today
    /\ secret \in 0..starts
    /\ failures.count \in 0 .. ADMIN_MAX_FAILED + Cardinality(Attempt) - 1
    /\ reading \subseteq Attempt
    /\ torn \subseteq {"file", "memory"}
    /\ cleared \subseteq Headers
    /\ {broken, isCaptured, up} \subseteq BOOLEAN

(* What a restart changes.  Of keys whose save did not fail the file has   *)
(* what the process works with: the live settings, the identity's headers  *)
(* and its age, the secret that consistent ids and the admins' cookies     *)
(* depend on.  Conversely a header is in the file and not in memory only   *)
(* when a refresh, by a device that does not send it, has dropped it from  *)
(* memory alone; and the file has an identity while none is in force only  *)
(* when a capture was cut short or the start found a torn file.            *)
RestartChangesNothing ==
    up =>
      /\ \A k \in LiveKeys \ lost : settings[k] = env_value(k, Default[k])
      /\ \A h \in DOMAIN captured \ lost : h \in DOMAIN env /\ env[h] = captured[h]
      /\ (Headers \cap DOMAIN env) \ DOMAIN captured \subseteq cleared
      /\ Headers \cap DOMAIN env # {} /\ "memory" \notin torn => isCaptured
      /\ isCaptured /\ STAMP \notin lost => capturedAt = env_value(STAMP, NoStamp)
      /\ SECRET \notin lost => secret = env_value(SECRET, -1)

(* The jitter bounds can be drawn from, whatever batches were applied in   *)
(* whatever order and however often the process was restarted in between,  *)
(* unless the operator's file had them inverted, a batch was cut short     *)
(* (by a value that overflows, a failed save or a crash) after it had set  *)
(* one of the two, or a save, of whatever, lost a bound; the next batch    *)
(* that goes through puts them right.                                      *)
JitterUsable == settings[JMIN] > settings[JMAX] => broken

(* Upstream sees one device: the identity in memory has the headers of a   *)
(* single device and knows its age (one without an age is never            *)
(* refreshed), unless a capture was cut short or the process was started   *)
(* from a file that lacks the age or has headers of two devices, because   *)
(* the operator wrote it so or a refresh left a header of the one before.  *)
IdentityWhole ==
    up /\ "memory" \notin torn =>
      /\ \A g, h \in DOMAIN captured : captured[g] = captured[h]
      /\ captured # EmptyFile => capturedAt # NoStamp
=============================================================================
