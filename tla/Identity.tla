----------------------------- MODULE Identity ------------------------------
(***************************************************************************)
(* The device identity (identity.py): the headers of the first Claude Code *)
(* request are kept, in memory and in .env, and put on every request from  *)
(* then on; after IDENTITY_REFRESH_DAYS the next request replaces them.    *)
(*                                                                         *)
(* The value of a header is the device that sent it.  Only requests to     *)
(* v1/messages with the user agent of Claude Code get as far as this       *)
(* module describes; so every request brings a user agent.                 *)
(***************************************************************************)
EXTENDS EnvFile, Sequences

CONSTANTS
    Device,         \* clients
    AnyDevice,      \* CAPTURE_LOCK_FROM_IP is not set
    CaptureFrom     \* the device CAPTURE_LOCK_FROM_IP names, or AnyDevice

ASSUME IdentityAssumption ==
    AnyDevice \notin Device /\ CaptureFrom \in Device \cup {AnyDevice}

CAPTURE_HEADERS == <<"user-agent", "x-app">>
STAMP == "CAPTURED_AT"
NoStamp == -1
SECRET == "SESSION_SECRET"

VARIABLES
    captured,       \* state.captured_identity
    isCaptured,     \* runtime.identity_captured
    capturedAt,     \* runtime.captured_at, a day
    secret,         \* settings.SESSION_SECRET
    today,          \* the local date
    torn,           \* history: where ("file", "memory") the identity may not be
                    \* that of one capture: the operator's file had it so, a save
                    \* failed, or a header of an earlier one stayed in the file;
                    \* and it may have been loaded since
    cleared         \* history: headers this process had and a refresh dropped, which
                    \* nothing removes from the file

identityVars == <<captured, isCaptured, capturedAt, secret, today, torn, cleared>>

Headers == {CAPTURE_HEADERS[i] : i \in DOMAIN CAPTURE_HEADERS}

\* what importing state.py makes of the file
LoadedIdentity == [h \in Headers \cap DOMAIN env |-> env[h]]

\* the file has the identity of one device, and its age
FileWhole ==
    /\ \A g, h \in Headers \cap DOMAIN env : env[g] = env[h]
    /\ Headers \cap DOMAIN env # {} => STAMP \in DOMAIN env

\* a device's Claude Code may or may not send the headers after the first
HeaderSets == {hs \in SUBSET Headers : "user-agent" \in hs}

-----------------------------------------------------------------------------

is_identity_stale(refreshDays) ==
    /\ refreshDays > 0
    /\ capturedAt # NoStamp
    /\ today - capturedAt >= refreshDays

\* mutant: a stale identity is kept beside the new headers
KeepsStale(refreshDays) == captured

\* what is left of the identity when a capture starts
Cleared(refreshDays) ==
    IF isCaptured /\ is_identity_stale(refreshDays) THEN EmptyFile ELSE captured

MayCapture(d, refreshDays) ==
    /\ ~isCaptured \/ is_identity_stale(refreshDays)
    /\ CaptureFrom \in {d, AnyDevice}

\* these headers taken over
Taken(d, hs, refreshDays) ==
    LET old == Cleared(refreshDays)
    IN  [h \in DOMAIN old \cup hs |-> IF h \in hs THEN d ELSE old[h]]

\* the places of its saves: of a header, that of CAPTURE_HEADERS
StampAt == Len(CAPTURE_HEADERS) + 1
SecretAt == Len(CAPTURE_HEADERS) + 2

CaptureSaves(d, hs) ==
    [i \in {i \in DOMAIN CAPTURE_HEADERS : CAPTURE_HEADERS[i] \in hs} \cup {StampAt, SecretAt} |->
        IF i = StampAt THEN <<STAMP, today>>
        ELSE IF i = SecretAt THEN <<SECRET, secret>> ELSE <<CAPTURE_HEADERS[i], d>>]

\* an older header that the file keeps beside those taken over
LeftBehind(d, file) == \E h \in Headers \cap DOMAIN file : file[h] # d

\* a capture that starts from nothing, or clears what there is, is whole in memory
TornAfterCapture(d, file) ==
    (IF isCaptured \/ captured = EmptyFile THEN {} ELSE torn \cap {"memory"})
    \cup (IF LeftBehind(d, file) THEN {"file"} ELSE {})

HeadersDropped == cleared' = (cleared \cup DOMAIN captured) \ DOMAIN captured'

(* capture_identity_from_request, all the way through.                     *)
Capture(d, hs, refreshDays) ==
    /\ MayCapture(d, refreshDays)
    /\ AllSaved(CaptureSaves(d, hs))
    /\ captured' = Taken(d, hs, refreshDays)
    /\ isCaptured' = TRUE
    /\ capturedAt' = today
    /\ torn' = TornAfterCapture(d, env')
    /\ HeadersDropped
    /\ UNCHANGED <<secret, today>>

(* A save raises OSError and the request fails.  A header is in memory     *)
(* before it is saved, the stamp after.                                    *)
CaptureFails(d, hs, refreshDays) ==
    /\ MayCapture(d, refreshDays)
    /\ \E n \in DOMAIN CaptureSaves(d, hs) :
         LET at == {i \in DOMAIN CAPTURE_HEADERS : i <= n}
         IN  /\ SavesFail(CaptureSaves(d, hs), n, {CAPTURE_HEADERS[i] : i \in at \cap {n}})
             /\ captured' = Taken(d, hs \cap {CAPTURE_HEADERS[i] : i \in at}, refreshDays)
             /\ isCaptured' = (n \in {StampAt, SecretAt})
             /\ capturedAt' = IF n = SecretAt THEN today ELSE capturedAt
    /\ torn' = {"file", "memory"}
    /\ HeadersDropped
    /\ UNCHANGED <<secret, today>>

(* The process dies during a save.                                         *)
CaptureCrashes(d, hs, refreshDays) ==
    /\ MayCapture(d, refreshDays)
    /\ \E n \in DOMAIN CaptureSaves(d, hs) : SavesFail(CaptureSaves(d, hs), n, {})
    /\ torn' = {"file", "memory"}

Midnight ==
    /\ today' = today + 1
    /\ UNCHANGED <<captured, isCaptured, capturedAt, secret, torn, cleared>>
=============================================================================
