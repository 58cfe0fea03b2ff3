----------------------------- MODULE ProxyKeys -----------------------------
(***************************************************************************)
(* The access keys (proxy_keys.py): the store the /keys console edits, the *)
(* digest index a request is looked up in, and the file both are rebuilt   *)
(* from.  A key, its id and its secret are one model value: secrets are    *)
(* random and never reissued.  Labels, notes and use counts are left out.  *)
(***************************************************************************)
EXTENDS Naturals, FiniteSets

CONSTANTS
    Key,
    Lifetimes,   \* days a key may be given; 0 is for ever
    MaxDay,      \* bound: the last day of a run
    MaxUpdates,  \* bound: edits of the console
    MaxStarts    \* bound: restarts of a run

ASSUME ConstantsAssumption ==
    /\ Lifetimes \subseteq Nat
    /\ MaxDay \in Nat
    /\ MaxUpdates \in Nat
    /\ MaxStarts \in Nat

VARIABLES
    up,       \* the process runs
    keys,     \* proxy_keys["keys"]
    by_hash,  \* proxy_keys["by_hash"]: the keys a digest leads to
    disk,     \* the key file
    due,      \* PROXY_KEYS_PERSIST_INTERVAL has passed since the last save
    today,
    updates,  \* (bound)
    starts,   \* (bound)
    issued,   \* history: keys handed out
    deleted,  \* history: keys the console has answered "deleted" for
    until,    \* history: the expiry the console last confirmed for a key
    unsaved,  \* history: keys whose last edit no write of this process followed
    lost,     \* history: keys whose last edit went so with a process that ended
    mishap    \* history: a write has failed, or the file could not be read

storeVars == <<keys, by_hash>>
historyVars == <<issued, deleted, until, unsaved, lost, mishap>>
vars == <<up, keys, by_hash, disk, due, today, updates, starts, issued, deleted,
          until, unsaved, lost, mishap>>

Record == [enabled : BOOLEAN, expires : Nat]
IsStore(f) == DOMAIN f \subseteq Key /\ f \in [DOMAIN f -> Record]
NoFile == [exists |-> FALSE, keys |-> [k \in {} |-> 0]]
File(store) == [exists |-> TRUE, keys |-> store]

TypeOK ==
    /\ up \in BOOLEAN
    /\ IsStore(keys)
    /\ by_hash \subseteq Key
    /\ disk.exists \in BOOLEAN
    /\ IsStore(disk.keys)
    /\ due \in BOOLEAN
    /\ {today, updates, starts} \subseteq Nat
    /\ issued \subseteq Key
    /\ deleted \subseteq issued
    /\ until \in [Key -> Nat]
    /\ unsaved \subseteq Key
    /\ lost \subseteq Key
    /\ mishap \in BOOLEAN

-----------------------------------------------------------------------------
\* mutant: 0 is a lifetime like any other, counted from yesterday
ShortExpiry(days) == (today + days) - 1

Expiry(days) == IF days = 0 THEN 0 ELSE today + days
is_expired(rec) == rec.expires # 0 /\ rec.expires <= today

\* mutant: the expiry is not looked at once a key is enabled
EnabledIsActive(rec) == rec.enabled

Active(rec) == rec.enabled /\ ~is_expired(rec)

Without(store, k) == [x \in DOMAIN store \ {k} |-> store[x]]
With(store, k, rec) == [x \in DOMAIN store \cup {k} |-> IF x = k THEN rec ELSE store[x]]

\* save_keys: not for an empty store that never had a file
WritesFile(store) == DOMAIN store # {} \/ disk.exists

\* save_keys(force=True) of this store; ok: the write succeeded.  A failure is
\* logged, and whoever asked for the save goes on: the keys it has just edited
\* are unsaved from then on.
SaveForced(store, edited, ok) ==
    /\ disk' = IF WritesFile(store) /\ ok THEN File(store) ELSE disk
    /\ due' = (due /\ ~(WritesFile(store) /\ ok))
    /\ unsaved' = IF WritesFile(store) /\ ~ok THEN unsaved \cup edited ELSE {}
    /\ mishap' = (mishap \/ (WritesFile(store) /\ ~ok))

Reindex == by_hash' = DOMAIN keys'

-----------------------------------------------------------------------------
(* The console.                                                            *)

Edit ==
    /\ up
    /\ updates < MaxUpdates
    /\ updates' = updates + 1

create_key(k, days, ok) ==
    /\ Edit
    /\ k \notin issued
    /\ keys' = With(keys, k, [enabled |-> TRUE, expires |-> Expiry(days)])
    /\ Reindex
    /\ SaveForced(keys', {k}, ok)
    /\ issued' = issued \cup {k}
    /\ until' = [until EXCEPT ![k] = Expiry(days)]
    /\ UNCHANGED <<up, today, starts, deleted, lost>>

\* What a patch leaves of the expiry; the console need not send a lifetime.
Redated(rec, dated, days) == IF dated THEN Expiry(days) ELSE rec.expires

\* The answer shows the expiry the key then has.
update_key(k, enabled, dated, days, ok) ==
    /\ Edit
    /\ k \in DOMAIN keys
    /\ keys' = With(keys, k, [enabled |-> enabled,
                              expires |-> Redated(keys[k], dated, days)])
    /\ SaveForced(keys', {k}, ok)
    /\ until' = [until EXCEPT ![k] = Redated(keys[k], dated, days)]
    /\ lost' = lost \ ({k} \ deleted)
    /\ UNCHANGED <<up, by_hash, today, starts, issued, deleted>>

\* `enabled` is applied before a bad label or lifetime raises ValueError: the
\* console answers 400, and nothing is saved.
RejectedUpdate(k, enabled) ==
    /\ Edit
    /\ k \in DOMAIN keys
    /\ keys' = [keys EXCEPT ![k].enabled = enabled]
    /\ UNCHANGED <<up, by_hash, disk, due, today, starts, historyVars>>

\* mutant: the deletion is left to the next debounced save
DeletedLater(k, ok) ==
    /\ Edit
    /\ k \in DOMAIN keys
    /\ keys' = Without(keys, k)
    /\ Reindex
    /\ deleted' = deleted \cup {k}
    /\ UNCHANGED <<up, disk, due, today, starts, issued, until, unsaved, lost, mishap>>

delete_key(k, ok) ==
    /\ Edit
    /\ k \in DOMAIN keys
    /\ keys' = Without(keys, k)
    /\ Reindex
    /\ SaveForced(keys', {k}, ok)
    /\ deleted' = deleted \cup {k}
    /\ lost' = lost \ {k}
    /\ UNCHANGED <<up, today, starts, issued, until>>

-----------------------------------------------------------------------------
(* Requests.                                                               *)

verify_secret(k) == k \in by_hash /\ k \in DOMAIN keys /\ Active(keys[k])

\* A request with the secret of k passes the middleware: record_use, and a
\* debounced save.  Any other is answered 403 and leaves no trace.
Admit(k, ok) ==
    /\ up
    /\ verify_secret(k)
    /\ IF due THEN SaveForced(keys, {}, ok) ELSE UNCHANGED <<disk, due, unsaved, mishap>>
    /\ UNCHANGED <<up, storeVars, today, updates, starts, issued, deleted, until, lost>>

-----------------------------------------------------------------------------
(* The process and the clock.                                              *)

Down ==
    /\ up
    /\ starts < MaxStarts
    /\ starts' = starts + 1
    /\ up' = FALSE
    /\ keys' = [k \in {} |-> 0]
    /\ by_hash' = {}
    /\ UNCHANGED <<today, updates, issued, deleted, until, lost>>

\* The lifespan ends with a forced save.
Shutdown(ok) == Down /\ SaveForced(keys, {}, ok)

Crash == Down /\ UNCHANGED <<disk, due, unsaved, mishap>>

\* mutant: the file is read, the index is not rebuilt
NoIndex(store) == {}

Index(store) == DOMAIN store

\* load_keys: a file that cannot be read is skipped; it stays until some save
\* replaces it.
Start(readable) ==
    /\ ~up
    /\ up' = TRUE
    /\ keys' = IF readable THEN disk.keys ELSE [k \in {} |-> 0]
    /\ by_hash' = Index(keys')
    /\ due' = TRUE
    /\ lost' = lost \cup unsaved
    /\ unsaved' = {}
    /\ mishap' = (mishap \/ ~readable)
    /\ UNCHANGED <<disk, today, updates, starts, issued, deleted, until>>

IntervalPasses ==
    /\ up
    /\ ~due
    /\ due' = TRUE
    /\ UNCHANGED <<up, storeVars, disk, today, updates, starts, historyVars>>

Midnight ==
    /\ today < MaxDay
    /\ today' = today + 1
    /\ UNCHANGED <<up, storeVars, disk, due, updates, starts, historyVars>>

Init ==
    /\ up = TRUE
    /\ keys = [k \in {} |-> 0]
    /\ by_hash = {}
    /\ disk = NoFile
    /\ due = TRUE
    /\ today = 0
    /\ updates = 0
    /\ starts = 0
    /\ issued = {}
    /\ deleted = {}
    /\ until = [k \in Key |-> 0]
    /\ unsaved = {}
    /\ lost = {}
    /\ mishap = FALSE

Next ==
    \/ \E k \in Key, ok \in BOOLEAN :
         \/ \E days \in Lifetimes : create_key(k, days, ok)
         \/ \E enabled, dated \in BOOLEAN, days \in Lifetimes :
                update_key(k, enabled, dated, days, ok)
         \/ delete_key(k, ok)
         \/ Admit(k, ok)
    \/ \E k \in Key, enabled \in BOOLEAN : RejectedUpdate(k, enabled)
    \/ \E ok \in BOOLEAN : Shutdown(ok) \/ Start(ok)
    \/ Crash
    \/ IntervalPasses
    \/ Midnight

Spec == Init /\ [][Next]_vars

-----------------------------------------------------------------------------
(* Properties.                                                             *)

\* Unless a write fails or the file cannot be read, a running proxy knows
\* exactly the keys that were issued and not deleted, across any crashes and
\* restarts, and finds every one of them by its secret.
KeysExact ==
    up /\ ~mishap => /\ DOMAIN keys = issued \ deleted
                     /\ by_hash = DOMAIN keys

\* A deleted key is gone from memory at once and from the file with the next
\* write that succeeds; it is in memory again only if the process it was deleted
\* in ended before such a write.
DeletionHolds ==
    /\ deleted \cap (DOMAIN keys \cup by_hash) \subseteq lost
    /\ deleted \cap DOMAIN disk.keys \subseteq lost \cup unsaved

\* Who is admitted holds an issued key that is not deleted and whose confirmed
\* expiry has not passed, on whatever day, after whatever restarts and failed
\* writes.  The one exception is a key whose last edit the console confirmed
\* although its write failed, and whose process then ended before any write
\* succeeded: the file's older record counts again.
AdmissionJustified ==
    up => \A k \in Key : verify_secret(k) =>
            /\ k \in issued
            /\ \/ k \in lost
               \/ k \notin deleted /\ (until[k] = 0 \/ today < until[k])
=============================================================================
