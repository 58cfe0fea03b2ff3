-------------------------- MODULE ProxyKeysProofs --------------------------
(***************************************************************************)
(* ProxyKeys for every set of keys, every choice of lifetimes, any number  *)
(* of edits, restarts and days.                                            *)
(***************************************************************************)
EXTENDS ProxyKeys, TLAPS

\* A store with the keys that are issued and not deleted, each with the expiry
\* that was last confirmed.
Exact(store) ==
    /\ DOMAIN store = issued \ deleted
    /\ \A k \in DOMAIN store : store[k].expires = until[k]

\* A store of issued keys that has every one, save those of `stale`, as the
\* console last confirmed it.
Right(store, stale) ==
    /\ DOMAIN store \subseteq issued
    /\ \A k \in DOMAIN store \ stale : k \notin deleted /\ store[k].expires = until[k]

\* What holds of memory and file, mishaps or none ...
StoreInv ==
    /\ TypeOK
    /\ by_hash = DOMAIN keys
    /\ ~disk.exists => DOMAIN disk.keys = {}
    /\ Right(keys, lost)
    /\ Right(disk.keys, lost \cup unsaved)

\* ... and as long as there is none.
ExactInv == ~mishap => Exact(disk.keys) /\ (up => Exact(keys))

KeyInv == StoreInv /\ ExactInv

-----------------------------------------------------------------------------
LEMMA WithStore ==
    ASSUME NEW store, IsStore(store), NEW k \in Key, NEW rec \in Record
    PROVE  /\ IsStore(With(store, k, rec))
           /\ DOMAIN With(store, k, rec) = DOMAIN store \cup {k}
           /\ With(store, k, rec)[k] = rec
           /\ \A x \in DOMAIN store \ {k} : With(store, k, rec)[x] = store[x]
  BY DEF IsStore, With

LEMMA WithoutStore ==
    ASSUME NEW store, IsStore(store), NEW k
    PROVE  /\ IsStore(Without(store, k))
           /\ DOMAIN Without(store, k) = DOMAIN store \ {k}
           /\ \A x \in DOMAIN store \ {k} : Without(store, k)[x] = store[x]
  BY DEF IsStore, Without

LEMMA NewRecord ==
    ASSUME TypeOK, NEW enabled \in BOOLEAN, NEW expires \in Nat
    PROVE  [enabled |-> enabled, expires |-> expires] \in Record
  BY DEF Record

LEMMA ExpiryIsADay ==
    ASSUME TypeOK, NEW days \in Lifetimes
    PROVE  Expiry(days) \in Nat
  BY ConstantsAssumption DEF TypeOK, Expiry

\* A forced save writes the store, or finds neither a file nor a key to write,
\* or fails.
LEMMA Saved ==
    ASSUME StoreInv, NEW store, NEW edited \in SUBSET Key, NEW ok \in BOOLEAN,
           SaveForced(store, edited, ok)
    PROVE  /\ due' \in BOOLEAN
           /\ mishap' \in BOOLEAN
           /\ unsaved' \subseteq Key
           /\ \/ disk' = File(store) /\ mishap' = mishap /\ unsaved' = {}
              \/ /\ disk' = disk /\ mishap' = mishap /\ unsaved' = {}
                 /\ ~disk.exists /\ DOMAIN store = {}
              \/ disk' = disk /\ mishap' /\ unsaved' = unsaved \cup edited
<1>1. /\ due' \in BOOLEAN
      /\ mishap' \in BOOLEAN
  BY DEF SaveForced
<1>2. CASE WritesFile(store) /\ ok
  <2>1. disk' = File(store) /\ unsaved' = {}
    BY <1>2 DEF SaveForced
  <2>2. mishap' = mishap
    BY <1>2 DEF SaveForced, StoreInv, TypeOK
  <2> QED BY <1>1, <2>1, <2>2
<1>3. CASE ~WritesFile(store)
  <2>1. disk' = disk /\ unsaved' = {}
    BY <1>3 DEF SaveForced
  <2>2. mishap' = mishap
    BY <1>3 DEF SaveForced, StoreInv, TypeOK
  <2> QED BY <1>1, <1>3, <2>1, <2>2 DEF WritesFile
<1>4. CASE WritesFile(store) /\ ~ok
  <2>1. disk' = disk /\ mishap' /\ unsaved' = unsaved \cup edited
    BY <1>4 DEF SaveForced
  <2>2. unsaved' \subseteq Key
    BY <2>1 DEF StoreInv, TypeOK
  <2> QED BY <1>1, <2>1, <2>2
<1> QED BY <1>2, <1>3, <1>4

\* A save nobody has edited for.
LEMMA SavedAgain ==
    ASSUME StoreInv, NEW ok \in BOOLEAN, SaveForced(keys, {}, ok)
    PROVE  /\ due' \in BOOLEAN
           /\ mishap' \in BOOLEAN
           /\ mishap => mishap'
           /\ unsaved' \subseteq Key
           /\ \/ disk' = File(keys) /\ unsaved' = {}
              \/ disk' = disk /\ ~disk.exists
              \/ disk' = disk /\ unsaved' = unsaved
<1>1. IsStore(keys) /\ {} \in SUBSET Key
  BY DEF StoreInv, TypeOK
<1>2. /\ due' \in BOOLEAN
      /\ mishap' \in BOOLEAN
      /\ unsaved' \subseteq Key
      /\ \/ disk' = File(keys) /\ mishap' = mishap /\ unsaved' = {}
         \/ /\ disk' = disk /\ mishap' = mishap /\ unsaved' = {}
            /\ ~disk.exists /\ DOMAIN keys = {}
         \/ disk' = disk /\ mishap' /\ unsaved' = unsaved \cup {}
  BY <1>1, Saved
<1>3. unsaved \cup {} = unsaved
  OBVIOUS
<1> QED BY <1>2, <1>3

LEMMA FileFields ==
    ASSUME NEW store
    PROVE  /\ File(store).exists
           /\ File(store).exists \in BOOLEAN
           /\ File(store).keys = store
  BY DEF File

-----------------------------------------------------------------------------
LEMMA KeyInit == Init => KeyInv
<1> SUFFICES ASSUME Init PROVE KeyInv
  OBVIOUS
<1>1. IsStore([k \in {} |-> 0]) /\ DOMAIN [k \in {} |-> 0] = {}
  BY DEF IsStore
<1>2. disk.exists = FALSE /\ disk.keys = [k \in {} |-> 0]
  BY DEF Init, NoFile
<1>3. TypeOK
  <2>1. IsStore(keys) /\ IsStore(disk.keys) /\ disk.exists \in BOOLEAN
    BY <1>1, <1>2 DEF Init
  <2>2. /\ up \in BOOLEAN /\ due \in BOOLEAN /\ mishap \in BOOLEAN
        /\ by_hash \subseteq Key /\ issued \subseteq Key /\ lost \subseteq Key
        /\ unsaved \subseteq Key
        /\ deleted \subseteq issued
    BY DEF Init
  <2>3. {today, updates, starts} \subseteq Nat /\ until \in [Key -> Nat]
    BY DEF Init
  <2> QED BY <2>1, <2>2, <2>3 DEF TypeOK
<1>4. StoreInv
  BY <1>1, <1>2, <1>3 DEF Init, StoreInv, Right
<1>5. ExactInv
  <2>1. keys = [k \in {} |-> 0] /\ issued = {} /\ deleted = {}
    BY DEF Init
  <2> QED BY <1>1, <1>2, <2>1 DEF ExactInv, Exact
<1> QED BY <1>4, <1>5 DEF KeyInv

LEMMA KeyStep == KeyInv /\ [Next]_vars => KeyInv'
<1> SUFFICES ASSUME KeyInv, [Next]_vars PROVE KeyInv'
  OBVIOUS
<1>0. StoreInv /\ ExactInv /\ IsStore(keys) /\ IsStore(disk.keys)
  BY DEF KeyInv, StoreInv, TypeOK
<1>1. ASSUME NEW k \in Key, NEW ok \in BOOLEAN, NEW days \in Lifetimes,
             create_key(k, days, ok)
      PROVE  KeyInv'
  <2> DEFINE rec == [enabled |-> TRUE, expires |-> Expiry(days)]
  <2>1. /\ keys' = With(keys, k, rec)
        /\ by_hash' = DOMAIN keys'
        /\ SaveForced(keys', {k}, ok)
        /\ k \notin issued
        /\ issued' = issued \cup {k}
        /\ until' = [until EXCEPT ![k] = Expiry(days)]
        /\ updates' = updates + 1
        /\ UNCHANGED <<up, today, starts, deleted, lost>>
        /\ up
    BY <1>1 DEF create_key, Edit, Reindex
  <2>2. rec \in Record
    BY <1>0, ExpiryIsADay, NewRecord DEF StoreInv
  <2> HIDE DEF rec
  <2>3. /\ IsStore(keys')
        /\ DOMAIN keys' = DOMAIN keys \cup {k}
        /\ keys'[k] = rec
        /\ \A x \in DOMAIN keys \ {k} : keys'[x] = keys[x]
    <3> DEFINE new == With(keys, k, rec)
    <3>1. /\ IsStore(new)
          /\ DOMAIN new = DOMAIN keys \cup {k}
          /\ new[k] = rec
          /\ \A x \in DOMAIN keys \ {k} : new[x] = keys[x]
      BY <1>0, <2>2, WithStore
    <3>2. keys' = new
      BY <2>1
    <3> HIDE DEF new
    <3> QED BY <3>1, <3>2
  <2>4. /\ due' \in BOOLEAN
        /\ mishap' \in BOOLEAN
        /\ unsaved' \subseteq Key
        /\ \/ disk' = File(keys') /\ mishap' = mishap /\ unsaved' = {}
           \/ disk' = disk /\ mishap' /\ unsaved' = unsaved \cup {k}
    <3>1. DOMAIN keys' # {} /\ {k} \in SUBSET Key /\ IsStore(keys')
      BY <2>3
    <3>2. SaveForced(keys', {k}, ok)
      BY <2>1
    <3> QED BY <1>0, <3>1, <3>2, Saved
  <2>5. rec.expires = Expiry(days) /\ Expiry(days) \in Nat
    BY <1>0, ConstantsAssumption DEF rec, Expiry, StoreInv, TypeOK
  <2>6. TypeOK'
    BY <1>0, <2>1, <2>3, <2>4, <2>5, FileFields DEF TypeOK, StoreInv
  <2>7. Right(keys, lost)'
    BY <1>0, <2>1, <2>3, <2>5 DEF StoreInv, Right, TypeOK
  <2>8. Right(disk.keys, lost \cup unsaved)'
    <3>1. CASE disk' = File(keys') /\ unsaved' = {}
      BY <2>7, <3>1, FileFields DEF Right
    <3>2. CASE disk' = disk /\ unsaved' = unsaved \cup {k}
      BY <1>0, <2>1, <3>2 DEF StoreInv, Right, TypeOK
    <3> QED BY <2>4, <3>1, <3>2
  <2>9. StoreInv'
    BY <1>0, <2>1, <2>4, <2>6, <2>7, <2>8, FileFields DEF StoreInv
  <2>10. ExactInv'
    BY <1>0, <2>1, <2>3, <2>4, <2>5, FileFields DEF StoreInv, ExactInv, Exact, TypeOK
  <2> QED BY <2>9, <2>10 DEF KeyInv
<1>2. ASSUME NEW k \in Key, NEW ok \in BOOLEAN, NEW enabled \in BOOLEAN,
             NEW dated \in BOOLEAN, NEW days \in Lifetimes,
             update_key(k, enabled, dated, days, ok)
      PROVE  KeyInv'
  <2> DEFINE expires == Redated(keys[k], dated, days)
             rec == [enabled |-> enabled, expires |-> expires]
  <2>1. /\ keys' = With(keys, k, rec)
        /\ SaveForced(keys', {k}, ok)
        /\ k \in DOMAIN keys
        /\ until' = [until EXCEPT ![k] = expires]
        /\ updates' = updates + 1
        /\ lost' = lost \ ({k} \ deleted)
        /\ UNCHANGED <<up, by_hash, today, starts, issued, deleted>>
        /\ up
    BY <1>2 DEF update_key, Edit
  <2>2. expires \in Nat
    <3>1. Expiry(days) \in Nat
      BY <1>0, ExpiryIsADay DEF StoreInv
    <3>2. keys[k].expires \in Nat
      BY <1>0, <2>1 DEF IsStore, Record
    <3> QED BY <3>1, <3>2 DEF Redated
  <2> HIDE DEF expires
  <2>3. rec \in Record
    BY <1>0, <2>2, NewRecord DEF StoreInv
  <2>4. rec.expires = expires
    OBVIOUS
  <2> HIDE DEF rec
  <2>5. /\ IsStore(keys')
        /\ DOMAIN keys' = DOMAIN keys
        /\ keys'[k] = rec
        /\ \A x \in DOMAIN keys \ {k} : keys'[x] = keys[x]
    <3> DEFINE new == With(keys, k, rec)
    <3>1. /\ IsStore(new)
          /\ DOMAIN new = DOMAIN keys \cup {k}
          /\ new[k] = rec
          /\ \A x \in DOMAIN keys \ {k} : new[x] = keys[x]
      BY <1>0, <2>3, WithStore
    <3>2. DOMAIN keys \cup {k} = DOMAIN keys
      BY <2>1
    <3>3. keys' = new
      BY <2>1
    <3> HIDE DEF new
    <3> QED BY <3>1, <3>2, <3>3
  <2>6. /\ due' \in BOOLEAN
        /\ mishap' \in BOOLEAN
        /\ unsaved' \subseteq Key
        /\ \/ disk' = File(keys') /\ mishap' = mishap /\ unsaved' = {}
           \/ disk' = disk /\ mishap' /\ unsaved' = unsaved \cup {k}
    <3>1. DOMAIN keys' # {} /\ {k} \in SUBSET Key
      BY <2>1, <2>5
    <3> QED BY <1>0, <2>1, <2>5, <3>1, Saved
  <2>7. TypeOK'
    BY <1>0, <2>1, <2>2, <2>5, <2>6, FileFields DEF TypeOK, StoreInv
  <2>8. Right(keys, lost)'
    BY <1>0, <2>1, <2>2, <2>4, <2>5 DEF StoreInv, Right, TypeOK
  <2>9. Right(disk.keys, lost \cup unsaved)'
    BY <1>0, <2>1, <2>2, <2>6, <2>8, FileFields DEF StoreInv, Right, TypeOK
  <2>10. StoreInv'
    BY <1>0, <2>1, <2>5, <2>6, <2>7, <2>8, <2>9, FileFields DEF StoreInv
  <2>11. ExactInv'
    BY <1>0, <2>1, <2>2, <2>4, <2>5, <2>6, FileFields
       DEF StoreInv, ExactInv, Exact, TypeOK
  <2> QED BY <2>10, <2>11 DEF KeyInv
<1>3. ASSUME NEW k \in Key, NEW enabled \in BOOLEAN, RejectedUpdate(k, enabled)
      PROVE  KeyInv'
  <2>1. /\ keys' = [keys EXCEPT ![k].enabled = enabled]
        /\ updates' = updates + 1
        /\ UNCHANGED <<up, by_hash, disk, due, today, starts, issued, deleted, until,
                       unsaved, lost, mishap>>
    BY <1>3 DEF RejectedUpdate, Edit, historyVars
  <2>2. k \in DOMAIN keys /\ keys[k] \in Record
    BY <1>0, <1>3 DEF RejectedUpdate, IsStore
  <2>3. /\ IsStore(keys')
        /\ DOMAIN keys' = DOMAIN keys
        /\ \A x \in DOMAIN keys : keys'[x].expires = keys[x].expires
    BY <1>0, <2>1, <2>2 DEF IsStore, Record
  <2>4. StoreInv'
    BY <1>0, <2>1, <2>3 DEF StoreInv, Right, TypeOK
  <2>5. ExactInv'
    BY <1>0, <2>1, <2>3 DEF ExactInv, Exact
  <2> QED BY <2>4, <2>5 DEF KeyInv
<1>4. ASSUME NEW k \in Key, NEW ok \in BOOLEAN, delete_key(k, ok) PROVE KeyInv'
  <2>1. /\ keys' = Without(keys, k)
        /\ by_hash' = DOMAIN keys'
        /\ SaveForced(keys', {k}, ok)
        /\ k \in DOMAIN keys
        /\ deleted' = deleted \cup {k}
        /\ lost' = lost \ {k}
        /\ updates' = updates + 1
        /\ UNCHANGED <<up, today, starts, issued, until>>
        /\ up
    BY <1>4 DEF delete_key, Edit, Reindex
  <2>2. /\ IsStore(keys')
        /\ DOMAIN keys' = DOMAIN keys \ {k}
        /\ \A x \in DOMAIN keys \ {k} : keys'[x] = keys[x]
    BY <1>0, <2>1, WithoutStore
  <2>3. /\ due' \in BOOLEAN
        /\ mishap' \in BOOLEAN
        /\ unsaved' \subseteq Key
        /\ \/ disk' = File(keys') /\ mishap' = mishap /\ unsaved' = {}
           \/ /\ disk' = disk /\ mishap' = mishap /\ unsaved' = {}
              /\ ~disk.exists /\ DOMAIN keys' = {}
           \/ disk' = disk /\ mishap' /\ unsaved' = unsaved \cup {k}
    BY <1>0, <2>1, <2>2, Saved
  <2>4. /\ deleted' \subseteq issued'
        /\ lost' \subseteq Key
    BY <1>0, <2>1 DEF StoreInv, Right, TypeOK
  <2>5. TypeOK'
    BY <1>0, <2>1, <2>2, <2>3, <2>4, FileFields DEF TypeOK, StoreInv
  <2>6. Right(keys, lost)'
    BY <1>0, <2>1, <2>2 DEF StoreInv, Right
  <2>7. Right(disk.keys, lost \cup unsaved)'
    <3>1. CASE disk' = File(keys') /\ unsaved' = {}
      BY <2>6, <3>1, FileFields DEF Right
    <3>2. CASE disk' = disk /\ ~disk.exists
      BY <1>0, <3>2 DEF StoreInv, Right
    <3>3. CASE disk' = disk /\ unsaved' = unsaved \cup {k}
      BY <1>0, <2>1, <3>3 DEF StoreInv, Right
    <3> QED BY <2>3, <3>1, <3>2, <3>3
  <2>8. ~disk'.exists => DOMAIN disk'.keys = {}
    BY <1>0, <2>3, FileFields DEF StoreInv
  <2>9. StoreInv'
    BY <2>1, <2>5, <2>6, <2>7, <2>8 DEF StoreInv
  <2>10. ExactInv'
    <3> SUFFICES ASSUME ~mishap' PROVE Exact(disk.keys)' /\ Exact(keys)'
      BY DEF ExactInv
    <3>1. Exact(keys)'
      BY <1>0, <2>1, <2>2, <2>3 DEF ExactInv, Exact
    <3>2. CASE disk' = File(keys')
      BY <3>1, <3>2, FileFields DEF Exact
    <3>3. CASE disk' = disk /\ ~disk.exists /\ DOMAIN keys' = {}
      BY <1>0, <3>1, <3>3 DEF StoreInv, Exact
    <3> QED BY <2>3, <3>2, <3>3
  <2> QED BY <2>9, <2>10 DEF KeyInv
<1>5. ASSUME NEW k \in Key, NEW ok \in BOOLEAN, Admit(k, ok) PROVE KeyInv'
  <2>1. UNCHANGED <<up, keys, by_hash, today, updates, starts, issued, deleted, until,
                    lost>>
    BY <1>5 DEF Admit, storeVars
  <2>2. /\ due' \in BOOLEAN
        /\ mishap' \in BOOLEAN
        /\ mishap => mishap'
        /\ unsaved' \subseteq Key
        /\ \/ disk' = File(keys) /\ unsaved' = {}
           \/ disk' = disk /\ ~disk.exists
           \/ disk' = disk /\ unsaved' = unsaved
    <3>1. CASE due
      BY <1>0, <1>5, <3>1, SavedAgain DEF Admit
    <3>2. CASE ~due
      BY <1>0, <1>5, <3>2 DEF Admit, StoreInv, TypeOK
    <3> QED BY <3>1, <3>2
  <2>3. up
    BY <1>5 DEF Admit
  <2>4. StoreInv'
    BY <1>0, <2>1, <2>2, FileFields DEF StoreInv, Right, TypeOK
  <2>5. ExactInv'
    BY <1>0, <2>1, <2>2, <2>3, FileFields DEF ExactInv, Exact
  <2> QED BY <2>4, <2>5 DEF KeyInv
<1>6. ASSUME NEW ok \in BOOLEAN, Shutdown(ok) \/ Crash PROVE KeyInv'
  <2>1. /\ up' = FALSE
        /\ keys' = [k \in {} |-> 0]
        /\ by_hash' = {}
        /\ starts' = starts + 1
        /\ UNCHANGED <<today, updates, issued, deleted, until, lost>>
        /\ up
    BY <1>6 DEF Shutdown, Crash, Down
  <2>2. IsStore(keys') /\ DOMAIN keys' = {}
    BY <2>1 DEF IsStore
  <2>3. /\ due' \in BOOLEAN
        /\ mishap' \in BOOLEAN
        /\ mishap => mishap'
        /\ unsaved' \subseteq Key
        /\ \/ disk' = File(keys) /\ unsaved' = {}
           \/ disk' = disk /\ ~disk.exists
           \/ disk' = disk /\ unsaved' = unsaved
    <3>1. CASE Shutdown(ok)
      BY <1>0, <3>1, SavedAgain DEF Shutdown
    <3>2. CASE Crash
      BY <1>0, <3>2 DEF Crash, StoreInv, TypeOK
    <3> QED BY <1>6, <3>1, <3>2
  <2>4. TypeOK'
    <3>1. /\ disk'.exists \in BOOLEAN
          /\ IsStore(disk'.keys)
      BY <1>0, <2>3, FileFields DEF StoreInv, TypeOK
    <3>2. {today, updates, starts'} \subseteq Nat
      BY <1>0, <2>1 DEF StoreInv, TypeOK
    <3>3. /\ up' \in BOOLEAN
          /\ by_hash' \subseteq Key
      BY <2>1
    <3>4. /\ issued \subseteq Key
          /\ deleted \subseteq issued
          /\ until \in [Key -> Nat]
          /\ lost \subseteq Key
      BY <1>0 DEF StoreInv, TypeOK
    <3> QED BY <2>1, <2>2, <2>3, <3>1, <3>2, <3>3, <3>4 DEF TypeOK
  <2>5. Right(keys, lost)'
    BY <2>2 DEF Right
  <2>6. Right(disk.keys, lost \cup unsaved)'
    BY <1>0, <2>1, <2>3, FileFields DEF StoreInv, Right
  <2>7. ~disk'.exists => DOMAIN disk'.keys = {}
    BY <1>0, <2>3, FileFields DEF StoreInv
  <2>8. StoreInv'
    BY <2>1, <2>2, <2>4, <2>5, <2>6, <2>7 DEF StoreInv
  <2>9. ExactInv'
    BY <1>0, <2>1, <2>3, FileFields DEF ExactInv, Exact
  <2> QED BY <2>8, <2>9 DEF KeyInv
<1>7. ASSUME NEW readable \in BOOLEAN, Start(readable) PROVE KeyInv'
  <2>1. /\ up' = TRUE
        /\ keys' = disk.keys \/ (keys' = [k \in {} |-> 0] /\ mishap')
        /\ by_hash' = DOMAIN keys'
        /\ due' \in BOOLEAN
        /\ mishap' \in BOOLEAN
        /\ mishap => mishap'
        /\ lost' = lost \cup unsaved
        /\ unsaved' = {}
        /\ UNCHANGED <<disk, today, updates, starts, issued, deleted, until>>
    BY <1>7 DEF Start, Index
  <2>2. IsStore([k \in {} |-> 0]) /\ DOMAIN [k \in {} |-> 0] = {}
    BY DEF IsStore
  <2>3. StoreInv'
    BY <1>0, <2>1, <2>2 DEF StoreInv, Right, TypeOK
  <2>4. ExactInv'
    BY <1>0, <2>1 DEF ExactInv, Exact
  <2> QED BY <2>3, <2>4 DEF KeyInv
<1>8. CASE IntervalPasses \/ Midnight \/ UNCHANGED vars
  <2>1. UNCHANGED <<up, keys, by_hash, disk, updates, starts, issued, deleted, until,
                    unsaved, lost, mishap>>
    BY <1>8 DEF IntervalPasses, Midnight, vars, storeVars, historyVars
  <2>2. due' \in BOOLEAN /\ today' \in Nat
    <3>1. due \in BOOLEAN /\ today \in Nat
      BY <1>0 DEF StoreInv, TypeOK
    <3>2. due' = due \/ due' = TRUE
      BY <1>8 DEF IntervalPasses, Midnight, vars
    <3>3. today' = today \/ today' = today + 1
      BY <1>8 DEF IntervalPasses, Midnight, vars
    <3>4. due' \in BOOLEAN
      BY <3>1, <3>2, Zenon
    <3>5. today' \in Nat
      BY <3>1, <3>3
    <3> QED BY <3>4, <3>5
  <2>3. StoreInv'
    BY <1>0, <2>1, <2>2 DEF StoreInv, Right, TypeOK
  <2>4. ExactInv'
    BY <1>0, <2>1 DEF ExactInv, Exact
  <2> QED BY <2>3, <2>4 DEF KeyInv
<1> QED BY <1>1, <1>2, <1>3, <1>4, <1>5, <1>6, <1>7, <1>8 DEF Next

LEMMA KeyAlways == Spec => []KeyInv
  BY KeyInit, KeyStep, PTL DEF Spec

\* Memory and file keep the shape of a store of keys.
THEOREM TypeCorrect == Spec => []TypeOK
<1>1. KeyInv => TypeOK
  BY DEF KeyInv, StoreInv
<1> QED BY <1>1, KeyAlways, PTL

\* Until a write fails or the file cannot be read, no restart or crash adds a
\* key or loses one, and every key is found by its secret.
THEOREM StoreIsExact == Spec => []KeysExact
<1>1. KeyInv => KeysExact
  BY DEF KeyInv, StoreInv, ExactInv, Exact, KeysExact
<1> QED BY <1>1, KeyAlways, PTL

\* A deleted key comes back only if the process it was deleted in ended before
\* any write of the file succeeded.
THEOREM DeletionsHold == Spec => []DeletionHolds
<1>1. KeyInv => DeletionHolds
  BY DEF KeyInv, StoreInv, Right, DeletionHolds
<1> QED BY <1>1, KeyAlways, PTL

\* Whatever fails and whenever it restarts, nobody is admitted with a key that
\* was never issued; nor with one that is deleted, or past the expiry the console
\* last confirmed, unless that last edit was confirmed without a write and the
\* process ended before any write succeeded.
THEOREM AdmissionsAreJustified == Spec => []AdmissionJustified
<1>1. ASSUME KeyInv, NEW k \in Key, verify_secret(k)
      PROVE  k \in issued /\ (k \in lost \/ (k \notin deleted /\ (until[k] = 0 \/ today < until[k])))
  <2>1. k \in DOMAIN keys /\ keys[k] \in Record /\ ~is_expired(keys[k])
    BY <1>1 DEF KeyInv, StoreInv, TypeOK, IsStore, verify_secret, Active
  <2>2. keys[k].expires \in Nat /\ today \in Nat
    BY <1>1, <2>1 DEF Record, KeyInv, StoreInv, TypeOK
  <2>3. keys[k].expires = 0 \/ today < keys[k].expires
    BY <2>1, <2>2 DEF is_expired
  <2>4. k \in issued /\ (k \in lost \/ (k \notin deleted /\ keys[k].expires = until[k]))
    BY <1>1, <2>1 DEF KeyInv, StoreInv, Right
  <2> QED BY <2>3, <2>4
<1>2. KeyInv => AdmissionJustified
  BY <1>1 DEF AdmissionJustified
<1> QED BY <1>2, KeyAlways, PTL
=============================================================================
