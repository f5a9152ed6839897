-------------------------------- MODULE Dio --------------------------------
(***************************************************************************)
(* The DIO transaction layer of src/src/dio.rs on one chain.               *)
(*                                                                         *)
(* A DIO (DioExt) keeps a DioState: the dirty rows it will write, a cache  *)
(* of rows it loaded from the chain, the keys locked by a mutable handle  *)
(* in scope and the keys it deleted.  A handle (DaoExt) holds one row, a   *)
(* dirty flag and a shared reference to its DIO's state.  Dropping a DIO  *)
(* with work turns its state into events (writes, then tombstones) and    *)
(* feeds them to the chain under the exclusive view.                      *)
(*                                                                         *)
(* The chain is abstracted to what the DIO reads back from it: the         *)
(* timeline's primary index (latest event per key wins) and the set of    *)
(* tombstoned keys the anti-replay plugin remembers.  The chain lock is   *)
(* the reader/writer lock of spec section 5: a DIO holds the shared view  *)
(* (multi) from creation until its drop releases it, and the commit takes *)
(* the exclusive view (single) once no reader is left.                    *)
(***************************************************************************)
EXTENDS Naturals, FiniteSets

CONSTANTS
    Keys,       \* primary keys a run may use (PrimaryKey)
    Values,     \* object values a row may hold (the data D of a Row)
    Dios,       \* DIO transactions, each run by its own task
    Handles,    \* DaoExt handles; each is created once and never reused
    NoVal,      \* marks an absent entry of a map
    Tomb        \* a primary-index entry whose latest event is a tombstone

ASSUME ConstantsAssumption ==
    /\ NoVal \notin Values
    /\ Tomb \notin Values
    /\ Tomb # NoVal

VARIABLES
    primary,    \* timeline: key -> latest value, Tomb, or NoVal
    tombs,      \* keys the anti-replay plugin has seen a tombstone for
    phase,      \* phase of each DIO
    readers,    \* DIOs holding the shared view of the chain
    dirty,      \* DioState.dirty:   DIO -> key -> value or NoVal
    cache,      \* DioState.cache:   DIO -> key -> value or NoVal
    locked,     \* DioState.locked:  DIO -> set of keys
    deleted,    \* DioState.deleted: DIO -> set of keys
    hnd,        \* DaoExt handles
    panicked    \* a DIO drop panicked on a rejected feed

chainVars == <<primary, tombs>>
vars == <<primary, tombs, phase, readers, dirty, cache, locked, deleted,
          hnd, panicked>>

Phases == {"idle", "open", "committing", "done"}
Slot == Values \cup {NoVal}
IndexEntry == Values \cup {NoVal, Tomb}
FreeHandle == [st |-> "free", dio |-> NoVal, key |-> NoVal, val |-> NoVal,
               dirty |-> FALSE]
LiveHandle == [st: {"live", "gone"}, dio: Dios, key: Keys, val: Values,
               dirty: BOOLEAN]
HandleState == {FreeHandle} \cup LiveHandle
EmptyMap == [k \in Keys |-> NoVal]

TypeOK ==
    /\ primary \in [Keys -> IndexEntry]
    /\ tombs \subseteq Keys
    /\ phase \in [Dios -> Phases]
    /\ readers \subseteq Dios
    /\ dirty \in [Dios -> [Keys -> Slot]]
    /\ cache \in [Dios -> [Keys -> Slot]]
    /\ locked \in [Dios -> SUBSET Keys]
    /\ deleted \in [Dios -> SUBSET Keys]
    /\ hnd \in [Handles -> HandleState]
    /\ panicked \in BOOLEAN

-----------------------------------------------------------------------------
(* Helpers                                                                 *)

\* Keys some state already names; PrimaryKey::generate never returns one.
UsedKeys ==
    {k \in Keys : primary[k] # NoVal}
    \cup {k \in Keys : \E d \in Dios : dirty[d][k] # NoVal
                                       \/ cache[d][k] # NoVal
                                       \/ k \in deleted[d]}
    \cup {hnd[h].key : h \in {g \in Handles : hnd[g] # FreeHandle}}

\* A handle's operations run on its DIO's task: not before the DIO exists
\* and not while that task is blocked in the DIO's drop.
Usable(h) ==
    /\ hnd[h].st = "live"
    /\ phase[hnd[h].dio] \in {"open", "done"}

\* DioState::dirty: the flushed row replaces any cached copy.
StageRow(d, k, v) ==
    /\ cache' = [cache EXCEPT ![d][k] = NoVal]
    /\ dirty' = [dirty EXCEPT ![d][k] = v]

\* A DIO has work to commit when it has dirty rows or deletions.
HasWork(d) ==
    \/ \E k \in Keys : dirty[d][k] # NoVal
    \/ deleted[d] # {}

\* The anti-replay plugin rejects a write to a key it saw a tombstone for
\* (spec I3).  Within one batch the tombstones come after the writes.
Rejected(d) == \E k \in tombs : dirty[d][k] # NoVal

\* Mutant: the tombstones fed before the dirty rows.
IndexBatchWritesLast(d) ==
    [k \in Keys |-> IF dirty[d][k] # NoVal THEN dirty[d][k]
                    ELSE IF k \in deleted[d] THEN Tomb
                    ELSE primary[k]]

\* The timeline after indexing one DIO's batch in feed order: the dirty
\* rows first, then a tombstone for every deleted key, latest event wins.
IndexBatch(d) ==
    [k \in Keys |-> IF k \in deleted[d] THEN Tomb
                    ELSE IF dirty[d][k] # NoVal THEN dirty[d][k]
                    ELSE primary[k]]

-----------------------------------------------------------------------------
(* Initial state: a chain opened with rows already committed (its timeline *)
(* rebuilt from the redo log), no tombstones, no DIO created yet.          *)

Init ==
    /\ primary \in [Keys -> Slot]
    /\ tombs = {}
    /\ phase = [d \in Dios |-> "idle"]
    /\ readers = {}
    /\ dirty = [d \in Dios |-> EmptyMap]
    /\ cache = [d \in Dios |-> EmptyMap]
    /\ locked = [d \in Dios |-> {}]
    /\ deleted = [d \in Dios |-> {}]
    /\ hnd = [h \in Handles |-> FreeHandle]
    /\ panicked = FALSE

-----------------------------------------------------------------------------
(* DIO operations                                                          *)

\* A DIO task is free to create a DIO when it has none or its last one is
\* finished and none of that DIO's handles is still in scope.
TaskFree(d) ==
    /\ phase[d] \in {"idle", "done"}
    /\ \A h \in Handles : hnd[h].st = "live" => hnd[h].dio # d

\* The fresh DioState a new DIO starts with.
FreshState(d) ==
    /\ dirty' = [dirty EXCEPT ![d] = EmptyMap]
    /\ cache' = [cache EXCEPT ![d] = EmptyMap]
    /\ locked' = [locked EXCEPT ![d] = {}]
    /\ deleted' = [deleted EXCEPT ![d] = {}]

\* DioFactoryExt::dio on a ChainAccessorExt: a fresh DioState and the
\* shared view of the chain (self.multi()).  The lock's code is not in
\* this repository and spec section 5 only calls it a reader/writer lock,
\* so a new reader may take the shared view while a drop waits for the
\* exclusive one.
Open(d) ==
    /\ TaskFree(d)
    /\ phase' = [phase EXCEPT ![d] = "open"]
    /\ readers' = readers \cup {d}
    /\ FreshState(d)
    /\ UNCHANGED <<chainVars, hnd, panicked>>

\* DioExt::store: a fresh key, its row staged in dirty, a clean handle.
Store(d) ==
    /\ phase[d] = "open"
    /\ \E h \in Handles, k \in Keys \ UsedKeys, v \in Values :
        /\ hnd[h] = FreeHandle
        /\ dirty' = [dirty EXCEPT ![d][k] = v]
        /\ hnd' = [hnd EXCEPT ![h] = [st |-> "live", dio |-> d, key |-> k,
                                      val |-> v, dirty |-> FALSE]]
    /\ UNCHANGED <<chainVars, phase, readers, cache, locked, deleted,
                   panicked>>

\* Mutant: load without the has_tombstone() check on the chain's row.
LoadNoTombstoneCheck(d) ==
    /\ phase[d] = "open"
    /\ \E h \in Handles, k \in Keys :
        /\ hnd[h] = FreeHandle
        /\ k \notin locked[d]
        /\ dirty[d][k] = NoVal
        /\ cache[d][k] = NoVal
        /\ k \notin deleted[d]
        /\ primary[k] # NoVal
        /\ hnd' = [hnd EXCEPT ![h] = [st |-> "live", dio |-> d, key |-> k,
                                      val |-> primary[k], dirty |-> FALSE]]
        /\ cache' = [cache EXCEPT ![d][k] = primary[k]]
    /\ UNCHANGED <<chainVars, phase, readers, dirty, locked, deleted,
                   panicked>>

\* The clean handle a successful load returns.
LoadRow(d, h, k, v) ==
    hnd' = [hnd EXCEPT ![h] = [st |-> "live", dio |-> d, key |-> k,
                               val |-> v, dirty |-> FALSE]]

\* DioExt::load succeeding: an unlocked key is read from dirty, else from
\* the cache, else (unless deleted) from the chain, where a found row that
\* is not tombstoned is put in the cache.  Every other path is an error
\* that changes nothing.
Load(d) ==
    /\ phase[d] = "open"
    /\ \E h \in Handles, k \in Keys :
        /\ hnd[h] = FreeHandle
        /\ k \notin locked[d]
        /\ \/ /\ dirty[d][k] # NoVal
              /\ LoadRow(d, h, k, dirty[d][k])
              /\ UNCHANGED cache
           \/ /\ dirty[d][k] = NoVal
              /\ cache[d][k] # NoVal
              /\ LoadRow(d, h, k, cache[d][k])
              /\ UNCHANGED cache
           \/ /\ dirty[d][k] = NoVal
              /\ cache[d][k] = NoVal
              /\ k \notin deleted[d]
              /\ primary[k] \in Values
              /\ LoadRow(d, h, k, primary[k])
              /\ cache' = [cache EXCEPT ![d][k] = primary[k]]
    /\ UNCHANGED <<chainVars, phase, readers, dirty, locked, deleted,
                   panicked>>

DropDio(d) ==
    /\ phase[d] = "open"
    /\ readers' = readers \ {d}
    /\ phase' = [phase EXCEPT ![d] = IF HasWork(d) THEN "committing"
                                                    ELSE "done"]
    /\ UNCHANGED <<chainVars, dirty, cache, locked, deleted, hnd, panicked>>

\* Mutant: the commit does not wait for the exclusive view.
CommitWithoutExclusiveView(d) ==
    /\ phase[d] = "committing"
    /\ phase' = [phase EXCEPT ![d] = "done"]
    /\ IF Rejected(d)
         THEN /\ panicked' = TRUE
              /\ UNCHANGED chainVars
         ELSE /\ primary' = IndexBatch(d)
              /\ tombs' = tombs \cup deleted[d]
              /\ UNCHANGED panicked
    /\ UNCHANGED <<readers, dirty, cache, locked, deleted, hnd>>

\* The rest of DioExt::drop, once the exclusive view is granted: the batch
\* is fed; a rejection makes feed(..).unwrap() panic and nothing is kept.
Commit(d) ==
    /\ phase[d] = "committing"
    /\ readers = {}
    /\ phase' = [phase EXCEPT ![d] = "done"]
    /\ IF Rejected(d)
         THEN /\ panicked' = TRUE
              /\ UNCHANGED chainVars
         ELSE /\ primary' = IndexBatch(d)
              /\ tombs' = tombs \cup deleted[d]
              /\ UNCHANGED panicked
    /\ UNCHANGED <<readers, dirty, cache, locked, deleted, hnd>>

-----------------------------------------------------------------------------
(* Handle operations                                                       *)

\* DerefMut / metadata_mut: fork() locks the key on the first mutation (a
\* failed lock only prints a warning) and the row takes a new value.
Modify(h) ==
    /\ Usable(h)
    /\ \E v \in Values :
        hnd' = [hnd EXCEPT ![h].val = v, ![h].dirty = TRUE]
    /\ locked' = IF hnd[h].dirty THEN locked
                 ELSE [locked EXCEPT ![hnd[h].dio] = @ \cup {hnd[h].key}]
    /\ UNCHANGED <<chainVars, phase, readers, dirty, cache, deleted,
                   panicked>>

\* The body of DaoExt::flush for a dirty handle: unlock the key and clear
\* the dirty flag, then serialize the row (as_event()?) and stage it in
\* the DIO's dirty map; if serializing fails the error is returned and
\* the row is not staged, with the key already unlocked.
FlushRow(h) ==
    /\ locked' = [locked EXCEPT ![hnd[h].dio] = @ \ {hnd[h].key}]
    /\ \/ StageRow(hnd[h].dio, hnd[h].key, hnd[h].val)
       \/ UNCHANGED <<dirty, cache>>

\* DaoExt::flush called explicitly on a dirty handle (on a clean handle it
\* does nothing).
Flush(h) ==
    /\ Usable(h)
    /\ hnd[h].dirty
    /\ FlushRow(h)
    /\ hnd' = [hnd EXCEPT ![h].dirty = FALSE]
    /\ UNCHANGED <<chainVars, phase, readers, deleted, panicked>>

\* Drop for DaoExt: the handle leaves scope and flushes itself.
DropHandle(h) ==
    /\ Usable(h)
    /\ IF hnd[h].dirty THEN FlushRow(h)
                       ELSE UNCHANGED <<dirty, cache, locked>>
    /\ hnd' = [hnd EXCEPT ![h].st = "gone", ![h].dirty = FALSE]
    /\ UNCHANGED <<chainVars, phase, readers, deleted, panicked>>

\* DaoExt::delete(self): lock the key (a failed lock only warns), drop the
\* row from dirty and cache and record the deletion; then self goes out of
\* scope and its Drop flushes it, which for a dirty handle unlocks the key
\* and, unless serializing the row fails, stages it in dirty again.
Delete(h) ==
    LET d == hnd[h].dio
        k == hnd[h].key
    IN /\ Usable(h)
       /\ deleted' = [deleted EXCEPT ![d] = @ \cup {k}]
       /\ cache' = [cache EXCEPT ![d][k] = NoVal]
       /\ IF hnd[h].dirty
            THEN /\ locked' = [locked EXCEPT ![d] = @ \ {k}]
                 /\ \E v \in {hnd[h].val, NoVal} :
                        dirty' = [dirty EXCEPT ![d][k] = v]
            ELSE /\ locked' = [locked EXCEPT ![d] = @ \cup {k}]
                 /\ dirty' = [dirty EXCEPT ![d][k] = NoVal]
       /\ hnd' = [hnd EXCEPT ![h].st = "gone", ![h].dirty = FALSE]
       /\ UNCHANGED <<chainVars, phase, readers, panicked>>

-----------------------------------------------------------------------------
(* The specification                                                       *)

Next ==
    \/ \E d \in Dios : Open(d) \/ Store(d) \/ Load(d) \/ DropDio(d) \/ Commit(d)
    \/ \E h \in Handles : Modify(h) \/ Flush(h) \/ DropHandle(h) \/ Delete(h)

\* A drop waiting for the exclusive view is granted it when the lock stays
\* free: any reader/writer lock grants a free lock to a waiting writer.
Fairness ==
    \A d \in Dios : WF_vars(Commit(d))

Spec == Init /\ [][Next]_vars /\ Fairness

-----------------------------------------------------------------------------
(* Properties                                                              *)

\* Cache coherence: every row a live DIO serves from its cache (DioExt::load
\* reads the cache before the chain) is the chain's current row for that
\* key, because no other DIO's commit can run while this one holds the
\* shared view.
CacheCoherent ==
    \A d \in Dios : phase[d] = "open" =>
        \A k \in Keys : cache[d][k] # NoVal => cache[d][k] = primary[k]

\* Tombstones are terminal (spec I3): once any committed batch carried a
\* tombstone for a key, the timeline's latest event for it stays a
\* tombstone, whatever the order of the DIOs' drops and the writes that
\* stale handles of other DIOs stage for it.
TombstoneTerminal ==
    \A k \in tombs : primary[k] = Tomb

DeletedNeverLoads ==
    [][\A h \in Handles :
         (hnd[h] = FreeHandle /\ hnd'[h] # FreeHandle
          /\ hnd'[h].key \in deleted[hnd'[h].dio])
         => FALSE]_vars

\* A DIO's drop never feeds a batch the chain rejects: feed(..).unwrap()
\* in Drop for DioExt assumes the pipeline accepts every commit.
FeedNeverRejected == ~panicked
=============================================================================
