----------------------------- MODULE Dio_proofs -----------------------------
(***************************************************************************)
(* Proofs about the DIO model of src/src/dio.rs, for every value of the    *)
(* constants: the type invariant, cache coherence and terminal tombstones. *)
(***************************************************************************)
EXTENDS Dio, TLAPS

\* A handle in scope (live) or dropped (gone) is a full DaoExt record.
LEMMA NotFreeIsLive ==
    ASSUME TypeOK, NEW h \in Handles, hnd[h].st \in {"live", "gone"}
    PROVE  hnd[h] \in LiveHandle
BY DEF TypeOK, HandleState, FreeHandle

\* What flushing a dirty handle does to its DIO's state, whether or not
\* serializing the row succeeds: the key is unlocked, the cache entry is
\* left alone or dropped, and the maps keep their types.
LEMMA FlushRowFacts ==
    ASSUME TypeOK, NEW h \in Handles, hnd[h] \in LiveHandle, FlushRow(h)
    PROVE  /\ dirty' \in [Dios -> [Keys -> Slot]]
           /\ cache' \in [Dios -> [Keys -> Slot]]
           /\ locked' \in [Dios -> SUBSET Keys]
           /\ \/ cache' = cache
              \/ cache' = [cache EXCEPT ![hnd[h].dio][hnd[h].key] = NoVal]
<1>1. hnd[h].dio \in Dios /\ hnd[h].key \in Keys /\ hnd[h].val \in Values
    BY DEF LiveHandle
<1>2. locked' \in [Dios -> SUBSET Keys]
    BY <1>1 DEF FlushRow, TypeOK
<1>3. CASE StageRow(hnd[h].dio, hnd[h].key, hnd[h].val)
    BY <1>1, <1>2, <1>3 DEF StageRow, TypeOK, Slot
<1>4. CASE UNCHANGED <<dirty, cache>>
    BY <1>2, <1>4 DEF TypeOK
<1> QED
    BY <1>3, <1>4 DEF FlushRow

-----------------------------------------------------------------------------
(* Type correctness                                                        *)

\* Every step of the DIO tasks and their handles keeps every variable in
\* its type: the chain index, the four DioState maps and the handle table.
LEMMA TypeStep == TypeOK /\ [Next]_vars => TypeOK'
<1> SUFFICES ASSUME TypeOK, [Next]_vars PROVE TypeOK'
    OBVIOUS
<1> USE ConstantsAssumption
<1>1. ASSUME NEW d \in Dios, Open(d) PROVE TypeOK'
    BY <1>1 DEF chainVars, Open, TaskFree, FreshState, EmptyMap, TypeOK, Phases, Slot
<1>2. ASSUME NEW d \in Dios, Store(d) PROVE TypeOK'
    BY <1>2 DEF chainVars, Store, TypeOK, HandleState, LiveHandle, Slot
<1>3. ASSUME NEW d \in Dios, Load(d) PROVE TypeOK'
    <2>1. PICK h \in Handles, k \in Keys :
              /\ hnd[h] = FreeHandle
              /\ \/ /\ dirty[d][k] # NoVal
                    /\ LoadRow(d, h, k, dirty[d][k])
                    /\ UNCHANGED cache
                 \/ /\ dirty[d][k] = NoVal
                    /\ cache[d][k] # NoVal
                    /\ LoadRow(d, h, k, cache[d][k])
                    /\ UNCHANGED cache
                 \/ /\ primary[k] \in Values
                    /\ LoadRow(d, h, k, primary[k])
                    /\ cache' = [cache EXCEPT ![d][k] = primary[k]]
        BY <1>3 DEF Load
    <2>2. UNCHANGED <<primary, tombs, phase, readers, dirty, locked, deleted,
                      panicked>>
        BY <1>3 DEF Load, chainVars
    <2>3. PICK v \in Values : LoadRow(d, h, k, v)
        BY <2>1 DEF TypeOK, Slot
    <2>4. hnd' \in [Handles -> HandleState]
        BY <2>3 DEF LoadRow, TypeOK, HandleState, LiveHandle
    <2>5. cache' \in [Dios -> [Keys -> Slot]]
        <3>1. CASE UNCHANGED cache
            BY <3>1 DEF TypeOK
        <3>2. CASE cache' = [cache EXCEPT ![d][k] = primary[k]]
              /\ primary[k] \in Values
            BY <3>2 DEF TypeOK, Slot
        <3> QED
            BY <2>1, <3>1, <3>2
    <2> QED
        BY <2>2, <2>4, <2>5 DEF TypeOK
<1>4. ASSUME NEW d \in Dios, DropDio(d) PROVE TypeOK'
    BY <1>4 DEF chainVars, DropDio, TypeOK, Phases
<1>5. ASSUME NEW d \in Dios, Commit(d) PROVE TypeOK'
    <2>1. phase' \in [Dios -> Phases]
        BY <1>5 DEF Commit, TypeOK, Phases
    <2>2. UNCHANGED <<readers, dirty, cache, locked, deleted, hnd>>
        BY <1>5 DEF Commit
    <2>3. CASE Rejected(d)
        BY <1>5, <2>1, <2>2, <2>3 DEF Commit, chainVars, TypeOK
    <2>4. CASE ~Rejected(d)
        <3>1. IndexBatch(d) \in [Keys -> IndexEntry]
            BY DEF IndexBatch, TypeOK, IndexEntry, Slot
        <3>2. primary' = IndexBatch(d) /\ tombs' = tombs \cup deleted[d]
              /\ UNCHANGED panicked
            BY <1>5, <2>4 DEF Commit
        <3> QED
            BY <2>1, <2>2, <3>1, <3>2 DEF TypeOK
    <2> QED
        BY <2>3, <2>4
<1>6. ASSUME NEW h \in Handles, Modify(h) PROVE TypeOK'
    <2>1. hnd[h] \in LiveHandle
        BY <1>6, NotFreeIsLive DEF Modify, Usable
    <2>2. hnd' \in [Handles -> HandleState]
        <3>1. PICK v \in Values :
                  hnd' = [hnd EXCEPT ![h].val = v, ![h].dirty = TRUE]
            BY <1>6 DEF Modify
        <3> QED
            BY <2>1, <3>1 DEF TypeOK, HandleState, LiveHandle
    <2>3. locked' \in [Dios -> SUBSET Keys]
        BY <1>6, <2>1 DEF Modify, TypeOK, LiveHandle
    <2> QED
        BY <1>6, <2>2, <2>3 DEF chainVars, Modify, TypeOK
<1>7. ASSUME NEW h \in Handles, Flush(h) PROVE TypeOK'
    <2>1. hnd[h] \in LiveHandle
        BY <1>7, NotFreeIsLive DEF Flush, Usable
    <2>2. /\ dirty' \in [Dios -> [Keys -> Slot]]
          /\ cache' \in [Dios -> [Keys -> Slot]]
          /\ locked' \in [Dios -> SUBSET Keys]
        BY <1>7, <2>1, FlushRowFacts DEF Flush
    <2> QED
        BY <1>7, <2>1, <2>2 DEF chainVars, Flush, TypeOK, HandleState,
                                LiveHandle
<1>8. ASSUME NEW h \in Handles, DropHandle(h) PROVE TypeOK'
    <2>1. hnd[h] \in LiveHandle
        BY <1>8, NotFreeIsLive DEF DropHandle, Usable
    <2>2. hnd' \in [Handles -> HandleState]
        BY <1>8, <2>1 DEF DropHandle, TypeOK, HandleState, LiveHandle
    <2>3. /\ dirty' \in [Dios -> [Keys -> Slot]]
          /\ cache' \in [Dios -> [Keys -> Slot]]
          /\ locked' \in [Dios -> SUBSET Keys]
        <3>1. CASE hnd[h].dirty
            BY <1>8, <2>1, <3>1, FlushRowFacts DEF DropHandle
        <3>2. CASE ~hnd[h].dirty
            BY <1>8, <3>2 DEF DropHandle, TypeOK
        <3> QED
            BY <3>1, <3>2
    <2> QED
        BY <1>8, <2>2, <2>3 DEF chainVars, DropHandle, TypeOK
<1>9. ASSUME NEW h \in Handles, Delete(h) PROVE TypeOK'
    <2>1. hnd[h] \in LiveHandle
        BY <1>9, NotFreeIsLive DEF Delete, Usable
    <2>2. hnd' \in [Handles -> HandleState]
        BY <1>9, <2>1 DEF Delete, TypeOK, HandleState, LiveHandle
    <2>3. /\ dirty' \in [Dios -> [Keys -> Slot]]
          /\ cache' \in [Dios -> [Keys -> Slot]]
          /\ locked' \in [Dios -> SUBSET Keys]
          /\ deleted' \in [Dios -> SUBSET Keys]
        <3>1. hnd[h].dio \in Dios /\ hnd[h].key \in Keys /\ hnd[h].val \in Values
            BY <2>1 DEF LiveHandle
        <3>2. /\ deleted' = [deleted EXCEPT ![hnd[h].dio] = @ \cup {hnd[h].key}]
              /\ cache' = [cache EXCEPT ![hnd[h].dio][hnd[h].key] = NoVal]
            BY <1>9 DEF Delete
        <3>3. CASE hnd[h].dirty
            <4>1. PICK v \in {hnd[h].val, NoVal} :
                     /\ locked' = [locked EXCEPT ![hnd[h].dio] = @ \ {hnd[h].key}]
                     /\ dirty' = [dirty EXCEPT ![hnd[h].dio][hnd[h].key] = v]
                BY <1>9, <3>3 DEF Delete
            <4> QED
                BY <3>1, <3>2, <4>1 DEF TypeOK, Slot
        <3>4. CASE ~hnd[h].dirty
            <4>1. /\ locked' = [locked EXCEPT ![hnd[h].dio] = @ \cup {hnd[h].key}]
                  /\ dirty' = [dirty EXCEPT ![hnd[h].dio][hnd[h].key] = NoVal]
                BY <1>9, <3>4 DEF Delete
            <4> QED
                BY <3>1, <3>2, <4>1 DEF TypeOK, Slot
        <3> QED
            BY <3>3, <3>4
    <2> QED
        BY <1>9, <2>2, <2>3 DEF chainVars, Delete, TypeOK
<1>10. CASE UNCHANGED vars
    BY <1>10 DEF vars, TypeOK
<1> QED
    BY <1>1, <1>2, <1>3, <1>4, <1>5, <1>6, <1>7, <1>8, <1>9, <1>10 DEF Next

\* Type correctness: in every reachable state the chain index, the DIOs'
\* DioState maps and the DaoExt handles have the types dio.rs gives them.
\* The initial states, a reopened chain and no DIO yet, are well typed.
LEMMA TypeInit == Init => TypeOK
<1> SUFFICES ASSUME Init PROVE TypeOK
    OBVIOUS
<1>1. primary \in [Keys -> IndexEntry]
    BY DEF Init, Slot, IndexEntry
<1>2. hnd \in [Handles -> HandleState]
    BY DEF Init, HandleState
<1>3. /\ dirty \in [Dios -> [Keys -> Slot]]
      /\ cache \in [Dios -> [Keys -> Slot]]
    BY DEF Init, EmptyMap, Slot
<1> QED
    BY <1>1, <1>2, <1>3 DEF Init, TypeOK, Phases

\* Type correctness: in every reachable state the chain index, the DIOs'
\* DioState maps and the DaoExt handles have the types dio.rs gives them.
THEOREM TypeCorrect == Spec => []TypeOK
BY TypeInit, TypeStep, PTL DEF Spec

-----------------------------------------------------------------------------
(* Cache coherence and terminal tombstones                                 *)

\* A DIO that is open still holds the shared view of the chain: DioExt
\* keeps multi from ChainAccessorExt::dio until its drop takes it.
OpenHoldsView == \A d \in Dios : phase[d] = "open" => d \in readers

\* The inductive invariant: CacheCoherent alone is not inductive, since a
\* Commit changes the timeline and nothing in CacheCoherent says that no
\* DIO is open then; OpenHoldsView with Commit's guard readers = {} does.
IInv == TypeOK /\ OpenHoldsView /\ CacheCoherent /\ TombstoneTerminal

\* The steps that leave the timeline, the tombstones and the phases alone
\* keep OpenHoldsView and TombstoneTerminal.
LEMMA ChainFrame ==
    ASSUME IInv, UNCHANGED <<primary, tombs, phase>>, readers' = readers
    PROVE  OpenHoldsView' /\ TombstoneTerminal'
BY DEF IInv, OpenHoldsView, TombstoneTerminal

\* Every step keeps the inductive invariant.
LEMMA IInvStep == IInv /\ [Next]_vars => IInv'
<1> SUFFICES ASSUME IInv, [Next]_vars PROVE IInv'
    OBVIOUS
<1> USE ConstantsAssumption
<1>0. TypeOK'
    BY TypeStep DEF IInv
<1>1. ASSUME NEW d \in Dios, Open(d) PROVE IInv'
    <2>1. OpenHoldsView'
        BY <1>1 DEF Open, IInv, TypeOK, OpenHoldsView
    <2>2. CacheCoherent'
        BY <1>1 DEF Open, FreshState, EmptyMap, chainVars, IInv, TypeOK,
                    CacheCoherent
    <2>3. TombstoneTerminal'
        BY <1>1 DEF Open, chainVars, IInv, TombstoneTerminal
    <2> QED
        BY <1>0, <2>1, <2>2, <2>3 DEF IInv
<1>2. ASSUME NEW d \in Dios, Store(d) PROVE IInv'
    BY <1>0, <1>2, ChainFrame DEF Store, chainVars, IInv, CacheCoherent
<1>3. ASSUME NEW d \in Dios, Load(d) PROVE IInv'
    <2>1. PICK h \in Handles, k \in Keys :
              \/ UNCHANGED cache
              \/ /\ primary[k] \in Values
                 /\ cache' = [cache EXCEPT ![d][k] = primary[k]]
        BY <1>3 DEF Load
    <2>2. UNCHANGED <<primary, tombs, phase, readers>>
        BY <1>3 DEF Load, chainVars
    <2>3. CacheCoherent'
        <3>1. CASE UNCHANGED cache
            BY <2>2, <3>1 DEF IInv, CacheCoherent
        <3>2. CASE cache' = [cache EXCEPT ![d][k] = primary[k]]
            BY <2>2, <3>2 DEF IInv, TypeOK, CacheCoherent
        <3> QED
            BY <2>1, <3>1, <3>2
    <2> QED
        BY <1>0, <2>2, <2>3, ChainFrame DEF IInv
<1>4. ASSUME NEW d \in Dios, DropDio(d) PROVE IInv'
    <2>1. OpenHoldsView'
        BY <1>4 DEF DropDio, IInv, TypeOK, OpenHoldsView
    <2>2. CacheCoherent'
        BY <1>4 DEF DropDio, chainVars, IInv, TypeOK, CacheCoherent
    <2>3. TombstoneTerminal'
        BY <1>4 DEF DropDio, chainVars, IInv, TombstoneTerminal
    <2> QED
        BY <1>0, <2>1, <2>2, <2>3 DEF IInv
<1>5. ASSUME NEW d \in Dios, Commit(d) PROVE IInv'
    <2>1. \A e \in Dios : phase'[e] # "open"
        <3>1. \A e \in Dios : phase[e] # "open"
            BY <1>5 DEF Commit, IInv, OpenHoldsView
        <3> QED
            BY <1>5, <3>1 DEF Commit, IInv, TypeOK
    <2>2. OpenHoldsView' /\ CacheCoherent'
        BY <2>1 DEF OpenHoldsView, CacheCoherent
    <2>3. TombstoneTerminal'
        <3>1. CASE Rejected(d)
            BY <1>5, <3>1 DEF Commit, chainVars, IInv, TombstoneTerminal
        <3>2. CASE ~Rejected(d)
            <4>1. primary' = IndexBatch(d) /\ tombs' = tombs \cup deleted[d]
                BY <1>5, <3>2 DEF Commit
            <4>2. \A k \in tombs : dirty[d][k] = NoVal
                BY <3>2 DEF Rejected
            <4> QED
                BY <4>1, <4>2 DEF IndexBatch, IInv, TypeOK, TombstoneTerminal
        <3> QED
            BY <3>1, <3>2
    <2> QED
        BY <1>0, <2>2, <2>3 DEF IInv
<1>6. ASSUME NEW h \in Handles, Modify(h) PROVE IInv'
    BY <1>0, <1>6, ChainFrame DEF Modify, chainVars, IInv, CacheCoherent
<1>7. ASSUME NEW h \in Handles, Flush(h) PROVE IInv'
    <2>1. hnd[h] \in LiveHandle
        BY <1>7, NotFreeIsLive DEF Flush, Usable, IInv
    <2>2. \/ cache' = cache
          \/ cache' = [cache EXCEPT ![hnd[h].dio][hnd[h].key] = NoVal]
        BY <1>7, <2>1, FlushRowFacts DEF Flush, IInv
    <2>3. CacheCoherent'
        <3>0. UNCHANGED <<chainVars, phase>>
            BY <1>7 DEF Flush
        <3>1. CASE cache' = cache
            BY <3>0, <3>1 DEF chainVars, IInv, CacheCoherent
        <3>2. CASE cache' = [cache EXCEPT ![hnd[h].dio][hnd[h].key] = NoVal]
            BY <2>1, <3>0, <3>2 DEF chainVars, IInv, TypeOK, LiveHandle,
                                    CacheCoherent
        <3> QED
            BY <2>2, <3>1, <3>2
    <2> QED
        BY <1>0, <1>7, <2>3, ChainFrame DEF Flush, chainVars, IInv
<1>8. ASSUME NEW h \in Handles, DropHandle(h) PROVE IInv'
    <2>1. hnd[h] \in LiveHandle
        BY <1>8, NotFreeIsLive DEF DropHandle, Usable, IInv
    <2>2. \/ UNCHANGED cache
          \/ cache' = [cache EXCEPT ![hnd[h].dio][hnd[h].key] = NoVal]
        BY <1>8, <2>1, FlushRowFacts DEF DropHandle, IInv
    <2>3. CacheCoherent'
        <3>0. UNCHANGED <<chainVars, phase>>
            BY <1>8 DEF DropHandle
        <3>1. CASE UNCHANGED cache
            BY <3>0, <3>1 DEF chainVars, IInv, CacheCoherent
        <3>2. CASE cache' = [cache EXCEPT ![hnd[h].dio][hnd[h].key] = NoVal]
            BY <2>1, <3>0, <3>2 DEF chainVars, IInv, TypeOK, LiveHandle,
                                    CacheCoherent
        <3> QED
            BY <2>2, <3>1, <3>2
    <2> QED
        BY <1>0, <1>8, <2>3, ChainFrame DEF DropHandle, chainVars, IInv
<1>9. ASSUME NEW h \in Handles, Delete(h) PROVE IInv'
    <2>1. hnd[h] \in LiveHandle
        BY <1>9, NotFreeIsLive DEF Delete, Usable, IInv
    <2>2. cache' = [cache EXCEPT ![hnd[h].dio][hnd[h].key] = NoVal]
        BY <1>9 DEF Delete
    <2>3. CacheCoherent'
        BY <1>9, <2>1, <2>2 DEF Delete, chainVars, IInv, TypeOK, LiveHandle,
                                CacheCoherent
    <2> QED
        BY <1>0, <1>9, <2>3, ChainFrame DEF Delete, chainVars, IInv
<1>10. CASE UNCHANGED vars
    BY <1>10 DEF vars, IInv, TypeOK, OpenHoldsView, CacheCoherent,
                 TombstoneTerminal
<1> QED
    BY <1>1, <1>2, <1>3, <1>4, <1>5, <1>6, <1>7, <1>8, <1>9, <1>10 DEF Next

\* Cache coherence: a row a DIO serves from its cache is always the
\* chain's current row for the key, because a commit (Drop for DioExt,
\* lines 363-366) only runs once every DIO has released its shared view.
THEOREM CacheCoherence == Spec => []CacheCoherent
<1>1. Init => IInv
    BY TypeInit DEF Init, IInv, OpenHoldsView, CacheCoherent,
                       TombstoneTerminal, EmptyMap
<1>2. IInv => CacheCoherent
    BY DEF IInv
<1> QED
    BY <1>1, <1>2, IInvStep, PTL DEF Spec

\* Terminal tombstones (spec I3): once a committed DIO batch carried a
\* tombstone for a key, the timeline's latest event for it stays a
\* tombstone, because the tombstones of a batch are fed after its writes
\* and the anti-replay check refuses any later write.
THEOREM TombstonesStay == Spec => []TombstoneTerminal
<1>1. Init => IInv
    BY TypeInit DEF Init, IInv, OpenHoldsView, CacheCoherent,
                       TombstoneTerminal, EmptyMap
<1>2. IInv => TombstoneTerminal
    BY DEF IInv
<1> QED
    BY <1>1, <1>2, IInvStep, PTL DEF Spec
=============================================================================
