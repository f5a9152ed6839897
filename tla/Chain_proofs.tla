---------------------------- MODULE Chain_proofs ----------------------------
(***************************************************************************)
(* Proofs about the chain lock and shutdown model of core.rs, for any set  *)
(* of tasks: the type invariant, the lock invariant, and that the calls    *)
(* implement the atomic-call specification ChainCalls.                     *)
(***************************************************************************)
EXTENDS Chain, SequenceTheorems, TLAPS

\* A writer holds the lock alone, in the middle of a writing call.
WriterAlone ==
    writer # NoTask =>
        /\ readers = {}
        /\ pc[writer] \in {"holding", "backup"}
        /\ SideOf(op[writer]) = "write"

\* Every task past the grant of a writing call is the writer.
WritersHold ==
    \A t \in Tasks :
        pc[t] \in {"holding", "backup"} /\ SideOf(op[t]) = "write"
            => writer = t

\* A backup runs only inside shutdown().
BackupInShutdown == \A t \in Tasks : pc[t] = "backup" => op[t] = "shutdown"

\* Every queued entry is a waiting task asking for the side its call needs,
\* and no task is queued twice.
QueueWaiting ==
    /\ \A i \in 1..Len(queue) :
           /\ pc[queue[i].task] = "waiting"
           /\ queue[i].side = SideOf(op[queue[i].task])
    /\ \A i, j \in 1..Len(queue) : queue[i].task = queue[j].task => i = j

LockInv == WriterAlone /\ WritersHold /\ BackupInShutdown /\ QueueWaiting

\* One backup was started exactly when is_shutdown was set.
BackupCount == backups = IF isShutdown THEN 1 ELSE 0

IInv == TypeOK /\ LockInv /\ BackupCount

-----------------------------------------------------------------------------
(* Type correctness                                                        *)

LEMMA TypeInit == Init => TypeOK
<1> SUFFICES ASSUME Init PROVE TypeOK
    OBVIOUS
<1>1. queue \in Seq([task: Tasks, side: Sides])
    BY EmptySeq DEF Init
<1>2. /\ pc \in [Tasks -> {"idle", "waiting", "holding", "backup"}]
      /\ op \in [Tasks -> Ops]
      /\ result \in [Tasks -> {"none", "ok", "err"}]
    BY DEF Init, Ops
<1>3. backups \in 0..BackupCap
    BY DEF Init, BackupCap
<1> QED
    BY <1>1, <1>2, <1>3 DEF Init, TypeOK

\* Every step keeps the lock queue, the holders and the tasks' state in
\* their types.
LEMMA TypeStep == TypeOK /\ [Next]_vars => TypeOK'
<1> SUFFICES ASSUME TypeOK, [Next]_vars PROVE TypeOK'
    OBVIOUS
<1> DEFINE Entry == [task: Tasks, side: Sides]
<1>1. ASSUME NEW t \in Tasks, ShutdownNoBackup(t) PROVE TypeOK'
    BY <1>1 DEF ShutdownNoBackup, TypeOK, Ops
<1>2. ASSUME NEW t \in Tasks, Call(t) PROVE TypeOK'
    <2>1. PICK o \in Ops :
              /\ op' = [op EXCEPT ![t] = o]
              /\ queue' = Append(queue, [task |-> t, side |-> SideOf(o)])
        BY <1>2 DEF Call
    <2>2. [task |-> t, side |-> SideOf(o)] \in Entry
        BY DEF SideOf, Sides
    <2>3. queue' \in Seq(Entry)
        BY <2>1, <2>2, AppendProperties DEF TypeOK
    <2> QED
        BY <1>2, <2>1, <2>3 DEF Call, TypeOK
<1>3. ASSUME NEW t \in Tasks, Grant(t) PROVE TypeOK'
    <2>1. queue \in Seq(Entry) /\ queue # << >>
        BY <1>3 DEF Grant, TypeOK
    <2>2. Head(queue) \in Entry /\ queue' \in Seq(Entry)
        BY <1>3, <2>1, HeadTailProperties DEF Grant
    <2> QED
        BY <1>3, <2>1, <2>2 DEF Grant, TypeOK
<1>4. ASSUME NEW t \in Tasks, Count(t) PROVE TypeOK'
    BY <1>4 DEF Count, Return, TypeOK
<1>5. ASSUME NEW t \in Tasks, Flush(t) PROVE TypeOK'
    BY <1>5 DEF Flush, Return, TypeOK
<1>6. ASSUME NEW t \in Tasks, Shutdown(t) PROVE TypeOK'
    <2>0. UNCHANGED <<mode, queue, op, backedUp>> /\ pc[t] = "holding"
        BY <1>6 DEF Shutdown
    <2>1. CASE /\ ~isShutdown
               /\ isShutdown' = TRUE
               /\ pc' = [pc EXCEPT ![t] = "backup"]
               /\ backups' = IF backups < BackupCap THEN backups + 1
                                                    ELSE backups
               /\ UNCHANGED <<readers, writer, result>>
        BY <2>0, <2>1 DEF TypeOK, BackupCap
    <2>2. CASE isShutdown /\ Return(t, "ok") /\ UNCHANGED <<isShutdown, backups>>
        BY <2>0, <2>2 DEF Return, TypeOK
    <2> QED
        BY <1>6, <2>1, <2>2 DEF Shutdown
<1>7. ASSUME NEW t \in Tasks, BackupEnds(t) PROVE TypeOK'
    BY <1>7 DEF BackupEnds, Return, TypeOK
<1>8. CASE UNCHANGED vars
    BY <1>8 DEF vars, TypeOK
<1> QED
    BY <1>1, <1>2, <1>3, <1>4, <1>5, <1>6, <1>7, <1>8 DEF Next

\* Type correctness of the chain model for every set of tasks.
THEOREM ChainTypeCorrect == Spec => []TypeOK
BY TypeInit, TypeStep, PTL DEF Spec
-----------------------------------------------------------------------------
(* The lock invariant and the single backup                               *)

\* NoTask is never one of the tasks: every step below relies on it.
USE ChainAssumption

\* A task that is between calls or still queued is not the writer.
LEMMA NotHoldingNotWriter ==
    ASSUME TypeOK, WriterAlone, NEW t \in Tasks,
           pc[t] \in {"idle", "waiting"}
    PROVE  writer # t
BY DEF WriterAlone

\* A task that ends a writing call releases the write side: the lock is
\* then free, and the invariant holds with t between calls.
LEMMA WriterReturns ==
    ASSUME IInv, NEW t \in Tasks, pc[t] \in {"holding", "backup"},
           SideOf(op[t]) = "write", NEW r, Return(t, r),
           UNCHANGED <<mode, queue, op, isShutdown, backups>>
    PROVE  LockInv' /\ BackupCount'
<1>1. writer = t
    BY DEF IInv, LockInv, WritersHold
<1>2. writer' = NoTask /\ readers' = {}
    BY <1>1 DEF Return, IInv, LockInv, WriterAlone
<1>3. WritersHold'
    BY <1>1, <1>2 DEF Return, IInv, TypeOK, LockInv, WritersHold
<1>4. QueueWaiting'
    <2>1. \A i \in 1..Len(queue) : queue[i].task # t
        BY DEF IInv, TypeOK, LockInv, QueueWaiting
    <2> QED
        BY <2>1 DEF Return, IInv, TypeOK, LockInv, QueueWaiting
<1> QED
    BY <1>2, <1>3, <1>4 DEF Return, IInv, TypeOK, LockInv, WriterAlone,
                            BackupInShutdown, BackupCount

\* Every step keeps the inductive invariant.
LEMMA IInvStep == IInv /\ [Next]_vars => IInv'
<1> SUFFICES ASSUME IInv, [Next]_vars PROVE IInv'
    OBVIOUS
<1>0. TypeOK'
    BY TypeStep DEF IInv
<1>1. ASSUME NEW t \in Tasks, ShutdownNoBackup(t) PROVE IInv'
    <2>1. writer # t /\ \A i \in 1..Len(queue) : queue[i].task # t
        BY <1>1, NotHoldingNotWriter DEF ShutdownNoBackup, IInv, TypeOK,
                                         LockInv, QueueWaiting
    <2> QED
        BY <1>0, <1>1, <2>1 DEF ShutdownNoBackup, IInv, TypeOK, LockInv,
            WriterAlone, WritersHold, BackupInShutdown, QueueWaiting,
            BackupCount
<1>2. ASSUME NEW t \in Tasks, Call(t) PROVE IInv'
    <2>1. PICK o \in Ops :
              /\ op' = [op EXCEPT ![t] = o]
              /\ queue' = Append(queue, [task |-> t, side |-> SideOf(o)])
        BY <1>2 DEF Call
    <2>2. writer # t /\ \A i \in 1..Len(queue) : queue[i].task # t
        BY <1>2, NotHoldingNotWriter DEF Call, IInv, TypeOK, LockInv,
                                         QueueWaiting
    <2>3. /\ Len(queue') = Len(queue) + 1
          /\ \A i \in 1..Len(queue) : queue'[i] = queue[i]
          /\ queue'[Len(queue) + 1] = [task |-> t, side |-> SideOf(o)]
        <3>1. [task |-> t, side |-> SideOf(o)] \in [task: Tasks, side: Sides]
            BY DEF SideOf, Sides
        <3> QED
            BY <2>1, <3>1, AppendProperties DEF IInv, TypeOK
    <2>4. QueueWaiting'
        <3>1. pc' = [pc EXCEPT ![t] = "waiting"] /\ pc[t] = "idle"
            BY <1>2 DEF Call
        <3>2. ASSUME NEW i \in 1..Len(queue')
              PROVE  /\ pc'[queue'[i].task] = "waiting"
                     /\ queue'[i].side = SideOf(op'[queue'[i].task])
            <4>1. CASE i \in 1..Len(queue)
                BY <2>1, <2>2, <2>3, <3>1, <4>1 DEF IInv, TypeOK, LockInv,
                                                   QueueWaiting
            <4>2. CASE i = Len(queue) + 1
                BY <2>1, <2>3, <3>1, <4>2 DEF IInv, TypeOK
            <4> QED
                BY <2>3, <4>1, <4>2 DEF IInv, TypeOK
        <3>3. ASSUME NEW i \in 1..Len(queue'), NEW j \in 1..Len(queue'),
                     queue'[i].task = queue'[j].task
              PROVE  i = j
            BY <2>2, <2>3, <3>3 DEF IInv, TypeOK, LockInv, QueueWaiting
        <3> QED
            BY <3>2, <3>3 DEF QueueWaiting
    <2>5. WriterAlone' /\ WritersHold' /\ BackupInShutdown'
        BY <1>2, <2>1, <2>2 DEF Call, IInv, TypeOK, LockInv, WriterAlone,
                                WritersHold, BackupInShutdown
    <2> QED
        BY <1>0, <1>2, <2>4, <2>5 DEF Call, IInv, LockInv, BackupCount
<1>3. ASSUME NEW t \in Tasks, Grant(t) PROVE IInv'
    <2>1. /\ queue \in Seq([task: Tasks, side: Sides])
          /\ queue # << >>
          /\ Head(queue) = queue[1]
          /\ queue[1].task = t
          /\ Len(queue') = Len(queue) - 1
          /\ \A i \in 1..Len(queue') : queue'[i] = queue[i + 1]
        BY <1>3, HeadTailProperties DEF Grant, IInv, TypeOK
    <2>2. queue[1].side = SideOf(op[t]) /\ pc[t] = "waiting"
        BY <1>3, <2>1 DEF Grant, IInv, LockInv, QueueWaiting
    <2>3. QueueWaiting'
        <3>1. \A i \in 1..Len(queue') : queue'[i].task # t
            BY <2>1 DEF IInv, LockInv, QueueWaiting
        <3>2. pc' = [pc EXCEPT ![t] = "holding"] /\ op' = op
            BY <1>3 DEF Grant
        <3>3. ASSUME NEW i \in 1..Len(queue')
              PROVE  /\ pc'[queue'[i].task] = "waiting"
                     /\ queue'[i].side = SideOf(op'[queue'[i].task])
            <4>1. i + 1 \in 1..Len(queue) /\ queue'[i] = queue[i + 1]
                BY <2>1
            <4> QED
                BY <3>1, <3>2, <4>1 DEF IInv, TypeOK, LockInv, QueueWaiting
        <3>4. ASSUME NEW i \in 1..Len(queue'), NEW j \in 1..Len(queue'),
                     queue'[i].task = queue'[j].task
              PROVE  i = j
            <4>1. /\ i + 1 \in 1..Len(queue) /\ queue'[i] = queue[i + 1]
                  /\ j + 1 \in 1..Len(queue) /\ queue'[j] = queue[j + 1]
                BY <2>1
            <4> QED
                BY <3>4, <4>1 DEF IInv, LockInv, QueueWaiting
        <3> QED
            BY <3>3, <3>4 DEF QueueWaiting
    <2>4. CASE Head(queue).side = "read"
        <3>1. writer = NoTask /\ writer' = NoTask
            BY <1>3, <2>4 DEF Grant, Compatible
        <3>2. SideOf(op[t]) = "read"
            BY <2>1, <2>2, <2>4
        <3>3. WritersHold'
            BY <1>3, <3>1, <3>2 DEF Grant, IInv, TypeOK, LockInv, WritersHold
        <3> QED
            BY <1>0, <1>3, <2>3, <3>1, <3>3 DEF Grant, IInv, LockInv,
                WriterAlone, BackupInShutdown, BackupCount
    <2>5. CASE Head(queue).side # "read"
        <3>0. Head(queue).side = "write"
            <4>1. 1 \in 1..Len(queue)
                BY <2>1, EmptySeq
            <4>2. queue[1] \in [task: Tasks, side: Sides]
                BY <2>1, <4>1, ElementOfSeq
            <4> QED
                BY <2>1, <2>5, <4>2 DEF Sides
        <3>1. writer = NoTask /\ readers = {} /\ writer' = t
              /\ readers' = readers
            <4>1. Compatible(Head(queue).side)
                BY <1>3 DEF Grant
            <4>2. writer = NoTask /\ readers = {}
                BY <3>0, <4>1 DEF Compatible
            <4>3. writer' = t /\ readers' = readers
                BY <1>3, <2>5 DEF Grant
            <4> QED
                BY <4>2, <4>3
        <3>2. SideOf(op[t]) = "write"
            BY <2>1, <2>2, <2>5 DEF SideOf, Sides
        <3>3. WriterAlone'
            BY <1>3, <3>1, <3>2 DEF Grant, IInv, TypeOK, WriterAlone
        <3>4. WritersHold'
            BY <1>3, <3>1 DEF Grant, IInv, TypeOK, LockInv, WritersHold
        <3> QED
            BY <1>0, <1>3, <2>3, <3>3, <3>4 DEF Grant, IInv, LockInv,
                BackupInShutdown, BackupCount
    <2> QED
        BY <2>4, <2>5
<1>4. ASSUME NEW t \in Tasks, Count(t) PROVE IInv'
    <2>1. writer # t
        BY <1>4 DEF Count, IInv, LockInv, WriterAlone, SideOf
    <2>2. \A i \in 1..Len(queue) : queue[i].task # t
        BY <1>4 DEF Count, IInv, TypeOK, LockInv, QueueWaiting
    <2>3. WriterAlone'
        BY <1>4, <2>1 DEF Count, Return, IInv, TypeOK, LockInv, WriterAlone
    <2> QED
        BY <1>0, <1>4, <2>1, <2>2, <2>3 DEF Count, Return, IInv, TypeOK,
            LockInv, WritersHold, BackupInShutdown, QueueWaiting, BackupCount
<1>5. ASSUME NEW t \in Tasks, Flush(t) PROVE IInv'
    <2>1. PICK r \in {"ok", "err"} : Return(t, r)
        BY <1>5 DEF Flush
    <2> QED
        BY <1>0, <1>5, <2>1, WriterReturns DEF Flush, SideOf, IInv
<1>6. ASSUME NEW t \in Tasks, Shutdown(t) PROVE IInv'
    <2>0. /\ UNCHANGED <<mode, queue, op, backedUp>>
          /\ pc[t] = "holding" /\ op[t] = "shutdown"
        BY <1>6 DEF Shutdown
    <2>1. writer = t
        BY <2>0 DEF IInv, LockInv, WritersHold, SideOf
    <2>2. CASE /\ ~isShutdown
               /\ isShutdown' = TRUE
               /\ pc' = [pc EXCEPT ![t] = "backup"]
               /\ backups' = IF backups < BackupCap THEN backups + 1
                                                    ELSE backups
               /\ UNCHANGED <<readers, writer, result>>
        <3>1. \A i \in 1..Len(queue) : queue[i].task # t
            BY <2>0 DEF IInv, TypeOK, LockInv, QueueWaiting
        <3>2. backups' = 1
            BY <2>2 DEF IInv, BackupCount, BackupCap
        <3> QED
            BY <1>0, <2>0, <2>1, <2>2, <3>1, <3>2 DEF IInv, TypeOK, LockInv,
                WriterAlone, WritersHold, BackupInShutdown, QueueWaiting,
                BackupCount
    <2>3. CASE isShutdown /\ Return(t, "ok") /\ UNCHANGED <<isShutdown, backups>>
        BY <1>0, <2>0, <2>3, WriterReturns DEF SideOf, IInv
    <2> QED
        BY <1>6, <2>2, <2>3 DEF Shutdown
<1>7. ASSUME NEW t \in Tasks, BackupEnds(t) PROVE IInv'
    <2>1. pc[t] = "backup" /\ op[t] = "shutdown"
        BY <1>7 DEF BackupEnds, IInv, LockInv, BackupInShutdown
    <2>2. PICK r \in {"ok", "err"} : Return(t, r)
        BY <1>7 DEF BackupEnds
    <2> QED
        BY <1>0, <1>7, <2>1, <2>2, WriterReturns DEF BackupEnds, SideOf, IInv
<1>8. CASE UNCHANGED vars
    BY <1>8 DEF vars, IInv, TypeOK, LockInv, WriterAlone, WritersHold,
                BackupInShutdown, QueueWaiting, BackupCount
<1> QED
    BY <1>1, <1>2, <1>3, <1>4, <1>5, <1>6, <1>7, <1>8 DEF Next

LEMMA IInvInit == Init => IInv
BY TypeInit DEF Init, IInv, LockInv, WriterAlone, WritersHold,
                BackupInShutdown, QueueWaiting, BackupCount

-----------------------------------------------------------------------------
(* Refinement of ChainCalls                                                *)

\* A task in the final backup set is_shutdown before it started it.
BackupFlagged == \A t \in Tasks : pc[t] = "backup" => isShutdown

\* Once set, is_shutdown stays set: no step clears it.
LEMMA FlagStays == [Next]_vars => (isShutdown => isShutdown')
BY DEF Next, vars, ShutdownNoBackup, Call, Grant, Count, Flush, Shutdown,
       BackupEnds

LEMMA FlaggedStep == IInv /\ BackupFlagged /\ [Next]_vars => BackupFlagged'
<1> SUFFICES ASSUME IInv, BackupFlagged, [Next]_vars,
                    NEW u \in Tasks, pc'[u] = "backup"
             PROVE  isShutdown'
    BY DEF BackupFlagged
<1>1. CASE pc[u] = "backup"
    BY <1>1, FlagStays DEF BackupFlagged
<1>2. CASE pc[u] # "backup"
    \* Only shutdown() enters the backup, setting the flag as it does.
    BY <1>2 DEF Next, vars, ShutdownNoBackup, Call, Grant, Count, Flush,
                Shutdown, BackupEnds, Return, IInv, TypeOK
<1> QED
    BY <1>1, <1>2

\* A task in the final backup is the writer, so it is the only one there.
LEMMA BackupAlone ==
    ASSUME IInv, NEW u \in Tasks, pc[u] = "backup"
    PROVE  writer = u /\ InBackup = {u}
<1>1. \A v \in Tasks : pc[v] = "backup" => writer = v
    BY DEF IInv, LockInv, BackupInShutdown, WritersHold, SideOf
<1> QED
    BY <1>1 DEF InBackup

\* While a task holds the lock for its call, no backup runs.
LEMMA NoBackupWhileHolding ==
    ASSUME IInv, NEW u \in Tasks, pc[u] = "holding",
           SideOf(op[u]) = "write"
    PROVE  InBackup = {}
<1>1. writer = u
    BY DEF IInv, LockInv, WritersHold
<1> QED
    BY <1>1, BackupAlone DEF InBackup


\* Every step of the chain is a step of ChainCalls or leaves its variables
\* alone: granting the lock and starting the backup are stutters, and a
\* shutdown takes effect when its backup ends.
LEMMA RefineStep ==
    IInv /\ BackupFlagged /\ [Next]_vars => [Calls!Next]_Calls!vars
<1> SUFFICES ASSUME IInv, BackupFlagged, [Next]_vars
             PROVE  [Calls!Next]_Calls!vars
    OBVIOUS
<1> DEFINE Pc == {"idle", "waiting", "holding", "backup"}
<1>0. pc \in [Tasks -> Pc] /\ op \in [Tasks -> Ops]
      /\ result \in [Tasks -> {"none", "ok", "err"}]
    BY DEF IInv, TypeOK
\* A step that moves t from one phase to another, both outside the backup,
\* leaves the backup alone.
<1>a. ASSUME NEW t \in Tasks, NEW p \in Pc, pc[t] # "backup", p # "backup",
             pc' = [pc EXCEPT ![t] = p]
      PROVE  InBackup' = InBackup
    BY <1>0, <1>a DEF InBackup
<1>1. ASSUME NEW t \in Tasks, ShutdownNoBackup(t) PROVE Calls!ShutdownNoBackup(t)
    BY <1>1 DEF ShutdownNoBackup, Calls!ShutdownNoBackup, inCallBar, shutBar,
                backupsBar, InBackup
<1>2. ASSUME NEW t \in Tasks, Call(t) PROVE Calls!Call(t)
    <2>1. pc[t] = "idle" /\ pc' = [pc EXCEPT ![t] = "waiting"]
        BY <1>2 DEF Call
    <2>2. InBackup' = InBackup
        BY <2>1, <1>a
    <2>3. inCallBar' = inCallBar \cup {t} /\ t \notin inCallBar
        BY <1>0, <2>1 DEF inCallBar
    <2> QED
        BY <1>2, <2>2, <2>3 DEF Call, Calls!Call, Calls!Ops, Ops, shutBar,
                               backupsBar
<1>3. ASSUME NEW t \in Tasks, Grant(t) PROVE UNCHANGED Calls!vars
    <2>1. pc[t] = "waiting" /\ pc' = [pc EXCEPT ![t] = "holding"]
        BY <1>3 DEF Grant
    <2>2. InBackup' = InBackup
        BY <2>1, <1>a
    <2>3. inCallBar' = inCallBar
        BY <1>0, <2>1 DEF inCallBar
    <2> QED
        BY <1>3, <2>2, <2>3 DEF Grant, Calls!vars, shutBar, backupsBar
\* A task ending count() or flush() leaves the call set and the backup.
<1>b. ASSUME NEW t \in Tasks, pc[t] = "holding", NEW r, Return(t, r)
      PROVE  /\ InBackup' = InBackup
             /\ inCallBar' = inCallBar \ {t} /\ t \in inCallBar
    <2>1. pc' = [pc EXCEPT ![t] = "idle"]
        BY <1>b DEF Return
    <2> QED
        BY <1>0, <1>b, <2>1, <1>a DEF inCallBar
<1>4. ASSUME NEW t \in Tasks, Count(t) PROVE Calls!DoCount(t)
    <2>1. InBackup' = InBackup /\ inCallBar' = inCallBar \ {t}
          /\ t \in inCallBar
        BY <1>4, <1>b DEF Count
    <2> QED
        BY <1>4, <2>1 DEF Count, Return, Calls!DoCount, Calls!Finish, shutBar,
                          backupsBar
<1>5. ASSUME NEW t \in Tasks, Flush(t) PROVE Calls!DoFlush(t)
    <2>1. PICK r \in {"ok", "err"} : Return(t, r)
        BY <1>5 DEF Flush
    <2>2. InBackup' = InBackup /\ inCallBar' = inCallBar \ {t}
          /\ t \in inCallBar
        BY <1>5, <1>b, <2>1 DEF Flush
    <2> QED
        BY <1>5, <2>1, <2>2 DEF Flush, Return, Calls!DoFlush, Calls!Finish,
                                shutBar, backupsBar
<1>6. ASSUME NEW t \in Tasks, Shutdown(t)
      PROVE  Calls!DoShutdownSkip(t) \/ UNCHANGED Calls!vars
    <2>0. /\ UNCHANGED <<mode, queue, op, backedUp>>
          /\ pc[t] = "holding" /\ op[t] = "shutdown"
        BY <1>6 DEF Shutdown
    <2>1. InBackup = {}
        BY <2>0, NoBackupWhileHolding DEF SideOf
    <2>2. CASE /\ ~isShutdown
               /\ isShutdown' = TRUE
               /\ pc' = [pc EXCEPT ![t] = "backup"]
               /\ backups' = IF backups < BackupCap THEN backups + 1
                                                    ELSE backups
               /\ UNCHANGED <<readers, writer, result>>
        <3>1. InBackup' = {t}
            BY <1>0, <2>1, <2>2 DEF InBackup
        <3>2. inCallBar' = inCallBar
            BY <1>0, <2>0, <2>2 DEF inCallBar
        <3>3. backups = 0 /\ backups' = 1
            BY <2>2 DEF IInv, BackupCount, BackupCap
        <3>4. UNCHANGED Calls!vars
            BY <2>0, <2>1, <2>2, <3>1, <3>2, <3>3 DEF Calls!vars, shutBar,
                                                      backupsBar
        <3> QED
            BY <3>4
    <2>3. CASE isShutdown /\ Return(t, "ok") /\ UNCHANGED <<isShutdown, backups>>
        <3>1. InBackup' = InBackup /\ inCallBar' = inCallBar \ {t}
              /\ t \in inCallBar
            BY <2>0, <2>3, <1>b
        <3> QED
            BY <2>0, <2>1, <2>3, <3>1 DEF Return, Calls!DoShutdownSkip,
                                          Calls!Finish, shutBar, backupsBar
    <2> QED
        BY <1>6, <2>2, <2>3 DEF Shutdown
<1>7. ASSUME NEW t \in Tasks, BackupEnds(t) PROVE Calls!DoShutdownBackup(t)
    <2>0. /\ pc[t] = "backup" /\ op[t] = "shutdown"
          /\ UNCHANGED <<mode, queue, op, isShutdown, backups>>
        BY <1>7 DEF BackupEnds, IInv, LockInv, BackupInShutdown
    <2>1. InBackup = {t} /\ isShutdown /\ backups = 1
        BY <2>0, BackupAlone DEF BackupFlagged, IInv, BackupCount
    <2>2. PICK r \in {"ok", "err"} :
              /\ Return(t, r)
              /\ r = "ok" => backedUp' = TRUE
              /\ r = "err" => backedUp' = backedUp
        BY <1>7 DEF BackupEnds
    <2>3. pc' = [pc EXCEPT ![t] = "idle"]
        BY <2>2 DEF Return
    <2>4. InBackup' = {} /\ inCallBar' = inCallBar \ {t} /\ t \in inCallBar
        BY <1>0, <2>0, <2>1, <2>3 DEF InBackup, inCallBar
    <2>5. ~shutBar /\ shutBar' /\ backupsBar = 0 /\ backupsBar' = 1
        BY <2>0, <2>1, <2>4 DEF shutBar, backupsBar
    <2>6. Calls!Finish(t, r)
        BY <2>2, <2>4 DEF Return, Calls!Finish
    <2>7. \/ backedUp' = TRUE /\ Calls!Finish(t, "ok")
          \/ UNCHANGED backedUp /\ Calls!Finish(t, "err")
        BY <2>2, <2>6
    <2> QED
        BY <2>0, <2>4, <2>5, <2>7 DEF Calls!DoShutdownBackup, Calls!BackupCap
<1>8. CASE UNCHANGED vars
    BY <1>8 DEF vars, Calls!vars, inCallBar, shutBar, backupsBar, InBackup
<1> QED
    BY <1>1, <1>2, <1>3, <1>4, <1>5, <1>6, <1>7, <1>8 DEF Next, Calls!Next

\* count(), flush() and shutdown() implement ChainCalls, for every set of
\* tasks: each call takes effect in one atomic step, and no call sees the
\* is_shutdown flag of a shutdown whose backup is still running.
THEOREM ChainImplementsCalls == Spec => ImplementsChainCalls
<1>1. Init => Calls!Init
    BY DEF Init, Calls!Init, BackupModes, Calls!BackupModes, inCallBar,
           shutBar, backupsBar, InBackup
<1>2. Init => IInv /\ BackupFlagged
    BY IInvInit DEF Init, BackupFlagged
<1>3. IInv /\ BackupFlagged /\ [Next]_vars => IInv' /\ BackupFlagged'
    BY IInvStep, FlaggedStep
<1> QED
    BY <1>1, <1>2, <1>3, RefineStep, PTL
       DEF Spec, ImplementsChainCalls, Calls!Spec

=============================================================================
