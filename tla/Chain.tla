------------------------------- MODULE Chain -------------------------------
(***************************************************************************)
(* The chain's lock discipline and shutdown of lib/src/chain/core.rs.      *)
(*                                                                         *)
(* A Chain guards its redo log and timeline with inside_async, a tokio     *)
(* RwLock: multi() takes the read side, single() and flush() the write    *)
(* side.  The lock queues its waiters in FIFO order and grants the head   *)
(* once it is compatible with the holders.  Tasks of the program call    *)
(* count() (a reader), flush() (a writer that flushes the redo log) and  *)
(* shutdown(), which in the Rotating and Full backup modes takes the      *)
(* exclusive view, and runs the final backup unless is_shutdown is set.  *)
(* Any of the awaited disk operations may fail.                           *)
(***************************************************************************)
EXTENDS Naturals, Sequences

CONSTANTS
    Tasks,      \* tasks of the program sharing one Chain
    NoTask      \* no task holds the write side

ASSUME ChainAssumption == NoTask \notin Tasks

BackupModes == {"None", "Restore", "Rotating", "Full"}

VARIABLES
    mode,       \* cfg_ate.backup_mode, fixed when the chain is built
    queue,      \* waiters of inside_async, oldest first: [task, side]
    readers,    \* tasks holding the read side
    writer,     \* task holding the write side, or NoTask
    pc,         \* where each task is in its call
    op,         \* the call each task is in
    isShutdown, \* inside_async.is_shutdown
    backups,    \* backups started (saturates at BackupCap)
    backedUp,   \* a final backup completed
    result      \* what each task's last call returned

vars == <<mode, queue, readers, writer, pc, op, isShutdown, backups, backedUp,
          result>>

Ops == {"count", "flush", "shutdown"}
Sides == {"read", "write"}

\* Enough to tell one backup from more than one.
BackupCap == 2

TypeOK ==
    /\ mode \in BackupModes
    /\ queue \in Seq([task: Tasks, side: Sides])
    /\ readers \subseteq Tasks
    /\ writer \in Tasks \cup {NoTask}
    /\ pc \in [Tasks -> {"idle", "waiting", "holding", "backup"}]
    /\ op \in [Tasks -> Ops]
    /\ isShutdown \in BOOLEAN
    /\ backups \in 0..BackupCap
    /\ backedUp \in BOOLEAN
    /\ result \in [Tasks -> {"none", "ok", "err"}]

\* Mutant: shutdown() going through multi(), the read side.
SideOfShutdownReads(o) == IF o = "flush" THEN "write" ELSE "read"

\* The side of inside_async each call takes: count() reads (line 117),
\* flush() writes (line 135) and shutdown() goes through single() (194).
SideOf(o) == IF o = "count" THEN "read" ELSE "write"

\* A side can be granted: a reader needs no writer, a writer needs the
\* lock free.
Compatible(side) ==
    /\ writer = NoTask
    /\ side = "write" => readers = {}

\* Release whatever t holds and return r from its call.
Return(t, r) ==
    /\ readers' = readers \ {t}
    /\ writer' = IF writer = t THEN NoTask ELSE writer
    /\ pc' = [pc EXCEPT ![t] = "idle"]
    /\ result' = [result EXCEPT ![t] = r]

-----------------------------------------------------------------------------

Init ==
    /\ mode \in BackupModes
    /\ queue = << >>
    /\ readers = {}
    /\ writer = NoTask
    /\ pc = [t \in Tasks |-> "idle"]
    /\ op = [t \in Tasks |-> "count"]
    /\ isShutdown = FALSE
    /\ backups = 0
    /\ backedUp = FALSE
    /\ result = [t \in Tasks |-> "none"]

\* Shutdown in the None and Restore backup modes returns Ok at once
\* (lines 187-189) without touching the lock.
ShutdownNoBackup(t) ==
    /\ pc[t] = "idle"
    /\ mode \in {"None", "Restore"}
    /\ op' = [op EXCEPT ![t] = "shutdown"]
    /\ result' = [result EXCEPT ![t] = "ok"]
    /\ UNCHANGED <<mode, queue, readers, writer, pc, isShutdown, backups,
                   backedUp>>

\* A task calls count(), flush() or shutdown() and queues on the lock.
Call(t) ==
    /\ pc[t] = "idle"
    /\ \E o \in Ops :
        /\ o = "shutdown" => mode \in {"Rotating", "Full"}
        /\ op' = [op EXCEPT ![t] = o]
        /\ queue' = Append(queue, [task |-> t, side |-> SideOf(o)])
    /\ pc' = [pc EXCEPT ![t] = "waiting"]
    /\ result' = [result EXCEPT ![t] = "none"]
    /\ UNCHANGED <<mode, readers, writer, isShutdown, backups, backedUp>>

\* Mutant: a reader-preferring lock grants a reader past queued writers.
GrantReaderFirst(t) ==
    /\ pc[t] = "waiting"
    /\ \E i \in 1..Len(queue) :
        /\ queue[i].task = t
        /\ Compatible(queue[i].side)
        /\ \/ queue[i].side = "read"
           \/ i = 1
        /\ queue' = [j \in 1..Len(queue) - 1 |->
                        IF j < i THEN queue[j] ELSE queue[j + 1]]
        /\ IF queue[i].side = "read"
             THEN /\ readers' = readers \cup {t}
                  /\ UNCHANGED writer
             ELSE /\ writer' = t
                  /\ UNCHANGED readers
    /\ pc' = [pc EXCEPT ![t] = "holding"]
    /\ UNCHANGED <<mode, op, isShutdown, backups, backedUp, result>>

\* The lock grants the oldest waiter once its side is compatible.
Grant(t) ==
    /\ pc[t] = "waiting"
    /\ queue # << >>
    /\ Head(queue).task = t
    /\ Compatible(Head(queue).side)
    /\ queue' = Tail(queue)
    /\ IF Head(queue).side = "read"
         THEN /\ readers' = readers \cup {t}
              /\ UNCHANGED writer
         ELSE /\ writer' = t
              /\ UNCHANGED readers
    /\ pc' = [pc EXCEPT ![t] = "holding"]
    /\ UNCHANGED <<mode, op, isShutdown, backups, backedUp, result>>

\* count() reads the redo log's size and releases the read side.
Count(t) ==
    /\ pc[t] = "holding"
    /\ op[t] = "count"
    /\ Return(t, "ok")
    /\ UNCHANGED <<mode, queue, op, isShutdown, backups, backedUp>>

\* flush(): chain.flush() flushes the redo log under the write side; the
\* flush may fail, and either way the guard is dropped.
Flush(t) ==
    /\ pc[t] = "holding"
    /\ op[t] = "flush"
    /\ \E r \in {"ok", "err"} : Return(t, r)
    /\ UNCHANGED <<mode, queue, op, isShutdown, backups, backedUp>>

\* shutdown() under single(): the first one sets is_shutdown and starts
\* the backup; a later one finds it set and returns Ok.
Shutdown(t) ==
    /\ pc[t] = "holding"
    /\ op[t] = "shutdown"
    /\ \/ /\ ~isShutdown
          /\ isShutdown' = TRUE
          /\ pc' = [pc EXCEPT ![t] = "backup"]
          /\ backups' = IF backups < BackupCap THEN backups + 1 ELSE backups
          /\ UNCHANGED <<readers, writer, result>>
       \/ /\ isShutdown
          /\ Return(t, "ok")
          /\ UNCHANGED <<isShutdown, backups>>
    /\ UNCHANGED <<mode, queue, op, backedUp>>

\* redo.backup(..)?.await?: the backup completes or fails; the error is
\* returned with is_shutdown left set, and the guard is dropped.
BackupEnds(t) ==
    /\ pc[t] = "backup"
    /\ \/ /\ backedUp' = TRUE
          /\ Return(t, "ok")
       \/ /\ UNCHANGED backedUp
          /\ Return(t, "err")
    /\ UNCHANGED <<mode, queue, op, isShutdown, backups>>

Next ==
    \E t \in Tasks :
        \/ ShutdownNoBackup(t)
        \/ Call(t)
        \/ Grant(t)
        \/ Count(t)
        \/ Flush(t)
        \/ Shutdown(t)
        \/ BackupEnds(t)

\* A task holding or granted the lock runs its call to the end (the tasks
\* are scheduled by the runtime), and the lock grants its head waiter.
Fairness ==
    \A t \in Tasks :
        /\ WF_vars(Grant(t))
        /\ WF_vars(Count(t) \/ Flush(t) \/ Shutdown(t) \/ BackupEnds(t))

Spec == Init /\ [][Next]_vars /\ Fairness

-----------------------------------------------------------------------------
(* Properties                                                              *)

\* Every call of count, flush or shutdown returns: no task waits forever
\* for inside_async, even while other tasks keep calling.
CallsReturn ==
    \A t \in Tasks : pc[t] # "idle" ~> pc[t] = "idle"

\* A shutdown() that returns Ok in the Rotating or Full backup mode has
\* made the final backup (spec 4.5: it "performs a final backup").
ShutdownOkMeansBackedUp ==
    \A t \in Tasks :
        (op[t] = "shutdown" /\ result[t] = "ok"
         /\ mode \in {"Rotating", "Full"}) => backedUp
-----------------------------------------------------------------------------
(* Refinement of ChainCalls                                                *)

\* Tasks in the middle of the final backup.
InBackup == {t \in Tasks : pc[t] = "backup"}

\* The refinement mapping.  A shutdown takes effect when its backup ends:
\* until then the flag it set and the backup it started are hidden.
inCallBar == {t \in Tasks : pc[t] # "idle"}
shutBar == isShutdown /\ InBackup = {}
backupsBar == IF InBackup = {} THEN backups ELSE backups - 1

Calls == INSTANCE ChainCalls
             WITH inCall <- inCallBar, shut <- shutBar, backups <- backupsBar

\* count(), flush() and shutdown() behave as if each ran in one atomic
\* step (ChainCalls): in particular no call sees is_shutdown set while the
\* shutdown that set it is still running its backup, which holds because
\* shutdown() takes the write side of inside_async for both.
ImplementsChainCalls == Calls!Spec
=============================================================================
