----------------------------- MODULE ChainCalls -----------------------------
(***************************************************************************)
(* What the chain's inside_async lock promises to the callers of count(),  *)
(* flush() and shutdown(): each call, once made, takes effect in one       *)
(* atomic step, in some order.  A shutdown of a chain that is not shut     *)
(* yet sets the flag and runs one backup, which completes or fails, with   *)
(* no other call seeing the flag set while its backup is still running.   *)
(* A shutdown of a shut chain returns Ok.  This is an abstract             *)
(* specification: Chain implements it through ImplementsChainCalls.        *)
(***************************************************************************)
EXTENDS Naturals

CONSTANTS Tasks

VARIABLES
    mode,       \* the backup mode, fixed when the chain is built
    inCall,     \* tasks that made a call that has not taken effect yet
    op,         \* the call each task is in
    shut,       \* the chain is shut down
    backups,    \* backups run by a shutdown (saturates at BackupCap)
    backedUp,   \* a final backup completed
    result      \* what each task's last call returned

vars == <<mode, inCall, op, shut, backups, backedUp, result>>

BackupModes == {"None", "Restore", "Rotating", "Full"}
Ops == {"count", "flush", "shutdown"}
BackupCap == 2

TypeOK ==
    /\ mode \in BackupModes
    /\ inCall \subseteq Tasks
    /\ op \in [Tasks -> Ops]
    /\ shut \in BOOLEAN
    /\ backups \in 0..BackupCap
    /\ backedUp \in BOOLEAN
    /\ result \in [Tasks -> {"none", "ok", "err"}]

Init ==
    /\ mode \in BackupModes
    /\ inCall = {}
    /\ op = [t \in Tasks |-> "count"]
    /\ shut = FALSE
    /\ backups = 0
    /\ backedUp = FALSE
    /\ result = [t \in Tasks |-> "none"]

\* Without a backup mode, shutdown returns Ok at once.
ShutdownNoBackup(t) ==
    /\ t \notin inCall
    /\ mode \in {"None", "Restore"}
    /\ op' = [op EXCEPT ![t] = "shutdown"]
    /\ result' = [result EXCEPT ![t] = "ok"]
    /\ UNCHANGED <<mode, inCall, shut, backups, backedUp>>

\* A task makes a call.
Call(t) ==
    /\ t \notin inCall
    /\ \E o \in Ops :
        /\ o = "shutdown" => mode \in {"Rotating", "Full"}
        /\ op' = [op EXCEPT ![t] = o]
    /\ inCall' = inCall \cup {t}
    /\ result' = [result EXCEPT ![t] = "none"]
    /\ UNCHANGED <<mode, shut, backups, backedUp>>

\* The call takes effect and returns, in one step.
Finish(t, r) ==
    /\ inCall' = inCall \ {t}
    /\ result' = [result EXCEPT ![t] = r]

DoCount(t) ==
    /\ t \in inCall /\ op[t] = "count"
    /\ Finish(t, "ok")
    /\ UNCHANGED <<mode, op, shut, backups, backedUp>>

DoFlush(t) ==
    /\ t \in inCall /\ op[t] = "flush"
    /\ \E r \in {"ok", "err"} : Finish(t, r)
    /\ UNCHANGED <<mode, op, shut, backups, backedUp>>

\* The first shutdown sets the flag and runs the backup to its end.
DoShutdownBackup(t) ==
    /\ t \in inCall /\ op[t] = "shutdown"
    /\ ~shut
    /\ shut' = TRUE
    /\ backups' = IF backups < BackupCap THEN backups + 1 ELSE backups
    /\ \/ backedUp' = TRUE /\ Finish(t, "ok")
       \/ UNCHANGED backedUp /\ Finish(t, "err")
    /\ UNCHANGED <<mode, op>>

\* A later shutdown finds the chain shut and returns Ok.
DoShutdownSkip(t) ==
    /\ t \in inCall /\ op[t] = "shutdown"
    /\ shut
    /\ Finish(t, "ok")
    /\ UNCHANGED <<mode, op, shut, backups, backedUp>>

Next ==
    \E t \in Tasks :
        \/ ShutdownNoBackup(t)
        \/ Call(t)
        \/ DoCount(t)
        \/ DoFlush(t)
        \/ DoShutdownBackup(t)
        \/ DoShutdownSkip(t)

Spec == Init /\ [][Next]_vars
=============================================================================
