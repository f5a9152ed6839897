-------------------------- MODULE BusClient_proofs --------------------------
(***************************************************************************)
(* Proofs about the calling side of the WASM bus host syscalls,            *)
(* term-lib/src/bus/syscalls.rs: wasm_bus_tick loses no call, for every   *)
(* set of handles.                                                         *)
(***************************************************************************)
EXTENDS BusClient, TLAPS

\* Outside a tick nothing is drained: wasm_bus_tick puts every future it
\* took back into the map before it returns.
IdleDrained == tick = "idle" => todo = {} /\ carry = {}

IInv == TypeOK /\ InvocationTracked /\ IdleDrained

LEMMA IInvInit == Init => IInv
<1> SUFFICES ASSUME Init PROVE IInv
    OBVIOUS
<1>a. status \in [Handles -> {"free", "calling", "done", "failed", "dropped"}]
    BY DEF Init
<1>b. fed \in [Handles -> 0..MaxFed] /\ cbFed \in [Handles -> 0..MaxFed]
    BY DEF Init, MaxFed
<1>c. tick \in {"idle", "polling"} /\ woke \in BOOLEAN
    BY Zenon DEF Init
<1>d. feeding \in Handles \cup {NoHandle}
    BY DEF Init
<1>1. TypeOK
    BY <1>a, <1>b, <1>c, <1>d DEF Init, TypeOK
<1>2. InvocationTracked /\ IdleDrained
    BY DEF Init, InvocationTracked, IdleDrained
<1> QED
    BY <1>1, <1>2 DEF IInv

\* Feeding a response keeps fed and status in their ranges and only ever
\* moves a call from calling to done.
LEMMA FeedType ==
    ASSUME TypeOK, NEW h \in Handles, Feed(h)
    PROVE  /\ fed' \in [Handles -> 0..MaxFed]
           /\ status' \in [Handles -> {"free", "calling", "done", "failed",
                                       "dropped"}]
           /\ status'[h] # "calling"
           /\ \A g \in Handles \ {h} : status'[g] = status[g]
BY DEF Feed, TypeOK, MaxFed

LEMMA IInvStep == IInv /\ [Next]_vars => IInv'
<1> SUFFICES ASSUME IInv, [Next]_vars PROVE IInv'
    OBVIOUS
<1> USE DEF IInv, TypeOK, InvocationTracked, IdleDrained, Tracked, MaxFed,
           cbVars
<1>1. ASSUME NEW h \in Handles, Call(h) PROVE IInv'
    BY <1>1 DEF Call
<1>2. ASSUME NEW h \in Handles, Drop(h) PROVE IInv'
    BY <1>2 DEF Drop
<1>3. ASSUME NEW h \in Handles, Answer(h) PROVE IInv'
    BY <1>3 DEF Answer
<1>4. ASSUME NEW h \in Handles, TickPoll(h) PROVE IInv'
    <2>1. CASE h \in ready
        BY <1>4, <2>1, FeedType DEF TickPoll
    <2>2. CASE h \notin ready
        BY <1>4, <2>2 DEF TickPoll
    <2> QED
        BY <2>1, <2>2
<1>5. ASSUME NEW h \in Handles, Callback(h) PROVE IInv'
    BY <1>5 DEF Callback
<1>6. ASSUME NEW h \in Handles, ReplyCallback(h) PROVE IInv'
    BY <1>6 DEF ReplyCallback, MaxFed
<1>7. CASE Wake
    BY <1>7 DEF Wake
<1>8. CASE TickStart
    BY <1>8 DEF TickStart
<1>9. CASE HandlerReturns
    BY <1>9, BusClientAssumption DEF HandlerReturns
<1>10. CASE TickEnd
    BY <1>10 DEF TickEnd
<1>11. CASE UNCHANGED vars
    BY <1>11 DEF vars, cbVars
<1> QED
    BY <1>1, <1>2, <1>3, <1>4, <1>5, <1>6, <1>7, <1>8, <1>9, <1>10, <1>11
    DEF Next

-----------------------------------------------------------------------------
(* Theorems                                                                *)

\* wasm_bus_tick loses no call, for any set of handles: a call the program
\* still waits for has its future parked in inner.invocations or drained
\* by the running tick, through every drain, poll, carry-over and
\* re-entrant call, drop or wake from a response handler.
THEOREM NoInvocationLost == Spec => []InvocationTracked
<1>1. IInv => InvocationTracked
    BY DEF IInv
<1> QED
    BY <1>1, IInvInit, IInvStep, PTL DEF Spec
=============================================================================
