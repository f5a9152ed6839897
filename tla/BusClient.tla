----------------------------- MODULE BusClient -----------------------------
(***************************************************************************)
(* The calling side of the WASM bus host syscalls, term-lib/src/bus/       *)
(* syscalls.rs.                                                            *)
(*                                                                         *)
(* A WASM program calls wasm_bus_call with a handle of its choosing; the  *)
(* host polls the call's future once and, if it is pending, parks it in   *)
(* the thread's invocations map.  wasm_bus_tick drains that map, polls    *)
(* each future outside the lock, and puts back the ones still pending;    *)
(* it repeats while the waker was woken.  A future that completes feeds   *)
(* its response to the program through the data feeder, which runs the   *)
(* program's handler: the program runs again inside the tick and may make *)
(* syscalls (the re-entrance the tick's comment guards against).          *)
(* wasm_bus_drop removes a handle's future from the map.  The remote      *)
(* process answers a call at some point after it starts.                  *)
(***************************************************************************)
EXTENDS Naturals

CONSTANTS
    Handles,   \* call handles the program uses
    NoHandle   \* the program's handler is not running for any response

ASSUME BusClientAssumption == NoHandle \notin Handles

VARIABLES
    status,       \* per handle: "free", "calling", "done", "failed", "dropped"
    invocations,  \* handles whose future is parked in inner.invocations
    ready,        \* handles whose remote call has answered
    fed,          \* responses fed to each handle
    tick,         \* "idle", or "polling" inside wasm_bus_tick
    todo,         \* drained futures the tick has still to poll
    carry,        \* drained futures found pending (carry_over)
    woke,         \* the waker was woken since the tick last looked
    feeding,      \* the handle whose response the program is handling
    callbacks,    \* handles with callbacks registered under them (inner.callbacks)
    handed,       \* calls that took their handle's callbacks to the remote
    cbFed,        \* callback messages fed through reply_callback, per parent
    dummy         \* futures last polled with wasm_bus_call's dummy waker

vars == <<status, invocations, ready, fed, tick, todo, carry, woke, feeding,
          callbacks, handed, cbFed, dummy>>

cbVars == <<callbacks, handed, cbFed>>

\* Enough to tell one response from two.
MaxFed == 2

TypeOK ==
    /\ status \in [Handles -> {"free", "calling", "done", "failed", "dropped"}]
    /\ invocations \subseteq Handles
    /\ ready \subseteq Handles
    /\ fed \in [Handles -> 0..MaxFed]
    /\ tick \in {"idle", "polling"}
    /\ todo \subseteq Handles /\ carry \subseteq Handles
    /\ woke \in BOOLEAN
    /\ feeding \in Handles \cup {NoHandle}
    /\ callbacks \subseteq Handles /\ handed \subseteq Handles
    /\ cbFed \in [Handles -> 0..MaxFed]
    /\ dummy \subseteq Handles

\* The futures the host holds: parked, or drained by a running tick.
Tracked == invocations \cup todo \cup carry

\* The program runs: between syscalls, or inside a response handler that a
\* tick called.  While a tick polls, the program is blocked in the syscall.
ProgramRuns == tick = "idle" \/ feeding # NoHandle

\* The data feeder hands a response to handle h and runs its handler.
Feed(h) ==
    /\ fed' = [fed EXCEPT ![h] = IF @ < MaxFed THEN @ + 1 ELSE @]
    /\ status' = [status EXCEPT ![h] = IF @ = "calling" THEN "done" ELSE @]

-----------------------------------------------------------------------------

Init ==
    /\ status = [h \in Handles |-> "free"]
    /\ invocations = {}
    /\ ready = {}
    /\ fed = [h \in Handles |-> 0]
    /\ tick = "idle"
    /\ todo = {} /\ carry = {}
    /\ woke = FALSE
    /\ feeding = NoHandle
    /\ callbacks = {} /\ handed = {}
    /\ cbFed = [h \in Handles |-> 0]
    /\ dummy = {}

\* wasm_bus_call: WasmBusCallback::new may fail, and the call returns the
\* error with nothing started; otherwise the callbacks registered under the
\* handle are taken out of the table and given to the call, the factory
\* starts it, and its future is polled once with a dummy waker.  If the
\* remote answered at once the response is fed there and then (the
\* handler runs inside the call); otherwise the future is parked.
Call(h) ==
    /\ ProgramRuns
    /\ status[h] = "free"
    /\ \/ /\ status' = [status EXCEPT ![h] = "failed"]
          /\ UNCHANGED <<invocations, callbacks, handed, fed, dummy>>
       \/ /\ handed' = IF h \in callbacks THEN handed \cup {h} ELSE handed
          /\ callbacks' = callbacks \ {h}
          /\ \/ /\ status' = [status EXCEPT ![h] = "done"]
                /\ fed' = [fed EXCEPT ![h] = IF @ < MaxFed THEN @ + 1 ELSE @]
                /\ UNCHANGED <<invocations, dummy>>
             \/ /\ status' = [status EXCEPT ![h] = "calling"]
                /\ invocations' = invocations \cup {h}
                /\ dummy' = dummy \cup {h}
                /\ UNCHANGED fed
    /\ UNCHANGED <<ready, tick, todo, carry, woke, feeding, cbFed>>

\* wasm_bus_callback with a parent handle: register a callback under it.
Callback(h) ==
    /\ ProgramRuns
    /\ callbacks' = callbacks \cup {h}
    /\ UNCHANGED <<status, invocations, ready, fed, tick, todo, carry, woke,
                   feeding, handed, cbFed, dummy>>

\* wasm_bus_reply_callback: feed a callback registered under the handle,
\* or drop the message when there is none ("callback is lost").
ReplyCallback(h) ==
    /\ ProgramRuns
    /\ cbFed' = IF h \in callbacks
                 THEN [cbFed EXCEPT ![h] = IF @ < MaxFed THEN @ + 1 ELSE @]
                 ELSE cbFed
    /\ UNCHANGED <<status, invocations, ready, fed, tick, todo, carry, woke,
                   feeding, callbacks, handed, dummy>>

\* wasm_bus_drop: remove the handle's future (and callbacks) and close it.
Drop(h) ==
    /\ ProgramRuns
    /\ status[h] \in {"calling", "done", "failed"}
    /\ status' = [status EXCEPT ![h] = "dropped"]
    /\ invocations' = invocations \ {h}
    /\ callbacks' = callbacks \ {h}
    /\ UNCHANGED <<ready, fed, tick, todo, carry, woke, feeding, handed, cbFed,
                   dummy>>

\* wasm_bus_wake: wake the thread's waker.
Wake ==
    /\ ProgramRuns
    /\ woke' = TRUE
    /\ UNCHANGED <<status, invocations, ready, fed, tick, todo, carry, feeding,
                   cbVars, dummy>>

\* The remote process answers a started call whose future the host still
\* holds; its completion wakes the waker the future was last polled with,
\* which is the thread's only once a tick has polled it.
Answer(h) ==
    /\ h \in Tracked \ ready
    /\ ready' = ready \cup {h}
    /\ woke' = (woke \/ h \notin dummy)
    /\ UNCHANGED <<status, invocations, fed, tick, todo, carry, feeding,
                   cbVars, dummy>>

\* wasm_bus_tick (from wasm_bus_poll): note the waker and drain the map.
TickStart ==
    /\ tick = "idle" /\ feeding = NoHandle
    /\ tick' = "polling"
    /\ todo' = invocations
    /\ invocations' = {}
    /\ woke' = FALSE
    /\ UNCHANGED <<status, ready, fed, carry, feeding, cbVars, dummy>>

\* The tick polls one drained future with the thread's waker: a pending
\* one is carried over; an answered one feeds its response, which runs the
\* program's handler.
TickPoll(h) ==
    /\ tick = "polling" /\ feeding = NoHandle
    /\ h \in todo
    /\ todo' = todo \ {h}
    /\ dummy' = dummy \ {h}
    /\ IF h \in ready
         THEN /\ Feed(h)
              /\ feeding' = h
              /\ UNCHANGED carry
         ELSE /\ carry' = carry \cup {h}
              /\ UNCHANGED <<status, fed, feeding>>
    /\ UNCHANGED <<invocations, ready, tick, woke, cbVars>>

\* The program's handler returns to the host.
HandlerReturns ==
    /\ feeding # NoHandle
    /\ feeding' = NoHandle
    /\ UNCHANGED <<status, invocations, ready, fed, tick, todo, carry, woke,
                   cbVars, dummy>>

\* Mutant: the tick forgets the futures it carried over.
TickEndDropsCarry ==
    /\ tick = "polling" /\ feeding = NoHandle /\ todo = {}
    /\ carry' = {}
    /\ IF woke
         THEN /\ todo' = invocations
              /\ invocations' = {}
              /\ woke' = FALSE
              /\ UNCHANGED tick
         ELSE /\ tick' = "idle"
              /\ UNCHANGED <<todo, invocations, woke>>
    /\ UNCHANGED <<status, ready, fed, feeding, cbVars, dummy>>

\* All drained futures were polled: put the carried-over ones back, then
\* go round again if the waker was woken meanwhile, or leave the tick.
TickEnd ==
    /\ tick = "polling" /\ feeding = NoHandle /\ todo = {}
    /\ carry' = {}
    /\ IF woke
         THEN /\ todo' = invocations \cup carry
              /\ invocations' = {}
              /\ woke' = FALSE
              /\ UNCHANGED tick
         ELSE /\ invocations' = invocations \cup carry
              /\ tick' = "idle"
              /\ UNCHANGED <<todo, woke>>
    /\ UNCHANGED <<status, ready, fed, feeding, cbVars, dummy>>

Next ==
    \/ \E h \in Handles : Call(h) \/ Drop(h) \/ Answer(h) \/ TickPoll(h)
    \/ \E h \in Handles : Callback(h) \/ ReplyCallback(h)
    \/ Wake \/ TickStart \/ HandlerReturns \/ TickEnd

Spec == Init /\ [][Next]_vars

-----------------------------------------------------------------------------
(* Properties                                                              *)

\* The tick loses no call: every call the program is still waiting for
\* has its future parked in the map or drained by the running tick, so a
\* later poll can complete it.
InvocationTracked ==
    \A h \in Handles : status[h] = "calling" => h \in Tracked

\* Once the program dropped a handle, no response is fed to it: its
\* handler and buffers may be gone.
NoFeedAfterDrop ==
    [][\A h \in Handles : status[h] = "dropped" => fed'[h] = fed[h]]_vars
=============================================================================
