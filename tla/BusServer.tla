----------------------------- MODULE BusServer -----------------------------
(***************************************************************************)
(* The answering side of the WASM bus host syscalls, term-lib/src/bus/     *)
(* syscalls.rs.                                                            *)
(*                                                                         *)
(* Other processes send work to this WASM thread over its work channel:   *)
(* a call (topic, handle and the sender for the result) or the drop of a  *)
(* call.  wasm_bus_poll takes one piece of work: a call on a topic the    *)
(* program listens on is recorded in inner.calls and handed to the        *)
(* program; for others the code builds tx.send(Err(..)) and drops the     *)
(* future without awaiting it, so nothing is sent.  The program answers   *)
(* with wasm_bus_reply or wasm_bus_fault, which take the sender out of    *)
(* calls and try_send the result; if the channel is closed or full, a     *)
(* spawned task sends it later.  A caller may give up a call: its         *)
(* receiver closes and a drop is queued.                                  *)
(***************************************************************************)
EXTENDS Naturals, Sequences

CONSTANTS
    Handles,  \* handles of calls made to this process
    Topics,   \* topics a call may name
    AbiOk     \* the module exports memory, malloc and start

ASSUME BusServerAssumption == AbiOk \in BOOLEAN

VARIABLES
    work,      \* the work channel: <<kind, handle>> in order
    topic,     \* the topic each call names
    sent,      \* calls their callers have sent
    listens,   \* inner.listens
    calls,     \* inner.calls: handles whose sender the host holds
    handling,  \* calls handed to the program
    dropSeen,  \* calls whose drop the program was told of
    closed,    \* calls whose caller dropped the receiver
    spawned,   \* results a spawned task still has to send
    results    \* results each caller received

vars == <<work, topic, sent, listens, calls, handling, dropSeen, closed,
          spawned, results>>

\* Enough to tell one result from two.
MaxResults == 2

TypeOK ==
    /\ work \in Seq({"call", "drop"} \X Handles)
    /\ topic \in [Handles -> Topics]
    /\ sent \subseteq Handles /\ listens \subseteq Topics
    /\ calls \subseteq Handles /\ handling \subseteq Handles
    /\ dropSeen \subseteq Handles /\ closed \subseteq Handles
    /\ spawned \subseteq Handles
    /\ results \in [Handles -> 0..MaxResults]

\* tx.send / try_send of one result: a caller that closed its receiver
\* never sees it.
Deliver(h) ==
    results' = [results EXCEPT ![h] = IF h \in closed \/ @ = MaxResults
                                      THEN @ ELSE @ + 1]

\* work.try_send(result): it fails on a closed receiver, and may fail on a
\* full channel; a failure hands the result to a spawned task.
TrySend(h) ==
    \/ /\ h \notin closed
       /\ Deliver(h)
       /\ UNCHANGED spawned
    \/ /\ spawned' = spawned \cup {h}
       /\ UNCHANGED results

-----------------------------------------------------------------------------

Init ==
    /\ work = << >>
    /\ topic \in [Handles -> Topics]
    /\ sent = {} /\ listens = {} /\ calls = {} /\ handling = {}
    /\ dropSeen = {} /\ closed = {} /\ spawned = {}
    /\ results = [h \in Handles |-> 0]

\* A caller sends a call to this process.
Send(h) ==
    /\ h \notin sent
    /\ sent' = sent \cup {h}
    /\ work' = Append(work, <<"call", h>>)
    /\ UNCHANGED <<topic, listens, calls, handling, dropSeen, closed,
                   spawned, results>>

\* A caller gives up a call: its receiver closes and a drop is queued.
GiveUp(h) ==
    /\ h \in sent \ closed
    /\ closed' = closed \cup {h}
    /\ work' = Append(work, <<"drop", h>>)
    /\ UNCHANGED <<topic, sent, listens, calls, handling, dropSeen, spawned,
                   results>>

\* wasm_bus_listen.
Listen(t) ==
    /\ listens' = listens \cup {t}
    /\ UNCHANGED <<work, topic, sent, calls, handling, dropSeen, closed,
                   spawned, results>>

\* wasm_bus_poll takes a call: without the ABI, or on a topic nobody
\* listens on, it returns after `let _ = tx.send(Err(..))`, a future that
\* is dropped unpolled, so tx is dropped and the caller gets nothing;
\* otherwise the sender is recorded and the program's start handler runs.
PollCall ==
    /\ work # << >>
    /\ Head(work)[1] = "call"
    /\ LET h == Head(work)[2] IN
        /\ work' = Tail(work)
        /\ IF AbiOk /\ topic[h] \in listens
             THEN /\ calls' = calls \cup {h}
                  /\ handling' = handling \cup {h}
                  /\ UNCHANGED results
             ELSE UNCHANGED <<calls, handling, results>>
    /\ UNCHANGED <<topic, sent, listens, dropSeen, closed, spawned>>

\* wasm_bus_poll takes a drop: the program's drop handler, if it exports
\* one, is told; calls is left as it is.
PollDrop ==
    /\ work # << >>
    /\ Head(work)[1] = "drop"
    /\ work' = Tail(work)
    /\ dropSeen' = dropSeen \cup {Head(work)[2]}
    /\ UNCHANGED <<topic, sent, listens, calls, handling, closed, spawned,
                   results>>

\* Mutant: an answer that leaves the sender in calls.
AnswerKeepsSender(h) ==
    /\ h \in handling
    /\ IF h \in calls
         THEN TrySend(h)
         ELSE UNCHANGED <<spawned, results>>
    /\ UNCHANGED <<work, topic, sent, listens, calls, handling, dropSeen,
                   closed>>

\* wasm_bus_reply or wasm_bus_fault for a call the program was handed:
\* take the sender out of calls and try_send; a closed receiver makes
\* try_send fail with Closed, a full channel with Full, and in both cases
\* a spawned task sends the result later.  A handle no longer in calls is
\* ignored.
Answer(h) ==
    /\ h \in handling
    /\ IF h \in calls
         THEN /\ calls' = calls \ {h}
              /\ TrySend(h)
         ELSE UNCHANGED <<calls, spawned, results>>
    /\ UNCHANGED <<work, topic, sent, listens, handling, dropSeen, closed>>

\* The spawned task's work.send(response).await.
SpawnedSend(h) ==
    /\ h \in spawned
    /\ spawned' = spawned \ {h}
    /\ Deliver(h)
    /\ UNCHANGED <<work, topic, sent, listens, calls, handling, dropSeen,
                   closed>>

Next ==
    \/ \E h \in Handles : Send(h) \/ GiveUp(h) \/ Answer(h) \/ SpawnedSend(h)
    \/ \E t \in Topics : Listen(t)
    \/ PollCall \/ PollDrop

Spec == Init /\ [][Next]_vars

-----------------------------------------------------------------------------
(* Properties                                                              *)

\* A caller receives at most one result for a call, even when the program
\* answers it twice (a reply and then a fault).
ResultAtMostOnce == \A h \in Handles : results[h] <= 1

\* No call is lost on the way (wasm_bus_poll's rejection paths): a call
\* whose caller still waits has its work queued, its sender held in calls
\* for the program to answer or in a spawned task, or its result (an
\* answer or an IncorrectAbi/InvalidTopic error) delivered.
CallNotLost ==
    \A h \in sent \ closed :
        \/ \E i \in 1..Len(work) : work[i] = <<"call", h>>
        \/ h \in calls \cup spawned
        \/ results[h] >= 1

=============================================================================
