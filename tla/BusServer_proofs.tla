-------------------------- MODULE BusServer_proofs --------------------------
(***************************************************************************)
(* Proofs about BusServer, for any handles, topics and ABI: a caller gets  *)
(* at most one result, whichever of wasm_bus_reply, wasm_bus_fault and the *)
(* spawned send deliver it.                                                *)
(***************************************************************************)
EXTENDS BusServer, SequenceTheorems, TLAPS

\* The call of h waits in the work channel.
CallIn(h) == \E i \in 1..Len(work) : work[i] = <<"call", h>>

\* A call is queued at most once: callers send a handle once.
OneCallEntry ==
    \A i, j \in 1..Len(work) : work[i] = work[j] /\ work[i][1] = "call" => i = j

\* Where a result can still come from: a queued call that was never handed
\* to the program, a sender held in calls, or one held by a spawned task,
\* never two of these at once, and none of them has produced a result yet.
Sources ==
    /\ closed \subseteq sent /\ handling \subseteq sent
    /\ calls \subseteq handling /\ spawned \subseteq handling
    /\ calls \cap spawned = {}
    /\ \A h \in Handles : CallIn(h) =>
           h \in sent /\ results[h] = 0 /\ h \notin handling
    /\ \A h \in calls \cup spawned : results[h] = 0
    /\ \A h \in Handles \ sent : results[h] = 0 /\ ~CallIn(h)
    /\ \A h \in Handles : results[h] <= 1

\* The inductive invariant; checked with TLC on the bus_server_answers
\* instance before it was proved.
IInv == TypeOK /\ OneCallEntry /\ Sources

Entries == {"call", "drop"} \X Handles

-----------------------------------------------------------------------------
(* The work channel                                                        *)

LEMMA AppendFacts ==
    ASSUME NEW s \in Seq(Entries), NEW e \in Entries
    PROVE  /\ Append(s, e) \in Seq(Entries)
           /\ Len(s) \in Nat
           /\ Len(Append(s, e)) = Len(s) + 1
           /\ \A i \in 1..Len(s) : Append(s, e)[i] = s[i]
           /\ Append(s, e)[Len(s) + 1] = e
BY AppendProperties

LEMMA CallInAppend ==
    ASSUME NEW s \in Seq(Entries), NEW e \in Entries, NEW h \in Handles
    PROVE  (\E i \in 1..Len(Append(s, e)) : Append(s, e)[i] = <<"call", h>>)
           <=> (\E i \in 1..Len(s) : s[i] = <<"call", h>>) \/ e = <<"call", h>>
<1>1. /\ Len(s) \in Nat
      /\ Len(Append(s, e)) = Len(s) + 1
      /\ \A i \in 1..Len(s) : Append(s, e)[i] = s[i]
      /\ Append(s, e)[Len(s) + 1] = e
  BY AppendFacts
<1>2. ASSUME NEW i \in 1..Len(Append(s, e)), Append(s, e)[i] = <<"call", h>>
      PROVE  (\E j \in 1..Len(s) : s[j] = <<"call", h>>) \/ e = <<"call", h>>
  <2>1. CASE i \in 1..Len(s)
    BY <1>1, <1>2, <2>1
  <2>2. CASE i = Len(s) + 1
    BY <1>1, <1>2, <2>2
  <2>. QED
    BY <1>1, <2>1, <2>2
<1>3. ASSUME NEW i \in 1..Len(s), s[i] = <<"call", h>>
      PROVE  \E j \in 1..Len(Append(s, e)) : Append(s, e)[j] = <<"call", h>>
  BY <1>1, <1>3
<1>4. e = <<"call", h>>
      => \E j \in 1..Len(Append(s, e)) : Append(s, e)[j] = <<"call", h>>
  BY <1>1
<1>. QED
  BY <1>2, <1>3, <1>4

LEMMA OneAppend ==
    ASSUME NEW s \in Seq(Entries), NEW e \in Entries,
           \A i, j \in 1..Len(s) : s[i] = s[j] /\ s[i][1] = "call" => i = j,
           e[1] = "call" => \A i \in 1..Len(s) : s[i] # e
    PROVE  \A i, j \in 1..Len(Append(s, e)) :
               Append(s, e)[i] = Append(s, e)[j] /\ Append(s, e)[i][1] = "call"
                   => i = j
<1>1. /\ Len(s) \in Nat
      /\ Len(Append(s, e)) = Len(s) + 1
      /\ \A i \in 1..Len(s) : Append(s, e)[i] = s[i]
      /\ Append(s, e)[Len(s) + 1] = e
  BY AppendFacts
<1> SUFFICES ASSUME NEW i \in 1..Len(s) + 1, NEW j \in 1..Len(s) + 1,
                    Append(s, e)[i] = Append(s, e)[j],
                    Append(s, e)[i][1] = "call"
             PROVE  i = j
  BY <1>1
<1>2. CASE i \in 1..Len(s) /\ j \in 1..Len(s)
  BY <1>1, <1>2
<1>3. CASE i = Len(s) + 1 /\ j \in 1..Len(s)
  BY <1>1, <1>3
<1>4. CASE i \in 1..Len(s) /\ j = Len(s) + 1
  BY <1>1, <1>4
<1>. QED
  BY <1>1, <1>2, <1>3, <1>4

LEMMA CallInTail ==
    ASSUME NEW s \in Seq(Entries), s # << >>, NEW h \in Handles,
           \A i, j \in 1..Len(s) : s[i] = s[j] /\ s[i][1] = "call" => i = j
    PROVE  /\ (\E i \in 1..Len(Tail(s)) : Tail(s)[i] = <<"call", h>>)
                  <=> (\E i \in 1..Len(s) : s[i] = <<"call", h>>)
                      /\ Head(s) # <<"call", h>>
           /\ \A i, j \in 1..Len(Tail(s)) :
                  Tail(s)[i] = Tail(s)[j] /\ Tail(s)[i][1] = "call" => i = j
           /\ Tail(s) \in Seq(Entries)
<1>1. /\ Len(Tail(s)) = Len(s) - 1
      /\ \A i \in 1..Len(Tail(s)) : Tail(s)[i] = s[i + 1]
      /\ Head(s) = s[1]
      /\ Tail(s) \in Seq(Entries)
  BY HeadTailProperties
<1>2. ASSUME NEW i \in 1..Len(Tail(s)), Tail(s)[i] = <<"call", h>>
      PROVE  Head(s) # <<"call", h>>
  BY <1>1, <1>2
<1>3. ASSUME NEW i \in 1..Len(s), s[i] = <<"call", h>>, Head(s) # <<"call", h>>
      PROVE  \E j \in 1..Len(Tail(s)) : Tail(s)[j] = <<"call", h>>
  <2>1. i # 1
    BY <1>1, <1>3
  <2>2. i - 1 \in 1..Len(Tail(s)) /\ Tail(s)[i - 1] = s[i]
    BY <1>1, <2>1
  <2>. QED
    BY <1>3, <2>2
<1>. QED
  BY <1>1, <1>2, <1>3

LEMMA WorkAppend ==
    ASSUME NEW e \in Entries, work \in Seq(Entries), OneCallEntry,
           e[1] = "call" => \A i \in 1..Len(work) : work[i] # e,
           work' = Append(work, e)
    PROVE  /\ \A g \in Handles : CallIn(g)' <=> CallIn(g) \/ e = <<"call", g>>
           /\ OneCallEntry'
           /\ work' \in Seq(Entries)
<1>1. ASSUME NEW g \in Handles
      PROVE  (\E i \in 1..Len(Append(work, e)) :
                  Append(work, e)[i] = <<"call", g>>)
             <=> (\E i \in 1..Len(work) : work[i] = <<"call", g>>)
                 \/ e = <<"call", g>>
  BY CallInAppend
<1>2. \A i, j \in 1..Len(Append(work, e)) :
          Append(work, e)[i] = Append(work, e)[j]
          /\ Append(work, e)[i][1] = "call" => i = j
  BY OneAppend DEF OneCallEntry
<1>3. Append(work, e) \in Seq(Entries)
  BY AppendFacts
<1>. QED
  BY <1>1, <1>2, <1>3 DEF CallIn, OneCallEntry

LEMMA WorkTail ==
    ASSUME work \in Seq(Entries), work # << >>, OneCallEntry,
           work' = Tail(work)
    PROVE  /\ \A g \in Handles :
                  CallIn(g)' <=> CallIn(g) /\ Head(work) # <<"call", g>>
           /\ OneCallEntry'
           /\ work' \in Seq(Entries)
<1>1. ASSUME NEW g \in Handles
      PROVE  /\ (\E i \in 1..Len(Tail(work)) : Tail(work)[i] = <<"call", g>>)
                  <=> (\E i \in 1..Len(work) : work[i] = <<"call", g>>)
                      /\ Head(work) # <<"call", g>>
             /\ \A i, j \in 1..Len(Tail(work)) :
                  Tail(work)[i] = Tail(work)[j] /\ Tail(work)[i][1] = "call"
                      => i = j
             /\ Tail(work) \in Seq(Entries)
  BY CallInTail DEF OneCallEntry
<1>2. \A i, j \in 1..Len(Tail(work)) :
          Tail(work)[i] = Tail(work)[j] /\ Tail(work)[i][1] = "call" => i = j
  <2>1. Tail(work) \in Seq(Entries) /\ Len(Tail(work)) = Len(work) - 1
        /\ \A i \in 1..Len(Tail(work)) : Tail(work)[i] = work[i + 1]
    BY HeadTailProperties
  <2>. QED
    BY <2>1 DEF OneCallEntry
<1>3. Tail(work) \in Seq(Entries)
  BY HeadTailProperties
<1>. QED
  BY <1>1, <1>2, <1>3 DEF CallIn, OneCallEntry

-----------------------------------------------------------------------------
(* The inductive invariant                                                 *)

LEMMA IInvInit == Init => IInv
<1> SUFFICES ASSUME Init PROVE IInv
  OBVIOUS
<1>1. work \in Seq(Entries) /\ Len(work) = 0
  BY EmptySeq DEF Init, Entries
<1>2. TypeOK
  BY <1>1 DEF Init, TypeOK, Entries, MaxResults
<1>. QED
  BY <1>1, <1>2 DEF Init, IInv, OneCallEntry, Sources, CallIn

LEMMA IInvStep == IInv /\ [Next]_vars => IInv'
<1> SUFFICES ASSUME IInv, [Next]_vars PROVE IInv'
  OBVIOUS
<1>0. /\ work \in Seq(Entries)
      /\ results \in [Handles -> 0..MaxResults]
      /\ sent \subseteq Handles /\ calls \subseteq Handles
      /\ closed \subseteq Handles /\ handling \subseteq Handles
      /\ spawned \subseteq Handles
      /\ OneCallEntry /\ Sources
  BY DEF IInv, TypeOK, Entries
<1>1. CASE \E h \in Handles : Send(h)
  <2> PICK h \in Handles : Send(h)
    BY <1>1
  <2>1. ~CallIn(h) /\ results[h] = 0
    BY <1>0 DEF Send, Sources
  <2>2. /\ \A g \in Handles : CallIn(g)' <=> CallIn(g) \/ <<"call", h>> = <<"call", g>>
        /\ OneCallEntry'
        /\ work' \in Seq(Entries)
    <3>1. <<"call", h>> \in Entries /\ \A i \in 1..Len(work) : work[i] # <<"call", h>>
      BY <2>1 DEF Entries, CallIn
    <3>. QED
      BY <1>0, <3>1, WorkAppend DEF Send
  <2>3. \A g \in Handles : CallIn(g)' <=> CallIn(g) \/ g = h
    BY <2>2
  <2>4. TypeOK'
    BY <1>0, <2>2 DEF Send, IInv, TypeOK, Entries
  <2>5. Sources'
    BY <1>0, <2>1, <2>3 DEF Send, Sources
  <2>. QED
    BY <2>2, <2>4, <2>5 DEF IInv
<1>2. CASE \E h \in Handles : GiveUp(h)
  <2> PICK h \in Handles : GiveUp(h)
    BY <1>2
  <2>1. /\ \A g \in Handles : CallIn(g)' <=> CallIn(g) \/ <<"drop", h>> = <<"call", g>>
        /\ OneCallEntry'
        /\ work' \in Seq(Entries)
    <3>1. <<"drop", h>> \in Entries
      BY DEF Entries
    <3>. QED
      BY <1>0, <3>1, WorkAppend DEF GiveUp
  <2>2. \A g \in Handles : CallIn(g)' <=> CallIn(g)
    BY <2>1
  <2>3. OneCallEntry'
    BY <2>1
  <2>4. TypeOK'
    BY <1>0, <2>1 DEF GiveUp, IInv, TypeOK, Entries
  <2>5. Sources'
    BY <1>0, <2>2 DEF GiveUp, Sources
  <2>. QED
    BY <2>3, <2>4, <2>5 DEF IInv
<1>3. CASE \E t \in Topics : Listen(t)
  BY <1>0, <1>3 DEF Listen, IInv, TypeOK, OneCallEntry, Sources, CallIn
<1>4. CASE PollCall
  <2> DEFINE h == Head(work)[2]
  <2>1. work # << >> /\ Head(work) = work[1] /\ Len(work) >= 1
    BY <1>4 DEF PollCall
  <2>2. Head(work) = <<"call", h>> /\ h \in Handles
    BY <1>0, <1>4, <2>1 DEF PollCall, Entries
  <2>3. CallIn(h) /\ h \in sent /\ results[h] = 0 /\ h \notin handling
    BY <1>0, <2>1, <2>2 DEF CallIn, Sources
  <2>4. /\ \A g \in Handles : CallIn(g)' <=> CallIn(g) /\ g # h
        /\ OneCallEntry'
        /\ work' \in Seq(Entries)
    <3>1. /\ \A g \in Handles : CallIn(g)' <=> CallIn(g) /\ Head(work) # <<"call", g>>
          /\ OneCallEntry'
          /\ work' \in Seq(Entries)
      BY <1>0, <1>4, <2>1, WorkTail DEF PollCall
    <3>. QED
      BY <2>2, <3>1
  <2>5. CASE AbiOk /\ topic[h] \in listens
    <3>1. calls' = calls \cup {h} /\ handling' = handling \cup {h}
          /\ UNCHANGED <<results, sent, closed, spawned, topic, listens,
                         dropSeen>>
      BY <1>4, <2>5 DEF PollCall
    <3>2. TypeOK'
      BY <1>0, <2>2, <2>4, <3>1 DEF IInv, TypeOK, Entries
    <3>3. Sources'
      BY <1>0, <2>2, <2>3, <2>4, <3>1 DEF Sources
    <3>. QED
      BY <2>4, <3>2, <3>3 DEF IInv
  <2>6. CASE ~(AbiOk /\ topic[h] \in listens)
    <3>1. UNCHANGED <<calls, handling, results, sent, closed, spawned, topic,
                      listens, dropSeen>>
      BY <1>4, <2>6 DEF PollCall
    <3>2. TypeOK'
      BY <1>0, <2>4, <3>1 DEF IInv, TypeOK, Entries
    <3>3. Sources'
      BY <1>0, <2>3, <2>4, <3>1 DEF Sources
    <3>. QED
      BY <2>4, <3>2, <3>3 DEF IInv
  <2>. QED
    BY <2>5, <2>6
<1>5. CASE PollDrop
  <2>1. work # << >> /\ Head(work) = work[1] /\ Head(work)[1] = "drop"
    BY <1>5 DEF PollDrop
  <2>2. Head(work)[2] \in Handles
    BY <1>0, <2>1 DEF Entries
  <2>3. /\ \A g \in Handles : CallIn(g)' <=> CallIn(g)
        /\ OneCallEntry'
        /\ work' \in Seq(Entries)
    <3>1. /\ \A g \in Handles : CallIn(g)' <=> CallIn(g) /\ Head(work) # <<"call", g>>
          /\ OneCallEntry'
          /\ work' \in Seq(Entries)
      BY <1>0, <1>5, <2>1, WorkTail DEF PollDrop
    <3>. QED
      BY <2>1, <3>1
  <2>. QED
    BY <1>0, <1>5, <2>2, <2>3 DEF PollDrop, IInv, TypeOK, Sources, Entries
<1>6. CASE \E h \in Handles : Answer(h)
  <2> PICK h \in Handles : Answer(h)
    BY <1>6
  <2>0. UNCHANGED <<work, topic, sent, listens, handling, dropSeen, closed>>
    BY DEF Answer
  <2>1. \A g \in Handles : CallIn(g)' <=> CallIn(g)
    BY <2>0 DEF CallIn
  <2>2. h \in calls => h \in handling /\ h \notin spawned /\ results[h] = 0
    BY <1>0 DEF Sources
  <2>3. CASE h \in calls /\ spawned' = spawned \cup {h} /\ results' = results
    <3>1. calls' = calls \ {h}
      BY <2>3 DEF Answer
    <3>2. TypeOK' /\ OneCallEntry'
      BY <1>0, <2>0, <2>3, <3>1 DEF IInv, TypeOK, OneCallEntry
    <3>3. Sources'
      BY <1>0, <2>0, <2>1, <2>2, <2>3, <3>1 DEF Sources
    <3>. QED
      BY <3>2, <3>3 DEF IInv
  <2>4. CASE h \in calls /\ h \notin closed /\ spawned' = spawned /\ Deliver(h)
    <3>1. calls' = calls \ {h}
      BY <2>4 DEF Answer
    <3>2. results' = [results EXCEPT ![h] = 1]
      BY <1>0, <2>2, <2>4 DEF Deliver, MaxResults
    <3>3. TypeOK' /\ OneCallEntry'
      BY <1>0, <2>0, <2>4, <3>1, <3>2 DEF IInv, TypeOK, OneCallEntry, MaxResults
    <3>4. Sources'
      BY <1>0, <2>0, <2>1, <2>2, <2>4, <3>1, <3>2 DEF Sources
    <3>. QED
      BY <3>3, <3>4 DEF IInv
  <2>5. CASE h \notin calls
    BY <1>0, <2>0, <2>1, <2>5 DEF Answer, IInv, TypeOK, OneCallEntry, Sources
  <2>. QED
    BY <2>3, <2>4, <2>5 DEF Answer, TrySend
<1>7. CASE \E h \in Handles : SpawnedSend(h)
  <2> PICK h \in Handles : SpawnedSend(h)
    BY <1>7
  <2>0. UNCHANGED <<work, topic, sent, listens, calls, handling, dropSeen,
                    closed>> /\ spawned' = spawned \ {h}
    BY DEF SpawnedSend
  <2>1. h \in handling /\ h \notin calls /\ results[h] = 0
    BY <1>0 DEF SpawnedSend, Sources
  <2>2. results' = [results EXCEPT ![h] = IF h \in closed THEN 0 ELSE 1]
    BY <1>0, <2>1 DEF SpawnedSend, Deliver, MaxResults
  <2>3. \A g \in Handles : CallIn(g)' <=> CallIn(g)
    BY <2>0 DEF CallIn
  <2>4. TypeOK' /\ OneCallEntry'
    BY <1>0, <2>0, <2>2 DEF IInv, TypeOK, OneCallEntry, MaxResults
  <2>5. Sources'
    BY <1>0, <2>0, <2>1, <2>2, <2>3 DEF Sources
  <2>. QED
    BY <2>4, <2>5 DEF IInv
<1>8. CASE UNCHANGED vars
  BY <1>0, <1>8 DEF vars, IInv, TypeOK, OneCallEntry, Sources, CallIn
<1>. QED
  BY <1>1, <1>2, <1>3, <1>4, <1>5, <1>6, <1>7, <1>8 DEF Next
-----------------------------------------------------------------------------
(* Theorems                                                                *)

\* wasm_bus_reply, wasm_bus_fault, the spawned retry and the error paths of
\* wasm_bus_poll never give a caller two results, for any handles, topics
\* and exports.
THEOREM ResultOnce == Spec => []ResultAtMostOnce
<1>1. IInv => ResultAtMostOnce
  BY DEF IInv, Sources, ResultAtMostOnce
<1>. QED
  BY <1>1, IInvInit, IInvStep, PTL DEF Spec
=============================================================================
