--------------------------- MODULE DaoMap_proofs ---------------------------
(***************************************************************************)
(* Proofs about DaoMap of lib/src/dio/map.rs used by one task at a time:   *)
(* len() and iter() agree for every set of keys and primary keys.  With   *)
(* two overlapping transactions they do not (run daomap_concurrent), so   *)
(* the theorems assume one transaction.                                    *)
(***************************************************************************)
EXTENDS DaoMap, FiniteSetTheorems, TLAPS

\* The rows a transaction sees as the map's children once it commits.
View(x) == (live \cup dirty[x]) \ deleted[x]

\* A lookup names each row at most once.
Injective(lk) ==
    \A k1, k2 \in Keys : lk[k1] = lk[k2] /\ lk[k1] # None => k1 = k2

\* Every row of rows is named by a key of the lookup.
Named(lk, rows) == \A id \in rows : \E k \in Keys : lk[k] = id

\* Primary keys in use: every row and every lookup entry was handed out
\* by store(), and store() has handed out finitely many.
Fresh ==
    /\ IsFiniteSet(used)
    /\ live \subseteq used
    /\ \A k \in Keys : lookup[k] \in used \cup {None}
    /\ \A x \in Txns :
        /\ dirty[x] \subseteq used /\ deleted[x] \subseteq used
        /\ \A k \in Keys : tlookup[x][k] \in used \cup {None}

\* The committed lookup names every committed child once, and so does an
\* open transaction's copy for the rows it would commit; a transaction
\* that did not fork its parent staged nothing.
Consistent ==
    /\ Injective(lookup) /\ Named(lookup, live)
    /\ \A x \in Txns :
        /\ phase[x] = "idle" => dirty[x] = {} /\ deleted[x] = {} /\ ~forked[x]
        /\ phase[x] = "open" =>
              /\ Injective(tlookup[x]) /\ Named(tlookup[x], View(x))
              /\ ~forked[x] => dirty[x] = {} /\ deleted[x] = {}

IInv == TypeOK /\ Fresh /\ Consistent

\* The code's tasks use the map one transaction at a time.
SingleTask == \E x : Txns = {x}

-----------------------------------------------------------------------------
(* len() and iter() count the same children                                *)

\* If the lookup names every committed child exactly once, len() counts
\* the keys iter() yields.
LEMMA CountsAgree == IInv => LenMatchesIter
<1> SUFFICES ASSUME IInv PROVE LenMatchesIter
    OBVIOUS
<1> DEFINE S == IterKeys(lookup)
           f == [k \in S |-> lookup[k]]
<1>1. IsFiniteSet(live)
    BY FS_Subset DEF IInv, Fresh
<1>2. None \notin live
    BY DaoMapAssumption DEF IInv, TypeOK
<1>3. f \in Injection(S, live)
    BY <1>2 DEF IInv, Consistent, Injective, Injection, IsInjective,
               IterKeys
<1>4. f \in Surjection(S, live)
    BY DEF IInv, Consistent, Named, Surjection, IterKeys
<1>5. Cardinality(S) = Cardinality(live)
    BY <1>1, <1>3, <1>4, FS_Injection
<1> QED
    BY <1>5 DEF LenMatchesIter, Len

-----------------------------------------------------------------------------
(* The inductive invariant                                                 *)

LEMMA IInvInit == Init => IInv
<1> SUFFICES ASSUME Init PROVE IInv
    OBVIOUS
<1>1. TypeOK
    BY DaoMapAssumption DEF Init, TypeOK, Lookups
<1>2. Fresh
    BY FS_EmptySet DEF Init, Fresh
<1>3. Consistent
    BY DEF Init, Consistent, Injective, Named
<1> QED
    BY <1>1, <1>2, <1>3 DEF IInv

\* Open: the transaction's copy of the lookup is the committed one and it
\* has staged nothing, so it sees exactly the committed children.
LEMMA OpenStep ==
    ASSUME IInv, NEW x \in Txns, Open(x)
    PROVE  IInv'
<1>1. dirty[x] = {} /\ deleted[x] = {} /\ ~forked[x]
    BY DEF Open, IInv, Consistent
<1>2. View(x)' = live
    BY <1>1 DEF Open, View
<1>3. TypeOK'
    BY DEF Open, IInv, TypeOK
<1>4. Fresh'
    BY DEF Open, IInv, TypeOK, Fresh
<1>5. Consistent'
    BY <1>1, <1>2 DEF Open, IInv, TypeOK, Consistent, View
<1> QED
    BY <1>3, <1>4, <1>5 DEF IInv

\* insert_ret: the fresh primary key is named by the key alone, and the
\* child the key named before leaves the transaction's view with it.
LEMMA InsertStep ==
    ASSUME IInv, NEW x \in Txns, NEW k \in Keys, Insert(x, k)
    PROVE  IInv'
<1> PICK id \in Ids \ used :
        LET old == tlookup[x][k] IN
        /\ used' = used \cup {id}
        /\ tlookup' = [tlookup EXCEPT ![x][k] = id]
        /\ IF old = None
             THEN /\ dirty' = [dirty EXCEPT ![x] = @ \cup {id}]
                  /\ UNCHANGED deleted
             ELSE /\ deleted' = [deleted EXCEPT ![x] = @ \cup {old}]
                  /\ dirty' = [dirty EXCEPT ![x] = (@ \cup {id}) \ {old}]
    BY DEF Insert
<1> DEFINE old == tlookup[x][k]
<1>0. /\ phase[x] = "open" /\ forked' = [forked EXCEPT ![x] = TRUE]
      /\ UNCHANGED <<lookup, live, tombs, phase>>
    BY DEF Insert
<1>1. /\ old \in used \cup {None}
      /\ id \notin used /\ id # None
      /\ View(x) \subseteq used
      /\ None \notin used
    BY DaoMapAssumption DEF IInv, TypeOK, Fresh, View
<1>4. /\ tlookup'[x] \in Lookups /\ tlookup' \in [Txns -> Lookups]
      /\ \A k2 \in Keys : tlookup'[x][k2] = IF k2 = k THEN id ELSE tlookup[x][k2]
      /\ \A y \in Txns \ {x} : tlookup'[y] = tlookup[y]
    BY DEF IInv, TypeOK, Lookups
<1>5. Injective(tlookup'[x])
    <2> SUFFICES ASSUME NEW k1 \in Keys, NEW k2 \in Keys,
                        tlookup'[x][k1] = tlookup'[x][k2],
                        tlookup'[x][k1] # None
                 PROVE  k1 = k2
        BY DEF Injective
    <2>1. \A j \in Keys : tlookup[x][j] \in used \cup {None}
        BY DEF IInv, Fresh
    <2>2. Injective(tlookup[x])
        BY <1>0 DEF IInv, Consistent
    <2> QED
        BY <1>1, <1>4, <2>1, <2>2 DEF Injective
<1>2. CASE old = None
    <2>1. /\ dirty'[x] = dirty[x] \cup {id} /\ deleted'[x] = deleted[x]
          /\ \A y \in Txns \ {x} : dirty'[y] = dirty[y] /\ deleted'[y] = deleted[y]
        BY <1>2 DEF IInv, TypeOK
    <2>2. View(x)' = View(x) \cup {id}
        BY <1>0, <1>1, <2>1 DEF View, IInv, Fresh
    <2>3. TypeOK'
        BY <1>0, <1>2, <1>4, <2>1 DEF IInv, TypeOK, Lookups
    <2>4. Fresh'
        BY <1>0, <1>1, <2>1, FS_AddElement DEF IInv, TypeOK, Fresh
    <2>5. Injective(tlookup'[x])
        BY <1>5
    <2>6. Named(tlookup'[x], View(x)')
        <3>1. Named(tlookup[x], View(x))
            BY <1>0 DEF IInv, Consistent
        <3> QED
            BY <1>1, <1>2, <1>4, <2>2, <3>1 DEF Named
    <2>7. Consistent'
        BY <1>0, <1>4, <2>1, <2>5, <2>6 DEF IInv, TypeOK, Consistent, View
    <2> QED
        BY <2>3, <2>4, <2>7 DEF IInv
<1>3. CASE old # None
    <2>1. /\ dirty'[x] = (dirty[x] \cup {id}) \ {old}
          /\ deleted'[x] = deleted[x] \cup {old}
          /\ \A y \in Txns \ {x} : dirty'[y] = dirty[y] /\ deleted'[y] = deleted[y]
        BY <1>3 DEF IInv, TypeOK
    <2>2. View(x)' = (View(x) \cup {id}) \ {old}
        BY <1>0, <1>1, <2>1 DEF View, IInv, Fresh
    <2>3. TypeOK'
        <3>1. old \in Ids
            BY <1>3 DEF IInv, TypeOK, Lookups
        <3>2. /\ dirty' \in [Txns -> SUBSET Ids]
              /\ deleted' \in [Txns -> SUBSET Ids]
            BY <1>3, <3>1 DEF IInv, TypeOK
        <3>3. used' \subseteq Ids /\ forked' \in [Txns -> BOOLEAN]
            BY <1>0 DEF IInv, TypeOK
        <3> QED
            BY <1>0, <1>4, <3>2, <3>3 DEF IInv, TypeOK
    <2>4. Fresh'
        BY <1>0, <1>1, <2>1, FS_AddElement DEF IInv, TypeOK, Fresh
    <2>5. Injective(tlookup'[x])
        BY <1>5
    <2>6. Named(tlookup'[x], View(x)')
        <3>1. Named(tlookup[x], View(x))
            BY <1>0 DEF IInv, Consistent
        <3> QED
            BY <1>1, <1>3, <1>4, <2>2, <3>1 DEF Named
    <2>7. Consistent'
        BY <1>0, <1>4, <2>1, <2>5, <2>6 DEF IInv, TypeOK, Consistent, View
    <2> QED
        BY <2>3, <2>4, <2>7 DEF IInv
<1> QED
    BY <1>2, <1>3

\* get forks the parent handle and changes nothing else.
LEMMA GetStep ==
    ASSUME IInv, NEW x \in Txns, NEW k \in Keys, Get(x, k)
    PROVE  IInv'
<1>1. TypeOK' /\ Fresh'
    BY DEF Get, IInv, TypeOK, Fresh
<1>2. Consistent'
    BY DEF Get, IInv, TypeOK, Consistent, View
<1> QED
    BY <1>1, <1>2 DEF IInv

\* delete: the row the key names leaves the transaction's view; the
\* lookup keeps the key.
LEMMA DeleteStep ==
    ASSUME IInv, NEW x \in Txns, NEW k \in Keys, Delete(x, k)
    PROVE  IInv'
<1>0. /\ phase[x] = "open" /\ forked' = [forked EXCEPT ![x] = TRUE]
      /\ UNCHANGED <<lookup, live, tombs, used, phase, tlookup>>
    BY DEF Delete
<1>1. CASE tlookup[x][k] # None /\ Exists(x, tlookup[x][k])
    <2> DEFINE id == tlookup[x][k]
    <2>1. id \in used /\ id \in Ids
        BY <1>1 DEF IInv, TypeOK, Fresh, Lookups
    <2>2. /\ deleted' = [deleted EXCEPT ![x] = @ \cup {id}]
          /\ dirty' = [dirty EXCEPT ![x] = @ \ {id}]
        BY <1>1 DEF Delete, DeleteRow
    <2>3. View(x)' = View(x) \ {id}
        BY <1>0, <2>2 DEF View, IInv, TypeOK
    <2>4. TypeOK' /\ Fresh'
        BY <1>0, <2>1, <2>2 DEF IInv, TypeOK, Fresh
    <2>5. Consistent'
        BY <1>0, <2>2, <2>3 DEF IInv, TypeOK, Consistent, Named, View
    <2> QED
        BY <2>4, <2>5 DEF IInv
<1>2. CASE ~(tlookup[x][k] # None /\ Exists(x, tlookup[x][k]))
    <2>1. UNCHANGED <<dirty, deleted>>
        BY <1>2 DEF Delete
    <2>2. TypeOK' /\ Fresh'
        BY <1>0, <2>1 DEF IInv, TypeOK, Fresh
    <2>3. Consistent'
        BY <1>0, <2>1 DEF IInv, TypeOK, Consistent, View
    <2> QED
        BY <2>2, <2>3 DEF IInv
<1> QED
    BY <1>1, <1>2

\* Commit: the batch makes the transaction's view the committed children
\* and, when the parent was forked, its copy of the lookup the committed
\* one.  With one task no other transaction's view goes stale.
LEMMA CommitStep ==
    ASSUME IInv, SingleTask, NEW x \in Txns, Commit(x)
    PROVE  IInv'
<1>0. Txns = {x}
    BY DEF SingleTask
<1>1. /\ phase[x] = "open"
      /\ Injective(tlookup[x]) /\ Named(tlookup[x], View(x))
      /\ ~forked[x] => dirty[x] = {} /\ deleted[x] = {}
    BY DEF Commit, IInv, Consistent
<1>2. live' = View(x)
    BY DEF Commit, View
<1>3. TypeOK'
    BY DEF Commit, IInv, TypeOK
<1>4. Fresh'
    BY <1>2 DEF Commit, IInv, TypeOK, Fresh, View
<1>5. Injective(lookup') /\ Named(lookup', live')
    <2>1. CASE forked[x]
        BY <1>1, <1>2, <2>1 DEF Commit
    <2>2. CASE ~forked[x]
        <3>1. live' = live /\ lookup' = lookup
            BY <1>1, <1>2, <2>2 DEF Commit, View
        <3> QED
            BY <3>1 DEF IInv, Consistent
    <2> QED
        BY <2>1, <2>2 DEF IInv, TypeOK
<1>6. phase'[x] = "done"
    BY DEF Commit, IInv, TypeOK
<1>7. Consistent'
    BY <1>0, <1>5, <1>6 DEF Consistent
<1> QED
    BY <1>3, <1>4, <1>7 DEF IInv

\* A task starts its next transaction with nothing staged.
LEMMA RestartStep ==
    ASSUME IInv, NEW x \in Txns, Restart(x)
    PROVE  IInv'
<1>1. TypeOK' /\ Fresh'
    BY DEF Restart, IInv, TypeOK, Fresh
<1>2. Consistent'
    BY DEF Restart, IInv, TypeOK, Consistent, View
<1> QED
    BY <1>1, <1>2 DEF IInv

LEMMA IInvStep == SingleTask /\ IInv /\ [Next]_vars => IInv'
<1> SUFFICES ASSUME SingleTask, IInv, [Next]_vars PROVE IInv'
    OBVIOUS
<1>1. CASE UNCHANGED vars
    BY <1>1 DEF vars, IInv, TypeOK, Fresh, Consistent, View
<1> QED
    BY <1>1, OpenStep, InsertStep, GetStep, DeleteStep, CommitStep,
       RestartStep DEF Next

-----------------------------------------------------------------------------
(* Theorems                                                                *)

\* Used by one task at a time, insert_ret, get, delete and the commit of
\* the parent keep len() equal to the number of keys iter() yields: every
\* committed child of the map is named by exactly one key of the lookup,
\* for any keys and primary keys.
THEOREM LenIterAgree ==
    ASSUME SingleTask
    PROVE  Spec => []LenMatchesIter
<1>1. IInv /\ [Next]_vars => IInv'
    BY IInvStep
<1> QED
    BY <1>1, IInvInit, CountsAgree, PTL DEF Spec
=============================================================================
