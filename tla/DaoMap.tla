------------------------------ MODULE DaoMap ------------------------------
(***************************************************************************)
(* DaoMap<K, V> of lib/src/dio/map.rs on a parent object, used from        *)
(* mutable transactions (DioMut).                                          *)
(*                                                                         *)
(* The map keeps its lookup table K -> PrimaryKey inside the parent's     *)
(* body; the values are child rows of the parent under the map's vec_id.  *)
(* A transaction loads the parent (and with it a copy of the lookup),     *)
(* calls insert, get and delete through the parent's mutable handle,      *)
(* which forks the parent, and commits its rows, tombstones and the       *)
(* parent's body in one batch.  The DioMut operations the map calls       *)
(* (store, exists, load, delete, children, commit) are not under src/ and *)
(* follow spec 4.4 and 4.6.                                               *)
(***************************************************************************)
EXTENDS Naturals, FiniteSets

CONSTANTS
    Txns,   \* transactions of the program that use the map
    Keys,   \* keys of the map
    Ids,    \* primary keys store() may hand out
    None    \* no primary key (a key absent from the lookup)

ASSUME DaoMapAssumption == None \notin Ids

VARIABLES
    lookup,   \* the lookup table in the parent's committed body
    live,     \* committed children of the map's collection
    tombs,    \* tombstoned rows
    used,     \* primary keys handed out so far
    phase,    \* each transaction: "idle", "open" or "done"
    tlookup,  \* the transaction's copy of the lookup (its parent handle)
    forked,   \* the transaction mutated its parent handle
    dirty,    \* children the transaction stored
    deleted   \* rows the transaction deleted

vars == <<lookup, live, tombs, used, phase, tlookup, forked, dirty, deleted>>

Lookups == [Keys -> Ids \cup {None}]

TypeOK ==
    /\ lookup \in Lookups
    /\ live \subseteq Ids /\ tombs \subseteq Ids /\ used \subseteq Ids
    /\ phase \in [Txns -> {"idle", "open", "done"}]
    /\ tlookup \in [Txns -> Lookups]
    /\ forked \in [Txns -> BOOLEAN]
    /\ dirty \in [Txns -> SUBSET Ids]
    /\ deleted \in [Txns -> SUBSET Ids]

\* DioMut::exists(id) as the transaction sees it: staged in this
\* transaction, or committed and neither tombstoned nor deleted here.
Exists(x, id) ==
    \/ id \in dirty[x]
    \/ id \in live /\ id \notin deleted[x]

\* DioMut::delete(id): mark it deleted and drop a staged copy.
DeleteRow(x, id) ==
    /\ deleted' = [deleted EXCEPT ![x] = @ \cup {id}]
    /\ dirty' = [dirty EXCEPT ![x] = @ \ {id}]

\* len(): children_keys(parent, vec_id) counts the collection's children
\* in the timeline.
Len == Cardinality(live)

\* iter()/iter_mut(): the collection's children, kept only when the
\* reverse of the lookup names them; the keys it yields.
IterKeys(lk) == {k \in Keys : lk[k] \in live}

-----------------------------------------------------------------------------

\* A parent that already holds its map, with nothing in it.
Init ==
    /\ lookup = [k \in Keys |-> None]
    /\ live = {} /\ tombs = {} /\ used = {}
    /\ phase = [x \in Txns |-> "idle"]
    /\ tlookup = [x \in Txns |-> [k \in Keys |-> None]]
    /\ forked = [x \in Txns |-> FALSE]
    /\ dirty = [x \in Txns |-> {}]
    /\ deleted = [x \in Txns |-> {}]

\* A transaction opens and loads the parent: its handle holds a copy of
\* the committed lookup.
Open(x) ==
    /\ phase[x] = "idle"
    /\ phase' = [phase EXCEPT ![x] = "open"]
    /\ tlookup' = [tlookup EXCEPT ![x] = lookup]
    /\ UNCHANGED <<lookup, live, tombs, used, forked, dirty, deleted>>

\* Mutant: insert_ret that forgets the child the key named before.
InsertKeepsOld(x, k) ==
    /\ phase[x] = "open"
    /\ \E id \in Ids \ used :
        /\ used' = used \cup {id}
        /\ dirty' = [dirty EXCEPT ![x] = @ \cup {id}]
        /\ tlookup' = [tlookup EXCEPT ![x][k] = id]
    /\ forked' = [forked EXCEPT ![x] = TRUE]
    /\ UNCHANGED <<lookup, live, tombs, phase, deleted>>

\* insert_ret(key, value): store the value as a new child (a fresh primary
\* key), point the key at it, and delete the child the key named before.
Insert(x, k) ==
    /\ phase[x] = "open"
    /\ \E id \in Ids \ used :
        LET old == tlookup[x][k] IN
        /\ used' = used \cup {id}
        /\ tlookup' = [tlookup EXCEPT ![x][k] = id]
        /\ IF old = None
             THEN /\ dirty' = [dirty EXCEPT ![x] = @ \cup {id}]
                  /\ UNCHANGED deleted
             ELSE /\ deleted' = [deleted EXCEPT ![x] = @ \cup {old}]
                  /\ dirty' = [dirty EXCEPT ![x] = (@ \cup {id}) \ {old}]
    /\ forked' = [forked EXCEPT ![x] = TRUE]
    /\ UNCHANGED <<lookup, live, tombs, phase>>

\* get(&mut self, key): reads only, but through the parent's mutable
\* handle, which forks the parent.
Get(x, k) ==
    /\ phase[x] = "open"
    /\ forked' = [forked EXCEPT ![x] = TRUE]
    /\ UNCHANGED <<lookup, live, tombs, used, phase, tlookup, dirty, deleted>>

\* delete(&mut self, key): a key absent from the lookup, or naming a row
\* that no longer exists, returns false; otherwise the row is deleted.  The
\* lookup keeps the key either way.
Delete(x, k) ==
    /\ phase[x] = "open"
    /\ forked' = [forked EXCEPT ![x] = TRUE]
    /\ IF tlookup[x][k] # None /\ Exists(x, tlookup[x][k])
         THEN DeleteRow(x, tlookup[x][k])
         ELSE UNCHANGED <<dirty, deleted>>
    /\ UNCHANGED <<lookup, live, tombs, used, phase, tlookup>>

\* The transaction commits: the stored children, the tombstones and, when
\* its handle was forked, the parent's body with its copy of the lookup
\* go in one batch.
Commit(x) ==
    /\ phase[x] = "open"
    /\ phase' = [phase EXCEPT ![x] = "done"]
    /\ live' = (live \cup dirty[x]) \ deleted[x]
    /\ tombs' = tombs \cup deleted[x]
    /\ lookup' = IF forked[x] THEN tlookup[x] ELSE lookup
    /\ UNCHANGED <<used, tlookup, forked, dirty, deleted>>

\* A finished transaction's task starts the next one with a fresh DIO.
Restart(x) ==
    /\ phase[x] = "done"
    /\ phase' = [phase EXCEPT ![x] = "idle"]
    /\ forked' = [forked EXCEPT ![x] = FALSE]
    /\ dirty' = [dirty EXCEPT ![x] = {}]
    /\ deleted' = [deleted EXCEPT ![x] = {}]
    /\ UNCHANGED <<lookup, live, tombs, used, tlookup>>

Next ==
    \/ \E x \in Txns :
        \/ Open(x) \/ Commit(x) \/ Restart(x)
        \/ \E k \in Keys : Insert(x, k) \/ Get(x, k) \/ Delete(x, k)

Spec == Init /\ [][Next]_vars

-----------------------------------------------------------------------------
(* Properties                                                              *)

\* len() agrees with iter(): every committed child of the map is reachable
\* through a key of the lookup, so no child is counted by len() and
\* skipped by iter(), or left where no call of the map can delete it.
LenMatchesIter == Len = Cardinality(IterKeys(lookup))
=============================================================================
