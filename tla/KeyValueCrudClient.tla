------------------------- MODULE KeyValueCrudClient -------------------------
(***************************************************************************)
(* KeyValueCrudClient (src/src/base/crud/client/KeyValueCrudClient.cc):   *)
(* CRUD of model items over a key-value store.  Every operation is a few  *)
(* separate requests (make_request) to the store; each request is one     *)
(* atomic step of the store, and clients (server threads serving HTTP     *)
(* requests) interleave between them.  A request may fail: error_check   *)
(* then throws and the operation ends with an error.                      *)
(*                                                                         *)
(* The keys of one item type, abstracted:                                 *)
(*   get_item_key(id)          -> items[id]     (the serialised item)     *)
(*   get_set_key()             -> idset         (the set of all ids)      *)
(*   get_field_key("name", n)  -> nameIndex[n]  (index field -> id)       *)
(*   get_lock_key(id, type)    -> locks         (present = locked)        *)
(* Foreign-key sets and proxies only add more keys of the same kinds and  *)
(* are left out; an item's serialised body is its name and the set of     *)
(* fields an update has modified.                                         *)
(***************************************************************************)
EXTENDS Naturals, Sequences, FiniteSets, SequencesExt, Functions

CONSTANTS
    Clients,       \* threads using one KeyValueCrudClient
    Ids,           \* primary keys (explicit ones and generated UUIDs)
    Names,         \* item names (the indexed field)
    DefaultName,   \* the name of a freshly made model, in Names
    Mods,          \* fields an update may modify
    MaxFaults,     \* bound on failed store requests
    MaxItems,      \* most identifiers or items in one create request
    LockTypes,     \* CrudLockType values the callers use
    NoId,          \* an empty id string
    Absent         \* a key that is not in the store

VARIABLES
    items,         \* item keys: id -> serialised item, or Absent
    nameIndex,     \* name index keys: name -> id, or NoId
    idset,         \* the set key
    locks,         \* lock keys present: <<id, lock type>>
    generated,     \* ids the IdGenerator has handed out (they are unique)
    pc,            \* per client: the request it will make next, with locals
    ret,           \* per client: what its last operation returned
    faults,        \* failed store requests so far
    acked          \* ids a create returned ok for, not removed since

vars == <<items, nameIndex, idset, locks, generated, pc, ret, faults, acked>>

Idle == [step |-> "idle"]

(***************************************************************************)
(* Requests and error_check.  A request either succeeds or, while faults  *)
(* remain, fails; a failed request changes nothing in the store.          *)
(***************************************************************************)
Outcomes == IF faults < MaxFaults THEN BOOLEAN ELSE {TRUE}

Count(ok) == faults' = IF ok THEN faults ELSE faults + 1

\* error_check: a failed response throws and the operation returns an error.
Throw(c, op) ==
    /\ pc' = [pc EXCEPT ![c] = Idle]
    /\ ret' = [ret EXCEPT ![c] = [op |-> op, ok |-> FALSE]]

Return(c, r) ==
    /\ pc' = [pc EXCEPT ![c] = Idle]
    /\ ret' = [ret EXCEPT ![c] = r]


(***************************************************************************)
(* create.  First the ids: each item's own primary key or a generated id  *)
(* (items form); get_ids()[0]'s primary key for EVERY identifier, or a   *)
(* generated id (ids form); one generated id (neither).  The index fields *)
(* of the ids and neither forms come from a fresh model before its        *)
(* attributes are applied, so they index DefaultName.  Then one           *)
(* STRING_SET writes each item key and its name index key, and one       *)
(* SET_ADD adds each id to the set key; error_check follows each.         *)
(***************************************************************************)
\* The request: its form and, per item or identifier, a primary key (maybe
\* NoId) and the name the item gets.
CreateRequests ==
    [form : {"items"}, reqs : UNION {[1 .. n -> [pk : Ids \cup {NoId},
                                                  name : Names]] : n \in 1 .. MaxItems}]
    \cup
    [form : {"ids"}, reqs : UNION {[1 .. n -> [pk : Ids \cup {NoId},
                                                name : {DefaultName}]] : n \in 1 .. MaxItems}]
    \cup
    [form : {"none"}, reqs : {<<[pk |-> NoId, name |-> DefaultName]>>}]

\* The primary key the loop of create reads in iteration i.
CreatePk(rq, i) ==
    IF rq.form = "ids" THEN rq.reqs[1].pk ELSE rq.reqs[i].pk

\* The ids with the generate_id call left out: an empty key stays empty.
CreateIdsNoGenerate(rq, fresh) ==
    [i \in DOMAIN rq.reqs |-> CreatePk(rq, i)]

\* ids[i]: that primary key, or what generate_id returned in iteration i.
CreateIds(rq, fresh) ==
    [i \in DOMAIN rq.reqs |-> IF CreatePk(rq, i) = NoId THEN fresh[i]
                                                     ELSE CreatePk(rq, i)]

Generated(rq, fresh) ==
    {fresh[i] : i \in {j \in DOMAIN rq.reqs : CreatePk(rq, j) = NoId}}

\* STRING_SET of key/value pairs in order: a key written twice keeps the
\* value of its last pair.
LastWrite(ks, vs, k, old) ==
    LET at == {i \in DOMAIN ks : ks[i] = k}
    IN  IF at = {} THEN old ELSE vs[Max(at)]

create(c, rq) ==
    /\ pc[c] = Idle
    /\ \E ok \in Outcomes, fresh \in [1 .. MaxItems -> Ids \ generated] :
        LET ids   == CreateIds(rq, fresh)
            names == [i \in DOMAIN rq.reqs |-> rq.reqs[i].name]
        IN
        /\ IsInjective(fresh)
        /\ generated' = generated \cup Generated(rq, fresh)
        /\ Count(ok)
        /\ IF ok
           THEN /\ items' = [x \in Ids |-> LastWrite(ids,
                       [i \in DOMAIN ids |-> [name |-> names[i], mods |-> {}]],
                       x, items[x])]
                /\ nameIndex' = [n \in Names |->
                       LastWrite(names, ids, n, nameIndex[n])]
                /\ pc' = [pc EXCEPT ![c] = [step |-> "create_set_add",
                       ids |-> ids, pks |-> [i \in DOMAIN ids |-> rq.reqs[i].pk]]]
                /\ UNCHANGED ret
           ELSE /\ Throw(c, "create")
                /\ UNCHANGED <<items, nameIndex>>
    /\ UNCHANGED <<idset, locks, acked>>

\* The SET_ADD of create with its error_check left out.
create_set_add_unchecked(c) ==
    /\ pc[c].step = "create_set_add"
    /\ \E ok \in Outcomes :
        /\ Count(ok)
        /\ idset' = IF ok THEN idset \cup Range(pc[c].ids) ELSE idset
        /\ acked' = acked \cup Range(pc[c].ids)
        /\ Return(c, [op |-> "create", ok |-> TRUE, ids |-> pc[c].ids,
                      pks |-> pc[c].pks])
    /\ UNCHANGED <<items, nameIndex, locks, generated>>

\* The SET_ADD of create and its error_check.
create_set_add(c) ==
    /\ pc[c].step = "create_set_add"
    /\ \E ok \in Outcomes :
        /\ Count(ok)
        /\ IF ok
           THEN /\ idset' = idset \cup Range(pc[c].ids)
                /\ acked' = acked \cup Range(pc[c].ids)
                /\ Return(c, [op |-> "create", ok |-> TRUE, ids |-> pc[c].ids,
                              pks |-> pc[c].pks])
           ELSE /\ Throw(c, "create")
                /\ UNCHANGED <<idset, acked>>
    /\ UNCHANGED <<items, nameIndex, locks, generated>>

(***************************************************************************)
(* update (items form, one item): STRING_GET of the item key; an absent   *)
(* item throws "Attempted to update a non-existing resource"; otherwise  *)
(* the fetched item, with the request's modified field applied, is       *)
(* written back by STRING_SET.  Nothing holds the item between the two.  *)
(***************************************************************************)
update(c) ==
    /\ pc[c] = Idle
    /\ \E id \in Ids, mod \in Mods, ok \in Outcomes :
        /\ Count(ok)
        /\ IF ok /\ items[id] # Absent
           THEN /\ pc' = [pc EXCEPT ![c] = [step |-> "update_set", id |-> id,
                            db_item |-> [items[id] EXCEPT !.mods = @ \cup {mod}]]]
                /\ UNCHANGED ret
           ELSE Throw(c, "update")
    /\ UNCHANGED <<items, nameIndex, idset, locks, generated, acked>>

update_set(c) ==
    /\ pc[c].step = "update_set"
    /\ \E ok \in Outcomes :
        /\ Count(ok)
        /\ IF ok
           THEN /\ items' = [items EXCEPT ![pc[c].id] = pc[c].db_item]
                /\ Return(c, [op |-> "update", ok |-> TRUE, id |-> pc[c].id])
           ELSE /\ Throw(c, "update")
                /\ UNCHANGED items
    /\ UNCHANGED <<nameIndex, idset, locks, generated, acked>>

(***************************************************************************)
(* remove (one identifier with a primary key): STRING_REMOVE of the item *)
(* key, then SET_REMOVE of the id from the set key.  The name index keys *)
(* stay.  The second error_check is given string_response, the response  *)
(* of the first request, so a failed SET_REMOVE is not reported.         *)
(***************************************************************************)
remove(c) ==
    /\ pc[c] = Idle
    /\ \E id \in Ids, ok \in Outcomes :
        /\ Count(ok)
        /\ acked' = acked \ {id}
        /\ IF ok
           THEN /\ items' = [items EXCEPT ![id] = Absent]
                /\ pc' = [pc EXCEPT ![c] = [step |-> "remove_set", id |-> id]]
                /\ UNCHANGED ret
           ELSE /\ Throw(c, "remove")
                /\ UNCHANGED items
    /\ UNCHANGED <<nameIndex, idset, locks, generated>>

\* Ids a remove has taken the item key of and not yet the set entry.
Removing == {pc[c].id : c \in {d \in Clients : pc[d].step = "remove_set"}}

\* remove without its SET_REMOVE.
remove_set_skipped(c) ==
    /\ pc[c].step = "remove_set"
    /\ Return(c, [op |-> "remove", ok |-> TRUE, id |-> pc[c].id])
    /\ UNCHANGED <<items, nameIndex, idset, locks, generated, acked, faults>>

remove_set(c) ==
    /\ pc[c].step = "remove_set"
    /\ \E ok \in Outcomes :
        /\ Count(ok)
        /\ idset' = IF ok THEN idset \ {pc[c].id} ELSE idset
        /\ Return(c, [op |-> "remove", ok |-> TRUE, id |-> pc[c].id])
    /\ UNCHANGED <<items, nameIndex, locks, generated, acked>>

(***************************************************************************)
(* read.  By id: STRING_GET of the item key.  By name (an identifier     *)
(* with a name, or an index query on "name"): STRING_GET of the name     *)
(* index key, an empty answer returns nothing, then STRING_GET of the    *)
(* item key.  All: SET_LIST of the set key, then STRING_GET of every     *)
(* listed item key.  If any item fetched is empty nothing is returned.   *)
(* A returned read is the set of ids whose items it returns.  (stable,  *)
(* the acked ids no remove is busy with when the listing is taken, is a  *)
(* record for properties.)                                                *)
(***************************************************************************)
\* A final STRING_GET whose response is decoded from its first item only.
ReadGetFirstOnly(c, op, keys) ==
    \E ok \in Outcomes :
        /\ Count(ok)
        /\ IF ~ok THEN Throw(c, op)
           ELSE IF keys = {} \/ \E id \in keys : items[id] = Absent
           THEN Return(c, [op |-> op, ok |-> TRUE, ids |-> {}])
           ELSE Return(c, [op |-> op, ok |-> TRUE,
                           ids |-> {CHOOSE id \in keys : TRUE}])

\* The final STRING_GET of read for the item keys of `keys`.
ReadGet(c, op, keys) ==
    \E ok \in Outcomes :
        /\ Count(ok)
        /\ IF ~ok THEN Throw(c, op)
           ELSE IF keys = {} \/ \E id \in keys : items[id] = Absent
           THEN Return(c, [op |-> op, ok |-> TRUE, ids |-> {}])
           ELSE Return(c, [op |-> op, ok |-> TRUE, ids |-> keys])

read_id(c) ==
    /\ pc[c] = Idle
    /\ \E id \in Ids : ReadGet(c, "read_id", {id})
    /\ UNCHANGED <<items, nameIndex, idset, locks, generated, acked>>

read_name(c, n) ==
    /\ pc[c] = Idle
    /\ \E ok \in Outcomes :
        /\ Count(ok)
        /\ IF ~ok THEN Throw(c, "read_name")
           ELSE IF nameIndex[n] = NoId
           THEN Return(c, [op |-> "read_name", ok |-> TRUE, ids |-> {}])
           ELSE /\ pc' = [pc EXCEPT ![c] = [step |-> "read_name_get",
                                             id |-> nameIndex[n]]]
                /\ UNCHANGED ret
    /\ UNCHANGED <<items, nameIndex, idset, locks, generated, acked>>

read_name_get(c) ==
    /\ pc[c].step = "read_name_get"
    /\ ReadGet(c, "read_name", {pc[c].id})
    /\ UNCHANGED <<items, nameIndex, idset, locks, generated, acked>>

read_all(c) ==
    /\ pc[c] = Idle
    /\ \E ok \in Outcomes :
        /\ Count(ok)
        /\ IF ~ok THEN Throw(c, "read_all")
           ELSE /\ pc' = [pc EXCEPT ![c] = [step |-> "read_all_get",
                                             listed |-> idset, stable |-> acked \ Removing]]
                /\ UNCHANGED ret
    /\ UNCHANGED <<items, nameIndex, idset, locks, generated, acked>>

read_all_get(c) ==
    /\ pc[c].step = "read_all_get"
    /\ ReadGet(c, "read_all", pc[c].listed)
    /\ UNCHANGED <<items, nameIndex, idset, locks, generated, acked>>

(***************************************************************************)
(* lock, unlock, is_locked: one request on the lock key of the id and    *)
(* lock type (STRING_SET of "1", STRING_REMOVE, STRING_EXISTS).          *)
(***************************************************************************)
lock(c) ==
    /\ pc[c] = Idle
    /\ \E id \in Ids, t \in LockTypes, ok \in Outcomes :
        /\ Count(ok)
        /\ locks' = IF ok THEN locks \cup {<<id, t>>} ELSE locks
        /\ IF ok THEN Return(c, [op |-> "lock", ok |-> TRUE])
                 ELSE Throw(c, "lock")
    /\ UNCHANGED <<items, nameIndex, idset, generated, acked>>

unlock(c) ==
    /\ pc[c] = Idle
    /\ \E id \in Ids, t \in LockTypes, ok \in Outcomes :
        /\ Count(ok)
        /\ locks' = IF ok THEN locks \ {<<id, t>>} ELSE locks
        /\ IF ok THEN Return(c, [op |-> "unlock", ok |-> TRUE])
                 ELSE Throw(c, "unlock")
    /\ UNCHANGED <<items, nameIndex, idset, generated, acked>>

is_locked(c) ==
    /\ pc[c] = Idle
    /\ \E id \in Ids, t \in LockTypes, ok \in Outcomes :
        /\ Count(ok)
        /\ IF ok THEN Return(c, [op |-> "is_locked", ok |-> TRUE,
                                 found |-> <<id, t>> \in locks])
                 ELSE Throw(c, "is_locked")
    /\ UNCHANGED <<items, nameIndex, idset, locks, generated, acked>>

(***************************************************************************)
(* The system: clients start operations and make their next request in   *)
(* any interleaving.                                                      *)
(***************************************************************************)
Init ==
    /\ items = [id \in Ids |-> Absent]
    /\ nameIndex = [n \in Names |-> NoId]
    /\ idset = {}
    /\ locks = {}
    /\ generated = {}
    /\ pc = [c \in Clients |-> Idle]
    /\ ret = [c \in Clients |-> [op |-> "none", ok |-> TRUE]]
    /\ faults = 0
    /\ acked = {}

Next ==
    \E c \in Clients :
        \/ \E rq \in CreateRequests : create(c, rq)
        \/ create_set_add(c)
        \/ update(c) \/ update_set(c)
        \/ remove(c) \/ remove_set(c)
        \/ read_id(c) \/ \E n \in Names : read_name(c, n)
        \/ read_name_get(c)
        \/ read_all(c) \/ read_all_get(c)
        \/ lock(c) \/ unlock(c) \/ is_locked(c)

Spec == Init /\ [][Next]_vars

(***************************************************************************)
(* Properties.                                                            *)
(***************************************************************************)
Content == [name : Names, mods : SUBSET Mods]

TypeOK ==
    /\ items \in [Ids -> Content \cup {Absent}]
    /\ nameIndex \in [Names -> Ids \cup {NoId}]
    /\ idset \subseteq Ids
    /\ locks \subseteq Ids \X LockTypes
    /\ generated \subseteq Ids
    /\ acked \subseteq Ids
    /\ faults \in 0 .. MaxFaults
    /\ \A c \in Clients : pc[c].step \in {"idle", "create_set_add",
           "update_set", "remove_set", "read_name_get", "read_all_get"}

AllIdle == \A c \in Clients : pc[c] = Idle

\* A create that returned ok (after its STRING_SET and its SET_ADD both
\* passed error_check) left each of its ids with an item key and in the set
\* key, for as long as no remove has been started on the id: failed
\* requests of this or other operations never undo it.
CreateOkDurable ==
    \A id \in acked : items[id] # Absent /\ id \in idset

\* Between operations the set key lists exactly the ids that have an item
\* key: create adds both, remove takes both away.
IndexConsistent ==
    AllIdle => idset = {id \in Ids : items[id] # Absent}

\* A read of all items returns every item whose create returned ok before
\* the listing (SET_LIST), that no remove was busy with then and that no
\* remove has touched since, as the test of the CRUD client expects of a
\* read after two creates.
ReadAllComplete ==
    [][\A c \in Clients :
         (pc[c].step = "read_all_get" /\ ret'[c] # ret[c] /\ ret'[c].ok)
            => pc[c].stable \cap acked \subseteq ret'[c].ids]_vars

\* A remove that returned ok has taken the id out of the set key.
RemoveOkImpliesUnlisted ==
    \A c \in Clients :
        (pc[c] = Idle /\ ret[c].op = "remove" /\ ret[c].ok) =>
            ret[c].id \notin idset

\* Only create brings an item key into existence: update throws
\* "Attempted to update a non-existing resource" rather than create one.
UpdateNeverCreates ==
    [][\A id \in Ids :
         (items[id] = Absent /\ items'[id] # Absent) =>
            \E c \in Clients : pc[c] = Idle /\ pc'[c].step = "create_set_add"]_vars

=============================================================================
