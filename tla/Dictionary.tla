----------------------------- MODULE Dictionary -----------------------------
(***************************************************************************)
(* hestia::Dictionary (src/src/base/common/base_types/Dictionary.cc): the *)
(* tree every model is serialised into.  A node has a type (MAP,          *)
(* SEQUENCE, SCALAR) and, whatever its type, the three members m_scalar,  *)
(* m_sequence and m_map: set_type changes the type and keeps the others.  *)
(* The tag and m_should_quote are left out (see README).                  *)
(*                                                                         *)
(* One Dictionary object, `this`, is driven by its mutating methods with  *)
(* small dictionaries as arguments; the read-only methods (get_scalar,    *)
(* flatten, operator==) are operators checked in every state.            *)
(***************************************************************************)
EXTENDS Naturals, Sequences, SequencesExt, Functions

CONSTANTS
    Keys,           \* map keys (none contains the key delimiter)
    Scalars,        \* scalar strings, "" included
    MaxSeq,         \* bound on the length of any sequence member
    MaxDepth        \* bound on the nesting of nodes under the root

VARIABLES
    this            \* the Dictionary

EmptyMap == [k \in {} |-> ""]

\* Dictionary(type): no scalar, no items.  The default constructor is
\* taken to make a MAP (expand fills default-constructed nodes by
\* set_map_item without setting their type).
New(type) == [type |-> type, scalar |-> "", seq |-> <<>>, map |-> EmptyMap]

Scalar(s) == [New("scalar") EXCEPT !.scalar = s]

\* Dictionaries as a JSON parser makes them: only the member of the type.
Leaves == {Scalar(s) : s \in Scalars} \cup {New("map"), New("sequence")}

Inputs ==
    Leaves
    \cup {[New("map") EXCEPT !.map = f] :
            f \in UNION {[ks -> {Scalar(s) : s \in Scalars}] : ks \in SUBSET Keys}}
    \cup {[New("sequence") EXCEPT !.seq = <<x>>] : x \in Leaves}

\* is_empty: the member of the node's type is empty.
is_empty(d) ==
    CASE d.type = "map"      -> DOMAIN d.map = {}
      [] d.type = "sequence" -> d.seq = <<>>
      [] OTHER               -> d.scalar = ""

\* Dictionary(const Dictionary&): a fresh node, then copy_from.
RECURSIVE Copy(_)
Copy(d) == [type |-> d.type, scalar |-> d.scalar,
            seq |-> [i \in DOMAIN d.seq |-> Copy(d.seq[i])],
            map |-> [k \in DOMAIN d.map |-> Copy(d.map[k])]]

\* copy_from: type, scalar and the sequence are taken from other; its map
\* entries are emplaced, which leaves an entry of this with the same key.
copy_from(d, other) ==
    [type |-> other.type, scalar |-> other.scalar,
     seq |-> [i \in DOMAIN other.seq |-> Copy(other.seq[i])],
     map |-> [k \in DOMAIN d.map \cup DOMAIN other.map |->
                 IF k \in DOMAIN d.map THEN d.map[k] ELSE Copy(other.map[k])]]

\* The MAP branch of merge: each entry of dict replaces or adds one.
MergeMap(m, dm) ==
    [k \in DOMAIN m \cup DOMAIN dm |-> IF k \in DOMAIN dm THEN Copy(dm[k]) ELSE m[k]]

\* merge: nothing for an empty dict; an empty this first copies dict (and
\* then falls through to the merge of its type); type "throw" for two types.
merge(d, dict) ==
    LET t == IF is_empty(d) THEN copy_from(d, dict) ELSE d
    IN  CASE is_empty(dict) -> d
          [] dict.type = "scalar" /\ t.type = "scalar" ->
                [t EXCEPT !.scalar = dict.scalar]
          [] dict.type = "sequence" /\ t.type = "sequence" ->
                [t EXCEPT !.seq = @ \o [i \in DOMAIN dict.seq |-> Copy(dict.seq[i])]]
          [] dict.type = "map" /\ t.type = "map" ->
                [t EXCEPT !.map = MergeMap(@, dict.map)]
          [] OTHER -> [d EXCEPT !.type = "throw"]

\* operator==: types, then for a MAP every key of this must be in rhs with
\* a value that is NOT equal (line 424 returns false when *value == ...);
\* for a SEQUENCE the sizes and items; for a SCALAR the strings.
RECURSIVE Equals(_, _)
Equals(l, r) ==
    /\ l.type = r.type
    /\ CASE l.type = "map" ->
              \A k \in DOMAIN l.map : k \in DOMAIN r.map /\ ~Equals(l.map[k], r.map[k])
         [] l.type = "sequence" ->
              Len(l.seq) = Len(r.seq) /\ \A i \in DOMAIN l.seq : Equals(l.seq[i], r.seq[i])
         [] OTHER -> l.scalar = r.scalar

(***************************************************************************)
(* get_scalar(key, delimiter): the key split at the delimiter is walked   *)
(* down the maps; a scalar ends the walk (found only at the last key), a  *)
(* sequence or a missing key gives "", and the node at the last key gives *)
(* its m_scalar.  A split key is a sequence of keys here.                 *)
(***************************************************************************)
\* A faulty variant: a scalar met before the last key is returned.
RECURSIVE WalkKeysEarlyScalar(_, _, _)
WalkKeysEarlyScalar(working, keys, depth) ==
    LET key == keys[depth + 1]
        next == working.map[key]
    IN  CASE key \notin DOMAIN working.map -> ""
          [] next.type = "scalar" -> next.scalar
          [] next.type # "map" -> ""
          [] depth + 1 = Len(keys) -> next.scalar
          [] OTHER -> WalkKeysEarlyScalar(next, keys, depth + 1)

RECURSIVE WalkKeys(_, _, _)
WalkKeys(working, keys, depth) ==
    LET key == keys[depth + 1]
        next == working.map[key]
    IN  CASE key \notin DOMAIN working.map -> ""
          [] next.type = "scalar" -> IF depth = Len(keys) - 1 THEN next.scalar ELSE ""
          [] next.type # "map" -> ""
          [] depth + 1 = Len(keys) -> next.scalar
          [] OTHER -> WalkKeys(next, keys, depth + 1)

get_scalar(d, keys) == IF d.type # "map" \/ keys = <<>> THEN "" ELSE WalkKeys(d, keys, 0)

(***************************************************************************)
(* get_scalars(key, values): a SCALAR gives its scalar; a MAP the entry  *)
(* under key, if that entry is a SCALAR (maps under it are not searched); *)
(* a SEQUENCE the values of its items in order.  KeyValueCrudClient::read *)
(* takes the ids of the items it read this way.                          *)
(***************************************************************************)
\* A faulty variant: a SCALAR item of a sequence gives nothing.
RECURSIVE get_scalars_maps_only(_, _)
get_scalars_maps_only(d, key) ==
    CASE d.type = "scalar" -> <<>>
      [] d.type = "map" ->
            IF key \in DOMAIN d.map /\ d.map[key].type = "scalar"
            THEN <<d.map[key].scalar>> ELSE <<>>
      [] OTHER -> FlattenSeq([i \in DOMAIN d.seq |-> get_scalars_maps_only(d.seq[i], key)])

RECURSIVE get_scalars(_, _)
get_scalars(d, key) ==
    CASE d.type = "scalar" -> <<d.scalar>>
      [] d.type = "map" ->
            IF key \in DOMAIN d.map /\ d.map[key].type = "scalar"
            THEN <<d.map[key].scalar>> ELSE <<>>
      [] OTHER -> FlattenSeq([i \in DOMAIN d.seq |-> get_scalars(d.seq[i], key)])

(***************************************************************************)
(* flatten: the scalars of the tree under keys made of the path to them   *)
(* (a map key, or "seq_<index>" for a sequence item), joined by the       *)
(* delimiter; a scalar at the root is under "value".  A key is the        *)
(* sequence of its parts here, so the join and split are left out.        *)
(***************************************************************************)
SeqSegment(i) == "seq_" \o ToString(i - 1)

RECURSIVE FlattenLayer(_, _)
FlattenLayer(d, prefix) ==
    CASE d.type = "scalar" -> {<<IF prefix = <<>> THEN <<"value">> ELSE prefix, d.scalar>>}
      [] d.type = "sequence" ->
            UNION {FlattenLayer(d.seq[i], Append(prefix, SeqSegment(i))) : i \in DOMAIN d.seq}
      [] OTHER -> UNION {FlattenLayer(d.map[k], Append(prefix, k)) : k \in DOMAIN d.map}

\* The Map it fills: set_item per pair.
flatten(d) ==
    LET pairs == IF is_empty(d) THEN {} ELSE FlattenLayer(d, <<>>)
    IN  [key \in {pr[1] : pr \in pairs} |-> CHOOSE v \in Scalars : <<key, v>> \in pairs]

(***************************************************************************)
(* expand: the keys of the flat map, split, sorted by their number of     *)
(* parts (std::sort, so keys with as many parts come in any order), each  *)
(* walked from this: a "seq_" part makes the working node a SEQUENCE and  *)
(* appends a new item to it; a part naming an existing map item moves to  *)
(* it; a new last part gets the scalar; a new inner part a new map.  The  *)
(* working node is a path of selectors <<"m", key>> or <<"s", index>>.    *)
(***************************************************************************)
RECURSIVE NodeAt(_, _)
NodeAt(d, ptr) ==
    IF ptr = <<>> THEN d
    ELSE NodeAt(IF Head(ptr)[1] = "m" THEN d.map[Head(ptr)[2]] ELSE d.seq[Head(ptr)[2]],
                Tail(ptr))

RECURSIVE SetAt(_, _, _)
SetAt(d, ptr, n) ==
    CASE ptr = <<>> -> n
      [] Head(ptr)[1] = "m" -> [d EXCEPT !.map[Head(ptr)[2]] = SetAt(@, Tail(ptr), n)]
      [] OTHER -> [d EXCEPT !.seq[Head(ptr)[2]] = SetAt(@, Tail(ptr), n)]

\* A faulty variant: item numbers taken to start at 1.
IsSeqSegmentFromOne(entry) == entry \in {"seq_" \o ToString(i) : i \in 1 .. MaxSeq + 1}

\* StringUtils::starts_with(entry, "seq_")
IsSeqSegment(entry) == entry \in {SeqSegment(i) : i \in 1 .. MaxSeq + 1}

\* A faulty variant: a part naming an existing map item replaces it.
RECURSIVE ExpandSegmentsReplace(_, _, _, _, _)
ExpandSegmentsReplace(d, ptr, segs, i, value) ==
    LET entry == segs[i]
        w == NodeAt(d, ptr)
    IN  CASE i > Len(segs) -> d
          [] IsSeqSegment(entry) ->
                LET w2 == [w EXCEPT !.type = "sequence", !.seq = Append(@, New("map"))]
                IN  ExpandSegmentsReplace(SetAt(d, ptr, w2), Append(ptr, <<"s", Len(w2.seq)>>),
                                          segs, i + 1, value)
          [] i = Len(segs) -> SetAt(d, ptr, [w EXCEPT !.map = (entry :> Scalar(value)) @@ @])
          [] OTHER -> ExpandSegmentsReplace(
                        SetAt(d, ptr, [w EXCEPT !.map = (entry :> New("map")) @@ @]),
                        Append(ptr, <<"m", entry>>), segs, i + 1, value)

RECURSIVE ExpandSegments(_, _, _, _, _)
ExpandSegments(d, ptr, segs, i, value) ==
    LET entry == segs[i]
        w == NodeAt(d, ptr)
    IN  CASE i > Len(segs) -> d
          [] IsSeqSegment(entry) ->
                LET w2 == [w EXCEPT !.type = "sequence", !.seq = Append(@, New("map"))]
                IN  ExpandSegments(SetAt(d, ptr, w2), Append(ptr, <<"s", Len(w2.seq)>>),
                                   segs, i + 1, value)
          [] entry \in DOMAIN w.map ->
                ExpandSegments(d, Append(ptr, <<"m", entry>>), segs, i + 1, value)
          [] i = Len(segs) -> SetAt(d, ptr, [w EXCEPT !.map = (entry :> Scalar(value)) @@ @])
          [] OTHER -> ExpandSegments(
                        SetAt(d, ptr, [w EXCEPT !.map = (entry :> New("map")) @@ @]),
                        Append(ptr, <<"m", entry>>), segs, i + 1, value)

SortedKeyOrders(flat) ==
    {s \in SetToSeqs(DOMAIN flat) : \A i \in 1 .. Len(s) - 1 : Len(s[i]) <= Len(s[i + 1])}

\* Every dictionary expand can leave, one per order of the sort.
expand(d, flat) ==
    {FoldLeft(LAMBDA acc, key : ExpandSegments(acc, <<>>, key, 1, flat[key]), d, order) :
        order \in SortedKeyOrders(flat)}

(***************************************************************************)
(* The methods that change this.                                          *)
(***************************************************************************)
Types == {"map", "sequence", "scalar"}

\* No sequence member in the tree is longer than MaxSeq.
RECURSIVE SeqBounded(_)
SeqBounded(d) ==
    /\ Len(d.seq) <= MaxSeq
    /\ \A i \in DOMAIN d.seq : SeqBounded(d.seq[i])
    /\ \A k \in DOMAIN d.map : SeqBounded(d.map[k])

\* The nesting of a node: 0 for a node with no items.
RECURSIVE Depth(_)
Depth(d) ==
    LET kids == {d.seq[i] : i \in DOMAIN d.seq} \cup {d.map[k] : k \in DOMAIN d.map}
    IN  IF kids = {} THEN 0 ELSE 1 + Max({Depth(c) : c \in kids})

\* The model's bounds on the trees it explores.
Bounded(d) == SeqBounded(d) /\ Depth(d) <= MaxDepth

set_type(type) == this' = [this EXCEPT !.type = type]

set_scalar(scalar) == this' = [this EXCEPT !.scalar = scalar]

\* set_map_item: m_map[key] = item.
set_map_item(key, item) ==
    /\ this' = [this EXCEPT !.map = (key :> item) @@ @]
    /\ Bounded(this')

\* set_map: a scalar item per key.
set_map(items) ==
    this' = [this EXCEPT !.map = [k \in DOMAIN items |-> Scalar(items[k])] @@ @]

add_sequence_item(item) ==
    /\ Len(this.seq) < MaxSeq
    /\ this' = [this EXCEPT !.seq = Append(@, item)]
    /\ Bounded(this')

\* merge; the exception for two types leaves this as it was.
merge_dict(dict) ==
    LET r == merge(this, dict)
    IN  /\ this' = IF r.type = "throw" THEN this ELSE r
        /\ Bounded(this')

\* operator=: copy_from (the self-assignment test is for another object).
assign(other) ==
    /\ this' = copy_from(this, other)
    /\ Bounded(this')

\* expand of the flat form of a dictionary into this.
expand_flat(dict) ==
    /\ this' \in expand(this, flatten(dict))
    /\ Bounded(this')

\* A Dictionary is made by Dictionary(type) or by the copy constructor.
Init == this \in {New(t) : t \in Types} \cup {Copy(d) : d \in Inputs}

Next ==
    \/ \E t \in Types : set_type(t)
    \/ \E sc \in Scalars : set_scalar(sc)
    \/ \E k \in Keys, d \in Inputs : set_map_item(k, d)
    \/ \E ks \in SUBSET Keys : \E items \in [ks -> Scalars] : set_map(items)
    \/ \E d \in Inputs : add_sequence_item(d)
    \/ \E d \in Inputs : merge_dict(d)
    \/ \E d \in Inputs : assign(d)
    \/ \E d \in Inputs : expand_flat(d)

Spec == Init /\ [][Next]_this

(***************************************************************************)
(* Properties, stated in every state this can reach.                       *)
(***************************************************************************)
RECURSIVE WellFormed(_)
WellFormed(d) ==
    /\ d.type \in Types
    /\ d.scalar \in Scalars
    /\ DOMAIN d.map \subseteq Keys \cup {"value"}
    /\ \A i \in DOMAIN d.seq : WellFormed(d.seq[i])
    /\ \A k \in DOMAIN d.map : WellFormed(d.map[k])

TypeOK ==
    /\ DOMAIN this = {"type", "scalar", "seq", "map"}
    /\ WellFormed(this)

\* The node a path of keys names, walking maps only.
RECURSIVE ScalarAt(_, _)
ScalarAt(d, path) ==
    CASE path = <<>> -> IF d.type = "scalar" THEN d.scalar ELSE ""
      [] d.type = "map" /\ Head(path) \in DOMAIN d.map -> ScalarAt(d.map[Head(path)], Tail(path))
      [] OTHER -> ""

KeyPaths == {<<k>> : k \in Keys} \cup {<<k, l>> : k, l \in Keys}

\* get_scalar(key) finds the scalar a key of one or two parts names in a
\* tree of maps, and "" when the path leaves the maps or misses.
GetScalarFindsPath ==
    \A path \in KeyPaths : get_scalar(this, path) = ScalarAt(this, path)

\* The flat keys of d that name a value get_scalars(key) should give: a
\* path down sequence items only, ending at the key or at a sequence item,
\* or the "value" of a root scalar.
ScalarsKeyPaths(d, flat, key) ==
    {p \in DOMAIN flat :
        \/ p = <<"value">> /\ d.type = "scalar"
        \/ /\ \A i \in 1 .. Len(p) - 1 : IsSeqSegment(p[i])
           /\ p[Len(p)] = key \/ IsSeqSegment(p[Len(p)])}

\* get_scalars(d, key) gives each of those values as many times as flatten
\* lists it.  (A root scalar "" flattens to nothing and is left out.)
ScalarsMatch(d) ==
    \A key \in Keys :
        ~(d.type = "scalar" /\ d.scalar = "") =>
            LET flat == flatten(d)
                ps == ScalarsKeyPaths(d, flat, key)
            IN  ToBag(get_scalars(d, key)) =
                    [v \in {flat[p] : p \in ps} |-> Cardinality({p \in ps : flat[p] = v})]

\* The response KeyValueCrudClient::read gives get_scalars: a sequence of
\* two items, this and any input.
ReadResponses ==
    {[New("sequence") EXCEPT !.seq = <<this, x>>] : x \in Inputs}

\* get_scalars(key) gives, as many times each, the values flatten lists
\* under a key reached through sequence items only: a sequence of items
\* read by KeyValueCrudClient::read gives one id per item that has one,
\* and no value nested under another key.  Checked for this and for every
\* two-item sequence of this and an input, so that two items both give a
\* value.
GetScalarsMatchesFlatten ==
    \A d \in {this} \cup ReadResponses : ScalarsMatch(d)

\* A tree of maps with scalars at the leaves, no map under the root empty.
RECURSIVE MapTree(_, _)
MapTree(d, root) ==
    /\ d.type = "map" /\ d.scalar = "" /\ d.seq = <<>>
    /\ ~root => DOMAIN d.map # {}
    /\ \A k \in DOMAIN d.map :
          \/ d.map[k] \in {Scalar(sc) : sc \in Scalars}
          \/ MapTree(d.map[k], FALSE)

\* expand undoes flatten for a tree of maps: expanding the flat form of
\* this into a new Dictionary rebuilds this, in every order of the sort.
ExpandInvertsFlatten ==
    MapTree(this, TRUE) => expand(New("map"), flatten(this)) = {this}


====
