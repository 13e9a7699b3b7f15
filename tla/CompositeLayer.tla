--------------------------- MODULE CompositeLayer ---------------------------
(***************************************************************************)
(* The extent-tracking engine of one storage layer (CompositeLayer in     *)
(* src/src/hsm_service/model/CompositeLayer.h).  The layer keeps two      *)
(* ExtentLists, std::map<std::size_t, MarkableExtent> keyed by offset: one *)
(* for reads and one for writes.  A map from offset to [length, marked]   *)
(* stands for each: inserting at an offset already in the map replaces    *)
(* the entry there.  Deletion is two-phase: operations mark entries and   *)
(* delete_marked_extents sweeps them.  Marked entries no longer count as  *)
(* coverage; the scans of add, match, subtract and mark only look at      *)
(* unmarked ("live") entries, while has_*_extents still see marked ones.  *)
(*                                                                         *)
(* The .cc of CompositeLayer is not in the repository; the operations     *)
(* follow spec.md section 4.2, the state and signatures follow the header. *)
(* Each public operation is one atomic action (spec.md section 5: callers *)
(* serialise mutations of a layer).  The outcome of the last operation is *)
(* kept in `result` so that properties can talk about what was returned.  *)
(***************************************************************************)
EXTENDS Naturals, FiniteSets, FiniteSetsExt, TLC

CONSTANTS
    Size,            \* bytes of the object: byte offsets 0 .. Size-1
    IsWriteValues    \* which of the two ExtentLists the callers use

VARIABLES
    m_read_extents,  \* ExtentList: offset -> [length, marked]
    m_write_extents,
    result           \* outcome of the last public operation

vars == <<m_read_extents, m_write_extents, result>>

Offsets == 0 .. Size - 1

(***************************************************************************)
(* Extent and MarkableExtent.                                             *)
(***************************************************************************)
Extent(o, l) == [offset |-> o, length |-> l]
NoExtent == Extent(0, 0)
End(e) == e.offset + e.length
Bytes(e) == e.offset .. (End(e) - 1)

\* Every extent inside the object, and the zero-length one operations reject.
Extents == {Extent(o, l) : o \in Offsets, l \in 1 .. Size}
InputExtents == {e \in Extents : End(e) <= Size} \cup {NoExtent}

\* Faulty variant: a closed-interval comparison, so adjacent extents meet.
OverlapsClosed(a, b) ==
    /\ a.length > 0 /\ b.length > 0
    /\ a.offset <= End(b) /\ b.offset <= End(a)

\* Zero-length extents never intersect anything, themselves included.
Overlaps(a, b) ==
    /\ a.length > 0 /\ b.length > 0
    /\ a.offset < End(b) /\ b.offset < End(a)

\* Overlapping or adjacent: the entries a merge coalesces.
Touches(a, b) == a.offset <= End(b) /\ b.offset <= End(a)

Contains(outer, inner) ==
    outer.offset <= inner.offset /\ End(inner) <= End(outer)

Hull(E) ==
    LET lo == Min({e.offset : e \in E})
        hi == Max({End(e) : e \in E})
    IN  Extent(lo, hi - lo)

(***************************************************************************)
(* ExtentList helpers.                                                    *)
(***************************************************************************)
get_extents(is_write) == IF is_write THEN m_write_extents ELSE m_read_extents

Entry(l) == [length |-> l, marked |-> FALSE]
AsExtent(s, k) == Extent(k, s[k].length)
Live(s) == {k \in DOMAIN s : ~s[k].marked}
Coverage(s) == UNION {Bytes(AsExtent(s, k)) : k \in Live(s)}

Insert(s, e) == (e.offset :> Entry(e.length)) @@ s

Mark(s, K) == [k \in DOMAIN s |-> IF k \in K THEN [s[k] EXCEPT !.marked = TRUE]
                                            ELSE s[k]]

\* Faulty variant: only entries starting at or before e are looked at, as
\* in a lower_bound/predecessor lookup that forgets the successors.
OverlapHitsBefore(s, e) ==
    {k \in Live(s) : k <= e.offset /\ Overlaps(AsExtent(s, k), e)}

\* Live entries that intersect e.
OverlapHits(s, e) == {k \in Live(s) : Overlaps(AsExtent(s, k), e)}

\* One merge round marks every live entry touching the union so far and
\* widens the union by them; rounds repeat until no live entry touches it.
\* Returns the list with the consumed entries marked, and the union.
RECURSIVE MergeInto(_, _)
MergeInto(s, acc) ==
    LET touched == {k \in Live(s) : Touches(AsExtent(s, k), acc)}
    IN  IF touched = {} THEN <<s, acc>>
        ELSE MergeInto(Mark(s, touched),
                       Hull({acc} \cup {AsExtent(s, k) : k \in touched}))

SetExtents(is_write, s) ==
    IF is_write THEN m_write_extents' = s /\ UNCHANGED m_read_extents
                ELSE m_read_extents' = s /\ UNCHANGED m_write_extents

Fail(op, is_write, e) ==
    /\ result' = [op |-> op, is_write |-> is_write, extent_in |-> e,
                  status |-> 1, code |-> "EM_ERROR", match |-> NoExtent,
                  layer_empty |-> FALSE]
    /\ UNCHANGED <<m_read_extents, m_write_extents>>

Done(op, is_write, e, code, match, layer_empty) ==
    result' = [op |-> op, is_write |-> is_write, extent_in |-> e,
               status |-> 0, code |-> code, match |-> match,
               layer_empty |-> layer_empty]

(***************************************************************************)
(* add_extent(extent_in, is_write, overwrite).  Without overwrite, an     *)
(* overlap is an error and nothing changes; an extent that only touches   *)
(* neighbours is inserted as it is.  With overwrite, extent_in and every  *)
(* entry transitively touching it are replaced by their union: the        *)
(* consumed entries are marked and the union inserted at its offset.      *)
(***************************************************************************)
add_extent(extent_in, is_write, overwrite) ==
    LET s == get_extents(is_write) IN
    IF extent_in.length = 0
    THEN Fail(IF overwrite THEN "merge" ELSE "add", is_write, extent_in)
    ELSE IF ~overwrite
    THEN IF OverlapHits(s, extent_in) # {}
         THEN Fail("add", is_write, extent_in)
         ELSE /\ SetExtents(is_write, Insert(s, extent_in))
              /\ Done("add", is_write, extent_in, "EM_NONE", extent_in, FALSE)
    ELSE LET m == MergeInto(s, extent_in)
         IN  /\ SetExtents(is_write, Insert(m[1], m[2]))
             /\ Done("merge", is_write, extent_in, "EM_NONE", m[2], FALSE)

add_merge_read_extent(extent_in) == add_extent(extent_in, FALSE, TRUE)

(***************************************************************************)
(* match_extent(extent_in, match, mode, is_write, delete_previous).       *)
(* EM_FULL when one live entry contains extent_in, EM_PARTIAL when some   *)
(* intersect but none contains it, EM_NONE when none intersects.  The     *)
(* match output is the covered part (EMT_INTERSECT: offset of the first   *)
(* intersection, total intersected length) or the union that a merge     *)
(* would produce (EMT_MERGE).  With delete_previous the entries subsumed  *)
(* by the output (or the containing entry on EM_FULL) are marked.         *)
(***************************************************************************)
MatchCode(s, e) ==
    LET hits == OverlapHits(s, e) IN
    IF hits = {} THEN "EM_NONE"
    ELSE IF \E k \in hits : Contains(AsExtent(s, k), e) THEN "EM_FULL"
    ELSE "EM_PARTIAL"

MatchOut(s, e, mode) ==
    LET hits == OverlapHits(s, e)
        code == MatchCode(s, e)
    IN  IF mode = "EMT_MERGE"
        THEN Hull({e} \cup {AsExtent(s, k) : k \in hits})
        ELSE CASE code = "EM_FULL"    -> e
             []   code = "EM_PARTIAL" ->
                    Extent(Min({IF k < e.offset THEN e.offset ELSE k : k \in hits}),
                           Cardinality(Bytes(e) \cap Coverage(s)))
             []   OTHER               -> NoExtent

match_extent(extent_in, mode, is_write, delete_previous) ==
    LET s    == get_extents(is_write)
        code == MatchCode(s, extent_in)
        out  == MatchOut(s, extent_in, mode)
        subsumed == {k \in OverlapHits(s, extent_in) :
                        code = "EM_FULL" \/ Contains(out, AsExtent(s, k))}
    IN  IF extent_in.length = 0 THEN Fail("match", is_write, extent_in)
        ELSE /\ IF delete_previous
                THEN SetExtents(is_write, Mark(s, subsumed))
                ELSE UNCHANGED <<m_read_extents, m_write_extents>>
             /\ Done("match", is_write, extent_in, code, out, FALSE)

(***************************************************************************)
(* extent_substract(extent_in, is_write, layer_empty).  Every live entry  *)
(* meeting extent_in is marked and its remainders outside extent_in (none, *)
(* one or two) are inserted.  layer_empty reports that no coverage is left. *)
(***************************************************************************)
\* Faulty variant: <= in the left test keeps an empty left remainder.
RemaindersLeftInclusive(s, k, e) ==
    LET x == AsExtent(s, k) IN
    (IF x.offset <= e.offset THEN {Extent(x.offset, e.offset - x.offset)} ELSE {})
    \cup (IF End(e) < End(x) THEN {Extent(End(e), End(x) - End(e))} ELSE {})

Remainders(s, k, e) ==
    LET x == AsExtent(s, k) IN
    (IF x.offset < e.offset THEN {Extent(x.offset, e.offset - x.offset)} ELSE {})
    \cup (IF End(e) < End(x) THEN {Extent(End(e), End(x) - End(e))} ELSE {})

RECURSIVE InsertAll(_, _)
InsertAll(s, E) ==
    IF E = {} THEN s
    ELSE LET e == CHOOSE e \in E : TRUE IN InsertAll(Insert(s, e), E \ {e})

LayerEmpty(s) == Live(s) = {}

extent_substract(extent_in, is_write) ==
    LET s    == get_extents(is_write)
        hits == OverlapHits(s, extent_in)
        s2   == InsertAll(Mark(s, hits),
                          UNION {Remainders(s, k, extent_in) : k \in hits})
    IN  IF extent_in.length = 0 THEN Fail("substract", is_write, extent_in)
        ELSE /\ SetExtents(is_write, s2)
             /\ Done("substract", is_write, extent_in, "EM_NONE", NoExtent,
                     LayerEmpty(s2))

(***************************************************************************)
(* mark_for_deletion(extent_in, is_write): flag the live entry that holds *)
(* extent_in; an error when there is none.                                *)
(***************************************************************************)
mark_for_deletion(extent_in, is_write) ==
    LET s     == get_extents(is_write)
        owner == {k \in OverlapHits(s, extent_in) :
                    Contains(AsExtent(s, k), extent_in)}
    IN  IF owner = {} THEN Fail("mark", is_write, extent_in)
        ELSE /\ SetExtents(is_write, Mark(s, owner))
             /\ Done("mark", is_write, extent_in, "EM_NONE", NoExtent, FALSE)

\* delete_marked_extents(is_write): erase every marked entry.
delete_marked_extents(is_write) ==
    LET s == get_extents(is_write) IN
    /\ SetExtents(is_write, [k \in Live(s) |-> s[k]])
    /\ Done("sweep", is_write, NoExtent, "EM_NONE", NoExtent, FALSE)

\* has_read_extents / has_write_extents: the map is not empty, marked
\* entries included.
has_extents(is_write) ==
    /\ Done("has", is_write, NoExtent, "EM_NONE", NoExtent,
            DOMAIN get_extents(is_write) = {})
    /\ UNCHANGED <<m_read_extents, m_write_extents>>

(***************************************************************************)
(* The specification.                                                     *)
(***************************************************************************)
Init ==
    /\ m_read_extents = <<>>
    /\ m_write_extents = <<>>
    /\ result = [op |-> "none", is_write |-> FALSE, extent_in |-> NoExtent,
                 status |-> 0, code |-> "EM_NONE", match |-> NoExtent,
                 layer_empty |-> TRUE]

Next ==
    \E w \in IsWriteValues, e \in InputExtents :
        \/ \E ow \in BOOLEAN : add_extent(e, w, ow)
        \/ (~w /\ add_merge_read_extent(e))
        \/ \E mode \in {"EMT_INTERSECT", "EMT_MERGE"}, dp \in BOOLEAN :
              match_extent(e, mode, w, dp)
        \/ extent_substract(e, w)
        \/ mark_for_deletion(e, w)
        \/ delete_marked_extents(w)
        \/ has_extents(w)

Spec == Init /\ [][Next]_vars

(***************************************************************************)
(* Properties.                                                            *)
(***************************************************************************)
ExtentList == UNION {[K -> [length : 1 .. Size, marked : BOOLEAN]] :
                        K \in SUBSET Offsets}

TypeOK ==
    /\ m_read_extents \in ExtentList
    /\ m_write_extents \in ExtentList
    /\ result.status \in {0, 1}
    /\ result.code \in {"EM_ERROR", "EM_NONE", "EM_PARTIAL", "EM_FULL"}

\* spec.md 8.1: no two live entries of an ExtentList overlap, whatever
\* sequence of add_extent, merges, match deletions and subtracts ran.
NoOverlap ==
    \A w \in IsWriteValues : LET s == get_extents(w) IN
        \A k1, k2 \in Live(s) :
            k1 # k2 => ~Overlaps(AsExtent(s, k1), AsExtent(s, k2))

\* The code match_extent returns agrees with the coverage the layer held
\* when it was called: EM_FULL only for covered bytes, EM_NONE only when no
\* byte is covered, EM_PARTIAL only when some byte is.
MatchSound ==
    [][ result'.op = "match" /\ result'.status = 0 =>
        LET cov == Coverage(get_extents(result'.is_write))
            b   == Bytes(result'.extent_in)
        IN  /\ result'.code = "EM_FULL"    => b \subseteq cov
            /\ result'.code = "EM_NONE"    => b \cap cov = {}
            /\ result'.code = "EM_PARTIAL" => b \cap cov # {} ]_vars

\* The layer implements ExtentCoverage: its live entries cover exactly the
\* bytes the abstract layer holds.
\* The reply maps each operation to the abstract request it serves.
AbstractOp(op) ==
    CASE op \in {"add", "merge"}   -> "add"
      [] op = "substract"          -> "subtract"
      [] op \in {"mark", "match"}  -> "retire"
      [] op = "none"               -> "none"
      [] OTHER                     -> "query"

Abstract == INSTANCE ExtentCoverage WITH
    coverage <- [w \in BOOLEAN |-> Coverage(get_extents(w))],
    reply    <- [op |-> AbstractOp(result.op), is_write |-> result.is_write,
                 bytes |-> Bytes(result.extent_in),
                 overwrite |-> result.op = "merge", ok |-> result.status = 0]

=============================================================================
