--------------------------- MODULE ExtentCoverage ---------------------------
(***************************************************************************)
(* What a CompositeLayer promises its caller, with extents forgotten: for *)
(* reads and for writes, the set of byte offsets of the object the layer  *)
(* holds, and the reply to the last request.                              *)
(*   - add: a non-empty byte range is added, unless the caller may not    *)
(*     overwrite and the range meets what is held; then it is refused;    *)
(*   - subtract: exactly the requested bytes stop being held;             *)
(*   - retire (mark_for_deletion, match_extent): the bytes of one         *)
(*     contiguous range meeting the request may stop being held;          *)
(*   - query (has_*_extents, the sweep): nothing held changes.            *)
(***************************************************************************)
EXTENDS Naturals

CONSTANT Size            \* bytes of the object: offsets 0 .. Size-1

VARIABLES
    coverage,            \* coverage[is_write] : SUBSET 0..Size-1
    reply                \* the last request and whether it succeeded

vars == <<coverage, reply>>

Offsets == 0 .. Size - 1

\* Byte ranges lo..hi inside the object, the empty one included.
Ranges == {lo .. hi : lo \in Offsets, hi \in Offsets}

TypeOK ==
    /\ coverage \in [BOOLEAN -> SUBSET Offsets]
    /\ reply \in [op : {"none", "add", "subtract", "retire", "query"},
                  is_write : BOOLEAN, bytes : SUBSET Offsets,
                  overwrite : BOOLEAN, ok : BOOLEAN]

Init ==
    /\ coverage = [w \in BOOLEAN |-> {}]
    /\ reply = [op |-> "none", is_write |-> FALSE, bytes |-> {},
                overwrite |-> FALSE, ok |-> TRUE]

Reply(op, w, r, overwrite, ok) ==
    reply' = [op |-> op, is_write |-> w, bytes |-> r,
              overwrite |-> overwrite, ok |-> ok]

Add(w, r, overwrite) ==
    LET ok == r # {} /\ (overwrite \/ r \cap coverage[w] = {}) IN
    /\ coverage' = [coverage EXCEPT ![w] = IF ok THEN @ \cup r ELSE @]
    /\ Reply("add", w, r, overwrite, ok)

Subtract(w, r) ==
    /\ coverage' = [coverage EXCEPT ![w] = @ \ r]
    /\ Reply("subtract", w, r, FALSE, r # {})

Retire(w, r) ==
    \E gone \in Ranges, ok \in BOOLEAN :
        /\ gone # {} => ok /\ gone \cap r # {}
        /\ coverage' = [coverage EXCEPT ![w] = @ \ gone]
        /\ Reply("retire", w, r, FALSE, ok)

Query(w, r) ==
    /\ UNCHANGED coverage
    /\ \E ok \in BOOLEAN : Reply("query", w, r, FALSE, ok)

Next ==
    \E w \in BOOLEAN, r \in Ranges :
        \/ \E overwrite \in BOOLEAN : Add(w, r, overwrite)
        \/ Subtract(w, r)
        \/ Retire(w, r)
        \/ Query(w, r)

Spec == Init /\ [][Next]_vars

=============================================================================
