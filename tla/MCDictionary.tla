---------------------------- MODULE MCDictionary ----------------------------
(* Dictionaries with keys a and b, scalars "" and "v", and
   sequences of one item; GetScalarsMatchesFlatten also checks
   sequences of two. *)
EXTENDS Dictionary

MCKeys == {"a", "b"}
MCScalars == {"", "v"}
=============================================================================
