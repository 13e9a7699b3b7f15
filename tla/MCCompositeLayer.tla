------------------------- MODULE MCCompositeLayer --------------------------
(***************************************************************************)
(* Model-checking instance of CompositeLayer: a 3-byte object, the read   *)
(* ExtentList (the two lists never interact, and the read list also gets  *)
(* add_merge_read_extent).  Three bytes give an entry with both a left    *)
(* and a right remainder, chains of adjacent entries that a merge must    *)
(* coalesce transitively, and a query meeting two entries at once.        *)
(***************************************************************************)
EXTENDS CompositeLayer

MCSize == 3
MCIsWriteValues == {FALSE}

=============================================================================
