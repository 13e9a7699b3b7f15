------------------------ MODULE MCKeyValueCrudClient ------------------------
(***************************************************************************)
(* KeyValueCrudClient for TLC: two ids, an explicit name and the default *)
(* name, one modifiable field, one lock type (the two are separate keys), creates of up to two     *)
(* items.  Clients and the fault bound are given by each .cfg.           *)
(***************************************************************************)
EXTENDS KeyValueCrudClient

MCIds == {"id1", "id2"}
MCNames == {"name", "default"}
MCMods == {"size"}
MCLockTypes == {"w"}

====
