---------------------------- MODULE MCHestiaCApi ----------------------------
(***************************************************************************)
(* HestiaCApi for TLC.  Up to two HestiaClients are made per behaviour:   *)
(* enough for a finish and a second initialize.  Threads are given by     *)
(* each .cfg.                                                             *)
(***************************************************************************)
EXTENDS HestiaCApi

MCMaxInits == 3

====
