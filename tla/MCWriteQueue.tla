---------------------------- MODULE MCWriteQueue ----------------------------
(***************************************************************************)
(* TLC instance of WriteQueue: three threads, of which two compact a range *)
(* now and then; every pair of kinds of calls can meet.                    *)
(***************************************************************************)
EXTENDS WriteQueue, TLC

CONSTANTS c1, c2, c3

SomeUses == c1 :> {"write"} @@ c2 :> {"sync", "range"} @@ c3 :> {"write", "range"}
=============================================================================
