---------------------- MODULE MCChronologicalTriggers -----------------------
(***************************************************************************)
(* Four triggers: one every 2 ticks; one every 3 ticks that ends at 4 and  *)
(* whose plugin raises at moment 3; one of a disabled workflow; and one    *)
(* whose plugin has been removed.  The last two never advance: their ends  *)
(* only limit when they are created, at 0 or 1 and at 0.                   *)
(***************************************************************************)
EXTENDS ChronologicalTriggers, TLC

MCInterval == (1 :> 2) @@ (2 :> 3) @@ (3 :> 1) @@ (4 :> 2)
MCUntil == (1 :> NULL) @@ (2 :> 4) @@ (3 :> 2) @@ (4 :> 2)
MCRaising == {<<2, 3>>}

=============================================================================
