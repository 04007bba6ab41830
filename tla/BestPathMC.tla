---------------------------- MODULE BestPathMC ----------------------------
(***************************************************************************)
(* Tables of two prefixes with up to three entries each.  The lists differ *)
(* in LOCAL_PREF, MED and the length of the AS_PATH; "odd" has a LOCAL_PREF*)
(* that reads as a segment with one AS number.                             *)
(***************************************************************************)
EXTENDS BestPath

CONSTANTS local, plain, short, odd, none

MCAttr         == {plain, short, odd}
MCLocalPref    == (plain :> none) @@ (short :> 100) @@ (odd :> 65536 + 7)
MCMed          == (plain :> 5) @@ (short :> 4) @@ (odd :> none)
MCAsPathLength == (plain :> 3) @@ (short :> 1) @@ (odd :> 2)
MCJunk         == {[flags |-> FALSE, origin |-> 0, wide |-> FALSE]}
=============================================================================
