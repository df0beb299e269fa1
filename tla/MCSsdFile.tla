----------------------------- MODULE MCSsdFile -----------------------------
(* A cache file of two regions of one entry, and one of a single region of  *)
(* two entries.                                                             *)
EXTENDS SsdFile

Narrow == [maxRegions |-> 2, regionSize |-> 1]
Wide == [maxRegions |-> 1, regionSize |-> 2]
MCShapes == {Narrow, Wide}

(* States after something known to go wrong are not followed further       *)
NothingKnown == known = {}
============================================================================
