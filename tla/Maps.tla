-------------------------------- MODULE Maps --------------------------------
(* A JavaScript Map as a function: set and delete.  Written as functions   *)
(* rather than with the operators of TLC, which cannot be reasoned about.  *)

MapSet(map, key, value) ==
    [k \in DOMAIN map \cup {key} |-> IF k = key THEN value ELSE map[k]]

MapDelete(map, key) == [k \in DOMAIN map \ {key} |-> map[k]]
=============================================================================
