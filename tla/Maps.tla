-------------------------------- MODULE Maps --------------------------------
(***************************************************************************)
(* Storage maps: functions over the keys that have a row.  Put and Entry   *)
(* are the @@ and :> of TLC with definitions that the provers can expand.  *)
(***************************************************************************)
EXTENDS Functions

NoRows == [k \in {} |-> k]

Entry(key, row) == [k \in {key} |-> row]

\* The rows of new over those of map.
Put(map, new) ==
  [k \in DOMAIN new \cup DOMAIN map |-> IF k \in DOMAIN new THEN new[k] ELSE map[k]]

\* The map without the rows of keys.
Remove(map, keys) == Restrict(map, DOMAIN map \ keys)

IsMap(map, keys) == DOMAIN map \subseteq keys /\ map = [k \in DOMAIN map |-> map[k]]

=============================================================================
