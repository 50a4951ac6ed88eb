---------------------------- MODULE ExpiringKeys -----------------------------
(***************************************************************************)
(* The key/value store as leases, claims and done markers rely on it: a    *)
(* value once set is not replaced; it is deleted by someone who names it,  *)
(* or runs out of time, and then the key can be set again.                 *)
(***************************************************************************)
EXTENDS KeyValueStore

CONSTANTS Key, Value

VARIABLE entry

Init == entry = [k \in Key |-> Absent]

Set(k, v) == nx_reply(entry[k]) /\ entry' = [entry EXCEPT ![k] = set_if_absent(@, v)]

Delete(k, v) == entry' = [entry EXCEPT ![k] = compare_and_delete(@, v)]

Expire(keys) == entry' = [k \in Key |-> IF k \in keys THEN Absent ELSE entry[k]]

Next ==
    \/ \E k \in Key, v \in Value : Set(k, v) \/ Delete(k, v)
    \/ \E keys \in SUBSET Key : Expire(keys)

Spec == Init /\ [][Next]_entry
==============================================================================
