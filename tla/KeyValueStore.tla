---------------------------- MODULE KeyValueStore ----------------------------
(***************************************************************************)
(* The expiring key/value store (Valkey, InMemoryKV) that carries leases,  *)
(* execution claims and done markers.  An entry is Absent or a value; both *)
(* values the code stores have the shape "<id>:<number>", kept as a pair.  *)
(* Each operator gives the entry one atomic store command leaves behind.   *)
(* Expiry is the environment's: a component that uses an entry has an      *)
(* action that makes it Absent once its time to live has run out.          *)
(***************************************************************************)

Absent == << >>

\* A SET NX whose reply is ignored.
IgnoredReply(entry) == TRUE

\* The reply of SET NX: whether the value was stored.
nx_reply(entry) == entry = Absent

\* SET NX: the value is stored only over an absent (or expired) entry.
set_if_absent(entry, value) == IF entry = Absent THEN value ELSE entry

\* The atomic get-compare-delete script.
compare_and_delete(entry, expected) == IF entry = expected THEN Absent ELSE entry
==============================================================================
