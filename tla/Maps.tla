-------------------------------- MODULE Maps --------------------------------
(***************************************************************************)
(* std::map and std::unordered_map as functions whose domain is the set of *)
(* keys present: the empty map, m[k] = v, and erasing a set of keys.       *)
(***************************************************************************)
EXTENDS Functions

Empty == [x \in {} |-> 0]
Put(f, k, v) == [x \in DOMAIN f \cup {k} |-> IF x = k THEN v ELSE f[x]]
Erase(f, S) == Restrict(f, DOMAIN f \ S)
=============================================================================
