---------------------------- MODULE Dictionaries ----------------------------
(* A dictionary is a function from its keys to its values. *)

\* The dictionary g updated with the entries of f.
f ++ g == [k \in DOMAIN f \cup DOMAIN g |-> IF k \in DOMAIN f THEN f[k] ELSE g[k]]
=============================================================================
