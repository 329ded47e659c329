---------------------------- MODULE MCLegacyHeval ---------------------------
(***************************************************************************)
(* Instances of LegacyHeval for TLC: names {a, b}, indices 0..1, two      *)
(* leaves, and the paths of one to three keys the script's calls use.     *)
(***************************************************************************)
EXTENDS LegacyHeval, TLC

CONSTANTS nm_a, nm_b, v1, v2

MCNames == {nm_a, nm_b}
MCLeafVals == {v1, v2}

(* Objects and arrays of up to 4 nodes (the script's tree is an object).   *)
MCDocs == {d \in DocsUpTo(4, {v1, NULL}) : ~isPrim(d)}

PathsUpTo(n, ks) == UNION {[1..i -> ks] : i \in 1..n}

MCReadPaths  == PathsUpTo(2, {nm_a, 0})
MCWritePaths == PathsUpTo(3, {nm_a, 0})
=============================================================================
