------------------------------ MODULE MCHData -------------------------------
(***************************************************************************)
(* Instances of HData for TLC: property names {a, b}, array indices 0..1,  *)
(* leaves v1 (in documents) and v2 (written by the client).                *)
(***************************************************************************)
EXTENDS HData, TLC

CONSTANTS v1, v2

MCLeafVals == {v1, v2}

EmptyObject == {Composite(FALSE, <<>>, <<>>)}  \* var empty = {}

(* Every document of up to 5 nodes with leaf v1: enough for an array of    *)
(* objects holding arrays, {a: [{b: [v1]}]}, and for arrays of arrays.     *)
(* Documents of up to 4 nodes may also hold null.                          *)
CloneDocs == DocsUpTo(5, {v1}) \cup DocsUpTo(4, {v1, NULL})

RECURSIVE HasEmptyComposite(_)
HasEmptyComposite(d) ==
    d \notin LeafVals \cup Nullish
    /\ (d.kids = <<>> \/ \E i \in DOMAIN d.kids : HasEmptyComposite(d.kids[i]))

(* Documents of up to 5 nodes without null leaves or empty objects and     *)
(* arrays: the ones whose round trip depends on setTarget alone.           *)
DenseDocs == {d \in DocsUpTo(5, {v1}) : ~HasEmptyComposite(d)}

(* Documents for single reads and writes: up to 4 nodes with leaf v1, up  *)
(* to 3 nodes when null leaves occur.                                      *)
AccessDocs == DocsUpTo(4, {v1}) \cup DocsUpTo(3, {v1, NULL})

(* Segments a, b, 0 (the positional form "c/0"), each plain or with [0]:  *)
(* paths of one or two segments.                                           *)
PathSegs == {[name |-> k, idx |-> i] : k \in Names \cup {0}, i \in {NoIdx, 0}}
AccessPaths == {<<s>> : s \in PathSegs} \cup {<<s, t>> : s, t \in PathSegs}

(* Their keys as recurseData writes them ("a[0]/b", "c/0").                *)
PathKeys == {NavKey(p) : p \in AccessPaths}

(* The same keys, and "/x[0]" and "x[0]/" for each x of a, b, 0: a       *)
(* leading or a trailing '/', which the grammar of spec section 6 accepts. *)
AccessKeys ==
    LET idx0 == {NavKey(<<s>>) : s \in {t \in PathSegs : t.idx = 0}}
    IN PathKeys \cup {Slash \o k : k \in idx0} \cup {k \o Slash : k \in idx0}

(* Keys that name the whole target: "", "/" and "//".                      *)
RootKeys == {<<>>, Slash, Slash \o Slash}

(* Objects and arrays of up to 3 nodes.                                   *)
CompositeDocs == {d \in DocsUpTo(3, {v1, NULL}) : d \notin LeafVals \cup Nullish}

WriteLeaf == {v2}

(* Documents of up to 3 nodes for pairs of writes.                         *)
PairDocs == DocsUpTo(3, {v1, NULL})

(* Documents of up to 3 nodes, for comparing two roots.                    *)
EqualsDocs == DocsUpTo(3, {v1})

(* Bound of the combined run: an hdata read or write starts only on a tree *)
(* of up to 4 nodes, while a deepClone may start on any of CloneDocs.      *)
AccessBound ==
    op'.kind \in {"read", "write"} => Shape(heap, roots["tree"]) \in AccessDocs

NameSymmetry == Permutations(Names)
=============================================================================
