----------------------------- MODULE LegacyHeval ----------------------------
(***************************************************************************)
(* The earlier, standalone version of the path accessor, heliosjs/heval.js *)
(* : hdata(segments, target, dataValue), deepClone(obj) and                *)
(* recurse(tree, ...), with the script that exercises them.  The script    *)
(* reads the literal tree, makes wtree = deepClone(tree), writes into      *)
(* wtree and reads tree back (lines 160-176), and rebuilds a tree from its *)
(* recurse map into empty = {} (lines 185-189).  The model lets those      *)
(* calls come in any order and with any arguments, on any document.        *)
(*                                                                         *)
(* Every call is synchronous and one step.  A path string is split on "/"  *)
(* into keys; "c/0" reads the property "0" of c, which for an Array is its *)
(* element 0.  The logging is left out.                                    *)
(***************************************************************************)
EXTENDS NavMap

CONSTANTS
    Docs,       \* documents tree may be
    ReadPaths,  \* paths the script reads
    WritePaths, \* paths the script writes into wtree
    WriteVals,  \* values it writes (not null: null would be a read)
    MaxCalls    \* calls in a behaviour

LPath == Seq(Keys)

ASSUME ReadPaths \cup WritePaths \subseteq LPath /\ WriteVals \subseteq LeafVals
ASSUME MaxCalls \in Nat

VARIABLES
    heap,    \* the object graph
    tree,    \* var tree
    wtree,   \* var wtree, NULL until deepClone
    empty,   \* var empty, NULL until the rebuild
    last,    \* ghost: the last call, its outcome and result
    ncalls,  \* calls made
    h0       \* ghost: the heap as the script loaded it

vars == <<heap, tree, wtree, empty, last, ncalls, h0>>

Res(ok, h, v) == [ok |-> ok, h |-> h, v |-> v]

-----------------------------------------------------------------------------
(* primitives = {"string", "number", "boolean"} (line 117): null and       *)
(* undefined are objects to recurse, not primitives.                       *)
LPrim(v) == v \in LeafVals

RECURSIVE LWalk(_, _, _, _, _)
(* The for (index in segs) loop of hdata, lines 83-102: loc follows seg    *)
(* from target on the first segment and from loc after; a miss in set      *)
(* mode stores a new {} under seg on target itself and continues from it; *)
(* a miss in get mode returns null.  [ok, h, v]: v the final loc, or NULL *)
(* with ok FALSE for the get-mode miss.                                    *)
LWalk(h, target, segs, loc, setter) ==
    IF segs = <<>> THEN Res(TRUE, h, loc)
    ELSE LET seg  == Head(segs)
             next == Get(h, IF loc \in Nullish THEN target ELSE loc, seg)
         IN IF next \notin Nullish THEN LWalk(h, target, Tail(segs), next, setter)
            ELSE IF ~setter THEN Res(FALSE, h, NULL)
            ELSE LET h1 == Append(h, NewObj(FALSE))
                 IN LWalk(Put(h1, target, seg, Len(h1)), target, Tail(segs), Len(h1), setter)

(* Mutant: the Array test of lines 104-113 left out.                       *)
LAtLocNoCheck(h, loc, nameseg, dv, setter) ==
    LET h1 == IF setter THEN Put(h, loc, nameseg, dv) ELSE h
    IN Res(TRUE, h1, Get(h1, loc, nameseg))

(* Lines 104-115: an Array loc needs a numeric last segment, else hdata    *)
(* throws; then loc[nameseg] is set (set mode) and read back.             *)
LAtLoc(h, loc, nameseg, dv, setter) ==
    IF IsRef(loc) /\ h[loc].arr /\ nameseg \notin Idx THEN Res(FALSE, h, UNDEF)
    ELSE LET h1 == IF setter THEN Put(h, loc, nameseg, dv) ELSE h
         IN Res(TRUE, h1, Get(h1, loc, nameseg))

(* hdata(segments, target, dataValue), lines 64-116, as [ok, h, v]: ok is  *)
(* FALSE when it throws.  A get-mode miss returns null normally.           *)
LHdata(h, p, target, dv) ==
    LET setter == dv \notin Nullish
    IN IF ~setter /\ target \in Nullish THEN Res(TRUE, h, NULL)
       ELSE IF p = <<>> THEN Res(TRUE, h, target)
       ELSE LET fresh == target \in Nullish
                h1    == IF fresh THEN Append(h, NewObj(FALSE)) ELSE h
                t     == IF fresh THEN Len(h1) ELSE target
                segs  == Front(p)
            IN IF segs = <<>>
               THEN IF setter THEN Res(TRUE, Put(h1, t, Last(p), dv), dv)
                    ELSE Res(TRUE, h1, Get(h1, t, Last(p)))
               ELSE LET w == LWalk(h1, t, segs, NULL, setter)
                    IN IF ~w.ok THEN Res(TRUE, w.h, NULL)
                       ELSE LAtLoc(w.h, w.v, Last(p), dv, setter)

RECURSIVE LCloneShallow(_, _), LClonePropsShallow(_, _, _, _)
(* Mutant: an object property is copied by reference, as for primitives.   *)
LCloneShallow(h, obj) ==
    LET h1 == Append(h, NewObj(FALSE))
    IN LClonePropsShallow(h1, Len(h1), obj, IF IsRef(obj) THEN ForIn(h[obj]) ELSE <<>>)

LClonePropsShallow(h, c, obj, ks) ==
    IF ks = <<>> THEN <<c, h>>
    ELSE LET i    == Head(ks)
             prop == h[obj].val[i]
         IN IF IsRef(prop) /\ h[prop].arr
            THEN LET h1 == Append(h, NewObj(TRUE))
                     a  == Len(h1)
                     h2 == FoldLeft(LAMBDA hh, j : Put(hh, a, j, h[prop].val[j]),
                                    Put(h1, c, i, a), [j \in 1..ArrLen(h[prop]) |-> j - 1])
                 IN LClonePropsShallow(h2, c, obj, Tail(ks))
            ELSE IF prop = NULL
            THEN LET r == LCloneShallow(h, prop)
                 IN LClonePropsShallow(Put(r[2], c, i, r[1]), c, obj, Tail(ks))
            ELSE LClonePropsShallow(Put(h, c, i, prop), c, obj, Tail(ks))

RECURSIVE LClone(_, _), LCloneProps(_, _, _, _)
(* deepClone(obj), lines 40-62, as <<copy, heap>>: a new {} gets every     *)
(* property of obj; an Array property becomes a new [] into which the      *)
(* elements are pushed as they are, any other object (null included) is    *)
(* deep-cloned, and a primitive is copied.                                 *)
LClone(h, obj) ==
    LET h1 == Append(h, NewObj(FALSE))
    IN LCloneProps(h1, Len(h1), obj, IF IsRef(obj) THEN ForIn(h[obj]) ELSE <<>>)

LCloneProps(h, c, obj, ks) ==
    IF ks = <<>> THEN <<c, h>>
    ELSE LET i    == Head(ks)
             prop == h[obj].val[i]
         IN IF IsRef(prop) /\ h[prop].arr
            THEN LET h1 == Append(h, NewObj(TRUE))
                     a  == Len(h1)
                     h2 == FoldLeft(LAMBDA hh, j : Put(hh, a, j, h[prop].val[j]),
                                    Put(h1, c, i, a), [j \in 1..ArrLen(h[prop]) |-> j - 1])
                 IN LCloneProps(h2, c, obj, Tail(ks))
            ELSE IF IsRef(prop) \/ prop = NULL
            THEN LET r == LClone(h, prop)
                 IN LCloneProps(Put(r[2], c, i, r[1]), c, obj, Tail(ks))
            ELSE LCloneProps(Put(h, c, i, prop), c, obj, Tail(ks))

RECURSIVE LRecurse(_, _, _, _), LRecurseProps(_, _, _, _, _), LRecurseElems(_, _, _, _, _)
(* recurse(tree) with the identity callback, lines 118-158: the map from   *)
(* the context joined by "/" to each primitive.  An element of an Array is *)
(* pushed onto the context only when it is a primitive; an object element *)
(* is recursed under the Array's own context, so the keys of the elements *)
(* collide and the later element's values overwrite the earlier ones'.    *)
LRecurse(h, t, ctx, slot) ==
    IF LPrim(t) THEN SlotPut(slot, ctx, t)
    ELSE IF t \in Nullish THEN slot
    ELSE LRecurseProps(h, t, ForIn(h[t]), ctx, slot)

LRecurseProps(h, t, ks, ctx, slot) ==
    IF ks = <<>> THEN slot
    ELSE LET i    == Head(ks)
             c    == Append(ctx, i)
             prop == h[t].val[i]
             s    == IF LPrim(prop) THEN SlotPut(slot, c, prop)
                     ELSE IF IsRef(prop) /\ h[prop].arr THEN LRecurseElems(h, prop, 0, c, slot)
                     ELSE LRecurse(h, prop, c, slot)
         IN LRecurseProps(h, t, Tail(ks), ctx, s)

LRecurseElems(h, a, j, c, slot) ==
    IF j >= ArrLen(h[a]) THEN slot
    ELSE LET e == h[a].val[j]
         IN LRecurseElems(h, a, j + 1, c,
                          LRecurse(h, e, IF LPrim(e) THEN Append(c, j) ELSE c, slot))

(* $.each over the map visits its keys in for-in order: a key that is an   *)
(* array index ("0") first, ascending, then the others as inserted.        *)
EachOrder(slot) ==
    LET isIdx(e) == Len(e[1]) = 1 /\ e[1][1] \in Idx
    IN SetToSortSeq({e \in Range(slot) : isIdx(e)}, LAMBDA x, y : x[1][1] < y[1][1])
       \o SelectSeq(slot, LAMBDA e : ~isIdx(e))

RECURSIVE LApply(_, _, _)
(* hdata(k, empty, v) for each entry; a throw ends $.each.                 *)
LApply(h, t, es) ==
    IF es = <<>> THEN Res(TRUE, h, t)
    ELSE LET r == LHdata(h, Head(es)[1], t, Head(es)[2])
         IN IF r.ok THEN LApply(r.h, t, Tail(es)) ELSE Res(FALSE, r.h, t)

-----------------------------------------------------------------------------
Init ==
    /\ \E d \in Docs : LET l == Load(d, <<>>) IN heap = l[2] /\ tree = l[1]
    /\ wtree  = NULL
    /\ empty  = NULL
    /\ last   = [call |-> "load", path |-> <<>>, ok |-> TRUE, res |-> NULL]
    /\ ncalls = 0
    /\ h0     = heap

(* A call that returned (ok) or threw, with its result.                    *)
Done(call, p, ok, res) ==
    /\ ncalls < MaxCalls
    /\ ncalls' = ncalls + 1
    /\ last'   = [call |-> call, path |-> p, ok |-> ok, res |-> res]

(* hdata(p, tree) or hdata(p, wtree), lines 162-167, 172-176.              *)
Read(r, p) ==
    LET t == IF r = "tree" THEN tree ELSE wtree
        x == LHdata(heap, p, t, NULL)
    IN /\ r = "tree" \/ wtree # NULL
       /\ Done("read", p, x.ok, x.v)
       /\ heap' = x.h
       /\ UNCHANGED <<tree, wtree, empty, h0>>

(* var wtree = deepClone(tree), line 170.                                  *)
Clone ==
    /\ wtree = NULL
    /\ LET c == LClone(heap, tree)
       IN /\ Done("clone", <<>>, TRUE, c[1])
          /\ heap'  = c[2]
          /\ wtree' = c[1]
    /\ UNCHANGED <<tree, empty, h0>>

(* hdata(p, wtree, v), lines 171-175.                                      *)
Write(p, v) ==
    /\ wtree # NULL
    /\ LET x == LHdata(heap, p, wtree, v)
       IN /\ Done("write", p, x.ok, x.v)
          /\ heap' = x.h
    /\ UNCHANGED <<tree, wtree, empty, h0>>

(* var empty = {}; $.each(recurse(tree), function(k, v) {hdata(k, empty,   *)
(* v)}), lines 185-188.                                                    *)
Rebuild ==
    /\ empty = NULL
    /\ LET h1 == Append(heap, NewObj(FALSE))
           x  == LApply(h1, Len(h1), EachOrder(LRecurse(heap, tree, <<>>, <<>>)))
       IN /\ Done("rebuild", <<>>, x.ok, x.v)
          /\ heap'  = x.h
          /\ empty' = Len(h1)
    /\ UNCHANGED <<tree, wtree, h0>>

Next ==
    \/ \E r \in {"tree", "wtree"}, p \in ReadPaths : Read(r, p)
    \/ Clone
    \/ \E p \in WritePaths, v \in WriteVals : Write(p, v)
    \/ Rebuild

Spec == Init /\ [][Next]_vars

-----------------------------------------------------------------------------
RECURSIVE LeafLocs(_, _)
(* Every primitive reachable from v, with the keys that lead to it.        *)
LeafLocs(h, v) ==
    IF IsRef(v)
    THEN UNION {{<<<<k>> \o e[1], e[2]>> : e \in LeafLocs(h, h[v].val[k])}
                : k \in {k \in Keys : h[v].val[k] # UNDEF}}
    ELSE {<<<<>>, v>>}

RECURSIVE LAt(_, _, _)
(* The value the keys ks lead to from v, undefined off the graph.          *)
LAt(h, v, ks) ==
    IF ks = <<>> THEN v
    ELSE IF IsRef(v) THEN LAt(h, h[v].val[Head(ks)], Tail(ks)) ELSE UNDEF

(* The keys ks pass, in tree as loaded, through an object or array held   *)
(* as an element of an Array: deepClone pushes such an element itself.    *)
InSharedElement(ks) ==
    \E i \in 2..Len(ks) :
        LET arr == LAt(h0, tree, SubSeq(ks, 1, i - 1))
        IN /\ IsRef(arr) /\ h0[arr].arr
           /\ IsRef(LAt(h0, tree, SubSeq(ks, 1, i)))

TypeOK ==
    /\ \A a \in DOMAIN heap : \A k \in Keys :
         heap[a].val[k] \in LeafVals \cup Nullish \cup DOMAIN heap
    /\ wtree \in {NULL} \cup DOMAIN heap /\ empty \in {NULL} \cup DOMAIN heap
    /\ last.res \in LeafVals \cup Nullish \cup DOMAIN heap
    /\ ncalls \in 0..MaxCalls
    \* the isNaN test keeps names out of Arrays
    /\ \A a \in DOMAIN heap : heap[a].arr => \A k \in Names : heap[a].val[k] = UNDEF

(* Writes into the deep clone wtree change the original tree only inside   *)
(* the objects and arrays that tree's Arrays hold as elements, which       *)
(* deepClone pushes into the copy's arrays by reference (line 51): every   *)
(* other object of tree is copied, and reads and the rebuild write nothing *)
(* into tree.                                                              *)
TreeChangesOnlyInSharedElements ==
    LET now == LeafLocs(heap, tree)
        was == LeafLocs(h0, tree)
    IN \A e \in (now \ was) \cup (was \ now) : InSharedElement(e[1])

=============================================================================
