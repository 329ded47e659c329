------------------------------- MODULE HData --------------------------------
(***************************************************************************)
(* The path accessor of heliosjs/helios.hdata.js, hdata(nKey, target,      *)
(* dataValue), and the two operations built on it and on recurseData:      *)
(* applyNavMap/deepClone and navMapsSame.                                  *)
(*                                                                         *)
(* hdata recurses once per path segment; each recursion is one step of     *)
(* this module: the guard at its top, then setTarget on the first segment, *)
(* which may materialise objects and arrays in the heap and returns the    *)
(* next target and the "passIndex" handed to the next recursion.  A client *)
(* (the test scripts, getDataBind, resolveData) issues reads, writes and   *)
(* clones one at a time on two roots, "tree" and "copy"; everything is     *)
(* synchronous, so one operation runs at a time.                           *)
(***************************************************************************)
EXTENDS HDataCore

CONSTANTS
    Docs,       \* documents the root "tree" may start as
    CopyDocs,   \* documents the root "copy" may start as
    OpKinds,    \* client operations exercised: "read", "write", "clone"
    OpRoots,    \* roots that reads and writes address
    OpKeys,     \* key strings that reads and writes use
    WriteVals,  \* values that writes store
    MaxOps      \* number of client operations in a behaviour

RootNames == {"tree", "copy"}

ASSUME OpKinds \subseteq {"read", "write", "clone"} /\ OpRoots \subseteq RootNames
ASSUME OpKeys \subseteq Seq(Tokens) /\ WriteVals \subseteq LeafVals /\ MaxOps \in Nat

VARIABLES
    heap,    \* the object graph
    roots,   \* roots[r]: the value held by the script variable r
    op,      \* the client operation in progress
    frame,   \* the hdata invocation in progress
    queue,   \* applyNavMap: navigational map entries still to apply
    pre,     \* heap and roots when the current operation began
    done,    \* completed operations, with their outcome and result
    nops     \* operations begun

vars == <<heap, roots, op, frame, queue, pre, done, nops>>

Idle    == [kind |-> "idle", root |-> "tree", key |-> <<>>, val |-> NULL, dest |-> NULL]
NoFrame == [live |-> FALSE, nKey |-> <<>>, target |-> NULL, dv |-> NULL, index |-> NoIdx]

-----------------------------------------------------------------------------
(***************************************************************************)
(* The client and the hdata recursion.                                     *)
(***************************************************************************)
Init ==
    \E d \in Docs, e \in CopyDocs :
        LET t == Load(d, <<>>)
            c == Load(e, t[2])
        IN /\ heap  = c[2]
           /\ roots = [r \in RootNames |-> IF r = "tree" THEN t[1] ELSE c[1]]
           /\ op    = Idle
           /\ frame = NoFrame
           /\ queue = <<>>
           /\ pre   = [heap |-> c[2], roots |-> roots]
           /\ done  = <<>>
           /\ nops  = 0

(* hdata(nKey, target, dataValue) called from outside: no passIndex yet.   *)
Invoke(nKey, target, dv) ==
    [live |-> TRUE, nKey |-> nKey, target |-> target, dv |-> dv, index |-> NoIdx]

Begin(o) ==
    /\ op.kind = "idle"
    /\ o.kind \in OpKinds
    /\ nops < MaxOps
    /\ op'   = o
    /\ pre'  = [heap |-> heap, roots |-> roots]
    /\ nops' = nops + 1

(* The operation ends; its record goes to done.                            *)
Finish(ok, res) ==
    /\ op'    = Idle
    /\ frame' = NoFrame
    /\ queue' = <<>>
    /\ done'  = Append(done, [kind |-> op.kind, root |-> op.root, key |-> op.key,
                              val |-> op.val, ok |-> ok, res |-> res])

(* hdata(k, roots[r]): get mode.                                           *)
StartRead(r, k) ==
    /\ Begin([kind |-> "read", root |-> r, key |-> k, val |-> NULL, dest |-> NULL])
    /\ frame' = Invoke(k, roots[r], NULL)
    /\ UNCHANGED <<heap, roots, queue, done>>

(* hdata(k, roots[r], v): set mode.                                        *)
StartWrite(r, k, v) ==
    /\ Begin([kind |-> "write", root |-> r, key |-> k, val |-> v, dest |-> NULL])
    /\ frame' = Invoke(k, roots[r], v)
    /\ UNCHANGED <<heap, roots, queue, done>>

(* copy = deepClone(tree), lines 292-297 with applyNavMap 280-285: null    *)
(* clones to null; otherwise the map of tree is built once and each entry  *)
(* is written into a fresh {}.                                             *)
StartClone ==
    /\ Begin([kind |-> "clone", root |-> "tree", key |-> <<>>, val |-> NULL,
              dest |-> IF roots["tree"] \in Nullish THEN NULL ELSE Len(heap) + 1])
    /\ IF roots["tree"] \in Nullish
       THEN /\ heap'  = heap
            /\ queue' = <<>>
       ELSE /\ heap'  = Append(heap, NewObj(FALSE))
            /\ queue' = NavEntries(heap, roots["tree"])
    /\ UNCHANGED <<roots, frame, done>>

(* Mutant: applyNavMap's loop runs from the last entry to the first.      *)
ApplyNextLast ==
    /\ op.kind = "clone"
    /\ ~frame.live
    /\ queue # <<>>
    /\ frame' = Invoke(NavKey(queue[Len(queue)][1]), op.dest, queue[Len(queue)][2])
    /\ queue' = SubSeq(queue, 1, Len(queue) - 1)
    /\ UNCHANGED <<heap, roots, op, pre, done, nops>>

(* for (i in navMap) hdata(i, to, navMap[i]): the next entry, keyed by its *)
(* navKey string.                                                          *)
ApplyNext ==
    /\ op.kind = "clone"
    /\ ~frame.live
    /\ queue # <<>>
    /\ frame' = Invoke(NavKey(Head(queue)[1]), op.dest, Head(queue)[2])
    /\ queue' = Tail(queue)
    /\ UNCHANGED <<heap, roots, op, pre, done, nops>>

CloneDone ==
    /\ op.kind = "clone"
    /\ ~frame.live
    /\ queue = <<>>
    /\ roots' = [roots EXCEPT !["copy"] = op.dest]
    /\ Finish(TRUE, op.dest)
    /\ UNCHANGED <<heap, pre, nops>>

(* Line 237: target and dataValue both null: hdata throws.  The exception  *)
(* propagates out of the client operation (and out of deepClone).          *)
HdataNoTarget ==
    /\ frame.live
    /\ frame.target \in Nullish /\ frame.dv \in Nullish
    /\ Finish(FALSE, UNDEF)
    /\ UNCHANGED <<heap, roots, pre, nops>>

(* Line 242: the key is empty; hdata returns the current target.           *)
HdataReturn ==
    /\ frame.live
    /\ ~(frame.target \in Nullish /\ frame.dv \in Nullish)
    /\ frame.nKey = <<>>
    /\ IF op.kind = "clone"
       THEN /\ frame' = NoFrame
            /\ UNCHANGED <<op, queue, done>>
       ELSE Finish(TRUE, frame.target)
    /\ UNCHANGED <<heap, roots, pre, nops>>

(* Mutant: line 248 recurses with its own arguments, hdata(nKey, target,  *)
(* dataValue, index), instead of the rest of the key and the new target.   *)
HdataStepSelf ==
    /\ frame.live
    /\ ~(frame.target \in Nullish /\ frame.dv \in Nullish)
    /\ frame.nKey # <<>>
    /\ \E segs \in {KeySegs(frame.nKey)} :
       \E r \in {setTarget(heap, SegOf(segs[1]), frame.target,
                            IF Len(segs) = 1 THEN frame.dv ELSE NULL, frame.index)} :
          /\ heap' = r.h
          /\ IF r.ok
             THEN UNCHANGED <<frame, op, queue, done>>
             ELSE Finish(FALSE, UNDEF)
    /\ UNCHANGED <<roots, pre, nops>>

(* Lines 241-248: setTarget on the first segment (with dataValue only for  *)
(* the last one), then hdata on the rest with the returned passIndex.  A   *)
(* TypeError inside setTarget is rethrown by the catch at line 249.        *)
HdataStep ==
    /\ frame.live
    /\ ~(frame.target \in Nullish /\ frame.dv \in Nullish)
    /\ frame.nKey # <<>>
    /\ \E segs \in {KeySegs(frame.nKey)} :
       \E r \in {setTarget(heap, SegOf(segs[1]), frame.target,
                            IF Len(segs) = 1 THEN frame.dv ELSE NULL, frame.index)} :
          /\ heap' = r.h
          /\ IF r.ok
             THEN /\ frame' = [frame EXCEPT !.nKey = KeyRest(segs), !.target = r.t, !.index = r.pi]
                  /\ UNCHANGED <<op, queue, done>>
             ELSE Finish(FALSE, UNDEF)
    /\ UNCHANGED <<roots, pre, nops>>

Next ==
    \/ \E r \in OpRoots, k \in OpKeys : StartRead(r, k)
    \/ \E r \in OpRoots, k \in OpKeys, v \in WriteVals : StartWrite(r, k, v)
    \/ StartClone
    \/ ApplyNext
    \/ CloneDone
    \/ HdataNoTarget
    \/ HdataReturn
    \/ HdataStep

Spec == Init /\ [][Next]_vars

-----------------------------------------------------------------------------
(***************************************************************************)
(* Reference definitions the properties compare the code with.             *)
(***************************************************************************)
(* The property keys a path visits: name[i] is name then i, and "c/1"      *)
(* visits the same keys as "c[1]".                                         *)
Loc(p) == FlattenSeq([i \in DOMAIN p |-> IF p[i].idx = NoIdx THEN <<p[i].name>>
                                          ELSE <<p[i].name, p[i].idx>>])

RECURSIVE Lookup(_, _, _)
(* The value at a key sequence, undefined when a step leaves the graph.    *)
Lookup(h, v, ks) ==
    IF ks = <<>> THEN v
    ELSE IF IsRef(v) THEN Lookup(h, h[v].val[Head(ks)], Tail(ks)) ELSE UNDEF

(* The navigational map as a set of <<keys, value>> locations.             *)
NavLocs(h, v) == {<<Loc(e[1]), e[2]>> : e \in NavSet(h, v)}

Settled == op.kind = "idle" /\ done # <<>>
LastOp  == done[Len(done)]

(* What the last call's key names under the grammar of spec section 6, and *)
(* the value there when the call began.                                    *)
LastLoc == Loc(SpecPath(LastOp.key))
Before  == Lookup(pre.heap, pre.roots[LastOp.root], LastLoc)

-----------------------------------------------------------------------------
TypeOK ==
    /\ \A a \in DOMAIN heap :
         /\ heap[a].arr \in BOOLEAN
         /\ heap[a].ord \in Seq(Keys)
         /\ \A k \in Keys : heap[a].val[k] \in LeafVals \cup Nullish \cup DOMAIN heap
    /\ roots \in [RootNames -> LeafVals \cup Nullish \cup DOMAIN heap]
    /\ op.kind \in {"idle", "read", "write", "clone"}
    /\ frame.live \in BOOLEAN /\ frame.nKey \in Seq(Tokens) /\ frame.index \in Idx \cup {NoIdx}
    /\ queue \in Seq(Path \X (LeafVals \cup Nullish))
    /\ nops \in 0..MaxOps

(* deepClone never invents data: every path/value pair of the clone's      *)
(* navigational map with a defined value is one of the source's            *)
(* (applyNavMap order, setTarget's passIndex hand-over).  Holes left in    *)
(* sparse arrays of the clone flatten to undefined and are excluded.       *)
CloneSound ==
    Settled /\ LastOp.kind = "clone" /\ LastOp.ok
        => {e \in NavSet(heap, roots["copy"]) : e[2] # UNDEF}
             \subseteq NavSet(heap, roots["tree"])

(* Spec section 3 round-trip law: writing every entry of flatten(V) into   *)
(* an empty object yields an object with the same navigational map.  The  *)
(* law is stated for composite values: an empty-path write is a no-op.     *)
CloneComplete ==
    Settled /\ LastOp.kind = "clone" /\ LastOp.ok /\ IsRef(roots["tree"])
        => NavSet(heap, roots["copy"]) = NavSet(heap, roots["tree"])

(* Test script lines 21-25: once every entry of recurseData(tree) has been *)
(* written into {}, navMapsSame(empty, tree) is true.  navMapsSame         *)
(* compares the two maps in enumeration order, so a rebuilt object whose   *)
(* properties were created in another order than the original's would     *)
(* compare unequal with the very same entries.  Stated for the clones that *)
(* keep every entry (see CloneComplete for those that do not).            *)
CloneSameMap ==
    Settled /\ LastOp.kind = "clone" /\ LastOp.ok /\ IsRef(roots["tree"])
        /\ NavSet(heap, roots["copy"]) = NavSet(heap, roots["tree"])
        => navMapsSame(heap, roots["copy"], roots["tree"])

(* Writing to a key that holds a leaf (test script: hdata("c[0]", wtree,   *)
(* "Fred")) replaces exactly that leaf and nothing else.                   *)
WriteOverwrite ==
    Settled /\ LastOp.kind = "write" /\ SpecConforms(LastOp.key) /\ Before \in LeafVals
        => /\ LastOp.ok
           /\ NavLocs(heap, roots[LastOp.root])
                = {e \in NavLocs(pre.heap, pre.roots[LastOp.root]) : e[1] # LastLoc}
                  \cup {<<LastLoc, LastOp.val>>}

(* Reading a key that holds a leaf returns that leaf, whether the array    *)
(* step is written c[1] or c/1, with or without a leading or trailing '/'  *)
(* (test script read assertions).                                          *)
ReadHit ==
    Settled /\ LastOp.kind = "read" /\ SpecConforms(LastOp.key) /\ Before \in LeafVals
        => LastOp.ok /\ LastOp.res = Before

(* The last two operations wrote the same value at the same key.           *)
RepeatedWrite ==
    /\ Settled /\ Len(done) >= 2 /\ LastOp.kind = "write"
    /\ LET p == done[Len(done) - 1]
       IN p.kind = "write" /\ p.root = LastOp.root /\ p.key = LastOp.key /\ p.val = LastOp.val

(* Get mode on a key whose every step is present (a leaf, an object or an  *)
(* array at its end) leaves the document as it was: setTarget's           *)
(* "target[segment] = {}" and "target[nameSegName] = arr" fire only on     *)
(* missing properties.                                                     *)
ReadPresentPure ==
    Settled /\ LastOp.kind = "read" /\ SpecConforms(LastOp.key) /\ Before \notin Nullish
        => Shape(heap, roots[LastOp.root]) = Shape(pre.heap, pre.roots[LastOp.root])

(* Spec sections 3, 4.2 and 6: leading and trailing '/' are ignored, and  *)
(* a read or a write on the empty path returns the target itself and      *)
(* changes nothing.  hdata tests for the end on the untrimmed key (line    *)
(* 242), so a key such as "/" reaches setTarget with the segment "".       *)
EmptyPathNoop ==
    Settled /\ LastOp.kind \in {"read", "write"} /\ pre.roots[LastOp.root] \notin Nullish
        /\ SpecConforms(LastOp.key) /\ SpecPath(LastOp.key) = <<>>
        => LastOp.ok /\ LastOp.res = pre.roots[LastOp.root] /\ heap = pre.heap

(* The work left to a call in progress: the entries applyNavMap has still  *)
(* to apply, then the key left to the current hdata recursion.             *)
Work == <<Len(queue), IF frame.live THEN Len(frame.nKey) + 1 ELSE 0>>

(* Every hdata call and every deepClone begun returns or throws: each step *)
(* of a call that does not end it strictly lowers its work, in the         *)
(* lexicographic order, because applyNavMap consumes an entry and each     *)
(* recursion of hdata (line 248) passes on a key shorter than its own once *)
(* the first segment, the '/' after it and the trimmed slashes are gone.   *)
OpTerminates ==
    [][op.kind # "idle" /\ op'.kind # "idle" =>
         \/ Work'[1] < Work[1]
         \/ Work'[1] = Work[1] /\ Work'[2] < Work[2]]_vars

(* Spec 8.10: repeating a write leaves the target as one write left it:    *)
(* no duplicated array slots or side structures from a first pass.         *)
WriteIdempotent ==
    RepeatedWrite
        => Shape(heap, roots[LastOp.root]) = Shape(pre.heap, pre.roots[LastOp.root])

(* The leaves of a value: its navigational map without null and undefined *)
(* entries.                                                                *)
LeavesOf(h, r) == {e \in NavSet(h, r) : e[2] \notin Nullish}

=============================================================================
