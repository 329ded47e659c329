---------------------------- MODULE HDataCore -----------------------------
(***************************************************************************)
(* The path accessor of heliosjs/helios.hdata.js as pure operators on a    *)
(* heap: setTarget, which handles one path segment, and hdata, applyNavMap *)
(* and deepClone run to completion.  HData runs the same setTarget one     *)
(* recursion at a time; getDataBind (DataBind) calls deepClone as a whole. *)
(***************************************************************************)
EXTENDS HKey

(***************************************************************************)
(* setTarget(segment, target, dataValue, index): one segment of hdata.     *)
(* The result is [ok, h, t, pi]: the heap after the step, and either the   *)
(* new target and passIndex (ok) or a TypeError thrown part way (not ok),  *)
(* with the mutations made before the throw kept in h.                     *)
(***************************************************************************)
(* Op applied to the value of e.  A result read several times is passed   *)
(* through With so that TLC computes it once, also when it checks an      *)
(* action or ENABLED, where it does not keep the value of a LET.          *)
With(e, Op(_)) == CHOOSE y \in {Op(x) : x \in {e}} : TRUE

Ok(h, t, pi) == [ok |-> TRUE, h |-> h, t |-> t, pi |-> pi]
Fault(h)     == [ok |-> FALSE, h |-> h, t |-> UNDEF, pi |-> NoIdx]

(* Mutant: passIndex = nameSegName, the two captures of the regex swapped. *)
AdvanceToArraySwapped(h, t, seg, marked) ==
    LET arr == Get(h, t, seg.name)
    IN IF arr \in Nullish THEN Fault(h)
       ELSE LET elem == Get(h, arr, seg.idx)
            IN IF elem \notin Nullish THEN Ok(h, elem, NoIdx)
               ELSE Ok(h, arr, IF marked THEN NoIdx ELSE seg.name)

(* Mutant: the move into an existing element [nameSegIndex] is dropped.    *)
AdvanceToArrayNoElem(h, t, seg, marked) ==
    LET arr == Get(h, t, seg.name)
    IN IF arr \in Nullish THEN Fault(h)
       ELSE Ok(h, arr, IF marked THEN NoIdx ELSE seg.idx)

(* Lines 183-191: move to target[name], then into element [idx] when it is *)
(* there; the index is handed on only when the element is missing and no  *)
(* value was set in this step.                                             *)
AdvanceToArray(h, t, seg, marked) ==
    LET arr == Get(h, t, seg.name)
    IN IF arr \in Nullish THEN Fault(h)
       ELSE LET elem == Get(h, arr, seg.idx)
            IN IF elem \notin Nullish THEN Ok(h, elem, NoIdx)
               ELSE Ok(h, arr, IF marked THEN NoIdx ELSE seg.idx)

(* Mutant: target[nameSegIndex] = dataValue, the [nameSegName] left out.   *)
SetExistingArrayFlat(h, t, seg, dv, index) ==
    LET holder == IF index = NoIdx THEN t ELSE Get(h, t, index)
    IN IF holder \in Nullish THEN Fault(h)
       ELSE AdvanceToArray(Put(h, holder, seg.idx, dv), t, seg, TRUE)

(* Lines 160-177: the array reference exists and a value is being set.     *)
SetExistingArray(h, t, seg, dv, index) ==
    LET nm  == seg.name
        new == Len(h) + 1
        h1  == IF Get(h, t, nm) \notin Nullish THEN h
               ELSE IF index = NoIdx THEN Put(Append(h, NewObj(TRUE)), t, nm, new)
               ELSE IF Get(h, Get(h, t, index), nm) \in Nullish
                    THEN Put(Append(h, NewObj(TRUE)), Get(h, t, index), nm, new)
               ELSE h
        holder == IF index = NoIdx THEN Get(h1, t, nm)
                  ELSE Get(h1, Get(h1, t, index), nm)
    IN IF holder \in Nullish THEN Fault(h1)
       ELSE AdvanceToArray(Put(h1, holder, seg.idx, dv), t, seg, TRUE)

ArraySegment(h, seg, t, dv, index) ==
    LET set == dv \notin Nullish
        new == Len(h) + 1
    IN IF t \in Nullish THEN Fault(h)
       ELSE IF Get(h, t, IF index = NoIdx THEN seg.name ELSE index) \in Nullish
       THEN LET h1 == Append(h, NewObj(TRUE))
                h2 == IF set /\ index = NoIdx THEN Put(h1, new, seg.idx, dv) ELSE h1
            IN AdvanceToArray(Put(h2, t, seg.name, new), t, seg, set)
       ELSE IF set THEN SetExistingArray(h, t, seg, dv, index)
       ELSE AdvanceToArray(h, t, seg, FALSE)

(* Mutant: set mode assigns only a property that is still missing.        *)
FlatSegmentNoOverwrite(h, nm, t, dv, index) ==
    LET new == Len(h) + 1
    IN IF t \in Nullish THEN Fault(h)
       ELSE IF index = NoIdx
       THEN LET h1 == IF Get(h, t, nm) \notin Nullish THEN h
                      ELSE IF dv \notin Nullish THEN Put(h, t, nm, dv)
                      ELSE Put(Append(h, NewObj(FALSE)), t, nm, new)
            IN Ok(h1, Get(h1, t, nm), NoIdx)
       ELSE IF dv \notin Nullish
       THEN LET h1 == IF Get(h, t, index) \in Nullish
                      THEN Put(Append(h, NewObj(FALSE)), t, index, new)
                      ELSE h
                elem == Get(h1, t, index)
            IN IF elem \in Nullish THEN Fault(h1)
               ELSE LET h2 == Put(h1, elem, nm, dv) IN Ok(h2, Get(h2, t, nm), NoIdx)
       ELSE Ok(h, Get(h, t, nm), NoIdx)

(* Mutant: get mode replaces the property by {} without the null check.    *)
FlatSegmentAlwaysCreate(h, nm, t, dv, index) ==
    LET new == Len(h) + 1
    IN IF t \in Nullish THEN Fault(h)
       ELSE IF index = NoIdx
       THEN LET h1 == IF dv \notin Nullish THEN Put(h, t, nm, dv)
                      ELSE Put(Append(h, NewObj(FALSE)), t, nm, new)
            IN Ok(h1, Get(h1, t, nm), NoIdx)
       ELSE IF dv \notin Nullish
       THEN LET h1 == IF Get(h, t, index) \in Nullish
                      THEN Put(Append(h, NewObj(FALSE)), t, index, new)
                      ELSE h
                elem == Get(h1, t, index)
            IN IF elem \in Nullish THEN Fault(h1)
               ELSE LET h2 == Put(h1, elem, nm, dv) IN Ok(h2, Get(h2, t, nm), NoIdx)
       ELSE Ok(h, Get(h, t, nm), NoIdx)

(* Lines 192-215: a plain segment.  Without a passed index it sets the     *)
(* value, or in get mode materialises a missing property as {}; with one   *)
(* it sets target[index][segment], creating target[index] as {}.           *)
FlatSegment(h, nm, t, dv, index) ==
    LET new == Len(h) + 1
    IN IF t \in Nullish THEN Fault(h)
       ELSE IF index = NoIdx
       THEN LET h1 == IF dv \notin Nullish THEN Put(h, t, nm, dv)
                      ELSE IF Get(h, t, nm) \in Nullish
                           THEN Put(Append(h, NewObj(FALSE)), t, nm, new)
                      ELSE h
            IN Ok(h1, Get(h1, t, nm), NoIdx)
       ELSE IF dv \notin Nullish
       THEN LET h1 == IF Get(h, t, index) \in Nullish
                      THEN Put(Append(h, NewObj(FALSE)), t, index, new)
                      ELSE h
                elem == Get(h1, t, index)
            IN IF elem \in Nullish THEN Fault(h1)
               ELSE LET h2 == Put(h1, elem, nm, dv) IN Ok(h2, Get(h2, t, nm), NoIdx)
       ELSE Ok(h, Get(h, t, nm), NoIdx)

(* Lines 128-143 and the dispatch at 144/192: in get mode a plain segment  *)
(* after a passed index first moves to target[index].                      *)
setTarget(h, seg, target, dv, index) ==
    LET descend == index # NoIdx /\ dv \in Nullish /\ seg.idx = NoIdx
    IN IF descend /\ target \in Nullish THEN Fault(h)
       ELSE LET t == IF descend THEN Get(h, target, index) ELSE target
            IN IF seg.idx # NoIdx THEN ArraySegment(h, seg, t, dv, index)
               ELSE FlatSegment(h, seg.name, t, dv, index)

-----------------------------------------------------------------------------
RECURSIVE hdataRun(_, _, _, _, _)
(* hdata(nKey, target, dataValue), lines 235-255, run to completion on the *)
(* key string nKey: the guard of line 237 is tested at every recursion,    *)
(* with the full dataValue; the untrimmed key ends the recursion when it   *)
(* is empty (line 242); otherwise setTarget gets the first segment of the  *)
(* trimmed key, and dataValue only when it is the only segment.  The       *)
(* result is Ok with the value reached, or Fault.                          *)
hdataRun(h, nKey, target, dv, index) ==
    IF target \in Nullish /\ dv \in Nullish THEN Fault(h)
    ELSE IF nKey = <<>> THEN Ok(h, target, index)
    ELSE With(KeySegs(nKey), LAMBDA segs :
         With(setTarget(h, SegOf(segs[1]), target, IF Len(segs) = 1 THEN dv ELSE NULL, index),
              LAMBDA r : IF r.ok THEN hdataRun(r.h, KeyRest(segs), r.t, dv, r.pi) ELSE r))

RECURSIVE ApplyEntries(_, _, _)
(* The loop of applyNavMap(to, from), lines 282-284: one hdata per entry,  *)
(* keyed by the navKey string, in enumeration order; a throw ends the loop *)
(* and propagates.                                                         *)
ApplyEntries(h, to, es) ==
    IF es = <<>> THEN Ok(h, to, NoIdx)
    ELSE With(hdataRun(h, NavKey(Head(es)[1]), to, Head(es)[2], NoIdx),
              LAMBDA r : IF r.ok THEN ApplyEntries(r.h, to, Tail(es)) ELSE Fault(r.h))

(* deepClone(obj), lines 292-297: null for null or undefined; otherwise a  *)
(* new {} that applyNavMap fills from recurseData(obj).                    *)
deepCloneRun(h, obj) ==
    IF obj \in Nullish THEN Ok(h, NULL, NoIdx)
    ELSE ApplyEntries(Append(h, NewObj(FALSE)), Len(h) + 1, NavEntries(h, obj))

=============================================================================
