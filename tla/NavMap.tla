------------------------------- MODULE NavMap -------------------------------
(***************************************************************************)
(* The flattener of heliosjs/helios.hdata.js: recurseData, which walks an  *)
(* object graph and builds the "navigational map" from path keys to the    *)
(* primitives found, and navMapsSame, which compares two such maps.        *)
(*                                                                         *)
(* A path key is kept as the sequence of segments hdata will split it into *)
(* (see HData): a segment is a property name with an optional array index. *)
(* recurseData pushes a name onto its context for every property and       *)
(* "[j]" for every array element, joins the context with "/" and removes   *)
(* any "/" before "[".  PushKey starts a new segment and PushIdx attaches  *)
(* the index to the segment before it: that is what the join and replace *)
(* produce, and what the split and the name[index] regex of hdata read   *)
(* back: recurseData only pushes "[j]" right after a property name.        *)
(***************************************************************************)
EXTENDS JsHeap

Seg  == [name : Keys, idx : Idx \cup {NoIdx}]
Path == Seq(Seg)

PushKey(ctx, k) == Append(ctx, [name |-> k, idx |-> NoIdx])
PushIdx(ctx, j) == [ctx EXCEPT ![Len(ctx)].idx = j]

(* _slot[navKey] = value: a new key is appended, an existing one keeps its *)
(* place and takes the new value.                                          *)
SlotPut(slot, p, v) ==
    IF \E i \in DOMAIN slot : slot[i][1] = p
    THEN [i \in DOMAIN slot |-> IF slot[i][1] = p THEN <<p, v>> ELSE slot[i]]
    ELSE Append(slot, <<p, v>>)

RECURSIVE recurseData(_, _, _, _), RecurseProps(_, _, _, _, _), RecurseElems(_, _, _, _, _)
(* recurseData(tree, null, null, slot, original, ctx): a primitive tree is *)
(* slotted under the current context; otherwise every enumerable property  *)
(* is visited in for-in order.                                             *)
recurseData(h, tree, ctx, slot) ==
    IF isPrim(tree) THEN SlotPut(slot, ctx, tree)
    ELSE RecurseProps(h, tree, ForIn(h[tree]), ctx, slot)

(* The for (var i in tree) loop: a primitive property is slotted, an Array *)
(* is walked by index 0..length-1 (holes read as undefined), any other     *)
(* object is recursed into.                                                *)
RecurseProps(h, tree, ks, ctx, slot) ==
    IF ks = <<>> THEN slot
    ELSE LET i    == Head(ks)
             c    == PushKey(ctx, i)
             prop == h[tree].val[i]
             s    == IF isPrim(prop) THEN SlotPut(slot, c, prop)
                     ELSE IF h[prop].arr THEN RecurseElems(h, prop, 0, c, slot)
                     ELSE recurseData(h, prop, c, slot)
         IN RecurseProps(h, tree, Tail(ks), ctx, s)

RecurseElems(h, arr, j, c, slot) ==
    IF j >= ArrLen(h[arr]) THEN slot
    ELSE RecurseElems(h, arr, j + 1, c,
                      recurseData(h, h[arr].val[j], PushIdx(c, j), slot))

(* recurseData(v): the navigational map of a value, in insertion order.  A *)
(* primitive v takes the early "return;" at line 76, so the caller gets    *)
(* undefined, over which for-in iterates nothing.                          *)
Flatten(h, v) == IF isPrim(v) THEN <<>> ELSE recurseData(h, v, <<>>, <<>>)

(* A path key that is an integer-like string ("0", "1"): the slot is a     *)
(* plain object, so for-in visits such keys first, in ascending order.     *)
IntegerLike(p) == Len(p) = 1 /\ p[1].idx = NoIdx /\ p[1].name \in Idx

EnumOrder(slot) ==
    LET ints == {i \in DOMAIN slot : IntegerLike(slot[i][1])}
        byNum == SetToSortSeq(ints, LAMBDA i, j : slot[i][1][1].name < slot[j][1][1].name)
    IN [i \in DOMAIN byNum |-> slot[byNum[i]]]
       \o SelectSeq(slot, LAMBDA e : ~IntegerLike(e[1]))

(* for (i in recurseData(v)): the entries in the order a caller sees them. *)
NavEntries(h, v) == EnumOrder(Flatten(h, v))

NavSet(h, v) == Range(NavEntries(h, v))

(* navMapsSame(A, B): both maps are concatenated key+value in enumeration  *)
(* order and the two strings compared.  Keys and values are atoms here, so *)
(* the strings are equal exactly when the entry sequences are.             *)
navMapsSame(h, A, B) == NavEntries(h, A) = NavEntries(h, B)

=============================================================================
