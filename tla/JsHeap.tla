------------------------------- MODULE JsHeap -------------------------------
(***************************************************************************)
(* The JavaScript object graph that the hdata functions of                 *)
(* heliosjs/helios.hdata.js read and mutate.                               *)
(*                                                                         *)
(* A heap is a sequence of objects; a reference is a position in it.  An   *)
(* object records whether it is an Array, the insertion order of its       *)
(* non-index properties, and the value of every property key (UNDEF when  *)
(* the property is absent).  Primitive values are model values: LeafVals   *)
(* stand for numbers and booleans (their property reads yield undefined;   *)
(* string indexing is not modelled), NULL and UNDEF are null and           *)
(* undefined.  Property keys are the plain names Names, the empty name    *)
(* EmptyName and the array indices 0..MaxIdx; JavaScript makes obj["0"]    *)
(* and obj[0] the same property, and so does this model.                   *)
(*                                                                         *)
(* The scripts are not in strict mode: an assignment to a property of a    *)
(* primitive is silently dropped, and any property read or write on null   *)
(* or undefined throws a TypeError.                                        *)
(***************************************************************************)
EXTENDS Integers, Sequences, SequencesExt, Functions

CONSTANTS
    Names,      \* plain property names (model values)
    EmptyName,  \* the property name "", reached only through path keys
    LeafVals,   \* non-null primitive values (model values)
    NULL,       \* null
    UNDEF,      \* undefined
    MaxIdx      \* largest array index a key may carry

ASSUME MaxIdx \in Nat
ASSUME NULL # UNDEF /\ {NULL, UNDEF} \cap (LeafVals \cup Names) = {}
ASSUME EmptyName \notin Names \cup LeafVals \cup {NULL, UNDEF}

NoIdx   == -1                     \* "no index": JavaScript null for an index
Idx     == 0..MaxIdx
PropNames == Names \cup {EmptyName}
Keys    == PropNames \cup Idx
Nullish == {NULL, UNDEF}          \* the values v with v == null

IsRef(v) == v \notin LeafVals \cup Nullish

(* isPrim(obj): null, undefined, strings, numbers and booleans.            *)
isPrim(v) == ~IsRef(v)

NewObj(isArr) == [arr |-> isArr, ord |-> <<>>, val |-> [k \in Keys |-> UNDEF]]

(* target[k] for a target that is not null or undefined.                  *)
Get(h, t, k) == IF IsRef(t) THEN h[t].val[k] ELSE UNDEF

(* target[k] = v: a new property is appended to the insertion order; an    *)
(* assignment to a primitive is dropped.                                   *)
Put(h, t, k, v) ==
    IF IsRef(t)
    THEN LET o == h[t]
         IN [h EXCEPT ![t] = [arr |-> o.arr,
                              ord |-> IF o.val[k] = UNDEF THEN Append(o.ord, k)
                                                          ELSE o.ord,
                              val |-> [o.val EXCEPT ![k] = v]]]
    ELSE h

(* Index properties present on an object, in ascending order.              *)
PresentIdx(o) == {j \in Idx : o.val[j] # UNDEF}

(* for (var i in o): integer-like keys ascending, then the other keys in   *)
(* insertion order.                                                        *)
ForIn(o) == SetToSortSeq(PresentIdx(o), <) \o SelectSeq(o.ord, LAMBDA k : k \in PropNames)

(* arr.length: one more than the largest index property.                   *)
ArrLen(o) == IF PresentIdx(o) = {} THEN 0 ELSE Max(PresentIdx(o)) + 1

-----------------------------------------------------------------------------
(***************************************************************************)
(* JSON documents: the payloads the remote management API delivers and the *)
(* literals of the test scripts.  A document is a leaf or a record         *)
(* [arr, keys, kids]; Load places it in a heap, allocating every composite *)
(* in pre-order as the JSON parser does.                                   *)
(***************************************************************************)
Composite(isArr, ks, kids) == [arr |-> isArr, keys |-> ks, kids |-> kids]

RECURSIVE Trees(_, _, _), Forests(_, _, _)
(* Documents of exactly n nodes whose leaves are drawn from leaves and     *)
(* whose property names from ns.                                           *)
Trees(n, leaves, ns) ==
    IF n = 1
    THEN leaves \cup {Composite(FALSE, <<>>, <<>>), Composite(TRUE, <<>>, <<>>)}
    ELSE UNION { LET m == Len(f) IN
                   {Composite(FALSE, ks, f) :
                        ks \in {s \in [1..m -> ns] : IsInjective(s)}}
                   \cup (IF m <= MaxIdx + 1
                         THEN {Composite(TRUE, [i \in 1..m |-> i - 1], f)}
                         ELSE {})
                 : f \in Forests(n - 1, leaves, ns) }

(* Sequences of documents whose sizes add up to n.                         *)
Forests(n, leaves, ns) ==
    IF n = 0 THEN {<<>>}
    ELSE UNION { {<<t>> \o f : t \in Trees(i, leaves, ns), f \in Forests(n - i, leaves, ns)}
                 : i \in 1..n }

DocsOver(n, leaves, ns) == UNION {Trees(i, leaves, ns) : i \in 1..n}
DocsUpTo(n, leaves) == DocsOver(n, leaves, Names)

RECURSIVE Load(_, _), LoadKids(_, _, _, _)
(* <<value, heap'>>: the value of document d loaded into heap h.           *)
Load(d, h) ==
    IF d \in LeafVals \cup Nullish THEN <<d, h>>
    ELSE LoadKids(d, 1, Len(h) + 1, Append(h, NewObj(d.arr)))

LoadKids(d, i, a, h) ==
    IF i > Len(d.kids) THEN <<a, h>>
    ELSE LET r == Load(d.kids[i], h)
         IN LoadKids(d, i + 1, a, Put(r[2], a, d.keys[i], r[1]))

RECURSIVE Shape(_, _)
(* The document a value unfolds to (what JSON.stringify would show, with   *)
(* keys in enumeration order): the structure the code can observe.         *)
Shape(h, v) ==
    IF isPrim(v) THEN v
    ELSE LET ks == ForIn(h[v])
         IN Composite(h[v].arr, ks, [i \in 1..Len(ks) |-> Shape(h, h[v].val[ks[i]])])

=============================================================================
