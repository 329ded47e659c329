----------------------------- MODULE ResolveData ----------------------------
(***************************************************************************)
(* resolveData(dataObject, filter) and heval(dataObject, expr) of          *)
(* heliosjs/helios.hdata.js.  resolveData walks dataObject with            *)
(* recurseData and, for every leaf the filter accepts, a callback that     *)
(* evaluates the leaf with heval against dataObject and writes the result *)
(* into a fresh clone with hdata.  An "h~<-${path}" leaf is read from      *)
(* dataObject in get mode, which materialises missing objects in the very  *)
(* object the walk is still enumerating.                                   *)
(*                                                                         *)
(* The walk is one step per loop iteration of recurseData, on the live     *)
(* heap: a property's value and an array element are read when the loop    *)
(* reaches them, an array's length when its loop starts, and an object's   *)
(* keys when its for-in starts (properties added during a for-in are not   *)
(* visited by it, as in the browsers' engines).  The nesting of the        *)
(* recursive calls is kept as a stack of frames.                           *)
(*                                                                         *)
(* Strings are atoms: the leaf values are split by what heval does with    *)
(* them.  The filter regex, tested on "navKey:value", is a predicate on    *)
(* the path and the value.                                                 *)
(***************************************************************************)
EXTENDS HDataCore

CONSTANTS
    Docs,        \* documents dataObject may be
    Plain,       \* leaves heval returns unchanged: not "h~..." and not == ""
    Loose,       \* leaves with expr == "": "", 0 and false
    GetExpr,     \* "h~<-${k}" leaves: the key text k each one holds
    SetExprs,    \* "h~->${p}(v)" leaves
    OtherExprs,  \* "h~..." leaves that match neither pattern
    Filters,     \* the filters resolveData is called with, NULL for none
    Accept(_, _, _)  \* Accept(f, navKey, value): filter f matches

ASSUME LeafVals = Plain \cup Loose \cup DOMAIN GetExpr \cup SetExprs \cup OtherExprs
ASSUME \A g \in DOMAIN GetExpr : GetExpr[g] \in Seq(Tokens \cup {"'"})

VARIABLES
    heap,    \* the object graph
    src,     \* dataObject
    filter,  \* the filter argument
    clone,   \* the clone resolveData fills, NULL before the call
    stack,   \* the recurseData frames in progress, innermost last
    status,  \* "idle", "walk", "ok" (returned) or "threw"
    h0       \* ghost: the heap when resolveData was called

vars == <<heap, src, filter, clone, stack, status, h0>>

-----------------------------------------------------------------------------
(* heval(dataObject, expr), lines 407-428, as [ok, h, t]: t the value.     *)
(* null, undefined and every expr == "" give null; a value that is not a  *)
(* string, or a string without "h~", is returned as it is; "h~<-${k}" is   *)
(* hdata(k.htrimChar("'"), dataObject), in get mode; "h~->${k}(v)" passes  *)
(* the setter test but the getter regex then finds no match, and          *)
(* groups[1] on null throws; any other "h~" string falls off the end and   *)
(* yields undefined.                                                       *)
heval(h, d, v) ==
    IF v \in Nullish \cup Loose THEN Ok(h, NULL, NoIdx)
    ELSE IF v \in Plain THEN Ok(h, v, NoIdx)
    ELSE IF v \in DOMAIN GetExpr THEN hdataRun(h, htrimChar(GetExpr[v], <<"'">>), d, NULL, NoIdx)
    ELSE IF v \in SetExprs THEN Fault(h)
    ELSE Ok(h, UNDEF, NoIdx)

(* Mutant: the filter test of lines 68-74 and 86-92 left out.              *)
VisitUnfiltered(h, f, d, c, p, v) ==
    LET e == heval(h, d, v)
    IN IF e.ok THEN hdataRun(e.h, NavKey(p), c, e.t, NoIdx) ELSE e

(* A primitive reached at navKey p (lines 65-77 and 84-94): the filter is  *)
(* tested on "navKey:value"; a match runs the callback of resolveData      *)
(* (lines 398-402), whose hdata(navKey, clone, newValue) is in get mode    *)
(* when newValue is null or undefined.  Its result is stored in _slot,     *)
(* which resolveData drops.                                                *)
Visit(h, f, d, c, p, v) ==
    IF f # NULL /\ ~Accept(f, p, v) THEN Ok(h, NULL, NoIdx)
    ELSE LET e == heval(h, d, v)
         IN IF e.ok THEN hdataRun(e.h, NavKey(p), c, e.t, NoIdx) ELSE e

(* recurseData called on an object or array: its for-in takes the keys.   *)
ObjFrame(h, o, ctx) == [arr |-> FALSE, ref |-> o, keys |-> ForIn(h[o]), j |-> 0, le |-> 0, ctx |-> ctx]

(* The loop over an Array property: its length is read once (line 96).     *)
ArrFrame(h, a, ctx) == [arr |-> TRUE, ref |-> a, keys |-> <<>>, j |-> 0, le |-> ArrLen(h[a]), ctx |-> ctx]

Top == stack[Len(stack)]

(* The callback threw: the exception leaves recurseData and resolveData;  *)
(* what it materialised in dataObject stays.                               *)
Throw(h) ==
    /\ heap'   = h
    /\ stack'  = <<>>
    /\ status' = "threw"

-----------------------------------------------------------------------------
Init ==
    /\ \E d \in Docs : LET l == Load(d, <<>>) IN heap = l[2] /\ src = l[1]
    /\ filter \in Filters
    /\ clone  = NULL
    /\ stack  = <<>>
    /\ status = "idle"
    /\ h0     = heap

(* var clone = {}; recurseData(dataObject, filter, callback): a primitive  *)
(* dataObject is visited at the empty navKey at once.                      *)
(* Mutant: resolveData works on dataObject itself, var clone = dataObject. *)
StartInPlace ==
    /\ status = "idle"
    /\ LET h == Append(heap, NewObj(FALSE))
           c == IF IsRef(src) THEN src ELSE Len(heap) + 1
       IN /\ clone' = c
          /\ IF IsRef(src)
             THEN /\ heap' = heap
                  /\ stack' = <<ObjFrame(heap, src, <<>>)>>
                  /\ status' = "walk"
             ELSE LET r == Visit(h, filter, src, c, <<>>, src)
                  IN IF r.ok THEN /\ heap' = r.h /\ stack' = <<>> /\ status' = "ok"
                     ELSE Throw(r.h)
    /\ UNCHANGED <<src, filter, h0>>

Start ==
    /\ status = "idle"
    /\ LET h == Append(heap, NewObj(FALSE))
           c == Len(heap) + 1
       IN /\ clone' = c
          /\ IF IsRef(src)
             THEN /\ heap' = h
                  /\ stack' = <<ObjFrame(h, src, <<>>)>>
                  /\ status' = "walk"
             ELSE LET r == Visit(h, filter, src, c, <<>>, src)
                  IN IF r.ok THEN /\ heap' = r.h /\ stack' = <<>> /\ status' = "ok"
                     ELSE Throw(r.h)
    /\ UNCHANGED <<src, filter, h0>>

(* One iteration of for (var i in tree), lines 79-107: prop = tree[i] is   *)
(* read now; a primitive is visited, an Array gets its index loop, any     *)
(* other object its own recurseData.                                       *)
WalkProp ==
    /\ status = "walk"
    /\ ~Top.arr /\ Top.keys # <<>>
    /\ LET k    == Head(Top.keys)
           prop == heap[Top.ref].val[k]
           c    == PushKey(Top.ctx, k)
           rest == [stack EXCEPT ![Len(stack)].keys = Tail(@)]
       IN IF isPrim(prop)
          THEN LET r == Visit(heap, filter, src, clone, c, prop)
               IN IF r.ok THEN heap' = r.h /\ stack' = rest /\ UNCHANGED status
                  ELSE Throw(r.h)
          ELSE /\ stack' = Append(rest, IF heap[prop].arr THEN ArrFrame(heap, prop, c)
                                                          ELSE ObjFrame(heap, prop, c))
               /\ UNCHANGED <<heap, status>>
    /\ UNCHANGED <<src, filter, clone, h0>>

(* One iteration of for (j = 0; j < le; j++), lines 97-101: prop[j] is    *)
(* read now and recurseData'd under navKey ...[j].                         *)
WalkElem ==
    /\ status = "walk"
    /\ Top.arr /\ Top.j < Top.le
    /\ LET elem == heap[Top.ref].val[Top.j]
           c    == PushIdx(Top.ctx, Top.j)
           rest == [stack EXCEPT ![Len(stack)].j = @ + 1]
       IN IF isPrim(elem)
          THEN LET r == Visit(heap, filter, src, clone, c, elem)
               IN IF r.ok THEN heap' = r.h /\ stack' = rest /\ UNCHANGED status
                  ELSE Throw(r.h)
          ELSE /\ stack' = Append(rest, ObjFrame(heap, elem, c))
               /\ UNCHANGED <<heap, status>>
    /\ UNCHANGED <<src, filter, clone, h0>>

(* A loop is done and its recurseData returns; when the outermost returns, *)
(* resolveData returns clone.                                              *)
WalkReturn ==
    /\ status = "walk"
    /\ IF Top.arr THEN Top.j >= Top.le ELSE Top.keys = <<>>
    /\ stack'  = SubSeq(stack, 1, Len(stack) - 1)
    /\ status' = IF Len(stack) = 1 THEN "ok" ELSE "walk"
    /\ UNCHANGED <<heap, src, filter, clone, h0>>

Next == Start \/ WalkProp \/ WalkElem \/ WalkReturn

Spec == Init /\ [][Next]_vars

-----------------------------------------------------------------------------
(* What a leaf resolves to when heval reads dataObject as it was when      *)
(* resolveData was called.                                                 *)
Resolved(v) == heval(h0, src, v).t

(* The entries the filter lets through, taken on dataObject as called.     *)
Accepted == {e \in NavSet(h0, src) : filter = NULL \/ Accept(filter, e[1], e[2])}

(* The entries the for-in loop of recurseData (lines 79-107) yields for a  *)
(* value v met at path p: a primitive is slotted, an Array met as a        *)
(* property gets its index loop, any other object (an Array met as an      *)
(* element included) its own recurseData.                                  *)
MapAt(h, v, p) ==
    IF isPrim(v) THEN {<<p, v>>}
    ELSE IF h[v].arr /\ p[Len(p)].idx = NoIdx THEN Range(RecurseElems(h, v, 0, p, <<>>))
    ELSE Range(recurseData(h, v, p, <<>>))

RECURSIVE Reach(_, _)
(* The objects reachable from the objects S through property values.      *)
Reach(h, S) ==
    LET R == S \cup {x \in {h[a].val[k] : a \in S, k \in Keys} : IsRef(x)}
    IN IF R = S THEN S ELSE Reach(h, R)

(* Everything resolveData returns comes from an accepted leaf of           *)
(* dataObject, resolved against dataObject as it was called: the objects   *)
(* its get-mode reads materialise in dataObject while recurseData is still *)
(* walking it never add, drop or change what later leaves resolve to.  A   *)
(* getter that names an object (bands.js "The Rolling References") puts    *)
(* that object's own entries under the getter's path.                      *)
ResolveSound ==
    status = "ok"
        => {e \in NavSet(heap, clone) : e[2] # UNDEF}
             \subseteq UNION {MapAt(heap, Resolved(e[2]), e[1]) : e \in Accepted}

(* resolveData copies into the fresh object var clone = {} (line 397): the *)
(* only objects the result shares with dataObject are the objects its      *)
(* getters name, and what those reach, since hdata stores a getter's value *)
(* by reference (line 422).  A getter naming an object that dataObject had *)
(* when resolveData was called shares that object; one naming an absent   *)
(* path shares the {} its get-mode hdata creates in dataObject.  A write   *)
(* into the result elsewhere never reaches the caller's document.          *)
ResolveAliases ==
    LET named == {r \in {Resolved(e[2]) : e \in Accepted} : IsRef(r) /\ r \in DOMAIN h0}
        grown == Reach(heap, {src}) \ DOMAIN h0
    IN status = "ok"
         => Reach(heap, {clone}) \cap Reach(heap, {src}) \subseteq Reach(heap, named \cup grown)

(* Every accepted leaf that is not an "h~" expression (a number, a boolean *)
(* or a plain string, which heval returns as it is) is in the result at    *)
(* its own path.                                                           *)
ResolveKeepsPlain ==
    status = "ok"
        => \A e \in Accepted : e[2] \in Plain \cup Loose => e \in NavSet(heap, clone)

=============================================================================
