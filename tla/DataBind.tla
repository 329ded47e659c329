------------------------------ MODULE DataBind ------------------------------
(***************************************************************************)
(* getDataBind(name) of heliosjs/helios-types.js on the dataBindings       *)
(* table: the defaults "helios-ui" and the named binding are each copied   *)
(* with deepClone (HDataCore) and the copy of the named binding is merged  *)
(* into the copy of the defaults with jQuery's shallow $.extend.           *)
(*                                                                         *)
(* The table is loaded into the heap once, as the script's object literal  *)
(* is.  Callers may ask for any name, registered or not.  A call is three *)
(* steps, one per line of getDataBind; calls do not overlap, as the script *)
(* is synchronous.                                                         *)
(***************************************************************************)
EXTENDS HDataCore

CONSTANTS
    Table,      \* the dataBindings literal, as a document
    DefaultKey, \* "helios-ui"
    BindNames,  \* names getDataBind is called with
    MaxCalls    \* calls in a behaviour

ASSUME DefaultKey \in Names /\ BindNames \subseteq Names /\ MaxCalls \in Nat

VARIABLES
    heap,    \* the object graph
    table,   \* the script variable dataBindings
    call,    \* the getDataBind call in progress, at line 62, 63 or 64
    calls    \* completed getDataBind calls: [name, ok, res]

vars == <<heap, table, call, calls>>

Loaded == Load(Table, <<>>)

-----------------------------------------------------------------------------
RECURSIVE ExtendKeys(_, _, _, _)
(* The loop of $.extend(target, copy) over the keys ks of copy: every own  *)
(* property whose value is not undefined is assigned to target.            *)
ExtendKeys(h, target, src, ks) ==
    IF ks = <<>> THEN h
    ELSE LET v == h[src].val[Head(ks)]
         IN ExtendKeys(IF v = UNDEF THEN h ELSE Put(h, target, Head(ks), v),
                       target, src, Tail(ks))

(* $.extend(def, named): a null named adds nothing.                       *)
Extend(h, target, src) ==
    IF src \in Nullish THEN h ELSE ExtendKeys(h, target, src, ForIn(h[src]))

Idle == [live |-> FALSE, name |-> DefaultKey, line |-> 62, def |-> NULL, named |-> NULL]

(* getDataBind(name) is called.                                            *)
Call(name) ==
    /\ ~call.live
    /\ Len(calls) < MaxCalls
    /\ call' = [Idle EXCEPT !.live = TRUE, !.name = name]
    /\ UNCHANGED <<heap, table, calls>>

(* A throw inside a deepClone ends the call; the objects built so far stay *)
(* in the heap.                                                            *)
Throw(h) ==
    /\ heap'  = h
    /\ call'  = Idle
    /\ calls' = Append(calls, [name |-> call.name, ok |-> FALSE, res |-> UNDEF])

(* Mutant: var def = dataBindings["helios-ui"], the defaults not cloned.   *)
CloneDefaultsShared ==
    /\ call.live /\ call.line = 62
    /\ call' = [call EXCEPT !.line = 63, !.def = Get(heap, table, DefaultKey)]
    /\ UNCHANGED <<heap, table, calls>>

(* Line 62: var def = deepClone(dataBindings["helios-ui"]).                *)
CloneDefaults ==
    /\ call.live /\ call.line = 62
    /\ LET r == deepCloneRun(heap, Get(heap, table, DefaultKey))
       IN IF r.ok
          THEN /\ heap' = r.h
               /\ call' = [call EXCEPT !.line = 63, !.def = r.t]
               /\ UNCHANGED calls
          ELSE Throw(r.h)
    /\ UNCHANGED table

(* Mutant: var named = dataBindings[name], the binding not cloned.         *)
CloneNamedShared ==
    /\ call.live /\ call.line = 63
    /\ call' = [call EXCEPT !.line = 64, !.named = Get(heap, table, call.name)]
    /\ UNCHANGED <<heap, table, calls>>

(* Line 63: var named = deepClone(dataBindings[name]); null for a name     *)
(* with no binding.                                                        *)
CloneNamed ==
    /\ call.live /\ call.line = 63
    /\ LET r == deepCloneRun(heap, Get(heap, table, call.name))
       IN IF r.ok
          THEN /\ heap' = r.h
               /\ call' = [call EXCEPT !.line = 64, !.named = r.t]
               /\ UNCHANGED calls
          ELSE Throw(r.h)
    /\ UNCHANGED table

(* Mutant: the merge is done but named is returned ("return named").       *)
ReturnNamed ==
    /\ call.live /\ call.line = 64
    /\ heap'  = Extend(heap, call.def, call.named)
    /\ call'  = Idle
    /\ calls' = Append(calls, [name |-> call.name, ok |-> TRUE, res |-> call.named])
    /\ UNCHANGED table

(* Line 64: return $.extend(def, named).                                   *)
Return ==
    /\ call.live /\ call.line = 64
    /\ heap'  = Extend(heap, call.def, call.named)
    /\ call'  = Idle
    /\ calls' = Append(calls, [name |-> call.name, ok |-> TRUE, res |-> call.def])
    /\ UNCHANGED table

Init ==
    /\ heap  = Loaded[2]
    /\ table = Loaded[1]
    /\ call  = Idle
    /\ calls = <<>>

Next ==
    \/ \E name \in BindNames : Call(name)
    \/ CloneDefaults
    \/ CloneNamed
    \/ Return

Spec == Init /\ [][Next]_vars

-----------------------------------------------------------------------------
RECURSIVE Reach(_, _)
(* The objects reachable from v.                                           *)
Reach(h, v) ==
    IF isPrim(v) THEN {}
    ELSE {v} \cup UNION {Reach(h, h[v].val[k]) : k \in {k \in Keys : IsRef(h[v].val[k])}}

Results == {calls[i].res : i \in {i \in DOMAIN calls : calls[i].ok}}

TypeOK ==
    /\ IsRef(table)
    /\ \A a \in DOMAIN heap : \A k \in Keys :
         heap[a].val[k] \in LeafVals \cup Nullish \cup DOMAIN heap
    /\ calls \in Seq([name : BindNames, ok : BOOLEAN,
                      res : DOMAIN heap \cup {UNDEF}])
    /\ Len(calls) <= MaxCalls
    /\ call.line \in {62, 63, 64}

(* Calls to getDataBind never change dataBindings: whatever a caller does *)
(* with one binding, the next call starts from the same table (the        *)
(* deepClone of the defaults at line 62 is what keeps $.extend from       *)
(* writing into the table).                                               *)
TablePreserved == Shape(heap, table) = Table

(* No object of a returned binding is an object of dataBindings, so a     *)
(* caller that mutates its binding (adds to its bind-attr, say) leaves    *)
(* every other node's binding alone (spec 4.3 and 8.8).                   *)
BindFresh == \A r \in Results : Reach(heap, r) \cap Reach(heap, table) = {}

(* Every binding getDataBind returns carries every attribute of the       *)
(* defaults: the comment of "helios-ui" (lines 69-79) has each binding    *)
(* start from d, p, ts and bind-attr.                                     *)
BindKeepsDefaults ==
    \A r \in Results : \A k \in Keys :
        Get(heap, Get(heap, table, DefaultKey), k) # UNDEF => Get(heap, r, k) # UNDEF

=============================================================================
