------------------------------ MODULE HelioSP -------------------------------
(***************************************************************************)
(* The jQuery plugin of heliosjs/heliosp.js: $.heliosp(method, ...)        *)
(* dispatches to the methods table, which keeps the type registry          *)
(* _typeMappings, the MBeanServer tree window and a lazily created         *)
(* Jolokia client.                                                         *)
(*                                                                         *)
(* Every call is synchronous and is one step; callers (initConsole, page   *)
(* code) call any method in any order.  The script ends with               *)
(* heliosTypes = HELIOS_TYPES(); $.heliosp("init") (lines 197-198), which  *)
(* loads the types only when helios-types.js was loaded first; otherwise  *)
(* line 197 throws, heliosTypes stays undefined and every later loadTypes *)
(* fails inside its try.  No page of this repository fixes the order, so  *)
(* both starts are initial states.                                         *)
(*                                                                         *)
(* $.heliosp(...) runs its method with this = jQuery, which has no         *)
(* settings property.  jstree, the dialog and Jolokia are external: the    *)
(* model keeps what heliosp.js itself records (the window reference, the   *)
(* dialog's visibility, the jmx-tree-root nodes it asks jstree for, the    *)
(* client reference, this.options).                                        *)
(***************************************************************************)
EXTENDS Naturals

CONSTANTS
    TypeNames,  \* the type_name of every HELIOS_TYPES entry
    UserNames,  \* names callers pass to mapping, mappings and setting
    Vals,       \* non-null values callers pass
    Patterns,   \* patterns callers pass to jmxFindServers, "*" excluded
    NULL,       \* null
    UNDEF,      \* undefined
    MaxCalls    \* calls in a behaviour

ASSUME /\ "types" \notin UserNames /\ "*" \notin Patterns
       /\ {NULL, UNDEF} \cap Vals = {} /\ MaxCalls \in Nat

VARIABLES
    tm,       \* _typeMappings: [top |-> its keys other than "types", types |-> ...]
    htypes,   \* heliosTypes holds HELIOS_TYPES() (FALSE: it is undefined)
    window,   \* _jmxTreeWindow # null
    shown,    \* the dialog is visible
    roots,    \* jmx-tree-root nodes created in the tree
    client,   \* _jmxClient: NULL, or the number of Jolokia clients built
    options,  \* this.options of jQuery, set by mbeanServerTree
    last,     \* ghost: the last call, its argument, outcome and result
    ncalls    \* calls made

vars == <<tm, htypes, window, shown, roots, client, options, last, ncalls>>

Keys == TypeNames \cup UserNames

(* The copy larr of a HELIOS_TYPES entry: $.extend(larr, this.typeDefaults, *)
(* v) runs with this = v, whose typeDefaults is undefined, so larr is a    *)
(* shallow copy of v without the defaults of _typeDefaults.                *)
Entry(t) == [type_name |-> t, max_children |-> UNDEF, max_depth |-> UNDEF]

(* The object literal of lines 167-170.                                    *)
EmptyMappings == [top |-> [k \in UserNames |-> UNDEF], types |-> [k \in Keys |-> UNDEF]]

(* Mutant: the loaded types stored on _typeMappings itself, as mapping's   *)
(* setter does.                                                            *)
LoadTypesTop(m, ht) ==
    IF ~ht THEN m
    ELSE [m EXCEPT !.top = [k \in UserNames |-> IF k \in TypeNames THEN Entry(k) ELSE @[k]]]

(* loadTypes, lines 28-39: jQuery.each over heliosTypes copies each entry  *)
(* into _typeMappings["types"] under its type_name; when heliosTypes is    *)
(* undefined, jQuery.each throws and the catch leaves the registry alone.  *)
LoadTypes(m, ht) ==
    IF ~ht THEN m
    ELSE [m EXCEPT !.types = [k \in Keys |-> IF k \in TypeNames THEN Entry(k) ELSE @[k]]]

(* A call of method m with argument a that returns (ok) or throws.         *)
Done(m, a, ok, ret) ==
    /\ ncalls < MaxCalls
    /\ ncalls' = ncalls + 1
    /\ last'   = [m |-> m, arg |-> a, ok |-> ok, ret |-> ret]

Init ==
    /\ htypes \in BOOLEAN
    /\ tm      = LoadTypes(EmptyMappings, htypes)
    /\ window  = FALSE
    /\ shown   = FALSE
    /\ roots   = 0
    /\ client  = NULL
    /\ options = UNDEF
    /\ last    = [m |-> "init", arg |-> UNDEF, ok |-> htypes, ret |-> UNDEF]
    /\ ncalls  = 0

-----------------------------------------------------------------------------
(* Line 15: this.settings is undefined, so both the read and the write     *)
(* throw a TypeError.                                                      *)
setting(name, value) ==
    /\ Done("setting", name, FALSE, UNDEF)
    /\ UNCHANGED <<tm, htypes, window, shown, roots, client, options>>

(* Line 17: a null or undefined value reads _typeMappings["types"].        *)
mappingGet(name) ==
    /\ Done("mapping", name, TRUE, tm.types[name])
    /\ UNCHANGED <<tm, htypes, window, shown, roots, client, options>>

(* Mutant: the write goes to _typeMappings["types"], where the read looks. *)
mappingSetTypes(name, value) ==
    /\ Done("mapping", name, TRUE, UNDEF)
    /\ tm' = [tm EXCEPT !.types[name] = value]
    /\ UNCHANGED <<htypes, window, shown, roots, client, options>>

(* Line 18: the write goes to _typeMappings itself.                        *)
mappingSet(name, value) ==
    /\ Done("mapping", name, TRUE, UNDEF)
    /\ tm' = [tm EXCEPT !.top[name] = value]
    /\ UNCHANGED <<htypes, window, shown, roots, client, options>>

(* Lines 21-25: a shallow copy of _typeMappings.                           *)
mappingsGet ==
    /\ Done("mappings", UNDEF, TRUE, tm)
    /\ UNCHANGED <<tm, htypes, window, shown, roots, client, options>>

(* Line 26: $.extend(_typeMappings, values) copies every key whose value   *)
(* is not undefined; null is copied.                                       *)
mappingsSet(values) ==
    /\ Done("mappings", UNDEF, TRUE, UNDEF)
    /\ tm' = [tm EXCEPT !.top = [k \in UserNames |-> IF values[k] = UNDEF THEN @[k] ELSE values[k]]]
    /\ UNCHANGED <<htypes, window, shown, roots, client, options>>

(* $.heliosp("loadTypes"), $.heliosp("init") (lines 138-140), and          *)
(* $.heliosp() or $.heliosp({...}), which line 9 sends to init.            *)
loadTypes(m) ==
    /\ Done(m, UNDEF, htypes, UNDEF)
    /\ tm' = LoadTypes(tm, htypes)
    /\ UNCHANGED <<htypes, window, shown, roots, client, options>>

(* mbeanServerTree(options), lines 53-60: this.options is replaced by the  *)
(* defaults (url false) extended with the caller's options.                *)
mbeanServerTree(url) ==
    /\ Done("mbeanServerTree", url, TRUE, UNDEF)
    /\ options' = [url |-> IF url = UNDEF THEN FALSE ELSE url]
    /\ UNCHANGED <<tm, htypes, window, shown, roots, client>>

(* jmxTreeWindow, lines 62-96: the first call builds the tree and the     *)
(* dialog (autoOpen) and keeps the dialog element; later calls toggle it.  *)
(* Every call asks jstree for another jmx-tree-root node (line 89).        *)
jmxTreeWindow ==
    /\ Done("jmxTreeWindow", UNDEF, TRUE, UNDEF)
    /\ window' = TRUE
    /\ shown'  = IF window THEN ~shown ELSE TRUE
    /\ roots'  = roots + 1
    /\ UNCHANGED <<tm, htypes, client, options>>

(* The user closes the dialog with its close button.                       *)
CloseDialog ==
    /\ window /\ shown
    /\ shown' = FALSE
    /\ UNCHANGED <<tm, htypes, window, roots, client, options, last, ncalls>>

(* _initJmxClient, lines 122-129: a client is built only when there is     *)
(* none; its options come from the "request-" settings (lines 113-121).    *)
InitJmxClient(c) == IF c = NULL THEN 1 ELSE c

(* _jmxSearch, lines 130-137: the search result is dropped.                *)
jmxSearch ==
    /\ Done("_jmxSearch", UNDEF, TRUE, UNDEF)
    /\ client' = InitJmxClient(client)
    /\ UNCHANGED <<tm, htypes, window, shown, roots, options>>

(* jmxFindServers, lines 97-112: a type name with no mapping throws;       *)
(* otherwise the client is initialised, _jmxSearch (which initialises it   *)
(* again and returns nothing) runs, and the result maps the pattern ("*"   *)
(* for null) to undefined.                                                 *)
jmxFindServers(typeName, pattern) ==
    /\ IF tm.types[typeName] \in {NULL, UNDEF}
       THEN /\ Done("jmxFindServers", typeName, FALSE, UNDEF)
            /\ UNCHANGED client
       ELSE /\ Done("jmxFindServers", typeName, TRUE,
                    [p \in {IF pattern = NULL THEN "*" ELSE pattern} |-> UNDEF])
            /\ client' = InitJmxClient(InitJmxClient(client))
    /\ UNCHANGED <<tm, htypes, window, shown, roots, options>>

(* Lines 6-7 for bindContainer and _jmxClientOptions, which change nothing, *)
(* and line 11 for a name not in the table, where $.error throws.          *)
noEffect(m) ==
    /\ Done(m, UNDEF, m # "unknown", UNDEF)
    /\ UNCHANGED <<tm, htypes, window, shown, roots, client, options>>

Next ==
    \/ \E n \in UserNames, v \in Vals \cup {NULL} : setting(n, v)
    \/ \E n \in Keys : mappingGet(n)
    \/ \E n \in UserNames, v \in Vals : mappingSet(n, v)
    \/ mappingsGet
    \/ \E vs \in [UserNames -> Vals \cup {NULL, UNDEF}] : mappingsSet(vs)
    \/ \E m \in {"loadTypes", "init"} : loadTypes(m)
    \/ \E u \in Vals \cup {UNDEF} : mbeanServerTree(u)
    \/ jmxTreeWindow
    \/ CloseDialog
    \/ jmxSearch
    \/ \E t \in Keys, p \in Patterns \cup {NULL} : jmxFindServers(t, p)
    \/ \E m \in {"bindContainer", "_jmxClientOptions", "unknown"} : noEffect(m)

Spec == Init /\ [][Next]_vars

-----------------------------------------------------------------------------
TypeOK ==
    /\ tm.top \in [UserNames -> Vals \cup {NULL, UNDEF}]
    /\ \A k \in Keys : tm.types[k] \in {UNDEF, Entry(k)}
    /\ htypes \in BOOLEAN /\ window \in BOOLEAN /\ shown \in BOOLEAN
    /\ roots \in 0..MaxCalls
    /\ client \in {NULL} \cup Nat
    /\ options \in {UNDEF} \cup [url : Vals \cup {FALSE}]
    /\ ncalls \in 0..MaxCalls

(* When the script's init found HELIOS_TYPES, jmxFindServers accepts every *)
(* type_name of HELIOS_TYPES whatever mapping, mappings and loadTypes      *)
(* calls came before: the registry loadTypes fills (line 34) is the one    *)
(* mapping reads at line 98, and no setter writes into it.                 *)
FindServersAfterLoad ==
    htypes /\ last.m = "jmxFindServers" /\ last.arg \in TypeNames => last.ok

=============================================================================
