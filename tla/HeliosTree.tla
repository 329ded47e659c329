----------------------------- MODULE HeliosTree -----------------------------
(***************************************************************************)
(* The MBeanServer tree of heliosjs/helios.js: a jstree whose nodes are   *)
(* filled on demand from a Jolokia search.  Opening a node runs           *)
(* getNodeData, which re-queries when the node was never populated or its *)
(* ts is older than NODE_REFRESH_DELAY, removes the old children and adds *)
(* one child per search result through popServer.                         *)
(*                                                                         *)
(* The tree is kept in document order: a sequence of nodes, each with its *)
(* depth, so the parent of a node is the nearest preceding shallower one.  *)
(* A node's DOM id is <<type, key>>.  Ids are global in a page, and       *)
(* jQuery's "#id" finds the first node in document order that has it;     *)
(* getNodeData and popServer address nodes only that way.  The query     *)
(* string q is kept as the set of key=value pairs it lists.                *)
(*                                                                         *)
(* The managed servers come and go; the search answers from the servers   *)
(* up at the moment it runs.  getNodeData is synchronous, so an open is   *)
(* one step.                                                               *)
(***************************************************************************)
EXTENDS Integers, Sequences, SequencesExt, FiniteSets

CONSTANTS
    Servers,    \* MBeanServer MBeans: [host, vm, dom, domains (a sequence)]
    Delay,      \* NODE_REFRESH_DELAY, in clock ticks
    MaxTime,    \* last clock value explored
    NaN         \* parseInt of a missing ts attribute

ASSUME Delay \in Nat /\ MaxTime \in Nat

VARIABLES
    tree,   \* the jstree nodes in document order
    now,    \* new Date().getTime()
    up,     \* servers currently registered
    last    \* the last getNodeData call, as seen by the user

vars == <<tree, now, up, last>>

(* ATTR_DECODE and ATTR_CHILD_DECODE, lines 1-3; a missing entry reads as  *)
(* undefined, which string concatenation spells "undefined".               *)
ATTR_DECODE(type) ==
    CASE type = "HostId" -> "host"
      [] type = "VMId" -> "vm"
      [] type = "DefaultDomain" -> "domain"
      [] OTHER -> "undefined"

ATTR_CHILD_DECODE(rel) ==
    CASE rel = "Root" -> "HostId"
      [] rel = "HostId" -> "VMId"
      [] rel = "VMId" -> "DefaultDomain"
      [] rel = "DefaultDomain" -> "MBean"
      [] OTHER -> "undefined"

(* resp.value[type]: the attribute of an MBeanServer MBean.                *)
ServerAttr(s, type) ==
    CASE type = "HostId" -> s.host
      [] type = "VMId" -> s.vm
      [] type = "DefaultDomain" -> s.dom

Id(n) == <<n.type, n.key>>

(* The helios-root node jmxTreeWindow creates: rel Root, q "", no pop or   *)
(* ts attribute.                                                           *)
HeliosRoot ==
    [type |-> "Root", key |-> "helios-root", q |-> {}, pid |-> <<>>, depth |-> 0,
     pop |-> FALSE, ts |-> NaN, fetched |-> -1]

-----------------------------------------------------------------------------
(* $("#" + id): the first node in document order with that id.            *)
FirstWithId(t, id) == CHOOSE i \in DOMAIN t : Id(t[i]) = id /\ \A j \in 1..i-1 : Id(t[j]) # id

(* The positions of the subtree rooted at p.                               *)
Subtree(t, p) ==
    LET ends == {j \in p+1..Len(t) + 1 : j = Len(t) + 1 \/ t[j].depth <= t[p].depth}
        end  == CHOOSE j \in ends : \A k \in ends : j <= k
    IN p..end - 1

Children(t, p) == {j \in Subtree(t, p) : t[j].depth = t[p].depth + 1}

ChildKeys(t, p) == {t[j].key : j \in Children(t, p)}

(* jstree("remove", $('li[parent=' + e.id + ']')), line 101: every node    *)
(* whose parent attribute is id goes, with its subtree.                    *)
RemoveChildren(t, id) ==
    LET gone == UNION {Subtree(t, j) : j \in {i \in DOMAIN t : t[i].pid = id}}
    IN SelectSeq([i \in DOMAIN t |-> <<i \in gone, t[i]>>], LAMBDA e : ~e[1])

Unwrap(s) == [i \in DOMAIN s |-> s[i][2]]

(* jolokia.search(query): the servers matching every key=value pair of q;  *)
(* a pair on the attribute "undefined" matches nothing.                    *)
Matches(s, q) ==
    \A pr \in q : pr[1] # "undefined" /\ ServerAttr(s, CASE pr[1] = "host" -> "HostId"
                                                          [] pr[1] = "vm" -> "VMId"
                                                          [] pr[1] = "domain" -> "DefaultDomain") = pr[2]

(* Lines 102-116: the keys popServer is called with, in call order: one    *)
(* per MBean found (resp.value[ATTR_CHILD_DECODE[rel]]), or, under a       *)
(* DefaultDomain node, one per entry of each server's Domains.             *)
SearchKeys(n, srv) ==
    LET found == SetToSeq({s \in srv : Matches(s, n.q)})
    IN IF n.type = "DefaultDomain"
       THEN FoldLeft(LAMBDA acc, s : acc \o s.domains, <<>>, found)
       ELSE [i \in DOMAIN found |-> ServerAttr(found[i], ATTR_CHILD_DECODE(n.type))]

(* popServer(server, type, parent), lines 124-146: the child it creates    *)
(* under the parent node p.  $(id).length (line 130) selects elements by   *)
(* the tag name id, never finds one, and so never skips a key.             *)
PopServer(p, key) ==
    LET type == ATTR_CHILD_DECODE(p.type)
    IN [type |-> type, key |-> key, q |-> p.q \cup {<<ATTR_DECODE(type), key>>},
        pid |-> Id(p), depth |-> p.depth + 1, pop |-> FALSE, ts |-> 0, fetched |-> -1]

(* Mutant: || written && on line 100.                                       *)
StaleBoth(n, t) == ~n.pop /\ (n.ts # NaN /\ t - n.ts > Delay)

(* Line 100: re-query when never populated or when older than the delay.   *)
(* A ts of NaN makes the elapsed time NaN, and NaN > delay is false.       *)
Stale(n, t) == ~n.pop \/ (n.ts # NaN /\ t - n.ts > Delay)

(* Mutant: the children of the earlier answer are not removed (line 101    *)
(* missing).                                                               *)
RepopulateKeep(t, f, srv, time) ==
    LET n    == t[f]
        keys == SearchKeys(n, srv)
        kids == [i \in DOMAIN keys |-> PopServer(n, keys[i])]
        head == [n EXCEPT !.pop = IF keys # <<>> THEN TRUE ELSE @,
                          !.ts = IF keys # <<>> THEN time ELSE @,
                          !.fetched = time]
    IN SubSeq(t, 1, f - 1) \o <<head>> \o kids \o SubSeq(t, f + 1, Len(t))

(* Mutant: ts records the time the answer expires rather than its time.    *)
RepopulateExpiry(t, f, srv, time) ==
    LET n    == t[f]
        t1   == Unwrap(RemoveChildren(t, Id(n)))
        f1   == FirstWithId(t1, Id(n))
        keys == SearchKeys(n, srv)
        kids == [i \in DOMAIN keys |-> PopServer(t1[f1], keys[i])]
        head == [t1[f1] EXCEPT !.pop = IF keys # <<>> THEN TRUE ELSE @,
                               !.ts = IF keys # <<>> THEN time + Delay ELSE @,
                               !.fetched = time]
    IN SubSeq(t1, 1, f1 - 1) \o <<head>> \o kids \o SubSeq(t1, f1 + 1, Len(t1))

(* The whole re-population of lines 101-116 on the tree t, for the node at *)
(* position f: the old children go, the new ones are inserted as f's last *)
(* children, and f's ts and pop are set once a child is created (line     *)
(* 143); fetched is the time the children were built.                     *)
Repopulate(t, f, srv, time) ==
    LET n    == t[f]
        t1   == Unwrap(RemoveChildren(t, Id(n)))
        f1   == FirstWithId(t1, Id(n))
        keys == SearchKeys(n, srv)
        kids == [i \in DOMAIN keys |-> PopServer(t1[f1], keys[i])]
        head == [t1[f1] EXCEPT !.pop = IF keys # <<>> THEN TRUE ELSE @,
                               !.ts = IF keys # <<>> THEN time ELSE @,
                               !.fetched = time]
    IN SubSeq(t1, 1, f1 - 1) \o <<head>> \o kids \o SubSeq(t1, f1 + 1, Len(t1))

(* The position of the i-th node of t once Repopulate(t, f, ...) is done:  *)
(* the opened node itself is never removed, as no node lies under another *)
(* node with its own id.                                                   *)
Tracked(t, i, f, srv) ==
    LET gone == UNION {Subtree(t, j) : j \in {k \in DOMAIN t : t[k].pid = Id(t[f])}}
        i1   == i - Cardinality({j \in gone : j < i})
        f1   == f - Cardinality({j \in gone : j < f})
    IN IF i1 > f1 THEN i1 + Len(SearchKeys(t[f], srv)) ELSE i1

-----------------------------------------------------------------------------
Init ==
    /\ tree = <<HeliosRoot>>
    /\ now  = 0
    /\ up   = Servers
    /\ last = [done |-> FALSE, refreshed |-> FALSE, at |-> 0, fetched |-> -1,
               shown |-> {}, found |-> {}]

(* getNodeData(e), lines 81-119, for the node at position i: attributes    *)
(* are read from $('#' + e.id), the first node with e's id, and the        *)
(* children are created under it.                                          *)
getNodeData(i) ==
    LET f       == FirstWithId(tree, Id(tree[i]))
        refresh == Stale(tree[f], now)
        t2      == IF refresh THEN Repopulate(tree, f, up, now) ELSE tree
        i2      == IF refresh THEN Tracked(tree, i, f, up) ELSE i
    IN /\ tree' = t2
       /\ last' = [done |-> TRUE, refreshed |-> refresh, at |-> now,
                   fetched |-> t2[i2].fetched, shown |-> ChildKeys(t2, i2),
                   found |-> Range(SearchKeys(tree[f], up))]
       /\ UNCHANGED <<now, up>>

Open == \E i \in DOMAIN tree : getNodeData(i)

(* The clock advances.                                                     *)
Tick ==
    /\ now < MaxTime
    /\ now' = now + 1
    /\ UNCHANGED <<tree, up, last>>

(* A managed JVM registers or unregisters its MBeanServer.                 *)
ServerUp(s) ==
    /\ s \notin up
    /\ up' = up \cup {s}
    /\ UNCHANGED <<tree, now, last>>

ServerDown(s) ==
    /\ s \in up
    /\ up' = up \ {s}
    /\ UNCHANGED <<tree, now, last>>

Next ==
    \/ Open
    \/ Tick
    \/ \E s \in Servers : ServerUp(s) \/ ServerDown(s)

Spec == Init /\ [][Next]_vars

-----------------------------------------------------------------------------
TypeOK ==
    /\ \A i \in DOMAIN tree :
         /\ tree[i].pop \in BOOLEAN
         /\ tree[i].ts \in {NaN} \cup 0..MaxTime
         /\ tree[i].fetched \in -1..MaxTime
         /\ tree[i].depth \in 0..4
    /\ now \in 0..MaxTime
    /\ up \subseteq Servers

(* Opening a node that getNodeData does not re-query shows children that   *)
(* were fetched for that very node no longer than NODE_REFRESH_DELAY ago:  *)
(* the pop/ts cache of lines 90-100 never serves an expired or foreign     *)
(* answer.                                                                 *)
OpenShowsRecent ==
    last.done /\ ~last.refreshed => last.fetched # -1 /\ last.at - last.fetched <= Delay

(* Opening a node that getNodeData re-queries shows exactly the keys the   *)
(* search returned: the children of the earlier answer are gone (line 101) *)
(* and every key found is a child of the opened node.                      *)
RefreshExact ==
    last.done /\ last.refreshed => last.shown = last.found

=============================================================================
