----------------------------- MODULE MCDataBind -----------------------------
(***************************************************************************)
(* The dataBindings literal of heliosjs/helios-types.js (lines 68-176) as  *)
(* a document, for DataBind.  Binding names and property names are model   *)
(* values: jstree_host stands for "helios-ui-jstree-host", key_bind_attr   *)
(* for "bind-attr", and nobind is a name with no binding.  Leaves: jfalse  *)
(* for false, jzero for 0, str for every string literal ("" included: no   *)
(* code on this path tells strings apart, and "" == null is false).        *)
(***************************************************************************)
EXTENDS DataBind

CONSTANTS
    helios_ui, jstree_tree, jstree_root, jstree_host, jstree_vm, jstree_domain,
    jstree_subdomain, jstree_mbean, jstree_attr, jstree_subattr, nobind,
    key_d, key_p, key_ts, key_bind_attr, key_types, key_bindop, key_type, key_mbean, key_operation, key_arguments,
    key_target, key_url, key_path,
    jfalse, jzero, str

MCNames == {helios_ui, jstree_tree, jstree_root, jstree_host, jstree_vm,
            jstree_domain, jstree_subdomain, jstree_mbean, jstree_attr,
            jstree_subattr, nobind, key_d, key_p, key_ts, key_bind_attr, key_types, key_bindop, key_type,
            key_mbean, key_operation, key_arguments, key_target, key_url, key_path}

MCLeafVals == {jfalse, jzero, str}

Obj(ks, vs) == Composite(FALSE, ks, vs)
Arr(vs)     == Composite(TRUE, [i \in DOMAIN vs |-> i - 1], vs)
Strs(n)     == Arr([i \in 1..n |-> str])

Target == Obj(<<key_url>>, <<str>>)

(* "arguments": [X, "", [modifiers]] with n modifiers.                     *)
Args(n) == Arr(<<str, str, Strs(n)>>)

ExecOp(n)   == Obj(<<key_type, key_mbean, key_operation, key_arguments>>, <<str, str, str, Args(n)>>)
ExecOpAt(n) == Obj(<<key_type, key_mbean, key_operation, key_arguments, key_target>>,
                   <<str, str, str, Args(n), Target>>)
SearchOp    == Obj(<<key_type, key_mbean, key_target>>, <<str, str, Target>>)
ListOp      == Obj(<<key_type, key_path, key_target>>, <<str, str, Target>>)

Binding(nattr, op) == Obj(<<key_types, key_bind_attr, key_bindop>>, <<Strs(1), Strs(nattr), op>>)

DataBindings ==
    Obj(<<helios_ui, jstree_tree, jstree_root, jstree_host, jstree_vm,
          jstree_domain, jstree_subdomain, jstree_mbean, jstree_attr, jstree_subattr>>,
        <<Obj(<<key_d, key_p, key_ts, key_bind_attr>>, <<jfalse, jfalse, jzero, Strs(0)>>),
          Obj(<<key_types>>, <<Strs(1)>>),
          Obj(<<key_types, key_bindop>>, <<Strs(1), ExecOp(0)>>),
          Binding(1, ExecOp(1)),
          Binding(3, ExecOp(2)),
          Binding(4, ExecOpAt(3)),
          Binding(2, SearchOp),
          Binding(2, ListOp),
          Binding(3, ListOp),
          Binding(4, ListOp)>>)

MCBindNames == {helios_ui, jstree_tree, jstree_root, jstree_host, jstree_vm,
                jstree_domain, jstree_subdomain, jstree_mbean, jstree_attr,
                jstree_subattr, nobind}
=============================================================================
