\* One getDataBind call with any binding name: does the result carry every
\* attribute of the defaults?
CONSTANTS
    helios_ui = helios_ui
    jstree_tree = jstree_tree
    jstree_root = jstree_root
    jstree_host = jstree_host
    jstree_vm = jstree_vm
    jstree_domain = jstree_domain
    jstree_subdomain = jstree_subdomain
    jstree_mbean = jstree_mbean
    jstree_attr = jstree_attr
    jstree_subattr = jstree_subattr
    nobind = nobind
    key_d = key_d
    key_p = key_p
    key_ts = key_ts
    key_bind_attr = key_bind_attr
    key_types = key_types
    key_bindop = key_bindop
    key_type = key_type
    key_mbean = key_mbean
    key_operation = key_operation
    key_arguments = key_arguments
    key_target = key_target
    key_url = key_url
    key_path = key_path
    jfalse = jfalse
    jzero = jzero
    str = str
    Names <- MCNames
    EmptyName = EmptyName
    LeafVals <- MCLeafVals
    NULL = NULL
    UNDEF = UNDEF
    MaxIdx = 3
    Table <- DataBindings
    DefaultKey = helios_ui
    BindNames <- MCBindNames
    MaxCalls = 1
SPECIFICATION Spec
INVARIANT BindKeepsDefaults
CHECK_DEADLOCK FALSE
