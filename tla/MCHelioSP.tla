----------------------------- MODULE MCHelioSP ------------------------------
(* Constants of HelioSP for TLC: two of the HELIOS_TYPES type names, one   *)
(* name a caller makes up (both under mapping and mappings), one value.    *)
EXTENDS HelioSP

CONSTANTS ty_root, ty_host, usr_name, val_one, pat_one

MCTypeNames == {ty_root, ty_host}
MCUserNames == {ty_host, usr_name}
MCVals      == {val_one}
MCPatterns  == {pat_one}

=============================================================================
