---------------------------- MODULE MCHeliosTree ----------------------------
(***************************************************************************)
(* Instances of HeliosTree for TLC: two MBeanServers, a refresh delay of  *)
(* one tick and a clock that runs to 2, so that a node can be opened      *)
(* fresh, at the delay, and past it, with servers registering and         *)
(* unregistering in between.                                               *)
(***************************************************************************)
EXTENDS HeliosTree, TLC

(* Every key differs: host, VM, default domain and MBean domain names are *)
(* unique across the two servers.                                          *)
UniqueServers ==
    {[host |-> "h1", vm |-> "vm1", dom |-> "d1", domains |-> <<"x1">>],
     [host |-> "h2", vm |-> "vm2", dom |-> "d2", domains |-> <<"x2">>]}

(* Two JVMs on two hosts, each with the platform MBeanServer's default     *)
(* domain "DefaultDomain" and the domain "java.lang", as every JVM has.    *)
PlatformServers ==
    {[host |-> "h1", vm |-> "vm1", dom |-> "DefaultDomain", domains |-> <<"java.lang">>],
     [host |-> "h2", vm |-> "vm2", dom |-> "DefaultDomain", domains |-> <<"java.lang">>]}
=============================================================================
