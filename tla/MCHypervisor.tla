---------------------------- MODULE MCHypervisor ----------------------------
(* Hypervisor with two hosts.                                                *)
EXTENDS Hypervisor

=============================================================================
