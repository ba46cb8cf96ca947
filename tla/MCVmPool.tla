------------------------------ MODULE MCVmPool ------------------------------
(* VmPool with the six requests and the totals of vm.c. *)
EXTENDS VmPool, TLC

MCTotal == 0 :> 8 @@ 1 :> 16 @@ 2 :> 500

Vm(core, ram, disk) == 0 :> core @@ 1 :> ram @@ 2 :> disk

MCjobTable == << Vm(4, 5, 125), Vm(6, 5, 125), Vm(2, 2, 500),
                 Vm(4, 5, 300), Vm(2, 8, 125), Vm(2, 8, 300) >>
=============================================================================
