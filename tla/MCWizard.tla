------------------------------ MODULE MCWizard ------------------------------
(* A fresh machine with an RGB camera, one that is set up for the login user *)
(* and has an IR camera, and one that cannot run LinuxHello.                 *)
EXTENDS Wizard

Machine(ready, ir, probe) ==
    [installed |-> ready, daemon |-> ready, models |-> ready, ir |-> ir, probe |-> probe]

MachinesMC == {Machine(FALSE, FALSE, "ok"), Machine(TRUE, TRUE, "ok"), Machine(FALSE, TRUE, "fail")}
=============================================================================
