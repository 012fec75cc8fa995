----------------------------- MODULE MCGuestRun -----------------------------
(* Small programs for GuestRun, and what happens to each while it runs.    *)
EXTENDS GuestRun

Runs(program, vmx, quantum, deadline, signals, kills, deaths, punches) ==
    [program |-> program, vmx |-> vmx, quantum |-> quantum, deadline |-> deadline,
     signals |-> signals, kills |-> kills, deaths |-> deaths, punches |-> punches]

(* calls, with signals, a kill, a death and deadlines; pages whose mapping *)
(* a sibling removes; exceptions of the VMX backend under checkpoints; one *)
(* of everything; and a value that looks like a restart code.              *)
MCSettings ==
    { Runs(<<"sys", "mov", "sys", "exit">>, FALSE, FALSE, TRUE, 2, 1, 1, 0),
      Runs(<<"data", "fresh", "wild", "exit">>, FALSE, FALSE, TRUE, 0, 1, 0, 2),
      Runs(<<"sys", "int3", "xsetbv", "exit">>, TRUE, TRUE, TRUE, 0, 1, 1, 0),
      Runs(<<"data", "sys", "mov", "ud", "cpuid", "exit">>, FALSE, TRUE, FALSE, 1, 1, 1, 1),
      Runs(<<"sys", "neg", "ud", "exit">>, FALSE, FALSE, TRUE, 1, 0, 0, 0) }

=============================================================================
