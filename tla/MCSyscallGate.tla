--------------------------- MODULE MCSyscallGate ---------------------------
(* The situations of SyscallGate that TLC considers: every kind of call    *)
(* that changes a task, with a child that may be killed; plain calls and   *)
(* threads, any of which may be killed or lose its executor while controls *)
(* contend; and a fork with all narrow races open.                         *)
EXTENDS SyscallGate

CONSTANTS r0, k0

Setting(calls, most, killed, lost, busy, races) ==
    [kinds |-> calls, calls |-> most, mortal |-> killed, fragile |-> lost,
     contended |-> busy, windows |-> races]

MCSettings ==
    {Setting({"fork", "vfork", "thread", "exec", "exit"}, 1, {k0}, {}, FALSE, {}),
     Setting({"plain", "thread", "exit"}, 1, {r0, k0}, {r0, k0}, TRUE, {}),
     Setting({"fork", "exit"}, 1, {k0}, {}, FALSE,
             {"commit", "birth", "pages", "drain", "teardown", "patience", "strand"})}
=============================================================================
