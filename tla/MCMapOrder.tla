----------------------------- MODULE MCMapOrder -----------------------------
(* Two threads of one program and the kinds of call they make at the same    *)
(* time: mappings, rights, contents, moves and forks.                        *)
EXTENDS MapOrder

CONSTANTS A, B

Setting(loaded, rights, calls, used, most) ==
  [mapped |-> loaded, prots |-> rights, kinds |-> calls, calls |-> 2,
   touched |-> used, batch |-> most, races |-> {}]

MCSettings ==
  {Setting({2}, {2}, {"mmap", "shmat", "munmap", "other"}, {}, 2),
   Setting({2}, {1, 2}, {"mmap", "munmap", "mprotect", "guard", "other"}, {1}, 2),
   Setting({2}, {2}, {"mmap", "munmap", "discard", "guard"}, {2}, 1),
   Setting({1}, {2}, {"mmap", "munmap", "mremap"}, {1}, 2),
   Setting({2}, {1, 2}, {"shmat", "munmap", "mprotect", "fork"}, {}, 2)}
=============================================================================
