------------------------- MODULE MCMemoryProjection -------------------------
(* Model-checking instance of MemoryProjection.  See README.md for the bounds. *)
EXTENDS MemoryProjection

MCSize == [n \in Notes |-> IF n = "n2" THEN 2 ELSE 1]
MCLimit == [memory |-> 2, user |-> 1]

Scene(processes, w, m, h, f, c, l) ==
    [processes |-> processes, bounds |-> [writes |-> w, manual |-> m, hermes |-> h,
                                          faults |-> f, crashes |-> c, lapses |-> l]]

MCScenarios == {Scene({1}, 2, 0, 1, 1, 1, 1),      \* one process that fails
                Scene({1}, 1, 2, 3, 0, 0, 0),      \* Hermes edits its memory
                Scene({1, 2}, 2, 0, 1, 0, 0, 1)}   \* two replicas
MCQuietScenario == {Scene({1}, 3, 0, 1, 0, 0, 0)}
==============================================================================
