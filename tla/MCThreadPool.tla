---------------------------- MODULE MCThreadPool ----------------------------
(* Model checking of ThreadPool: two workers; the owner schedules a and b, *)
(* and a schedules c when it runs.                                         *)
EXTENDS ThreadPool

MCTasks == {"a", "b", "c"}
MCRoots == <<"a", "b">>
MCChildren == [x \in MCTasks |-> IF x = "a" THEN <<"c">> ELSE <<>>]

=============================================================================
