------------------------- MODULE MCWeaknetScenario -------------------------
(* Documents for WeaknetScenario: a step that recovers after a baseline    *)
(* longer than the margin, gemodel in rounds, and a plan the dry run       *)
(* refuses.                                                                *)
EXTENDS WeaknetScenario, TLC

Set(r, l, g) == [rtt |-> r, loss |-> l, ge |-> g, unknown |-> FALSE]
Doc(s, r, b, c) == [steps |-> s, repeat |-> r, baseline |-> b, clear |-> c]
At(t, s) == [at |-> t, set |-> s]
Rep(n, on, off, s) == [rounds |-> n, on |-> on, off |-> off, set |-> s]

Symmetry == Permutations(Runs)

CONSTANTS n1, n2

Recovering == Doc(<<At(10, Set(0, 0, FALSE))>>, None, 100, TRUE)
Cycling == Doc(<< >>, Rep(1, 5, 5, Set(None, 5, TRUE)), 0, FALSE)
Refused == Doc(<<At(0, Set(80, None, FALSE)), At(5, Set(None, None, TRUE))>>, None, 0, TRUE)

Launch(d, n, c, k) == [doc |-> d, name |-> n, cli |-> c, keep |-> k]
MCLaunches == {Launch(Recovering, n1, FALSE, FALSE), Launch(Cycling, n2, TRUE, TRUE),
               Launch(Refused, n1, FALSE, FALSE)}
=============================================================================
