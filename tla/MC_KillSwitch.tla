---------------------------- MODULE MC_KillSwitch ----------------------------
(* Two operators of one gate. *)
EXTENDS KillSwitch, TLC

Limits == [positionPct |-> 60, grossPct |-> 90, dailyPct |-> 10, rollingPct |-> 20,
           window |-> 2, maxAge |-> 0, maxSkew |-> 0]
OneConfig == {Limits}

Heard(answered, terminal, disabled) ==
  [answered |-> answered, ordersTerminal |-> terminal, disabled |-> disabled]

\* A clear answer, and one that an order is still working.
ClearOrNot == {Heard(TRUE, TRUE, "yes"), Heard(TRUE, FALSE, "yes")}

AnyOperator == Permutations(Procs)
=============================================================================
