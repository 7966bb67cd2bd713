----------------------------- MODULE MCSessions -----------------------------
(* Constants of Sessions for TLC: two tenants with a connection each.        *)
EXTENDS Sessions, TLC
CONSTANTS c1, c2, u1, u2

TwoConns == {c1, c2}
TwoUsers == {u1, u2}
ConnUser == (c1 :> u1) @@ (c2 :> u2)
TwoNumbers == {1, 2}
WheelUp == {2}

\* As with "1" and "10", and with the users a and a__1: mt_a__1 begins what the
\* sessions of a__1 are called.
BeginsWith ==
    [n \in Names |-> IF n = <<None, 1>> THEN {<<None, 2>>}
                     ELSE IF n = <<u1, 1>> THEN {<<u2, 1>>, <<u2, 2>>} ELSE {}]
\* A third name to type, of which tmux keeps the second: it has a '.', where the
\* second has a '_'.
Dotted == <<u2, 2>>
TypedNames == {<<None, 1>>, <<None, 2>>, Dotted}
KeptAs == [n \in Names |-> IF n = Dotted THEN <<None, 2>> ELSE n]
\* A name with a '.' is also one for a pane.
WindowNames == {Dotted}
=============================================================================
