--------------------------- MODULE MCTerminalSeed ---------------------------
(* Constants of TerminalSeed for TLC.                                       *)
EXTENDS TerminalSeed, TLC
CONSTANTS s1, s2, p1, p2, p3

\* One session with one pane, one with two, and both.
OneSession == {s1}
TwoSessions == {s1, s2}
OnePane == {p1}
TwoPanes == {p1, p2}
ThreePanes == {p1, p2, p3}
PaneSessions == [p \in {p1, p2, p3} |-> IF p = p3 THEN s2 ELSE s1]
OnePaneSession == [p \in OnePane |-> s1]
TwoPaneSessions == [p \in TwoPanes |-> s1]
=============================================================================
