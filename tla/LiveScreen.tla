----------------------------- MODULE LiveScreen -----------------------------
(***************************************************************************)
(* What a user of the browser terminal is promised, whatever the reseed    *)
(* protocol of TerminalSeed does to keep it: while the screen is live it   *)
(* grows by the next byte of the pane and by nothing else.  It may be      *)
(* replaced, wholly, only while it is not live, and it never changes in    *)
(* the step that makes it live or takes that away.                         *)
(***************************************************************************)
EXTENDS Naturals

VARIABLES
    live,    \* the screen has authority over an exact seed
    shown    \* how many bytes of the pane it shows

Init == live = FALSE /\ shown = 0

Grow == live /\ live' /\ shown' = shown + 1
Replace == ~live /\ ~live' /\ shown' \in Nat
GoLive == ~live /\ live' /\ shown' = shown
Lose == live /\ ~live' /\ shown' = shown

Next == Grow \/ Replace \/ GoLive \/ Lose
Spec == Init /\ [][Next]_<<live, shown>>
=============================================================================
