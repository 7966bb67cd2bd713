----------------------------- MODULE MCComposer -----------------------------
(* Constants of Composer for TLC: two connections, a text and a longer one   *)
(* that starts with it.                                                     *)
EXTENDS Composer, TLC
CONSTANTS c1, c2, r1, r2

TwoConns == {c1, c2}
TwoRequests == {r1, r2}
DraftTexts == {<<"a">>, <<"a", "b">>}
RequestTexts == [r \in {r1, r2} |-> IF r = r1 THEN <<"a">> ELSE <<"a", "b">>]
=============================================================================
