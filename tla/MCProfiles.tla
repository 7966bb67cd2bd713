----------------------------- MODULE MCProfiles -----------------------------
(* Constants of Profiles for TLC: two profiles of one passkey realm, one of  *)
(* a realm with tokens only, and a lone server.                              *)
EXTENDS Profiles, TLC
CONSTANTS c1, c2, work, mail, news, alone, q1, q2

TwoConns == {c1, c2}
AllProfiles == {work, mail, news, alone}
ProfileRealms == (work :> "own") @@ (mail :> "own") @@ (news :> "open") @@ (alone :> "lone")
TwoPasskeyRealms == {"own", "lone"}
TwoPrincipals == {q1, q2}
RealmPrincipals == [r \in {"own", "open", "lone"} |->
                       IF r = "own" THEN {q1, q2} ELSE {q1}]
=============================================================================
