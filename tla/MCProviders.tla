---------------------------- MODULE MCProviders ----------------------------
(* Constants of Providers for TLC: two sessions of one provider and one of  *)
(* the other, three processes, two texts drawn alike and one unlike them.   *)
EXTENDS Providers, TLC
CONSTANTS sa, sb, sx, h1, h2, t1, t2, t3, p1, p2, p3

TwoClaude == {sa, sb}
OneCodex == {sx}
TwoHooks == {h1, h2}
TwoTexts == {t1, t2}
AllTexts == TwoTexts \cup {t3}
L(kind, text) == [kind |-> kind, text |-> text, unsupported |-> FALSE]
Talked == {[s \in {sa, sb, sx} |-> IF s = sx THEN <<L("meta", t1), L("assistant", t1)>>
                               ELSE <<L("assistant", IF s = sa THEN t1 ELSE t3)>>]}
Answers == {L("assistant", t2), L("bad", t1)}

Shell == [proc |-> [p \in {p1, p2, p3} |-> None], registry |-> [p \in {p1, p2, p3} |-> None],
          fg |-> None, alternate |-> FALSE]
Runs(kind, s) == [start |-> 0, kind |-> kind, session |-> s]
ClaudeRuns == [Shell EXCEPT !.proc[p1] = Runs("cli", sa), !.fg = p1, !.alternate = TRUE,
                            !.registry[p1] = [session |-> sa, start |-> 0]]
CodexRuns == [Shell EXCEPT !.proc[p1] = Runs("cli", sx), !.fg = p1]
AgentsRun == [Shell EXCEPT !.proc = (p1 :> Runs("viewer", None)) @@ (p2 :> Runs("worker", sa))
                                    @@ (p3 :> Runs("worker", sb)),
                           !.fg = p1, !.alternate = TRUE]
AllScenes == {ClaudeRuns, CodexRuns, AgentsRun}
Alikes == Permutations({p1, p2, p3}) \cup Permutations({h1, h2})
=============================================================================
