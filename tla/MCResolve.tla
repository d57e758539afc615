----------------------------- MODULE MCResolve -----------------------------
(* Instances of Resolve for TLC. *)
EXTENDS ResolveInv, TLC

CONSTANTS l1, l2, c1, w1, w2

OneClient == (l1 :> c1) @@ (l2 :> c1)

Setting(ws, ts, ls) == [workers |-> ws, types |-> ts, impatient |-> ls]

\* The default, one worker that asks for both types; two workers with one type
\* disabled; and one worker and one type, with requests that are cancelled.
MCSettings == {Setting({w1}, <<"A", "AAAA">>, {}),
               Setting({w1, w2}, <<"A">>, {}),
               Setting({w1}, <<"A">>, {l1, l2})}

LookupSymmetry == Permutations({l1, l2})
=============================================================================
