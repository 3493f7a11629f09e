---------------------------- MODULE MCBatchCases ----------------------------
EXTENDS BatchCases, TLC

CONSTANTS c1, c2, k1, k2, g1, g2

\* The second key fits both GPUs, the first only one of them.
MCFits == {<<k1, g1>>, <<k2, g1>>, <<k2, g2>>}

\* One command with two cases, or two commands with a case of their own or the same one.
MCRequests == {(c1 :> {k1, k2} @@ c2 :> {}), (c1 :> {k1} @@ c2 :> {k2}), (c1 :> {k2} @@ c2 :> {k2})}
\* One command alone.
MCAlone == {(c1 :> {k1, k2})}
=============================================================================
