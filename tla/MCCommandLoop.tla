--------------------------- MODULE MCCommandLoop ----------------------------
(* Small instances of CommandLoop for TLC.                                  *)
EXTENDS CommandLoop, TLC

CONSTANTS w1, w2, t1, t2

\* Two workers; the agent of w2 runs in override mode, without a token.
MCTwoRows == w1 :> t1 @@ w2 :> t2
MCOverrideAgent == w1 :> t1 @@ w2 :> NoToken

\* One worker whose agent has the token of its row.
MCOneRow == w1 :> t1
MCOneOverride == w1 :> NoToken
=============================================================================
