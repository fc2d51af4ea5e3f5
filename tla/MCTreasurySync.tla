--------------------------- MODULE MCTreasurySync ---------------------------
(* Model-checking instance of TreasurySync: one reserve token and one or   *)
(* two spot tokens, a few blocks after the deployment, small amounts.      *)
EXTENDS TreasurySync

CONSTANTS USDC, WETH, WBTC

\* One spot token: the liveness and lagging-node runs.
MCSpot == {WETH}

\* Two spot tokens: an in-kind redemption pays out several holders in
\* Enzyme's asset order, and a later holder can make it raise after the
\* earlier ones were debited.
MCSpotPair == {WETH, WBTC}
=============================================================================
