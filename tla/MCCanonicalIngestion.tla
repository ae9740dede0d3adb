------------------------ MODULE MCCanonicalIngestion ------------------------
(* Small instances of CanonicalIngestion for TLC.                          *)
EXTENDS CanonicalIngestion, TLC

CONSTANTS a1, a2, b1, ca, cb, dice, linkedin

\* Two listings of one provider under different URLs, with enough evidence to be
\* one opening.
OneProvider == (a1 :> dice) @@ (a2 :> dice)
TwoUrls == (a1 :> 1) @@ (a2 :> 2)
OneOpening == (a1 :> 1) @@ (a2 :> 1)

\* The first of them is also listed by another provider, the second is a
\* different opening.
TwoProviders == (a1 :> dice) @@ (a2 :> dice) @@ (b1 :> linkedin)
ThreeUrls == (a1 :> 1) @@ (a2 :> 2) @@ (b1 :> 3)
TwoOpenings == (a1 :> 1) @@ (a2 :> 2) @@ (b1 :> 1)
=============================================================================
