----------------------------- MODULE MCService -----------------------------
(* Service for TLC: two forms with an origin each, the default one limited *)
(* to a single submission per period and the other unlimited; and a        *)
(* deployment with the second form alone.                                  *)
EXTENDS Service, TLC

CONSTANTS contact, careers, siteA, siteB

MCAllowed == (contact :> {siteA}) @@ (careers :> {siteB})
MCDeployments == {{contact, careers}, {careers}}
MCLimit == (contact :> 1) @@ (careers :> 0)
=============================================================================
