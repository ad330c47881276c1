---------------------------- MODULE MCBackendAccess ----------------------------
(* Small instances of BackendAccess for TLC. *)
EXTENDS BackendAccess, TLC

CONSTANTS ann, bob, turn1, turn2, turn3, read1, gold, forged, anonymous, token

MCOwner == [r \in Request |-> IF r = turn3 THEN bob ELSE ann]
MCGranted == gold :> token
MCLimit == anonymous :> 1 @@ token :> Unlimited
MCCap == anonymous :> Unlimited @@ token :> Unlimited
=============================================================================
