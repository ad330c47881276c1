---------------------------- MODULE MCGuideSession ----------------------------
(* Small instances of GuideSession for TLC. *)
EXTENDS GuideSession, TLC

CONSTANTS start, address, scroll, close, cheap, dear

MCCost == cheap :> 1 @@ dear :> 5
=============================================================================
