---------------------------- MODULE MCServiceHost ----------------------------
(* Small instances of ServiceHost for TLC. *)
EXTENDS ServiceHost, TLC

CONSTANTS guide, avatar, init1, init2, ask, poke, wave

(* guide declares required slices and an initializer, avatar slices only. *)
MCTarget == [m \in {init1, init2, ask, poke} |-> guide] @@ (wave :> avatar)
MCTarget1 == [m \in {init1, init2, ask, poke} |-> guide]
=============================================================================
