-------------------------- MODULE MCScenarioBatch --------------------------
(* Three cases, one of each kind, so that an AEB case can start cold in the  *)
(* middle of the batch and hand its hero, its seed and its view on.         *)
EXTENDS ScenarioBatch

AebFollowAeb == <<"aeb", "follow", "aeb">>
LateralAeb == <<"lateral", "aeb">>
=============================================================================
