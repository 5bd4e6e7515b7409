------------------------------- MODULE DevflowMC -------------------------------
(* Instances of Devflow: a mutable primary stage, a mutable test stage and *)
(* a verification stage that needs approval, in the order of the           *)
(* production plan (developer, sdet, lead).                                *)
EXTENDS Devflow

ShortPlan  == <<"mutable_primary", "mutable_test", "verify_only">>
PairPlan   == <<"mutable_primary", "verify_only">>
===============================================================================
