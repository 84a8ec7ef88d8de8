------------------------------ MODULE MCHalProxy ------------------------------
(* Small instances of HalProxy for TLC. *)
EXTENDS HalProxyChannel

SmallBatches == {<<"plain">>, <<"wake", "wake">>}
MixedBatches == SmallBatches \cup {<<"putdown">>}
\* A batch may lose events to the pick-up filter.
PickUpBatches == {<<"wake", "wake">>, <<"putdown">>, <<"putdown", "plain">>}
=============================================================================
