----------------------------- MODULE MCAlertFeed ------------------------------
(* AlertFeed without a bound on frames: three sensors with three names, two    *)
(* that share one, or one for all; an event log of two entries.                *)
EXTENDS AlertFeed

MCConfigs == {<<"a", "b", "c">>, <<"a", "b", "a">>, <<"a", "a", "a">>}
==============================================================================
