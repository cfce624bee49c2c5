------------------------------ MODULE MCKeeper ------------------------------
(***************************************************************************)
(* Instances of Keeper for TLC.  The round is [100, 200), void_time = 260  *)
(* and closable_after = 3800.                                              *)
(***************************************************************************)
EXTENDS Keeper, TLC

\* A tick on each boundary and inside each window.
MCFeed == 100 :> {2} @@ 150 :> {1} @@ 200 :> {2} @@ 230 :> {1} @@ 260 :> {2}

\* For liveness: one tick per window.
MCLiveFeed == 100 :> {1} @@ 200 :> {1} @@ 260 :> {2}

\* Block time 0 is before every boundary, 3800 the last that must not close.
MCHeaderTimes == {3800, 3801}
MCLiveHeaderTimes == {3801}

MCConfigs ==
  {[variant |-> "XUDT", start_time |-> 100, close_time |-> 200, rake_bps |-> 1000]}
=============================================================================
