------------------------------- MODULE MCPool -------------------------------
(***************************************************************************)
(* Instances of Pool for TLC.  The round is [100, 200): its duration gives *)
(* grace = 60 (the clamp), void_time = 260 and closable_after = 3800.      *)
(***************************************************************************)
EXTENDS Pool, TLC

Round(variant, rake_bps) ==
  [variant |-> variant, start_time |-> 100, close_time |-> 200, rake_bps |-> rake_bps]

\* Ticks before the round, on both boundaries, inside each window and after
\* it; prices that make each side win and tie, two prices in one second.
MCFeed == 90 :> {1} @@ 100 :> {2} @@ 150 :> {1, 3} @@ 200 :> {2} @@ 230 :> {3} @@ 260 :> {2}

MCHeaderTimes == {3800, 3801}

\* One configuration per asset, one of them without a rake, and two that
\* CREATE must reject.  The last xUDT round's activation window [110, 140) has
\* no tick at all, so that only the missed-activation arm can end it.
MCConfigs == {Round("CKB", 5000), Round("XUDT", 0), Round("CKB", 20000),
              [Round("XUDT", 1000) EXCEPT !.start_time = 200],
              [Round("XUDT", 1000) EXCEPT !.start_time = 110, !.close_time = 140]}

\* For the claims of the documents: a xUDT round with a rake of a tenth.
MCClaimConfigs == {Round("XUDT", 1000)}
=============================================================================
