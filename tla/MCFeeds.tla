------------------------------ MODULE MCFeeds -------------------------------
(***************************************************************************)
(* Feeds for TLC: three posts in a feed of two, a scraper started twice, a *)
(* response that lacks some posts or all; two lines, and two conditions    *)
(* with as many cars.                                                      *)
(***************************************************************************)
EXTENDS Feeds

CONSTANTS green, blue

TwoLines == <<green, blue>>

TwoConditions == {[TrainCars |-> 6, TrainFrequency |-> f] : f \in {300, 450}}
=============================================================================
