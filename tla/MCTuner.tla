------------------------------ MODULE MCTuner ------------------------------
(* Instances of Tuner for TLC. *)
EXTENDS Tuner, TLC

CONSTANTS t1, t2

(* A 6E adapter: channel 1 in two bands, 37 at 6 GHz only, where the        *)
(* regulatory domain may rule it out, and a frequency between two channels. *)
SixE == {[kind |-> "2.4", mhz |-> 2412], [kind |-> "2.4", mhz |-> 2414],
         [kind |-> "6", mhz |-> 5955], [kind |-> "6", mhz |-> 6135]}

(* Its bands are where radios have them.                                   *)
ASSUME SixEAllotted == Allotted
=============================================================================
