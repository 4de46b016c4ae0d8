----------------------------- MODULE MCPrograms -----------------------------
(* Instances of Programs for TLC. *)
EXTENDS Programs, TLC

CONSTANTS r1, r2, wlan0, wlan1, mon0, p1, p2, absent0, rfmoncheck0

OneRadio == {r1}
TwoRadios == {r1, r2}
OneHome == r1 :> wlan0
TwoHomes == r1 :> wlan0 @@ r2 :> wlan1
OneRank == r1 :> 1
TwoRanks == r1 :> 1 @@ r2 :> 2

AnyHost == SUBSET Services
SomeHosts == {{"nm"}, {"wpa"}, Services}
FullyHeld == {[nm |-> TRUE, wpa |-> "own"]}

(* Radios that offer the suite everything, or next to nothing.             *)
FullHardware == {Traits}
AnyHardware == {Traits, {}}
=============================================================================
