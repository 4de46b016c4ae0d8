----------------------------- MODULE MCSession -----------------------------
(* Instances of MonitorSession for TLC. *)
EXTENDS SessionClaims, TLC

CONSTANTS r1, r2, wlan0, wlan1, mon0, p1, p2

OneRadio == {r1}
TwoRadios == {r1, r2}
OneHome == r1 :> wlan0
TwoHomes == r1 :> wlan0 @@ r2 :> wlan1
OneRank == r1 :> 1
TwoRanks == r1 :> 1 @@ r2 :> 2

(* Hosts: with neither service, with one of them, with both. *)
AnyHost == SUBSET Services
FullHost == {Services}
NmHost == {{"nm"}}

(* Radios both services hold, wpa_supplicant on its own account. *)
FullyHeld == {[nm |-> TRUE, wpa |-> "own"]}
AnyCustody == Custody

(* A radio wpa_supplicant has from NetworkManager, and one that neither     *)
(* service was meant to have.                                              *)
NmsOwn == {[nm |-> TRUE, wpa |-> "nm"]}
Excluded == {[nm |-> FALSE, wpa |-> "out"]}

Symmetry == Permutations(Procs)
=============================================================================
