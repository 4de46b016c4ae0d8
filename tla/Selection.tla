----------------------------- MODULE Selection -----------------------------
(***************************************************************************)
(* Which radio start_monitor takes: is_monitor_plausible, monitor_score and *)
(* rank_candidates (src/interface.rs).  A radio is a record of what the    *)
(* selection reads of an InterfaceInfo.                                    *)
(***************************************************************************)
EXTENDS Integers, FiniteSets

Buses == {"usb", "pci", "other"}

Interface == [index      : Nat,
              driver     : BOOLEAN,   \* is_known_monitor_driver of its driver
              bus        : Buses,
              advertises : BOOLEAN,   \* supports_monitor
              associated : BOOLEAN,   \* an SSID is known: is_associated
              fiveGhz    : BOOLEAN,   \* has a 5 GHz band
              monitor    : BOOLEAN]   \* is_monitor

KnownDriver == 40
UsbBus == 30
AdvertisesMonitor == 20
OtherBus == 5
DualBand == 2
AssociatedPenalty == -100

Plausible(i) == i.advertises \/ i.driver

Points(condition, points) == IF condition THEN points ELSE 0

BusPoints(bus) == Points(bus = "usb", UsbBus) + Points(bus = "other", OtherBus)

(* A slip: the penalty is worth as much as a good driver. *)
MildScore(i) ==
      Points(i.driver, KnownDriver) + BusPoints(i.bus)
    + Points(i.advertises, AdvertisesMonitor) - Points(i.associated, KnownDriver)
    + Points(i.fiveGhz, DualBand)

Score(i) ==
      Points(i.driver, KnownDriver)
    + BusPoints(i.bus)
    + Points(i.advertises, AdvertisesMonitor)
    + Points(i.associated, AssociatedPenalty)
    + Points(i.fiveGhz, DualBand)

(* A slip: equal scores are left in the order of detection. *)
AheadByScore(a, b) == Score(a) > Score(b)

(* rank: a is tried before b.  Equal scores fall to the lower index.       *)
Ahead(a, b) == \/ Score(a) > Score(b)
               \/ Score(a) = Score(b) /\ a.index < b.index

(* A slip: the radios in monitor mode are ranked with the others. *)
AllPlausible(S) == {i \in S : Plausible(i)}

(* rank_candidates: the candidates, each to be tried once those Ahead of it *)
(* have refused; or the error.                                             *)
Idle(S) == {i \in S : Plausible(i) /\ ~i.monitor}

Verdict(S) ==
    IF S = {} THEN "NoInterfaces"
    ELSE IF \A i \in S : ~Plausible(i) THEN "NoMonitorCapable"
    ELSE IF Idle(S) = {} THEN "AlreadyMonitor"
    ELSE "ranked"

First(S) == CHOOSE i \in Idle(S) : \A j \in Idle(S) \ {i} : Ahead(i, j)

---------------------------------------------------------------------------
(* A set of detected interfaces has one record per index.                  *)
Detected(S) == /\ S \subseteq Interface
               /\ \A i, j \in S : i.index = j.index => i = j

(* The host's uplink comes last: no associated radio is tried while one    *)
(* that is not associated, whatever it scores, is left.                    *)
UplinkLast(S) ==
    \A i, j \in Idle(S) : i.associated /\ ~j.associated => Ahead(j, i)

(* The order is one sort_by can work with and that detection order cannot  *)
(* change: irreflexive, transitive, and total on distinct indexes.         *)
StrictTotalOrder(S) ==
    /\ \A i \in S : ~Ahead(i, i)
    /\ \A i, j \in S : i # j => Ahead(i, j) \/ Ahead(j, i)
    /\ \A i, j, k \in S : Ahead(i, j) /\ Ahead(j, k) => Ahead(i, k)

(* Another tool's capture is never taken, and it blocks nothing but itself: *)
(* AlreadyMonitor is the answer when every plausible radio is busy.        *)
BusyNeverTaken(S) ==
    /\ Verdict(S) = "ranked" => ~First(S).monitor /\ Plausible(First(S))
    /\ Verdict(S) = "AlreadyMonitor" <=>
         /\ \E i \in S : Plausible(i)
         /\ \A i \in S : Plausible(i) => i.monitor
=============================================================================
