---------------------------- MODULE MCSelection ----------------------------
(* Every host with up to MaxRadios radios of the given kinds: a behaviour   *)
(* plugs them in one at a time.                                            *)
EXTENDS Selection

CONSTANT MaxRadios

VARIABLE detected
vars == <<detected>>

Init == detected = {}

Plug ==
    /\ Cardinality(detected) < MaxRadios
    /\ \E i \in [index : {Cardinality(detected)}, driver : BOOLEAN, bus : Buses,
                 advertises : BOOLEAN, associated : BOOLEAN,
                 fiveGhz : BOOLEAN, monitor : BOOLEAN] :
          detected' = detected \cup {i}

Spec == Init /\ [][Plug]_vars

UplinkIsLast == UplinkLast(detected)
RankIsOrder == StrictTotalOrder(detected)
BusyIsSpared == BusyNeverTaken(detected)
=============================================================================
