--------------------------- MODULE SelectionProofs ---------------------------
(***************************************************************************)
(* Proofs about Selection, for hosts with any number of radios: the order   *)
(* of the candidates is a strict total order, and the uplink is last in it. *)
(***************************************************************************)
EXTENDS MCSelection, FiniteSetTheorems, TLAPS

(* The points of a bus are at most the USB's.                              *)
LEMMA BusWorth ==
    ASSUME NEW bus \in Buses
    PROVE  BusPoints(bus) \in 0..UsbBus
BY DEF Buses, BusPoints, Points, UsbBus, OtherBus

(* The score without the penalty is between nothing and the best radio's,   *)
(* which is less than the penalty.                                         *)
LEMMA ScoreRange ==
    ASSUME NEW i \in Interface
    PROVE  /\ Score(i) \in Int
           /\ ~i.associated => Score(i) >= 0
           /\ i.associated => Score(i) < 0
<1>1. /\ i.driver \in BOOLEAN /\ i.advertises \in BOOLEAN
      /\ i.associated \in BOOLEAN /\ i.fiveGhz \in BOOLEAN /\ i.bus \in Buses
  BY DEF Interface
<1>2. Points(i.driver, KnownDriver) \in 0..40
  BY <1>1 DEF Points, KnownDriver
<1>3. BusPoints(i.bus) \in 0..30
  BY <1>1, BusWorth DEF UsbBus
<1>4. Points(i.advertises, AdvertisesMonitor) \in 0..20
  BY <1>1 DEF Points, AdvertisesMonitor
<1>5. Points(i.fiveGhz, DualBand) \in 0..2
  BY <1>1 DEF Points, DualBand
<1>6. Points(i.associated, AssociatedPenalty) = IF i.associated THEN -100 ELSE 0
  BY <1>1 DEF Points, AssociatedPenalty
<1> QED
  BY <1>1, <1>2, <1>3, <1>4, <1>5, <1>6 DEF Score

(* rank decides between any two interfaces of a host, never both ways, and  *)
(* its decisions do not go round in circles: sort_by has one result,        *)
(* whatever order the dump was in.                                         *)
THEOREM RankOrders ==
    ASSUME NEW S, Detected(S)
    PROVE  StrictTotalOrder(S)
<1>1. \A i \in S : Score(i) \in Int /\ i.index \in Nat
  BY ScoreRange DEF Detected, Interface
<1>2. \A i, j \in S : i.index = j.index => i = j
  BY DEF Detected
<1> HIDE DEF Score
<1> QED
  BY <1>1, <1>2 DEF StrictTotalOrder, Ahead

(* The penalty outweighs every sum of points, so that an interface with an  *)
(* association is tried only when none without one is left.                *)
THEOREM PenaltySuffices ==
    ASSUME NEW S, Detected(S)
    PROVE  UplinkLast(S)
<1>1. \A i \in S : /\ Score(i) \in Int
                   /\ ~i.associated => Score(i) >= 0
                   /\ i.associated => Score(i) < 0
  BY ScoreRange DEF Detected
<1> QED
  BY <1>1 DEF UplinkLast, Idle, Ahead

(* The interfaces of a host are finitely many, and numbered.               *)
Numbered ==
    /\ IsFiniteSet(detected) /\ Detected(detected)
    /\ \A i \in detected : i.index < Cardinality(detected)

(* No two radios that are plugged in ever share an index.                  *)
LEMMA HostsNumbered == Spec => []Numbered
<1>1. Init => Numbered
  BY FS_EmptySet DEF Init, Numbered, Detected
<1>2. Numbered /\ [Plug]_vars => Numbered'
  <2> SUFFICES ASSUME Numbered, Plug PROVE Numbered'
    BY DEF vars, Numbered, Detected
  <2> DEFINE n == Cardinality(detected)
  <2>1. PICK i \in [index : {n}, driver : BOOLEAN, bus : Buses,
                    advertises : BOOLEAN, associated : BOOLEAN,
                    fiveGhz : BOOLEAN, monitor : BOOLEAN] :
           detected' = detected \cup {i}
    BY DEF Plug
  <2>2. n \in Nat
    BY FS_CardinalityType DEF Numbered
  <2>3. i \in Interface /\ i.index = n
    BY <2>2 DEF Interface
  <2>4. i \notin detected
    BY <2>2, <2>3 DEF Numbered
  <2>5. IsFiniteSet(detected') /\ Cardinality(detected') = n + 1
    BY <2>1, <2>4, FS_AddElement DEF Numbered
  <2>6. \A j \in detected : j.index \in Nat /\ j.index < n
    BY DEF Numbered, Detected, Interface
  <2>7. Detected(detected')
    BY <2>1, <2>2, <2>3, <2>6 DEF Numbered, Detected
  <2>8. \A j \in detected' : j.index < n + 1
    BY <2>1, <2>2, <2>3, <2>6
  <2> QED
    BY <2>5, <2>7, <2>8 DEF Numbered, Detected
<1> QED
  BY <1>1, <1>2, PTL DEF Spec

(* On every host, with any number of radios, the order is one.             *)
THEOREM RankAlwaysOrders == Spec => []RankIsOrder
<1>1. Numbered => RankIsOrder
  BY RankOrders DEF Numbered, RankIsOrder
<1> QED
  BY <1>1, HostsNumbered, PTL

(* On every host, with any number of radios, the uplink is last.           *)
THEOREM UplinkAlwaysLast == Spec => []UplinkIsLast
<1>1. Numbered => UplinkIsLast
  BY PenaltySuffices DEF Numbered, UplinkIsLast
<1> QED
  BY <1>1, HostsNumbered, PTL

(* While some radio is free and plausible, one of them is ahead of all.     *)
HasFirst ==
    Idle(detected) # {} => \E i \in Idle(detected) :
                              \A j \in Idle(detected) \ {i} : Ahead(i, j)

(* A radio that is plugged in is ahead of the first, or is not.            *)
LEMMA FirstExists == Spec => []HasFirst
<1>1. Init => HasFirst
  BY DEF Init, HasFirst, Idle
<1>2. Numbered /\ Numbered' /\ HasFirst /\ [Plug]_vars => HasFirst'
  <2> SUFFICES ASSUME Numbered, Numbered', HasFirst, Plug PROVE HasFirst'
    BY DEF vars, HasFirst
  <2>1. PICK k : detected' = detected \cup {k}
    BY DEF Plug
  <2>2. StrictTotalOrder(detected')
    BY RankOrders DEF Numbered
  <2>3. CASE k \notin Idle(detected')
    <3>1. Idle(detected') = Idle(detected)
      BY <2>1, <2>3 DEF Idle
    <3> QED
      BY <3>1 DEF HasFirst
  <2>4. CASE k \in Idle(detected') /\ Idle(detected) = {}
    <3>1. Idle(detected') = {k}
      BY <2>1, <2>4 DEF Idle
    <3> QED
      BY <3>1 DEF HasFirst
  <2>5. CASE k \in Idle(detected') /\ Idle(detected) # {}
    <3>1. PICK i \in Idle(detected) : \A j \in Idle(detected) \ {i} : Ahead(i, j)
      BY <2>5 DEF HasFirst
    <3>2. Idle(detected') = Idle(detected) \cup {k} /\ Idle(detected') \subseteq detected'
      BY <2>1, <2>5 DEF Idle
    <3>3. i = k \/ Ahead(i, k) \/ Ahead(k, i)
      BY <2>2, <3>1, <3>2 DEF StrictTotalOrder
    <3>4. CASE Ahead(k, i)
      <4>1. \A j \in Idle(detected') \ {k} : Ahead(k, j)
        BY <2>2, <3>1, <3>2, <3>4 DEF StrictTotalOrder
      <4> QED
        BY <4>1, <2>5 DEF HasFirst
    <3>5. CASE i = k \/ Ahead(i, k)
      <4>1. \A j \in Idle(detected') \ {i} : Ahead(i, j)
        BY <3>1, <3>2, <3>5
      <4> QED
        BY <4>1, <3>2 DEF HasFirst
    <3> QED
      BY <3>3, <3>4, <3>5
  <2> QED
    BY <2>3, <2>4, <2>5
<1> QED
  BY <1>1, <1>2, HostsNumbered, PTL DEF Spec

(* On every host, a radio another tool captures on is neither taken nor     *)
(* keeps start_monitor from taking another.                                *)
THEOREM BusyAlwaysSpared == Spec => []BusyIsSpared
<1>1. HasFirst => BusyIsSpared
  <2> SUFFICES ASSUME HasFirst PROVE BusyNeverTaken(detected)
    BY DEF BusyIsSpared
  <2>1. ASSUME Verdict(detected) = "ranked"
        PROVE  ~First(detected).monitor /\ Plausible(First(detected))
    <3>1. Idle(detected) # {}
      BY <2>1 DEF Verdict
    <3>2. First(detected) \in Idle(detected)
      BY <3>1 DEF HasFirst, First
    <3> QED
      BY <3>2 DEF Idle
  <2>2. Verdict(detected) = "AlreadyMonitor" <=>
          /\ \E i \in detected : Plausible(i)
          /\ \A i \in detected : Plausible(i) => i.monitor
    BY DEF Verdict, Idle
  <2> QED
    BY <2>1, <2>2 DEF BusyNeverTaken
<1> QED
  BY <1>1, FirstExists, PTL
=============================================================================
