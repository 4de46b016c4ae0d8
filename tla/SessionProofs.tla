--------------------------- MODULE SessionProofs ---------------------------
(***************************************************************************)
(* Proofs about MonitorSession, for any radios, names, callers, hosts and   *)
(* budgets of failures: type correctness, the consistency of the world,    *)
(* and, where presence probes do not fail, that a session no other call    *)
(* overlaps stays intact.  The last one is proved from SessionInv, which    *)
(* says what each point of a start that is alone already knows.  One lemma *)
(* per conjunct shows that a step preserves it, with one step per action.  *)
(* Last, from OwnInv, that a call changes no radio but its own.            *)
(***************************************************************************)
EXTENDS SessionProperties, TLAPS

(* The small enumerations of RadioWorld are seen through everywhere.        *)
USE DEF Services, Modes, WpaStates

---------------------------------------------------------------------------
(* Types.                                                                  *)


(* set_mode keeps every radio's mode a mode, revives and removes none,    *)
(* and changes only its own.                                              *)
LEMMA SetModeType ==
    ASSUME WorldTypeOK, NEW r \in Radios, NEW m \in Modes \ {"gone"},
           NEW ok \in BOOLEAN, SetMode(r, m, ok)
    PROVE  /\ mode' \in [Radios -> Modes]
           /\ spent' \in 0..MaxFaults
           /\ \A s \in Radios : mode'[s] = "gone" <=> mode[s] = "gone"
           /\ \A s \in Radios \ {r} : mode'[s] = mode[s]
           /\ ok => mode'[r] = m \/ mode'[r] = mode[r]
BY WorldAssumption DEF WorldTypeOK, SetMode, Fault, Smooth

(* rename changes the name of its radio only, and reports success only    *)
(* for a name no other radio has.                                         *)
LEMMA RenameType ==
    ASSUME WorldTypeOK, NEW r \in Radios, NEW n \in Names,
           NEW ok \in BOOLEAN, Rename(r, n, ok)
    PROVE  /\ label' \in [Radios -> Names]
           /\ spent' \in 0..MaxFaults
           /\ \A s \in Radios \ {r} : label'[s] = label[s]
           /\ ok => label'[r] = n /\ Named(n) \subseteq {r} /\ mode[r] # "gone"
           /\ label'[r] = label[r] \/ (label'[r] = n /\ Named(n) \subseteq {r} /\ mode[r] # "gone")
BY WorldAssumption DEF WorldTypeOK, Rename, Fault, Smooth, Present, Named

(* NetworkManager's Managed changes for the radios of the name given      *)
(* only, and is as asked when the call succeeded.                         *)
LEMMA NmSetType ==
    ASSUME WorldTypeOK, NEW n \in Names, NEW b \in BOOLEAN,
           NEW ok \in BOOLEAN, NmSet(n, b, ok)
    PROVE  /\ nm' \in [Radios -> BOOLEAN]
           /\ spent' \in 0..MaxFaults
           /\ \A s \in Radios \ Named(n) : nm'[s] = nm[s]
           /\ \A s \in Named(n) : nm'[s] = nm[s] \/ nm'[s] = b
           /\ ok => \A s \in Named(n) : nm'[s] = b
BY WorldAssumption DEF WorldTypeOK, NmSet, Fault, Smooth, Named, Present

(* wpa_supplicant adds and removes the radios of the name given only.     *)
LEMMA WpaSetType ==
    ASSUME WorldTypeOK, NEW n \in Names, NEW to \in WpaStates,
           NEW ok \in BOOLEAN, WpaSet(n, to, ok)
    PROVE  /\ wpa' \in [Radios -> WpaStates]
           /\ spent' \in 0..MaxFaults
           /\ \A s \in Radios \ Named(n) : wpa'[s] = wpa[s]
           /\ \A s \in Named(n) : wpa'[s] = wpa[s] \/ wpa'[s] = to
           /\ ok /\ to = "out" => \A s \in Named(n) : wpa'[s] = "out"
           /\ ok /\ to = "out" => \E s \in Named(n) : wpa[s] # "out"
BY WorldAssumption DEF WorldTypeOK, WpaSet, Fault, Smooth, Named, Present

(* What Equipped gives at the points of a step.                            *)
LEMMA Equipment ==
    ASSUME TypeOK, NEW p \in Procs
    PROVE  /\ pc[p] \notin Unnamed => orig[p] \in Names /\ cur[p] \in Names
           /\ pc[p] \notin Unresolved => radio[p] \in Radios
BY DEF TypeOK, Equipped

(* An operation that succeeds or fails keeps to the budget of failures.   *)
LEMMA SpentType ==
    ASSUME WorldTypeOK, NEW kind, Smooth \/ Fault(kind)
    PROVE  spent' \in 0..MaxFaults
BY WorldAssumption DEF WorldTypeOK, Smooth, Fault

(* A step that only spends keeps the world typed.                         *)
LEMMA WorldUntouched ==
    ASSUME WorldTypeOK, WorldButSpent, NEW kind, Smooth \/ Fault(kind)
    PROVE  WorldTypeOK'
BY WorldAssumption DEF WorldTypeOK, WorldButSpent, Smooth, Fault

(* Every step keeps the world typed.                                      *)
LEMMA WorldTypeStep == TypeOK /\ [Next]_vars => WorldTypeOK'
<1> SUFFICES ASSUME TypeOK, [Next]_vars PROVE WorldTypeOK'
  OBVIOUS
<1> USE DEF TypeOK, WorldTypeOK, world, Unnamed, Unresolved
<1>1. CASE UNCHANGED vars
  BY <1>1 DEF vars
<1>2. ASSUME NEW p \in Procs, StartAuto(p) PROVE WorldTypeOK'
  BY <1>2, WorldUntouched DEF StartAuto, Snapshot
<1>3. ASSUME NEW p \in Procs, StartOn(p) PROVE WorldTypeOK'
  BY <1>3, WorldUntouched DEF StartOn, StartNamed, Find
<1>4. ASSUME NEW p \in Procs, StartAs(p) PROVE WorldTypeOK'
  BY <1>4, WorldUntouched DEF StartAs, StartNamed, Find
<1>5. ASSUME NEW p \in Procs, StopMonitor(p) PROVE WorldTypeOK'
  BY <1>5 DEF StopMonitor
<1>6. ASSUME NEW p \in Procs, StopAll(p) PROVE WorldTypeOK'
  BY <1>6, WorldUntouched DEF StopAll, Snapshot
<1>7. ASSUME NEW p \in Procs, Restore(p) PROVE WorldTypeOK'
  BY <1>7 DEF Restore
<1>8. ASSUME NEW p \in Procs, Persist(p) PROVE WorldTypeOK'
  BY <1>8 DEF Persist
<1>9. ASSUME NEW p \in Procs, TryNext(p) PROVE WorldTypeOK'
  BY <1>9 DEF TryNext
<1>10. ASSUME NEW p \in Procs, NmRelease(p) PROVE WorldTypeOK'
  BY <1>10, NmSetType, Equipment, SpentType DEF NmRelease, Probe
<1>11. ASSUME NEW p \in Procs, WpaFind(p) PROVE WorldTypeOK'
  BY <1>11, WorldUntouched DEF WpaFind, WpaKnows, Probe
<1>12. ASSUME NEW p \in Procs, WpaDrop(p) PROVE WorldTypeOK'
  BY <1>12, WpaSetType, Equipment DEF WpaDrop
<1>13. ASSUME NEW p \in Procs, SwitchOn(p) PROVE WorldTypeOK'
  BY <1>13, SetModeType, Equipment DEF SwitchOn
<1>14. ASSUME NEW p \in Procs, Confirm(p) PROVE WorldTypeOK'
  BY <1>14, WorldUntouched DEF Confirm, ReadMode
<1>15. ASSUME NEW p \in Procs, RenameOn(p) PROVE WorldTypeOK'
  BY <1>15, RenameType, Equipment DEF RenameOn
<1>16. ASSUME NEW p \in Procs, Refind(p) PROVE WorldTypeOK'
  BY <1>16, WorldUntouched DEF Refind, Find
<1>17. ASSUME NEW p \in Procs, Tune(p) PROVE WorldTypeOK'
  BY <1>17 DEF Tune
<1>18. ASSUME NEW p \in Procs, UndoName(p) PROVE WorldTypeOK'
  BY <1>18, RenameType, Equipment DEF UndoName
<1>19. ASSUME NEW p \in Procs, UndoMode(p) PROVE WorldTypeOK'
  BY <1>19, SetModeType, Equipment DEF UndoMode
<1>20. ASSUME NEW p \in Procs, GiveNm(p) PROVE WorldTypeOK'
  BY <1>20, NmSetType, Equipment DEF GiveNm, HandbackName
<1>21. ASSUME NEW p \in Procs, GiveWpa(p) PROVE WorldTypeOK'
  BY <1>21, WorldUntouched DEF GiveWpa, WpaKnows
<1>22. ASSUME NEW p \in Procs, GiveWpaAdd(p) PROVE WorldTypeOK'
  BY <1>22, WpaSetType, Equipment DEF GiveWpaAdd, HandbackName
<1>23. ASSUME NEW p \in Procs, Rejected(p) PROVE WorldTypeOK'
  BY <1>23 DEF Rejected
<1>24. ASSUME NEW p \in Procs, RestoreFind(p) PROVE WorldTypeOK'
  BY <1>24, WorldUntouched DEF RestoreFind, Find
<1>25. ASSUME NEW p \in Procs, RenameBack(p) PROVE WorldTypeOK'
  BY <1>25, RenameType, Equipment DEF RenameBack
<1>26. ASSUME NEW p \in Procs, LeaveFind(p) PROVE WorldTypeOK'
  BY <1>26, WorldUntouched DEF LeaveFind, Find
<1>27. ASSUME NEW p \in Procs, SwitchOff(p) PROVE WorldTypeOK'
  BY <1>27, SetModeType, Equipment DEF SwitchOff
<1>28. ASSUME NEW p \in Procs, ConfirmOff(p) PROVE WorldTypeOK'
  BY <1>28, WorldUntouched DEF ConfirmOff, ReadMode
<1>29. ASSUME NEW p \in Procs, Handback(p) PROVE WorldTypeOK'
  BY <1>29, WorldUntouched DEF Handback
<1>30. ASSUME NEW p \in Procs, Finish(p) PROVE WorldTypeOK'
  BY <1>30 DEF Finish
<1>31. ASSUME NEW p \in Procs, Cancel(p) PROVE WorldTypeOK'
  BY <1>31, WorldUntouched DEF Cancel
<1>32. ASSUME NEW p \in Procs, Kill(p) PROVE WorldTypeOK'
  BY <1>32, WorldUntouched DEF Kill
<1>33. CASE Environment /\ UNCHANGED <<pc, call, observers>>
  <2>1. ASSUME NEW r \in Radios, Unplug(r) PROVE WorldTypeOK'
    BY <2>1, WorldAssumption DEF Unplug, Fault
  <2> QED
    BY <1>33, <2>1 DEF Environment, PullBack, NmAdopt, NmDrop
<1> QED
  BY <1>1, <1>2, <1>3, <1>4, <1>5, <1>6, <1>7, <1>8, <1>9, <1>10, <1>11, <1>12, <1>13, <1>14, <1>15, <1>16, <1>17, <1>18, <1>19, <1>20, <1>21, <1>22, <1>23, <1>24, <1>25, <1>26, <1>27, <1>28, <1>29, <1>30, <1>31, <1>32, <1>33 DEF Next, Client, Step

(* A step of a call moves it to another point ...                          *)
LEMMA Moves ==
    ASSUME TypeOK, NEW p \in Procs, NEW point \in Points, Goto(p, point),
           UNCHANGED <<radio, orig, cur>>,
           point \notin Unnamed => pc[p] \notin Unnamed,
           point \notin Unresolved => pc[p] \notin Unresolved
    PROVE  /\ pc' \in [Procs -> Points]
           /\ \A q \in Procs : Equipped(q)'
BY DEF TypeOK, CallTypeOK, Equipped, Goto

(* ... or to another radio and other names ...                             *)
LEMMA Engages ==
    ASSUME TypeOK, NEW p \in Procs, NEW point \in Points, Goto(p, point),
           NEW r \in Radios \cup {NoRadio}, NEW o \in Names, NEW c \in Names,
           NEW before \in BOOLEAN, Engage(p, r, o, c, before),
           point \in Unresolved \/ r \in Radios
    PROVE  /\ pc' \in [Procs -> Points]
           /\ radio' \in [Procs -> Radios \cup {NoRadio}]
           /\ orig' \in [Procs -> Names \cup {NoName}]
           /\ cur' \in [Procs -> Names \cup {NoName}]
           /\ spoiled' \in [Procs -> BOOLEAN]
           /\ \A q \in Procs : Equipped(q)'
BY DEF TypeOK, CallTypeOK, ObserversTypeOK, Equipped, Goto, Engage, Unresolved

(* ... or ends it.                                                         *)
LEMMA Returns ==
    ASSUME TypeOK, NEW p \in Procs, Return(p)
    PROVE  CallTypeOK' /\ ObserversTypeOK' /\ \A q \in Procs : Equipped(q)'
<1>1. CallTypeOK'
  BY DEF TypeOK, CallTypeOK, Return, Goto, Points, Ops
<1>2. ObserversTypeOK'
  BY DEF TypeOK, ObserversTypeOK, Return, NotFound
<1>3. \A q \in Procs : Equipped(q)'
  BY DEF TypeOK, CallTypeOK, Equipped, Return, Goto, Unnamed, Unresolved
<1> QED
  BY <1>1, <1>2, <1>3

(* What a release records stays a set of services.                        *)
LEMMA HoldType ==
    ASSUME CallTypeOK, NEW p \in Procs, NEW service \in Services, Hold(p, service)
    PROVE  held' \in [Procs -> SUBSET Services]
BY DEF CallTypeOK, Hold

(* What an enumeration returns are radios and their names.                *)
LEMMA SeenType ==
    ASSUME TypeOK
    PROVE  /\ Listed \in SUBSET (Radios \X Names)
           /\ \A S \in SUBSET (Radios \X Names) : Busy(S) \in SUBSET (Radios \X Names)
           /\ \A r \in Radios : AsFound(r) \in [mode : Modes, label : Names \cup {NoName},
                                            nm : BOOLEAN, wpa : WpaStates]
           /\ \A n : Named(n) \subseteq Radios
BY DEF TypeOK, WorldTypeOK, Listed, Busy, Present, AsFound, Named

CallsTypeOK == CallTypeOK /\ ObserversTypeOK /\ \A q \in Procs : Equipped(q)

(* start_monitor_on and start_monitor_as leave the caller's state typed.  *)
LEMMA StartNamedType ==
    ASSUME TypeOK, NEW p \in Procs, NEW kind \in {"on", "as"},
           NEW n \in Names, NEW new \in Names, StartNamed(p, kind, n, new)
    PROVE  CallsTypeOK'
<1> USE DEF TypeOK, CallsTypeOK, CallTypeOK, ObserversTypeOK, call, observers
<1>1. CASE UNCHANGED <<pc, call, observers>>
  BY <1>1 DEF Equipped
<1>2. ASSUME NEW r \in Radios, Goto(p, "release"), op' = [op EXCEPT ![p] = kind],
             found' = [found EXCEPT ![p] = AsFound(r)],
             Engage(p, r, n, new, FALSE), UNCHANGED <<held, todo>>
      PROVE  CallsTypeOK'
  <2>1. /\ pc' \in [Procs -> Points]
        /\ radio' \in [Procs -> Radios \cup {NoRadio}]
        /\ orig' \in [Procs -> Names \cup {NoName}]
        /\ cur' \in [Procs -> Names \cup {NoName}]
        /\ spoiled' \in [Procs -> BOOLEAN]
        /\ \A q \in Procs : Equipped(q)'
    BY <1>2, Engages DEF Points, Entering
  <2>2. op' \in [Procs -> Ops]
    BY <1>2 DEF Ops, Starts
  <2>3. ObserversTypeOK'
    BY <1>2, <2>1, SeenType
  <2> QED
    BY <1>2, <2>1, <2>2, <2>3
<1> QED
  <2>1. PICK seen \in {Named(n), {}} :
          \/ UNCHANGED <<pc, call, observers>>
          \/ \E r \in seen :
                /\ Goto(p, "release") /\ op' = [op EXCEPT ![p] = kind]
                /\ found' = [found EXCEPT ![p] = AsFound(r)]
                /\ Engage(p, r, n, new, FALSE) /\ UNCHANGED <<held, todo>>
    BY DEF StartNamed
  <2>2. seen \subseteq Radios
    BY SeenType
  <2> QED
    BY <1>1, <1>2, <2>1, <2>2

(* Every step keeps every caller's state typed, and gives a point what it *)
(* needs.                                                                 *)
LEMMA CallTypeStep == TypeOK /\ [Next]_vars => CallsTypeOK'
<1> SUFFICES ASSUME TypeOK, [Next]_vars PROVE CallsTypeOK'
  OBVIOUS
<1> USE DEF TypeOK, CallsTypeOK, CallTypeOK, ObserversTypeOK, call, observers
<1>1. CASE UNCHANGED <<pc, call, observers>>
  BY <1>1 DEF Equipped
<1>2. ASSUME NEW p \in Procs, StartAuto(p) PROVE CallsTypeOK'
  <2>1. CASE UNCHANGED <<pc, call, observers>>
    BY <2>1 DEF Equipped
  <2>2. ASSUME NEW work \in SUBSET (Radios \X Names), Goto(p, "next"),
               op' = [op EXCEPT ![p] = "auto"], todo' = [todo EXCEPT ![p] = work],
               UNCHANGED <<radio, orig, cur, held, observers>>
        PROVE  CallsTypeOK'
    <3>1. pc' \in [Procs -> Points] /\ \A q \in Procs : Equipped(q)'
      BY <2>2, Moves DEF Points, Unnamed, Unresolved
    <3> QED
      BY <2>2, <3>1 DEF Ops, Starts
  <2> QED
    BY <1>2, <2>1, <2>2, SeenType DEF StartAuto
<1>3. ASSUME NEW p \in Procs, StartOn(p) PROVE CallsTypeOK'
  BY <1>3, StartNamedType DEF StartOn
<1>4. ASSUME NEW p \in Procs, StartAs(p) PROVE CallsTypeOK'
  BY <1>4, StartNamedType, SessionAssumption DEF StartAs
<1>5. ASSUME NEW p \in Procs, StopMonitor(p) PROVE CallsTypeOK'
  BY <1>5, Engages DEF StopMonitor, Ops, Points, Entering, InSession, RollingBack, HandingBack, Leaving, Unnamed, Unresolved
<1>6. ASSUME NEW p \in Procs, StopAll(p) PROVE CallsTypeOK'
  <2>1. CASE UNCHANGED <<pc, call, observers>>
    BY <2>1 DEF Equipped
  <2>2. ASSUME NEW work \in SUBSET (Radios \X Names), Goto(p, "sweep"),
               op' = [op EXCEPT ![p] = "all"], todo' = [todo EXCEPT ![p] = work],
               UNCHANGED <<radio, orig, cur, held, observers>>
        PROVE  CallsTypeOK'
    <3>1. pc' \in [Procs -> Points] /\ \A q \in Procs : Equipped(q)'
      BY <2>2, Moves DEF Points, Unnamed, Unresolved
    <3> QED
      BY <2>2, <3>1 DEF Ops, Starts
  <2> QED
    BY <1>6, <2>1, <2>2, SeenType DEF StopAll
<1>7. ASSUME NEW p \in Procs, Restore(p) PROVE CallsTypeOK'
  BY <1>7, Moves DEF Restore, Ops, Points, Entering, InSession, RollingBack, HandingBack, Leaving, Unnamed, Unresolved
<1>8. ASSUME NEW p \in Procs, Persist(p) PROVE CallsTypeOK'
  BY <1>8, Returns DEF Persist
<1>9. ASSUME NEW p \in Procs, TryNext(p) PROVE CallsTypeOK'
  <2>1. ASSUME NEW c \in todo[p], Engage(p, c[1], c[2], c[2], Stale(c)), Goto(p, "release"),
               todo' = [todo EXCEPT ![p] = Remaining(p, c)]
        PROVE  /\ pc' \in [Procs -> Points]
               /\ radio' \in [Procs -> Radios \cup {NoRadio}]
               /\ orig' \in [Procs -> Names \cup {NoName}]
               /\ cur' \in [Procs -> Names \cup {NoName}]
               /\ todo' \in [Procs -> SUBSET (Radios \X Names)]
               /\ spoiled' \in [Procs -> BOOLEAN]
               /\ \A q \in Procs : Equipped(q)'
    <3>1. c[1] \in Radios /\ c[2] \in Names /\ todo[p] \in SUBSET (Radios \X Names)
      OBVIOUS
    <3>2. todo' \in [Procs -> SUBSET (Radios \X Names)]
      BY <2>1, <3>1 DEF Remaining
    <3>3. "release" \in Points
      BY DEF Points, Entering
    <3> QED
      BY <2>1, <3>1, <3>2, <3>3, Engages DEF Stale, Unresolved
  <2>2. found' \in [Procs -> [mode : Modes, label : Names \cup {NoName},
                             nm : BOOLEAN, wpa : WpaStates]]
    BY <1>9, SeenType DEF TryNext
  <2> QED
    BY <1>9, <2>1, <2>2 DEF TryNext
<1>10. ASSUME NEW p \in Procs, NmRelease(p) PROVE CallsTypeOK'
  <2>1. pc' \in [Procs -> Points] /\ \A q \in Procs : Equipped(q)'
    BY <1>10, Moves DEF NmRelease, Points, Entering, InSession, RollingBack, HandingBack, Leaving, Unnamed, Unresolved
  <2>2. held' \in [Procs -> SUBSET Services]
    BY <1>10, HoldType DEF NmRelease
  <2> QED
    BY <1>10, <2>1, <2>2 DEF NmRelease
<1>11. ASSUME NEW p \in Procs, WpaFind(p) PROVE CallsTypeOK'
  <2>1. pc' \in [Procs -> Points] /\ \A q \in Procs : Equipped(q)'
    BY <1>11, Moves DEF WpaFind, Points, Entering, InSession, RollingBack, HandingBack, Leaving, Unnamed, Unresolved
  <2>2. held' \in [Procs -> SUBSET Services]
    BY <1>11, HoldType DEF WpaFind
  <2> QED
    BY <1>11, <2>1, <2>2 DEF WpaFind
<1>12. ASSUME NEW p \in Procs, WpaDrop(p) PROVE CallsTypeOK'
  <2>1. pc' \in [Procs -> Points] /\ \A q \in Procs : Equipped(q)'
    BY <1>12, Moves DEF WpaDrop, Points, Entering, InSession, RollingBack, HandingBack, Leaving, Unnamed, Unresolved
  <2>2. held' \in [Procs -> SUBSET Services]
    BY <1>12, HoldType DEF WpaDrop
  <2> QED
    BY <1>12, <2>1, <2>2 DEF WpaDrop
<1>13. ASSUME NEW p \in Procs, SwitchOn(p) PROVE CallsTypeOK'
  BY <1>13, Moves DEF SwitchOn, Points, Entering, InSession, RollingBack, HandingBack, Leaving, Unnamed, Unresolved
<1>14. ASSUME NEW p \in Procs, Confirm(p) PROVE CallsTypeOK'
  BY <1>14, Moves DEF Confirm, Points, Entering, InSession, RollingBack, HandingBack, Leaving, Unnamed, Unresolved
<1>15. ASSUME NEW p \in Procs, RenameOn(p) PROVE CallsTypeOK'
  BY <1>15, Moves DEF RenameOn, Points, Entering, InSession, RollingBack, HandingBack, Leaving, Unnamed, Unresolved
<1>16. ASSUME NEW p \in Procs, Refind(p) PROVE CallsTypeOK'
  <2>1. CASE UNCHANGED <<radio, orig, cur, spoiled>>
    <3>1. pc' \in [Procs -> Points] /\ \A q \in Procs : Equipped(q)'
      BY <1>16, <2>1, Moves DEF Refind, Points, Entering, InSession, RollingBack, HandingBack, Leaving, Unnamed, Unresolved
    <3> QED
      BY <1>16, <2>1, <3>1 DEF Refind
  <2>2. ASSUME NEW r \in Radios, Resolve(p, r), NEW point \in Points, Goto(p, point)
        PROVE  CallsTypeOK'
    <3>1. orig[p] \in Names /\ cur[p] \in Names
      BY <1>16, Equipment DEF Refind, Unnamed
    <3>2. /\ pc' \in [Procs -> Points]
          /\ radio' \in [Procs -> Radios \cup {NoRadio}]
          /\ orig' \in [Procs -> Names \cup {NoName}]
          /\ cur' \in [Procs -> Names \cup {NoName}]
          /\ spoiled' \in [Procs -> BOOLEAN]
          /\ \A q \in Procs : Equipped(q)'
      BY <2>2, <3>1, Engages DEF Resolve
    <3> QED
      BY <1>16, <3>2 DEF Refind
  <2> QED
    BY <1>16, <2>1, <2>2, SeenType DEF Refind, Points, Entering, InSession, Leaving
<1>17. ASSUME NEW p \in Procs, Tune(p) PROVE CallsTypeOK'
  BY <1>17, Moves DEF Tune, Ops, NotFound, Points, Entering, InSession, RollingBack, HandingBack, Leaving, Unnamed, Unresolved
<1>18. ASSUME NEW p \in Procs, UndoName(p) PROVE CallsTypeOK'
  BY <1>18, Moves DEF UndoName, Points, Entering, InSession, RollingBack, HandingBack, Leaving, Unnamed, Unresolved
<1>19. ASSUME NEW p \in Procs, UndoMode(p) PROVE CallsTypeOK'
  BY <1>19, Moves DEF UndoMode, Points, Entering, InSession, RollingBack, HandingBack, Leaving, Unnamed, Unresolved
<1>20. ASSUME NEW p \in Procs, GiveNm(p) PROVE CallsTypeOK'
  BY <1>20, Moves DEF GiveNm, Reclaimed, Points, Entering, InSession, RollingBack, HandingBack, Leaving, Unnamed, Unresolved
<1>21. ASSUME NEW p \in Procs, GiveWpa(p) PROVE CallsTypeOK'
  BY <1>21, Moves DEF GiveWpa, Reclaimed, Points, Entering, InSession, RollingBack, HandingBack, Leaving, Unnamed, Unresolved
<1>22. ASSUME NEW p \in Procs, GiveWpaAdd(p) PROVE CallsTypeOK'
  BY <1>22, Moves DEF GiveWpaAdd, Reclaimed, Points, Entering, InSession, RollingBack, HandingBack, Leaving, Unnamed, Unresolved
<1>23. ASSUME NEW p \in Procs, Rejected(p) PROVE CallsTypeOK'
  BY <1>23, Moves, Returns DEF Rejected, Points, Entering, InSession, RollingBack, HandingBack, Leaving, Unnamed, Unresolved
<1>24. ASSUME NEW p \in Procs, RestoreFind(p) PROVE CallsTypeOK'
  <2>1. CASE UNCHANGED <<radio, orig, cur, spoiled>>
    <3>1. pc' \in [Procs -> Points] /\ \A q \in Procs : Equipped(q)'
      BY <1>24, <2>1, Moves DEF RestoreFind, Points, Entering, InSession, RollingBack, HandingBack, Leaving, Unnamed, Unresolved
    <3> QED
      BY <1>24, <2>1, <3>1 DEF RestoreFind
  <2>2. ASSUME NEW r \in Radios, Resolve(p, r), NEW point \in Points, Goto(p, point)
        PROVE  CallsTypeOK'
    <3>1. orig[p] \in Names /\ cur[p] \in Names
      BY <1>24, Equipment DEF RestoreFind, Unnamed
    <3>2. /\ pc' \in [Procs -> Points]
          /\ radio' \in [Procs -> Radios \cup {NoRadio}]
          /\ orig' \in [Procs -> Names \cup {NoName}]
          /\ cur' \in [Procs -> Names \cup {NoName}]
          /\ spoiled' \in [Procs -> BOOLEAN]
          /\ \A q \in Procs : Equipped(q)'
      BY <2>2, <3>1, Engages DEF Resolve
    <3> QED
      BY <1>24, <3>2 DEF RestoreFind
  <2> QED
    BY <1>24, <2>1, <2>2, SeenType DEF RestoreFind, Points, Entering, InSession, Leaving
<1>25. ASSUME NEW p \in Procs, RenameBack(p) PROVE CallsTypeOK'
  BY <1>25, Moves DEF RenameBack, Points, Entering, InSession, RollingBack, HandingBack, Leaving, Unnamed, Unresolved
<1>26. ASSUME NEW p \in Procs, LeaveFind(p) PROVE CallsTypeOK'
  <2>1. CASE Goto(p, "failed") /\ UNCHANGED <<radio, orig, cur, spoiled>>
    <3>1. pc' \in [Procs -> Points] /\ \A q \in Procs : Equipped(q)'
      BY <1>26, <2>1, Moves DEF LeaveFind, Points, Entering, InSession, RollingBack, HandingBack, Leaving, Unnamed, Unresolved
    <3> QED
      BY <1>26, <2>1, <3>1 DEF LeaveFind
  <2>2. ASSUME NEW r \in Radios, Resolve(p, r), NEW point \in Points, Goto(p, point)
        PROVE  CallsTypeOK'
    <3>1. orig[p] \in Names /\ cur[p] \in Names
      BY <1>26, Equipment DEF LeaveFind, Unnamed
    <3>2. /\ pc' \in [Procs -> Points]
          /\ radio' \in [Procs -> Radios \cup {NoRadio}]
          /\ orig' \in [Procs -> Names \cup {NoName}]
          /\ cur' \in [Procs -> Names \cup {NoName}]
          /\ spoiled' \in [Procs -> BOOLEAN]
          /\ \A q \in Procs : Equipped(q)'
      BY <2>2, <3>1, Engages DEF Resolve
    <3> QED
      BY <1>26, <3>2 DEF LeaveFind
  <2> QED
    BY <1>26, <2>1, <2>2, SeenType DEF LeaveFind, Points, Entering, InSession, Leaving, LeaveFrom
<1>27. ASSUME NEW p \in Procs, SwitchOff(p) PROVE CallsTypeOK'
  BY <1>27, Moves DEF SwitchOff, Points, Entering, InSession, RollingBack, HandingBack, Leaving, Unnamed, Unresolved
<1>28. ASSUME NEW p \in Procs, ConfirmOff(p) PROVE CallsTypeOK'
  BY <1>28, Moves DEF ConfirmOff, Points, Entering, InSession, RollingBack, HandingBack, Leaving, Unnamed, Unresolved
<1>29. ASSUME NEW p \in Procs, Handback(p) PROVE CallsTypeOK'
  <2>1. pc' \in [Procs -> Points] /\ \A q \in Procs : Equipped(q)'
    BY <1>29, Moves DEF Handback, Points, Entering, InSession, RollingBack, HandingBack, Leaving, Unnamed, Unresolved
  <2>2. held' \in [Procs -> SUBSET Services]
    <3>1. PICK answering \in SUBSET running : held' = [held EXCEPT ![p] = answering]
      BY <1>29 DEF Handback
    <3>2. answering \in SUBSET Services
      BY DEF WorldTypeOK
    <3> QED
      BY <3>1, <3>2
  <2> QED
    BY <1>29, <2>1, <2>2 DEF Handback
<1>30. ASSUME NEW p \in Procs, Finish(p) PROVE CallsTypeOK'
  <2>1. ASSUME NEW c \in todo[p], Engage(p, NoRadio, c[2], c[2], FALSE), Goto(p, "leaveFind"),
               todo' = [todo EXCEPT ![p] = Remaining(p, c)]
        PROVE  /\ pc' \in [Procs -> Points]
               /\ radio' \in [Procs -> Radios \cup {NoRadio}]
               /\ orig' \in [Procs -> Names \cup {NoName}]
               /\ cur' \in [Procs -> Names \cup {NoName}]
               /\ todo' \in [Procs -> SUBSET (Radios \X Names)]
               /\ spoiled' \in [Procs -> BOOLEAN]
               /\ \A q \in Procs : Equipped(q)'
    <3>1. c[1] \in Radios /\ c[2] \in Names /\ todo[p] \in SUBSET (Radios \X Names)
      OBVIOUS
    <3>2. todo' \in [Procs -> SUBSET (Radios \X Names)]
      BY <2>1, <3>1 DEF Remaining
    <3>3. "leaveFind" \in Points
      BY DEF Points, Leaving
    <3> QED
      BY <2>1, <3>1, <3>2, <3>3, Engages DEF Stale, Unresolved
  <2> QED
    BY <1>30, <2>1, Returns DEF Finish
<1>31. ASSUME NEW p \in Procs, Cancel(p) PROVE CallsTypeOK'
  <2>1. CASE Return(p)
    BY <2>1, Returns
  <2>2. CASE pc[p] = "tune" /\ Goto(p, "restore")
    <3>1. pc' \in [Procs -> Points] /\ \A q \in Procs : Equipped(q)'
      BY <1>31, <2>2, Moves DEF Cancel, Points, Leaving, Unnamed, Unresolved
    <3> QED
      BY <1>31, <2>2, <3>1 DEF Cancel, Ops
  <2> QED
    BY <1>31, <2>1, <2>2 DEF Cancel
<1>32. ASSUME NEW p \in Procs, Kill(p) PROVE CallsTypeOK'
  BY <1>32, Returns DEF Kill
<1> QED
  BY <1>1, <1>2, <1>3, <1>4, <1>5, <1>6, <1>7, <1>8, <1>9, <1>10, <1>11, <1>12, <1>13, <1>14, <1>15, <1>16, <1>17, <1>18, <1>19, <1>20, <1>21, <1>22, <1>23, <1>24, <1>25, <1>26, <1>27, <1>28, <1>29, <1>30, <1>31, <1>32 DEF Next, Client, Step, vars

---------------------------------------------------------------------------
(* The services hold only radios that are there, and names stay distinct.  *)

(* As long as only modes change, and no radio comes or goes.              *)
LEMMA WorldKept ==
    ASSUME WorldOK, UNCHANGED <<label, nm, wpa, running>>,
           \A s \in Radios : mode'[s] = "gone" <=> mode[s] = "gone"
    PROVE  WorldOK'
BY DEF WorldOK

(* set_mode keeps the world consistent.                                   *)
LEMMA SetModeKeeps ==
    ASSUME WorldTypeOK, WorldOK, NEW r \in Radios, NEW m \in Modes \ {"gone"},
           NEW ok \in BOOLEAN, SetMode(r, m, ok), UNCHANGED <<label, nm, wpa, running>>
    PROVE  WorldOK'
BY SetModeType, WorldKept

(* rename keeps the world consistent: it gives no radio a name in use.    *)
LEMMA RenameKeeps ==
    ASSUME WorldTypeOK, WorldOK, NEW r \in Radios, NEW n \in Names,
           NEW ok \in BOOLEAN, Rename(r, n, ok), UNCHANGED <<mode, nm, wpa, running>>
    PROVE  WorldOK'
BY RenameType DEF WorldOK, Named, Present, WorldTypeOK

(* NetworkManager's Managed keeps the world consistent, where             *)
(* NetworkManager runs.                                                   *)
LEMMA NmSetKeeps ==
    ASSUME WorldTypeOK, WorldOK, NEW n \in Names, NEW b \in BOOLEAN,
           NEW ok \in BOOLEAN, NmSet(n, b, ok), b => "nm" \in running,
           UNCHANGED <<mode, label, wpa, running>>
    PROVE  WorldOK'
<1>1. \A r \in Radios : nm'[r] => nm[r] \/ (b /\ mode[r] # "gone")
  BY NmSetType DEF Named, Present, WorldTypeOK
<1> QED
  BY <1>1 DEF WorldOK

(* Adding and removing radios keeps the world consistent, where           *)
(* wpa_supplicant runs.                                                   *)
LEMMA WpaSetKeeps ==
    ASSUME WorldTypeOK, WorldOK, NEW n \in Names, NEW to \in WpaStates,
           NEW ok \in BOOLEAN, WpaSet(n, to, ok), to # "out" => "wpa" \in running,
           UNCHANGED <<mode, label, nm, running>>
    PROVE  WorldOK'
<1>1. \A r \in Radios : wpa'[r] # "out" => wpa[r] # "out" \/ (to # "out" /\ mode[r] # "gone")
  BY WpaSetType DEF Named, Present, WorldTypeOK
<1> QED
  BY <1>1 DEF WorldOK

(* What a process holds for a session is run by the host.                  *)
LEMMA HeldKept ==
    ASSUME TypeOK, HeldRuns, NEW p \in Procs, NEW point, Goto(p, point),
           UNCHANGED <<held, running>>, point = "giveWpaAdd" => "wpa" \in held[p]
    PROVE  HeldRuns'
BY DEF TypeOK, CallTypeOK, HeldRuns, Goto

(* Dropping the record keeps it within what runs.                         *)
LEMMA HeldEmptied ==
    ASSUME TypeOK, HeldRuns, NEW p \in Procs, NEW point, Goto(p, point),
           held' = [held EXCEPT ![p] = {}], UNCHANGED running, point # "giveWpaAdd"
    PROVE  HeldRuns'
BY DEF TypeOK, CallTypeOK, HeldRuns, Goto

(* Recording a service that runs does too.                                *)
LEMMA HeldAdded ==
    ASSUME TypeOK, HeldRuns, NEW p \in Procs, NEW point, Goto(p, point),
           NEW service, Hold(p, service), service \in running,
           UNCHANGED running, point # "giveWpaAdd"
    PROVE  HeldRuns'
BY DEF TypeOK, CallTypeOK, HeldRuns, Goto, Hold

(* So does recording what a probe found.                                  *)
LEMMA HeldFound ==
    ASSUME TypeOK, HeldRuns, NEW p \in Procs, Goto(p, "giveNm"),
           NEW services \in SUBSET running, held' = [held EXCEPT ![p] = services],
           UNCHANGED running
    PROVE  HeldRuns'
BY DEF TypeOK, CallTypeOK, HeldRuns, Goto

(* A call that returns holds nothing.                                     *)
LEMMA HeldReturned ==
    ASSUME TypeOK, HeldRuns, NEW p \in Procs, Return(p), UNCHANGED running
    PROVE  HeldRuns'
BY HeldEmptied DEF Return

WorldInv == TypeOK /\ WorldOK /\ HeldRuns

(* Every step keeps the world consistent and the records within what      *)
(* runs.                                                                  *)
LEMMA WorldInvStep == WorldInv /\ [Next]_vars => WorldOK' /\ HeldRuns'
<1> SUFFICES ASSUME WorldInv, [Next]_vars PROVE WorldOK' /\ HeldRuns'
  OBVIOUS
<1> USE DEF WorldInv, world, call, observers, Unnamed, Unresolved
<1>1. CASE UNCHANGED vars
  BY <1>1 DEF vars, WorldOK, HeldRuns
<1>2. ASSUME NEW p \in Procs, StartAuto(p) PROVE WorldOK' /\ HeldRuns'
  BY <1>2, WorldKept, HeldKept DEF StartAuto, WorldButSpent, HeldRuns
<1>3. ASSUME NEW p \in Procs, StartOn(p) PROVE WorldOK' /\ HeldRuns'
  BY <1>3, WorldKept, HeldKept DEF StartOn, StartNamed, WorldButSpent, HeldRuns
<1>4. ASSUME NEW p \in Procs, StartAs(p) PROVE WorldOK' /\ HeldRuns'
  BY <1>4, WorldKept, HeldKept DEF StartAs, StartNamed, WorldButSpent, HeldRuns
<1>5. ASSUME NEW p \in Procs, StopMonitor(p) PROVE WorldOK' /\ HeldRuns'
  BY <1>5, WorldKept, HeldKept DEF StopMonitor
<1>6. ASSUME NEW p \in Procs, StopAll(p) PROVE WorldOK' /\ HeldRuns'
  BY <1>6, WorldKept, HeldKept DEF StopAll, WorldButSpent, HeldRuns
<1>7. ASSUME NEW p \in Procs, Restore(p) PROVE WorldOK' /\ HeldRuns'
  BY <1>7, WorldKept, HeldKept DEF Restore
<1>8. ASSUME NEW p \in Procs, Persist(p) PROVE WorldOK' /\ HeldRuns'
  BY <1>8, WorldKept, HeldReturned DEF Persist
<1>9. ASSUME NEW p \in Procs, TryNext(p) PROVE WorldOK' /\ HeldRuns'
  BY <1>9, WorldKept, HeldEmptied DEF TryNext
<1>10. ASSUME NEW p \in Procs, NmRelease(p) PROVE WorldOK' /\ HeldRuns'
  <2>1. WorldOK'
    BY <1>10, NmSetKeeps, WorldKept, Equipment DEF TypeOK, NmRelease
  <2>2. HeldRuns'
    <3>1. CASE Hold(p, "nm") /\ "nm" \in running /\ Goto(p, "wpaFind")
      BY <1>10, <3>1, HeldAdded DEF NmRelease
    <3>2. CASE UNCHANGED held /\ (Goto(p, "wpaFind") \/ Goto(p, "rejected"))
      BY <1>10, <3>2, HeldKept DEF NmRelease
    <3> QED
      BY <1>10, <3>1, <3>2 DEF NmRelease
  <2> QED
    BY <2>1, <2>2
<1>11. ASSUME NEW p \in Procs, WpaFind(p) PROVE WorldOK' /\ HeldRuns'
  <2>1. CASE Hold(p, "wpa") /\ "wpa" \in running /\ Goto(p, "switch")
    BY <1>11, <2>1, WorldKept, HeldAdded DEF WpaFind, WorldButSpent
  <2>2. CASE /\ UNCHANGED held
             /\ Goto(p, "switch") \/ Goto(p, "wpaDrop") \/ Goto(p, "rejected")
    BY <1>11, <2>2, WorldKept, HeldKept DEF WpaFind, WorldButSpent
  <2> QED
    BY <1>11, <2>1, <2>2 DEF WpaFind
<1>12. ASSUME NEW p \in Procs, WpaDrop(p) PROVE WorldOK' /\ HeldRuns'
  <2>1. WorldOK'
    BY <1>12, WpaSetKeeps, Equipment DEF TypeOK, WpaDrop
  <2>2. CASE UNCHANGED held
    BY <1>12, <2>1, <2>2, HeldKept DEF WpaDrop
  <2>3. CASE WpaSet(orig[p], "out", TRUE) /\ Hold(p, "wpa") /\ Goto(p, "switch")
    <3>1. "wpa" \in running
      <4>1. orig[p] \in Names
        BY <1>12, Equipment DEF WpaDrop
      <4>2. \E r \in Named(orig[p]) : wpa[r] # "out"
        BY <2>3, <4>1, WpaSetType DEF TypeOK
      <4> QED
        BY <4>2 DEF WorldOK, Named, Present
    <3> QED
      BY <1>12, <2>1, <2>3, <3>1, HeldAdded DEF WpaDrop
  <2> QED
    BY <1>12, <2>2, <2>3 DEF WpaDrop
<1>13. ASSUME NEW p \in Procs, SwitchOn(p) PROVE WorldOK' /\ HeldRuns'
  BY <1>13, SetModeKeeps, Equipment, HeldKept DEF TypeOK, SwitchOn
<1>14. ASSUME NEW p \in Procs, Confirm(p) PROVE WorldOK' /\ HeldRuns'
  BY <1>14, WorldKept, HeldKept DEF Confirm, WorldButSpent
<1>15. ASSUME NEW p \in Procs, RenameOn(p) PROVE WorldOK' /\ HeldRuns'
  BY <1>15, RenameKeeps, Equipment, HeldKept DEF TypeOK, RenameOn
<1>16. ASSUME NEW p \in Procs, Refind(p) PROVE WorldOK' /\ HeldRuns'
  BY <1>16, WorldKept, HeldKept DEF Refind, WorldButSpent
<1>17. ASSUME NEW p \in Procs, Tune(p) PROVE WorldOK' /\ HeldRuns'
  BY <1>17, WorldKept, HeldEmptied DEF Tune
<1>18. ASSUME NEW p \in Procs, UndoName(p) PROVE WorldOK' /\ HeldRuns'
  BY <1>18, RenameKeeps, Equipment, HeldKept DEF TypeOK, UndoName
<1>19. ASSUME NEW p \in Procs, UndoMode(p) PROVE WorldOK' /\ HeldRuns'
  BY <1>19, SetModeKeeps, Equipment, HeldKept DEF TypeOK, UndoMode
<1>20. ASSUME NEW p \in Procs, GiveNm(p) PROVE WorldOK' /\ HeldRuns'
  BY <1>20, NmSetKeeps, WorldKept, Equipment, HeldKept DEF TypeOK, GiveNm, HandbackName, Reclaimed, HeldRuns
<1>21. ASSUME NEW p \in Procs, GiveWpa(p) PROVE WorldOK' /\ HeldRuns'
  BY <1>21, WorldKept, HeldKept DEF GiveWpa, Reclaimed, WorldButSpent
<1>22. ASSUME NEW p \in Procs, GiveWpaAdd(p) PROVE WorldOK' /\ HeldRuns'
  BY <1>22, WpaSetKeeps, Equipment, HeldKept DEF TypeOK, GiveWpaAdd, HandbackName, Reclaimed, HeldRuns
<1>23. ASSUME NEW p \in Procs, Rejected(p) PROVE WorldOK' /\ HeldRuns'
  BY <1>23, WorldKept, HeldKept, HeldReturned DEF Rejected
<1>24. ASSUME NEW p \in Procs, RestoreFind(p) PROVE WorldOK' /\ HeldRuns'
  BY <1>24, WorldKept, HeldKept DEF RestoreFind, WorldButSpent
<1>25. ASSUME NEW p \in Procs, RenameBack(p) PROVE WorldOK' /\ HeldRuns'
  BY <1>25, RenameKeeps, Equipment, HeldKept DEF TypeOK, RenameBack
<1>26. ASSUME NEW p \in Procs, LeaveFind(p) PROVE WorldOK' /\ HeldRuns'
  BY <1>26, WorldKept, HeldKept DEF LeaveFind, LeaveFrom, WorldButSpent
<1>27. ASSUME NEW p \in Procs, SwitchOff(p) PROVE WorldOK' /\ HeldRuns'
  BY <1>27, SetModeKeeps, Equipment, HeldKept DEF TypeOK, SwitchOff
<1>28. ASSUME NEW p \in Procs, ConfirmOff(p) PROVE WorldOK' /\ HeldRuns'
  BY <1>28, WorldKept, HeldKept DEF ConfirmOff, WorldButSpent
<1>29. ASSUME NEW p \in Procs, Handback(p) PROVE WorldOK' /\ HeldRuns'
  <2>1. PICK services \in SUBSET running : held' = [held EXCEPT ![p] = services]
    BY <1>29 DEF Handback
  <2> QED
    BY <1>29, <2>1, WorldKept, HeldFound DEF Handback, WorldButSpent
<1>30. ASSUME NEW p \in Procs, Finish(p) PROVE WorldOK' /\ HeldRuns'
  BY <1>30, WorldKept, HeldKept, HeldReturned DEF Finish
<1>31. ASSUME NEW p \in Procs, Cancel(p) PROVE WorldOK' /\ HeldRuns'
  BY <1>31, WorldKept, HeldKept, HeldReturned DEF Cancel, WorldButSpent
<1>32. ASSUME NEW p \in Procs, Kill(p) PROVE WorldOK' /\ HeldRuns'
  BY <1>32, WorldKept, HeldReturned DEF Kill, WorldButSpent
<1>33. ASSUME NEW r \in Radios, PullBack(r) \/ NmAdopt(r) \/ NmDrop(r) \/ Unplug(r),
             UNCHANGED <<pc, call, observers>>
      PROVE  WorldOK' /\ HeldRuns'
  BY <1>33 DEF PullBack, NmAdopt, NmDrop, Unplug, TypeOK, WorldTypeOK, WorldOK, HeldRuns
<1> QED
  BY <1>1, <1>2, <1>3, <1>4, <1>5, <1>6, <1>7, <1>8, <1>9, <1>10, <1>11, <1>12, <1>13, <1>14, <1>15, <1>16, <1>17, <1>18, <1>19, <1>20, <1>21, <1>22, <1>23, <1>24, <1>25, <1>26, <1>27, <1>28, <1>29, <1>30, <1>31, <1>32, <1>33 DEF Next, Client, Step, Environment

---------------------------------------------------------------------------
(* A call that is alone stays apart from the others until one joins it.    *)

(* A step that only moves on keeps calls apart.                           *)
LEMMA ApartMoves ==
    ASSUME TypeOK, Rested, Apart, NEW p \in Procs, NEW point, Goto(p, point),
           point # "idle", UNCHANGED <<radio, orig, cur, spoiled>>
    PROVE  Rested' /\ Apart'
BY DEF TypeOK, CallTypeOK, Rested, Apart, Alone, Goto

(* Taking up a radio or a name spoils whoever shares it, and keeps the    *)
(* rest apart.                                                            *)
LEMMA ApartEngages ==
    ASSUME TypeOK, Rested, Apart, NEW p \in Procs, NEW point, Goto(p, point), point # "idle",
           NEW r \in Radios \cup {NoRadio}, NEW o \in Names, NEW c \in Names,
           NEW before \in BOOLEAN, Engage(p, r, o, c, before)
    PROVE  Rested' /\ Apart'
<1> DEFINE others == Overlapping(p, r, {o, c})
<1>1. \A q \in Procs \ {p} : pc[q] # "idle" /\ q \notin others =>
         /\ r # NoRadio => radio[q] # r
         /\ {orig[q], cur[q]} \cap {o, c} \subseteq {NoName}
  BY DEF Overlapping
<1>2. /\ radio'[p] = r /\ orig'[p] = o /\ cur'[p] = c
      /\ \A q \in Procs \ {p} :
            radio'[q] = radio[q] /\ orig'[q] = orig[q] /\ cur'[q] = cur[q] /\ pc'[q] = pc[q]
      /\ pc'[p] # "idle"
  BY DEF Engage, Goto, TypeOK, CallTypeOK
<1>3. /\ ~spoiled'[p] => others = {}
      /\ \A q \in Procs \ {p} : ~spoiled'[q] => ~spoiled[q] /\ q \notin others
  BY DEF Engage
<1>4. Rested'
  BY <1>2 DEF Rested
<1>5. ASSUME NEW q \in Procs, NEW t \in Procs, q # t, Alone(q)', pc'[t] # "idle"
      PROVE  /\ radio'[q] # NoRadio => radio'[t] # radio'[q]
             /\ {orig'[q], cur'[q]} \cap {orig'[t], cur'[t]} \subseteq {NoName}
  <2>1. CASE q = p
    BY <1>1, <1>2, <1>3, <1>5, <2>1 DEF Alone
  <2>2. CASE t = p
    BY <1>1, <1>2, <1>3, <1>5, <2>2 DEF Alone
  <2>3. CASE q # p /\ t # p
    BY <1>2, <1>3, <1>5, <2>3 DEF Alone, Apart
  <2> QED
    BY <2>1, <2>2, <2>3
<1> QED
  BY <1>4, <1>5 DEF Apart

(* A call that returns is apart from all.                                 *)
LEMMA ApartReturns ==
    ASSUME TypeOK, Rested, Apart, NEW p \in Procs, Return(p)
    PROVE  Rested' /\ Apart'
BY DEF TypeOK, CallTypeOK, ObserversTypeOK, Rested, Apart, Alone, Goto, Return

(* Every step keeps the calls that are alone apart from the others.       *)
LEMMA ApartStep == TypeOK /\ Rested /\ Apart /\ [Next]_vars => Rested' /\ Apart'
<1> SUFFICES ASSUME TypeOK, Rested, Apart, [Next]_vars PROVE Rested' /\ Apart'
  OBVIOUS
<1> USE DEF call, observers
<1>1. CASE UNCHANGED <<pc, call, observers>>
  BY <1>1 DEF Rested, Apart, Alone
<1>2. ASSUME NEW p \in Procs, StartAuto(p) PROVE Rested' /\ Apart'
  BY <1>2, ApartMoves, <1>1 DEF StartAuto
<1>3. ASSUME NEW p \in Procs, StartOn(p) PROVE Rested' /\ Apart'
  <2>1. ASSUME NEW n \in Names, NEW new \in Names, NEW r \in Named(n),
               Goto(p, "release"), Engage(p, r, n, new, FALSE)
        PROVE  Rested' /\ Apart'
    BY <2>1, ApartEngages, SeenType
  <2> QED
    BY <1>3, <1>1, <2>1 DEF StartOn, StartNamed
<1>4. ASSUME NEW p \in Procs, StartAs(p) PROVE Rested' /\ Apart'
  <2>1. ASSUME NEW n \in Names, NEW new \in Names, NEW r \in Named(n),
               Goto(p, "release"), Engage(p, r, n, new, FALSE)
        PROVE  Rested' /\ Apart'
    BY <2>1, ApartEngages, SeenType
  <2> QED
    <3>1. PICK n \in Names, new \in Names : StartNamed(p, "as", n, new)
      BY <1>4, SessionAssumption DEF StartAs
    <3> QED
      BY <3>1, <1>1, <2>1 DEF StartNamed
<1>5. ASSUME NEW p \in Procs, StopMonitor(p) PROVE Rested' /\ Apart'
  BY <1>5, ApartEngages DEF StopMonitor
<1>6. ASSUME NEW p \in Procs, StopAll(p) PROVE Rested' /\ Apart'
  BY <1>6, ApartMoves, <1>1 DEF StopAll
<1>7. ASSUME NEW p \in Procs, Restore(p) PROVE Rested' /\ Apart'
  BY <1>7, ApartMoves DEF Restore
<1>8. ASSUME NEW p \in Procs, Persist(p) PROVE Rested' /\ Apart'
  BY <1>8, ApartReturns DEF Persist
<1>9. ASSUME NEW p \in Procs, TryNext(p) PROVE Rested' /\ Apart'
  <2>1. PICK c \in todo[p] : Engage(p, c[1], c[2], c[2], Stale(c))
    BY <1>9 DEF TryNext
  <2>2. c[1] \in Radios /\ c[2] \in Names
    BY DEF TypeOK, CallTypeOK
  <2> QED
    BY <1>9, <2>1, <2>2, ApartEngages DEF TryNext, Stale
<1>10. ASSUME NEW p \in Procs, NmRelease(p) PROVE Rested' /\ Apart'
  BY <1>10, ApartMoves DEF NmRelease
<1>11. ASSUME NEW p \in Procs, WpaFind(p) PROVE Rested' /\ Apart'
  BY <1>11, ApartMoves DEF WpaFind
<1>12. ASSUME NEW p \in Procs, WpaDrop(p) PROVE Rested' /\ Apart'
  BY <1>12, ApartMoves DEF WpaDrop
<1>13. ASSUME NEW p \in Procs, SwitchOn(p) PROVE Rested' /\ Apart'
  BY <1>13, ApartMoves DEF SwitchOn
<1>14. ASSUME NEW p \in Procs, Confirm(p) PROVE Rested' /\ Apart'
  BY <1>14, ApartMoves DEF Confirm
<1>15. ASSUME NEW p \in Procs, RenameOn(p) PROVE Rested' /\ Apart'
  BY <1>15, ApartMoves DEF RenameOn
<1>16. ASSUME NEW p \in Procs, Refind(p) PROVE Rested' /\ Apart'
  <2>1. CASE Goto(p, "undoName") /\ UNCHANGED <<radio, orig, cur, spoiled>>
    BY <2>1, ApartMoves
  <2>2. ASSUME NEW r \in Named(cur[p]), Resolve(p, r), Goto(p, "tune")
        PROVE  Rested' /\ Apart'
    <3>1. r \in Radios /\ orig[p] \in Names /\ cur[p] \in Names /\ spoiled[p] \in BOOLEAN
      BY <1>16, SeenType, Equipment DEF Refind, Unnamed, TypeOK, ObserversTypeOK
    <3> QED
      BY <2>2, <3>1, ApartEngages DEF Resolve
  <2> QED
    BY <1>16, <2>1, <2>2 DEF Refind
<1>17. ASSUME NEW p \in Procs, Tune(p) PROVE Rested' /\ Apart'
  BY <1>17, ApartMoves DEF Tune
<1>18. ASSUME NEW p \in Procs, UndoName(p) PROVE Rested' /\ Apart'
  BY <1>18, ApartMoves DEF UndoName
<1>19. ASSUME NEW p \in Procs, UndoMode(p) PROVE Rested' /\ Apart'
  BY <1>19, ApartMoves DEF UndoMode
<1>20. ASSUME NEW p \in Procs, GiveNm(p) PROVE Rested' /\ Apart'
  BY <1>20, ApartMoves DEF GiveNm, Reclaimed
<1>21. ASSUME NEW p \in Procs, GiveWpa(p) PROVE Rested' /\ Apart'
  BY <1>21, ApartMoves DEF GiveWpa, Reclaimed
<1>22. ASSUME NEW p \in Procs, GiveWpaAdd(p) PROVE Rested' /\ Apart'
  BY <1>22, ApartMoves DEF GiveWpaAdd, Reclaimed
<1>23. ASSUME NEW p \in Procs, Rejected(p) PROVE Rested' /\ Apart'
  BY <1>23, ApartMoves, ApartReturns DEF Rejected
<1>24. ASSUME NEW p \in Procs, RestoreFind(p) PROVE Rested' /\ Apart'
  <2>1. CASE (Goto(p, "leaveFind") \/ Goto(p, "failed")) /\ UNCHANGED <<radio, orig, cur, spoiled>>
    BY <2>1, ApartMoves
  <2>2. ASSUME NEW r \in Named(cur[p]), Resolve(p, r), Goto(p, "renameBack")
        PROVE  Rested' /\ Apart'
    <3>1. r \in Radios /\ orig[p] \in Names /\ cur[p] \in Names /\ spoiled[p] \in BOOLEAN
      BY <1>24, SeenType, Equipment DEF RestoreFind, Unnamed, TypeOK, ObserversTypeOK
    <3> QED
      BY <2>2, <3>1, ApartEngages DEF Resolve
  <2> QED
    BY <1>24, <2>1, <2>2 DEF RestoreFind
<1>25. ASSUME NEW p \in Procs, RenameBack(p) PROVE Rested' /\ Apart'
  BY <1>25, ApartMoves DEF RenameBack
<1>26. ASSUME NEW p \in Procs, LeaveFind(p) PROVE Rested' /\ Apart'
  <2>1. CASE Goto(p, "failed") /\ UNCHANGED <<radio, orig, cur, spoiled>>
    BY <2>1, ApartMoves
  <2>2. ASSUME NEW r \in Named(orig[p]), Resolve(p, r), Goto(p, LeaveFrom(r))
        PROVE  Rested' /\ Apart'
    <3>1. r \in Radios /\ orig[p] \in Names /\ cur[p] \in Names /\ spoiled[p] \in BOOLEAN
      BY <1>26, SeenType, Equipment DEF LeaveFind, Unnamed, TypeOK, ObserversTypeOK
    <3> QED
      BY <2>2, <3>1, ApartEngages DEF Resolve, LeaveFrom
  <2> QED
    BY <1>26, <2>1, <2>2 DEF LeaveFind
<1>27. ASSUME NEW p \in Procs, SwitchOff(p) PROVE Rested' /\ Apart'
  BY <1>27, ApartMoves DEF SwitchOff
<1>28. ASSUME NEW p \in Procs, ConfirmOff(p) PROVE Rested' /\ Apart'
  BY <1>28, ApartMoves DEF ConfirmOff
<1>29. ASSUME NEW p \in Procs, Handback(p) PROVE Rested' /\ Apart'
  BY <1>29, ApartMoves DEF Handback
<1>30. ASSUME NEW p \in Procs, Finish(p) PROVE Rested' /\ Apart'
  <2>1. ASSUME NEW c \in todo[p], Engage(p, NoRadio, c[2], c[2], FALSE), Goto(p, "leaveFind")
        PROVE  Rested' /\ Apart'
    <3>1. c[2] \in Names
      BY DEF TypeOK, CallTypeOK
    <3> QED
      BY <2>1, <3>1, ApartEngages
  <2> QED
    BY <1>30, <2>1, ApartReturns DEF Finish
<1>31. ASSUME NEW p \in Procs, Cancel(p) PROVE Rested' /\ Apart'
  BY <1>31, ApartMoves, ApartReturns DEF Cancel
<1>32. ASSUME NEW p \in Procs, Kill(p) PROVE Rested' /\ Apart'
  BY <1>32, ApartReturns DEF Kill
<1> QED
  BY <1>1, <1>2, <1>3, <1>4, <1>5, <1>6, <1>7, <1>8, <1>9, <1>10, <1>11, <1>12, <1>13, <1>14, <1>15, <1>16, <1>17, <1>18, <1>19, <1>20, <1>21, <1>22, <1>23, <1>24, <1>25, <1>26, <1>27, <1>28, <1>29, <1>30, <1>31, <1>32 DEF Next, Client, Step, vars

---------------------------------------------------------------------------
(* The stages of a start that is alone.                                    *)

Protected == UnderOrig \cup UnderCur

(* A step of process q touches the mode and the name of its own radio, and *)
(* the custody of radios under one of its names; nothing is unplugged.     *)
Within(q) ==
    /\ \A s \in Radios : mode'[s] = "gone" <=> mode[s] = "gone"
    /\ \A s \in Radios \ {radio[q]} : mode'[s] = mode[s] /\ label'[s] = label[s]
    /\ \A s \in Radios : label'[s] \in {label[s], orig[q], cur[q]}
    /\ \A s \in Radios : label[s] \notin {orig[q], cur[q]} =>
          nm'[s] = nm[s] /\ wpa'[s] = wpa[s]

(* It changes the call of no other process, which it can only spoil.       *)
Elsewhere(q) ==
    \A p \in Procs \ {q} :
        /\ pc'[p] = pc[p] /\ op'[p] = op[p] /\ radio'[p] = radio[p]
        /\ orig'[p] = orig[p] /\ cur'[p] = cur[p]
        /\ ~spoiled'[p] => ~spoiled[p]

(* A step that leaves the world alone is within its bounds.               *)
LEMMA Still ==
    ASSUME WorldTypeOK, UNCHANGED <<mode, label, nm, wpa>>, NEW q
    PROVE  Within(q)
BY DEF Within

(* So is setting Managed under one of the call's names,                   *)
LEMMA NmSetWithin ==
    ASSUME WorldTypeOK, NEW q, orig[q] \in Names, NEW b \in BOOLEAN,
           NEW ok \in BOOLEAN, NmSet(orig[q], b, ok), UNCHANGED <<mode, label, wpa>>
    PROVE  Within(q)
<1>1. \A s \in Radios : label[s] # orig[q] => nm'[s] = nm[s]
  BY NmSetType DEF Named
<1> QED
  BY <1>1 DEF Within

(* and adding or removing a radio under one of them.                      *)
LEMMA WpaSetWithin ==
    ASSUME WorldTypeOK, NEW q, orig[q] \in Names, NEW to \in WpaStates,
           NEW ok \in BOOLEAN, WpaSet(orig[q], to, ok), UNCHANGED <<mode, label, nm>>
    PROVE  Within(q)
<1>1. \A s \in Radios : label[s] # orig[q] => wpa'[s] = wpa[s]
  BY WpaSetType DEF Named
<1> QED
  BY <1>1 DEF Within

(* Every step of a call keeps to its radio and its names.                 *)
LEMMA StepWithin ==
    ASSUME TypeOK, NEW q \in Procs, Client(q) \/ Step(q) \/ Cancel(q) \/ Kill(q)
    PROVE  Within(q)
<1> USE DEF TypeOK, Unnamed, Unresolved
<1>1. CASE UNCHANGED <<mode, label, nm, wpa>>
  BY <1>1, Still
<1>2. CASE NmRelease(q)
  BY <1>1, <1>2, NmSetWithin, Equipment DEF NmRelease
<1>3. CASE WpaDrop(q)
  BY <1>3, WpaSetWithin, Equipment DEF WpaDrop
<1>4. CASE SwitchOn(q)
  BY <1>4, SetModeType, Equipment DEF SwitchOn, Within
<1>5. CASE RenameOn(q)
  BY <1>5, RenameType, Equipment DEF RenameOn, Within
<1>6. CASE UndoName(q)
  BY <1>6, RenameType, Equipment DEF UndoName, Within
<1>7. CASE UndoMode(q)
  BY <1>7, SetModeType, Equipment DEF UndoMode, Within
<1>8. CASE GiveNm(q)
  BY <1>1, <1>8, NmSetWithin, Equipment DEF GiveNm, HandbackName
<1>9. CASE GiveWpaAdd(q)
  BY <1>9, WpaSetWithin, Equipment DEF GiveWpaAdd, HandbackName
<1>10. CASE RenameBack(q)
  BY <1>10, RenameType, Equipment DEF RenameBack, Within
<1>11. CASE SwitchOff(q)
  BY <1>11, SetModeType, Equipment DEF SwitchOff, Within
<1>12. CASE Client(q) \/ Cancel(q) \/ Kill(q)
  BY <1>1, <1>12 DEF Client, StartAuto, StartOn, StartAs, StartNamed, StopMonitor,
     StopAll, Restore, Persist, Cancel, Kill, WorldButSpent, world
<1>13. CASE TryNext(q) \/ WpaFind(q) \/ Confirm(q) \/ Refind(q) \/ Tune(q) \/ GiveWpa(q)
            \/ Rejected(q) \/ RestoreFind(q) \/ LeaveFind(q) \/ ConfirmOff(q)
            \/ Handback(q) \/ Finish(q)
  BY <1>1, <1>13 DEF TryNext, WpaFind, Confirm, Refind, Tune, GiveWpa, Rejected,
     RestoreFind, LeaveFind, ConfirmOff, Handback, Finish, WorldButSpent, world
<1> QED
  BY <1>2, <1>3, <1>4, <1>5, <1>6, <1>7, <1>8, <1>9, <1>10, <1>11, <1>12, <1>13 DEF Step

(* Moving on leaves the other calls alone.                                *)
LEMMA MovesElsewhere ==
    ASSUME TypeOK, NEW q \in Procs, NEW point, Goto(q, point),
           UNCHANGED <<op, radio, orig, cur, spoiled>>
    PROVE  Elsewhere(q)
BY DEF TypeOK, CallTypeOK, Goto, Elsewhere

(* So does moving on under another kind of call,                          *)
LEMMA RelabelsElsewhere ==
    ASSUME TypeOK, NEW q \in Procs, NEW point, Goto(q, point),
           NEW o, op' = [op EXCEPT ![q] = o], UNCHANGED <<radio, orig, cur, spoiled>>
    PROVE  Elsewhere(q)
BY DEF TypeOK, CallTypeOK, Goto, Elsewhere

(* taking up a radio, which can spoil them at most,                       *)
LEMMA EngagesElsewhere ==
    ASSUME TypeOK, NEW q \in Procs, NEW point, Goto(q, point),
           NEW r, NEW o, NEW c, NEW before, Engage(q, r, o, c, before),
           \A p \in Procs \ {q} : op'[p] = op[p]
    PROVE  Elsewhere(q)
BY DEF TypeOK, CallTypeOK, Goto, Elsewhere, Engage

(* and returning.                                                         *)
LEMMA ReturnsElsewhere ==
    ASSUME TypeOK, NEW q \in Procs, Return(q)
    PROVE  Elsewhere(q)
BY DEF TypeOK, CallTypeOK, ObserversTypeOK, Goto, Elsewhere, Return

(* No step of a call changes another one, other than to spoil it.         *)
LEMMA StepElsewhere ==
    ASSUME TypeOK, NEW q \in Procs, Client(q) \/ Step(q) \/ Cancel(q) \/ Kill(q)
    PROVE  Elsewhere(q)
<1> USE DEF call, observers
<1>1. CASE UNCHANGED <<pc, call, observers>>
  BY <1>1 DEF Elsewhere
<1>2. CASE StartAuto(q)
  BY <1>2, RelabelsElsewhere, <1>1 DEF StartAuto
<1>3. CASE StartOn(q)
  BY <1>3, EngagesElsewhere, <1>1 DEF StartOn, StartNamed, TypeOK, CallTypeOK
<1>4. CASE StartAs(q)
  BY <1>4, EngagesElsewhere, <1>1 DEF StartAs, StartNamed, TypeOK, CallTypeOK
<1>5. CASE StopMonitor(q)
  BY <1>5, EngagesElsewhere DEF StopMonitor, TypeOK, CallTypeOK
<1>6. CASE StopAll(q)
  BY <1>6, RelabelsElsewhere, <1>1 DEF StopAll
<1>7. CASE Restore(q)
  BY <1>7, RelabelsElsewhere DEF Restore
<1>8. CASE Persist(q)
  BY <1>8, ReturnsElsewhere DEF Persist
<1>9. CASE TryNext(q)
  BY <1>9, EngagesElsewhere DEF TryNext
<1>10. CASE NmRelease(q)
  BY <1>10, MovesElsewhere DEF NmRelease
<1>11. CASE WpaFind(q)
  BY <1>11, MovesElsewhere DEF WpaFind
<1>12. CASE WpaDrop(q)
  BY <1>12, MovesElsewhere DEF WpaDrop
<1>13. CASE SwitchOn(q)
  BY <1>13, MovesElsewhere DEF SwitchOn
<1>14. CASE Confirm(q)
  BY <1>14, MovesElsewhere DEF Confirm
<1>15. CASE RenameOn(q)
  BY <1>15, MovesElsewhere DEF RenameOn
<1>16. CASE Refind(q)
  BY <1>16, EngagesElsewhere, MovesElsewhere DEF Refind, Resolve
<1>17. CASE Tune(q)
  BY <1>17, RelabelsElsewhere, MovesElsewhere DEF Tune
<1>18. CASE UndoName(q)
  BY <1>18, MovesElsewhere DEF UndoName
<1>19. CASE UndoMode(q)
  BY <1>19, MovesElsewhere DEF UndoMode
<1>20. CASE GiveNm(q)
  BY <1>20, MovesElsewhere DEF GiveNm
<1>21. CASE GiveWpa(q)
  BY <1>21, MovesElsewhere DEF GiveWpa
<1>22. CASE GiveWpaAdd(q)
  BY <1>22, MovesElsewhere DEF GiveWpaAdd
<1>23. CASE Rejected(q)
  BY <1>23, MovesElsewhere, ReturnsElsewhere DEF Rejected
<1>24. CASE RestoreFind(q)
  BY <1>24, EngagesElsewhere, MovesElsewhere DEF RestoreFind, Resolve
<1>25. CASE RenameBack(q)
  BY <1>25, MovesElsewhere DEF RenameBack
<1>26. CASE LeaveFind(q)
  BY <1>26, EngagesElsewhere, MovesElsewhere DEF LeaveFind, Resolve
<1>27. CASE SwitchOff(q)
  BY <1>27, MovesElsewhere DEF SwitchOff
<1>28. CASE ConfirmOff(q)
  BY <1>28, MovesElsewhere DEF ConfirmOff
<1>29. CASE Handback(q)
  BY <1>29, MovesElsewhere DEF Handback
<1>30. CASE Finish(q)
  BY <1>30, EngagesElsewhere, ReturnsElsewhere DEF Finish
<1>31. CASE Cancel(q)
  BY <1>31, RelabelsElsewhere, ReturnsElsewhere DEF Cancel
<1>32. CASE Kill(q)
  BY <1>32, ReturnsElsewhere DEF Kill
<1> QED
  BY <1>2, <1>3, <1>4, <1>5, <1>6, <1>7, <1>8, <1>9, <1>10, <1>11, <1>12, <1>13, <1>14, <1>15, <1>16, <1>17, <1>18, <1>19, <1>20, <1>21, <1>22, <1>23, <1>24, <1>25, <1>26, <1>27, <1>28, <1>29, <1>30, <1>31, <1>32 DEF Client, Step

(* A call that is alone and resolved knows its radio by its own names.     *)
LEMMA OwnRadio ==
    ASSUME SessionInv, NEW p \in Procs, Alone(p), pc[p] \in Protected
    PROVE  /\ radio[p] \in Radios /\ radio[p] # NoRadio
           /\ orig[p] \in Names /\ cur[p] \in Names
           /\ label[radio[p]] \in {orig[p], cur[p]}
           /\ NoName \notin {orig[p], cur[p]}
           /\ \A q \in Procs \ {p} :
                 /\ radio[q] # radio[p]
                 /\ orig[p] \notin {orig[q], cur[q]}
                 /\ cur[p] \notin {orig[q], cur[q]}
<1>1. /\ radio[p] \in Radios /\ radio[p] # NoRadio
      /\ orig[p] \in Names /\ cur[p] \in Names /\ NoName \notin {orig[p], cur[p]}
  BY Equipment, WorldAssumption, SessionAssumption
     DEF SessionInv, Unnamed, Unresolved, Protected, UnderOrig, UnderCur, InSession
<1>2. label[radio[p]] \in {orig[p], cur[p]}
  BY DEF SessionInv, Staged, Stage, Protected
<1> QED
  BY <1>1, <1>2 DEF SessionInv, Apart, Rested

(* What another call does does not disturb it.                             *)
LEMMA Bystander ==
    ASSUME SessionInv, NEW p \in Procs, NEW q \in Procs, p # q, Alone(p)',
           Within(q), Elsewhere(q)
    PROVE  Stage(p)'
<1> DEFINE r == radio[p]
<1>1. /\ pc'[p] = pc[p] /\ op'[p] = op[p] /\ radio'[p] = r
      /\ orig'[p] = orig[p] /\ cur'[p] = cur[p] /\ Alone(p)
  BY DEF Elsewhere, Alone
<1>2. CASE pc[p] \in Protected
  <2>1. Stage(p)
    BY <1>1 DEF SessionInv, Staged
  <2>2. /\ r \in Radios /\ label[r] \in Names
        /\ radio[q] # r
        /\ orig[p] \notin {orig[q], cur[q]} /\ cur[p] \notin {orig[q], cur[q]}
        /\ label[r] \notin {orig[q], cur[q]}
    BY <1>1, <1>2, OwnRadio
  <2>3. mode'[r] = mode[r] /\ label'[r] = label[r] /\ nm'[r] = nm[r] /\ wpa'[r] = wpa[r]
    BY <2>2 DEF Within
  <2>4. Named(cur[p]) \subseteq {r} => Named(cur[p])' \subseteq {r}
    BY <1>1, <2>2 DEF Within, Named, Present
  <2> QED
    BY <1>1, <2>1, <2>3, <2>4 DEF Stage
<1>3. CASE pc[p] \notin Protected
  BY <1>1, <1>3 DEF Stage, Protected, UnderOrig, UnderCur, InSession, NmLetGo, WpaLetGo, Switched
<1> QED
  BY <1>2, <1>3

(* Neither does a service, or the loss of a radio.                         *)
LEMMA Undisturbed ==
    ASSUME SessionInv, NEW p \in Procs, Alone(p)', Environment,
           UNCHANGED <<pc, call, observers>>
    PROVE  Stage(p)'
<1> DEFINE r == radio[p]
<1>1. UNCHANGED <<pc, op, radio, orig, cur>> /\ Alone(p)
  BY DEF call, observers, Alone
<1>2. CASE pc[p] \in Protected
  <2>1. Stage(p) /\ r \in Radios
    BY <1>1, <1>2, OwnRadio DEF SessionInv, Staged
  <2>2. PICK s \in Radios : PullBack(s) \/ NmAdopt(s) \/ NmDrop(s) \/ Unplug(s)
    BY DEF Environment
  <2>3. /\ label' = label
        /\ \A t \in Radios : nm'[t] => nm[t]
        /\ \A t \in Radios : wpa[t] = "out" /\ ~nm[t] => wpa'[t] = "out"
        /\ \A t \in Radios : mode'[t] \in {mode[t], "gone"} \/ Held(t)
        /\ \A t \in Radios : mode[t] = "gone" => mode'[t] = "gone"
    BY <2>2 DEF PullBack, NmAdopt, NmDrop, Unplug, SessionInv, TypeOK, WorldTypeOK
  <2>4. Named(cur[p]) \subseteq {r} => Named(cur[p])' \subseteq {r}
    BY <1>1, <2>3 DEF Named, Present
  <2> QED
    BY <1>1, <2>1, <2>3, <2>4 DEF Stage, Held, Switched, WpaLetGo, NmLetGo
<1>3. CASE pc[p] \notin Protected
  BY <1>1, <1>3 DEF Stage, Protected, UnderOrig, UnderCur, InSession, NmLetGo, WpaLetGo, Switched
<1> QED
  BY <1>2, <1>3

(* Its own steps, one by one.  No probe may fail: a service that is running *)
(* and not seen is not asked to let go.                                    *)
NoFailedProbe == "probe" \notin FaultKinds

(* What Engage sets is what it was given.                                 *)
LEMMA Engaged ==
    ASSUME CallTypeOK, NEW p \in Procs, NEW r, NEW o, NEW c, NEW before,
           Engage(p, r, o, c, before)
    PROVE  radio'[p] = r /\ orig'[p] = o /\ cur'[p] = c
BY DEF CallTypeOK, Engage

(* A point that no stage is about has nothing to keep.                    *)
LEMMA OffStage ==
    ASSUME NEW p \in Procs, pc'[p] \notin Protected
    PROVE  Stage(p)'
BY DEF Stage, Protected, UnderOrig, UnderCur, InSession, NmLetGo, WpaLetGo, Switched

(* A call that is alone reaches each stage with what the stage needs.     *)
LEMMA OwnStep ==
    ASSUME SessionInv, NoFailedProbe, NEW p \in Procs, Alone(p)',
           Client(p) \/ Step(p) \/ Cancel(p) \/ Kill(p)
    PROVE  Stage(p)'
<1> DEFINE r == radio[p]
<1> USE DEF call, observers, SessionInv, Stage, NmLetGo, WpaLetGo, Switched, UnderOrig, UnderCur, InSession
<1>1. CASE StartOn(p) \/ StartAs(p)
  <2>1. PICK kind \in {"on", "as"}, n \in Names, new \in Names :
          StartNamed(p, kind, n, new) /\ (kind = "on" => new = n)
    BY <1>1, SessionAssumption DEF StartOn, StartAs
  <2>2. CASE UNCHANGED pc
    BY <2>1, <2>2, OffStage DEF StartNamed, Protected
  <2>3. ASSUME NEW s \in Named(n), Goto(p, "release"), op' = [op EXCEPT ![p] = kind],
               Engage(p, s, n, new, FALSE)
        PROVE  Stage(p)'
    <3>1. s \in Radios /\ label[s] = n
      BY DEF Named, Present
    <3>2. radio'[p] = s /\ orig'[p] = n /\ cur'[p] = new
      BY <2>3, <3>1, Engaged DEF TypeOK
    <3>3. pc'[p] = "release" /\ op'[p] = kind
      BY <2>3 DEF Goto, TypeOK, CallTypeOK
    <3>4. label' = label
      BY <2>1 DEF StartNamed, WorldButSpent
    <3> QED
      BY <2>1, <3>1, <3>2, <3>3, <3>4
  <2> QED
    BY <2>1, <2>2, <2>3 DEF StartNamed
<1>2. CASE TryNext(p)
  <2>1. PICK c \in todo[p] : Engage(p, c[1], c[2], c[2], Stale(c))
    BY <1>2 DEF TryNext
  <2>2. c[1] \in Radios /\ c[2] \in Names
    BY DEF TypeOK, CallTypeOK
  <2>3. radio'[p] = c[1] /\ orig'[p] = c[2] /\ cur'[p] = c[2]
    BY <2>1, <2>2, Engaged DEF Stale, TypeOK
  <2>4. label[c[1]] = c[2]
    BY <2>1 DEF Engage, Stale, Alone
  <2>5. pc'[p] = "release" /\ label' = label
    BY <1>2 DEF TryNext, Goto, TypeOK, CallTypeOK, world
  <2> QED
    BY <2>2, <2>3, <2>4, <2>5
<1> DEFINE InPlace == /\ UNCHANGED <<op, radio, orig, cur>>
                      /\ Alone(p) /\ Stage(p)
                      /\ r \in Radios /\ label[r] \in {orig[p], cur[p]}
                      /\ orig[p] \in Names /\ cur[p] \in Names
<1>3. ASSUME pc[p] \in Protected, UNCHANGED <<op, radio, orig, cur, spoiled>>
      PROVE  InPlace
  <2>1. Alone(p)
    BY <1>3 DEF Alone, Protected
  <2> QED
    BY <1>3, <2>1, OwnRadio DEF Staged
<1>4. CASE NmRelease(p)
  <2>1. /\ InPlace /\ label[r] = orig[p] /\ UNCHANGED <<mode, label, wpa>>
        /\ pc[p] = "release"
    BY <1>3, <1>4 DEF NmRelease, Protected
  <2>2. CASE Probe("nm", FALSE) /\ Goto(p, "wpaFind") /\ UNCHANGED nm
    <3>1. ~nm[r]
      BY <2>1, <2>2 DEF NoFailedProbe, Probe, Fault, WorldOK
    <3> QED
      BY <2>1, <2>2, <3>1 DEF Goto, TypeOK, CallTypeOK
  <2>3. CASE NmSet(orig[p], FALSE, TRUE) /\ Goto(p, "wpaFind")
    <3>1. ~nm'[r]
      <4>1. CASE mode[r] = "gone"
        BY <2>1, <2>3, <4>1, NmSetType DEF WorldOK, Named, Present, TypeOK, WorldTypeOK
      <4>2. CASE r \in Named(orig[p])
        BY <2>1, <2>3, <4>2, NmSetType DEF TypeOK
      <4> QED
        BY <2>1, <4>1, <4>2 DEF Named, Present
    <3> QED
      BY <2>1, <2>3, <3>1 DEF Goto, TypeOK, CallTypeOK
  <2>4. CASE Goto(p, "rejected")
    BY <2>4, OffStage DEF Goto, TypeOK, CallTypeOK, Protected
  <2> QED
    BY <1>4, <2>2, <2>3, <2>4 DEF NmRelease
<1>5. CASE WpaFind(p)
  <2>1. /\ InPlace /\ label[r] = orig[p] /\ UNCHANGED <<mode, label, nm, wpa>>
        /\ pc[p] = "wpaFind"
    BY <1>3, <1>5 DEF WpaFind, Protected, WorldButSpent
  <2>2. CASE Goto(p, "switch") /\ (Probe("wpa", FALSE) \/ WpaKnows(orig[p], FALSE))
    <3>1. wpa[r] = "out"
      BY <2>1, <2>2 DEF NoFailedProbe, Probe, WpaKnows, Fault, WorldOK, Named, Present
    <3> QED
      BY <2>1, <2>2, <3>1 DEF Goto, TypeOK, CallTypeOK
  <2>3. CASE Goto(p, "wpaDrop")
    BY <2>1, <2>3 DEF Goto, TypeOK, CallTypeOK
  <2>4. CASE Goto(p, "rejected")
    BY <2>4, OffStage DEF Goto, TypeOK, CallTypeOK, Protected
  <2> QED
    BY <1>5, <2>2, <2>3, <2>4 DEF WpaFind
<1>6. CASE WpaDrop(p)
  <2>1. /\ InPlace /\ label[r] = orig[p] /\ UNCHANGED <<mode, label, nm>>
        /\ pc[p] = "wpaDrop"
    BY <1>3, <1>6 DEF WpaDrop, Protected
  <2>2. CASE Goto(p, "switch") /\ WpaSet(orig[p], "out", TRUE)
    <3>1. wpa'[r] = "out"
      <4>1. CASE mode[r] = "gone"
        BY <2>1, <2>2, <4>1, WpaSetType DEF WorldOK, Named, Present, TypeOK
      <4>2. CASE r \in Named(orig[p])
        BY <2>1, <2>2, <4>2, WpaSetType DEF TypeOK
      <4> QED
        BY <2>1, <4>1, <4>2 DEF Named, Present
    <3> QED
      BY <2>1, <2>2, <3>1 DEF Goto, TypeOK, CallTypeOK
  <2>3. CASE Goto(p, "rejected")
    BY <2>3, OffStage DEF Goto, TypeOK, CallTypeOK, Protected
  <2> QED
    BY <1>6, <2>2, <2>3 DEF WpaDrop
<1>7. CASE SwitchOn(p)
  <2>1. InPlace /\ UNCHANGED <<label, nm, wpa>> /\ pc[p] = "switch"
    BY <1>3, <1>7 DEF SwitchOn, Protected
  <2>2. CASE Goto(p, "confirm")
    BY <2>1, <2>2 DEF Goto, TypeOK, CallTypeOK
  <2>3. CASE Goto(p, "giveNm")
    BY <2>3, OffStage DEF Goto, TypeOK, CallTypeOK, Protected
  <2> QED
    BY <1>7, <2>2, <2>3 DEF SwitchOn
<1>8. CASE Confirm(p)
  <2>1. InPlace /\ UNCHANGED <<mode, label, nm, wpa>> /\ pc[p] = "confirm"
    BY <1>3, <1>8 DEF Confirm, Protected, WorldButSpent
  <2>2. CASE Goto(p, "undoMode")
    BY <2>2, OffStage DEF Goto, TypeOK, CallTypeOK, Protected
  <2>3. CASE /\ mode[r] = "monitor"
             /\ Goto(p, IF op[p] = "as" THEN "rename" ELSE "tune")
    BY <2>1, <2>3 DEF Goto, TypeOK, CallTypeOK
  <2> QED
    BY <1>8, <2>2, <2>3 DEF Confirm, ReadMode
<1>9. CASE RenameOn(p)
  <2>1. InPlace /\ UNCHANGED <<mode, nm, wpa>> /\ pc[p] = "rename"
    BY <1>3, <1>9 DEF RenameOn, Protected
  <2>2. CASE Goto(p, "refind") /\ Rename(r, cur[p], TRUE)
    <3>1. label'[r] = cur[p] /\ Named(cur[p]) \subseteq {r}
      BY <2>1, <2>2, RenameType DEF TypeOK
    <3>2. \A s \in Radios \ {r} : label'[s] = label[s]
      BY <2>1, <2>2, RenameType DEF TypeOK
    <3>3. Named(cur[p])' \subseteq {r}
      BY <2>1, <3>1, <3>2 DEF Named, Present
    <3> QED
      BY <2>1, <2>2, <3>1, <3>3 DEF Goto, TypeOK, CallTypeOK
  <2>3. CASE Goto(p, "undoName")
    BY <2>3, OffStage DEF Goto, TypeOK, CallTypeOK, Protected
  <2> QED
    BY <1>9, <2>2, <2>3 DEF RenameOn
<1>10. CASE Refind(p)
  <2>1. pc[p] = "refind" /\ op' = op /\ UNCHANGED <<mode, label, nm, wpa>>
    BY <1>10 DEF Refind, WorldButSpent
  <2>2. CASE Goto(p, "undoName")
    BY <2>2, OffStage DEF Goto, TypeOK, CallTypeOK, Protected
  <2>3. ASSUME NEW s \in Named(cur[p]), Resolve(p, s), Goto(p, "tune")
        PROVE  Stage(p)'
    <3>1. Alone(p)
      BY <2>1, <2>3 DEF Alone, Resolve, Engage
    <3>2. Stage(p) /\ s = r
      BY <2>1, <2>3, <3>1 DEF Staged
    <3>3. radio'[p] = r /\ orig'[p] = orig[p] /\ cur'[p] = cur[p]
      BY <2>3, <3>2, Engaged DEF Resolve, TypeOK
    <3> QED
      BY <2>1, <2>3, <3>2, <3>3 DEF Goto, TypeOK, CallTypeOK
  <2> QED
    BY <1>10, <2>2, <2>3 DEF Refind
<1>11. CASE Tune(p)
  <2>1. /\ pc[p] = "tune" /\ UNCHANGED <<radio, orig, cur, mode, label, nm, wpa>>
        /\ Alone(p)
    BY <1>11 DEF Tune, world, Alone
  <2>2. CASE Goto(p, "open")
    BY <2>1, <2>2 DEF Goto, TypeOK, CallTypeOK, Staged
  <2>3. CASE Goto(p, "restore")
    BY <2>3, OffStage DEF Goto, TypeOK, CallTypeOK, Protected
  <2> QED
    BY <1>11, <2>2, <2>3 DEF Tune
<1>12. CASE pc'[p] \notin Protected
  BY <1>12, OffStage
<1>13. CASE \/ StartAuto(p) \/ StopMonitor(p) \/ StopAll(p) \/ Restore(p) \/ Persist(p)
            \/ Rejected(p) \/ UndoName(p) \/ UndoMode(p) \/ Finish(p) \/ Kill(p) \/ Cancel(p)
  BY <1>12, <1>13 DEF StartAuto, StopMonitor, StopAll, Restore, Persist, Rejected,
     UndoName, UndoMode, Finish, Kill, Cancel, Return, Goto, Protected, TypeOK, CallTypeOK, call
<1>14. CASE \/ GiveNm(p) \/ GiveWpa(p) \/ GiveWpaAdd(p) \/ RestoreFind(p) \/ RenameBack(p)
            \/ LeaveFind(p) \/ SwitchOff(p) \/ ConfirmOff(p) \/ Handback(p)
  BY <1>12, <1>14 DEF GiveNm, GiveWpa, GiveWpaAdd, RestoreFind, RenameBack, LeaveFind, LeaveFrom,
     SwitchOff, ConfirmOff, Handback, Reclaimed, Goto, Protected, TypeOK, CallTypeOK
<1> QED
  BY <1>1, <1>2, <1>4, <1>5, <1>6, <1>7, <1>8, <1>9, <1>10, <1>11, <1>13, <1>14
     DEF Client, Step

(* Every step keeps every call that is alone in its stage.                *)
LEMMA StagedStep == SessionInv /\ NoFailedProbe /\ [Next]_vars => Staged'
<1> SUFFICES ASSUME SessionInv, NoFailedProbe, [Next]_vars,
                    NEW p \in Procs, Alone(p)'
             PROVE  Stage(p)'
  BY DEF Staged
<1>1. CASE UNCHANGED vars
  BY <1>1 DEF vars, world, call, observers, SessionInv, Staged, Alone, Stage, Named, Present
<1>2. ASSUME NEW q \in Procs, Client(q) \/ Step(q) \/ Cancel(q) \/ Kill(q)
      PROVE  Stage(p)'
  <2>1. CASE q = p
    BY <1>2, <2>1, OwnStep
  <2>2. CASE q # p
    BY <1>2, <2>2, StepWithin, StepElsewhere, Bystander DEF SessionInv
  <2> QED
    BY <2>1, <2>2
<1>3. CASE Environment /\ UNCHANGED <<pc, call, observers>>
  BY <1>3, Undisturbed
<1> QED
  BY <1>1, <1>2, <1>3 DEF Next

---------------------------------------------------------------------------
(* The invariant holds on every host rfmon may be started on.             *)
LEMMA InitInv == Init => SessionInv
<1> SUFFICES ASSUME Init PROVE SessionInv
  OBVIOUS
<1>1. WorldTypeOK
  <2>1. PICK c \in [Radios -> BootCustody] :
          /\ nm = [r \in Radios |-> c[r].nm /\ "nm" \in running /\ mode[r] # "monitor"]
          /\ wpa = [r \in Radios |->
                      IF "wpa" \in running /\ mode[r] # "monitor"
                      THEN IF c[r].wpa = "nm" /\ ~nm[r] THEN "out" ELSE c[r].wpa
                      ELSE "out"]
    BY DEF Init, WorldInit
  <2>2. nm \in [Radios -> BOOLEAN]
    BY <2>1
  <2>3. \A r \in Radios : c[r].wpa \in WpaStates
    BY WorldAssumption DEF Custody
  <2>4. wpa \in [Radios -> WpaStates]
    BY <2>1, <2>3
  <2> QED
    <3>1. /\ mode \in [Radios -> BootModes] /\ running \in BootServices
          /\ label = Home /\ spent = 0
      BY DEF Init, WorldInit
    <3>2. mode \in [Radios -> Modes]
      BY <3>1, WorldAssumption
    <3> QED
      BY <2>2, <2>4, <3>1, <3>2, WorldAssumption DEF WorldTypeOK
<1>2. CallsTypeOK
  <2>1. CallTypeOK
    BY DEF Init, CallTypeOK, Points, Ops
  <2>2. ObserversTypeOK
    BY DEF Init, ObserversTypeOK, NotFound
  <2>3. \A q \in Procs : Equipped(q)
    BY DEF Init, Equipped, Unnamed, Unresolved
  <2> QED
    BY <2>1, <2>2, <2>3 DEF CallsTypeOK
<1>3. WorldOK
  BY WorldAssumption DEF Init, WorldInit, WorldOK
<1>4. HeldRuns /\ Rested /\ Apart /\ Staged
  BY DEF Init, HeldRuns, Rested, Apart, Staged, Alone
<1> QED
  BY <1>1, <1>2, <1>3, <1>4 DEF SessionInv, TypeOK, CallsTypeOK

(* The calls and the world stay typed, whatever the services and the other *)
(* callers do and whichever operation fails.                               *)
THEOREM TypeCorrect == Spec => []TypeOK
<1>1. Init => TypeOK
  BY InitInv DEF SessionInv
<1>2. TypeOK /\ [Next]_vars => TypeOK'
  BY WorldTypeStep, CallTypeStep DEF TypeOK, CallsTypeOK
<1> QED
  BY <1>1, <1>2, PTL DEF Spec

(* A service holds only radios that are plugged in, runs when it holds one, *)
(* and the names of the radios that are there stay distinct.                *)
THEOREM WorldConsistent == Spec => []WorldOK
<1>1. Init => WorldInv
  BY InitInv DEF SessionInv, WorldInv
<1>2. WorldInv /\ [Next]_vars => WorldInv'
  BY WorldInvStep, WorldTypeStep, CallTypeStep DEF WorldInv, TypeOK, CallsTypeOK
<1>3. WorldInv => WorldOK
  BY DEF WorldInv
<1> QED
  BY <1>1, <1>2, <1>3, PTL DEF Spec

(* What every point on the way into a session knows is inductive.           *)
THEOREM SessionInvariant ==
    ASSUME NoFailedProbe
    PROVE  Spec => []SessionInv
<1>1. Init => SessionInv
  BY InitInv
<1>2. SessionInv /\ [Next]_vars => SessionInv'
  <2> SUFFICES ASSUME SessionInv, [Next]_vars PROVE SessionInv'
    OBVIOUS
  <2>1. TypeOK'
    BY WorldTypeStep, CallTypeStep DEF SessionInv, TypeOK, CallsTypeOK
  <2>2. WorldOK' /\ HeldRuns'
    BY WorldInvStep DEF SessionInv, WorldInv
  <2>3. Rested' /\ Apart'
    BY ApartStep DEF SessionInv
  <2>4. Staged'
    BY StagedStep
  <2> QED
    BY <2>1, <2>2, <2>3, <2>4 DEF SessionInv
<1> QED
  BY <1>1, <1>2, PTL DEF Spec

(* A session nobody interferes with stays one, provided the probes of the   *)
(* services answer: its radio stays in monitor mode, under its name, and    *)
(* with no service that could pull it back.                                *)
THEOREM SessionsStayIntact ==
    ASSUME NoFailedProbe
    PROVE  Spec => []SessionIntact
<1>1. SessionInv => SessionIntact
  BY DEF SessionInv, Staged, Stage, Alone, SessionIntact, InSession, NmLetGo, WpaLetGo,
     Switched, UnderCur, Held
<1> QED
  BY <1>1, SessionInvariant, PTL

---------------------------------------------------------------------------
(* A call changes no radio but the one it resolved, for any radios, names,  *)
(* callers and failures, failed probes included.  The kernel is addressed   *)
(* by ifindex, so that only the services can be misdirected: they are given *)
(* a name, and OwnInv says that the name means the right radio or none.     *)

HIDE DEF Services, Modes, WpaStates

(* Any step of a call or of whoever makes it.                              *)
Calling(q) == Client(q) \/ Step(q) \/ Cancel(q) \/ Kill(q)

(* A call that is alone keeps its name to itself: another one touches       *)
(* neither it nor any radio of that name.                                  *)
LEMMA SoleBystander ==
    ASSUME OwnInv, NEW p \in Procs, NEW q \in Procs, p # q, Alone(p)',
           Within(q), Elsewhere(q)
    PROVE  Sole(p)'
<1>1. /\ pc'[p] = pc[p] /\ radio'[p] = radio[p] /\ orig'[p] = orig[p] /\ Alone(p)
  BY DEF Elsewhere, Alone
<1>2. CASE pc[p] \in Addressing
  <2>1. orig[p] \in Names
    BY <1>2, Equipment DEF OwnInv, Addressing, RollingBack, HandingBack, Unnamed
  <2>2. orig[p] \notin {orig[q], cur[q]}
    BY <1>1, <2>1, WorldAssumption DEF OwnInv, Apart, Rested
  <2>3. Named(orig[p])' \subseteq Named(orig[p])
    BY <1>1, <2>2 DEF Within, Named, Present
  <2> QED
    BY <1>1, <1>2, <2>3 DEF OwnInv, Sole
<1>3. CASE pc[p] \notin Addressing
  BY <1>1, <1>3 DEF Sole
<1> QED
  BY <1>2, <1>3

(* The services rename nothing, and no radio comes.                        *)
LEMMA SoleUndisturbed ==
    ASSUME OwnInv, NEW p \in Procs, Alone(p)', Environment,
           UNCHANGED <<pc, call, observers>>
    PROVE  Sole(p)'
<1>1. UNCHANGED <<pc, radio, orig>> /\ Alone(p)
  BY DEF call, observers, Alone
<1>2. /\ label' = label
      /\ \A t \in Radios : mode[t] = "gone" => mode'[t] = "gone"
  BY DEF Environment, PullBack, NmAdopt, NmDrop, Unplug, OwnInv, TypeOK, WorldTypeOK
<1>3. Named(orig[p])' \subseteq Named(orig[p])
  BY <1>1, <1>2 DEF Named, Present
<1> QED
  BY <1>1, <1>3 DEF OwnInv, Sole

(* A call on its way that goes on with its radio and its name.             *)
GoesOn(p) ==
    pc'[p] \in Addressing =>
        /\ pc[p] \in Addressing /\ radio'[p] = radio[p] /\ orig'[p] = orig[p]
        /\ spoiled'[p] = spoiled[p]

(* ... which it does at every step that does not resolve a name.           *)
LEMMA StepGoesOn ==
    ASSUME TypeOK, NEW p \in Procs, Step(p), ~TryNext(p), ~LeaveFind(p), ~Refind(p)
    PROVE  GoesOn(p)
<1> USE DEF GoesOn, TypeOK, CallTypeOK, Goto, Addressing, RollingBack, HandingBack,
        call, observers
<1>1. CASE NmRelease(p) \/ WpaFind(p) \/ WpaDrop(p) \/ SwitchOn(p)
  BY <1>1 DEF NmRelease, WpaFind, WpaDrop, SwitchOn
<1>2. CASE Confirm(p) \/ RenameOn(p) \/ Tune(p)
  BY <1>2 DEF Confirm, RenameOn, Tune
<1>3. CASE UndoName(p) \/ UndoMode(p) \/ SwitchOff(p) \/ ConfirmOff(p) \/ Handback(p)
  BY <1>3 DEF UndoName, UndoMode, SwitchOff, ConfirmOff, Handback
<1>4. CASE GiveNm(p) \/ GiveWpa(p) \/ GiveWpaAdd(p)
  BY <1>4 DEF GiveNm, GiveWpa, GiveWpaAdd, Reclaimed
<1>5. CASE Rejected(p)
  BY <1>5 DEF Rejected, Return
<1>6. CASE RestoreFind(p)
  BY <1>6 DEF RestoreFind, Resolve, Engage
<1>7. CASE RenameBack(p)
  BY <1>7 DEF RenameBack
<1>8. CASE Finish(p)
  BY <1>8 DEF Finish, Return, Engage
<1> QED
  BY <1>1, <1>2, <1>3, <1>4, <1>5, <1>6, <1>7, <1>8 DEF Step

(* A call's own step brings it to the addressing points with a radio that   *)
(* has its name for itself.                                                *)
LEMMA SoleOwnStep ==
    ASSUME OwnInv, NEW p \in Procs, Alone(p)', Calling(p)
    PROVE  Sole(p)'
<1> USE DEF OwnInv
<1>1. Within(p)
  BY StepWithin DEF Calling
<1>2. ASSUME GoesOn(p) PROVE Sole(p)'
  <2>1. CASE pc'[p] \in Addressing
    <3>1. pc[p] # "idle" /\ Sole(p)
      BY <1>2, <2>1 DEF GoesOn, Alone, Addressing, RollingBack, HandingBack
    <3>2. Named(orig[p])' \subseteq {radio[p]}
      BY <1>1, <1>2, <2>1, <3>1 DEF GoesOn, Within, Named, Present, Sole
    <3> QED
      BY <1>2, <2>1, <3>2 DEF GoesOn, Sole
  <2> QED
    BY <2>1 DEF Sole
<1>3. ASSUME NEW r \in Radios, mode[r] # "gone", label[r] = orig'[p], radio'[p] = r,
             UNCHANGED <<mode, label>>
      PROVE  Sole(p)'
  BY <1>3 DEF Sole, Named, Present, WorldOK
<1>4. CASE Client(p)
  <2>1. CASE StartAuto(p) \/ StopAll(p) \/ StopMonitor(p)
    <3>1. pc'[p] \in {"idle", "next", "sweep", "leaveFind"}
      BY <2>1 DEF StartAuto, StopAll, StopMonitor, Goto, TypeOK, CallTypeOK
    <3> QED
      BY <3>1 DEF Sole, Addressing, RollingBack, HandingBack
  <2>2. ASSUME NEW kind, NEW n \in Names, NEW new, StartNamed(p, kind, n, new)
        PROVE  Sole(p)'
    <3>1. CASE UNCHANGED pc
      BY <2>2, <3>1 DEF StartNamed, Sole, Addressing, RollingBack, HandingBack
    <3>2. CASE ~UNCHANGED pc
      <4>1. PICK seen \in {Named(n), {}} : \E r \in seen : Engage(p, r, n, new, FALSE)
        BY <2>2, <3>2 DEF StartNamed
      <4>2. PICK r \in seen : Engage(p, r, n, new, FALSE)
        BY <4>1
      <4>3. r \in Radios /\ mode[r] # "gone" /\ label[r] = n
        BY <4>1, <4>2 DEF Named, Present
      <4>4. radio'[p] = r /\ orig'[p] = n
        BY <4>2, Engaged DEF TypeOK
      <4>5. UNCHANGED <<mode, label>>
        BY <2>2 DEF StartNamed, WorldButSpent
      <4> QED
        BY <1>3, <4>3, <4>4, <4>5
    <3> QED
      BY <3>1, <3>2
  <2>3. CASE Restore(p) \/ Persist(p)
    BY <2>3 DEF Restore, Persist, Return, Goto, TypeOK, CallTypeOK, Sole,
       Addressing, RollingBack, HandingBack
  <2> QED
    BY <1>4, <2>1, <2>2, <2>3, SessionAssumption DEF Client, StartOn, StartAs
<1>5. CASE TryNext(p)
  <2>1. PICK c \in todo[p] : Engage(p, c[1], c[2], c[2], Stale(c))
    BY <1>5 DEF TryNext
  <2>2. c[1] \in Radios
    BY <2>1 DEF TypeOK, CallTypeOK
  <2>3. radio'[p] = c[1] /\ orig'[p] = c[2]
    BY <2>1, Engaged DEF TypeOK
  <2>4. ~Stale(c)
    BY <2>1 DEF Engage, Alone, Stale, TypeOK, ObserversTypeOK
  <2> QED
    BY <1>3, <1>5, <2>2, <2>3, <2>4 DEF TryNext, Stale, world
<1>6. CASE LeaveFind(p)
  <2>1. pc[p] = "leaveFind" /\ UNCHANGED <<mode, label>>
    BY <1>6 DEF LeaveFind, WorldButSpent
  <2>2. CASE Goto(p, "failed")
    BY <2>2 DEF Goto, TypeOK, CallTypeOK, Sole, Addressing, RollingBack, HandingBack
  <2>3. CASE \E r \in Named(orig[p]) : Resolve(p, r)
    <3>1. PICK r \in Named(orig[p]) : Resolve(p, r)
      BY <2>3
    <3>2. r \in Radios /\ mode[r] # "gone" /\ label[r] = orig[p]
      BY <3>1 DEF Named, Present
    <3>3. radio'[p] = r /\ orig'[p] = orig[p]
      BY <3>1, Engaged DEF Resolve, TypeOK
    <3> QED
      BY <1>3, <2>1, <3>2, <3>3
  <2> QED
    BY <1>6, <2>2, <2>3 DEF LeaveFind
<1>7. CASE Refind(p)
  <2>1. CASE Goto(p, "undoName") /\ UNCHANGED <<radio, orig, cur, spoiled>>
    BY <1>2, <1>7, <2>1 DEF Refind, GoesOn, Addressing, RollingBack
  <2>2. CASE Goto(p, "tune")
    BY <2>2 DEF Goto, TypeOK, CallTypeOK, Sole, Addressing, RollingBack, HandingBack
  <2> QED
    BY <1>7, <2>1, <2>2 DEF Refind
<1>8. CASE Step(p) /\ ~TryNext(p) /\ ~LeaveFind(p) /\ ~Refind(p)
  BY <1>2, <1>8, StepGoesOn
<1>9. CASE Cancel(p) \/ Kill(p)
  BY <1>9 DEF Cancel, Kill, Return, Goto, TypeOK, CallTypeOK, Sole, Addressing,
     RollingBack, HandingBack
<1> QED
  BY <1>4, <1>5, <1>6, <1>7, <1>8, <1>9 DEF Calling

(* Every step keeps every name to the radio it was resolved to.            *)
LEMMA OwnStepKeeps == OwnInv /\ [Next]_vars => OwnInv'
<1> SUFFICES ASSUME OwnInv, [Next]_vars PROVE OwnInv'
  OBVIOUS
<1>1. TypeOK'
  BY WorldTypeStep, CallTypeStep DEF OwnInv, TypeOK, CallsTypeOK
<1>2. WorldOK' /\ HeldRuns'
  BY WorldInvStep DEF OwnInv, WorldInv
<1>3. Rested' /\ Apart'
  BY ApartStep DEF OwnInv
<1>4. ASSUME NEW p \in Procs, Alone(p)' PROVE Sole(p)'
  <2>1. CASE UNCHANGED vars
    BY <1>4, <2>1 DEF vars, world, call, observers, OwnInv, Sole, Alone, Named, Present
  <2>2. ASSUME NEW q \in Procs, Calling(q) PROVE Sole(p)'
    <3>1. CASE q = p
      BY <1>4, <2>2, <3>1, SoleOwnStep
    <3>2. CASE q # p
      BY <1>4, <2>2, <3>2, SoleBystander, StepWithin, StepElsewhere DEF Calling, OwnInv
    <3> QED
      BY <3>1, <3>2
  <2>3. CASE Environment /\ UNCHANGED <<pc, call, observers>>
    BY <1>4, <2>3, SoleUndisturbed
  <2> QED
    BY <2>1, <2>2, <2>3 DEF Next, Calling
<1> QED
  BY <1>1, <1>2, <1>3, <1>4 DEF OwnInv

(* The names a call gives the services mean its radio or none.             *)
THEOREM NamesMeanOwnRadio == Spec => []OwnInv
<1>1. Init => OwnInv
  BY InitInv DEF SessionInv, OwnInv, Init, Alone
<1> QED
  BY <1>1, OwnStepKeeps, PTL DEF Spec

---------------------------------------------------------------------------
(* The services are told about the radios of a call's name, and only at the *)
(* addressing points.                                                      *)
LEMMA ServicesByName ==
    ASSUME TypeOK, NEW p \in Procs, Calling(p)
    PROVE  \/ UNCHANGED <<nm, wpa>>
           \/ /\ pc[p] \in Addressing
              /\ \A s \in Radios \ Named(orig[p]) : nm'[s] = nm[s] /\ wpa'[s] = wpa[s]
<1> USE DEF TypeOK, Unnamed, Unresolved, Addressing, RollingBack, HandingBack
<1>1. CASE NmRelease(p)
  BY <1>1, NmSetType, Equipment DEF NmRelease
<1>2. CASE WpaDrop(p)
  BY <1>2, WpaSetType, Equipment DEF WpaDrop, WpaStates
<1>3. CASE GiveNm(p)
  BY <1>3, NmSetType, Equipment DEF GiveNm, HandbackName
<1>4. CASE GiveWpaAdd(p)
  BY <1>4, WpaSetType, Equipment DEF GiveWpaAdd, HandbackName, WpaStates
<1>5. CASE Client(p) \/ Cancel(p) \/ Kill(p)
  BY <1>5 DEF Client, StartAuto, StartOn, StartAs, StartNamed, StopMonitor,
     StopAll, Restore, Persist, Cancel, Kill, WorldButSpent, world
<1>6. CASE SwitchOn(p) \/ RenameOn(p) \/ UndoName(p) \/ UndoMode(p) \/ RenameBack(p)
           \/ SwitchOff(p)
  BY <1>6 DEF SwitchOn, RenameOn, UndoName, UndoMode, RenameBack, SwitchOff
<1>7. CASE TryNext(p) \/ WpaFind(p) \/ Confirm(p) \/ Refind(p) \/ Tune(p) \/ GiveWpa(p)
            \/ Rejected(p) \/ RestoreFind(p) \/ LeaveFind(p) \/ ConfirmOff(p)
            \/ Handback(p) \/ Finish(p)
  BY <1>7 DEF TryNext, WpaFind, Confirm, Refind, Tune, GiveWpa, Rejected,
     RestoreFind, LeaveFind, ConfirmOff, Handback, Finish, WorldButSpent, world
<1> QED
  BY <1>1, <1>2, <1>3, <1>4, <1>5, <1>6, <1>7 DEF Calling, Step

(* A call no other one overlaps changes the mode, the name and the custody  *)
(* of no radio but its own, although names change hands around it.         *)
THEOREM CallsKeepToTheirRadio == Spec => OwnRadioOnly
<1>1. OwnInv /\ [Next]_vars =>
        [\A p \in Procs : pc[p] # "idle" /\ pc'[p] # pc[p] /\ ~spoiled[p] =>
            \A r \in Radios \ {radio[p]} :
                /\ mode'[r] = mode[r] /\ label'[r] = label[r]
                /\ nm'[r] = nm[r] /\ wpa'[r] = wpa[r]]_vars
  <2> SUFFICES ASSUME OwnInv, Next, NEW p \in Procs, pc[p] # "idle",
                      pc'[p] # pc[p], ~spoiled[p], NEW r \in Radios \ {radio[p]}
               PROVE  /\ mode'[r] = mode[r] /\ label'[r] = label[r]
                      /\ nm'[r] = nm[r] /\ wpa'[r] = wpa[r]
    OBVIOUS
  <2>1. Calling(p)
    <3>1. ASSUME NEW q \in Procs, Calling(q) PROVE q = p
      BY <3>1, StepElsewhere DEF Calling, Elsewhere, OwnInv
    <3> QED
      BY <3>1 DEF Next, Calling
  <2>2. mode'[r] = mode[r] /\ label'[r] = label[r]
    BY <2>1, StepWithin DEF Calling, Within, OwnInv
  <2>3. pc[p] \in Addressing => r \notin Named(orig[p])
    BY DEF OwnInv, Alone, Sole
  <2>4. nm'[r] = nm[r] /\ wpa'[r] = wpa[r]
    BY <2>1, <2>3, ServicesByName DEF OwnInv
  <2> QED
    BY <2>2, <2>4
<1> QED
  BY <1>1, NamesMeanOwnRadio, PTL DEF Spec, OwnRadioOnly

=============================================================================
