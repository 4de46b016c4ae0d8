--------------------------- MODULE RecoveryProofs ---------------------------
(***************************************************************************)
(* What rfmon leaves behind: a stop or restore that succeeds gives the     *)
(* radio back to every service, a start that fails leaves it as found, and *)
(* no service is handed a radio in monitor mode.  For any radios, names,   *)
(* callers and hosts, where the services answer (Careful).                 *)
(***************************************************************************)
EXTENDS SessionProofs

(* A step meets one failure at most, and none when the budget is spent.    *)
LEMMA StepSpends ==
    ASSUME TypeOK, Next
    PROVE  spent' = spent \/ (spent < MaxFaults /\ spent' = spent + 1)
<1> USE DEF Smooth, Fault, Find, Snapshot, SetMode, ReadMode, Rename, NmSet, WpaKnows, WpaSet,
        Probe, WorldButSpent, world, TypeOK, WorldTypeOK
<1>1. ASSUME NEW p \in Procs, Client(p)
      PROVE  spent' = spent \/ (spent < MaxFaults /\ spent' = spent + 1)
  BY <1>1 DEF Client, StartAuto, StartOn, StartAs, StartNamed, StopMonitor, StopAll, Restore,
     Persist
<1>2. ASSUME NEW p \in Procs, Step(p)
      PROVE  spent' = spent \/ (spent < MaxFaults /\ spent' = spent + 1)
  <2>1. CASE TryNext(p) \/ NmRelease(p) \/ WpaFind(p) \/ WpaDrop(p)
    BY <2>1 DEF TryNext, NmRelease, WpaFind, WpaDrop
  <2>2. CASE SwitchOn(p) \/ Confirm(p) \/ RenameOn(p) \/ Refind(p) \/ Tune(p)
    BY <2>2 DEF SwitchOn, Confirm, RenameOn, Refind, Tune
  <2>3. CASE UndoName(p) \/ UndoMode(p) \/ GiveNm(p) \/ GiveWpa(p) \/ GiveWpaAdd(p)
    BY <2>3 DEF UndoName, UndoMode, GiveNm, GiveWpa, GiveWpaAdd
  <2>4. CASE Rejected(p) \/ RestoreFind(p) \/ RenameBack(p) \/ LeaveFind(p)
    BY <2>4 DEF Rejected, RestoreFind, RenameBack, LeaveFind
  <2>5. CASE SwitchOff(p) \/ ConfirmOff(p) \/ Handback(p) \/ Finish(p)
    BY <2>5 DEF SwitchOff, ConfirmOff, Handback, Finish
  <2> QED
    BY <1>2, <2>1, <2>2, <2>3, <2>4, <2>5 DEF Step
<1>3. ASSUME NEW p \in Procs, Cancel(p) \/ Kill(p)
      PROVE  spent' = spent \/ (spent < MaxFaults /\ spent' = spent + 1)
  BY <1>3 DEF Cancel, Kill
<1>4. CASE Environment
  BY <1>4 DEF Environment, PullBack, NmAdopt, NmDrop, Unplug
<1> QED
  BY <1>1, <1>2, <1>3, <1>4 DEF Next

(* So a failure that was met stays met.                                    *)
LEMMA SpareStays ==
    ASSUME TypeOK, [Next]_vars, Spare
    PROVE  Spare'
<1>1. spent \in Nat /\ MaxFaults \in Nat
  BY WorldAssumption DEF TypeOK, WorldTypeOK
<1>2. spent' = spent \/ spent' = spent + 1
  BY StepSpends DEF vars, world
<1> QED
  BY <1>1, <1>2 DEF Spare

RecordsElsewhere(q) ==
    \A p \in Procs \ {q} : held'[p] = held[p] /\ found'[p] = found[p]

(* What a call has recorded is its own: no other caller's step changes it. *)
LEMMA RecordsApart ==
    ASSUME TypeOK, NEW q \in Procs, Calling(q)
    PROVE  RecordsElsewhere(q)
<1> USE DEF RecordsElsewhere, TypeOK, CallTypeOK, ObserversTypeOK, call, observers, Return, Hold
<1>1. CASE Client(q) \/ Cancel(q) \/ Kill(q)
  BY <1>1 DEF Client, StartAuto, StartOn, StartAs, StartNamed, StopMonitor, StopAll, Restore,
     Persist, Cancel, Kill
<1>2. CASE TryNext(q) \/ NmRelease(q) \/ WpaFind(q) \/ WpaDrop(q)
  BY <1>2 DEF TryNext, NmRelease, WpaFind, WpaDrop
<1>3. CASE SwitchOn(q) \/ Confirm(q) \/ RenameOn(q) \/ Refind(q) \/ Tune(q)
  BY <1>3 DEF SwitchOn, Confirm, RenameOn, Refind, Tune
<1>4. CASE UndoName(q) \/ UndoMode(q) \/ GiveNm(q) \/ GiveWpa(q) \/ GiveWpaAdd(q)
  BY <1>4 DEF UndoName, UndoMode, GiveNm, GiveWpa, GiveWpaAdd
<1>5. CASE Rejected(q) \/ RestoreFind(q) \/ RenameBack(q) \/ LeaveFind(q)
  BY <1>5 DEF Rejected, RestoreFind, RenameBack, LeaveFind
<1>6. CASE SwitchOff(q) \/ ConfirmOff(q) \/ Handback(q) \/ Finish(q)
  BY <1>6 DEF SwitchOff, ConfirmOff, Handback, Finish
<1> QED
  BY <1>1, <1>2, <1>3, <1>4, <1>5, <1>6 DEF Calling, Step

---------------------------------------------------------------------------
(* The points of a start are reached by starts, those of a stop by stops.  *)
LEMMA KindOwnStep ==
    ASSUME TypeOK, Kinds, NEW p \in Procs, Calling(p)
    PROVE  Kind(p)'
<1> USE DEF TypeOK, CallTypeOK, Kinds, Kind, Goto, Trying, StopPoints, Starts, Entering,
        RollingBack, HandingBack, Leaving, InSession, call, observers
<1>1. CASE Client(p)
  <2>1. CASE StartAuto(p) \/ StopAll(p)
    BY <2>1 DEF StartAuto, StopAll
  <2>4. CASE StopMonitor(p)
    BY <2>4 DEF StopMonitor
  <2>2. CASE \/ "on" \in Calls /\ StartOn(p)
             \/ "as" \in Calls /\ StartAs(p)
    BY <2>2 DEF StartOn, StartAs, StartNamed
  <2>3. CASE Restore(p) \/ Persist(p)
    BY <2>3 DEF Restore, Persist, Return
  <2> QED
    BY <1>1, <2>1, <2>2, <2>3, <2>4 DEF Client
<1>2. CASE TryNext(p) \/ NmRelease(p) \/ WpaFind(p) \/ WpaDrop(p)
  BY <1>2 DEF TryNext, NmRelease, WpaFind, WpaDrop
<1>3. CASE SwitchOn(p) \/ Confirm(p) \/ RenameOn(p) \/ Refind(p) \/ Tune(p)
  BY <1>3 DEF SwitchOn, Confirm, RenameOn, Refind, Tune
<1>4. CASE UndoName(p) \/ UndoMode(p) \/ GiveNm(p) \/ GiveWpa(p) \/ GiveWpaAdd(p)
  BY <1>4 DEF UndoName, UndoMode, GiveNm, GiveWpa, GiveWpaAdd, Reclaimed
<1>5. CASE RestoreFind(p) \/ RenameBack(p)
  BY <1>5 DEF RestoreFind, RenameBack
<1>8. CASE LeaveFind(p)
  BY <1>8 DEF LeaveFind, LeaveFrom
<1>9. CASE Rejected(p)
  BY <1>9 DEF Rejected, Return
<1>6. CASE SwitchOff(p) \/ ConfirmOff(p) \/ Handback(p) \/ Finish(p)
  BY <1>6 DEF SwitchOff, ConfirmOff, Handback, Finish, Return
<1>7. CASE Cancel(p) \/ Kill(p)
  BY <1>7 DEF Cancel, Kill, Return
<1> QED
  BY <1>1, <1>2, <1>3, <1>4, <1>5, <1>6, <1>7, <1>8, <1>9 DEF Calling, Step

(* Every step keeps every point to its kind of call.                       *)
LEMMA KindsStep == TypeOK /\ Kinds /\ [Next]_vars => Kinds'
<1> SUFFICES ASSUME TypeOK, Kinds, [Next]_vars, NEW p \in Procs PROVE Kind(p)'
  BY DEF Kinds
<1>1. CASE UNCHANGED vars \/ (Environment /\ UNCHANGED <<pc, call, observers>>)
  BY <1>1 DEF vars, call, Kinds, Kind
<1>2. ASSUME NEW q \in Procs, Calling(q) PROVE Kind(p)'
  <2>1. CASE q = p
    BY <1>2, <2>1, KindOwnStep
  <2>2. CASE q # p
    BY <1>2, <2>2, StepElsewhere DEF Calling, Elsewhere, Kinds, Kind
  <2> QED
    BY <2>1, <2>2
<1> QED
  BY <1>1, <1>2 DEF Next, Calling

(* What a step of a call may do to the world: it starts and stops no        *)
(* service, adds radios to wpa_supplicant on rfmon's account, and sets     *)
(* monitor or managed mode.                                                *)
LEMMA WorldMoves ==
    ASSUME TypeOK, NEW q \in Procs, Calling(q)
    PROVE  /\ running' = running
           /\ \A r \in Radios : wpa'[r] \in {wpa[r], "out", "own"}
           /\ \A r \in Radios : mode'[r] \in {mode[r], "monitor", "managed"}
<1> USE DEF TypeOK, Unnamed, Unresolved
<1>1. CASE UNCHANGED <<mode, wpa, running>>
  BY <1>1
<1>2. CASE Client(q) \/ Cancel(q) \/ Kill(q)
  BY <1>1, <1>2 DEF Client, StartAuto, StartOn, StartAs, StartNamed, StopMonitor,
     StopAll, Restore, Persist, Cancel, Kill, WorldButSpent, world
<1>3. CASE TryNext(q) \/ NmRelease(q) \/ WpaFind(q) \/ Confirm(q) \/ RenameOn(q) \/ Refind(q)
            \/ Tune(q) \/ UndoName(q) \/ GiveNm(q) \/ GiveWpa(q) \/ Rejected(q)
            \/ RestoreFind(q) \/ RenameBack(q) \/ LeaveFind(q) \/ ConfirmOff(q)
            \/ Handback(q) \/ Finish(q)
  BY <1>1, <1>3 DEF TryNext, NmRelease, WpaFind, Confirm, RenameOn, Refind, Tune, UndoName,
     GiveNm, GiveWpa, Rejected, RestoreFind, RenameBack, LeaveFind, ConfirmOff, Handback,
     Finish, WorldButSpent, world
<1>4. CASE WpaDrop(q)
  <2>1. PICK ok \in BOOLEAN : WpaSet(orig[q], "out", ok)
    BY <1>4 DEF WpaDrop
  <2>2. orig[q] \in Names
    BY <1>4, Equipment DEF WpaDrop
  <2>3. \A r \in Radios : wpa'[r] \in {wpa[r], "out"}
    BY <2>1, <2>2, WpaSetType DEF WpaStates
  <2>4. UNCHANGED <<mode, running>>
    BY <1>4 DEF WpaDrop
  <2> QED
    BY <2>3, <2>4
<1>5. CASE GiveWpaAdd(q)
  <2>1. PICK ok \in BOOLEAN : WpaSet(orig[q], "own", ok)
    BY <1>5 DEF GiveWpaAdd, HandbackName
  <2>2. orig[q] \in Names
    BY <1>5, Equipment DEF GiveWpaAdd
  <2>3. \A r \in Radios : wpa'[r] \in {wpa[r], "own"}
    BY <2>1, <2>2, WpaSetType DEF WpaStates
  <2>4. UNCHANGED <<mode, running>>
    BY <1>5 DEF GiveWpaAdd
  <2> QED
    BY <2>3, <2>4
<1>6. CASE SwitchOn(q) \/ UndoMode(q) \/ SwitchOff(q)
  <2>1. PICK ok \in BOOLEAN, m \in {"monitor", "managed"} : SetMode(radio[q], m, ok)
    BY <1>6 DEF SwitchOn, UndoMode, SwitchOff
  <2>2. \A r \in Radios : mode'[r] \in {mode[r], "monitor", "managed"}
    BY <2>1 DEF SetMode, WorldTypeOK
  <2> QED
    BY <1>6, <2>2 DEF SwitchOn, UndoMode, SwitchOff
<1> QED
  BY <1>2, <1>3, <1>4, <1>5, <1>6 DEF Calling, Step

(* set_mode sets monitor or managed mode; only NetworkManager adds radios  *)
(* on its own account, and it only gives up what it runs for.              *)
LEMMA OrdinaryStep == SessionInv /\ Ordinary /\ [Next]_vars => Ordinary'
<1> SUFFICES ASSUME SessionInv, Ordinary, [Next]_vars PROVE Ordinary'
  OBVIOUS
<1> USE DEF SessionInv, TypeOK, Ordinary, Unnamed, Unresolved
<1>1. CASE UNCHANGED vars
  BY <1>1 DEF vars, world
<1>2. CASE Environment
  BY <1>2 DEF Environment, PullBack, NmAdopt, NmDrop, Unplug, WorldTypeOK, WorldOK
<1>3. ASSUME NEW q \in Procs, Calling(q) PROVE Ordinary'
  BY <1>3, WorldMoves
<1> QED
  BY <1>1, <1>2, <1>3 DEF Next, Calling

---------------------------------------------------------------------------
(* A call asks every service of the host to let go, and records it.        *)
LEMMA RecordedOwnStep ==
    ASSUME TypeOK, HeldRuns, Careful, NEW p \in Procs, Calling(p), Recorded(p)
    PROVE  Recorded(p)'
<1> USE DEF TypeOK, CallTypeOK, Recorded, Released, RollingBack, HandingBack, Goto
<1>1. running' = running
  BY WorldMoves
<1>2. running \subseteq {"nm", "wpa"} /\ held[p] \subseteq running
  BY DEF WorldTypeOK, HeldRuns, Services
<1>3. "probe" \notin FaultKinds /\ "bus" \notin FaultKinds
  BY DEF Careful
<1>14. ASSUME pc'[p] \notin Released \cup {"wpaFind", "wpaDrop"} PROVE Recorded(p)'
  BY <1>14
<1>16. ASSUME Hold(p, "wpa"), Goto(p, "switch"), "wpa" \in running,
              running \ {"wpa"} \subseteq held[p]
       PROVE  held'[p] = running /\ pc'[p] = "switch"
  <2>1. held'[p] = held[p] \cup {"wpa"}
    BY <1>16 DEF Hold
  <2>2. held[p] \cup {"wpa"} = running
    <3> HIDE DEF TypeOK, CallTypeOK, Recorded
    <3> QED
      BY <1>2, <1>16
  <2> QED
    BY <1>16, <2>1, <2>2
<1>4. CASE Client(p)
  <2>1. CASE StartAuto(p) \/ StopAll(p)
    BY <1>14, <2>1 DEF StartAuto, StopAll
  <2>2. CASE StartOn(p) \/ StartAs(p)
    BY <1>14, <2>2 DEF StartOn, StartAs, StartNamed
  <2>3. CASE StopMonitor(p) \/ Restore(p) \/ Persist(p)
    BY <1>14, <2>3 DEF StopMonitor, Restore, Persist, Return
  <2> QED
    BY <1>4, <2>1, <2>2, <2>3 DEF Client
<1>5. CASE NmRelease(p)
  <2>1. CASE Probe("nm", FALSE) /\ Goto(p, "wpaFind") /\ UNCHANGED held
    BY <1>1, <1>2, <1>3, <2>1 DEF Probe, Fault
  <2>2. CASE Hold(p, "nm") /\ Goto(p, "wpaFind")
    BY <1>1, <1>2, <2>2 DEF Hold
  <2>3. CASE Goto(p, "rejected")
    BY <2>3
  <2> QED
    BY <1>5, <2>1, <2>2, <2>3 DEF NmRelease
<1>6. CASE WpaFind(p)
  <2>1. CASE Probe("wpa", FALSE) /\ Goto(p, "switch") /\ UNCHANGED held
    <3>1. "wpa" \notin running
      BY <1>3, <2>1 DEF Probe, Fault
    <3>2. running \ {"wpa"} \subseteq held[p]
      BY <1>6 DEF WpaFind
    <3>3. held[p] = running
      <4> HIDE DEF TypeOK, CallTypeOK, Recorded
      <4> QED
        BY <1>2, <3>1, <3>2
    <3> QED
      BY <1>1, <2>1, <3>3
  <2>2. CASE Hold(p, "wpa") /\ Goto(p, "switch") /\ "wpa" \in running
    <3>1. running \ {"wpa"} \subseteq held[p]
      BY <1>6 DEF WpaFind
    <3> QED
      BY <1>1, <1>16, <2>2, <3>1
  <2>3. CASE Goto(p, "wpaDrop") /\ UNCHANGED held /\ "wpa" \in running
    BY <1>1, <1>6, <2>3 DEF WpaFind
  <2>4. CASE Goto(p, "rejected")
    BY <2>4
  <2> QED
    BY <1>6, <2>1, <2>2, <2>3, <2>4 DEF WpaFind
<1>7. CASE WpaDrop(p)
  <2>1. CASE Goto(p, "switch") /\ Hold(p, "wpa")
    <3>1. "wpa" \in running /\ running \ {"wpa"} \subseteq held[p]
      BY <1>7 DEF WpaDrop
    <3> QED
      BY <1>1, <1>16, <2>1, <3>1
  <2>2. CASE Goto(p, "rejected")
    BY <1>14, <2>2
  <2> QED
    BY <1>7, <2>1, <2>2 DEF WpaDrop
<1>8. CASE Handback(p)
  BY <1>1, <1>3, <1>8 DEF Handback, Fault
<1>9. CASE SwitchOn(p) \/ Confirm(p) \/ RenameOn(p) \/ Refind(p) \/ Tune(p)
  BY <1>1, <1>9 DEF SwitchOn, Confirm, RenameOn, Refind, Tune, call
<1>10. CASE UndoName(p) \/ UndoMode(p) \/ GiveNm(p) \/ GiveWpa(p) \/ GiveWpaAdd(p)
  BY <1>1, <1>10 DEF UndoName, UndoMode, GiveNm, GiveWpa, GiveWpaAdd, Reclaimed, call
<1>11. CASE TryNext(p) \/ Rejected(p)
  BY <1>11, <1>14 DEF TryNext, Rejected, Return
<1>15. CASE RestoreFind(p) \/ RenameBack(p)
  BY <1>14, <1>15 DEF RestoreFind, RenameBack
<1>12. CASE LeaveFind(p) \/ SwitchOff(p) \/ ConfirmOff(p)
  BY <1>12 DEF LeaveFind, LeaveFrom, SwitchOff, ConfirmOff
<1>13. CASE Finish(p) \/ Cancel(p) \/ Kill(p)
  BY <1>13 DEF Finish, Cancel, Kill, Return
<1> QED
  BY <1>4, <1>5, <1>6, <1>7, <1>8, <1>9, <1>10, <1>11, <1>12, <1>13, <1>15 DEF Calling, Step

(* ... and the other callers and the services leave the record alone.      *)
LEMMA RecordedStep ==
    ASSUME TypeOK, HeldRuns, Careful, NEW p \in Procs, Recorded(p), [Next]_vars
    PROVE  Recorded(p)'
<1>1. CASE UNCHANGED vars
  BY <1>1 DEF vars, world, call, Recorded
<1>2. CASE Environment /\ UNCHANGED <<pc, call, observers>>
  BY <1>2 DEF Environment, PullBack, NmAdopt, NmDrop, Unplug, call, Recorded
<1>3. ASSUME NEW q \in Procs, Calling(q) PROVE Recorded(p)'
  <2>1. CASE q = p
    BY <1>3, <2>1, RecordedOwnStep
  <2>2. CASE q # p
    <3>1. pc'[p] = pc[p] /\ held'[p] = held[p]
      BY <1>3, <2>2, StepElsewhere, RecordsApart DEF Calling, Elsewhere, RecordsElsewhere
    <3>2. running' = running
      BY <1>3, WorldMoves
    <3> QED
      BY <3>1, <3>2 DEF Recorded
  <2> QED
    BY <2>1, <2>2
<1> QED
  BY <1>1, <1>2, <1>3 DEF Next, Calling

---------------------------------------------------------------------------
(* What another call does, and what the services do, does not disturb a    *)
(* call that gives its radio back.                                         *)

(* A radio by the names of a call that is alone is no other call's.         *)
LEMMA NotTheirs ==
    ASSUME SessionInv, NEW p \in Procs, NEW q \in Procs, p # q, Alone(p),
           Within(q), radio[p] \in Present
    PROVE  LET r == radio[p]
           IN /\ r \in Radios /\ mode'[r] = mode[r] /\ label'[r] = label[r]
              /\ label[r] \in {orig[p], cur[p]} => nm'[r] = nm[r] /\ wpa'[r] = wpa[r]
<1> DEFINE r == radio[p]
<1>1. r \in Radios /\ r # NoRadio /\ label[r] \in Names /\ label[r] # NoName
  BY SessionAssumption, WorldAssumption DEF Present, SessionInv, TypeOK, WorldTypeOK
<1>2. radio[q] # r
  BY <1>1 DEF SessionInv, Apart, Rested
<1>3. label[r] \in {orig[p], cur[p]} => label[r] \notin {orig[q], cur[q]}
  BY <1>1 DEF SessionInv, Apart, Rested
<1> QED
  BY <1>1, <1>2, <1>3 DEF Within

(* So what it knows of its radio stays true while others work,             *)
LEMMA RecoveryBystander ==
    ASSUME SessionInv, RecoveryInv, Next, NEW p \in Procs, NEW q \in Procs, p # q,
           Alone(p)', Calling(q)
    PROVE  Recovering(p)'
<1> DEFINE r == radio[p]
<1>1. /\ pc'[p] = pc[p] /\ op'[p] = op[p] /\ radio'[p] = r
      /\ orig'[p] = orig[p] /\ cur'[p] = cur[p] /\ Alone(p)
  BY StepElsewhere DEF Calling, Elsewhere, Alone, SessionInv
<1>2. found'[p] = found[p] /\ running' = running
  BY WorldMoves, RecordsApart DEF RecordsElsewhere, SessionInv
<1>3. Within(q)
  BY StepWithin DEF Calling, SessionInv
<1>4. GivenBack(p) /\ (SafeUndo => Undoing(p)) /\ HeldStill(p) /\ Stage(p) /\ Kind(p)
  BY <1>1 DEF RecoveryInv, Recovering, SessionInv, Staged, Kinds
<1>5. r \in Present' => r \in Present
  BY <1>3 DEF Within, Present
<1>6. ASSUME r \in Present
      PROVE  /\ mode'[r] = mode[r] /\ label'[r] = label[r]
             /\ label[r] \in {orig[p], cur[p]} => nm'[r] = nm[r] /\ wpa'[r] = wpa[r]
  BY <1>1, <1>3, <1>6, NotTheirs
<1>7. Spare => Spare'
  BY SpareStays DEF SessionInv
<1>8. GivenBack(p)'
  BY <1>1, <1>2, <1>4, <1>5, <1>6 DEF GivenBack, Kind, StopPoints, Returning
<1>9. SafeUndo => Undoing(p)'
  BY <1>1, <1>2, <1>4, <1>5, <1>6, <1>7 DEF Undoing
<1>10. HeldStill(p)'
  <2>1. r \in Present /\ pc[p] = "rejected" /\ SafeUndo => label[r] = orig[p]
    BY <1>4 DEF Kind, Trying, Undoing
  <2>2. pc[p] \in {"release", "wpaFind", "wpaDrop"} => label[r] = orig[p]
    BY <1>4 DEF Stage, UnderOrig
  <2> QED
    BY <1>1, <1>2, <1>4, <1>5, <1>6, <2>1, <2>2 DEF HeldStill, HeldByAll
<1> QED
  BY <1>8, <1>9, <1>10 DEF Recovering

(* and while the services work and radios are pulled.                      *)
LEMMA RecoveryUndisturbed ==
    ASSUME SessionInv, RecoveryInv, Next, NEW p \in Procs, Alone(p)', Environment,
           UNCHANGED <<pc, call, observers>>
    PROVE  Recovering(p)'
<1> DEFINE r == radio[p]
<1>1. UNCHANGED <<pc, op, radio, orig, cur, found>> /\ Alone(p)
  BY DEF call, observers, Alone
<1>2. label' = label /\ running' = running
  BY DEF Environment, PullBack, NmAdopt, NmDrop, Unplug
<1>3. GivenBack(p) /\ (SafeUndo => Undoing(p)) /\ HeldStill(p) /\ Stage(p) /\ Kind(p)
  BY <1>1 DEF RecoveryInv, Recovering, SessionInv, Staged, Kinds
<1>4. PICK s \in Radios : PullBack(s) \/ NmAdopt(s) \/ NmDrop(s) \/ Unplug(s)
  BY DEF Environment
<1>5. ASSUME r \in Present'
      PROVE  /\ r \in Present /\ nm'[r] = nm[r]
             /\ mode'[r] = mode[r] \/ (mode[r] = "monitor" /\ mode'[r] = "managed" /\ Held(r))
             /\ \/ wpa'[r] = wpa[r]
                \/ wpa[r] = "out" /\ wpa'[r] = "nm"
                \/ wpa[r] = "nm" /\ ~nm[r] /\ "nm" \in running
  BY <1>4, <1>5 DEF PullBack, NmAdopt, NmDrop, Unplug, Present, SessionInv, TypeOK, WorldTypeOK,
     RecoveryInv, Ordinary
<1>6. Spare => Spare'
  BY SpareStays DEF SessionInv
<1>7. GivenBack(p)'
  BY <1>1, <1>2, <1>3, <1>5 DEF GivenBack, Kind, StopPoints, Returning
<1>8. SafeUndo => Undoing(p)'
  <2>1. pc[p] = "confirm" => ~Held(r)
    BY <1>3 DEF Stage, NmLetGo, WpaLetGo, Held
  <2> QED
    BY <1>1, <1>2, <1>3, <1>5, <1>6, <2>1 DEF Undoing
<1>9. HeldStill(p)'
  BY <1>1, <1>2, <1>3, <1>5 DEF HeldStill, HeldByAll
<1> QED
  BY <1>7, <1>8, <1>9 DEF Recovering

---------------------------------------------------------------------------
(* The handback: where the services answer, each one that runs has the     *)
(* radio afterwards, if the radio has the name they are given.             *)
LEMMA NmGivenBack ==
    ASSUME OwnInv, Careful, NEW p \in Procs, Alone(p), Recorded(p), GiveNm(p),
           radio[p] \in Present, label[radio[p]] = orig[p]
    PROVE  pc'[p] = "giveWpa" /\ ("nm" \in running => nm'[radio[p]])
<1> DEFINE r == radio[p]
<1>1. pc[p] = "giveNm" /\ held[p] = running /\ r \in Named(orig[p]) /\ orig[p] \in Names
  BY Equipment DEF GiveNm, Recorded, Released, HandingBack, Named, OwnInv, Unnamed
<1>2. CASE "nm" \notin running
  BY <1>1, <1>2 DEF GiveNm, Goto, OwnInv, TypeOK, CallTypeOK
<1>3. CASE "nm" \in running
  <2>1. NmSet(orig[p], TRUE, TRUE) /\ Goto(p, "giveWpa")
    BY <1>1, <1>3 DEF GiveNm, HandbackName, NmSet, Fault, Careful
  <2>2. nm'[r]
    BY <1>1, <2>1, NmSetType DEF OwnInv, TypeOK
  <2> QED
    BY <2>1, <2>2 DEF Goto, OwnInv, TypeOK, CallTypeOK
<1> QED
  BY <1>2, <1>3

(* wpa_supplicant has it already, or gets it.                              *)
LEMMA WpaGivenBack ==
    ASSUME OwnInv, Careful, NEW p \in Procs, Alone(p), Recorded(p),
           GiveWpa(p) \/ GiveWpaAdd(p), radio[p] \in Present, label[radio[p]] = orig[p]
    PROVE  pc'[p] # "giveWpaAdd" => ("wpa" \in running => wpa'[radio[p]] # "out")
<1> DEFINE r == radio[p]
<1>1. held[p] = running /\ r \in Named(orig[p]) /\ orig[p] \in Names
  BY Equipment DEF GiveWpa, GiveWpaAdd, Recorded, Released, HandingBack, Named, OwnInv, Unnamed
<1>2. Named(orig[p]) \subseteq {r}
  BY DEF OwnInv, Sole, Addressing, HandingBack, GiveWpa, GiveWpaAdd
<1>3. CASE GiveWpa(p)
  <2>1. CASE "wpa" \notin running
    BY <2>1
  <2>2. CASE WpaKnows(orig[p], TRUE)
    BY <1>2, <1>3, <2>2 DEF WpaKnows, Fault, GiveWpa, WorldButSpent
  <2>3. CASE Goto(p, "giveWpaAdd")
    BY <2>3 DEF Goto, OwnInv, TypeOK, CallTypeOK
  <2> QED
    BY <1>1, <1>3, <2>1, <2>2, <2>3 DEF GiveWpa, HandbackName, Fault, Careful
<1>4. CASE GiveWpaAdd(p)
  <2>1. PICK ok \in BOOLEAN : WpaSet(orig[p], "own", ok)
    BY <1>4 DEF GiveWpaAdd, HandbackName
  <2>2. wpa \in [Radios -> WpaStates] /\ r \in Radios
    BY DEF OwnInv, TypeOK, WorldTypeOK, Present
  <2>3. CASE wpa[r] = "out"
    <3>1. wpa' = [s \in Radios |-> IF s \in {t \in Named(orig[p]) : (wpa[t] = "out") # ("own" = "out")}
                                   THEN "own" ELSE wpa[s]]
      BY <1>1, <2>1, <2>3 DEF WpaSet, Fault, Careful
    <3> QED
      BY <1>1, <2>2, <2>3, <3>1
  <2>4. CASE wpa[r] # "out"
    <3>1. wpa'[r] \in {wpa[r], "own"}
      BY <1>1, <2>1, <2>2, WpaSetType DEF OwnInv, TypeOK, WpaStates
    <3> QED
      BY <2>4, <3>1
  <2> QED
    BY <2>3, <2>4
<1> QED
  BY <1>3, <1>4

(* set_mode to managed, when nothing is left that could go wrong.          *)
LEMMA SetManaged ==
    ASSUME WorldTypeOK, SafeUndo, Spare, NEW r \in Present, NEW ok \in BOOLEAN,
           SetMode(r, "managed", ok)
    PROVE  mode'[r] = "managed"
<1>1. r \in Radios /\ mode[r] # "gone" /\ spent \in Nat /\ MaxFaults \in Nat
  BY WorldAssumption DEF Present, WorldTypeOK
<1>2. "tornMode" \notin FaultKinds /\ (spent < MaxFaults => {"refuse", "lie"} \cap FaultKinds = {})
  BY <1>1 DEF SafeUndo, Spare
<1> QED
  BY <1>1, <1>2 DEF SetMode, Fault, WorldTypeOK

(* A failure that is met is the last.                                      *)
LEMMA FailureMet ==
    ASSUME WorldTypeOK, SafeUndo, NEW kind, Fault(kind)
    PROVE  Spare'
<1>1. spent \in Nat /\ MaxFaults \in Nat /\ spent' = spent + 1
  BY WorldAssumption DEF WorldTypeOK, Fault
<1> QED
  BY <1>1 DEF SafeUndo, Spare

(* Setting the radio back to its own name then works, unless it is gone.   *)
LEMMA NamedBack ==
    ASSUME WorldTypeOK, Spare, NEW r \in Present, NEW n \in Names, NEW ok \in BOOLEAN,
           Rename(r, n, ok), Named(n) \subseteq {r}
    PROVE  label'[r] = n
<1>1. r \in Radios /\ spent \in Nat /\ MaxFaults \in Nat
  BY WorldAssumption DEF Present, WorldTypeOK
<1>2. ~Fault("refuse")
  BY <1>1 DEF Spare, Fault
<1> QED
  BY <1>1, <1>2 DEF Rename, WorldTypeOK

---------------------------------------------------------------------------
(* The steps of a call that is alone.                                      *)

(* A step that works on keeps the call's radio, its names and what it was. *)
Working(p) ==
    \/ NmRelease(p) \/ WpaFind(p) \/ WpaDrop(p) \/ SwitchOn(p) \/ Confirm(p) \/ RenameOn(p)
    \/ UndoName(p) \/ UndoMode(p) \/ GiveNm(p) \/ GiveWpa(p) \/ GiveWpaAdd(p)
    \/ RenameBack(p) \/ SwitchOff(p) \/ ConfirmOff(p) \/ Handback(p)

(* It does, and a call that is alone after it was alone before.            *)
LEMMA WorkingOn ==
    ASSUME NEW p, Working(p), SessionInv, p \in Procs, Alone(p)'
    PROVE  /\ UNCHANGED <<op, radio, orig, cur, found, spoiled>>
           /\ Alone(p) /\ radio[p] \in Radios /\ orig[p] \in Names /\ cur[p] \in Names
<1>1. UNCHANGED <<op, radio, orig, cur, found, spoiled>> /\ pc[p] \notin Unresolved
  <2> USE DEF call, observers, Unresolved, Unnamed
  <2>1. CASE NmRelease(p) \/ WpaFind(p) \/ WpaDrop(p) \/ SwitchOn(p) \/ Confirm(p) \/ RenameOn(p)
    BY <2>1 DEF NmRelease, WpaFind, WpaDrop, SwitchOn, Confirm, RenameOn
  <2>2. CASE UndoName(p) \/ UndoMode(p) \/ GiveNm(p) \/ GiveWpa(p) \/ GiveWpaAdd(p)
    BY <2>2 DEF UndoName, UndoMode, GiveNm, GiveWpa, GiveWpaAdd
  <2>3. CASE RenameBack(p) \/ SwitchOff(p) \/ ConfirmOff(p) \/ Handback(p)
    BY <2>3 DEF RenameBack, SwitchOff, ConfirmOff, Handback
  <2> QED
    BY <2>1, <2>2, <2>3 DEF Working
<1> QED
  BY <1>1, Equipment DEF SessionInv, Alone, Unresolved, Unnamed

(* What the proofs about one step start from.                              *)
RecoveryHere == SessionInv /\ OwnInv /\ RecoveryInv

(* A handback reaches each service with the radio under its own name and   *)
(* out of monitor mode, and leaves it there.                               *)
LEMMA GivenBackOwnStep ==
    ASSUME RecoveryHere, Careful, NEW p \in Procs, Alone(p)', Calling(p)
    PROVE  GivenBack(p)'
<1> USE DEF RecoveryHere
<1> DEFINE r == radio[p]
<1>1. ASSUME pc'[p] \notin Returning \cup {"unswitch", "unconfirm", "handback"}
      PROVE  GivenBack(p)'
  BY <1>1 DEF GivenBack, Returning
<1>2. TypeOK /\ WorldTypeOK /\ CallTypeOK
  BY DEF OwnInv, TypeOK
<1>3. ASSUME Working(p)
      PROVE  /\ UNCHANGED <<op, radio, orig, cur, found, spoiled>>
             /\ Alone(p) /\ r \in Radios /\ orig[p] \in Names
             /\ GivenBack(p) /\ (SafeUndo => Undoing(p)) /\ Stage(p) /\ Kind(p)
             /\ Recorded(p) /\ running' = running
             /\ r \in Present' => r \in Present
  <2>1. r \in Present' => r \in Present
    BY <1>2, StepWithin DEF Calling, Within, Present
  <2>2. running' = running
    BY <1>2, WorldMoves
  <2> QED
    BY <1>3, <2>1, <2>2, WorkingOn DEF RecoveryInv, Recovering, SessionInv, Staged, Kinds
<1>4. CASE LeaveFind(p)
  <2>1. CASE Goto(p, "failed")
    BY <1>1, <1>2, <2>1 DEF Goto, CallTypeOK, Returning, HandingBack
  <2>2. ASSUME NEW s \in Named(orig[p]), Resolve(p, s), Goto(p, LeaveFrom(s))
        PROVE  GivenBack(p)'
    <3>1. s \in Radios /\ label[s] = orig[p]
      BY DEF Named, Present
    <3>2. radio'[p] = s /\ orig'[p] = orig[p] /\ UNCHANGED <<mode, label>>
      BY <1>2, <1>4, <2>2, <3>1, Engaged DEF Resolve, LeaveFind, WorldButSpent
    <3>3. pc'[p] = LeaveFrom(s)
      BY <1>2, <2>2 DEF Goto, CallTypeOK
    <3> QED
      BY <3>1, <3>2, <3>3 DEF GivenBack, LeaveFrom, Returning, HandingBack
  <2> QED
    BY <1>4, <2>1, <2>2 DEF LeaveFind
<1>5. CASE SwitchOff(p)
  <2>1. pc[p] = "unswitch" /\ pc'[p] \in {"unconfirm", "failed"} /\ label' = label
    BY <1>2, <1>5 DEF SwitchOff, Goto, CallTypeOK
  <2> QED
    BY <1>3, <1>5, <2>1 DEF Working, GivenBack, Returning, HandingBack
<1>6. CASE ConfirmOff(p)
  <2>1. /\ pc[p] = "unconfirm" /\ UNCHANGED <<mode, label>>
        /\ pc'[p] = "failed" \/ (pc'[p] = "handback" /\ mode[r] = "managed")
    BY <1>2, <1>6 DEF ConfirmOff, ReadMode, Goto, CallTypeOK, WorldButSpent
  <2> QED
    BY <1>3, <1>6, <2>1 DEF Working, GivenBack, Returning, HandingBack
<1>7. CASE Handback(p)
  <2>1. pc[p] = "handback" /\ pc'[p] = "giveNm" /\ UNCHANGED <<mode, label>>
    BY <1>2, <1>7 DEF Handback, Goto, CallTypeOK, WorldButSpent
  <2> QED
    BY <1>3, <1>7, <2>1 DEF Working, GivenBack, Returning, HandingBack
<1>8. CASE SwitchOn(p)
  <2>1. CASE Goto(p, "confirm")
    BY <1>1, <1>2, <2>1 DEF Goto, CallTypeOK, Returning, HandingBack
  <2>2. CASE SetMode(r, "monitor", FALSE) /\ Goto(p, "giveNm")
    <3>1. pc[p] = "switch" /\ pc'[p] = "giveNm" /\ label' = label
      BY <1>2, <1>8, <2>2 DEF SwitchOn, Goto, CallTypeOK
    <3>2. op[p] \in Starts /\ label[r] = orig[p]
      BY <1>3, <1>8, <3>1 DEF Working, Kind, Stage, UnderOrig, Trying, Entering
    <3>3. SafeUndo /\ r \in Present => mode[r] = "managed" /\ mode' = mode
      BY <1>3, <1>8, <2>2, <3>1, <3>2
         DEF Working, Undoing, Trying, Entering, SafeUndo, SetMode, Fault
    <3> QED
      BY <1>3, <1>8, <3>1, <3>2, <3>3 DEF Working, GivenBack, Returning, HandingBack
  <2> QED
    BY <1>8, <2>1, <2>2 DEF SwitchOn
<1>9. CASE UndoMode(p)
  <2>1. pc[p] = "undoMode" /\ pc'[p] = "giveNm" /\ label' = label
    BY <1>2, <1>9 DEF UndoMode, Goto, CallTypeOK
  <2>2. op[p] \in Starts
    BY <1>3, <1>9, <2>1 DEF Working, Kind, Trying, RollingBack
  <2>3. ASSUME SafeUndo, r \in Present PROVE label[r] = orig[p] /\ mode'[r] = "managed"
    <3>1. label[r] = orig[p] /\ Spare
      BY <1>3, <1>9, <2>1, <2>2, <2>3 DEF Working, Undoing, Trying, RollingBack
    <3>2. PICK ok \in BOOLEAN : SetMode(r, "managed", ok)
      BY <1>9 DEF UndoMode
    <3> QED
      BY <1>2, <2>3, <3>1, <3>2, SetManaged
  <2> QED
    BY <1>3, <1>9, <2>1, <2>2, <2>3 DEF Working, GivenBack, Returning, HandingBack
<1>10. CASE GiveNm(p)
  <2>1. pc[p] = "giveNm" /\ UNCHANGED <<mode, label>>
    BY <1>10 DEF GiveNm
  <2>2. CASE r \in Present /\ (op[p] \notin Starts \/ SafeUndo)
    <3>1. label[r] = orig[p] /\ mode[r] # "monitor"
      BY <1>3, <1>10, <2>1, <2>2 DEF Working, GivenBack, Returning, HandingBack
    <3>2. pc'[p] = "giveWpa" /\ ("nm" \in running => nm'[r])
      BY <1>3, <1>10, <2>2, <3>1, NmGivenBack DEF Working
    <3> QED
      BY <1>3, <1>10, <2>1, <3>1, <3>2 DEF Working, GivenBack
  <2>3. CASE op[p] \in Starts
    <3>1. pc'[p] \in {"giveWpa", "rejected"}
      BY <1>2, <1>10, <2>3 DEF GiveNm, Reclaimed, Goto, CallTypeOK
    <3> QED
      BY <1>3, <1>10, <2>2, <2>3, <3>1 DEF Working, GivenBack, Returning
  <2>4. CASE r \notin Present
    BY <1>3, <1>10, <2>4 DEF Working, GivenBack
  <2> QED
    BY <2>2, <2>3, <2>4
<1>11. CASE GiveWpa(p) \/ GiveWpaAdd(p)
  <2>1. pc[p] \in {"giveWpa", "giveWpaAdd"} /\ UNCHANGED <<mode, label, nm>>
    BY <1>11 DEF GiveWpa, GiveWpaAdd, WorldButSpent
  <2>2. pc'[p] \in {"giveWpaAdd", Reclaimed(p)}
    BY <1>2, <1>11 DEF GiveWpa, GiveWpaAdd, Goto, CallTypeOK
  <2>3. CASE r \in Present /\ (op[p] \notin Starts \/ SafeUndo)
    <3>1. label[r] = orig[p] /\ mode[r] # "monitor" /\ ("nm" \in running => nm[r])
      BY <1>3, <1>11, <2>1, <2>3 DEF Working, GivenBack, Returning, HandingBack
    <3>2. pc'[p] # "giveWpaAdd" => ("wpa" \in running => wpa'[r] # "out")
      BY <1>3, <1>11, <2>3, <3>1, WpaGivenBack DEF Working
    <3> QED
      BY <1>3, <1>11, <2>1, <2>2, <3>1, <3>2 DEF Working, GivenBack, Reclaimed
  <2>4. CASE op[p] \in Starts /\ ~SafeUndo
    BY <1>3, <1>11, <2>2, <2>4 DEF Working, GivenBack, Reclaimed
  <2>5. CASE r \notin Present
    BY <1>3, <1>11, <2>5 DEF Working, GivenBack
  <2> QED
    BY <2>3, <2>4, <2>5
<1> USE DEF Goto, CallTypeOK, Returning, HandingBack
<1>12. CASE Client(p)
  <2>1. CASE StartAuto(p) \/ StopAll(p)
    BY <1>1, <1>2, <2>1 DEF StartAuto, StopAll, Alone
  <2>2. CASE StartOn(p) \/ StartAs(p)
    BY <1>1, <1>2, <2>2 DEF StartOn, StartAs, StartNamed, Alone
  <2>3. CASE StopMonitor(p) \/ Restore(p) \/ Persist(p)
    BY <1>1, <1>2, <2>3 DEF StopMonitor, Restore, Persist, Return
  <2> QED
    BY <1>12, <2>1, <2>2, <2>3 DEF Client
<1>13. CASE TryNext(p) \/ NmRelease(p) \/ WpaFind(p) \/ WpaDrop(p) \/ Rejected(p)
  BY <1>1, <1>2, <1>13 DEF TryNext, NmRelease, WpaFind, WpaDrop, Rejected, Return
<1>14. CASE Confirm(p) \/ RenameOn(p) \/ Tune(p) \/ UndoName(p) \/ RenameBack(p)
  BY <1>1, <1>2, <1>14 DEF Confirm, RenameOn, Tune, UndoName, RenameBack
<1>15. CASE Refind(p) \/ RestoreFind(p)
  BY <1>1, <1>2, <1>15 DEF Refind, RestoreFind
<1>16. CASE Finish(p) \/ Cancel(p) \/ Kill(p)
  BY <1>1, <1>2, <1>16 DEF Finish, Cancel, Kill, Return
<1> QED
  BY <1>4, <1>5, <1>6, <1>7, <1>8, <1>9, <1>10, <1>11, <1>12, <1>13, <1>14, <1>15, <1>16
     DEF Calling, Step

(* A start begins with a radio that is in managed mode under its own name, *)
(* and no step of it but set_mode and rename changes that.                 *)
LEMMA UndoingBegins ==
    ASSUME RecoveryHere, SafeUndo, NEW p \in Procs, Alone(p)',
           TryNext(p) \/ StartOn(p) \/ StartAs(p)
    PROVE  Undoing(p)'
<1> USE DEF RecoveryHere
<1>1. TypeOK /\ WorldTypeOK /\ CallTypeOK /\ ObserversTypeOK
  BY DEF OwnInv, TypeOK
<1>2. ASSUME NEW r \in Radios, mode[r] \notin {"monitor", "gone"}, label[r] = orig'[p],
             radio'[p] = r, found'[p] = AsFound(r), pc'[p] = "release", UNCHANGED <<mode, label>>
      PROVE  Undoing(p)'
  <2>1. mode[r] = "managed"
    BY <1>1, <1>2 DEF RecoveryInv, Ordinary, WorldTypeOK, Modes
  <2> QED
    BY <1>2, <2>1 DEF Undoing, AsFound, RollingBack, HandingBack
<1>3. CASE TryNext(p)
  <2>1. PICK c \in todo[p] : /\ Engage(p, c[1], c[2], c[2], Stale(c))
                             /\ found' = [found EXCEPT ![p] = AsFound(c[1])]
    BY <1>3 DEF TryNext
  <2>2. c[1] \in Radios
    BY <1>1, <2>1 DEF CallTypeOK
  <2>3. radio'[p] = c[1] /\ orig'[p] = c[2] /\ found'[p] = AsFound(c[1])
    BY <1>1, <2>1, Engaged DEF ObserversTypeOK
  <2>4. ~Stale(c)
    BY <1>1, <2>1 DEF Engage, Alone, Stale, ObserversTypeOK
  <2>5. pc'[p] = "release" /\ UNCHANGED <<mode, label>>
    BY <1>1, <1>3 DEF TryNext, Goto, CallTypeOK, world
  <2> QED
    BY <1>2, <2>2, <2>3, <2>4, <2>5 DEF Stale
<1>4. ASSUME NEW kind, NEW n \in Names, NEW new, StartNamed(p, kind, n, new)
      PROVE  Undoing(p)'
  <2>1. CASE UNCHANGED pc
    BY <1>4, <2>1 DEF StartNamed, Alone
  <2>2. CASE ~UNCHANGED pc
    <3>1. PICK seen \in {Named(n), {}} :
            \E r \in seen : /\ mode[r] # "monitor" /\ Goto(p, "release")
                            /\ found' = [found EXCEPT ![p] = AsFound(r)]
                            /\ Engage(p, r, n, new, FALSE)
      BY <1>4, <2>2 DEF StartNamed
    <3>2. PICK r \in seen : /\ mode[r] # "monitor" /\ Goto(p, "release")
                            /\ found' = [found EXCEPT ![p] = AsFound(r)]
                            /\ Engage(p, r, n, new, FALSE)
      BY <3>1
    <3>3. r \in Radios /\ mode[r] # "gone" /\ label[r] = n
      BY <3>1, <3>2 DEF Named, Present
    <3>4. radio'[p] = r /\ orig'[p] = n
      BY <1>1, <3>2, Engaged
    <3>5. pc'[p] = "release" /\ found'[p] = AsFound(r)
      BY <1>1, <3>2 DEF Goto, CallTypeOK, ObserversTypeOK
    <3>6. UNCHANGED <<mode, label>>
      BY <1>4 DEF StartNamed, WorldButSpent
    <3> QED
      BY <1>2, <3>2, <3>3, <3>4, <3>5, <3>6
  <2> QED
    BY <2>1, <2>2
<1> QED
  BY <1>3, <1>4 DEF StartOn, StartAs

(* A rollback starts once the one failure there may be is met, and it      *)
(* takes the radio back to its name, then to its mode.                     *)
LEMMA UndoingOwnStep ==
    ASSUME RecoveryHere, SafeUndo, Careful, NEW p \in Procs, Alone(p)', Calling(p)
    PROVE  Undoing(p)'
<1> USE DEF RecoveryHere
<1> DEFINE r == radio[p]
           Point == (Trying \cup HandingBack) \ {"next"}
<1>1. TypeOK /\ WorldTypeOK /\ CallTypeOK
  BY DEF OwnInv, TypeOK
<1>2. ASSUME pc'[p] \notin Point \/ op'[p] \notin Starts
      PROVE  Undoing(p)'
  BY <1>2 DEF Undoing
<1>3. ASSUME Working(p), pc[p] \in Point, op[p] \in Starts
      PROVE  /\ UNCHANGED <<op, radio, orig, cur, found, spoiled>>
             /\ Alone(p) /\ r \in Radios /\ orig[p] \in Names /\ cur[p] \in Names
             /\ found[p].mode = "managed" /\ found[p].label = orig[p]
             /\ Undoing(p) /\ Stage(p) /\ Kind(p) /\ Recorded(p)
             /\ r \in Present' => r \in Present
  <2>1. r \in Present' => r \in Present
    BY <1>1, StepWithin DEF Calling, Within, Present
  <2> QED
    BY <1>3, <2>1, WorkingOn DEF RecoveryInv, Recovering, SessionInv, Staged, Kinds, Undoing
<1> USE DEF Trying, Entering, RollingBack, HandingBack
<1>4. CASE NmRelease(p) \/ WpaFind(p) \/ WpaDrop(p)
  <2>1. /\ pc[p] \in {"release", "wpaFind", "wpaDrop"} /\ UNCHANGED <<mode, label>>
        /\ pc'[p] \in {"wpaFind", "wpaDrop", "switch", "rejected"}
    BY <1>1, <1>4 DEF NmRelease, WpaFind, WpaDrop, Goto, CallTypeOK, WorldButSpent
  <2>2. op[p] \in Starts
    BY <2>1 DEF RecoveryInv, Kinds, Kind
  <2>3. label[r] = orig[p]
    BY <1>3, <1>4, <2>1, <2>2 DEF Working, Stage, UnderOrig
  <2> QED
    BY <1>3, <1>4, <2>1, <2>2, <2>3 DEF Working, Undoing
<1>5. CASE SwitchOn(p)
  <2>1. pc[p] = "switch" /\ label' = label
    BY <1>5 DEF SwitchOn
  <2>2. op[p] \in Starts
    BY <2>1 DEF RecoveryInv, Kinds, Kind
  <2>3. label[r] = orig[p] /\ (r \in Present => mode[r] = "managed")
    BY <1>3, <1>5, <2>1, <2>2 DEF Working, Stage, UnderOrig, Undoing
  <2>4. CASE SetMode(r, "monitor", TRUE) /\ Goto(p, "confirm")
    <3>1. r \in Present => mode'[r] = "monitor" \/ Fault("lie")
      BY <1>1, <2>4 DEF SetMode, WorldTypeOK, Present
    <3>2. r \in Present => mode'[r] = "monitor" \/ Spare'
      BY <1>1, <3>1, FailureMet
    <3>3. pc'[p] = "confirm"
      BY <1>1, <2>4 DEF Goto, CallTypeOK
    <3> QED
      BY <1>3, <1>5, <2>1, <2>2, <3>2, <3>3 DEF Working, Undoing
  <2>5. CASE SetMode(r, "monitor", FALSE) /\ Goto(p, "giveNm")
    <3>1. mode' = mode
      BY <2>5 DEF SetMode, SafeUndo, Fault
    <3>2. pc'[p] = "giveNm"
      BY <1>1, <2>5 DEF Goto, CallTypeOK
    <3> QED
      BY <1>3, <1>5, <2>1, <2>2, <2>3, <3>1, <3>2 DEF Working, Undoing
  <2> QED
    BY <1>5, <2>4, <2>5 DEF SwitchOn
<1>6. CASE Confirm(p)
  <2>1. pc[p] = "confirm" /\ UNCHANGED <<mode, label>>
    BY <1>6 DEF Confirm, WorldButSpent
  <2>2. op[p] \in Starts
    BY <2>1 DEF RecoveryInv, Kinds, Kind
  <2>3. label[r] = orig[p] /\ (r \in Present => mode[r] = "monitor" \/ Spare)
    BY <1>3, <1>6, <2>1, <2>2 DEF Working, Stage, UnderOrig, Undoing
  <2>4. CASE Goto(p, "undoMode") /\ (r \in Present => Spare')
    <3>1. pc'[p] = "undoMode"
      BY <1>1, <2>4 DEF Goto, CallTypeOK
    <3> QED
      BY <1>3, <1>6, <2>1, <2>2, <2>3, <2>4, <3>1 DEF Working, Undoing
  <2>5. CASE Goto(p, "rename") \/ Goto(p, "tune")
    <3>1. pc'[p] \in {"rename", "tune"}
      BY <1>1, <2>5 DEF Goto, CallTypeOK
    <3> QED
      BY <1>3, <1>6, <2>1, <2>2, <3>1 DEF Working, Undoing
  <2>6. ASSUME NEW read, ReadMode(r, read), read # "monitor" PROVE r \in Present => Spare'
    <3>1. CASE Fault("read")
      BY <1>1, <3>1, FailureMet
    <3>2. CASE mode[r] # "monitor" /\ Smooth
      BY <2>3, <3>2 DEF Spare, Smooth
    <3> QED
      BY <2>6, <3>1, <3>2 DEF ReadMode
  <2> QED
    BY <1>6, <2>4, <2>5, <2>6 DEF Confirm
<1>7. CASE RenameOn(p)
  <2>1. pc[p] = "rename" /\ mode' = mode
    BY <1>7 DEF RenameOn
  <2>2. op[p] = "as" /\ op[p] \in Starts /\ "as" \in Calls
    BY <2>1 DEF RecoveryInv, Kinds, Kind, Starts
  <2>3. label[r] = orig[p] /\ cur[p] \in Names /\ r \in Radios
    BY <1>3, <1>7, <2>1, <2>2 DEF Working, Stage, UnderOrig
  <2>4. CASE Goto(p, "refind")
    <3>1. pc'[p] = "refind"
      BY <1>1, <2>4 DEF Goto, CallTypeOK
    <3> QED
      BY <1>3, <1>7, <2>1, <2>2, <3>1 DEF Working, Undoing
  <2>5. CASE Goto(p, "undoName") /\ Rename(r, cur[p], FALSE)
    <3>1. label'[r] \in {label[r], cur[p]}
      BY <1>1, <2>3, <2>5, RenameType
    <3>2. r \in Present => Spare'
      <4>1. CASE {"refuse", "lie"} \cap FaultKinds = {}
        BY <4>1 DEF Spare
      <4>2. CASE \A s, t \in Radios : s = t
        <5>1. r \in Present => Fault("refuse") \/ Fault("tornName")
          BY <2>3, <2>5, <4>2 DEF Rename, Named, Present
        <5> QED
          BY <1>1, <5>1, FailureMet
      <4> QED
        BY <2>2, <4>1, <4>2 DEF SafeUndo
    <3>3. pc'[p] = "undoName"
      BY <1>1, <2>5 DEF Goto, CallTypeOK
    <3> QED
      BY <1>3, <1>7, <2>1, <2>2, <2>3, <3>1, <3>2, <3>3 DEF Working, Undoing
  <2> QED
    BY <1>7, <2>4, <2>5 DEF RenameOn
<1>8. CASE Refind(p)
  <2>1. pc[p] = "refind" /\ UNCHANGED <<mode, label, op, found>>
    BY <1>8 DEF Refind, WorldButSpent
  <2>2. op[p] \in Starts
    BY <2>1 DEF RecoveryInv, Kinds, Kind
  <2>3. CASE Goto(p, "tune")
    BY <1>1, <1>2, <2>3 DEF Goto, CallTypeOK
  <2>4. CASE /\ Goto(p, "undoName") /\ UNCHANGED <<radio, orig, cur, spoiled>>
             /\ Find(cur[p], {})
    <3>1. Alone(p)
      BY <2>1, <2>4 DEF Alone
    <3>2. Undoing(p) /\ label[r] = cur[p]
      BY <2>1, <3>1 DEF RecoveryInv, Recovering, SessionInv, Staged, Stage, UnderCur
    <3>3. r \in Present => Fault("detect")
      BY <2>4, <3>2 DEF Find, Named
    <3>4. r \in Present => Spare'
      BY <1>1, <3>3, FailureMet
    <3>5. pc'[p] = "undoName"
      BY <1>1, <2>4 DEF Goto, CallTypeOK
    <3>6. Present' = Present
      BY <2>1 DEF Present
    <3> QED
      BY <2>1, <2>2, <2>4, <3>2, <3>4, <3>5, <3>6 DEF Undoing
  <2> QED
    BY <1>8, <2>3, <2>4 DEF Refind
<1>9. CASE UndoName(p)
  <2>1. pc[p] = "undoName" /\ mode' = mode /\ pc'[p] = "undoMode"
    BY <1>1, <1>9 DEF UndoName, Goto, CallTypeOK
  <2>2. op[p] \in Starts
    BY <2>1 DEF RecoveryInv, Kinds, Kind
  <2>3. PICK ok \in BOOLEAN : Rename(r, orig[p], ok)
    BY <1>9 DEF UndoName
  <2>4. ASSUME r \in Present PROVE label'[r] = orig[p] /\ Spare'
    <3>1. Spare /\ orig[p] \in Names
      BY <1>3, <1>9, <2>1, <2>2, <2>4 DEF Working, Undoing
    <3>2. Named(orig[p]) \subseteq {r}
      BY <1>3, <1>9, <2>1, <2>2 DEF Working, OwnInv, Sole, Addressing
    <3>3. Spare'
      BY <1>1, <1>9, <3>1, SpareStays DEF Next, Step
    <3> QED
      BY <1>1, <2>3, <2>4, <3>1, <3>2, <3>3, NamedBack
  <2> QED
    BY <1>3, <1>9, <2>1, <2>2, <2>4 DEF Working, Undoing
<1>10. CASE UndoMode(p)
  <2>1. pc[p] = "undoMode" /\ label' = label /\ pc'[p] = "giveNm"
    BY <1>1, <1>10 DEF UndoMode, Goto, CallTypeOK
  <2>2. op[p] \in Starts
    BY <2>1 DEF RecoveryInv, Kinds, Kind
  <2>3. PICK ok \in BOOLEAN : SetMode(r, "managed", ok)
    BY <1>10 DEF UndoMode
  <2>4. r \in Present => label[r] = orig[p] /\ Spare
    BY <1>3, <1>10, <2>1, <2>2 DEF Working, Undoing
  <2>5. r \in Present => mode'[r] = "managed"
    BY <1>1, <2>3, <2>4, SetManaged
  <2> QED
    BY <1>3, <1>10, <2>1, <2>2, <2>4, <2>5 DEF Working, Undoing
<1>11. CASE GiveNm(p) \/ GiveWpa(p) \/ GiveWpaAdd(p)
  <2>1. /\ pc[p] \in HandingBack /\ UNCHANGED <<mode, label, op>>
        /\ pc'[p] \in HandingBack \cup {"rejected", "left"}
    BY <1>1, <1>11 DEF GiveNm, GiveWpa, GiveWpaAdd, Reclaimed, Goto, CallTypeOK, WorldButSpent, call
  <2>2. CASE op[p] \in Starts
    BY <1>3, <1>11, <2>1, <2>2 DEF Working, Undoing
  <2>3. CASE op[p] \notin Starts
    BY <1>2, <2>1, <2>3
  <2> QED
    BY <2>2, <2>3
<1>12. CASE Handback(p)
  <2>1. op'[p] \notin Starts
    BY <1>12 DEF Handback, RecoveryInv, Kinds, Kind, StopPoints, Leaving
  <2> QED
    BY <1>2, <2>1
<1> USE <1>1, <1>2 DEF Goto, CallTypeOK
<1>13. CASE Client(p)
  <2>1. CASE StartAuto(p) \/ StopAll(p)
    BY <2>1 DEF StartAuto, StopAll, Alone
  <2>2. CASE StartOn(p) \/ StartAs(p)
    BY <2>2, UndoingBegins
  <2>3. CASE StopMonitor(p) \/ Restore(p) \/ Persist(p)
    BY <2>3 DEF StopMonitor, Restore, Persist, Return
  <2> QED
    BY <1>13, <2>1, <2>2, <2>3 DEF Client
<1>14. CASE TryNext(p)
  BY <1>14, UndoingBegins
<1>15. CASE Tune(p) \/ Rejected(p) \/ RenameBack(p) \/ SwitchOff(p) \/ ConfirmOff(p)
  BY <1>15 DEF Tune, Rejected, Return, RenameBack, SwitchOff, ConfirmOff
<1>16. CASE RestoreFind(p) \/ LeaveFind(p)
  BY <1>16 DEF RestoreFind, LeaveFind, LeaveFrom
<1>17. CASE Finish(p) \/ Cancel(p) \/ Kill(p)
  BY <1>17 DEF Finish, Cancel, Kill, Return
<1> QED
  BY <1>4, <1>5, <1>6, <1>7, <1>8, <1>9, <1>10, <1>11, <1>12, <1>13, <1>14, <1>15, <1>16, <1>17
     DEF Calling, Step

(* What a start found with every service is given back to every service.   *)
LEMMA HeldStillOwnStep ==
    ASSUME RecoveryHere, Careful, NEW p \in Procs, Alone(p)', Calling(p)
    PROVE  HeldStill(p)'
<1> USE DEF RecoveryHere
<1> DEFINE r == radio[p]
<1>1. TypeOK /\ WorldTypeOK /\ CallTypeOK /\ ObserversTypeOK
  BY DEF OwnInv, TypeOK
<1>2. ASSUME pc'[p] \notin {"release", "wpaFind", "wpaDrop", "rejected"} PROVE HeldStill(p)'
  BY <1>2 DEF HeldStill
<1>3. ASSUME Working(p)
      PROVE  /\ UNCHANGED <<op, radio, orig, cur, found, spoiled>>
             /\ Alone(p) /\ r \in Radios /\ orig[p] \in Names
             /\ GivenBack(p) /\ (SafeUndo => Undoing(p)) /\ HeldStill(p) /\ Stage(p) /\ Kind(p)
             /\ Recorded(p) /\ running' = running
             /\ r \in Present' => r \in Present
  <2>1. r \in Present' => r \in Present
    BY <1>1, StepWithin DEF Calling, Within, Present
  <2>2. running' = running
    BY <1>1, WorldMoves
  <2> QED
    BY <1>3, <2>1, <2>2, WorkingOn DEF RecoveryInv, Recovering, SessionInv, Staged, Kinds
<1>4. "bus" \notin FaultKinds /\ "probe" \notin FaultKinds
  BY DEF Careful
<1>5. ASSUME NEW s \in Radios, radio'[p] = s, found'[p] = AsFound(s), pc'[p] = "release",
             UNCHANGED <<mode, label, nm, wpa, running>>
      PROVE  HeldStill(p)'
  <2>1. /\ found'[p].nm = nm'[s]
        /\ found'[p].wpa = wpa'[s]
    BY <1>5 DEF AsFound
  <2>2. HeldByAll(found[p])' => ("nm" \in running => nm[s])'
    BY <2>1, Zenon DEF HeldByAll
  <2>3. HeldByAll(found[p])' => ("wpa" \in running => wpa[s] = "own")'
    BY <2>1, Zenon DEF HeldByAll
  <2>4. radio'[p] = s /\ pc'[p] = "release"
    BY <1>5
  <2> QED
    BY <2>2, <2>3, <2>4 DEF HeldStill
<1>6. CASE TryNext(p)
  <2>1. PICK c \in todo[p] : /\ Engage(p, c[1], c[2], c[2], Stale(c))
                             /\ found' = [found EXCEPT ![p] = AsFound(c[1])]
    BY <1>6 DEF TryNext
  <2>2. c[1] \in Radios
    BY <1>1, <2>1 DEF CallTypeOK
  <2>3. radio'[p] = c[1] /\ found'[p] = AsFound(c[1])
    BY <1>1, <2>1, Engaged DEF ObserversTypeOK
  <2>4. pc'[p] = "release" /\ UNCHANGED <<mode, label, nm, wpa, running>>
    BY <1>1, <1>6 DEF TryNext, Goto, CallTypeOK, world
  <2> QED
    BY <1>5, <2>2, <2>3, <2>4
<1>7. ASSUME NEW kind, NEW n \in Names, NEW new, StartNamed(p, kind, n, new)
      PROVE  HeldStill(p)'
  <2>1. CASE UNCHANGED pc
    BY <1>7, <2>1 DEF StartNamed, Alone
  <2>2. CASE ~UNCHANGED pc
    <3>1. PICK seen \in {Named(n), {}} :
            \E s \in seen : /\ Goto(p, "release")
                            /\ found' = [found EXCEPT ![p] = AsFound(s)]
                            /\ Engage(p, s, n, new, FALSE)
      BY <1>7, <2>2 DEF StartNamed
    <3>2. PICK s \in seen : /\ Goto(p, "release")
                            /\ found' = [found EXCEPT ![p] = AsFound(s)]
                            /\ Engage(p, s, n, new, FALSE)
      BY <3>1
    <3>3. s \in Radios
      BY <3>1, <3>2 DEF Named, Present
    <3>4. radio'[p] = s
      BY <1>1, <3>2, Engaged
    <3>5. pc'[p] = "release" /\ found'[p] = AsFound(s)
      BY <1>1, <3>2 DEF Goto, CallTypeOK, ObserversTypeOK
    <3>6. UNCHANGED <<mode, label, nm, wpa, running>>
      BY <1>7 DEF StartNamed, WorldButSpent
    <3> QED
      BY <1>5, <3>3, <3>4, <3>5, <3>6
  <2> QED
    BY <2>1, <2>2
<1>8. CASE NmRelease(p)
  <2>1. pc[p] = "release" /\ pc'[p] = "wpaFind" /\ wpa' = wpa
    BY <1>1, <1>4, <1>8 DEF NmRelease, NmSet, Fault, Goto, CallTypeOK
  <2> QED
    BY <1>3, <1>8, <2>1 DEF Working, HeldStill, HeldByAll
<1>9. CASE WpaFind(p)
  <2>1. pc[p] = "wpaFind" /\ pc'[p] \in {"wpaDrop", "switch"} /\ wpa' = wpa
    BY <1>1, <1>4, <1>9 DEF WpaFind, Fault, Goto, CallTypeOK, WorldButSpent
  <2> QED
    BY <1>3, <1>9, <2>1 DEF Working, HeldStill, HeldByAll
<1>10. CASE WpaDrop(p)
  <2>1. pc[p] = "wpaDrop" /\ "wpa" \in running /\ label[r] = orig[p]
    BY <1>3, <1>10 DEF Working, WpaDrop, Recorded, Stage, UnderOrig
  <2>2. CASE Goto(p, "switch")
    BY <1>1, <1>2, <2>2 DEF Goto, CallTypeOK
  <2>3. CASE WpaSet(orig[p], "out", FALSE) /\ Goto(p, "rejected")
    <3>1. r \in Named(orig[p]) => wpa[r] = "out"
      BY <1>4, <2>3 DEF WpaSet, Fault
    <3>2. r \in Present /\ HeldByAll(found[p]) => wpa[r] = "own"
      BY <1>3, <1>10, <2>1 DEF Working, HeldStill
    <3>3. ~(r \in Present /\ HeldByAll(found[p]))
      BY <2>1, <3>1, <3>2 DEF Named
    <3> QED
      BY <1>3, <1>10, <3>3 DEF Working, HeldStill, HeldByAll
  <2> QED
    BY <1>10, <2>2, <2>3 DEF WpaDrop
<1>11. CASE GiveNm(p)
  <2>1. pc'[p] = "giveWpa"
    BY <1>1, <1>4, <1>11 DEF GiveNm, NmSet, Fault, Goto, CallTypeOK
  <2> QED
    BY <1>2, <2>1
<1>12. CASE GiveWpa(p) \/ GiveWpaAdd(p)
  <2>1. pc[p] \in {"giveWpa", "giveWpaAdd"} /\ UNCHANGED <<mode, label, nm>>
    BY <1>12 DEF GiveWpa, GiveWpaAdd, WorldButSpent
  <2>2. pc'[p] \in {"giveWpaAdd", "rejected", "left"}
    BY <1>1, <1>12 DEF GiveWpa, GiveWpaAdd, Reclaimed, Goto, CallTypeOK
  <2>3. CASE SafeUndo /\ r \in Present
    <3>1. label[r] = orig[p] /\ ("nm" \in running => nm[r])
      BY <1>3, <1>12, <2>1, <2>3 DEF Working, GivenBack, Returning, HandingBack
    <3>2. pc'[p] # "giveWpaAdd" => ("wpa" \in running => wpa'[r] # "out")
      BY <1>3, <1>12, <2>3, <3>1, WpaGivenBack DEF Working
    <3> QED
      BY <1>3, <1>12, <2>1, <2>2, <3>1, <3>2 DEF Working, HeldStill
  <2>4. CASE ~SafeUndo \/ r \notin Present
    BY <1>3, <1>12, <2>2, <2>4 DEF Working, HeldStill
  <2> QED
    BY <2>3, <2>4
<1> USE <1>1, <1>2 DEF Goto, CallTypeOK
<1>13. CASE Client(p)
  <2>1. CASE StartAuto(p) \/ StopAll(p)
    BY <2>1 DEF StartAuto, StopAll, Alone
  <2>2. CASE StartOn(p) \/ StartAs(p)
    BY <1>7, <2>2, SessionAssumption DEF StartOn, StartAs
  <2>3. CASE StopMonitor(p) \/ Restore(p) \/ Persist(p)
    BY <2>3 DEF StopMonitor, Restore, Persist, Return
  <2> QED
    BY <1>13, <2>1, <2>2, <2>3 DEF Client
<1>14. CASE SwitchOn(p) \/ Confirm(p) \/ RenameOn(p) \/ Refind(p) \/ Tune(p)
  BY <1>14 DEF SwitchOn, Confirm, RenameOn, Refind, Tune
<1>15. CASE UndoName(p) \/ UndoMode(p) \/ Rejected(p) \/ RenameBack(p)
  BY <1>15 DEF UndoName, UndoMode, Rejected, Return, RenameBack
<1>16. CASE RestoreFind(p) \/ LeaveFind(p)
  BY <1>16 DEF RestoreFind, LeaveFind, LeaveFrom
<1>17. CASE SwitchOff(p) \/ ConfirmOff(p) \/ Handback(p)
  BY <1>17 DEF SwitchOff, ConfirmOff, Handback
<1>18. CASE Finish(p) \/ Cancel(p) \/ Kill(p)
  BY <1>18 DEF Finish, Cancel, Kill, Return
<1> QED
  BY <1>6, <1>8, <1>9, <1>10, <1>11, <1>12, <1>13, <1>14, <1>15, <1>16, <1>17, <1>18
     DEF Calling, Step

---------------------------------------------------------------------------
(* Every step keeps what recovery needs.                                   *)
LEMMA RecoveryStep == RecoveryHere /\ Careful /\ [Next]_vars => RecoveryInv'
<1> SUFFICES ASSUME RecoveryHere, Careful, [Next]_vars PROVE RecoveryInv'
  OBVIOUS
<1> USE DEF RecoveryHere
<1>1. Kinds' /\ Ordinary'
  BY KindsStep, OrdinaryStep DEF RecoveryInv, SessionInv
<1>2. ASSUME NEW p \in Procs PROVE Recorded(p)'
  BY RecordedStep DEF RecoveryInv, SessionInv
<1>3. ASSUME NEW p \in Procs, Alone(p)' PROVE Recovering(p)'
  <2>1. CASE UNCHANGED vars
    <3> USE <2>1 DEF vars, world, call, observers, RecoveryInv, Recovering, Alone
    <3>1. Recovering(p)
      BY <1>3
    <3>2. GivenBack(p)'
      BY <3>1 DEF GivenBack, Present
    <3>3. SafeUndo => Undoing(p)'
      BY <3>1 DEF Undoing, Present, Spare
    <3>4. HeldStill(p)'
      BY <3>1 DEF HeldStill, HeldByAll, Present
    <3> QED
      BY <3>2, <3>3, <3>4
  <2>2. CASE Next
    <3>1. CASE Environment /\ UNCHANGED <<pc, call, observers>>
      BY <1>3, <2>2, <3>1, RecoveryUndisturbed
    <3>2. ASSUME NEW q \in Procs, Calling(q) PROVE Recovering(p)'
      <4>1. CASE q # p
        BY <1>3, <2>2, <3>2, <4>1, RecoveryBystander
      <4>2. CASE q = p
        BY <1>3, <3>2, <4>2, GivenBackOwnStep, UndoingOwnStep, HeldStillOwnStep DEF Recovering
      <4> QED
        BY <4>1, <4>2
    <3> QED
      BY <2>2, <3>1, <3>2 DEF Next, Calling
  <2> QED
    BY <2>1, <2>2
<1> QED
  BY <1>1, <1>2, <1>3 DEF RecoveryInv

(* Every host rfmon may be started on begins with it.                      *)
LEMMA InitRecovery == Init => RecoveryHere
<1> SUFFICES ASSUME Init PROVE RecoveryHere
  OBVIOUS
<1>1. SessionInv
  BY InitInv
<1>2. OwnInv
  BY <1>1 DEF SessionInv, OwnInv, Init, Alone
<1>3. Kinds
  BY DEF Init, Kinds, Kind, Trying, StopPoints, Entering, RollingBack, HandingBack, Leaving
<1>4. \A p \in Procs : Recorded(p) /\ ~Alone(p)
  BY DEF Init, Recorded, Alone, Released, RollingBack, HandingBack
<1>5. Ordinary
  <2>1. ASSUME NEW r \in Radios, wpa[r] = "nm" PROVE "nm" \in running
    <3>1. PICK c \in [Radios -> BootCustody] :
            /\ nm = [s \in Radios |-> c[s].nm /\ "nm" \in running /\ mode[s] # "monitor"]
            /\ wpa = [s \in Radios |->
                        IF "wpa" \in running /\ mode[s] # "monitor"
                        THEN IF c[s].wpa = "nm" /\ ~nm[s] THEN "out" ELSE c[s].wpa
                        ELSE "out"]
      BY DEF Init, WorldInit
    <3>2. nm[r]
      BY <2>1, <3>1
    <3> QED
      BY <1>1, <3>2 DEF SessionInv, WorldOK
  <2>2. SafeUndo => \A r \in Radios : mode[r] # "ap"
    BY DEF Init, WorldInit, SafeUndo
  <2> QED
    BY <2>1, <2>2 DEF Ordinary
<1> QED
  BY <1>1, <1>2, <1>3, <1>4, <1>5 DEF RecoveryHere, RecoveryInv

(* What every point on the way back knows is inductive, where the services *)
(* answer.                                                                 *)
THEOREM RecoveryInvariant ==
    ASSUME Careful
    PROVE  Spec => [](RecoveryHere /\ RecoveryInv)
<1>1. RecoveryHere /\ [Next]_vars => RecoveryInv'
  BY RecoveryStep
<1>2. NoFailedProbe
  BY DEF Careful, NoFailedProbe
<1>3. Spec => []SessionInv
  BY <1>2, SessionInvariant
<1>4. Spec => []OwnInv
  BY NamesMeanOwnRadio
<1>5. Init => RecoveryInv
  BY InitRecovery DEF RecoveryHere
<1>6. SessionInv /\ OwnInv /\ RecoveryInv /\ [Next]_vars => RecoveryInv'
  BY <1>1 DEF RecoveryHere
<1>7. SessionInv /\ OwnInv /\ RecoveryInv => RecoveryHere
  BY DEF RecoveryHere
<1> QED
  BY <1>3, <1>4, <1>5, <1>6, <1>7, PTL DEF Spec

(* A stop or a restore that reports success, and that no other call        *)
(* overlapped, leaves the radio out of monitor mode, under its own name    *)
(* and with every service of the host, whatever failed before: provided    *)
(* the calls to the services and the probes of them do not fail.           *)
THEOREM StopsRecover ==
    ASSUME Careful
    PROVE  Spec => []RestoreComplete
<1>1. RecoveryHere => RestoreComplete
  <2> SUFFICES ASSUME RecoveryHere, NEW p \in Procs, pc[p] = "left", ~spoiled[p]
               PROVE  LET r == radio[p]
                      IN /\ mode[r] # "monitor"
                         /\ mode[r] # "gone" => /\ label[r] = orig[p]
                                                /\ "nm" \in running => nm[r]
                                                /\ "wpa" \in running => wpa[r] # "out"
    BY DEF RestoreComplete
  <2>1. GivenBack(p) /\ op[p] \notin Starts /\ radio[p] \in Radios
    BY Equipment DEF RecoveryHere, RecoveryInv, Recovering, Alone, Kinds, Kind, StopPoints,
       SessionInv, Unresolved, Unnamed
  <2> QED
    BY <2>1 DEF GivenBack, Returning, Present
<1> QED
  BY <1>1, RecoveryInvariant, PTL

(* A start that fails, and that no other call overlapped, leaves a radio   *)
(* that every service held as it found it: its mode, its name, and with    *)
(* every service; provided the rollback can undo what was done (SafeUndo)  *)
(* and the services answer.                                                *)
THEOREM FailedStartsRecover ==
    ASSUME Careful, SafeUndo
    PROVE  Spec => []RejectedAsFound
<1>1. RecoveryHere => RejectedAsFound
  <2> SUFFICES ASSUME RecoveryHere, NEW p \in Procs, pc[p] = "rejected", ~spoiled[p],
                      HeldByAll(found[p]), mode[radio[p]] # "gone"
               PROVE  /\ mode[radio[p]] = found[p].mode
                      /\ label[radio[p]] = found[p].label
                      /\ SameCustody(radio[p], found[p])
    BY DEF RejectedAsFound, Untouched
  <2>1. /\ Undoing(p) /\ HeldStill(p) /\ op[p] \in Starts /\ radio[p] \in Radios
        /\ TypeOK /\ WorldOK
    BY Equipment DEF RecoveryHere, RecoveryInv, Recovering, Alone, Kinds, Kind, Trying,
       SessionInv, Unresolved, Unnamed
  <2>2. radio[p] \in Present
    BY <2>1 DEF Present
  <2>3. mode[radio[p]] = found[p].mode /\ label[radio[p]] = found[p].label
    BY <2>1, <2>2 DEF Undoing, Trying
  <2>4. ("nm" \in running => nm[radio[p]]) /\ ("wpa" \in running => wpa[radio[p]] # "out")
    BY <2>1, <2>2 DEF HeldStill
  <2>5. (nm[radio[p]] => "nm" \in running) /\ (wpa[radio[p]] # "out" => "wpa" \in running)
    BY <2>1 DEF WorldOK
  <2>6. nm[radio[p]] \in BOOLEAN
    BY <2>1 DEF TypeOK, WorldTypeOK
  <2>7. SameCustody(radio[p], found[p])
    BY <2>4, <2>5, <2>6 DEF SameCustody, HeldByAll
  <2> QED
    BY <2>3, <2>7
<1> QED
  BY <1>1, RecoveryInvariant, PTL

---------------------------------------------------------------------------
(* Only the handback hands a radio to a service.                           *)
LEMMA HandedBack ==
    ASSUME TypeOK, NEW p \in Procs, Calling(p), NEW r \in Radios, HandedTo(r)
    PROVE  pc[p] \in HandingBack
<1> USE DEF TypeOK, Unnamed, Unresolved, HandingBack, HandedTo
<1>1. CASE UNCHANGED <<nm, wpa>>
  BY <1>1
<1>2. CASE NmRelease(p)
  <2>1. PICK ok \in BOOLEAN : NmSet(orig[p], FALSE, ok) \/ UNCHANGED nm
    BY <1>2 DEF NmRelease
  <2>2. orig[p] \in Names /\ wpa' = wpa
    BY <1>2, Equipment DEF NmRelease
  <2>3. nm'[r] => nm[r]
    BY <2>1, <2>2, NmSetType
  <2> QED
    BY <2>2, <2>3
<1>3. CASE WpaDrop(p)
  <2>1. PICK ok \in BOOLEAN : WpaSet(orig[p], "out", ok)
    BY <1>3 DEF WpaDrop
  <2>2. orig[p] \in Names /\ nm' = nm
    BY <1>3, Equipment DEF WpaDrop
  <2>3. wpa'[r] \in {wpa[r], "out"}
    BY <2>1, <2>2, WpaSetType DEF WpaStates
  <2> QED
    BY <2>2, <2>3
<1>4. CASE GiveNm(p) \/ GiveWpaAdd(p)
  BY <1>4 DEF GiveNm, GiveWpaAdd
<1>5. CASE Client(p) \/ Cancel(p) \/ Kill(p)
  BY <1>1, <1>5 DEF Client, StartAuto, StartOn, StartAs, StartNamed, StopMonitor,
     StopAll, Restore, Persist, Cancel, Kill, WorldButSpent, world
<1>6. CASE SwitchOn(p) \/ RenameOn(p) \/ UndoName(p) \/ UndoMode(p) \/ RenameBack(p)
           \/ SwitchOff(p)
  BY <1>1, <1>6 DEF SwitchOn, RenameOn, UndoName, UndoMode, RenameBack, SwitchOff
<1>7. CASE TryNext(p) \/ WpaFind(p) \/ Confirm(p) \/ Refind(p) \/ Tune(p) \/ GiveWpa(p)
            \/ Rejected(p) \/ RestoreFind(p) \/ LeaveFind(p) \/ ConfirmOff(p)
            \/ Handback(p) \/ Finish(p)
  BY <1>1, <1>7 DEF TryNext, WpaFind, Confirm, Refind, Tune, GiveWpa, Rejected,
     RestoreFind, LeaveFind, ConfirmOff, Handback, Finish, WorldButSpent, world
<1> QED
  BY <1>2, <1>3, <1>4, <1>5, <1>6, <1>7 DEF Calling, Step

(* No call that is alone hands NetworkManager or wpa_supplicant a radio    *)
(* that is in monitor mode: leave confirms managed mode first, and the     *)
(* rollback of a start undoes the mode before it hands anything back.      *)
THEOREM HandbacksDoNotFight ==
    ASSUME Careful, SafeUndo
    PROVE  Spec => NoFightingHandback
<1>1. RecoveryHere /\ [Next]_vars =>
        [\A p \in Procs : pc'[p] # pc[p] /\ ~spoiled[p] =>
            \A r \in Radios : HandedTo(r) => mode[r] # "monitor"]_vars
  <2> SUFFICES ASSUME RecoveryHere, Next, NEW p \in Procs, pc'[p] # pc[p], ~spoiled[p],
                      NEW r \in Radios, HandedTo(r)
               PROVE  mode[r] # "monitor"
    OBVIOUS
  <2> USE DEF RecoveryHere
  <2>1. Calling(p)
    <3>1. ASSUME NEW q \in Procs, Calling(q) PROVE q = p
      BY <3>1, StepElsewhere DEF Calling, Elsewhere, OwnInv
    <3> QED
      BY <3>1 DEF Next, Calling
  <2>2. pc[p] \in HandingBack /\ r \in Named(orig[p])
    BY <2>1, HandedBack, ServicesByName DEF OwnInv, HandedTo
  <2>3. Alone(p) /\ r = radio[p] /\ r \in Present
    BY <2>2 DEF Alone, HandingBack, OwnInv, Sole, Addressing, Named
  <2> QED
    BY <2>2, <2>3 DEF RecoveryInv, Recovering, GivenBack, Returning
<1> QED
  BY <1>1, RecoveryInvariant, PTL DEF Spec, NoFightingHandback
=============================================================================
