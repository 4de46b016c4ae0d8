--------------------------- MODULE ProgramProofs ---------------------------
(***************************************************************************)
(* Proofs about the programs (rfmon's subcommands, the examples, the       *)
(* end-to-end suite): whatever was run before and whatever failed, no      *)
(* session is lost in silence, and a stop or a sweep that meets no failure *)
(* completes.  One terminal runs its calls one after the other, so the     *)
(* invariant says what each point of a call knows of its radio by mode,    *)
(* name and custody; Base carries the types and the world.  TerminalInv    *)
(* adds the scripts: with it, a session that was kept stands, and a reset  *)
(* recovers the host.                                                      *)
(***************************************************************************)
EXTENDS Programs, SessionProofs, SequenceTheorems, WellFoundedInduction

(* What SessionProofs keeps for every caller.                              *)
Base == TypeOK /\ WorldOK /\ HeldRuns /\ Rested

(* The terminal is the one caller: what SessionProofs says of calls that   *)
(* do not overlap holds of every call here.                                *)
LEMMA ShellIsCaller == Shell \in Procs /\ Procs = {Shell}
BY ProgramAssumption

(* A step of a call keeps to the points its kind of call passes through.   *)
LEMMA StepByStart ==
    ASSUME Base, ByStart, Step(Shell)
    PROVE  ByStart'
<1> USE ShellIsCaller DEF Base, TypeOK, CallTypeOK, ByStart, Starting, Entering,
        RollingBack, Goto, call, observers
<1>1. CASE TryNext(Shell)
  BY <1>1 DEF TryNext, Engage
<1>2. CASE NmRelease(Shell)
  BY <1>2 DEF NmRelease
<1>3. CASE WpaFind(Shell)
  BY <1>3 DEF WpaFind
<1>4. CASE WpaDrop(Shell)
  BY <1>4 DEF WpaDrop
<1>5. CASE SwitchOn(Shell)
  BY <1>5 DEF SwitchOn
<1>6. CASE Confirm(Shell)
  BY <1>6 DEF Confirm
<1>7. CASE RenameOn(Shell)
  BY <1>7 DEF RenameOn
<1>8. CASE Refind(Shell)
  BY <1>8 DEF Refind, Resolve, Engage
<1>9. CASE Tune(Shell)
  BY <1>9 DEF Tune
<1>10. CASE UndoName(Shell)
  BY <1>10 DEF UndoName
<1>11. CASE UndoMode(Shell)
  BY <1>11 DEF UndoMode
<1>12. CASE GiveNm(Shell)
  BY <1>12 DEF GiveNm, Reclaimed
<1>13. CASE GiveWpa(Shell)
  BY <1>13 DEF GiveWpa, Reclaimed
<1>14. CASE GiveWpaAdd(Shell)
  BY <1>14 DEF GiveWpaAdd, Reclaimed
<1>15. CASE Rejected(Shell)
  BY <1>15 DEF Rejected, Return
<1>16. CASE RestoreFind(Shell)
  BY <1>16 DEF RestoreFind, Resolve, Engage
<1>17. CASE RenameBack(Shell)
  BY <1>17 DEF RenameBack
<1>18. CASE LeaveFind(Shell)
  BY <1>18 DEF LeaveFind, LeaveFrom, Resolve, Engage
<1>19. CASE SwitchOff(Shell)
  BY <1>19 DEF SwitchOff
<1>20. CASE ConfirmOff(Shell)
  BY <1>20 DEF ConfirmOff
<1>21. CASE Handback(Shell)
  BY <1>21 DEF Handback
<1>22. CASE Finish(Shell)
  BY <1>22 DEF Finish, Return, Engage
<1> QED
  BY <1>1, <1>2, <1>3, <1>4, <1>5, <1>6, <1>7, <1>8, <1>9, <1>10, <1>11, <1>12, <1>13,
     <1>14, <1>15, <1>16, <1>17, <1>18, <1>19, <1>20, <1>21, <1>22 DEF Step
(* A rename that succeeds leaves the radio under the new name.             *)
LEMMA Renamed ==
    ASSUME WorldTypeOK, NEW r \in Radios, NEW n \in Names, Rename(r, n, TRUE)
    PROVE  label'[r] = n
BY DEF Rename, WorldTypeOK

(* From its resolution on, a call goes by the name its radio has at that   *)
(* point: enter's, start_as' after the rename, leave's and restore's.      *)
LEMMA StepByName ==
    ASSUME Base, ByStart, ByName, Step(Shell)
    PROVE  ByName'
<1> USE ShellIsCaller, Equipment DEF Base, TypeOK, CallTypeOK, ByStart, ByName, Starting,
        Stopping, Entering, RollingBack, HandingBack, UnderOrig, Goto, call, observers,
        WorldButSpent, world, Starts
<1>1. CASE TryNext(Shell)
  <2>1. op[Shell] = "auto" /\ op'[Shell] = "auto" /\ UNCHANGED label
    BY <1>1 DEF TryNext, Engage
  <2>2. PICK c \in todo[Shell] : /\ todo' = [todo EXCEPT ![Shell] = Remaining(Shell, c)]
                                 /\ Engage(Shell, c[1], c[2], c[2], Stale(c))
    BY <1>1 DEF TryNext
  <2>3. /\ pc'[Shell] = "release" /\ radio'[Shell] = c[1] /\ orig'[Shell] = c[2]
        /\ cur'[Shell] = c[2] /\ todo'[Shell] \subseteq todo[Shell]
    BY <1>1, <2>2 DEF TryNext, Engage, Remaining
  <2>4. label[c[1]] = c[2]
    BY <2>1
  <2> QED
    BY <2>1, <2>3, <2>4
<1>2. CASE NmRelease(Shell)
  BY <1>2 DEF NmRelease
<1>3. CASE WpaFind(Shell)
  BY <1>3 DEF WpaFind
<1>4. CASE WpaDrop(Shell)
  BY <1>4 DEF WpaDrop
<1>5. CASE SwitchOn(Shell)
  BY <1>5 DEF SwitchOn
<1>6. CASE Confirm(Shell)
  BY <1>6 DEF Confirm
<1>7. CASE RenameOn(Shell)
  <2>1. op[Shell] = "as" /\ radio[Shell] \in Radios /\ cur[Shell] \in Names
    BY <1>7 DEF RenameOn, Unnamed, Unresolved
  <2>2. CASE Rename(radio[Shell], cur[Shell], TRUE) /\ Goto(Shell, "refind")
    <3>1. label'[radio[Shell]] = cur[Shell]
      BY <2>1, <2>2, Renamed DEF Base, TypeOK
    <3> QED
      BY <1>7, <2>1, <2>2, <3>1 DEF RenameOn
  <2>3. CASE Goto(Shell, "undoName")
    BY <1>7, <2>1, <2>3 DEF RenameOn
  <2> QED
    BY <1>7, <2>2, <2>3 DEF RenameOn
<1>8. CASE Refind(Shell)
  BY <1>8 DEF Refind, Resolve, Engage, Named, Present
<1>9. CASE Tune(Shell)
  BY <1>9 DEF Tune
<1>10. CASE UndoName(Shell)
  BY <1>10, RenameType DEF UndoName
<1>11. CASE UndoMode(Shell)
  BY <1>11 DEF UndoMode
<1>12. CASE GiveNm(Shell)
  BY <1>12 DEF GiveNm, Reclaimed
<1>13. CASE GiveWpa(Shell)
  BY <1>13 DEF GiveWpa, Reclaimed
<1>14. CASE GiveWpaAdd(Shell)
  BY <1>14 DEF GiveWpaAdd, Reclaimed
<1>15. CASE Rejected(Shell)
  BY <1>15 DEF Rejected, Return
<1>16. CASE RestoreFind(Shell)
  <2>1. op[Shell] \in {"restore", "drop"} /\ UNCHANGED <<label, op>>
    BY <1>16 DEF RestoreFind
  <2>2. CASE cur[Shell] = orig[Shell]
    BY <1>16, <2>1, <2>2 DEF RestoreFind
  <2>3. CASE pc'[Shell] = "failed"
    BY <2>1, <2>3
  <2>4. CASE pc'[Shell] = "renameBack"
    BY <2>1, <2>4
  <2> QED
    BY <1>16, <2>2, <2>3, <2>4 DEF RestoreFind
<1>17. CASE RenameBack(Shell)
  <2>1. /\ op[Shell] \in {"restore", "drop"}
        /\ radio[Shell] \in Radios /\ orig[Shell] \in Names
    BY <1>17 DEF RenameBack, Unnamed, Unresolved
  <2>2. CASE Rename(radio[Shell], orig[Shell], TRUE) /\ Goto(Shell, "leaveFind")
    <3>1. label'[radio[Shell]] = orig[Shell]
      BY <2>1, <2>2, Renamed DEF Base, TypeOK
    <3> QED
      BY <1>17, <2>1, <2>2, <3>1 DEF RenameBack
  <2>3. CASE Goto(Shell, "failed")
    BY <1>17, <2>1, <2>3 DEF RenameBack
  <2> QED
    BY <1>17, <2>2, <2>3 DEF RenameBack
<1>18. CASE LeaveFind(Shell)
  BY <1>18 DEF LeaveFind, LeaveFrom, Resolve, Engage, Named, Present
<1>19. CASE SwitchOff(Shell)
  BY <1>19 DEF SwitchOff
<1>20. CASE ConfirmOff(Shell)
  BY <1>20 DEF ConfirmOff
<1>21. CASE Handback(Shell)
  BY <1>21 DEF Handback
<1>22. CASE Finish(Shell)
  <2>1. UNCHANGED label
    BY <1>22 DEF Finish
  <2>2. CASE Return(Shell)
    BY <2>1, <2>2 DEF Return
  <2>3. ASSUME NEW c \in todo[Shell], todo' = [todo EXCEPT ![Shell] = Remaining(Shell, c)],
               Engage(Shell, NoRadio, c[2], c[2], FALSE), Goto(Shell, "leaveFind"),
               UNCHANGED op
        PROVE  ByName'
    <3>1. /\ pc'[Shell] = "leaveFind" /\ radio'[Shell] = NoRadio
          /\ todo'[Shell] \subseteq todo[Shell]
      BY <2>3 DEF Engage, Remaining
    <3> QED
      BY <2>1, <2>3, <3>1
  <2> QED
    BY <1>22, <2>2, <2>3 DEF Finish
<1> QED
  BY <1>1, <1>2, <1>3, <1>4, <1>5, <1>6, <1>7, <1>8, <1>9, <1>10, <1>11, <1>12, <1>13,
     <1>14, <1>15, <1>16, <1>17, <1>18, <1>19, <1>20, <1>21, <1>22 DEF Step

(* What the terminal notes when a call answers: a failed call's radio, or  *)
(* one given up in monitor mode, is no longer free.                        *)
LEMMA Answers ==
    ASSUME Answerable, NEW s \in Radios
    PROVE  /\ s = radio[Shell] /\ pc'[Shell] = "failed" => why'[s] = "loose"
           /\ s = radio[Shell] /\ pc'[Shell] = "rejected" /\ mode'[s] = "monitor" =>
                why'[s] = "loose"
           /\ why'[s] = "free" =>
                (s = radio'[Shell] /\ s # radio[Shell]) \/ why[s] = "free"
BY DEF Answerable

Surrendered ==
    LET r == radio[Shell]
    IN r \in Radios /\ r # radio'[Shell] => ~(mode'[r] = "monitor" /\ why'[r] = "free")

(* A name is the name of one present radio.                                *)
LEMMA OneOfAName ==
    ASSUME WorldOK, NEW r \in Radios, mode[r] # "gone", NEW n, label[r] = n,
           NEW s \in Named(n)
    PROVE  s = r
BY DEF WorldOK, Named, Present

(* A radio the call did not work on stays accounted for while no mode      *)
(* changes.                                                                *)
LEMMA Kept ==
    ASSUME UNCHANGED mode, Answerable, NEW r \in Radios, r # radio'[Shell],
           ~(mode[r] = "monitor" /\ why[r] = "free")
    PROVE  ~(mode'[r] = "monitor" /\ why'[r] = "free")
BY Answers

(* A call that lets go of its radio leaves it out of monitor mode or       *)
(* marked: no attempt, rollback or restore drops one in silence.           *)
LEMMA StepSurrenders ==
    ASSUME Base, ByStart, ByName, ByMode, Answerable, Step(Shell)
    PROVE  Surrendered
<1> DEFINE r == radio[Shell]
<1> SUFFICES ASSUME r \in Radios, r # radio'[Shell]
             PROVE  ~(mode'[r] = "monitor" /\ why'[r] = "free")
  BY DEF Surrendered
<1> USE ShellIsCaller DEF Base, TypeOK, CallTypeOK, call, observers, Goto, WorldButSpent, world
<1>0. r # NoRadio
  BY SessionAssumption
<1>1. CASE TryNext(Shell) \/ Rejected(Shell) \/ Finish(Shell)
  <2>1. UNCHANGED mode
    BY <1>1 DEF TryNext, Rejected, Finish
  <2>2. ~(mode[r] = "monitor" /\ why[r] = "free")
    BY <1>0, <1>1 DEF TryNext, Rejected, Finish, ByMode, ByStart
  <2> QED
    BY <2>1, <2>2, Kept
<1>2. CASE Refind(Shell) \/ RestoreFind(Shell) \/ LeaveFind(Shell)
  <2>1. UNCHANGED mode
    BY <1>2 DEF Refind, RestoreFind, LeaveFind
  <2>2. mode[r] = "gone"
    <3> SUFFICES ASSUME mode[r] # "gone" PROVE FALSE
      OBVIOUS
    <3>1. \E n : label[r] = n /\ radio'[Shell] \in Named(n)
      <4>1. CASE Refind(Shell)
        BY <4>1 DEF Refind, Resolve, Engage, Find, ByName
      <4>2. CASE RestoreFind(Shell)
        BY <4>2 DEF RestoreFind, Resolve, Engage, Find, ByName
      <4>3. CASE LeaveFind(Shell)
        BY <1>0, <4>3 DEF LeaveFind, Resolve, Engage, Find, ByName
      <4> QED
        BY <1>2, <4>1, <4>2, <4>3
    <3> QED
      BY <3>1, OneOfAName
  <2> QED
    BY <2>1, <2>2
<1>3. CASE UNCHANGED radio
  BY <1>3
<1> QED
  BY <1>1, <1>2, <1>3 DEF Step, NmRelease, WpaFind, WpaDrop, SwitchOn, Confirm, RenameOn,
     Tune, UndoName, UndoMode, GiveNm, GiveWpa, GiveWpaAdd, RenameBack, SwitchOff,
     ConfirmOff, Handback

(* So every radio in monitor mode stays accounted for.                     *)
LEMMA AccountedFor ==
    ASSUME Base, Accounted, Answerable, Within(Shell), Surrendered
    PROVE  Accounted'
<1> SUFFICES ASSUME NEW s \in Radios, mode'[s] = "monitor", why'[s] = "free",
                    s # radio'[Shell]
             PROVE  FALSE
  BY DEF Accounted
<1>1. why[s] = "free"
  BY Answers
<1>2. s # radio[Shell]
  BY DEF Surrendered
<1>3. mode[s] = "monitor"
  BY <1>2 DEF Within
<1> QED
  BY <1>1, <1>2, <1>3 DEF Accounted

(* A call hands back only what it has read out of monitor mode, and moves  *)
(* on from a failed attempt only with the radio marked.                    *)
LEMMA StepByMode ==
    ASSUME Base, ByStart, ByMode, Answerable, Step(Shell)
    PROVE  ByMode'
<1> DEFINE r == radio[Shell]
<1> USE ShellIsCaller, Equipment DEF Base, TypeOK, CallTypeOK, Goto, call, observers, WorldButSpent,
        world, Stopping, HandingBack, Starts, Entering, RollingBack
<1>1. CASE SwitchOn(Shell) \/ UndoMode(Shell)
  <2>1. pc'[Shell] \in {"confirm", "giveNm"} /\ op'[Shell] \in Starts
    BY <1>1 DEF SwitchOn, UndoMode, ByStart, Starting
  <2> QED
    BY <2>1 DEF ByMode
<1>2. CASE SwitchOff(Shell) \/ RenameBack(Shell)
  <2>1. pc'[Shell] \in {"unconfirm", "leaveFind", "failed"} /\ UNCHANGED radio /\ r \in Radios
    BY <1>2 DEF SwitchOff, RenameBack, Unresolved, Unnamed
  <2> QED
    BY <2>1, Answers DEF ByMode
<1>3. CASE LeaveFind(Shell)
  <2>1. CASE pc'[Shell] = "failed"
    BY <1>3, <2>1, Answers DEF LeaveFind, LeaveFrom, ByMode
  <2>2. ASSUME NEW s \in Radios, Resolve(Shell, s), Goto(Shell, LeaveFrom(s))
        PROVE  ByMode'
    BY <1>3, <2>2 DEF LeaveFind, Resolve, Engage, LeaveFrom, ByMode
  <2> QED
    BY <1>3, <2>1, <2>2 DEF LeaveFind, Find, Named, Present
<1>4. CASE RestoreFind(Shell)
  BY <1>4, Answers DEF RestoreFind, ByMode
<1>5. CASE ConfirmOff(Shell)
  <2>1. UNCHANGED <<radio, mode>> /\ r \in Radios
    BY <1>5 DEF ConfirmOff, Unresolved, Unnamed
  <2> QED
    BY <1>5, <2>1, Answers DEF ConfirmOff, ReadMode, ByMode
<1>6. CASE Handback(Shell)
  BY <1>6 DEF Handback, ByMode
<1>7. CASE NmRelease(Shell) \/ WpaFind(Shell) \/ WpaDrop(Shell)
  <2>1. UNCHANGED <<radio, mode>> /\ pc'[Shell] \in {"wpaFind", "wpaDrop", "switch", "rejected"}
    BY <1>7 DEF NmRelease, WpaFind, WpaDrop
  <2> QED
    BY <2>1, Answers DEF ByMode
<1>8. CASE GiveNm(Shell) \/ GiveWpa(Shell) \/ GiveWpaAdd(Shell)
  <2>1. /\ UNCHANGED <<radio, mode, op>> /\ r \in Radios
        /\ pc[Shell] \in HandingBack
        /\ pc'[Shell] \in {"giveWpa", "giveWpaAdd", Reclaimed(Shell)}
    BY <1>8 DEF GiveNm, GiveWpa, GiveWpaAdd, Unresolved, Unnamed
  <2> QED
    BY <2>1, Answers DEF ByMode, Reclaimed
<1>9. CASE Rejected(Shell)
  <2>1. UNCHANGED mode /\ r \in Radios
    BY <1>9 DEF Rejected, Unresolved, Unnamed
  <2>2. CASE pc'[Shell] = "next" /\ UNCHANGED radio
    BY <1>9, <2>1, <2>2, Answers DEF Rejected, ByMode
  <2>3. CASE Return(Shell)
    BY <2>3 DEF Return, ByMode
  <2> QED
    BY <1>9, <2>2, <2>3 DEF Rejected
<1>10. CASE pc'[Shell] \in {"release", "idle", "leaveFind", "rename", "undoMode", "tune",
                             "refind", "undoName", "open", "restore"}
  BY <1>10 DEF ByMode
<1>11. CASE TryNext(Shell) \/ Confirm(Shell) \/ RenameOn(Shell) \/ Refind(Shell)
            \/ Tune(Shell) \/ UndoName(Shell) \/ Finish(Shell)
  BY <1>10, <1>11 DEF TryNext, Confirm, RenameOn, Refind, Tune, UndoName, Finish, Return
<1> QED
  BY <1>1, <1>2, <1>3, <1>4, <1>5, <1>6, <1>7, <1>8, <1>9, <1>11 DEF Step

(* A step of a call meets one failure at most.                             *)
LEMMA Spending ==
    ASSUME TypeOK, Step(Shell)
    PROVE  spent \in Nat /\ (spent' = spent \/ spent' = spent + 1)
<1> USE DEF TypeOK, WorldTypeOK, world, Fault, Smooth, Find, SetMode, ReadMode, Rename, NmSet,
        WpaKnows, WpaSet, Probe
<1>1. spent \in Nat
  BY WorldAssumption
<1>2. CASE TryNext(Shell) \/ NmRelease(Shell) \/ WpaFind(Shell) \/ WpaDrop(Shell)
           \/ SwitchOn(Shell) \/ Confirm(Shell) \/ RenameOn(Shell) \/ Refind(Shell)
           \/ Tune(Shell)
  BY <1>1, <1>2 DEF TryNext, NmRelease, WpaFind, WpaDrop, SwitchOn, Confirm, RenameOn,
     Refind, Tune
<1>3. CASE UndoName(Shell) \/ UndoMode(Shell) \/ GiveNm(Shell) \/ GiveWpa(Shell)
           \/ GiveWpaAdd(Shell) \/ Rejected(Shell) \/ RestoreFind(Shell)
           \/ RenameBack(Shell) \/ LeaveFind(Shell) \/ SwitchOff(Shell)
           \/ ConfirmOff(Shell) \/ Handback(Shell) \/ Finish(Shell)
  BY <1>1, <1>3 DEF UndoName, UndoMode, GiveNm, GiveWpa, GiveWpaAdd, Rejected, RestoreFind,
     RenameBack, LeaveFind, SwitchOff, ConfirmOff, Handback, Finish
<1> QED
  BY <1>1, <1>2, <1>3 DEF Step

(* A wpa_supplicant call changes custody to what it asks for or not at     *)
(* all.                                                                    *)
LEMMA WpaSetTo ==
    ASSUME WorldTypeOK, NEW n, NEW to, NEW ok, WpaSet(n, to, ok), NEW s \in Radios
    PROVE  wpa'[s] \in {wpa[s], to}
BY DEF WpaSet, WorldTypeOK

(* A SetManaged(true) that succeeds gives every radio of that name to      *)
(* NetworkManager.                                                         *)
LEMMA NmGiven ==
    ASSUME NEW n, NmSet(n, TRUE, TRUE), NEW s \in Radios, s \in Named(n)
    PROVE  nm'[s]
BY DEF NmSet

(* One that does not is a failure.                                         *)
LEMMA NmRefused ==
    ASSUME NEW n, NEW b, NmSet(n, b, FALSE)
    PROVE  spent' = spent + 1
BY DEF NmSet, Fault

(* Only NetworkManager, running, takes a radio into wpa_supplicant.        *)
LEMMA OwnedByNm ==
    ASSUME Base, ByService, Step(Shell), NEW s \in Radios, wpa'[s] = "nm"
    PROVE  "nm" \in running'
<1> USE ShellIsCaller, Equipment DEF Base, TypeOK, WorldTypeOK, world, WorldButSpent, Unnamed
<1>1. UNCHANGED running
  BY DEF Step, TryNext, NmRelease, WpaFind, WpaDrop, SwitchOn, Confirm, RenameOn, Refind,
     Tune, UndoName, UndoMode, GiveNm, GiveWpa, GiveWpaAdd, Rejected, RestoreFind,
     RenameBack, LeaveFind, SwitchOff, ConfirmOff, Handback, Finish
<1>2. wpa[s] = "nm"
  <2>1. CASE WpaDrop(Shell)
    <3>1. PICK ok \in BOOLEAN : WpaSet(orig[Shell], "out", ok)
      BY <2>1, Zenon DEF WpaDrop
    <3> QED
      BY <3>1, WpaSetTo
  <2>2. CASE GiveWpaAdd(Shell)
    BY <2>2, WpaSetTo DEF GiveWpaAdd, HandbackName
  <2>3. CASE UNCHANGED wpa
    BY <2>3
  <2> QED
    BY <2>1, <2>2, <2>3 DEF Step, TryNext, NmRelease, WpaFind, SwitchOn, Confirm, RenameOn,
       Refind, Tune, UndoName, UndoMode, GiveNm, GiveWpa, Rejected, RestoreFind,
       RenameBack, LeaveFind, SwitchOff, ConfirmOff, Handback, Finish
<1> QED
  BY <1>1, <1>2 DEF ByService

(* reclaim_stack gives the radio to each running service, or something     *)
(* failed.                                                                 *)
LEMMA StepByService ==
    ASSUME Base, ByStart, ByName, ByService, begun \in Nat, UNCHANGED begun, Step(Shell)
    PROVE  ByService'
<1> DEFINE r == radio[Shell]
<1> USE ShellIsCaller, Equipment DEF Base, TypeOK, CallTypeOK, WorldTypeOK, Goto, call, observers,
        WorldButSpent, world, Stopping, HandingBack, Starts, Unnamed, Unresolved
<1>1. \A s \in Radios : wpa'[s] = "nm" => "nm" \in running'
  BY OwnedByNm
<1>2. spent \in Nat /\ begun <= spent /\ begun <= spent' /\ (spent' = begun => spent' = spent)
  BY Spending DEF ByService
<1>3. CASE pc'[Shell] # "left" /\ ~Stopping'
  BY <1>1, <1>2, <1>3 DEF ByService
<1>4. CASE spent' # begun
  BY <1>1, <1>2, <1>4 DEF ByService
<1>5. CASE Handback(Shell) /\ spent' = begun
  BY <1>1, <1>2, <1>5 DEF Handback, Fault, ByService
<1>6. CASE GiveNm(Shell) /\ spent' = begun
  <2>1. /\ UNCHANGED <<radio, op, held, mode, running>> /\ r \in Radios
        /\ orig[Shell] \in Names /\ spent = begun
    BY <1>2, <1>6 DEF GiveNm
  <2>2. CASE op[Shell] \in Starts
    BY <1>3, <1>6, <2>2 DEF GiveNm, Reclaimed
  <2>3. CASE op[Shell] \notin Starts
    <3>1. label[r] = orig[Shell] /\ held[Shell] = running
      BY <1>6, <2>1, <2>3 DEF GiveNm, ByName, ByService
    <3>2. pc'[Shell] = "giveWpa" /\ (mode[r] # "gone" /\ "nm" \in running => nm'[r])
      <4>1. CASE "nm" \notin held[Shell] /\ Goto(Shell, "giveWpa")
        BY <3>1, <4>1
      <4>2. CASE NmSet(orig[Shell], TRUE, TRUE) /\ Goto(Shell, "giveWpa")
        <5>1. mode[r] # "gone" => nm'[r]
          BY <2>1, <3>1, <4>2, NmGiven DEF Named, Present
        <5> QED
          BY <4>2, <5>1
      <4>3. ~NmSet(orig[Shell], TRUE, FALSE)
        <5>1. NmSet(orig[Shell], TRUE, FALSE) => spent' = spent + 1
          BY NmRefused, Zenon
        <5>2. spent' # spent + 1
          BY <1>2, <1>6
        <5> QED
          BY <5>1, <5>2, Zenon
      <4> QED
        BY <1>6, <4>1, <4>2, <4>3 DEF GiveNm, HandbackName
    <3> QED
      BY <1>1, <1>2, <2>1, <3>1, <3>2 DEF ByService
  <2> QED
    BY <2>2, <2>3
<1>7. CASE (GiveWpa(Shell) \/ GiveWpaAdd(Shell)) /\ spent' = begun
  <2>1. /\ UNCHANGED <<radio, op, held, mode, running, nm, label>> /\ r \in Radios
        /\ orig[Shell] \in Names /\ spent = begun
        /\ pc'[Shell] \in {"giveWpaAdd", Reclaimed(Shell)}
        /\ pc[Shell] \in {"giveWpa", "giveWpaAdd"}
    BY <1>2, <1>7 DEF GiveWpa, GiveWpaAdd
  <2>2. CASE op[Shell] \in Starts
    BY <1>3, <2>1, <2>2 DEF Reclaimed
  <2>3. CASE op[Shell] \notin Starts
    <3>1. /\ label[r] = orig[Shell] /\ held[Shell] = running
          /\ mode[r] # "gone" => ("nm" \in running => nm[r])
      BY <2>1, <2>3 DEF ByName, ByService
    <3>2. pc'[Shell] = "left" /\ mode[r] # "gone" /\ "wpa" \in running => wpa'[r] # "out"
      <4> SUFFICES ASSUME pc'[Shell] = "left", mode[r] # "gone", "wpa" \in running
                   PROVE  wpa'[r] # "out"
        OBVIOUS
      <4>1. r \in Named(orig[Shell]) /\ \A s \in Named(orig[Shell]) : s = r
        BY <2>1, <3>1, OneOfAName DEF Named, Present
      <4>2. CASE GiveWpa(Shell)
        BY <1>2, <1>7, <2>1, <3>1, <4>1, <4>2 DEF GiveWpa, WpaKnows, Fault, HandbackName
      <4>3. CASE GiveWpaAdd(Shell)
        BY <1>2, <1>7, <2>1, <4>1, <4>3 DEF GiveWpaAdd, WpaSet, Fault, HandbackName
      <4> QED
        BY <1>7, <4>2, <4>3
    <3> QED
      BY <1>1, <1>2, <2>1, <2>3, <3>1, <3>2 DEF ByService, Reclaimed
  <2> QED
    BY <2>2, <2>3
<1>8. CASE SwitchOn(Shell) \/ UndoMode(Shell)
  BY <1>3, <1>8 DEF SwitchOn, UndoMode, ByStart, Starting, Entering, RollingBack
<1>9. CASE \/ TryNext(Shell) \/ NmRelease(Shell) \/ WpaFind(Shell) \/ WpaDrop(Shell)
           \/ Confirm(Shell) \/ RenameOn(Shell) \/ Refind(Shell) \/ Tune(Shell)
           \/ UndoName(Shell) \/ Rejected(Shell) \/ RestoreFind(Shell) \/ RenameBack(Shell)
           \/ LeaveFind(Shell) \/ SwitchOff(Shell) \/ ConfirmOff(Shell) \/ Finish(Shell)
  <2>1. pc'[Shell] # "left" /\ pc'[Shell] \notin HandingBack
    BY <1>9 DEF TryNext, NmRelease, WpaFind, WpaDrop, Confirm, RenameOn, Refind, Tune, UndoName,
       Rejected, RestoreFind, RenameBack, LeaveFind, LeaveFrom, SwitchOff, ConfirmOff,
       Finish, Return
  <2> QED
    BY <1>3, <2>1
<1> QED
  BY <1>4, <1>5, <1>6, <1>7, <1>8, <1>9 DEF Step

(* stop_all_monitors loses no radio it has listed: each is to come, under  *)
(* way or out of monitor mode.                                             *)
LEMMA StepBySweep ==
    ASSUME Base, ByStart, ByMode, BySweep, ByService, UNCHANGED begun, Step(Shell)
    PROVE  BySweep'
<1> DEFINE r == radio[Shell]
<1> SUFFICES ASSUME op'[Shell] = "all" PROVE BySweep'
  BY DEF BySweep
<1> USE ShellIsCaller, Equipment DEF Base, TypeOK, CallTypeOK, WorldTypeOK, Goto, call, observers,
        WorldButSpent, world, Unnamed, Unresolved
<1>1. /\ op[Shell] = "all"
      /\ pc[Shell] \notin Starting \cup {"restore", "renameBack", "rename", "refind", "undoName"}
  BY DEF Step, TryNext, NmRelease, WpaFind, WpaDrop, SwitchOn, Confirm, RenameOn, Refind, Tune,
     UndoName, UndoMode, GiveNm, GiveWpa, GiveWpaAdd, Rejected, RestoreFind, RenameBack,
     LeaveFind, SwitchOff, ConfirmOff, Handback, Finish, Return, ByStart, Starts
<1>2. UNCHANGED label
  BY <1>1 DEF Step, TryNext, NmRelease, WpaFind, WpaDrop, SwitchOn, Confirm, RenameOn, Refind, Tune,
     UndoName, UndoMode, GiveNm, GiveWpa, GiveWpaAdd, Rejected, RestoreFind, RenameBack,
     LeaveFind, SwitchOff, ConfirmOff, Handback, Finish
<1>3. spent \in Nat /\ begun <= spent /\ (spent' = begun => spent = begun)
  BY Spending DEF ByService
<1>4. CASE Finish(Shell)
  <2>1. PICK c \in todo[Shell] :
            /\ todo' = [todo EXCEPT ![Shell] = Remaining(Shell, c)]
            /\ Engage(Shell, NoRadio, c[2], c[2], FALSE)
            /\ Goto(Shell, "leaveFind")
    BY <1>4 DEF Finish, Return
  <2>2. /\ UNCHANGED <<mode, label, spent>> /\ orig'[Shell] = c[2] /\ pc'[Shell] = "leaveFind"
        /\ todo'[Shell] = todo[Shell] \ {c}
        /\ pc[Shell] \notin {"leaveFind", "unswitch"}
    BY <1>4, <2>1 DEF Finish, Engage, Remaining
  <2> QED
    BY <1>1, <2>2 DEF BySweep
<1>5. CASE LeaveFind(Shell)
  <2>1. UNCHANGED <<mode, todo>> /\ pc[Shell] = "leaveFind"
    BY <1>5 DEF LeaveFind
  <2>2. CASE spent' # begun
    BY <1>1, <1>2, <2>1, <2>2 DEF BySweep
  <2>3. ASSUME spent' = begun, Named(orig[Shell]) = {}, pc'[Shell] = "failed"
        PROVE  BySweep'
    BY <1>1, <1>2, <1>3, <2>1, <2>3 DEF BySweep, Named, Present
  <2>4. ASSUME spent' = begun, NEW s \in Named(orig[Shell]), radio'[Shell] = s,
               pc'[Shell] = LeaveFrom(s)
        PROVE  BySweep'
    <3>1. \A q \in Radios : mode[q] = "monitor" /\ label[q] = orig[Shell] => q = s
      BY OneOfAName
    <3> QED
      BY <1>1, <1>2, <1>3, <2>1, <2>4, <3>1 DEF BySweep, LeaveFrom
  <2>5. spent' = begun => Smooth
    BY <1>3 DEF Smooth
  <2>6. ~(Smooth /\ Fault("detect"))
    BY <1>3 DEF Smooth, Fault
  <2> QED
    BY <1>5, <2>2, <2>3, <2>4, <2>5, <2>6 DEF LeaveFind, Find, Resolve, Engage
<1>6. CASE SwitchOff(Shell)
  <2>1. /\ UNCHANGED <<todo, radio>> /\ pc[Shell] = "unswitch" /\ r \in Radios
        /\ \A q \in Radios : mode'[q] = "monitor" => mode[q] = "monitor"
    BY <1>6 DEF SwitchOff, SetMode
  <2>2. CASE spent' # begun
    BY <1>1, <1>2, <2>1, <2>2 DEF BySweep
  <2>3. CASE spent' = begun
    <3>1. mode'[r] # "monitor"
      BY <1>3, <1>6, <2>1, <2>3 DEF SwitchOff, SetMode, Fault
    <3> QED
      BY <1>1, <1>2, <1>3, <2>1, <2>3, <3>1 DEF BySweep
  <2> QED
    BY <2>2, <2>3
<1>7. CASE \/ ConfirmOff(Shell) \/ Handback(Shell)
           \/ GiveNm(Shell) \/ GiveWpa(Shell) \/ GiveWpaAdd(Shell)
  <2>1. UNCHANGED <<mode, todo>> /\ pc[Shell] \notin {"leaveFind", "unswitch"}
    BY <1>7 DEF ConfirmOff, Handback, GiveNm, GiveWpa, GiveWpaAdd
  <2> QED
    BY <1>1, <1>2, <1>3, <2>1 DEF BySweep
<1> QED
  BY <1>1, <1>4, <1>5, <1>6, <1>7 DEF Step, TryNext, NmRelease, WpaFind, WpaDrop, SwitchOn, Confirm,
     RenameOn, Refind, Tune, UndoName, UndoMode, Rejected, RestoreFind, RenameBack, Starting,
     Entering, RollingBack

(* The types and the consistency of the world, from SessionProofs, for the *)
(* session's part of a step.                                               *)
LEMMA SessionKeepsBase == Base /\ [Next]_vars => Base'
<1> SUFFICES ASSUME Base, [Next]_vars PROVE Base'
  OBVIOUS
<1>1. Apart
  BY ShellIsCaller DEF Apart
<1>2. TypeOK'
  BY WorldTypeStep, CallTypeStep DEF Base, TypeOK, CallsTypeOK
<1>3. WorldOK' /\ HeldRuns'
  BY WorldInvStep DEF Base, WorldInv
<1>4. Rested'
  BY <1>1, ApartStep DEF Base
<1> QED
  BY <1>2, <1>3, <1>4 DEF Base

(* Every call of a script is a call of the session model.                  *)
LEMMA CallIsClient ==
    ASSUME NEW s, Call(s)
    PROVE  Client(Shell)
BY ProgramAssumption DEF Call, Client, StartOn, StartAs

(* Beginning one changes no radio and meets one failure at most.           *)
LEMMA ClientSpends ==
    ASSUME TypeOK, Client(Shell)
    PROVE  /\ UNCHANGED <<mode, label, nm, wpa, running>>
           /\ spent \in Nat /\ (spent' = spent \/ spent' = spent + 1)
<1>1. spent \in Nat
  BY WorldAssumption DEF TypeOK, WorldTypeOK
<1> USE DEF world, WorldButSpent, Smooth, Fault
<1>2. CASE StartAuto(Shell) \/ StopAll(Shell)
  BY <1>1, <1>2 DEF StartAuto, StopAll, Snapshot
<1>3. CASE StartOn(Shell) \/ StartAs(Shell)
  BY <1>1, <1>3 DEF StartOn, StartAs, StartNamed, Find
<1>4. CASE StopMonitor(Shell) \/ Restore(Shell) \/ Persist(Shell)
  BY <1>1, <1>4 DEF StopMonitor, Restore, Persist
<1> QED
  BY <1>2, <1>3, <1>4 DEF Client

Observed == why \in [Radios -> {"free", "kept", "loose"}] /\ begun \in Nat

(* The terminal's notes keep their type.                                   *)
LEMMA AnswerableObserved ==
    ASSUME Observed, Answerable, UNCHANGED begun
    PROVE  Observed'
BY DEF Observed, Answerable

(* A call begins with what its first point relies on.                      *)
LEMMA CallEnters ==
    ASSUME Base, ByStart, ByName, ByMode, NEW s, Call(s), ~Persist(Shell), UNCHANGED <<mode, label>>
    PROVE  ByStart' /\ ByName' /\ ByMode'
<1> USE ShellIsCaller, SessionAssumption
        DEF Base, TypeOK, CallTypeOK, Rested, ByStart, ByName, ByMode, Starting, Entering,
            RollingBack, Stopping, HandingBack, UnderOrig, Starts, Goto, call, observers
<1>1. CASE StartAuto(Shell)
  <2>1. \A c \in Listed : label[c[1]] = c[2]
    BY DEF Listed
  <2>2. CASE UNCHANGED <<pc, call, observers>>
    BY <1>1, <2>2 DEF StartAuto
  <2>3. ASSUME NEW work \in SUBSET Listed, Goto(Shell, "next"),
               op' = [op EXCEPT ![Shell] = "auto"], todo' = [todo EXCEPT ![Shell] = work],
               UNCHANGED <<radio, orig, cur, held, observers>>
        PROVE  ByStart' /\ ByName' /\ ByMode'
    BY <1>1, <2>1, <2>3 DEF StartAuto
  <2> QED
    <3>1. PICK seen \in {Listed, {}} :
              IF seen \ Busy(seen) = {} THEN UNCHANGED <<pc, call>>
              ELSE /\ Goto(Shell, "next")
                   /\ op' = [op EXCEPT ![Shell] = "auto"]
                   /\ todo' = [todo EXCEPT ![Shell] = seen \ Busy(seen)]
                   /\ UNCHANGED <<radio, orig, cur, held>>
      BY <1>1, Zenon DEF StartAuto
    <3>2. UNCHANGED observers
      BY <1>1 DEF StartAuto
    <3>3. CASE seen \ Busy(seen) = {}
      BY <2>2, <3>1, <3>2, <3>3, Zenon DEF call
    <3>4. CASE seen \ Busy(seen) # {}
      <4>1. seen \ Busy(seen) \in SUBSET Listed
        BY <3>1
      <4>2. /\ Goto(Shell, "next") /\ op' = [op EXCEPT ![Shell] = "auto"]
            /\ todo' = [todo EXCEPT ![Shell] = seen \ Busy(seen)]
            /\ UNCHANGED <<radio, orig, cur, held, observers>>
        BY <3>1, <3>2, <3>4, Zenon
      <4> QED
        BY <2>3, <4>1, <4>2, Zenon
    <3> QED
      BY <3>3, <3>4
<1>2. ASSUME NEW kind \in {"on", "as"}, NEW n, NEW new, StartNamed(Shell, kind, n, new),
             kind = "on" => new = n
      PROVE  ByStart' /\ ByName' /\ ByMode'
  <2>1. CASE UNCHANGED <<pc, call, observers>>
    BY <1>2, <2>1 DEF StartNamed
  <2>2. ASSUME NEW r \in Radios, label[r] = n, Goto(Shell, "release"),
               op' = [op EXCEPT ![Shell] = kind], Engage(Shell, r, n, new, FALSE),
               UNCHANGED todo
        PROVE  ByStart' /\ ByName' /\ ByMode'
    <3>1. /\ pc'[Shell] = "release" /\ op'[Shell] = kind /\ radio'[Shell] = r
          /\ orig'[Shell] = n /\ cur'[Shell] = new /\ todo'[Shell] = {}
      BY <1>2, <2>2 DEF StartNamed, Engage
    <3> QED
      BY <1>2, <2>2, <3>1
  <2> QED
    BY <1>2, <2>1, <2>2 DEF StartNamed, Find, Named, Present
<1>3. CASE StopMonitor(Shell)
  BY <1>3 DEF StopMonitor, Engage
<1>4. CASE StopAll(Shell)
  BY <1>4 DEF StopAll
<1>5. CASE Restore(Shell)
  BY <1>5 DEF Restore
<1> QED
  BY <1>1, <1>2, <1>3, <1>4, <1>5 DEF Call

(* Only stop_all_monitors begins a sweep,                                  *)
LEMMA CallNoSweep ==
    ASSUME Base, ByStart, NEW s, Call(s), ~Persist(Shell), ~StopAll(Shell)
    PROVE  BySweep'
<1> USE ShellIsCaller DEF Base, TypeOK, CallTypeOK, ByStart, BySweep, call
<1>1. CASE StartAuto(Shell)
  BY <1>1 DEF StartAuto
<1>2. ASSUME NEW kind \in {"on", "as"}, NEW n, NEW new, StartNamed(Shell, kind, n, new)
      PROVE  BySweep'
  BY <1>2 DEF StartNamed
<1>3. CASE StopMonitor(Shell)
  BY <1>3 DEF StopMonitor
<1>4. CASE Restore(Shell)
  BY <1>4 DEF Restore
<1> QED
  BY <1>1, <1>2, <1>3, <1>4 DEF Call

(* and it lists every radio in monitor mode, or its enumeration failed.    *)
LEMMA SweepBegins ==
    ASSUME Base, ByStart, StopAll(Shell), begun' = spent
    PROVE  BySweep'
<1>1. /\ pc[Shell] = "idle" /\ UNCHANGED <<mode, label>> /\ op[Shell] = "none"
      /\ \A c \in Listed : c[1] \in Radios /\ label[c[1]] = c[2]
      /\ \A r \in Radios : mode[r] = "monitor" => <<r, label[r]>> \in Listed
  BY DEF StopAll, WorldButSpent, ByStart, Listed, Present
<1>2. PICK seen \in {Listed, {}} :
          /\ Snapshot(seen)
          /\ \/ UNCHANGED op
             \/ todo' = [todo EXCEPT ![Shell] = Busy(seen)]
          /\ Busy(seen) = {} => UNCHANGED op
  BY Zenon DEF StopAll, call
<1>3. CASE UNCHANGED op
  BY <1>1, <1>3 DEF BySweep
<1>4. CASE todo' = [todo EXCEPT ![Shell] = Busy(seen)]
  <2>1. todo'[Shell] = Busy(seen)
    BY <1>4, ShellIsCaller DEF Base, TypeOK, CallTypeOK
  <2>2. \A c \in Busy(seen) : label[c[1]] = c[2]
    BY <1>1, <1>2 DEF Busy
  <2>3. spent' = spent => seen = Listed
    BY <1>2, WorldAssumption DEF Snapshot, Fault, Base, TypeOK, WorldTypeOK
  <2>4. \A r \in Radios : spent' = spent /\ mode[r] = "monitor" => <<r, label[r]>> \in Busy(seen)
    BY <1>1, <2>3 DEF Busy
  <2>5. spent' = begun' => \A r \in Radios : mode'[r] = "monitor" =>
            \E c \in todo'[Shell] : c[1] = r
    <3> SUFFICES ASSUME spent' = begun', NEW r \in Radios, mode'[r] = "monitor"
                 PROVE  \E c \in todo'[Shell] : c[1] = r
      OBVIOUS
    <3>1. <<r, label[r]>> \in todo'[Shell]
      BY <1>1, <2>1, <2>4
    <3> QED
      BY <3>1
  <2>6. \A c \in todo'[Shell] : label'[c[1]] = c[2]
    BY <1>1, <2>1, <2>2
  <2> QED
    BY <2>5, <2>6 DEF BySweep
<1> QED
  BY <1>2, <1>3, <1>4

(* A step of a call is a step of one that is under way.                    *)
LEMMA StepUnderWay ==
    ASSUME Step(Shell)
    PROVE  pc[Shell] \notin {"idle", "open"}
BY DEF Step, TryNext, NmRelease, WpaFind, WpaDrop, SwitchOn, Confirm, RenameOn, Refind, Tune,
   UndoName, UndoMode, GiveNm, GiveWpa, GiveWpaAdd, Rejected, RestoreFind, RenameBack,
   LeaveFind, SwitchOff, ConfirmOff, Handback, Finish

(* The invariant is kept by the step of a call under way,                  *)
LEMMA LibraryStep ==
    ASSUME Base, Observed, ProgramInv, Library
    PROVE  Base' /\ Observed' /\ ProgramInv'
<1>1. Step(Shell) /\ Answerable /\ UNCHANGED begun
  BY DEF Library
<1>2. Base'
  BY <1>1, ShellIsCaller, SessionKeepsBase DEF Next
<1>3. Observed'
  BY <1>1, AnswerableObserved
<1>4. Accounted'
  BY <1>1, ShellIsCaller, StepWithin, StepSurrenders, AccountedFor DEF ProgramInv, Base
<1>5. ByStart' /\ ByName' /\ ByMode' /\ ByService' /\ BySweep'
  BY <1>1, StepByStart, StepByName, StepByMode, StepByService, StepBySweep DEF ProgramInv, Observed
<1>6. Between'
  BY <1>1, StepUnderWay DEF ProgramInv, Between, Library, Settled
<1> QED
  BY <1>2, <1>3, <1>4, <1>5, <1>6 DEF ProgramInv

(* by a program making its next call,                                      *)
LEMMA IssueStep ==
    ASSUME Base, Observed, ProgramInv, Issue
    PROVE  Base' /\ Observed' /\ ProgramInv'
<1> DEFINE s == Head(script)
<1>1. Call(s) /\ begun' = spent
  BY DEF Issue
<1>2. Client(Shell)
  BY <1>1, CallIsClient
<1>3. Base'
  BY <1>2, ShellIsCaller, SessionKeepsBase DEF Next
<1>4. /\ UNCHANGED <<mode, label, nm, wpa, running>>
      /\ spent \in Nat /\ (spent' = spent \/ spent' = spent + 1)
  BY <1>2, ClientSpends DEF Base
<1>7. Between'
  BY DEF Issue, Between
<1>5. CASE Persist(Shell)
  <2>1. radio[Shell] \in Radios
    BY <1>5, ShellIsCaller, Equipment DEF Persist, Base, Unresolved, Unnamed
  <2>2. \E w \in {"kept", "loose"} : why' = [why EXCEPT ![radio[Shell]] = w]
    <3>1. s.do = "persist"
      BY <1>1, <1>5, ShellIsCaller DEF Call, StartAuto, StartNamed, StopMonitor, StopAll, Restore,
         Persist, Return, Goto, Base, TypeOK, CallTypeOK
    <3> QED
      BY <3>1 DEF Issue
  <2>3. Observed'
    BY <1>1, <1>4, <2>1, <2>2 DEF Observed
  <2>4. Accounted'
    BY <1>4, <2>1, <2>2 DEF ProgramInv, Accounted, Observed
  <2>5. /\ pc'[Shell] = "idle" /\ op'[Shell] = "none" /\ todo'[Shell] = {}
    BY <1>5, ShellIsCaller DEF Persist, Return, Goto, Base, TypeOK, CallTypeOK
  <2>6. ByStart' /\ ByName' /\ ByMode' /\ ByService' /\ BySweep'
    BY <1>1, <1>4, <2>5 DEF ByStart, ByName, ByMode, ByService, BySweep, ProgramInv, Starting, Entering,
       RollingBack, Stopping, HandingBack, UnderOrig, Starts
  <2> QED
    BY <1>3, <1>7, <2>3, <2>4, <2>6 DEF ProgramInv
<1>6. CASE ~Persist(Shell)
  <2>1. Answerable
    BY <1>1, <1>6 DEF Issue, Call
  <2>2. Observed'
    BY <1>1, <1>4, <2>1 DEF Observed, Answerable
  <2>3. Surrendered
    BY <1>1, <1>6, ShellIsCaller, SessionAssumption
       DEF Surrendered, Base, Rested, Call, StartAuto, StartNamed, StopMonitor, StopAll, Restore,
           call, observers
  <2>4. Accounted'
    BY <1>2, <2>1, <2>3, ShellIsCaller, StepWithin, AccountedFor DEF ProgramInv, Base
  <2>5. ByStart' /\ ByName' /\ ByMode'
    BY <1>1, <1>4, <1>6, CallEnters DEF ProgramInv
  <2>6. pc'[Shell] # "left" /\ pc'[Shell] \notin HandingBack
    BY <1>1, <1>6, ShellIsCaller
       DEF Call, StartAuto, StartNamed, StopMonitor, StopAll, Restore, Goto, Base, TypeOK,
           CallTypeOK, Rested, HandingBack
  <2>7. ByService'
    BY <1>1, <1>4, <2>6 DEF ByService, ProgramInv, Stopping
  <2>8. BySweep'
    <3>1. CASE ~StopAll(Shell)
      BY <1>1, <1>6, <3>1, CallNoSweep DEF ProgramInv
    <3>2. CASE StopAll(Shell)
      BY <1>1, <3>2, SweepBegins DEF ProgramInv
    <3> QED
      BY <3>1, <3>2
  <2> QED
    BY <1>3, <1>7, <2>2, <2>4, <2>5, <2>7, <2>8 DEF ProgramInv
<1> QED
  BY <1>5, <1>6

(* by a kill, whatever the call was doing,                                 *)
LEMMA KilledStep ==
    ASSUME Base, Observed, ProgramInv, Killed
    PROVE  Base' /\ Observed' /\ ProgramInv'
<1>1. Kill(Shell) /\ UNCHANGED begun
  BY DEF Killed
<1>2. Base'
  BY <1>1, ShellIsCaller, SessionKeepsBase DEF Next
<1>3. /\ UNCHANGED <<mode, label, nm, wpa, running>>
      /\ spent \in Nat /\ spent' = spent + 1
  BY <1>1, WorldAssumption DEF Kill, Fault, WorldButSpent, Base, TypeOK, WorldTypeOK
<1>4. why' = [r \in Radios |-> IF r = radio[Shell] THEN "loose" ELSE why[r]]
  BY DEF Killed
<1>5. Observed'
  BY <1>1, <1>4 DEF Observed
<1>6. Accounted'
  BY <1>3, <1>4 DEF ProgramInv, Accounted
<1>7. /\ pc'[Shell] = "idle" /\ op'[Shell] = "none" /\ todo'[Shell] = {}
  BY <1>1, ShellIsCaller DEF Kill, Return, Goto, Base, TypeOK, CallTypeOK
<1>8. ByStart' /\ ByName' /\ ByMode' /\ ByService' /\ BySweep'
  BY <1>1, <1>3, <1>7 DEF ByStart, ByName, ByMode, ByService, BySweep, ProgramInv, Observed, Starting,
     Entering, RollingBack, Stopping, HandingBack, UnderOrig, Starts
<1>9. Between'
  BY <1>7 DEF Between
<1> QED
  BY <1>2, <1>5, <1>6, <1>8, <1>9 DEF ProgramInv

(* by an adapter or a service coming or going between calls,               *)
LEMMA SurroundingsStep ==
    ASSUME Base, Observed, ProgramInv, Surroundings
    PROVE  Base' /\ Observed' /\ ProgramInv'
<1>1. Environment /\ UNCHANGED <<pc, call, observers, why, begun>>
  BY DEF Surroundings, shellVars
<1>2. Base'
  BY <1>1, SessionKeepsBase DEF Next
<1>3. Observed'
  BY <1>1 DEF Observed
<1> USE DEF call, Base, TypeOK, WorldTypeOK, CallTypeOK
<1>4. /\ UNCHANGED <<pc, op, radio, orig, cur, held, todo, why, begun, label, running>>
      /\ \A s \in Radios : mode'[s] = mode[s] \/ mode'[s] \in {"managed", "gone"}
  BY <1>1 DEF Environment, PullBack, NmAdopt, NmDrop, Unplug
<1>5. Accounted'
  BY <1>4 DEF ProgramInv, Accounted
<1>6. ByStart'
  BY <1>4 DEF ProgramInv, ByStart
<1>7. ByName'
  BY <1>4 DEF ProgramInv, ByName, Stopping
<1>8. ByMode'
  BY <1>4, ShellIsCaller, Equipment DEF ProgramInv, ByMode, Stopping, HandingBack, Unresolved, Unnamed
<1>9. ByService'
  <2>1. spent \in Nat /\ begun \in Nat /\ begun <= spent
    BY WorldAssumption DEF ProgramInv, ByService, Observed
  <2>2. PICK s \in Radios : PullBack(s) \/ NmAdopt(s) \/ NmDrop(s) \/ Unplug(s)
    BY <1>1 DEF Environment
  <2>3. CASE PullBack(s)
    BY <1>4, <2>1, <2>3 DEF PullBack, ProgramInv, ByService, Stopping
  <2>4. CASE NmAdopt(s)
    <3>1. "nm" \in running
      BY <2>4 DEF NmAdopt, WorldOK
    <3>2. \A t \in Radios : wpa'[t] = wpa[t] \/ (t = s /\ wpa'[t] = "nm")
      BY <2>4 DEF NmAdopt
    <3> QED
      BY <1>4, <2>1, <2>4, <3>1, <3>2, ShellIsCaller, Equipment
         DEF NmAdopt, ProgramInv, ByService, Stopping, Unresolved, Unnamed
  <2>5. CASE NmDrop(s)
    <3>1. "nm" \in running /\ ~nm[s]
      BY <2>5 DEF NmDrop, ProgramInv, ByService
    <3>2. \A t \in Radios : wpa'[t] = wpa[t] \/ (t = s /\ wpa'[t] = "out")
      BY <2>5 DEF NmDrop
    <3> QED
      BY <1>4, <2>1, <2>5, <3>1, <3>2, ShellIsCaller, Equipment
         DEF NmDrop, ProgramInv, ByService, Stopping, Unresolved, Unnamed
  <2>6. CASE Unplug(s)
    <3>1. spent' # begun /\ begun <= spent'
      BY <2>1, <2>6 DEF Unplug, Fault
    <3>2. \A t \in Radios : wpa'[t] \in {wpa[t], "out"}
      BY <2>6 DEF Unplug
    <3> QED
      BY <1>4, <3>1, <3>2 DEF ProgramInv, ByService
  <2> QED
    BY <2>2, <2>3, <2>4, <2>5, <2>6
<1>10. Between'
  BY <1>4 DEF Surroundings, shellVars, memory, ProgramInv, Between
<1>11. BySweep'
  <2>1. spent \in Nat /\ begun <= spent /\ (spent' = spent \/ spent' = spent + 1)
    BY <1>1, WorldAssumption DEF ProgramInv, ByService, Environment, PullBack, NmAdopt, NmDrop,
       Unplug, Fault
  <2> QED
    BY <1>3, <1>4, <2>1 DEF ProgramInv, BySweep, Observed
<1> QED
  BY <1>2, <1>3, <1>5, <1>6, <1>7, <1>8, <1>9, <1>10, <1>11 DEF ProgramInv

(* by what the program does by itself,                                     *)
LEMMA UntouchedStep ==
    ASSUME Base, Observed, ProgramInv, UNCHANGED <<vars, why, begun>>, Between'
    PROVE  Base' /\ Observed' /\ ProgramInv'
<1>1. Base'
  BY SessionKeepsBase
<1> QED
  BY <1>1 DEF vars, world, call, observers, Observed, ProgramInv, Accounted, ByStart, ByName, ByMode,
     ByService, BySweep, Stopping

(* by a program looking at a radio,                                        *)
LEMMA LookStep ==
    ASSUME Base, Observed, ProgramInv, Look
    PROVE  Base' /\ Observed' /\ ProgramInv'
<1>1. /\ UNCHANGED <<mode, label, nm, wpa, running, pc, op, radio, orig, cur, held, todo,
                     found, spoiled, why, begun>>
      /\ spent' \in 0..MaxFaults
      /\ spent \in Nat /\ (spent' = spent \/ spent' = spent + 1)
  BY WorldAssumption DEF Look, WorldButSpent, call, observers, Smooth, Fault, Base, TypeOK, WorldTypeOK
<1>2. Base'
  BY <1>1 DEF Base, TypeOK, WorldTypeOK, CallTypeOK, ObserversTypeOK, Equipped, WorldOK, HeldRuns,
     Rested
<1>3. Observed'
  BY <1>1 DEF Observed
<1>4. Accounted' /\ ByStart' /\ ByName' /\ ByMode'
  BY <1>1 DEF ProgramInv, Accounted, ByStart, ByName, ByMode, Stopping
<1>5. ByService' /\ BySweep'
  BY <1>1 DEF ProgramInv, ByService, BySweep, Stopping, Observed
<1>6. Between'
  BY <1>1 DEF Look, Ready, ProgramInv, Between
<1> QED
  BY <1>2, <1>3, <1>4, <1>5, <1>6 DEF ProgramInv

(* and by reset reviving a service, which takes what it manages.           *)
LEMMA RestartStep ==
    ASSUME Base, Observed, ProgramInv, NEW service \in Services, Restart(service)
    PROVE  Base' /\ Observed' /\ ProgramInv'
<1>1. /\ UNCHANGED <<mode, label, pc, op, radio, orig, cur, held, todo, found, spoiled, begun>>
      /\ pc[Shell] \in {"idle", "open"}
      /\ why' = [r \in Radios |-> IF why[r] = "kept" THEN "loose" ELSE why[r]]
  BY DEF Restart, Ready, ProgramInv, Between, call, observers, world, WorldButSpent, Revived
<1>2. /\ spent' \in 0..MaxFaults
      /\ spent \in Nat /\ (spent' = spent \/ spent' = spent + 1)
  BY WorldAssumption DEF Restart, world, Smooth, Fault, Base, TypeOK, WorldTypeOK
<1>3. /\ running \subseteq running' /\ running' \subseteq Services
      /\ nm' \in [Radios -> BOOLEAN]
      /\ \A r \in Radios : nm'[r] => nm[r] \/ ("nm" \in running' /\ r \in Present)
  <2>1. CASE UNCHANGED <<nm, running>>
    BY <2>1 DEF Base, TypeOK, WorldTypeOK
  <2>2. CASE Revived(service)
    <3>1. running' = running \cup {service} /\ running \subseteq Services
      BY <2>2 DEF Revived, Base, TypeOK, WorldTypeOK
    <3>2. CASE service = "nm"
      <4>1. nm' = [r \in Radios |-> r \in Present]
        BY <2>2, <3>2 DEF Revived
      <4>2. \A r \in Radios : (r \in Present) \in BOOLEAN
        OBVIOUS
      <4>3. nm' \in [Radios -> BOOLEAN]
        BY <4>1, <4>2, Zenon
      <4>4. \A r \in Radios : nm'[r] => r \in Present
        BY <4>1, Zenon
      <4> QED
        BY <3>1, <3>2, <4>3, <4>4
    <3>3. CASE service # "nm"
      <4>1. nm' = nm
        BY <2>2, <3>3 DEF Revived
      <4> QED
        BY <3>1, <4>1 DEF Base, TypeOK, WorldTypeOK
    <3> QED
      BY <3>2, <3>3
  <2> QED
    BY <2>1, <2>2 DEF Restart, world, WorldButSpent
<1>4. /\ wpa' \in [Radios -> WpaStates]
      /\ \A r \in Radios : wpa'[r] \in {wpa[r], "out"}
  <2>1. CASE UNCHANGED wpa
    BY <2>1 DEF Base, TypeOK, WorldTypeOK
  <2>2. CASE Revived(service)
    <3>1. CASE service # "wpa"
      BY <2>2, <3>1 DEF Revived, Base, TypeOK, WorldTypeOK
    <3>2. CASE service = "wpa"
      <4>1. PICK named \in SUBSET {r \in Radios : wpa[r] = "own"} :
                wpa' = [r \in Radios |-> IF r \in named THEN "own" ELSE "out"]
        BY <2>2, <3>2 DEF Revived
      <4>2. \A r \in named : wpa[r] = "own"
        BY <4>1
      <4>3. \A r \in Radios : wpa'[r] = (IF r \in named THEN "own" ELSE "out")
        BY <4>1
      <4>4. \A r \in Radios : (IF r \in named THEN "own" ELSE "out") \in WpaStates
        BY DEF WpaStates
      <4>5. wpa' \in [Radios -> WpaStates]
        BY <4>1, <4>4, Zenon
      <4> QED
        BY <4>2, <4>3, <4>5
    <3> QED
      BY <3>1, <3>2
  <2> QED
    BY <2>1, <2>2 DEF Restart, world, WorldButSpent
<1>5. Base'
  <2>1. TypeOK'
    BY <1>1, <1>2, <1>3, <1>4 DEF Base, TypeOK, WorldTypeOK, CallTypeOK, ObserversTypeOK, Equipped
  <2>2. WorldOK'
    BY <1>1, <1>3, <1>4 DEF Base, WorldOK, Present
  <2>3. HeldRuns' /\ Rested'
    BY <1>1, <1>3 DEF Base, HeldRuns, Rested
  <2> QED
    BY <2>1, <2>2, <2>3 DEF Base
<1>6. Observed'
  BY <1>1 DEF Observed
<1>7. Between' /\ Accounted' /\ ByStart' /\ ByName' /\ ByMode'
  BY <1>1 DEF ProgramInv, Between, Accounted, ByStart, ByName, ByMode, Stopping, HandingBack
<1>8. ByService'
  BY <1>1, <1>2, <1>3, <1>4 DEF ProgramInv, ByService, Observed, Stopping, HandingBack
<1>9. BySweep'
  BY <1>1, <1>2 DEF ProgramInv, BySweep, ByService, Observed
<1> QED
  BY <1>5, <1>6, <1>7, <1>8, <1>9 DEF ProgramInv

(* It holds at boot, where nothing is in monitor mode,                     *)
LEMMA ShellInitHolds == ShellInit => Base /\ Observed /\ ProgramInv
<1> SUFFICES ASSUME ShellInit PROVE Base /\ Observed /\ ProgramInv
  OBVIOUS
<1>1. Init
  BY DEF ShellInit
<1>2. Base
  BY <1>1, InitInv DEF SessionInv, Base
<1>3. Observed
  BY DEF ShellInit, Observed
<1>4. Accounted
  BY DEF ShellInit, Accounted
<1>5. /\ pc[Shell] = "idle" /\ op[Shell] = "none" /\ todo[Shell] = {} /\ spent = 0 /\ begun = 0
  BY <1>1, ShellIsCaller DEF ShellInit, Init, WorldInit
<1>6. \A s \in Radios : wpa[s] = "nm" => "nm" \in running
  BY <1>1 DEF Init, WorldInit
<1>7. ByStart /\ ByName /\ ByMode /\ ByService
  BY <1>5, <1>6 DEF ByStart, ByName, ByMode, ByService, Starting, Entering, RollingBack, Stopping,
     HandingBack, UnderOrig, Starts
<1>8. Between /\ BySweep
  BY <1>5 DEF Between, BySweep
<1> QED
  BY <1>2, <1>3, <1>4, <1>7, <1>8 DEF ProgramInv

(* and every step keeps it.                                                *)
LEMMA ShellStep ==
    ASSUME Base, Observed, ProgramInv, [ShellNext]_allVars
    PROVE  Base' /\ Observed' /\ ProgramInv'
<1>1. CASE Launch
  BY <1>1, UntouchedStep DEF Launch, ProgramInv, Between, vars
<1>2. CASE Issue
  BY <1>2, IssueStep
<1>3. CASE RefuseName
  BY <1>3, UntouchedStep DEF RefuseName, Between
<1>4. CASE Library
  BY <1>4, LibraryStep
<1>5. CASE Look
  BY <1>5, LookStep
<1>6. CASE Judge
  BY <1>6, UntouchedStep DEF Judge, Between, vars
<1>7. CASE Exit
  BY <1>7, UntouchedStep DEF Exit, Between, ProgramInv, memory, vars
<1>8. ASSUME NEW service \in Services, Restart(service)
      PROVE  Base' /\ Observed' /\ ProgramInv'
  BY <1>8, RestartStep
<1>9. CASE Killed
  BY <1>9, KilledStep
<1>10. CASE Surroundings
  BY <1>10, SurroundingsStep
<1>11. CASE UNCHANGED allVars
  BY <1>11, UntouchedStep DEF allVars, shellVars, memory, ProgramInv, Between, vars
<1> QED
  BY <1>1, <1>2, <1>3, <1>4, <1>5, <1>6, <1>7, <1>8, <1>9, <1>10, <1>11 DEF ShellNext, Work

(* What every point of every call knows of its radio, of those still to    *)
(* come and of the custody it has restored, for any programs at the        *)
(* terminal, any radios, names, hosts and failures.                        *)
THEOREM ProgramInvariant == ShellSpec => []ProgramInv
<1> DEFINE Inv == Base /\ Observed /\ ProgramInv
<1>1. ShellInit => Inv
  BY ShellInitHolds
<1>2. Inv /\ [ShellNext]_allVars => Inv'
  BY ShellStep
<1>3. Inv => ProgramInv
  OBVIOUS
<1> HIDE DEF Inv
<1> QED
  BY <1>1, <1>2, <1>3, PTL DEF ShellSpec

(* A radio in monitor mode is the open session's, the call's under way,    *)
(* one a persist left on purpose, or one an error, a kill or a marked      *)
(* rejection told of: no program loses one in silence.                     *)
THEOREM AlwaysAccounted == ShellSpec => []Accounted
<1>1. ProgramInv => Accounted
  BY DEF ProgramInv
<1> QED
  BY <1>1, ProgramInvariant, PTL

(* A stop of a radio during which nothing fails hands back everything      *)
(* there is, whatever failed before it: out of monitor mode, under its     *)
(* name, with every running service.                                       *)
THEOREM RetriesComplete == ShellSpec => []RetryCompletes
<1>1. ProgramInv => RetryCompletes
  BY DEF ProgramInv, RetryCompletes, ByName, ByMode, ByService
<1> QED
  BY <1>1, ProgramInvariant, PTL

(* A sweep during which nothing fails leaves no radio in monitor mode.     *)
THEOREM SweepsClear == ShellSpec => []SweepClears
<1>1. ProgramInv => SweepClears
  BY DEF ProgramInv, SweepClears, BySweep, Monitors, Present
<1> QED
  BY <1>1, ProgramInvariant, PTL

----------------------------------------------------------------------------
(* TerminalInv: what the scripts have left, whose radio a name means, what *)
(* a start has released, what reset has recovered.                         *)

(* Whatever is no part of a call leaves the call, the names and the radios  *)
(* out of monitor mode alone.                                              *)
Aside ==
    /\ UNCHANGED <<pc, op, radio, orig, cur, held, todo, label, begun>>
    /\ \A r \in Radios : mode'[r] = mode[r] \/ mode'[r] \in {"managed", "gone"}
    /\ \A r \in Radios : mode[r] = "gone" => mode'[r] = "gone"

(* Launching a program, its looks and checks, its end, and the host do so. *)
LEMMA BetweenCalls ==
    ASSUME Base, [ShellNext]_allVars, ~Issue, ~Library, ~Killed
    PROVE  Aside
<1> USE DEF Aside, vars, world, call, observers, WorldButSpent
<1>1. CASE Launch \/ RefuseName \/ Judge \/ Exit \/ UNCHANGED allVars
  BY <1>1 DEF Launch, RefuseName, Judge, Exit, allVars, shellVars
<1>2. CASE Look
  BY <1>2 DEF Look
<1>3. ASSUME NEW service \in Services, Restart(service) PROVE Aside
  BY <1>3 DEF Restart, Revived
<1>4. CASE Surroundings
  BY <1>4 DEF Surroundings, shellVars, Environment, PullBack, NmAdopt, NmDrop, Unplug, Base, TypeOK,
     WorldTypeOK
<1> QED
  BY <1>1, <1>2, <1>3, <1>4 DEF ShellNext, Work

(* A call is a library call beginning, going on or being killed.           *)
LEMMA CallUnderWay ==
    ASSUME Issue \/ Library \/ Killed
    PROVE  Calling(Shell)
BY CallIsClient DEF Issue, Library, Killed, Calling

---------------------------------------------------------------------------
(* A walk down the candidates goes on with what is left of its list, and    *)
(* renames nothing.                                                        *)
LEMMA AutoWalks ==
    ASSUME Base, ByStart, Calling(Shell), op'[Shell] = "auto", ~StartAuto(Shell)
    PROVE  op[Shell] = "auto" /\ todo'[Shell] \subseteq todo[Shell] /\ UNCHANGED label
<1> USE ShellIsCaller DEF Base, TypeOK, CallTypeOK, ByStart, call, observers, WorldButSpent, world,
        Return, Starts
<1>1. CASE Client(Shell)
  BY <1>1 DEF Client, StartOn, StartAs, StartNamed, StopMonitor, StopAll, Restore, Persist
<1>2. CASE Cancel(Shell) \/ Kill(Shell)
  BY <1>2 DEF Cancel, Kill
<1>3. CASE TryNext(Shell)
  BY <1>3 DEF TryNext, Remaining
<1>8. CASE Finish(Shell)
  <2>1. UNCHANGED label
    BY <1>8 DEF Finish
  <2>2. CASE Return(Shell)
    BY <2>2
  <2>3. CASE UNCHANGED op
    BY <1>8, <2>1, <2>2, <2>3 DEF Finish, Remaining
  <2> QED
    BY <1>8, <2>2, <2>3 DEF Finish
<1>4. CASE Rejected(Shell) \/ Tune(Shell)
  BY <1>4 DEF Rejected, Tune
<1>5. CASE RenameOn(Shell) \/ UndoName(Shell) \/ RenameBack(Shell)
  BY <1>5 DEF RenameOn, UndoName, RenameBack
<1>6. CASE NmRelease(Shell) \/ WpaFind(Shell) \/ WpaDrop(Shell) \/ SwitchOn(Shell) \/ Confirm(Shell)
           \/ Refind(Shell) \/ UndoMode(Shell) \/ GiveNm(Shell) \/ GiveWpa(Shell)
           \/ GiveWpaAdd(Shell)
  BY <1>6 DEF NmRelease, WpaFind, WpaDrop, SwitchOn, Confirm, Refind, UndoMode, GiveNm, GiveWpa,
     GiveWpaAdd
<1>7. CASE RestoreFind(Shell) \/ LeaveFind(Shell) \/ SwitchOff(Shell) \/ ConfirmOff(Shell)
           \/ Handback(Shell)
  BY <1>7 DEF RestoreFind, LeaveFind, SwitchOff, ConfirmOff, Handback
<1> QED
  BY <1>1, <1>2, <1>3, <1>4, <1>5, <1>6, <1>7, <1>8 DEF Calling, Step

(* so that every candidate it comes to has its name for itself.            *)
LEMMA CandidatesSole ==
    ASSUME Base, ByStart, BySole, Calling(Shell), op'[Shell] = "auto",
           NEW c \in todo'[Shell]
    PROVE  Named(c[2])' \subseteq {c[1]}
<1>1. CASE StartAuto(Shell)
  <2>1. UNCHANGED <<mode, label>>
    BY <1>1 DEF StartAuto, WorldButSpent
  <2>2. c \in Listed
    <3>1. PICK seen \in {Listed, {}} : \/ UNCHANGED call
                                       \/ todo' = [todo EXCEPT ![Shell] = seen \ Busy(seen)]
      BY <1>1, Zenon DEF StartAuto
    <3>2. op[Shell] = "none"
      BY <1>1 DEF StartAuto, ByStart
    <3>3. ~UNCHANGED call
      BY <3>2 DEF call
    <3> QED
      BY <3>1, <3>3, ShellIsCaller DEF Base, TypeOK, CallTypeOK
  <2>3. c[1] \in Radios /\ mode[c[1]] # "gone" /\ label[c[1]] = c[2]
    BY <2>2 DEF Listed, Present
  <2> QED
    BY <2>1, <2>3 DEF Named, Present, Base, WorldOK
<1>2. CASE ~StartAuto(Shell)
  <2>1. c \in todo[Shell] /\ op[Shell] = "auto" /\ UNCHANGED label
    BY <1>2, AutoWalks
  <2>2. Present' \subseteq Present
    BY StepWithin, ShellIsCaller DEF Base, Calling, Within, Present
  <2> QED
    BY <2>1, <2>2 DEF BySole, Named
<1> QED
  BY <1>1, <1>2

(* The terminal's call keeps its name to its radio.                        *)
LEMMA CallKeepsSole ==
    ASSUME Base, ByStart, BySole, Calling(Shell)
    PROVE  Sole(Shell)'
<1> DEFINE p == Shell
<1> USE ShellIsCaller DEF Base
<1>1. Within(p)
  BY StepWithin DEF Calling
<1>2. ASSUME GoesOn(p) PROVE Sole(p)'
  <2>1. CASE pc'[p] \in Addressing
    <3>1. Named(orig[p])' \subseteq {radio[p]}
      <4>1. pc[p] \in Addressing /\ Named(orig[p]) \subseteq {radio[p]}
        BY <1>2, <2>1 DEF GoesOn, BySole, Sole
      <4>2. \A s \in Radios \ {radio[p]} : mode'[s] = mode[s] /\ label'[s] = label[s]
        BY <1>1 DEF Within
      <4>3. UNCHANGED <<radio[p], orig[p]>>
        BY <1>2, <2>1 DEF GoesOn
      <4> QED
        BY <4>1, <4>2, <4>3 DEF Named, Present
    <3> QED
      BY <1>2, <2>1, <3>1 DEF GoesOn, Sole
  <2> QED
    BY <2>1 DEF Sole
<1>3. ASSUME NEW r \in Radios, mode[r] # "gone", label[r] = orig'[p], radio'[p] = r,
             UNCHANGED <<mode, label>>
      PROVE  Sole(p)'
  BY <1>3 DEF Sole, Named, Present, WorldOK
<1>4. ASSUME pc'[p] \notin Addressing PROVE Sole(p)'
  BY <1>4 DEF Sole
<1>5. CASE Client(p)
  <2>1. CASE StartAuto(p) \/ StopAll(p) \/ StopMonitor(p) \/ Restore(p) \/ Persist(p)
    <3>1. pc'[p] \in {"idle", "next", "sweep", "leaveFind", "restore"}
      BY <2>1 DEF StartAuto, StopAll, StopMonitor, Restore, Persist, Return, Goto, TypeOK, CallTypeOK
    <3> QED
      BY <1>4, <3>1 DEF Addressing, RollingBack, HandingBack
  <2>2. ASSUME NEW kind, NEW n \in Names, NEW new, StartNamed(p, kind, n, new)
        PROVE  Sole(p)'
    <3>1. CASE UNCHANGED pc
      BY <1>4, <2>2, <3>1 DEF StartNamed, Addressing, RollingBack, HandingBack
    <3>2. CASE ~UNCHANGED pc
      <4>1. PICK seen \in {Named(n), {}} : \E r \in seen : Engage(p, r, n, new, FALSE)
        BY <2>2, <3>2 DEF StartNamed
      <4>2. PICK r \in seen : Engage(p, r, n, new, FALSE)
        BY <4>1
      <4>3. r \in Radios /\ mode[r] # "gone" /\ label[r] = n
        BY <4>1, <4>2 DEF Named, Present
      <4>4. radio'[p] = r /\ orig'[p] = n
        BY <4>2, Engaged DEF TypeOK
      <4>5. UNCHANGED <<mode, label>>
        BY <2>2 DEF StartNamed, WorldButSpent
      <4> QED
        BY <1>3, <4>3, <4>4, <4>5
    <3> QED
      BY <3>1, <3>2
  <2> QED
    BY <1>5, <2>1, <2>2, SessionAssumption DEF Client, StartOn, StartAs
<1>6. CASE TryNext(p)
  <2>1. PICK c \in todo[p] : Engage(p, c[1], c[2], c[2], Stale(c))
    BY <1>6 DEF TryNext
  <2>2. radio'[p] = c[1] /\ orig'[p] = c[2]
    BY <2>1, Engaged DEF TypeOK
  <2>3. op[p] = "auto" /\ Named(c[2]) \subseteq {c[1]}
    BY <1>6, <2>1 DEF TryNext, ByStart, BySole, Starting, Starts
  <2> QED
    BY <1>6, <2>2, <2>3 DEF TryNext, world, Sole, Named, Present
<1>7. CASE LeaveFind(p)
  <2>1. pc[p] = "leaveFind" /\ UNCHANGED <<mode, label>>
    BY <1>7 DEF LeaveFind, WorldButSpent
  <2>2. CASE Goto(p, "failed")
    BY <1>4, <2>2 DEF Goto, TypeOK, CallTypeOK, Addressing, RollingBack, HandingBack
  <2>3. CASE \E r \in Named(orig[p]) : Resolve(p, r)
    <3>1. PICK r \in Named(orig[p]) : Resolve(p, r)
      BY <2>3
    <3>2. r \in Radios /\ mode[r] # "gone" /\ label[r] = orig[p]
      BY <3>1 DEF Named, Present
    <3>3. radio'[p] = r /\ orig'[p] = orig[p]
      BY <3>1, Engaged DEF Resolve, TypeOK
    <3> QED
      BY <1>3, <2>1, <3>2, <3>3
  <2> QED
    BY <1>7, <2>2, <2>3 DEF LeaveFind
<1>8. CASE Refind(p)
  <2>1. CASE Goto(p, "undoName") /\ UNCHANGED <<radio, orig, cur, spoiled>>
    BY <1>2, <1>8, <2>1 DEF Refind, GoesOn, Addressing, RollingBack
  <2>2. CASE Goto(p, "tune")
    BY <1>4, <2>2 DEF Goto, TypeOK, CallTypeOK, Addressing, RollingBack, HandingBack
  <2> QED
    BY <1>8, <2>1, <2>2 DEF Refind
<1>9. CASE Step(p) /\ ~TryNext(p) /\ ~LeaveFind(p) /\ ~Refind(p)
  BY <1>2, <1>9, StepGoesOn
<1>10. CASE Cancel(p) \/ Kill(p)
  <2>1. pc'[p] \in {"restore", "idle"}
    BY <1>10 DEF Cancel, Kill, Return, Goto, TypeOK, CallTypeOK
  <2> QED
    BY <1>4, <2>1 DEF Addressing, RollingBack, HandingBack
<1> QED
  BY <1>5, <1>6, <1>7, <1>8, <1>9, <1>10 DEF Calling

(* Every step keeps the names to the radios they were read for.            *)
LEMMA SoleStep ==
    ASSUME Base, ByStart, BySole, [ShellNext]_allVars
    PROVE  BySole'
<1>1. CASE Issue \/ Library \/ Killed
  BY <1>1, CallUnderWay, CandidatesSole, CallKeepsSole DEF BySole
<1>2. CASE ~(Issue \/ Library \/ Killed)
  <2>1. Aside
    BY <1>2, BetweenCalls
  <2>2. \A n : Named(n)' \subseteq Named(n)
    BY <2>1 DEF Aside, Named, Present
  <2> QED
    BY <2>1, <2>2 DEF Aside, BySole, Sole
<1> QED
  BY <1>1, <1>2

---------------------------------------------------------------------------
(* A point before the release is over, or off a start's way, has nothing   *)
(* to show for it.                                                         *)
LEMMA Unreleased ==
    ASSUME pc'[Shell] \notin NmLetGo
    PROVE  ByRelease'
BY DEF ByRelease, NmLetGo, WpaLetGo, Switched, InSession

(* A step of a start that meets no failure has its service's answer: the   *)
(* radio is let go, switched and renamed as asked.                         *)
LEMMA StepByRelease ==
    ASSUME Base, ByName, ByService, ByRelease, UNCHANGED begun, begun \in Nat,
           Step(Shell)
    PROVE  ByRelease'
<1> DEFINE p == Shell
           r == radio[p]
<1> USE ShellIsCaller DEF Base, call, observers
<1>1. spent \in Nat /\ (spent' = begun => Smooth /\ spent = begun /\ spent # spent + 1)
  BY Spending DEF ByService, Smooth
<1>2. CASE spent' # begun
  BY <1>2 DEF ByRelease
<1> SUFFICES ASSUME spent' = begun PROVE ByRelease'
  BY <1>2
<1>3. Smooth /\ spent = begun /\ ~\E kind : Fault(kind)
  BY <1>1 DEF Fault, Smooth
<1> DEFINE Here == /\ r \in Radios /\ orig[p] \in Names /\ cur[p] \in Names
                    /\ ByRelease
<1>4. pc[p] \in NmLetGo \cup {"release"} =>
        /\ r \in Radios /\ orig[p] \in Names /\ cur[p] \in Names
        /\ pc[p] \in UnderOrig => label[r] = orig[p]
  BY Equipment DEF ByName, NmLetGo, WpaLetGo, Switched, InSession, UnderOrig, Unresolved, Unnamed
<1>5. CASE NmRelease(p)
  <2>1. /\ UNCHANGED <<mode, label, wpa, radio, orig, cur>> /\ pc[p] = "release"
        /\ label[r] = orig[p] /\ r \in Radios /\ orig[p] \in Names
    BY <1>4, <1>5 DEF NmRelease, NmLetGo, UnderOrig
  <2>2. CASE Goto(p, "rejected")
    BY <2>2, Unreleased DEF Goto, TypeOK, CallTypeOK, NmLetGo, WpaLetGo, Switched, InSession
  <2>3. CASE Probe("nm", FALSE) /\ Goto(p, "wpaFind") /\ UNCHANGED nm
    <3>1. ~nm[r]
      BY <1>3, <2>1, <2>3 DEF Probe, WorldOK
    <3> QED
      BY <2>1, <2>3, <3>1 DEF Goto, TypeOK, CallTypeOK, ByRelease, WpaLetGo, Switched, InSession
  <2>4. CASE NmSet(orig[p], FALSE, TRUE) /\ Goto(p, "wpaFind")
    <3>1. ~nm'[r]
      <4>1. CASE mode[r] = "gone"
        BY <2>1, <2>4, <4>1, NmSetType DEF WorldOK, Named, Present, TypeOK, WorldTypeOK
      <4>2. CASE r \in Named(orig[p])
        BY <2>1, <2>4, <4>2, NmSetType DEF TypeOK
      <4> QED
        BY <2>1, <4>1, <4>2 DEF Named, Present
    <3> QED
      BY <2>1, <2>4, <3>1 DEF Goto, TypeOK, CallTypeOK, ByRelease, WpaLetGo, Switched, InSession
  <2> QED
    BY <1>5, <2>2, <2>3, <2>4 DEF NmRelease
<1>6. CASE WpaFind(p)
  <2>1. /\ UNCHANGED <<mode, label, nm, wpa, radio, orig, cur>> /\ pc[p] = "wpaFind"
        /\ label[r] = orig[p] /\ r \in Radios /\ ~nm[r]
    BY <1>3, <1>4, <1>6 DEF WpaFind, WorldButSpent, NmLetGo, UnderOrig, ByRelease
  <2>2. CASE Goto(p, "switch") /\ (Probe("wpa", FALSE) \/ WpaKnows(orig[p], FALSE))
    <3>1. wpa[r] = "out"
      BY <1>3, <2>1, <2>2 DEF Probe, WpaKnows, WorldOK, Named, Present
    <3> QED
      BY <2>1, <2>2, <3>1 DEF Goto, TypeOK, CallTypeOK, ByRelease, Switched, InSession
  <2>3. CASE Goto(p, "wpaDrop")
    BY <2>1, <2>3 DEF Goto, TypeOK, CallTypeOK, ByRelease, WpaLetGo, Switched, InSession
  <2>4. CASE Goto(p, "rejected")
    BY <2>4, Unreleased DEF Goto, TypeOK, CallTypeOK, NmLetGo, WpaLetGo, Switched, InSession
  <2> QED
    BY <1>6, <2>2, <2>3, <2>4 DEF WpaFind
<1>7. CASE WpaDrop(p)
  <2>1. /\ UNCHANGED <<mode, label, nm, radio, orig, cur>> /\ pc[p] = "wpaDrop"
        /\ label[r] = orig[p] /\ r \in Radios /\ ~nm[r] /\ orig[p] \in Names
    BY <1>3, <1>4, <1>7 DEF WpaDrop, NmLetGo, UnderOrig, ByRelease
  <2>2. CASE Goto(p, "switch") /\ WpaSet(orig[p], "out", TRUE)
    <3>1. wpa'[r] = "out"
      <4>1. CASE mode[r] = "gone"
        <5>1. wpa[r] = "out"
          BY <2>1, <4>1 DEF WorldOK
        <5> QED
          BY <2>1, <2>2, <5>1, WpaSetTo DEF TypeOK
      <4>2. CASE r \in Named(orig[p])
        BY <2>1, <2>2, <4>2, WpaSetType DEF TypeOK, WpaStates
      <4> QED
        BY <2>1, <4>1, <4>2 DEF Named, Present
    <3> QED
      BY <2>1, <2>2, <3>1 DEF Goto, TypeOK, CallTypeOK, ByRelease, Switched, InSession
  <2>3. CASE Goto(p, "rejected")
    BY <2>3, Unreleased DEF Goto, TypeOK, CallTypeOK, NmLetGo, WpaLetGo, Switched, InSession
  <2> QED
    BY <1>7, <2>2, <2>3 DEF WpaDrop
<1>8. CASE SwitchOn(p)
  <2>1. /\ UNCHANGED <<label, nm, wpa, radio, orig, cur>> /\ pc[p] = "switch"
        /\ ~nm[r] /\ wpa[r] = "out"
    BY <1>3, <1>8 DEF SwitchOn, NmLetGo, WpaLetGo, ByRelease
  <2>2. CASE Goto(p, "confirm")
    BY <2>1, <2>2 DEF Goto, TypeOK, CallTypeOK, ByRelease, Switched, InSession
  <2>3. CASE Goto(p, "giveNm")
    BY <2>3, Unreleased DEF Goto, TypeOK, CallTypeOK, NmLetGo, WpaLetGo, Switched, InSession
  <2> QED
    BY <1>8, <2>2, <2>3 DEF SwitchOn
<1>9. CASE Confirm(p)
  <2>1. /\ UNCHANGED <<mode, label, nm, wpa, radio, orig, cur>> /\ pc[p] = "confirm"
        /\ ~nm[r] /\ wpa[r] = "out"
    BY <1>3, <1>9 DEF Confirm, WorldButSpent, NmLetGo, WpaLetGo, ByRelease
  <2>2. CASE Goto(p, "undoMode")
    BY <2>2, Unreleased DEF Goto, TypeOK, CallTypeOK, NmLetGo, WpaLetGo, Switched, InSession
  <2>3. CASE mode[r] = "monitor" /\ Goto(p, IF op[p] = "as" THEN "rename" ELSE "tune")
    BY <2>1, <2>3 DEF Goto, TypeOK, CallTypeOK, ByRelease
  <2> QED
    BY <1>3, <1>9, <2>2, <2>3 DEF Confirm, ReadMode
<1>10. CASE RenameOn(p)
  <2>1. /\ UNCHANGED <<mode, nm, wpa, radio, orig, cur>> /\ pc[p] = "rename"
        /\ ~nm[r] /\ wpa[r] = "out" /\ mode[r] \in {"monitor", "gone"}
        /\ r \in Radios /\ cur[p] \in Names
    BY <1>3, <1>4, <1>10 DEF RenameOn, NmLetGo, WpaLetGo, Switched, ByRelease
  <2>2. CASE Goto(p, "refind") /\ Rename(r, cur[p], TRUE)
    <3>1. /\ label'[r] = cur[p] /\ Named(cur[p]) \subseteq {r}
          /\ \A s \in Radios \ {r} : label'[s] = label[s]
      BY <2>1, <2>2, RenameType DEF TypeOK
    <3>2. Named(cur[p])' \subseteq {r}
      BY <2>1, <3>1 DEF Named, Present
    <3> QED
      BY <2>1, <2>2, <3>2 DEF Goto, TypeOK, CallTypeOK, ByRelease
  <2>3. CASE Goto(p, "undoName")
    BY <2>3, Unreleased DEF Goto, TypeOK, CallTypeOK, NmLetGo, WpaLetGo, Switched, InSession
  <2> QED
    BY <1>10, <2>2, <2>3 DEF RenameOn
<1>11. CASE Refind(p)
  <2>1. /\ UNCHANGED <<mode, label, nm, wpa>> /\ pc[p] = "refind"
        /\ ~nm[r] /\ wpa[r] = "out" /\ mode[r] \in {"monitor", "gone"}
        /\ Named(cur[p]) \subseteq {r}
    BY <1>3, <1>11 DEF Refind, WorldButSpent, NmLetGo, WpaLetGo, Switched, ByRelease
  <2>2. CASE Goto(p, "undoName")
    BY <2>2, Unreleased DEF Goto, TypeOK, CallTypeOK, NmLetGo, WpaLetGo, Switched, InSession
  <2>3. ASSUME NEW s \in Named(cur[p]), Resolve(p, s), Goto(p, "tune")
        PROVE  ByRelease'
    <3>1. radio'[p] = r
      BY <2>1, <2>3, Engaged DEF Resolve, TypeOK
    <3> QED
      BY <2>1, <2>3, <3>1 DEF Goto, TypeOK, CallTypeOK, ByRelease
  <2> QED
    BY <1>11, <2>2, <2>3 DEF Refind
<1>12. CASE Tune(p)
  <2>1. UNCHANGED <<mode, label, nm, wpa, radio, orig, cur>> /\ pc[p] = "tune"
    BY <1>12 DEF Tune, world
  <2>2. CASE Goto(p, "open")
    BY <1>3, <2>1, <2>2 DEF Goto, TypeOK, CallTypeOK, ByRelease, NmLetGo, WpaLetGo, Switched, InSession
  <2>3. CASE Goto(p, "restore")
    BY <2>3, Unreleased DEF Goto, TypeOK, CallTypeOK, NmLetGo, WpaLetGo, Switched, InSession
  <2> QED
    BY <1>12, <2>2, <2>3 DEF Tune
<1>13. CASE \/ TryNext(p) \/ Rejected(p) \/ UndoName(p) \/ UndoMode(p) \/ Finish(p)
  <2>1. pc'[p] \in {"release", "next", "idle", "undoMode", "giveNm", "leaveFind"}
    BY <1>13 DEF TryNext, Rejected, UndoName, UndoMode, Finish, Return, Goto, TypeOK, CallTypeOK
  <2> QED
    BY <2>1, Unreleased DEF NmLetGo, WpaLetGo, Switched, InSession
<1>14. CASE \/ GiveNm(p) \/ GiveWpa(p) \/ GiveWpaAdd(p) \/ RestoreFind(p) \/ RenameBack(p)
            \/ LeaveFind(p) \/ SwitchOff(p) \/ ConfirmOff(p) \/ Handback(p)
  <2>1. pc'[p] \in HandingBack \cup Leaving \cup {"rejected", "left", "failed"}
    BY <1>14 DEF GiveNm, GiveWpa, GiveWpaAdd, RestoreFind, RenameBack, LeaveFind, LeaveFrom,
       SwitchOff, ConfirmOff, Handback, Reclaimed, Goto, TypeOK, CallTypeOK, HandingBack, Leaving
  <2> QED
    BY <2>1, Unreleased DEF NmLetGo, WpaLetGo, Switched, InSession, HandingBack, Leaving
<1> QED
  BY <1>5, <1>6, <1>7, <1>8, <1>9, <1>10, <1>11, <1>12, <1>13, <1>14 DEF Step

(* A service restart is reset's, which opens no session.                   *)
LEMMA RestartIsResets ==
    ASSUME ByScript, Between, NEW service \in Services, Restart(service)
    PROVE  program = "reset" /\ pc[Shell] = "idle"
<1>1. /\ script # <<>> /\ Head(script).do = service /\ outcome = "ready"
      /\ service \in {"nm", "wpa"}
  BY DEF Restart, Ready, Services
<1>2. script \notin Seq(Plain)
  <2> SUFFICES ASSUME script \in Seq(Plain) PROVE FALSE
    OBVIOUS
  <2>1. Head(script) \in Plain
    BY <1>1
  <2> QED
    BY <1>1, <2>1 DEF Plain, Doings, Starts, Detecting, Reckoning, Asking
<1>3. program # "full_cycle"
  BY <1>1 DEF ByScript, SelectPoint, Do
<1> QED
  BY <1>1, <1>2, <1>3 DEF ByScript, ResetPoint, Between

(* What is no part of a call leaves a released radio released: a service   *)
(* takes back none that it does not manage.                                *)
LEMMA AsideByRelease ==
    ASSUME Base, ByService, ByRelease, ByScript, Between, begun \in Nat,
           [ShellNext]_allVars, ~Issue, ~Library, ~Killed
    PROVE  ByRelease'
<1> DEFINE p == Shell
           r == radio[p]
<1> USE ShellIsCaller DEF Base
<1>1. UNCHANGED <<pc, radio, orig, cur, label, begun>> /\ begun <= spent
  BY BetweenCalls DEF Aside, ByService
<1>2. CASE pc[p] \notin NmLetGo
  BY <1>1, <1>2, Unreleased
<1>3. CASE spent' # begun'
  BY <1>3 DEF ByRelease
<1> SUFFICES ASSUME pc[p] \in NmLetGo, spent' = begun' PROVE ByRelease'
  BY <1>2, <1>3
<1>4. r \in Radios
  BY Equipment DEF NmLetGo, WpaLetGo, Switched, InSession, Unresolved, Unnamed
<1>5. CASE UNCHANGED <<mode, nm, wpa>> /\ spent = begun
  BY <1>1, <1>5 DEF ByRelease, Named, Present
<1>6. CASE Launch \/ RefuseName \/ Judge \/ Exit \/ UNCHANGED allVars
  <2>1. UNCHANGED world
    BY <1>6 DEF Launch, RefuseName, Judge, Exit, allVars, vars
  <2> QED
    BY <1>1, <1>5, <2>1 DEF world
<1>7. CASE Look
  <2>1. UNCHANGED <<mode, nm, wpa>> /\ (spent' = spent \/ spent' = spent + 1) /\ spent \in Nat
    BY <1>7, WorldAssumption DEF Look, WorldButSpent, Smooth, Fault, TypeOK, WorldTypeOK
  <2> QED
    BY <1>1, <1>5, <2>1
<1>8. ASSUME NEW service \in Services, Restart(service) PROVE FALSE
  BY <1>8, RestartIsResets DEF NmLetGo, WpaLetGo, Switched, InSession
<1>9. CASE Surroundings
  <2>1. PICK s \in Radios : PullBack(s) \/ NmAdopt(s) \/ NmDrop(s) \/ Unplug(s)
    BY <1>9 DEF Surroundings, Environment
  <2>2. spent \in Nat
    BY WorldAssumption DEF TypeOK, WorldTypeOK
  <2>3. CASE Unplug(s)
    BY <1>1, <2>2, <2>3 DEF Unplug, Fault
  <2>4. CASE NmAdopt(s)
    <3>1. spent = begun /\ UNCHANGED <<mode, nm>> /\ nm[s] /\ \A t \in Radios \ {s} : wpa'[t] = wpa[t]
      BY <1>1, <2>4 DEF NmAdopt
    <3>2. s # r
      BY <3>1 DEF ByRelease
    <3> QED
      BY <1>1, <1>4, <3>1, <3>2 DEF ByRelease, Named, Present
  <2>5. CASE NmDrop(s)
    <3>1. spent = begun /\ UNCHANGED <<mode, nm>> /\ \A t \in Radios : wpa'[t] \in {wpa[t], "out"}
      BY <1>1, <2>5 DEF NmDrop, TypeOK, WorldTypeOK
    <3> QED
      BY <1>1, <1>4, <3>1 DEF ByRelease, Named, Present
  <2>6. CASE PullBack(s)
    <3>1. /\ spent = begun /\ UNCHANGED <<nm, wpa>> /\ Held(s) /\ mode[s] = "monitor"
          /\ \A t \in Radios \ {s} : mode'[t] = mode[t]
          /\ Present' = Present
      BY <1>1, <2>6 DEF PullBack, Present, TypeOK, WorldTypeOK
    <3>2. pc[p] \in Switched => s # r
      BY <3>1 DEF ByRelease, Held, NmLetGo, WpaLetGo
    <3> QED
      BY <1>1, <1>4, <3>1, <3>2 DEF ByRelease, Named
  <2> QED
    BY <2>1, <2>3, <2>4, <2>5, <2>6
<1> QED
  BY <1>6, <1>7, <1>8, <1>9 DEF ShellNext, Work

(* A call begins before its radio is let go, and ends with a session, an    *)
(* error or a kill that leave nothing to a later one.                      *)
LEMMA CallByRelease ==
    ASSUME Base, ByStart, NEW s, Call(s)
    PROVE  ByRelease'
<1> USE ShellIsCaller DEF Base, TypeOK, CallTypeOK, Goto, call
<1>1. pc'[Shell] \in {"idle", "next", "release", "leaveFind", "sweep", "restore"}
  <2>1. CASE StartAuto(Shell) \/ StopAll(Shell) \/ StopMonitor(Shell)
    BY <2>1 DEF StartAuto, StopAll, StopMonitor
  <2>2. ASSUME NEW kind, NEW n, NEW new, StartNamed(Shell, kind, n, new)
        PROVE  pc'[Shell] \in {"idle", "release"}
    BY <2>2 DEF StartNamed
  <2>3. CASE Restore(Shell) \/ Persist(Shell)
    BY <2>3 DEF Restore, Persist, Return
  <2> QED
    BY <2>1, <2>2, <2>3 DEF Call
<1> QED
  BY <1>1, Unreleased DEF NmLetGo, WpaLetGo, Switched, InSession

(* Every step of the terminal keeps what a start without a failure knows.  *)
LEMMA ReleaseStep ==
    ASSUME Base, Observed, ProgramInv, ByScript, ByRelease, [ShellNext]_allVars
    PROVE  ByRelease'
<1> USE DEF ProgramInv, Observed
<1>1. CASE Issue
  BY <1>1, CallByRelease DEF Issue
<1>2. CASE Library
  BY <1>2, StepByRelease DEF Library
<1>3. CASE Killed
  <2>1. pc'[Shell] = "idle"
    BY <1>3, ShellIsCaller DEF Killed, Kill, Return, Goto, Base, TypeOK, CallTypeOK
  <2> QED
    BY <2>1, Unreleased DEF NmLetGo, WpaLetGo, Switched, InSession
<1> QED
  BY <1>1, <1>2, <1>3, AsideByRelease

---------------------------------------------------------------------------
(* persist is a call of its own, and the only one that keeps a session.    *)
LEMMA PersistIssued ==
    ASSUME Base, Issue, Head(script).do = "persist"
    PROVE  Persist(Shell)
BY DEF Issue, Call

(* A radio is left to itself since before this step, or by it: the persist *)
(* of a start without a failure.  A restart of a service leaves none so.   *)
LEMMA Marks ==
    ASSUME Observed, [ShellNext]_allVars, NEW r \in Radios, why'[r] = "kept"
    PROVE  /\ \A service \in Services : ~Restart(service)
           /\ \/ why[r] = "kept"
              \/ Issue /\ Head(script).do = "persist" /\ spent = begun /\ r = radio[Shell]
<1> USE DEF Observed
<1>1. ASSUME NEW service \in Services, Restart(service) PROVE FALSE
  BY <1>1 DEF Restart
<1>2. CASE Issue
  BY <1>1, <1>2 DEF Issue, Answerable
<1>3. CASE Library
  BY <1>1, <1>3 DEF Library, Answerable
<1>4. CASE Killed
  BY <1>1, <1>4 DEF Killed
<1>5. CASE Launch \/ RefuseName \/ Look \/ Judge \/ Exit \/ Surroundings \/ UNCHANGED allVars
  BY <1>1, <1>5 DEF Launch, RefuseName, Look, Judge, Exit, Surroundings, allVars, shellVars
<1> QED
  BY <1>1, <1>2, <1>3, <1>4, <1>5 DEF ShellNext, Work

(* Whoever takes a radio up is to take care of it again.                   *)
LEMMA TakenUpStep ==
    ASSUME Base, Observed, TakenUp, [ShellNext]_allVars
    PROVE  TakenUp'
<1> SUFFICES ASSUME radio'[Shell] \in Radios, why'[radio'[Shell]] = "kept" PROVE FALSE
  BY DEF TakenUp
<1> DEFINE s == radio'[Shell]
<1> USE ShellIsCaller
<1>1. CASE Issue /\ Head(script).do = "persist"
  <2>1. s = NoRadio
    BY <1>1, PersistIssued DEF Persist, Return, Base, TypeOK, CallTypeOK
  <2> QED
    BY <2>1, SessionAssumption
<1>2. why[s] = "kept"
  BY <1>1, Marks
<1>3. s # radio[Shell]
  BY <1>2 DEF TakenUp
<1>4. CASE (Issue /\ Head(script).do # "persist") \/ Library
  BY <1>2, <1>3, <1>4 DEF Issue, Library, Answerable
<1>5. CASE Killed
  <2>1. s = NoRadio
    BY <1>5 DEF Killed, Kill, Return, Base, TypeOK, CallTypeOK
  <2> QED
    BY <2>1, SessionAssumption
<1>6. CASE ~Issue /\ ~Library /\ ~Killed
  BY <1>3, <1>6, BetweenCalls DEF Aside
<1> QED
  BY <1>1, <1>4, <1>5, <1>6

(* A call leaves a radio that it does not work on as it is: its mode, and  *)
(* what the services have of it.                                           *)
LEMMA OthersAlone ==
    ASSUME Base, BySole, Calling(Shell), NEW r \in Radios, r # radio[Shell]
    PROVE  mode'[r] = mode[r] /\ nm'[r] = nm[r] /\ wpa'[r] = wpa[r]
<1>1. mode'[r] = mode[r]
  BY ShellIsCaller, StepWithin DEF Calling, Within, Base
<1>2. pc[Shell] \in Addressing => r \notin Named(orig[Shell])
  BY DEF BySole, Sole
<1> QED
  BY <1>1, <1>2, ShellIsCaller, ServicesByName DEF Base

(* Nothing but a call or an unplug ends a session left to itself.          *)
LEMMA KeptStep ==
    ASSUME Base, Observed, ProgramInv, BySole, ByRelease, TakenUp, KeptStands,
           [ShellNext]_allVars
    PROVE  KeptStands'
<1> SUFFICES ASSUME NEW r \in Radios, why'[r] = "kept"
             PROVE  mode'[r] \in {"monitor", "gone"} /\ ~Held(r)'
  BY DEF KeptStands
<1> USE ShellIsCaller DEF Held
<1>1. CASE Issue /\ Head(script).do = "persist" /\ spent = begun /\ r = radio[Shell]
  <2>1. pc[Shell] = "open" /\ UNCHANGED <<mode, nm, wpa>>
    BY <1>1, PersistIssued DEF Persist, world
  <2> QED
    BY <1>1, <2>1 DEF ByRelease, NmLetGo, WpaLetGo, Switched, InSession
<1>2. CASE why[r] = "kept"
  <2>1. r # radio[Shell] /\ mode[r] \in {"monitor", "gone"} /\ ~nm[r] /\ wpa[r] = "out"
    BY <1>2 DEF TakenUp, KeptStands
  <2>2. CASE Issue \/ Library \/ Killed
    BY <2>1, <2>2, CallUnderWay, OthersAlone
  <2>3. CASE Launch \/ RefuseName \/ Judge \/ Exit \/ UNCHANGED allVars
    <3>1. UNCHANGED world
      BY <2>3 DEF Launch, RefuseName, Judge, Exit, allVars, vars
    <3> QED
      BY <2>1, <3>1 DEF world
  <2>4. CASE Look
    BY <2>1, <2>4 DEF Look, WorldButSpent
  <2>5. CASE Surroundings
    <3>1. PICK s \in Radios : PullBack(s) \/ NmAdopt(s) \/ NmDrop(s) \/ Unplug(s)
      BY <2>5 DEF Surroundings, Environment
    <3> QED
      BY <2>1, <3>1 DEF PullBack, NmAdopt, NmDrop, Unplug, Base, TypeOK, WorldTypeOK
  <2> QED
    BY <2>2, <2>3, <2>4, <2>5, Marks DEF ShellNext, Work
<1> QED
  BY <1>1, <1>2, Marks

----------------------------------------------------------------------------
(* Some radio of every set is the first in the order of the candidates.    *)
LEMMA BestRanked ==
    ASSUME NEW S \in SUBSET Radios, S # {}
    PROVE  \E r \in S : \A q \in S : Rank[r] <= Rank[q]
<1> DEFINE ranks == {Rank[q] : q \in S}
<1>1. ranks \subseteq Nat /\ ranks # {}
  BY SessionAssumption
<1>2. PICK m \in ranks : \A k \in ranks : ~ (<<k, m>> \in OpToRel(<, Nat))
  BY <1>1, WFMin, NatLessThanWellFounded
<1>3. m \in Nat /\ \A k \in ranks : k \in Nat /\ ~(k < m)
  BY <1>1, <1>2 DEF OpToRel
<1> QED
  BY <1>3

(* A name of an interface, or none.                                        *)
Known == Names \cup {NoName}

(* The steps that programs are written with.                               *)
LEMMA PlainDo ==
    ASSUME NEW d \in Doings, NEW n \in Known
    PROVE  Do(d, n) \in Plain
BY DEF Do, Plain, Known

(* A check of the outcome leaves a step such a one,                        *)
LEMMA PlainExpect ==
    ASSUME NEW s \in Plain, NEW w \in Refusals \cup Modes \cup {"ok", "any"}
    PROVE  Expect(s, w) \in Plain
BY DEF Expect, Plain

(* and so does a channel it asks for.                                      *)
LEMMA PlainAt ==
    ASSUME NEW s \in Plain, NEW c \in {"none", "usable", "absent", "disabled", "elsewhere"}
    PROVE  At(s, c) \in Plain
BY DEF At, Plain

(* The calls and lookups of the commands and of the suite are such steps.  *)
LEMMA PlainSteps ==
    ASSUME NEW n \in Known, NEW new \in Known, NEW m \in Modes,
           NEW c \in {"none", "usable", "absent", "disabled", "elsewhere"}
    PROVE  /\ On(n) \in Plain /\ As(n, new) \in Plain /\ Best \in Plain /\ Stop(n) \in Plain
           /\ All \in Plain /\ Leave \in Plain
           /\ \A how \in {"restore", "drop", "persist"} : Give(how) \in Plain
           /\ See(n, m) \in Plain /\ Lookup(n) \in Plain
           /\ Hop(c) \in Plain /\ Tuned(n, c) \in Plain
           /\ \A what \in Reckoning : Reckon(what, n) \in Plain
           /\ \A d \in {"nmRead", "nmCompare", "list", "note", "quiet", "idle"} : Do(d, n) \in Plain
<1> USE DEF Known
<1>1. \A d \in Doings : Do(d, n) \in Plain /\ Do(d, NoName) \in Plain
  BY PlainDo
<1>2. /\ {"on", "as", "auto", "stop", "all", "restore", "drop", "persist", "see", "lookup", "hop",
          "tuned", "nmRead", "nmCompare", "list", "note", "quiet", "idle"} \subseteq Doings
      /\ Reckoning \subseteq Doings
  BY DEF Doings, Starts, Detecting, Reckoning, Asking
<1>3. On(n) \in Plain /\ Best \in Plain /\ Stop(n) \in Plain /\ All \in Plain /\ Lookup(n) \in Plain
  BY <1>1, <1>2 DEF On, Best, Stop, All, Lookup
<1>4. \A how \in {"restore", "drop", "persist"} : Give(how) \in Plain
  BY <1>1, <1>2 DEF Give
<1>5. Leave \in Plain /\ \A what \in Reckoning : Reckon(what, n) \in Plain
  BY <1>1, <1>2, <1>4, PlainExpect DEF Leave, Reckon
<1>6. As(n, new) \in Plain
  BY DEF As, Do, Plain, Doings, Starts
<1>7. See(n, m) \in Plain
  BY DEF See, Do, Plain, Doings, Detecting
<1>8. Hop(c) \in Plain /\ Tuned(n, c) \in Plain
  BY <1>1, <1>2, PlainAt DEF Hop, Tuned
<1>9. \A d \in {"nmRead", "nmCompare", "list", "note", "quiet", "idle"} : Do(d, n) \in Plain
  BY <1>1, <1>2
<1> QED
  BY <1>3, <1>4, <1>5, <1>6, <1>7, <1>8, <1>9

(* Two scripts of such steps make one.                                     *)
LEMMA PlainJoin ==
    ASSUME NEW s \in Seq(Plain), NEW t \in Seq(Plain)
    PROVE  s \o t \in Seq(Plain)
BY ConcatProperties

(* The programs, but for reset and the suite's first part, are made of      *)
(* them.                                                                   *)
LEMMA PlainScript ==
    ASSUME NEW command \in AllCommands \ {"reset", "full_cycle"},
           NEW n \in Known, NEW new \in Known, NEW c \in {"none", "usable", "absent"}
    PROVE  Script(command, n, new, c) \in Seq(Plain)
<1>1. /\ On(n) \in Plain /\ As(n, new) \in Plain /\ Best \in Plain /\ Stop(n) \in Plain
      /\ All \in Plain /\ Leave \in Plain /\ Hop(c) \in Plain
      /\ Give("restore") \in Plain /\ Give("persist") \in Plain
      /\ Do("nmRead", n) \in Plain /\ Do("nmCompare", n) \in Plain /\ Do("list", NoName) \in Plain
  BY PlainSteps DEF Modes, Known
<1>2. Start(n, "none") \in Plain
  BY <1>1, PlainAt DEF Start
<1>3. IfTuned(c) \in Seq(Plain)
  BY <1>1 DEF IfTuned
<1>4. Monitor(n, c) \in Seq(Plain)
  <2>1. <<Start(n, "none")>> \in Seq(Plain) /\ <<Give("restore")>> \in Seq(Plain)
    BY <1>1, <1>2
  <2> QED
    BY <1>3, <2>1, PlainJoin DEF Monitor
<1>5. MonitorAs(n, new, c) \in Seq(Plain)
  <2>1. <<As(n, new)>> \in Seq(Plain) /\ <<Leave>> \in Seq(Plain)
    BY <1>1
  <2> QED
    BY <1>3, <2>1, PlainJoin DEF MonitorAs
<1>6. NmStateProbe(n) \in Seq(Plain) /\ List \in Seq(Plain)
  BY <1>1 DEF NmStateProbe, List
<1>7. <<Start(n, "none"), Give("persist")>> \in Seq(Plain)
  BY <1>1, <1>2
<1>8. <<As(n, new), Give("persist")>> \in Seq(Plain) /\ <<Stop(n)>> \in Seq(Plain)
      /\ <<All>> \in Seq(Plain)
  BY <1>1
<1> QED
  BY <1>4, <1>5, <1>6, <1>7, <1>8 DEF Script, AllCommands

(* So is the suite, whatever the radio has.                                *)
LEMMA PlainHops ==
    ASSUME NEW t \in Names, NEW band, NEW has
    PROVE  Hops(t, band, has) \in Seq(Plain)
<1>1. Hop("usable") \in Plain /\ Tuned(t, "usable") \in Plain
  BY PlainSteps DEF Known, Modes
<1>2. /\ Expect(Hop("usable"), "ok") \in Plain /\ Expect(Tuned(t, "usable"), "ok") \in Plain
      /\ Expect(Hop("usable"), "any") \in Plain
  BY <1>1, PlainExpect
<1> QED
  BY <1>2 DEF Hops

(* The suite of a candidate, whatever its hardware can do, is one.         *)
LEMMA PlainSuite ==
    ASSUME NEW t \in Names, NEW has
    PROVE  Suite(t, has) \in Seq(Plain)
<1> USE DEF Known, Modes
<1>1. /\ Absent \in Known /\ Temp \in Known /\ Malformed \in Known /\ t \in Known
      /\ {"NotFound", "InvalidInterfaceName", "AlreadyMonitor", "ChannelUnavailable",
          "ChannelDisabled", "WrongBand"} \subseteq Refusals
  BY ProgramAssumption, SessionAssumption DEF Malformed, Refusals
<1>2. \A n \in Known, m \in {"managed", "monitor", "gone"} : See(n, m) \in Plain
  BY PlainSteps
<1>3. /\ On(t) \in Plain /\ Stop(t) \in Plain /\ Lookup(t) \in Plain /\ All \in Plain
      /\ Leave \in Plain /\ As(t, Temp) \in Plain
      /\ Give("restore") \in Plain /\ Give("persist") \in Plain
      /\ \A what \in Reckoning : Reckon(what, t) \in Plain /\ Reckon(what, NoName) \in Plain
      /\ Do("note", NoName) \in Plain /\ Do("quiet", NoName) \in Plain /\ Do("idle", t) \in Plain
  BY <1>1, PlainSteps
<1>4. \A s \in Plain, w \in Refusals \cup {"ok", "any"} : Expect(s, w) \in Plain
  BY PlainExpect
<1>5. Phase3 \in Seq(Plain)
  <2>1. Stop(Absent) \in Plain /\ Tuned(Absent, "usable") \in Plain /\ As(Absent, Malformed) \in Plain
    BY <1>1, PlainSteps
  <2> QED
    BY <1>1, <1>4, <2>1 DEF Phase3
<1>6. Phase4(t) \in Seq(Plain) /\ Phase9(t) \in Seq(Plain) /\ Phase10(t) \in Seq(Plain)
  BY <1>1, <1>2, <1>3, <1>4 DEF Phase4, Phase9, Phase10
<1>7. Phase5(t) \in Seq(Plain) /\ Phase12(t) \in Seq(Plain)
  BY <1>1, <1>2, <1>3, <1>4 DEF Phase5, Phase12
<1>8. Phase6(t, has) \in Seq(Plain)
  <2>1. Expect(Hop("usable"), "ok") \in Plain
    BY <1>1, <1>4, PlainSteps
  <2>2. /\ <<Stop(t), Lookup(t), On(t)>> \in Seq(Plain) /\ <<Give("persist")>> \in Seq(Plain)
        /\ (IF "SixGhz" \in has THEN <<Expect(Hop("usable"), "ok")>> ELSE <<>>) \in Seq(Plain)
    BY <1>3, <2>1
  <2> QED
    BY <2>2, PlainHops, PlainJoin DEF Phase6
<1>9. Phase6b(t, has) \in Seq(Plain)
  <2>1. At(On(t), "usable") \in Plain /\ Expect(At(On(t), "absent"), "ChannelUnavailable") \in Plain
    BY <1>1, <1>3, <1>4, PlainAt
  <2>2. /\ <<Stop(t), Lookup(t)>> \in Seq(Plain)
        /\ <<At(On(t), "usable"), See(t, "monitor"), Give("restore")>> \in Seq(Plain)
        /\ << Expect(At(On(t), "absent"), "ChannelUnavailable"), See(t, "managed"), On(t),
              Give("persist") >> \in Seq(Plain)
    BY <1>1, <1>2, <1>3, <2>1
  <2>3. (IF has \cap {"TwoGhz", "FiveGhz"} = {} THEN <<>>
         ELSE << At(On(t), "usable"), See(t, "monitor"), Give("restore") >>) \in Seq(Plain)
    BY <2>2
  <2> QED
    BY <2>2, <2>3, PlainJoin DEF Phase6b
<1>10. Phase7(t, has) \in Seq(Plain)
  <2>1. /\ Expect(Tuned(t, "absent"), "ChannelUnavailable") \in Plain
        /\ Expect(Tuned(t, "disabled"), "ChannelDisabled") \in Plain
        /\ Expect(Tuned(t, "elsewhere"), "WrongBand") \in Plain
    <3>1. Tuned(t, "absent") \in Plain /\ Tuned(t, "disabled") \in Plain /\ Tuned(t, "elsewhere") \in Plain
      BY PlainSteps
    <3> QED
      BY <1>1, <1>4, <3>1
  <2>2. /\ <<Lookup(t), Expect(Tuned(t, "absent"), "ChannelUnavailable")>> \in Seq(Plain)
        /\ (IF "disabled" \in has THEN <<Expect(Tuned(t, "disabled"), "ChannelDisabled")>> ELSE <<>>)
              \in Seq(Plain)
        /\ (IF "FiveGhz" \in has THEN <<Expect(Tuned(t, "elsewhere"), "WrongBand")>> ELSE <<>>)
              \in Seq(Plain)
    BY <1>3, <2>1
  <2> QED
    BY <2>2, PlainJoin DEF Phase7
<1>11. Phase8(t) \in Seq(Plain)
  BY <1>1, <1>2, <1>3 DEF Phase8
<1>12. Phase11(t) \in Seq(Plain)
  BY <1>1, <1>2, <1>3 DEF Phase11, Reckoning
<1> HIDE DEF Known, Modes
<1> QED
  BY <1>5, <1>6, <1>7, <1>8, <1>9, <1>10, <1>11, <1>12, PlainJoin DEF Suite

----------------------------------------------------------------------------
(* The scripts of a program that is not reset or at the suite's choice stay *)
(* plain: their steps are taken from the front, or dropped for an unwind.  *)
LEMMA PlainLeft ==
    ASSUME script \in Seq(Plain), script # <<>>
    PROVE  /\ Head(script) \in Plain /\ Tail(script) \in Seq(Plain)
           /\ Unwind \in Seq(Plain) /\ Unwind \o Tail(script) \in Seq(Plain)
<1>1. Head(script) \in Plain /\ Tail(script) \in Seq(Plain)
  BY HeadTailProperties
<1>2. Unwind \in Seq(Plain)
  <2>1. NoName \in Known /\ "gone" \in Modes
    BY DEF Known, Modes
  <2>2. Leave \in Plain
    BY <2>1, PlainSteps
  <2> QED
    BY <2>2 DEF Unwind
<1> QED
  BY <1>1, <1>2, PlainJoin

(* What reset is made of.                                                  *)
LEMMA ResetSteps ==
    ASSUME script \in {Reset, Tail(Reset), Tail(Tail(Reset))}
    PROVE  /\ Head(script).must /\ Head(script).do \in {"all", "wpa", "nm"}
           /\ Head(script).do = "all" <=> script = Reset
           /\ Head(script).do = "nm" <=> script = Tail(Tail(Reset))
           /\ Tail(script) \in {Tail(Reset), Tail(Tail(Reset)), <<>>}
           /\ Tail(script) = <<>> <=> script = Tail(Tail(Reset))
           /\ Tail(script) # Reset
           /\ Reset # <<>> /\ Tail(Reset) # <<>> /\ Tail(Tail(Reset)) # <<>>
           /\ Tail(script) = Tail(Tail(Reset)) <=> script = Tail(Reset)
<1> DEFINE w == Do("wpa", NoName)
           n == Do("nm", NoName)
<1>1. All.do = "all" /\ w.do = "wpa" /\ n.do = "nm" /\ All.must /\ w.must /\ n.must
  BY DEF All, Do
<1> HIDE DEF w, n
<1>2. Reset = <<All, w, n>> /\ Tail(Reset) = <<w, n>> /\ Tail(Tail(Reset)) = <<n>>
  BY DEF Reset, w, n
<1>3. Tail(<<n>>) = <<>>
  OBVIOUS
<1>4. Head(<<All, w, n>>) = All /\ Head(<<w, n>>) = w /\ Head(<<n>>) = n
  OBVIOUS
<1>5. <<All, w, n>> # <<w, n>> /\ <<All, w, n>> # <<n>> /\ <<w, n>> # <<n>>
  OBVIOUS
<1>6. CASE script = Reset
  BY <1>1, <1>2, <1>4, <1>5, <1>6
<1>7. CASE script = Tail(Reset)
  BY <1>1, <1>2, <1>4, <1>5, <1>7
<1>8. CASE script = Tail(Tail(Reset))
  BY <1>1, <1>2, <1>3, <1>4, <1>5, <1>8
<1> QED
  BY <1>6, <1>7, <1>8

(* What reset and the suite's choice of a radio are at when a step is due.  *)
LEMMA HeadOfScript ==
    ASSUME ByScript, script # <<>>
    PROVE  /\ program # "none"
           /\ program = "reset" => script \in {Reset, Tail(Reset), Tail(Tail(Reset))}
           /\ program = "full_cycle" => /\ Head(script).do = "select" /\ Head(script).must
                                        /\ Tail(script) = <<>>
           /\ program \notin {"reset", "full_cycle"} =>
                 script \in Seq(Plain) /\ Head(script) \in Plain /\ Head(script).do \in Doings
<1>1. program = "full_cycle" => Head(script).do = "select" /\ Head(script).must /\ Tail(script) = <<>>
  <2> SUFFICES ASSUME program = "full_cycle"
               PROVE  Head(script).do = "select" /\ Head(script).must /\ Tail(script) = <<>>
    OBVIOUS
  <2>1. PICK n \in Known : script = <<Do("select", n)>>
    BY DEF ByScript, SelectPoint, Known
  <2>2. Head(script) = Do("select", n) /\ Tail(script) = <<>>
    BY <2>1
  <2> QED
    BY <2>2 DEF Do
<1>2. program \notin {"reset", "full_cycle"} => Head(script) \in Plain
  BY PlainLeft DEF ByScript
<1>3. \A s \in Plain : s.do \in Doings
  BY DEF Plain
<1> QED
  BY <1>1, <1>2, <1>3 DEF ByScript, ResetPoint

(* A program starts where the terminal is free.                            *)
LEMMA LaunchScripts ==
    ASSUME Base, ByScript, Launch
    PROVE  ByScript'
<1>1. /\ pc'[Shell] = "idle" /\ outcome' = "ready" /\ program' \in AllCommands
      /\ program' # "none"
  BY ProgramAssumption DEF Launch, ByScript, vars, AllCommands
<1>2. PICK n \in Known, new \in Known, c \in {"none", "usable", "absent"} :
          script' = Script(program', n, new, c)
  <2>1. (Aliases \ {Temp}) \cup {Malformed} \subseteq Known
    BY SessionAssumption DEF Known, Malformed
  <2> QED
    BY <2>1 DEF Launch, Known
<1>3. program' = "reset" => script' = Reset
  BY <1>2 DEF Script
<1>4. program' = "full_cycle" => script' = <<Do("select", n)>>
  BY <1>2 DEF Script
<1>5. program' \notin {"reset", "full_cycle"} => script' \in Seq(Plain)
  BY <1>1, <1>2, PlainScript
<1> QED
  BY <1>1, <1>3, <1>4, <1>5 DEF ByScript, ResetPoint, SelectPoint, Known

(* reset calls stop_all_monitors, the suite's choice nothing.              *)
LEMMA IssueScripts ==
    ASSUME Base, ByStart, Between, ByScript, Issue
    PROVE  ByScript'
<1> DEFINE s == Head(script)
<1>1. /\ script # <<>> /\ UNCHANGED <<program, script>> /\ Call(s)
      /\ s.do \in {"auto", "on", "as", "stop", "all", "restore", "drop", "persist"}
      /\ outcome' = IF pc'[Shell] \in {"idle", "open"} THEN AtOnce(s) ELSE "pending"
  BY DEF Issue, Ready, progress
<1>2. program # "full_cycle" /\ (program = "reset" => script = Reset /\ s.do = "all")
  BY <1>1, HeadOfScript, ResetSteps
<1>3. program = "reset" => ResetPoint'
  <2> SUFFICES ASSUME program = "reset" PROVE ResetPoint'
    OBVIOUS
  <2>1. StopAll(Shell)
    BY <1>1, <1>2 DEF Call
  <2>2. \/ pc'[Shell] = "idle"
        \/ pc'[Shell] = "sweep" /\ op'[Shell] = "all"
    BY <2>1, ShellIsCaller DEF StopAll, Goto, Base, TypeOK, CallTypeOK, call
  <2>3. outcome' # "ready"
    BY <1>1, <1>2, <2>2 DEF AtOnce
  <2> QED
    BY <1>1, <1>2, <2>2, <2>3 DEF ResetPoint
<1> QED
  BY <1>1, <1>2, <1>3, HeadOfScript DEF ByScript

(* A sweep opens no session.                                               *)
LEMMA SweepPoints ==
    ASSUME Base, ByStart, Step(Shell), op[Shell] = "all"
    PROVE  \/ pc'[Shell] = "idle"
           \/ pc'[Shell] # "open" /\ op'[Shell] = "all"
<1> USE ShellIsCaller DEF Base, TypeOK, CallTypeOK, ByStart, Starting, Entering, RollingBack, Starts,
        Goto, call
<1>1. CASE LeaveFind(Shell) \/ SwitchOff(Shell) \/ ConfirmOff(Shell) \/ Handback(Shell)
  BY <1>1 DEF LeaveFind, LeaveFrom, SwitchOff, ConfirmOff, Handback
<1>2. CASE GiveNm(Shell) \/ GiveWpa(Shell) \/ GiveWpaAdd(Shell)
  BY <1>2 DEF GiveNm, GiveWpa, GiveWpaAdd, Reclaimed
<1>3. CASE Finish(Shell)
  BY <1>3 DEF Finish, Return
<1> QED
  BY <1>1, <1>2, <1>3 DEF Step, TryNext, NmRelease, WpaFind, WpaDrop, SwitchOn, Confirm, RenameOn, Refind,
     Tune, UndoName, UndoMode, Rejected, RestoreFind, RenameBack

(* A call under way is reset's sweep, or another program's.                *)
LEMMA LibraryScripts ==
    ASSUME Base, ByStart, Between, ByScript, Library
    PROVE  ByScript'
<1>1. /\ Step(Shell) /\ outcome' = Settled /\ UNCHANGED <<program, script>>
  BY DEF Library, progress
<1>2. pc[Shell] \notin {"idle", "open"}
  BY <1>1, StepUnderWay
<1>3. script # <<>> /\ program # "full_cycle" /\ program # "none"
  BY <1>2 DEF ByScript, Between, SelectPoint
<1>4. program = "reset" => ResetPoint'
  <2> SUFFICES ASSUME program = "reset" PROVE ResetPoint'
    OBVIOUS
  <2>1. script = Reset /\ op[Shell] = "all"
    BY <1>2 DEF ByScript, ResetPoint
  <2>2. outcome' = "ok"
    BY <1>1, <2>1 DEF Settled
  <2> QED
    BY <1>1, <2>1, <2>2, SweepPoints DEF ResetPoint
<1> QED
  BY <1>1, <1>3, <1>4 DEF ByScript

(* The choice of a radio is the name of one, or refused.                   *)
LEMMA SelectedName ==
    ASSUME TypeOK, NEW n \in Known
    PROVE  Selected(n) \in Refusals \cup Names
<1> DEFINE idle == Present \ Monitors
<1>1. CASE n = NoName /\ idle = {}
  BY <1>1 DEF Selected, Refusals
<1>2. CASE n = NoName /\ idle # {}
  <2> DEFINE best == CHOOSE r \in idle : \A q \in idle : Rank[r] <= Rank[q]
  <2>1. idle \in SUBSET Radios
    BY DEF Present
  <2>2. best \in idle
    <3>1. \E r \in idle : \A q \in idle : Rank[r] <= Rank[q]
      BY <1>2, <2>1, BestRanked
    <3> QED
      BY <3>1
  <2>3. label[best] \in Names
    BY <2>1, <2>2 DEF TypeOK, WorldTypeOK
  <2> QED
    BY <1>2, <2>3 DEF Selected
<1>3. CASE n # NoName
  BY <1>3 DEF Selected, Refusals, Known
<1> QED
  BY <1>1, <1>2, <1>3

(* A look at the host leaves the script and what it means as they were.    *)
LEMMA LookScripts ==
    ASSUME Base, ByScript, Look
    PROVE  ByScript'
<1> DEFINE s == Head(script)
<1>1. /\ script # <<>> /\ UNCHANGED <<program, script, pc>>
      /\ s.do \in Detecting \cup Reckoning \cup Asking
      /\ outcome' \in {Result(s), "error"}
  BY DEF Look, Ready, progress
<1>2. program \notin {"reset", "none"}
  BY <1>1, HeadOfScript, ResetSteps DEF Detecting, Reckoning, Asking
<1>3. program = "full_cycle" => SelectPoint'
  <2> SUFFICES ASSUME program = "full_cycle" PROVE SelectPoint'
    OBVIOUS
  <2>1. PICK n \in Known : script = <<Do("select", n)>>
    BY <1>1 DEF ByScript, SelectPoint, Known
  <2>2. s.do = "select" /\ s.name = n
    BY <2>1 DEF Do
  <2>3. Result(s) = Selected(n)
    BY <2>2 DEF Result, Asking
  <2>4. outcome' \in Refusals \cup Names
    BY <1>1, <2>3, SelectedName DEF Base, Refusals
  <2> QED
    BY <1>1, <2>4 DEF ByScript, SelectPoint
<1> QED
  BY <1>1, <1>2, <1>3 DEF ByScript

(* The program drops the call that returned, or what is left when it fails; *)
(* the choice makes the suite.                                             *)
LEMMA JudgeScripts ==
    ASSUME Base, ByScript, Judge
    PROVE  ByScript'
<1> DEFINE s == Head(script)
           aborts == s.must /\ outcome \in Refusals
           chosen == s.do = "select" /\ ~aborts
<1>1. /\ outcome' = "ready" /\ UNCHANGED <<pc, op>>
      /\ outcome \notin {"ready", "pending"} /\ pc[Shell] \in {"idle", "open"}
  BY DEF Judge, vars, call
<1>2. script # <<>>
  BY <1>1 DEF ByScript
<1>3. /\ program' = IF chosen THEN "suite" ELSE program
      /\ \/ aborts /\ script' = Unwind
         \/ ~aborts /\ ~s.must /\ s.do \in Starts /\ script' = Unwind \o Tail(script)
         \/ chosen /\ \E has \in Hardware : script' = Suite(outcome, has)
         \/ ~aborts /\ ~chosen /\ (s.must \/ s.do \notin Starts) /\ script' = Tail(script)
  BY DEF Judge
<1>4. pc[Shell] = "idle" => Unwind = <<>>
  BY DEF Unwind
<1>5. CASE program = "reset"
  <2>1. pc[Shell] = "idle"
    BY <1>1, <1>5 DEF ByScript, ResetPoint
  <2>2. s.must /\ s.do \in {"all", "wpa", "nm"} /\ Tail(script) \in {Tail(Reset), Tail(Tail(Reset)), <<>>}
    BY <1>2, <1>5, HeadOfScript, ResetSteps
  <2>3. program' = "reset" /\ script' \in {Tail(Reset), Tail(Tail(Reset)), <<>>}
    BY <1>3, <1>4, <1>5, <2>1, <2>2
  <2> QED
    BY <1>1, <2>1, <2>3 DEF ByScript, ResetPoint
<1>6. CASE program = "full_cycle"
  <2>1. /\ pc[Shell] = "idle" /\ s.do = "select" /\ s.must
        /\ outcome \in Refusals \cup Names
    BY <1>1, <1>2, <1>6, HeadOfScript DEF ByScript, SelectPoint
  <2>2. CASE aborts
    BY <1>1, <1>3, <1>4, <1>6, <2>1, <2>2 DEF ByScript, SelectPoint
  <2>3. CASE ~aborts
    <3>1. program' = "suite" /\ \E has \in Hardware : script' = Suite(outcome, has)
      BY <1>3, <2>1, <2>3
    <3>2. script' \in Seq(Plain)
      BY <2>1, <2>3, <3>1, PlainSuite
    <3> QED
      BY <1>1, <3>1, <3>2 DEF ByScript
  <2> QED
    BY <2>2, <2>3
<1>7. CASE program \notin {"reset", "full_cycle"}
  <2>1. script \in Seq(Plain) /\ s.do \in Doings /\ program # "none"
    BY <1>2, <1>7, HeadOfScript
  <2>2. s.do # "select"
    BY <2>1 DEF Doings, Starts, Detecting, Reckoning, Asking
  <2>3. program' = program /\ script' \in {Unwind, Unwind \o Tail(script), Tail(script)}
    BY <1>3, <2>2
  <2>4. script' \in Seq(Plain)
    BY <1>2, <2>1, <2>3, PlainLeft
  <2> QED
    BY <1>1, <1>7, <2>1, <2>3, <2>4 DEF ByScript
<1> QED
  BY <1>5, <1>6, <1>7

(* Every step keeps the script to its program.                             *)
LEMMA ScriptStep ==
    ASSUME Base, ProgramInv, ByScript, [ShellNext]_allVars
    PROVE  ByScript'
<1> USE DEF ProgramInv
<1>1. CASE Launch
  BY <1>1, LaunchScripts
<1>2. CASE Issue
  BY <1>2, IssueScripts
<1>3. CASE RefuseName
  <2>1. /\ script # <<>> /\ UNCHANGED <<program, script, pc, op>> /\ Head(script).do = "as"
        /\ outcome' = "InvalidInterfaceName"
    BY <1>3 DEF RefuseName, Ready, progress, vars, call
  <2>2. program \notin {"none", "reset", "full_cycle"}
    BY <2>1, HeadOfScript, ResetSteps
  <2> QED
    BY <2>1, <2>2 DEF ByScript
<1>4. CASE Library
  BY <1>4, LibraryScripts
<1>5. CASE Look
  BY <1>5, LookScripts
<1>6. CASE Judge
  BY <1>6, JudgeScripts
<1>7. CASE Exit
  <2>1. /\ script' = <<>> /\ program' = "none" /\ pc'[Shell] = "idle" /\ outcome' = "ready"
    BY <1>7 DEF Exit, vars, memory, ByScript
  <2> QED
    BY <2>1, EmptySeq DEF ByScript
<1>8. ASSUME NEW service \in Services, Restart(service) PROVE ByScript'
  <2>1. program = "reset" /\ pc[Shell] = "idle"
    BY <1>8, RestartIsResets
  <2>2. UNCHANGED <<program, script, pc>> /\ script # <<>>
    BY <1>8 DEF Restart, Ready, progress
  <2> QED
    BY <2>1, <2>2 DEF ByScript, ResetPoint
<1>9. CASE Killed
  <2>1. /\ script' = <<>> /\ program' = "none" /\ pc'[Shell] = "idle" /\ outcome' = "ready"
    BY <1>9, ShellIsCaller DEF Killed, Kill, Return, Goto, Base, TypeOK, CallTypeOK
  <2> QED
    BY <2>1, EmptySeq DEF ByScript
<1>10. CASE Surroundings \/ UNCHANGED allVars
  <2>1. UNCHANGED <<program, script, pc, op, outcome>>
    BY <1>10 DEF Surroundings, allVars, vars, shellVars, progress, memory, call
  <2> QED
    BY <2>1 DEF ByScript, ResetPoint, SelectPoint
<1> QED
  BY <1>1, <1>2, <1>3, <1>4, <1>5, <1>6, <1>7, <1>8, <1>9, <1>10 DEF ShellNext, Work

----------------------------------------------------------------------------
(* Failures only add up.                                                   *)
LEMMA NeverForgiven ==
    ASSUME TypeOK, [ShellNext]_allVars
    PROVE  spent \in Nat /\ (spent' = spent \/ spent' = spent + 1)
<1>1. spent \in Nat
  BY WorldAssumption DEF TypeOK, WorldTypeOK
<1> USE DEF world, Smooth, Fault
<1>2. CASE Issue
  BY <1>2, CallIsClient, ClientSpends DEF Issue
<1>3. CASE Library
  BY <1>3, Spending DEF Library
<1>4. CASE Killed
  BY <1>1, <1>4 DEF Killed, Kill
<1>5. CASE Launch \/ RefuseName \/ Judge \/ Exit \/ UNCHANGED allVars
  BY <1>1, <1>5 DEF Launch, RefuseName, Judge, Exit, allVars, vars
<1>6. CASE Look
  BY <1>1, <1>6 DEF Look
<1>7. ASSUME NEW service \in Services, Restart(service)
      PROVE  spent' = spent \/ spent' = spent + 1
  BY <1>1, <1>7 DEF Restart
<1>8. CASE Surroundings
  BY <1>1, <1>8 DEF Surroundings, Environment, PullBack, NmAdopt, NmDrop, Unplug
<1> QED
  BY <1>1, <1>2, <1>3, <1>4, <1>5, <1>6, <1>7, <1>8 DEF ShellNext, Work

(* A sweep that returns without a failure leaves nothing in monitor mode:  *)
(* at once, when it found nothing to do,                                   *)
LEMMA SweepFindsNone ==
    ASSUME Base, StopAll(Shell), pc'[Shell] = "idle", spent' = spent
    PROVE  Monitors = {} /\ UNCHANGED mode
<1>1. pc' # [pc EXCEPT ![Shell] = "sweep"]
  BY ShellIsCaller DEF Base, TypeOK, CallTypeOK
<1>2. PICK seen \in {Listed, {}} : Snapshot(seen) /\ Busy(seen) = {}
  BY <1>1, Zenon DEF StopAll, Goto
<1>3. seen = Listed
  BY <1>2, WorldAssumption DEF Snapshot, Fault, Base, TypeOK, WorldTypeOK
<1>4. ASSUME NEW r \in Monitors PROVE FALSE
  <2>1. <<r, label[r]>> \in Busy(Listed)
    BY DEF Busy, Listed, Monitors
  <2> QED
    BY <1>2, <1>3, <2>1
<1> QED
  BY <1>4 DEF StopAll, WorldButSpent

(* or at the end of its list.                                              *)
LEMMA SweepLeavesNone ==
    ASSUME Base, ByStart, BySweep, Step(Shell), op[Shell] = "all", pc'[Shell] = "idle",
           spent = begun
    PROVE  Monitors = {} /\ UNCHANGED mode
<1> USE ShellIsCaller DEF Base, TypeOK, CallTypeOK, ByStart, Starting, Entering, RollingBack, Starts,
        Goto, call
<1>1. Finish(Shell)
  <2>1. CASE LeaveFind(Shell) \/ SwitchOff(Shell) \/ ConfirmOff(Shell) \/ Handback(Shell)
    BY <2>1 DEF LeaveFind, LeaveFrom, SwitchOff, ConfirmOff, Handback
  <2>2. CASE GiveNm(Shell) \/ GiveWpa(Shell) \/ GiveWpaAdd(Shell)
    BY <2>2 DEF GiveNm, GiveWpa, GiveWpaAdd, Reclaimed
  <2> QED
    BY <2>1, <2>2 DEF Step, TryNext, NmRelease, WpaFind, WpaDrop, SwitchOn, Confirm, RenameOn, Refind,
       Tune, UndoName, UndoMode, Rejected, RestoreFind, RenameBack
<1>2. todo[Shell] = {}
  BY <1>1 DEF Finish
<1>3. pc[Shell] \in {"left", "failed", "sweep"} /\ UNCHANGED mode
  BY <1>1 DEF Finish, world
<1> QED
  BY <1>2, <1>3 DEF BySweep, Monitors, Present

(* What ByReset says of a reset that has met no failure so far.            *)
Spotless == program = "reset" /\ ~failed /\ spent = launched
Settles ==
    /\ pc[Shell] # "idle" => begun = launched
    /\ script # Reset \/ (pc[Shell] = "idle" /\ outcome # "ready") => Monitors = {}
    /\ script = <<>> \/ (script = Tail(Tail(Reset)) /\ outcome # "ready") =>
          ("nm" \in Units => \A r \in Present : nm[r])

(* Every step keeps what a reset has done so far: no call that failed can  *)
(* pass for one that went through, and nothing undoes a finished step.     *)
LEMMA ResetStep ==
    ASSUME Base, ProgramInv, ByScript, ByReset, launched \in Nat, [ShellNext]_allVars
    PROVE  ByReset'
<1> USE DEF ProgramInv
<1>1. /\ spent \in Nat /\ (spent' = spent \/ spent' = spent + 1)
      /\ launched <= spent
  BY NeverForgiven DEF Base, ByReset
<1>2. launched' \in {launched, spent} /\ launched' <= spent'
  <2>1. launched' \in {launched, spent}
    BY DEF ShellNext, Work, Launch, Issue, RefuseName, Library, Look, Judge, Exit, Restart, Killed,
       Surroundings, allVars, shellVars, progress
  <2> QED
    BY <1>1, <2>1
<1> SUFFICES ASSUME Spotless' PROVE Settles'
  BY <1>2 DEF ByReset, Spotless, Settles
<1>3. CASE Launch
  <2>1. pc'[Shell] = "idle" /\ outcome' = "ready" /\ script' = Reset
    BY <1>3 DEF Launch, ByScript, vars, Spotless, Script
  <2>2. Reset # <<>> /\ Reset # Tail(Tail(Reset))
    BY ResetSteps
  <2> QED
    BY <2>1, <2>2 DEF Settles
<1>4. CASE ~Launch
  <2>1. program = "reset" /\ UNCHANGED launched /\ ~failed
    <3>1. CASE Judge
      <4>1. program' = "reset" /\ ~failed' /\ UNCHANGED launched
        BY <3>1 DEF Judge, Spotless
      <4>2. program = "reset"
        BY <3>1, <4>1 DEF Judge
      <4>3. ~failed
        BY <3>1, <4>1, Zenon DEF Judge
      <4> QED
        BY <4>1, <4>2, <4>3
    <3>2. CASE Exit \/ Killed
      BY <3>2 DEF Exit, Killed, Spotless
    <3>3. CASE UNCHANGED <<program, launched, failed>>
      BY <3>3 DEF Spotless
    <3> QED
      BY <1>4, <3>1, <3>2, <3>3 DEF ShellNext, Work, Issue, RefuseName, Library, Look, Restart,
         Surroundings, allVars, shellVars, progress, memory
  <2>2. spent' = spent /\ spent = launched
    BY <1>1, <2>1 DEF Spotless
  <2>3. Settles
    BY <2>1, <2>2 DEF ByReset, Settles
  <2>4. CASE Issue
    <3>1. /\ script # <<>> /\ UNCHANGED script /\ Call(Head(script)) /\ begun' = spent
          /\ Head(script).do \in {"auto", "on", "as", "stop", "all", "restore", "drop", "persist"}
      BY <2>4 DEF Issue, Ready, progress
    <3>2. script = Reset /\ Head(script).do = "all"
      BY <2>1, <3>1, HeadOfScript, ResetSteps
    <3>3. StopAll(Shell)
      BY <3>1, <3>2 DEF Call
    <3>4. pc'[Shell] = "idle" => Monitors' = {}
      BY <2>2, <3>3, SweepFindsNone DEF Monitors, Present
    <3>5. Reset # <<>> /\ Reset # Tail(Tail(Reset))
      BY ResetSteps
    <3> QED
      BY <2>1, <2>2, <3>1, <3>2, <3>4, <3>5 DEF Settles
  <2>5. CASE Library
    <3>1. Step(Shell) /\ UNCHANGED <<script, begun>>
      BY <2>5 DEF Library, progress
    <3>2. pc[Shell] # "idle"
      BY <3>1, StepUnderWay
    <3>3. script = Reset /\ op[Shell] = "all" /\ begun = launched
      BY <2>1, <2>3, <3>2 DEF ByScript, ResetPoint, Settles
    <3>4. pc'[Shell] = "idle" => Monitors' = {}
      BY <2>2, <3>1, <3>3, SweepLeavesNone DEF Monitors, Present
    <3>5. Reset # <<>> /\ Reset # Tail(Tail(Reset))
      BY ResetSteps
    <3> QED
      BY <2>1, <3>1, <3>3, <3>4, <3>5 DEF Settles
  <2>6. CASE Judge
    <3> DEFINE s == Head(script)
    <3>1. /\ UNCHANGED <<mode, nm, pc>> /\ outcome' = "ready" /\ outcome # "ready"
          /\ pc[Shell] \in {"idle", "open"}
      BY <2>6 DEF Judge, vars, world
    <3>2. script # <<>>
      BY <3>1 DEF ByScript
    <3>3. pc[Shell] = "idle"
      BY <2>1, <3>1 DEF ByScript, ResetPoint
    <3>4. script \in {Reset, Tail(Reset), Tail(Tail(Reset))} /\ s.must /\ s.do \in {"all", "wpa", "nm"}
      BY <2>1, <3>2, HeadOfScript, ResetSteps
    <3>5. script' = Tail(script)
      BY <2>6, <3>4 DEF Judge, Spotless
    <3>6. Monitors = {} /\ (script = Tail(Tail(Reset)) => ("nm" \in Units => \A r \in Present : nm[r]))
      BY <2>3, <3>1, <3>3 DEF Settles
    <3>7. Monitors' = {} /\ (script' = <<>> => ("nm" \in Units => \A r \in Present : nm[r])')
      BY <3>1, <3>4, <3>5, <3>6, ResetSteps DEF Monitors, Present
    <3> QED
      BY <3>1, <3>3, <3>7 DEF Settles
  <2>7. ASSUME NEW service \in Services, Restart(service) PROVE Settles'
    <3>1. /\ script # <<>> /\ Head(script).do = service /\ outcome = "ready" /\ outcome' = "ok"
          /\ UNCHANGED <<mode, pc, script>>
      BY <2>7 DEF Restart, Ready, progress, world, WorldButSpent, Revived
    <3>2. pc[Shell] = "idle"
      BY <2>7, RestartIsResets
    <3>3. /\ script \in {Tail(Reset), Tail(Tail(Reset))} /\ script # Reset
          /\ service = "nm" <=> script = Tail(Tail(Reset))
      BY <2>1, <3>1, HeadOfScript, ResetSteps DEF Services
    <3>4. Monitors' = {}
      BY <2>3, <3>1, <3>3 DEF Settles, Monitors, Present
    <3>5. service = "nm" /\ "nm" \in Units => \A r \in Present' : nm'[r]
      <4> SUFFICES ASSUME service = "nm", "nm" \in Units PROVE \A r \in Present' : nm'[r]
        OBVIOUS
      <4>1. Revived("nm")
        BY <1>1, <2>2, <2>7 DEF Restart, Fault
      <4>2. nm' = [r \in Radios |-> r \in Present]
        BY <4>1 DEF Revived
      <4>3. Present' = Present /\ Present \subseteq Radios
        BY <3>1 DEF Present
      <4>4. \A r \in Radios : nm'[r] = (r \in Present)
        BY <4>2, Zenon
      <4> QED
        BY <4>3, <4>4, Zenon
    <3> QED
      BY <3>1, <3>2, <3>3, <3>4, <3>5 DEF Settles
  <2>8. CASE Surroundings
    <3>1. /\ UNCHANGED <<pc, begun, script, outcome>>
          /\ \E s \in Radios : PullBack(s) \/ NmAdopt(s) \/ NmDrop(s) \/ Unplug(s)
      BY <2>8 DEF Surroundings, Environment, shellVars, progress, memory
    <3>2. UNCHANGED nm /\ Monitors' \subseteq Monitors /\ Present' = Present
      BY <1>1, <2>2, <3>1 DEF PullBack, NmAdopt, NmDrop, Unplug, Fault, Monitors, Present, Base,
         TypeOK, WorldTypeOK
    <3> QED
      BY <2>1, <2>3, <3>1, <3>2 DEF Settles
  <2>9. CASE UNCHANGED allVars
    BY <2>3, <2>9 DEF allVars, vars, world, shellVars, progress, memory, Settles, Monitors, Present
  <2>10. ~RefuseName /\ ~Look /\ ~Exit /\ ~Killed
    <3>1. ~RefuseName /\ ~Look
      BY <2>1, HeadOfScript, ResetSteps DEF RefuseName, Look, Ready, Detecting, Reckoning, Asking
    <3>2. ~Exit /\ ~Killed
      BY DEF Exit, Killed, Spotless
    <3> QED
      BY <3>1, <3>2
  <2> QED
    BY <1>4, <2>4, <2>5, <2>6, <2>7, <2>8, <2>9, <2>10 DEF ShellNext, Work
<1> QED
  BY <1>3, <1>4

----------------------------------------------------------------------------
(* What a call, a lookup or a check can come back with.                    *)
Outcomes == Refusals \cup Modes \cup Names \cup {"ready", "pending", "ok", "mismatch"}

(* A call that returns at once is one of those that can.                   *)
LEMMA AtOnceTyped ==
    ASSUME Base, NEW s, Call(s), pc'[Shell] \in {"idle", "open"},
           s.do \in {"auto", "on", "as", "stop", "all", "restore", "drop", "persist"}
    PROVE  AtOnce(s) \in Outcomes
<1> USE ShellIsCaller DEF Base, TypeOK, CallTypeOK, Goto
<1>1. CASE s.do = "stop"
  BY <1>1 DEF Call, StopMonitor
<1>2. CASE s.do \in {"restore", "drop"}
  BY <1>2 DEF Call, Restore
<1>3. CASE s.do \in {"auto", "on", "as", "all", "persist"}
  BY <1>3 DEF AtOnce, Outcomes, Refusals
<1> QED
  BY <1>1, <1>2, <1>3

(* What a program looks at answers with an outcome.                        *)
LEMMA ResultTyped ==
    ASSUME TypeOK, NEW s, s.do = "select" => s.name \in Known,
           s.do \in {"tuned", "hop"} => s.chan \in {"none", "usable", "absent", "disabled", "elsewhere"}
    PROVE  Result(s) \in Outcomes
<1> DEFINE of == Named(s.name)
<1>1. \A good : Says(good) \in {"ok", "mismatch"}
  BY DEF Says
<1>2. s.do = "select" => Selected(s.name) \in Outcomes
  BY SelectedName DEF Outcomes
<1>3. s.do \in {"tuned", "hop"} => Verdict[s.chan] \in Outcomes
  BY DEF Verdict, Outcomes, Refusals
<1>4. (IF of = {} THEN "gone" ELSE mode[CHOOSE r \in of : TRUE]) \in Outcomes
  <2>1. of # {} => (CHOOSE r \in of : TRUE) \in of
    OBVIOUS
  <2>2. of # {} => (CHOOSE r \in of : TRUE) \in Radios
    BY <2>1 DEF Named, Present
  <2> QED
    BY <2>2 DEF TypeOK, WorldTypeOK, Outcomes, Modes
<1>5. {"NotFound", "error", "ok", "mismatch"} \subseteq Outcomes
  BY DEF Outcomes, Refusals
<1> HIDE DEF of
<1>6. CASE s.do \in {"lookup", "tuned", "idle"} /\ Named(s.name) = {}
  BY <1>5, <1>6 DEF Result
<1>7. CASE s.do \in Asking /\ (Named(s.name) = {} \/ "nm" \notin running)
  BY <1>5, <1>7 DEF Result, Asking
<1>8. CASE /\ ~(s.do \in {"lookup", "tuned", "idle"} /\ Named(s.name) = {})
           /\ ~(s.do \in Asking /\ (Named(s.name) = {} \/ "nm" \notin running))
  <2>1. CASE s.do \in {"see", "select", "idle", "tuned", "hop"}
    BY <1>1, <1>2, <1>3, <1>4, <1>5, <1>8, <2>1 DEF Result, of
  <2>2. CASE s.do \in {"quiet", "reported", "spared", "nothing", "nmCompare"}
    BY <1>1, <1>5, <1>8, <2>2 DEF Result
  <2>3. CASE s.do \notin {"see", "select", "idle", "tuned", "hop", "quiet", "reported", "spared",
                          "nothing", "nmCompare"}
    BY <1>5, <1>8, <2>3 DEF Result
  <2> QED
    BY <2>1, <2>2, <2>3
<1> QED
  BY <1>6, <1>7, <1>8

(* So does every step.                                                     *)
LEMMA OutcomeStep ==
    ASSUME Base, ByScript, outcome \in Outcomes, [ShellNext]_allVars
    PROVE  outcome' \in Outcomes
<1> DEFINE s == Head(script)
<1>1. {"ready", "pending", "ok", "error", "ChannelUnavailable", "NotFound", "InvalidInterfaceName"}
        \subseteq Outcomes
  BY DEF Outcomes, Refusals
<1>2. CASE Issue
  <2>1. /\ Call(s) /\ outcome' = IF pc'[Shell] \in {"idle", "open"} THEN AtOnce(s) ELSE "pending"
        /\ s.do \in {"auto", "on", "as", "stop", "all", "restore", "drop", "persist"}
    BY <1>2 DEF Issue, Ready
  <2> QED
    BY <1>1, <2>1, AtOnceTyped
<1>3. CASE Library
  BY <1>1, <1>3 DEF Library, Settled
<1>4. CASE Look
  <2>1. script # <<>> /\ outcome' \in {Result(s), "error"} /\ s.do \in Detecting \cup Reckoning \cup Asking
    BY <1>4 DEF Look, Ready
  <2>2. program # "reset"
    BY <2>1, HeadOfScript, ResetSteps DEF Detecting, Reckoning, Asking
  <2>3. CASE program = "full_cycle"
    <3>1. PICK n \in Known : script = <<Do("select", n)>>
      BY <2>1, <2>3 DEF ByScript, SelectPoint, Known
    <3>2. s = Do("select", n)
      BY <3>1
    <3>3. s.do = "select" /\ s.name = n
      BY <3>2 DEF Do
    <3> QED
      BY <1>1, <2>1, <3>3, ResultTyped DEF Base
  <2>4. CASE program # "full_cycle"
    <3>1. s \in Plain /\ s.do \in Doings
      BY <2>1, <2>2, <2>4, HeadOfScript
    <3>2. s.do # "select" /\ s.chan \in {"none", "usable", "absent", "disabled", "elsewhere"}
      BY <3>1 DEF Plain, Doings, Starts, Detecting, Reckoning, Asking
    <3> QED
      BY <1>1, <2>1, <3>2, ResultTyped DEF Base
  <2> QED
    BY <2>3, <2>4
<1>5. CASE UNCHANGED outcome
  BY <1>5
<1>6. CASE RefuseName \/ Judge \/ Killed
  BY <1>1, <1>6 DEF RefuseName, Judge, Killed
<1>7. ASSUME NEW service \in Services, Restart(service) PROVE outcome' \in Outcomes
  BY <1>1, <1>7 DEF Restart
<1>8. CASE Launch \/ Exit \/ Surroundings \/ UNCHANGED allVars
  BY <1>5, <1>8 DEF Launch, Exit, Surroundings, allVars, shellVars, memory
<1> QED
  BY <1>2, <1>3, <1>4, <1>6, <1>7, <1>8 DEF ShellNext, Work

(* A name the sweep reports is one it worked under, and the names noted are *)
(* of radios.                                                              *)
LEMMA NamesStep ==
    ASSUME Base, swept \subseteq Names, noted \subseteq Names, [ShellNext]_allVars
    PROVE  swept' \subseteq Names /\ noted' \subseteq Names
<1>1. CASE Library
  <2>1. Step(Shell) /\ UNCHANGED noted /\ swept' = IF op[Shell] = "all" /\ pc'[Shell] = "left"
                                                   THEN swept \cup {orig[Shell]} ELSE swept
    BY <1>1 DEF Library
  <2>2. pc'[Shell] = "left" => orig[Shell] \in Names
    <3>1. pc'[Shell] = "left" => pc[Shell] \in HandingBack
      BY <2>1, ShellIsCaller DEF Step, TryNext, NmRelease, WpaFind, WpaDrop, SwitchOn, Confirm, RenameOn,
         Refind, Tune, UndoName, UndoMode, GiveNm, GiveWpa, GiveWpaAdd, Rejected, RestoreFind,
         RenameBack, LeaveFind, LeaveFrom, SwitchOff, ConfirmOff, Handback, Finish, Return, Goto,
         Base, TypeOK, CallTypeOK, HandingBack
    <3> QED
      BY <3>1, ShellIsCaller, Equipment DEF Base, HandingBack, Unnamed
  <2> QED
    BY <2>1, <2>2
<1>2. CASE Look
  <2>1. \A n : NmManaged(n) \subseteq Names
    BY DEF NmManaged, Named, Present, Base, TypeOK, WorldTypeOK
  <2>2. Quiet \subseteq Names
    BY DEF Quiet, Present, Base, TypeOK, WorldTypeOK
  <2>3. \/ noted' = noted \/ noted' = Quiet \/ \E n : noted' = NmManaged(n)
    BY <1>2 DEF Look
  <2> QED
    BY <1>2, <2>1, <2>2, <2>3 DEF Look
<1>3. CASE Launch \/ Issue \/ Judge \/ Exit \/ Killed \/ RefuseName \/ Surroundings \/ UNCHANGED allVars
  BY <1>3 DEF Launch, Issue, Judge, Exit, Killed, RefuseName, Surroundings, allVars, shellVars, memory
<1>4. ASSUME NEW service \in Services, Restart(service) PROVE swept' \subseteq Names /\ noted' \subseteq Names
  BY <1>4 DEF Restart
<1> QED
  BY <1>1, <1>2, <1>3, <1>4 DEF ShellNext, Work

(* The observers and the counters keep their range.                        *)
LEMMA CountersStep ==
    ASSUME Base, Observed, ShellTypeOK, [ShellNext]_allVars
    PROVE  /\ program' \in AllCommands \cup {"none", "suite"} /\ runs' \in 0..MaxRuns
           /\ begun' \in 0..MaxFaults /\ launched' \in 0..MaxFaults
<1> USE DEF ShellTypeOK
<1>1. spent \in 0..MaxFaults
  BY DEF Base, TypeOK, WorldTypeOK
<1>2. begun' \in {begun, spent} /\ launched' \in {launched, spent}
  BY DEF ShellNext, Work, Launch, Issue, RefuseName, Library, Look, Judge, Exit, Restart, Killed,
     Surroundings, allVars, shellVars, progress
<1>3. CASE Launch
  <2>1. program' \in AllCommands /\ runs' \in 0..MaxRuns
    BY <1>3, ProgramAssumption DEF Launch
  <2> QED
    BY <1>1, <1>2, <2>1
<1>4. CASE ~Launch
  <2>1. program' \in {program, "none", "suite"} /\ UNCHANGED runs
    BY <1>4 DEF ShellNext, Work, Issue, RefuseName, Library, Look, Judge, Exit, Restart, Killed,
       Surroundings, allVars, shellVars, progress
  <2> QED
    BY <1>1, <1>2, <2>1
<1> QED
  BY <1>3, <1>4

(* That a check failed is a truth value.                                   *)
LEMMA FailedStep ==
    ASSUME failed \in BOOLEAN, [ShellNext]_allVars
    PROVE  failed' \in BOOLEAN
<1>1. CASE Judge
  <2>1. PICK x : failed' = (failed \/ x)
    BY <1>1, Zenon DEF Judge
  <2> QED
    BY <2>1, Zenon
<1>2. CASE Launch \/ Killed
  BY <1>2 DEF Launch, Killed
<1>3. CASE UNCHANGED failed
  BY <1>3
<1> QED
  BY <1>1, <1>2, <1>3 DEF ShellNext, Work, Issue, RefuseName, Library, Look, Exit, Restart, Surroundings,
     allVars, shellVars, memory

(* The types of the programs' variables are kept,                          *)
LEMMA ShellTypeStep ==
    ASSUME Base, Observed, Observed', ByScript, ShellTypeOK, [ShellNext]_allVars
    PROVE  ShellTypeOK'
<1>1. outcome' \in Outcomes
  BY OutcomeStep DEF ShellTypeOK, Outcomes
<1>2. failed' \in BOOLEAN
  BY FailedStep DEF ShellTypeOK
<1>3. swept' \subseteq Names /\ noted' \subseteq Names
  BY NamesStep DEF ShellTypeOK
<1>4. why' \in [Radios -> {"free", "kept", "loose"}]
  BY DEF Observed
<1> QED
  BY <1>1, <1>2, <1>3, <1>4, CountersStep DEF ShellTypeOK, Outcomes

(* The whole of it: the calls', the programs' and the terminal's part.     *)
TInv == /\ Base /\ Observed /\ ProgramInv
        /\ ShellTypeOK /\ TerminalInv /\ KeptStands

(* It holds at boot,                                                       *)
LEMMA TerminalInit == ShellInit => TInv
<1> SUFFICES ASSUME ShellInit PROVE TInv
  OBVIOUS
<1>1. Base /\ Observed /\ ProgramInv
  BY ShellInitHolds
<1>2. /\ pc[Shell] = "idle" /\ op[Shell] = "none" /\ radio[Shell] = NoRadio /\ spent = 0
      /\ program = "none" /\ script = <<>> /\ outcome = "ready"
  BY ShellIsCaller DEF ShellInit, Init, WorldInit
<1>3. ShellTypeOK
  <2>1. 0 \in 0..MaxRuns /\ 0 \in 0..MaxFaults
    BY ProgramAssumption, WorldAssumption
  <2>2. runs = 0 /\ begun = 0 /\ launched = 0
    BY DEF ShellInit
  <2>3. failed = FALSE /\ swept = {} /\ noted = {}
    BY Zenon DEF ShellInit
  <2>4. why \in [Radios -> {"free", "kept", "loose"}]
    BY <1>1 DEF Observed
  <2> QED
    BY <1>2, <2>1, <2>2, <2>3, <2>4 DEF ShellTypeOK
<1>4. ByScript
  BY <1>2, EmptySeq DEF ByScript
<1>5. BySole /\ ByRelease
  BY <1>2 DEF BySole, Sole, Addressing, RollingBack, HandingBack, ByRelease, NmLetGo, WpaLetGo,
     Switched, InSession
<1>6. TakenUp
  BY <1>2, SessionAssumption DEF TakenUp
<1>7. ByReset
  BY <1>2 DEF ShellInit, ByReset
<1>8. KeptStands
  <2> SUFFICES ASSUME NEW r \in Radios, why[r] = "kept"
               PROVE  mode[r] \in {"monitor", "gone"} /\ ~Held(r)
    BY DEF KeptStands
  <2>1. mode[r] = "monitor"
    BY DEF ShellInit
  <2>2. ~nm[r] /\ wpa[r] = "out"
    <3>1. PICK c \in [Radios -> BootCustody] :
              /\ nm = [s \in Radios |-> c[s].nm /\ "nm" \in running /\ mode[s] # "monitor"]
              /\ wpa = [s \in Radios |->
                          IF "wpa" \in running /\ mode[s] # "monitor"
                          THEN IF c[s].wpa = "nm" /\ ~nm[s] THEN "out" ELSE c[s].wpa
                          ELSE "out"]
      BY Zenon DEF ShellInit, Init, WorldInit
    <3>2. nm[r] = (c[r].nm /\ "nm" \in running /\ mode[r] # "monitor")
      BY <3>1, Zenon
    <3>3. ~nm[r]
      BY <2>1, <3>2, Zenon
    <3>4. wpa[r] = "out"
      BY <2>1, <3>1
    <3> QED
      BY <3>3, <3>4
  <2> QED
    BY <2>1, <2>2 DEF Held
<1> QED
  BY <1>1, <1>3, <1>4, <1>5, <1>6, <1>7, <1>8 DEF TInv, TerminalInv

(* and every step keeps it.                                                *)
LEMMA TerminalStep == TInv /\ [ShellNext]_allVars => TInv'
<1> SUFFICES ASSUME TInv, [ShellNext]_allVars PROVE TInv'
  OBVIOUS
<1>1. Base /\ Observed /\ ProgramInv /\ ShellTypeOK /\ KeptStands
  BY DEF TInv
<1>2. ByScript /\ BySole /\ ByRelease /\ TakenUp /\ ByReset
  BY DEF TInv, TerminalInv
<1>3. Base' /\ Observed' /\ ProgramInv'
  BY <1>1, ShellStep
<1>4. ShellTypeOK'
  BY <1>1, <1>2, <1>3, ShellTypeStep
<1>5. ByScript'
  BY <1>1, <1>2, ScriptStep
<1>6. BySole'
  BY <1>1, <1>2, SoleStep DEF ProgramInv
<1>7. ByRelease'
  BY <1>1, <1>2, ReleaseStep
<1>8. TakenUp'
  BY <1>1, <1>2, TakenUpStep
<1>9. ByReset'
  <2>1. launched \in Nat
    BY <1>1, WorldAssumption DEF ShellTypeOK
  <2> QED
    BY <1>1, <1>2, <2>1, ResetStep
<1>10. KeptStands'
  BY <1>1, <1>2, KeptStep
<1> QED
  BY <1>3, <1>4, <1>5, <1>6, <1>7, <1>8, <1>9, <1>10 DEF TInv, TerminalInv

(* So it holds throughout.                                                 *)
LEMMA TerminalHolds == ShellSpec => []TInv
BY TerminalInit, TerminalStep, PTL DEF ShellSpec

(* The variables of the programs keep their types, for any programs run    *)
(* any number of times: every call returns an outcome its program knows.   *)
THEOREM ShellTypes == ShellSpec => []ShellTypeOK
<1>1. TInv => ShellTypeOK
  BY DEF TInv
<1> QED
  BY <1>1, TerminalHolds, PTL

(* What is left of a program's script, whose radio a name means, what a    *)
(* start without a failure has released and how far a reset has come, at    *)
(* every point of every program.                                           *)
THEOREM TerminalInvariant == ShellSpec => []TerminalInv
<1>1. TInv => TerminalInv
  BY DEF TInv
<1> QED
  BY <1>1, TerminalHolds, PTL

(* A session that start_monitor left behind without a failure stands until *)
(* a program takes its radio up, restarts a service, or it is unplugged:   *)
(* no service and no other program's call can end it.                      *)
THEOREM KeptSessionsStand == ShellSpec => []KeptStands
<1>1. TInv => KeptStands
  BY DEF TInv
<1> QED
  BY <1>1, TerminalHolds, PTL

(* A reset that meets no failure has recovered the host: no radio is in    *)
(* monitor mode, and NetworkManager, where systemd knows it, manages every *)
(* one, whatever was left by what ran before.                              *)
THEOREM ResetsRecover == ShellSpec => []ResetRecovers
<1>1. TInv => ResetRecovers
  <2> SUFFICES ASSUME TInv, program = "reset", script = <<>>, ~failed, spent = launched
               PROVE  \A r \in Present : mode[r] # "monitor" /\ ("nm" \in Units => nm[r])
    BY DEF ResetRecovers
  <2>1. script # Reset
    BY ResetSteps
  <2>2. Monitors = {} /\ ("nm" \in Units => \A r \in Present : nm[r])
    BY <2>1 DEF TInv, TerminalInv, ByReset
  <2> QED
    BY <2>2 DEF Monitors
<1> QED
  BY <1>1, TerminalHolds, PTL

============================================================================
