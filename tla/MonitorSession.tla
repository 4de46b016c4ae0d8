-------------------------- MODULE MonitorSession --------------------------
(***************************************************************************)
(* The library's calls, each run by a process: start_monitor, _on and _as  *)
(* up to the guard they return, the guard's restore, Drop and persist,     *)
(* stop_monitor and stop_all_monitors (src/monitor.rs, src/cleanup.rs),    *)
(* over the Linux backend's enter, start_as, leave, release_stack and      *)
(* reclaim_stack (src/linux/mod.rs).  Every await between two primitives is *)
(* a point where other processes and the services may step.                *)
(*                                                                         *)
(* A process is one caller: it holds at most one guard, and while it holds *)
(* one it only gives it up.  Callers that do more are more processes.      *)
(***************************************************************************)
EXTENDS RadioWorld

CONSTANTS
    Procs,      \* callers: threads, tasks or separate programs
    NoRadio,    \* no interface resolved
    Calls,      \* the calls they make, a bound on the instance
    Aliases,    \* the new names start_monitor_as is given
    Rank        \* rank_candidates' order: the lowest rank is tried first

ASSUME SessionAssumption ==
    /\ NoRadio \notin Radios
    /\ Aliases \subseteq Names
    /\ Calls \subseteq {"auto", "on", "as", "stop", "all"}
    /\ Rank \in [Radios -> Nat]
    /\ \A r, s \in Radios : Rank[r] = Rank[s] => r = s

VARIABLES
    pc,       \* where the process is in its call
    op,       \* the call
    radio,    \* the interface resolved (chosen, iface): its ifindex
    orig,     \* the name it is found under and given back under
    cur,      \* the name of the session: start_as's new_name, or orig
    held,     \* Holders: what the release took, or what is present
    todo,     \* snapshots still to try: auto's candidates, the sweep's list
    (* Observers, which no step reads. *)
    found,    \* the radio as the start found it
    spoiled   \* another call overlapped this one on its radio or its names,
              \* or outdated the snapshot it works from

call == <<op, radio, orig, cur, held, todo>>
observers == <<found, spoiled>>
vars == <<world, pc, call, observers>>

Starts == {"auto", "on", "as"}
Ops == Starts \cup {"none", "stop", "all", "restore", "drop"}

Entering == {"release", "wpaFind", "wpaDrop", "switch", "confirm", "rename",
             "refind"}
InSession == {"tune", "open"}
RollingBack == {"undoName", "undoMode"}
HandingBack == {"giveNm", "giveWpa", "giveWpaAdd"}
Leaving == {"restore", "renameBack", "leaveFind", "unswitch", "unconfirm",
            "handback"}
Points == {"idle", "next", "rejected", "sweep", "left", "failed"} \cup Entering
          \cup InSession \cup RollingBack \cup HandingBack \cup Leaving

NotFound == [mode |-> "gone", label |-> NoName, nm |-> FALSE, wpa |-> "out"]
AsFound(r) == [mode |-> mode[r], label |-> label[r], nm |-> nm[r], wpa |-> wpa[r]]

(* Points at which no name is known yet, and no interface is resolved.      *)
Unnamed == {"idle", "next", "sweep"}
Unresolved == Unnamed \cup {"leaveFind", "failed"}

CallTypeOK ==
    /\ pc \in [Procs -> Points]
    /\ op \in [Procs -> Ops]
    /\ radio \in [Procs -> Radios \cup {NoRadio}]
    /\ orig \in [Procs -> Names \cup {NoName}]
    /\ cur \in [Procs -> Names \cup {NoName}]
    /\ held \in [Procs -> SUBSET Services]
    /\ todo \in [Procs -> SUBSET (Radios \X Names)]

ObserversTypeOK ==
    /\ found \in [Procs -> [mode : Modes, label : Names \cup {NoName},
                            nm : BOOLEAN, wpa : WpaStates]]
    /\ spoiled \in [Procs -> BOOLEAN]

(* What a point needs is there: the names to work with, and an interface.   *)
Equipped(p) ==
    /\ pc[p] \notin Unnamed => orig[p] \in Names /\ cur[p] \in Names
    /\ pc[p] \notin Unresolved => radio[p] \in Radios

TypeOK ==
    /\ WorldTypeOK
    /\ CallTypeOK
    /\ ObserversTypeOK
    /\ \A p \in Procs : Equipped(p)

Init ==
    /\ WorldInit
    /\ pc = [p \in Procs |-> "idle"]
    /\ op = [p \in Procs |-> "none"]
    /\ radio = [p \in Procs |-> NoRadio]
    /\ orig = [p \in Procs |-> NoName]
    /\ cur = [p \in Procs |-> NoName]
    /\ held = [p \in Procs |-> {}]
    /\ todo = [p \in Procs |-> {}]
    /\ found = [p \in Procs |-> NotFound]
    /\ spoiled = [p \in Procs |-> FALSE]

---------------------------------------------------------------------------
Goto(p, point) == pc' = [pc EXCEPT ![p] = point]

(* The calls under way that share the radio r or one of the names ns.      *)
Overlapping(p, r, ns) ==
    {q \in Procs \ {p} : /\ pc[q] # "idle"
                         /\ \/ r # NoRadio /\ radio[q] = r
                            \/ ({orig[q], cur[q]} \cap ns) \ {NoName} # {}}

(* The process works from now on with radio r, found as o, to be called c. *)
Engage(p, r, o, c, before) ==
    LET others == Overlapping(p, r, {o, c})
    IN /\ radio' = [radio EXCEPT ![p] = r]
       /\ orig' = [orig EXCEPT ![p] = o]
       /\ cur' = [cur EXCEPT ![p] = c]
       /\ spoiled' = [q \in Procs |-> IF q = p THEN before \/ others # {}
                                      ELSE spoiled[q] \/ q \in others]

(* find, for a call that already has its names: the radio is what the name *)
(* resolves to now.                                                        *)
Resolve(p, r) == Engage(p, r, orig[p], cur[p], spoiled[p])

Return(p) ==
    /\ Goto(p, "idle")
    /\ op' = [op EXCEPT ![p] = "none"]
    /\ radio' = [radio EXCEPT ![p] = NoRadio]
    /\ orig' = [orig EXCEPT ![p] = NoName]
    /\ cur' = [cur EXCEPT ![p] = NoName]
    /\ held' = [held EXCEPT ![p] = {}]
    /\ todo' = [todo EXCEPT ![p] = {}]
    /\ found' = [found EXCEPT ![p] = NotFound]
    /\ spoiled' = [spoiled EXCEPT ![p] = FALSE]

WorldButSpent == UNCHANGED <<mode, label, nm, wpa, running>>

---------------------------------------------------------------------------
(* The calls.                                                              *)

(* detect, on behalf of a call that walks the list: what it saw.           *)
Listed == {<<r, label[r]>> : r \in Present}
Snapshot(seen) ==
    \/ seen = Listed /\ Smooth
    \/ seen = {} /\ Fault("detect")

(* A slip: only the first such radio, whatever the names say. *)
FirstBusy(seen) ==
    {c \in seen : /\ mode[c[1]] = "monitor"
                  /\ \A d \in seen : mode[d[1]] = "monitor" => Rank[c[1]] <= Rank[d[1]]}

(* The snapshots of radios in monitor mode. *)
Busy(seen) == {c \in seen : mode[c[1]] = "monitor"}

(* A slip: the loop forgets what it has tried. *)
RemainingAll(p, c) == todo[p]

(* What is left to do after c. *)
Remaining(p, c) == todo[p] \ {c}

StartAuto(p) ==
    /\ pc[p] = "idle"
    /\ \E seen \in {Listed, {}} :
          LET candidates == seen \ Busy(seen)
          IN /\ Snapshot(seen)
             /\ IF candidates = {}
                THEN UNCHANGED <<pc, call>>
                ELSE /\ Goto(p, "next")
                     /\ op' = [op EXCEPT ![p] = "auto"]
                     /\ todo' = [todo EXCEPT ![p] = candidates]
                     /\ UNCHANGED <<radio, orig, cur, held>>
    /\ WorldButSpent /\ UNCHANGED observers

(* start_monitor_on and start_monitor_as: resolve the name, refuse a radio *)
(* that is in monitor mode, start entering otherwise.                      *)
StartNamed(p, kind, n, new) ==
    /\ pc[p] = "idle"
    /\ \E seen \in {Named(n), {}} :
          /\ Find(n, seen)
          /\ \/ /\ \A r \in seen : mode[r] = "monitor"
                /\ UNCHANGED <<pc, call, observers>>
             \/ \E r \in seen :
                   /\ mode[r] # "monitor"
                   /\ Goto(p, "release")
                   /\ op' = [op EXCEPT ![p] = kind]
                   /\ found' = [found EXCEPT ![p] = AsFound(r)]
                   /\ Engage(p, r, n, new, FALSE)
                   /\ UNCHANGED <<held, todo>>
    /\ WorldButSpent

StartOn(p) == \E n \in Names : StartNamed(p, "on", n, n)
StartAs(p) == \E n \in Names, new \in Aliases : StartNamed(p, "as", n, new)

StopMonitor(p) ==
    /\ pc[p] = "idle"
    /\ Goto(p, "leaveFind")
    /\ op' = [op EXCEPT ![p] = "stop"]
    /\ \E n \in Names : Engage(p, NoRadio, n, n, FALSE)
    /\ UNCHANGED <<world, held, todo, found>>

StopAll(p) ==
    /\ pc[p] = "idle"
    /\ \E seen \in {Listed, {}} :
          LET monitors == Busy(seen)
          IN /\ Snapshot(seen)
             /\ IF monitors = {}
                THEN UNCHANGED <<pc, call>>
                ELSE /\ Goto(p, "sweep")
                     /\ op' = [op EXCEPT ![p] = "all"]
                     /\ todo' = [todo EXCEPT ![p] = monitors]
                     /\ UNCHANGED <<radio, orig, cur, held>>
    /\ WorldButSpent /\ UNCHANGED observers

(* restore() disarms the guard before its first await; Drop runs the same  *)
(* restore to completion on a thread of its own.                           *)
Restore(p) ==
    /\ pc[p] = "open"
    /\ Goto(p, "restore")
    /\ op' \in {[op EXCEPT ![p] = "restore"], [op EXCEPT ![p] = "drop"]}
    /\ UNCHANGED <<world, radio, orig, cur, held, todo, observers>>

Persist(p) ==
    /\ pc[p] = "open"
    /\ Return(p)
    /\ UNCHANGED world

---------------------------------------------------------------------------
(* enter: release the stack, switch, confirm.                              *)

(* The snapshot no longer tells the radio's name, or that it is there and    *)
(* free: someone came and went since.  An observation, no step checks it.  *)
Stale(c) == mode[c[1]] \in {"monitor", "gone"} \/ label[c[1]] # c[2]

TryNext(p) ==
    /\ pc[p] = "next"
    /\ \E c \in todo[p] :
          /\ \A d \in todo[p] : Rank[c[1]] <= Rank[d[1]]
          /\ todo' = [todo EXCEPT ![p] = Remaining(p, c)]
          /\ found' = [found EXCEPT ![p] = AsFound(c[1])]
          /\ Engage(p, c[1], c[2], c[2], Stale(c))
    /\ held' = [held EXCEPT ![p] = {}]
    /\ Goto(p, "release")
    /\ UNCHANGED <<world, op>>

(* A slip: the record is of the interface. *)
HoldInterface(p, service) == held' = [held EXCEPT ![p] = held[p] \cup {orig[p]}]

Hold(p, service) == held' = [held EXCEPT ![p] = held[p] \cup {service}]

(* A slip: NetworkManager has let go, so nobody holds the radio. *)
NmReleaseOnly(p) ==
    /\ pc[p] = "release"
    /\ \E ok \in BOOLEAN :
          /\ NmSet(orig[p], FALSE, ok)
          /\ Goto(p, IF ok THEN "switch" ELSE "rejected")
    /\ Hold(p, "nm")
    /\ UNCHANGED <<mode, label, wpa, running,
                   op, radio, orig, cur, todo, observers>>

NmRelease(p) ==
    /\ pc[p] = "release"
    /\ \/ /\ Probe("nm", FALSE)
          /\ Goto(p, "wpaFind")
          /\ UNCHANGED <<nm, held>>
       \/ /\ "nm" \in running
          /\ NmSet(orig[p], FALSE, TRUE)
          /\ Hold(p, "nm")
          /\ Goto(p, "wpaFind")
       \/ /\ "nm" \in running
          /\ NmSet(orig[p], FALSE, FALSE)
          /\ Goto(p, "rejected")
          /\ UNCHANGED held
    /\ UNCHANGED <<mode, label, wpa, running,
                   op, radio, orig, cur, todo, observers>>

WpaFind(p) ==
    /\ pc[p] = "wpaFind"
    /\ \/ /\ Probe("wpa", FALSE)
          /\ Goto(p, "switch")
          /\ UNCHANGED held
       \/ /\ "wpa" \in running
          /\ WpaKnows(orig[p], TRUE)
          /\ Goto(p, "wpaDrop")
          /\ UNCHANGED held
       \/ /\ "wpa" \in running
          /\ WpaKnows(orig[p], FALSE)
          /\ Goto(p, "switch")
          /\ Hold(p, "wpa")
       \/ /\ "wpa" \in running
          /\ Fault("bus")
          /\ Goto(p, "rejected")
          /\ UNCHANGED held
    /\ WorldButSpent
    /\ UNCHANGED <<op, radio, orig, cur, todo, observers>>

WpaDrop(p) ==
    /\ pc[p] = "wpaDrop"
    /\ \/ /\ WpaSet(orig[p], "out", TRUE)
          /\ Goto(p, "switch")
          /\ Hold(p, "wpa")
       \/ /\ WpaSet(orig[p], "out", FALSE)
          /\ Goto(p, "rejected")
          /\ UNCHANGED held
    /\ UNCHANGED <<mode, label, nm, running,
                   op, radio, orig, cur, todo, observers>>

SwitchOn(p) ==
    /\ pc[p] = "switch"
    /\ \/ SetMode(radio[p], "monitor", TRUE) /\ Goto(p, "confirm")
       \/ SetMode(radio[p], "monitor", FALSE) /\ Goto(p, "giveNm")
    /\ UNCHANGED <<label, nm, wpa, running, call, observers>>

Confirm(p) ==
    /\ pc[p] = "confirm"
    /\ \E read \in Modes :
          /\ ReadMode(radio[p], read)
          /\ Goto(p, IF read # "monitor" THEN "undoMode"
                     ELSE IF op[p] = "as" THEN "rename" ELSE "tune")
    /\ WorldButSpent /\ UNCHANGED <<call, observers>>

(* A slip: a rename that reports an error did not happen. *)
RenameOnTrusting(p) ==
    /\ pc[p] = "rename"
    /\ \E ok \in BOOLEAN :
          /\ Rename(radio[p], cur[p], ok)
          /\ Goto(p, IF ok THEN "refind" ELSE "undoMode")
    /\ UNCHANGED <<mode, nm, wpa, running, call, observers>>

RenameOn(p) ==
    /\ pc[p] = "rename"
    /\ \/ Rename(radio[p], cur[p], TRUE) /\ Goto(p, "refind")
       \/ Rename(radio[p], cur[p], FALSE) /\ Goto(p, "undoName")
    /\ UNCHANGED <<mode, nm, wpa, running, call, observers>>

Refind(p) ==
    /\ pc[p] = "refind"
    /\ \E seen \in {Named(cur[p]), {}} :
          /\ Find(cur[p], seen)
          /\ \/ /\ seen = {}
                /\ Goto(p, "undoName")
                /\ UNCHANGED <<radio, orig, cur, spoiled>>
             \/ \E r \in seen : Resolve(p, r) /\ Goto(p, "tune")
    /\ WorldButSpent /\ UNCHANGED <<op, held, todo, found>>

(* A slip: the error goes to the caller, and the guard is forgotten. *)
TuneOrForget(p) ==
    /\ pc[p] = "tune"
    /\ \/ /\ Goto(p, "open")
          /\ held' = [held EXCEPT ![p] = {}]
          /\ todo' = [todo EXCEPT ![p] = {}]
          /\ found' = [found EXCEPT ![p] = NotFound]
          /\ UNCHANGED <<op, radio, orig, cur, spoiled>>
       \/ Return(p)
    /\ UNCHANGED world

(* start_with has its guard; enter's Holders and start_auto's candidates    *)
(* are dropped.  No channel was asked for, or it is set; or setting it      *)
(* fails, and the guard is restored.                                       *)
Tune(p) ==
    /\ pc[p] = "tune"
    /\ \/ Goto(p, "open") /\ UNCHANGED op
       \/ Goto(p, "restore") /\ op' = [op EXCEPT ![p] = "restore"]
    /\ held' = [held EXCEPT ![p] = {}]
    /\ todo' = [todo EXCEPT ![p] = {}]
    /\ found' = [found EXCEPT ![p] = NotFound]
    /\ UNCHANGED <<world, radio, orig, cur, spoiled>>

---------------------------------------------------------------------------
(* The rollbacks of enter and start_as, whose own failures are ignored.    *)

(* A slip: the services get the radio back before its mode is undone. *)
UndoNameOnly(p) ==
    /\ pc[p] = "undoName"
    /\ \E ok \in BOOLEAN : Rename(radio[p], orig[p], ok)
    /\ Goto(p, "giveNm")
    /\ UNCHANGED <<mode, nm, wpa, running, call, observers>>

UndoName(p) ==
    /\ pc[p] = "undoName"
    /\ \E ok \in BOOLEAN : Rename(radio[p], orig[p], ok)
    /\ Goto(p, "undoMode")
    /\ UNCHANGED <<mode, nm, wpa, running, call, observers>>

UndoMode(p) ==
    /\ pc[p] = "undoMode"
    /\ \E ok \in BOOLEAN : SetMode(radio[p], "managed", ok)
    /\ Goto(p, "giveNm")
    /\ UNCHANGED <<label, nm, wpa, running, call, observers>>

(* reclaim_stack, for a rollback and for leave.                            *)
Reclaimed(p) == IF op[p] \in Starts THEN "rejected" ELSE "left"

(* A slip: the name of the session. *)
SessionName(p) == cur[p]

(* The name reclaim_stack is given: the services know the radio by it. *)
HandbackName(p) == orig[p]

GiveNm(p) ==
    /\ pc[p] = "giveNm"
    /\ \/ /\ "nm" \notin held[p]
          /\ Goto(p, "giveWpa")
          /\ UNCHANGED <<nm, spent>>
       \/ /\ "nm" \in held[p]
          /\ \/ NmSet(HandbackName(p), TRUE, TRUE) /\ Goto(p, "giveWpa")
             \/ NmSet(HandbackName(p), TRUE, FALSE) /\ Goto(p, Reclaimed(p))
    /\ UNCHANGED <<mode, label, wpa, running, call, observers>>

GiveWpa(p) ==
    /\ pc[p] = "giveWpa"
    /\ \/ /\ "wpa" \notin held[p]
          /\ Goto(p, Reclaimed(p))
          /\ Smooth
       \/ /\ "wpa" \in held[p]
          /\ \/ WpaKnows(HandbackName(p), TRUE) /\ Goto(p, Reclaimed(p))
             \/ WpaKnows(HandbackName(p), FALSE) /\ Goto(p, "giveWpaAdd")
             \/ Fault("bus") /\ Goto(p, Reclaimed(p))
    /\ WorldButSpent /\ UNCHANGED <<call, observers>>

GiveWpaAdd(p) ==
    /\ pc[p] = "giveWpaAdd"
    /\ \E ok \in BOOLEAN : WpaSet(HandbackName(p), "own", ok)
    /\ Goto(p, Reclaimed(p))
    /\ UNCHANGED <<mode, label, nm, running, call, observers>>

(* A start that got nothing: on to the next candidate, or return the error. *)
Rejected(p) ==
    /\ pc[p] = "rejected"
    /\ IF todo[p] # {}
       THEN Goto(p, "next") /\ UNCHANGED <<call, observers>>
       ELSE Return(p)
    /\ UNCHANGED world

---------------------------------------------------------------------------
(* restore_named and leave.                                                *)

RestoreFind(p) ==
    /\ pc[p] = "restore"
    /\ \/ /\ cur[p] = orig[p]
          /\ Goto(p, "leaveFind")
          /\ Smooth
          /\ UNCHANGED <<radio, orig, cur, spoiled>>
       \/ /\ cur[p] # orig[p]
          /\ \E seen \in {Named(cur[p]), {}} :
                /\ Find(cur[p], seen)
                /\ \/ /\ seen = {}
                      /\ Goto(p, "failed")
                      /\ UNCHANGED <<radio, orig, cur, spoiled>>
                   \/ \E r \in seen : Resolve(p, r) /\ Goto(p, "renameBack")
    /\ WorldButSpent /\ UNCHANGED <<op, held, todo, found>>

RenameBack(p) ==
    /\ pc[p] = "renameBack"
    /\ \/ Rename(radio[p], orig[p], TRUE) /\ Goto(p, "leaveFind")
       \/ Rename(radio[p], orig[p], FALSE) /\ Goto(p, "failed")
    /\ UNCHANGED <<mode, nm, wpa, running, call, observers>>

(* Only a radio in monitor mode has a switch to make. *)
LeaveFrom(r) == IF mode[r] = "monitor" THEN "unswitch" ELSE "handback"

LeaveFind(p) ==
    /\ pc[p] = "leaveFind"
    /\ \E seen \in {Named(orig[p]), {}} :
          /\ Find(orig[p], seen)
          /\ \/ /\ seen = {}
                /\ Goto(p, "failed")
                /\ UNCHANGED <<radio, orig, cur, spoiled>>
             \/ \E r \in seen :
                   /\ Resolve(p, r)
                   /\ Goto(p, LeaveFrom(r))
    /\ WorldButSpent /\ UNCHANGED <<op, held, todo, found>>

SwitchOff(p) ==
    /\ pc[p] = "unswitch"
    /\ \/ SetMode(radio[p], "managed", TRUE) /\ Goto(p, "unconfirm")
       \/ SetMode(radio[p], "managed", FALSE) /\ Goto(p, "failed")
    /\ UNCHANGED <<label, nm, wpa, running, call, observers>>

ConfirmOff(p) ==
    /\ pc[p] = "unconfirm"
    /\ \E read \in Modes :
          /\ ReadMode(radio[p], read)
          /\ Goto(p, IF read = "managed" THEN "handback" ELSE "failed")
    /\ WorldButSpent /\ UNCHANGED <<call, observers>>

(* A slip: NetworkManager, and wpa_supplicant only where there is none. *)
HandbackToOne(p) ==
    /\ pc[p] = "handback"
    /\ held' = [held EXCEPT ![p] = IF "nm" \in running THEN {"nm"} ELSE running]
    /\ Goto(p, "giveNm")
    /\ UNCHANGED <<world, op, radio, orig, cur, todo, observers>>

(* Holders::present: every service running, bar the probes that fail.      *)
Handback(p) ==
    /\ pc[p] = "handback"
    /\ \/ held' = [held EXCEPT ![p] = running] /\ Smooth
       \/ \E answering \in SUBSET running \ {running} :
             held' = [held EXCEPT ![p] = answering] /\ Fault("probe")
    /\ Goto(p, "giveNm")
    /\ WorldButSpent
    /\ UNCHANGED <<op, radio, orig, cur, todo, observers>>

(* leave returned.  stop_all goes on to the next radio either way.         *)
Finish(p) ==
    /\ pc[p] \in {"left", "failed", "sweep"}
    /\ \/ todo[p] = {} /\ Return(p)
       \/ \E c \in todo[p] :
             /\ todo' = [todo EXCEPT ![p] = Remaining(p, c)]
             /\ Engage(p, NoRadio, c[2], c[2], FALSE)
             /\ Goto(p, "leaveFind")
             /\ UNCHANGED <<op, held, found>>
    /\ UNCHANGED world

---------------------------------------------------------------------------
(* The caller drops the future of a call.  Nothing is undone, unless the   *)
(* call already owned a guard, whose Drop then runs.  Drop itself blocks.  *)
Cancel(p) ==
    /\ pc[p] \notin {"idle", "open"} /\ op[p] # "drop"
    /\ Fault("cancel")
    /\ IF pc[p] = "tune"
       THEN /\ Goto(p, "restore")
            /\ op' = [op EXCEPT ![p] = "drop"]
            /\ UNCHANGED <<radio, orig, cur, held, todo, observers>>
       ELSE Return(p)
    /\ WorldButSpent

(* The process dies, guard and all.                                        *)
Kill(p) ==
    /\ pc[p] # "idle"
    /\ Fault("kill")
    /\ Return(p)
    /\ WorldButSpent

Client(p) ==
    \/ "auto" \in Calls /\ StartAuto(p)
    \/ "on" \in Calls /\ StartOn(p)
    \/ "as" \in Calls /\ StartAs(p)
    \/ "stop" \in Calls /\ StopMonitor(p)
    \/ "all" \in Calls /\ StopAll(p)
    \/ Restore(p) \/ Persist(p)

Step(p) ==
    \/ TryNext(p) \/ NmRelease(p) \/ WpaFind(p) \/ WpaDrop(p)
    \/ SwitchOn(p) \/ Confirm(p) \/ RenameOn(p) \/ Refind(p) \/ Tune(p)
    \/ UndoName(p) \/ UndoMode(p)
    \/ GiveNm(p) \/ GiveWpa(p) \/ GiveWpaAdd(p) \/ Rejected(p)
    \/ RestoreFind(p) \/ RenameBack(p) \/ LeaveFind(p)
    \/ SwitchOff(p) \/ ConfirmOff(p) \/ Handback(p) \/ Finish(p)

Next ==
    \/ \E p \in Procs : Client(p) \/ Step(p) \/ Cancel(p) \/ Kill(p)
    \/ Environment /\ UNCHANGED <<pc, call, observers>>

Spec == Init /\ [][Next]_vars

(* Every primitive ends by its deadline, so a call under way goes on.      *)
FairSpec == Spec /\ \A p \in Procs : WF_vars(Step(p))
=============================================================================
