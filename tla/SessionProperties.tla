------------------------- MODULE SessionProperties -------------------------
(***************************************************************************)
(* What the calls of MonitorSession promise.  A promise to one call is     *)
(* conditioned on ~spoiled: no other call overlapped it on its radio or on *)
(* one of its names.  The runs that drop the condition show why.           *)
(***************************************************************************)
EXTENDS MonitorSession

(* A session nobody interferes with stays one: from the guard's creation   *)
(* to its end the radio is in monitor mode under the session's name, and   *)
(* no service is left that could pull it back.                             *)
SessionIntact ==
    \A p \in Procs : pc[p] \in InSession /\ ~spoiled[p] =>
        LET r == radio[p]
        IN /\ mode[r] \in {"monitor", "gone"}
           /\ ~Held(r)
           /\ mode[r] # "gone" => label[r] = cur[p]

(* Why it does: what every point on the way into a session already knows.   *)
Alone(p) == pc[p] # "idle" /\ ~spoiled[p]

(* A call alone on its radio and its names shares them with nobody.        *)
Apart ==
    \A p, q \in Procs : p # q /\ Alone(p) /\ pc[q] # "idle" =>
        /\ radio[p] # NoRadio => radio[q] # radio[p]
        /\ {orig[p], cur[p]} \cap {orig[q], cur[q]} \subseteq {NoName}

Rested ==
    \A p \in Procs : pc[p] = "idle" =>
        radio[p] = NoRadio /\ orig[p] = NoName /\ cur[p] = NoName

HeldRuns ==
    \A p \in Procs : /\ held[p] \subseteq running
                     /\ pc[p] = "giveWpaAdd" => "wpa" \in held[p]

Switched == {"rename", "refind"} \cup InSession
WpaLetGo == {"switch", "confirm"} \cup Switched
NmLetGo == {"wpaFind", "wpaDrop"} \cup WpaLetGo
UnderOrig == {"release", "wpaFind", "wpaDrop", "switch", "confirm", "rename"}
UnderCur == {"refind"} \cup InSession

Stage(p) ==
    LET r == radio[p]
    IN /\ pc[p] \in NmLetGo => ~nm[r]
       /\ pc[p] \in WpaLetGo => wpa[r] = "out"
       /\ pc[p] \in Switched => mode[r] \in {"monitor", "gone"}
       /\ pc[p] \in UnderOrig => label[r] = orig[p]
       /\ pc[p] \in UnderOrig \ {"rename"} /\ op[p] # "as" => cur[p] = orig[p]
       /\ pc[p] \in UnderCur => label[r] = cur[p]
       /\ pc[p] = "refind" => Named(cur[p]) \subseteq {r}

Staged == \A p \in Procs : Alone(p) => Stage(p)

SessionInv == TypeOK /\ WorldOK /\ HeldRuns /\ Rested /\ Apart /\ Staged

(* A start that fails leaves the radio as it found it: mode, name, and the *)
(* services that held it.  The radio is one that every service of the host *)
(* held, wpa_supplicant on its own account: rfmon records whom it asked to *)
(* let go, and not who did (SessionClaims!CustodyMirrored), and the removal by *)
(* NetworkManager races its own (SessionClaims!NeverStranded).             *)
HeldByAll(f) == /\ f.nm = ("nm" \in running)
                /\ f.wpa = IF "wpa" \in running THEN "own" ELSE "out"

SameCustody(r, f) ==
    nm[r] = f.nm /\ (wpa[r] = "out") = (f.wpa = "out")

Untouched(r, f) ==
    mode[r] # "gone" =>
        mode[r] = f.mode /\ label[r] = f.label /\ SameCustody(r, f)

RejectedAsFound ==
    \A p \in Procs : pc[p] = "rejected" /\ ~spoiled[p] /\ HeldByAll(found[p]) =>
        Untouched(radio[p], found[p])

(* A stop or restore that succeeds leaves the radio out of monitor mode,   *)
(* under its own name, and with every service of the host.                 *)
RestoreComplete ==
    \A p \in Procs : pc[p] = "left" /\ ~spoiled[p] =>
        LET r == radio[p]
        IN /\ mode[r] # "monitor"
           /\ mode[r] # "gone" => /\ label[r] = orig[p]
                                  /\ "nm" \in running => nm[r]
                                  /\ "wpa" \in running => wpa[r] # "out"

(* No call hands a service a radio that is in monitor mode.                *)
HandedTo(r) == \/ ~nm[r] /\ nm'[r]
               \/ wpa[r] = "out" /\ wpa'[r] = "own"
NoFightingHandback ==
    [][\A p \in Procs : pc'[p] # pc[p] /\ ~spoiled[p] =>
          \A r \in Radios : HandedTo(r) => mode[r] # "monitor"]_vars

(* Why they do, where the services answer (Careful) and the rollback of a  *)
(* start can undo what it did (SafeUndo): no mode change is torn, and either *)
(* set_mode never fails, or one operation does and the new name is free.   *)
Careful == {"bus", "probe"} \cap FaultKinds = {}
SafeUndo ==
    /\ "tornMode" \notin FaultKinds /\ "ap" \notin BootModes
    /\ \/ {"refuse", "lie"} \cap FaultKinds = {}
       \/ MaxFaults <= 1 /\ ("as" \in Calls => \A r, s \in Radios : r = s)

(* The start or the stop that each point belongs to.                       *)
Trying == Entering \cup RollingBack \cup {"next", "rejected"}
StopPoints == Leaving \cup {"sweep", "left", "failed"}
Kind(p) == /\ pc[p] \in Trying \cup {"tune"} => op[p] \in Starts
           /\ pc[p] \in StopPoints => op[p] \notin Starts
           /\ pc[p] = "rename" => op[p] = "as"
           /\ op[p] = "as" => "as" \in Calls
Kinds == \A p \in Procs : Kind(p)

(* Nobody's doing: what the services and set_mode never bring about.       *)
Ordinary == /\ \A r \in Radios : wpa[r] = "nm" => "nm" \in running
            /\ SafeUndo => \A r \in Radios : mode[r] # "ap"

(* Every service of the host is asked to let go, and then asked back.      *)
Released == {"switch", "confirm", "rename", "refind"} \cup RollingBack \cup HandingBack
Recorded(p) ==
    /\ pc[p] \in {"wpaFind", "wpaDrop"} => running \ {"wpa"} \subseteq held[p]
    /\ pc[p] = "wpaDrop" => "wpa" \in running
    /\ pc[p] \in Released => held[p] = running

(* Out of monitor mode and under its name before the services hear of it,  *)
(* and then with one after the other.                                      *)
Returning == HandingBack \cup {"left"}
GivenBack(p) ==
    LET r == radio[p]
    IN r \in Present =>
       /\ pc[p] \in {"unswitch", "unconfirm", "handback"} => label[r] = orig[p]
       /\ pc[p] = "handback" => mode[r] # "monitor"
       /\ pc[p] \in Returning /\ (op[p] \notin Starts \/ SafeUndo) =>
             /\ label[r] = orig[p] /\ mode[r] # "monitor"
             /\ pc[p] # "giveNm" => ("nm" \in running => nm[r])
       /\ pc[p] = "left" => ("wpa" \in running => wpa[r] # "out")

(* A start that has something to undo has met its failure already.         *)
Spare == MaxFaults <= spent \/ {"refuse", "lie"} \cap FaultKinds = {}
Undoing(p) ==
    LET r == radio[p]
        f == found[p]
        starting == pc[p] \in (Trying \cup HandingBack) \ {"next"} /\ op[p] \in Starts
    IN starting =>
       /\ f.mode = "managed" /\ f.label = orig[p]
       /\ r \in Present =>
          /\ pc[p] \in {"release", "wpaFind", "wpaDrop", "switch"} => mode[r] = "managed"
          /\ pc[p] = "confirm" => mode[r] = "monitor" \/ Spare
          /\ pc[p] \in RollingBack => Spare /\ label[r] \in {orig[p], cur[p]}
          /\ pc[p] = "undoMode" => label[r] = orig[p]
          /\ pc[p] \in {"rejected"} \cup HandingBack =>
                label[r] = orig[p] /\ mode[r] = "managed"

(* A radio that every service held is released by each of them, and given   *)
(* back to each.                                                           *)
HeldStill(p) ==
    LET r == radio[p]
    IN r \in Present /\ HeldByAll(found[p]) =>
       /\ pc[p] = "release" => ("nm" \in running => nm[r])
       /\ pc[p] \in {"release", "wpaFind", "wpaDrop"} => ("wpa" \in running => wpa[r] = "own")
       /\ pc[p] = "rejected" /\ SafeUndo => /\ "nm" \in running => nm[r]
                                            /\ "wpa" \in running => wpa[r] # "out"

Recovering(p) == GivenBack(p) /\ (SafeUndo => Undoing(p)) /\ HeldStill(p)

RecoveryInv ==
    /\ Kinds /\ Ordinary
    /\ \A p \in Procs : Recorded(p) /\ (Alone(p) => Recovering(p))

(* A call works on the radio it resolved and on no other, although it       *)
(* addresses the services by a name it read some awaits ago.               *)
OwnRadioOnly ==
    [][\A p \in Procs : pc[p] # "idle" /\ pc'[p] # pc[p] /\ ~spoiled[p] =>
          \A r \in Radios \ {radio[p]} :
              /\ mode'[r] = mode[r] /\ label'[r] = label[r]
              /\ nm'[r] = nm[r] /\ wpa'[r] = wpa[r]]_vars

(* Why it does: from the resolution to the handback the radio is the only  *)
(* one the services can know under the name they are given.                *)
Addressing == {"release", "wpaFind", "wpaDrop", "switch", "confirm", "rename",
               "refind", "unswitch", "unconfirm", "handback"}
              \cup RollingBack \cup HandingBack
Sole(p) == pc[p] \in Addressing => Named(orig[p]) \subseteq {radio[p]}
OwnInv ==
    /\ TypeOK /\ WorldOK /\ HeldRuns /\ Rested /\ Apart
    /\ \A p \in Procs : Alone(p) => Sole(p)

(* Every call returns. *)
EveryCallReturns ==
    \A p \in Procs : pc[p] \notin {"idle", "open"} ~> pc[p] \in {"idle", "open"}
=============================================================================
