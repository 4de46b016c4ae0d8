---------------------------- MODULE RadioWorld ----------------------------
(***************************************************************************)
(* What rfmon acts on: the radios as the kernel knows them, and the two    *)
(* services that may hold them, with one action per primitive operation   *)
(* of the LinuxOps trait (src/linux/mod.rs).  A primitive is atomic here   *)
(* and has the outcomes its body can produce: LinkOps takes set_mode and   *)
(* rename apart and shows that these outcomes are all there are.           *)
(*                                                                         *)
(* An operation that fails spends one unit of the budget MaxFaults, and    *)
(* only the kinds of failure in FaultKinds happen.                         *)
(***************************************************************************)
EXTENDS Naturals, FiniteSets

CONSTANTS
    Radios,      \* ifindexes of the wireless interfaces
    Names,       \* interface names
    NoName,      \* no name
    Home,        \* the name each radio boots with
    BootModes,   \* modes a radio may be found in
    BootServices,\* the sets of services a host may run
    BootCustody, \* who may hold a radio at boot: see Custody
    FaultKinds,  \* the failures that may happen
    MaxFaults    \* how many of them

(* The ways a primitive can go wrong.                                      *)
(*   refuse    the kernel rejects the change; nothing happened             *)
(*   tornMode, tornName                                                    *)
(*             the change of mode or name happened and the call failed all *)
(*             the same: the link would not come back up, or the deadline  *)
(*             passed                                                      *)
(*   lie       the driver accepts a mode and does not honour it            *)
(*   read      a mode readback fails                                       *)
(*   detect    an enumeration fails                                        *)
(*   bus       a release or reclaim call fails, with or without effect     *)
(*   probe     a presence probe or GetInterface fails and reads "absent"   *)
(*   unplug    the adapter is pulled                                       *)
(*   cancel    the caller drops the future                                 *)
(*   kill      the process dies                                            *)
AllFaultKinds == {"refuse", "tornMode", "tornName", "lie", "read", "detect",
                  "bus", "probe", "unplug", "cancel", "kill"}

Services == {"nm", "wpa"}
Modes == {"managed", "monitor", "ap", "gone"}   \* gone: no such device

(* Who added the radio to wpa_supplicant: nobody, a caller of its own bus   *)
(* interface (its configuration, rfmon), or NetworkManager.                *)
WpaStates == {"out", "own", "nm"}
Custody == [nm : BOOLEAN, wpa : WpaStates]

ASSUME WorldAssumption ==
    /\ NoName \notin Names
    /\ Home \in [Radios -> Names]
    /\ \A r, s \in Radios : Home[r] = Home[s] => r = s
    /\ BootModes \subseteq Modes \ {"gone"}
    /\ BootServices \subseteq SUBSET Services
    /\ BootCustody \subseteq Custody
    /\ FaultKinds \subseteq AllFaultKinds
    /\ MaxFaults \in Nat

VARIABLES
    mode,     \* mode[r]: the mode the driver really is in
    label,    \* label[r]: the interface name
    nm,       \* nm[r]: NetworkManager runs and the device is Managed
    wpa,      \* wpa[r]: who added the radio to wpa_supplicant
    running,  \* the services that run on this host
    spent     \* failures so far

custody == <<nm, wpa>>
world == <<mode, label, nm, wpa, running, spent>>

WorldTypeOK ==
    /\ mode \in [Radios -> Modes]
    /\ label \in [Radios -> Names]
    /\ nm \in [Radios -> BOOLEAN]
    /\ wpa \in [Radios -> WpaStates]
    /\ running \subseteq Services
    /\ spent \in 0..MaxFaults

(* A radio is held by running services only, never after it was pulled,     *)
(* and two radios never share a name.                                      *)
WorldOK ==
    /\ \A r \in Radios : nm[r] => "nm" \in running /\ mode[r] # "gone"
    /\ \A r \in Radios : wpa[r] # "out" => "wpa" \in running /\ mode[r] # "gone"
    /\ \A r, s \in Radios :
          mode[r] # "gone" /\ mode[s] # "gone" /\ label[r] = label[s] => r = s

Held(r) == nm[r] \/ wpa[r] # "out"

(* Radios found in monitor mode belong to another tool's capture, which    *)
(* took them from the services (as airmon-ng check kill does).             *)
WorldInit ==
    /\ running \in BootServices
    /\ mode \in [Radios -> BootModes]
    /\ label = Home
    /\ \E c \in [Radios -> BootCustody] :
          /\ nm = [r \in Radios |-> /\ c[r].nm
                                    /\ "nm" \in running
                                    /\ mode[r] # "monitor"]
          /\ wpa = [r \in Radios |->
                      IF "wpa" \in running /\ mode[r] # "monitor"
                      THEN IF c[r].wpa = "nm" /\ ~nm[r] THEN "out" ELSE c[r].wpa
                      ELSE "out"]
    /\ spent = 0

---------------------------------------------------------------------------
Smooth == UNCHANGED spent

Fault(kind) ==
    /\ kind \in FaultKinds
    /\ spent < MaxFaults
    /\ spent' = spent + 1

Present == {r \in Radios : mode[r] # "gone"}
Named(n) == {r \in Present : label[r] = n}

(* find: the radio a name resolves to, or none.  An enumeration that fails *)
(* and a name that is not listed both end the caller with an error.        *)
Find(n, found) ==
    \/ found = Named(n) /\ Smooth
    \/ found = {} /\ Fault("detect")

(* interface::set_mode, addressed by ifindex.                              *)
SetMode(r, m, ok) ==
    \/ /\ mode[r] # "gone" /\ ok
       /\ mode' = [mode EXCEPT ![r] = m]
       /\ Smooth
    \/ /\ mode[r] # "gone" /\ ok
       /\ Fault("lie")
       /\ UNCHANGED mode
    \/ /\ mode[r] # "gone" /\ ~ok
       /\ Fault("tornMode")
       /\ mode' = [mode EXCEPT ![r] = m]
    \/ /\ mode[r] # "gone" /\ ~ok
       /\ Fault("refuse")
       /\ UNCHANGED mode
    \/ /\ mode[r] = "gone" /\ ~ok
       /\ UNCHANGED mode /\ Smooth

(* interface::read_mode: "gone" stands for every error.                    *)
ReadMode(r, read) ==
    \/ read = mode[r] /\ Smooth
    \/ read = "gone" /\ Fault("read")

(* interface::rename, addressed by ifindex; the kernel refuses a name that  *)
(* is in use, and accepts the name the device already has.                 *)
Rename(r, new, ok) ==
    \/ /\ r \in Present /\ Named(new) \subseteq {r}
       /\ label' = [label EXCEPT ![r] = new]
       /\ \/ ok /\ Smooth
          \/ ~ok /\ Fault("tornName")
    \/ /\ ~ok
       /\ UNCHANGED label
       /\ IF r \in Present /\ Named(new) \subseteq {r} THEN Fault("refuse") ELSE Smooth

(* netman::release and reclaim: set Managed on the device of that name. A   *)
(* name NetworkManager does not know is a success that changes nothing.    *)
NmSet(n, managed, ok) ==
    LET after == [r \in Radios |-> IF r \in Named(n) THEN managed ELSE nm[r]]
    IN \/ ok /\ Smooth /\ nm' = after
       \/ ~ok /\ Fault("bus") /\ nm' \in {nm, after}

(* wpa_supplicant's GetInterface; an error reads as not managed.           *)
WpaKnows(n, known) ==
    \/ known = (\E r \in Named(n) : wpa[r] # "out") /\ Smooth
    \/ ~known /\ Fault("probe")

(* wpa_supplicant's RemoveInterface and CreateInterface.  The first fails   *)
(* when the interface is gone by now, the second when it is already there   *)
(* or no such device exists.                                               *)
WpaSet(n, to, ok) ==
    LET apt == {r \in Named(n) : (wpa[r] = "out") # (to = "out")}
        after == [r \in Radios |-> IF r \in apt THEN to ELSE wpa[r]]
    IN \/ ok /\ apt # {} /\ Smooth /\ wpa' = after
       \/ ~ok /\ apt = {} /\ Smooth /\ UNCHANGED wpa
       \/ ~ok /\ Fault("bus") /\ wpa' \in {wpa, after}

(* is_present of both services, as Holders::present reads them.            *)
Probe(service, present) ==
    \/ present = (service \in running) /\ Smooth
    \/ service \in running /\ ~present /\ Fault("probe")

---------------------------------------------------------------------------
(* The services act on their own: one that still holds a radio pulls it    *)
(* back out of monitor mode, and NetworkManager adds the devices it manages *)
(* to wpa_supplicant and removes those it no longer manages.               *)
PullBack(r) ==
    /\ mode[r] = "monitor" /\ Held(r)
    /\ mode' = [mode EXCEPT ![r] = "managed"]
    /\ UNCHANGED <<label, nm, wpa, running, spent>>

NmAdopt(r) ==
    /\ nm[r] /\ wpa[r] = "out" /\ "wpa" \in running
    /\ wpa' = [wpa EXCEPT ![r] = "nm"]
    /\ UNCHANGED <<mode, label, nm, running, spent>>

NmDrop(r) ==
    /\ ~nm[r] /\ wpa[r] = "nm"
    /\ wpa' = [wpa EXCEPT ![r] = "out"]
    /\ UNCHANGED <<mode, label, nm, running, spent>>

Unplug(r) ==
    /\ mode[r] # "gone"
    /\ Fault("unplug")
    /\ mode' = [mode EXCEPT ![r] = "gone"]
    /\ nm' = [nm EXCEPT ![r] = FALSE]
    /\ wpa' = [wpa EXCEPT ![r] = "out"]
    /\ UNCHANGED <<label, running>>

Environment ==
    \E r \in Radios : PullBack(r) \/ NmAdopt(r) \/ NmDrop(r) \/ Unplug(r)
=============================================================================
