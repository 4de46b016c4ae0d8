--------------------------- MODULE SessionClaims ---------------------------
(***************************************************************************)
(* What the documentation says of the calls of MonitorSession and the code *)
(* does not keep: each property has a run in which TLC finds the behaviour *)
(* that breaks it.                                                         *)
(***************************************************************************)
EXTENDS SessionProperties

Refused(p) == pc[p] = "rejected" /\ ~spoiled[p] /\ mode[radio[p]] # "gone"

(* linux/mod.rs: "On any failure after release, hand control back before   *)
(* returning the error so we never strand the interface".  A start that    *)
(* fails leaves no radio unmanaged that NetworkManager had.                *)
NeverStranded == \A p \in Procs : Refused(p) /\ found[p].nm => nm[radio[p]]

(* linux/mod.rs: "enter rolls back on failure, so a rejected candidate is  *)
(* left exactly as it was found".                                          *)
ModeAsFound == \A p \in Procs : Refused(p) => mode[radio[p]] = found[p].mode

(* linux/mod.rs: "Reclaim is a mirror of release, not a broadcast: handing  *)
(* an interface to a service that never had it is a state change nobody    *)
(* asked for".                                                             *)
CustodyMirrored == \A p \in Procs : Refused(p) => SameCustody(radio[p], found[p])

(* README: "rfmon will also refuse to bring up any interface already in     *)
(* monitor mode, rather than hijack a capture another tool is running".    *)
OneSessionPerRadio ==
    \A p, q \in Procs :
        pc[p] = "open" /\ pc[q] = "open" /\ radio[p] = radio[q] => p = q
=============================================================================
