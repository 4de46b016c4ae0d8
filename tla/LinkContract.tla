--------------------------- MODULE LinkContract ---------------------------
(***************************************************************************)
(* What set_mode and rename promise their callers (src/linux/interface.rs): *)
(* one change of one attribute, that happens or does not.  Success means    *)
(* the kernel accepted it, which for a mode is not yet that the driver      *)
(* honours it; failure does not mean that nothing changed.  RadioWorld's    *)
(* SetMode and Rename have exactly these outcomes.                         *)
(***************************************************************************)
CONSTANTS
    LinkModes,   \* interface types
    LinkNames    \* interface names

VARIABLES
    mode, name,  \* of the interface
    job,         \* "none", "mode" or "rename": the operation under way
    wanted,      \* the value it is to set
    result       \* of the last operation: "none", "ok" or "err"

vars == <<mode, name, job, wanted, result>>

Init ==
    /\ mode \in LinkModes /\ name \in LinkNames
    /\ job = "none" /\ wanted = mode /\ result = "none"

Call ==
    /\ job = "none"
    /\ \/ job' = "mode" /\ wanted' \in LinkModes
       \/ job' = "rename" /\ wanted' \in LinkNames
    /\ result' = "none"
    /\ UNCHANGED <<mode, name>>

ReturnMode ==
    /\ job = "mode"
    /\ mode' \in {mode, wanted}
    /\ result' \in {"ok", "err"}
    /\ job' = "none"
    /\ UNCHANGED <<name, wanted>>

(* A rename, unlike a mode, is not taken back: what succeeded happened.    *)
ReturnRename ==
    /\ job = "rename"
    /\ \/ name' = wanted /\ result' = "ok"
       \/ name' \in {name, wanted} /\ result' = "err"
    /\ job' = "none"
    /\ UNCHANGED <<mode, wanted>>

Next == Call \/ ReturnMode \/ ReturnRename

Spec == Init /\ [][Next]_vars
=============================================================================
