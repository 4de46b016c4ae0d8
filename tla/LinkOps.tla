------------------------------ MODULE LinkOps ------------------------------
(***************************************************************************)
(* set_mode and rename step by step (src/linux/interface.rs): bring the     *)
(* link down, change the interface, bring the link up again, all of it      *)
(* under one deadline (with_timeout, src/linux/mod.rs).  The steps are       *)
(* netlink requests; the deadline drops the future between two of them or   *)
(* while one is in flight, whether or not the kernel has served it.         *)
(***************************************************************************)
EXTENDS Naturals

CONSTANTS
    LinkModes, LinkNames,
    Failures     \* the requests that may fail: "down", "change", "up"; the
                 \* deadline, "late"; a driver that ignores a mode, "lie"

ASSUME LinkAssumption == Failures \subseteq {"down", "change", "up", "late", "lie"}

VARIABLES
    up,          \* the link is administratively up
    mode, name,  \* of the interface
    at,          \* the request under way: "idle", "down", "change", "up", "upAgain"
    job, wanted, \* the operation, as in LinkContract
    changed,     \* rename's rename_result, "ok" or "err", kept until the link is up
    result,
    (* Observers, which no step reads. *)
    before,      \* the link when the operation began
    cut          \* the deadline passed, or the link would not come up

vars == <<up, mode, name, at, job, wanted, changed, result, before, cut>>

Before == [up : BOOLEAN, mode : LinkModes, name : LinkNames]

TypeOK ==
    /\ up \in BOOLEAN
    /\ mode \in LinkModes /\ name \in LinkNames
    /\ at \in {"idle", "down", "change", "up", "upAgain"}
    /\ job \in {"none", "mode", "rename"}
    /\ at = "idle" <=> job = "none"
    /\ at = "upAgain" => job = "mode"
    /\ job = "mode" => wanted \in LinkModes
    /\ job = "rename" => wanted \in LinkNames
    /\ wanted \in LinkModes \cup LinkNames
    /\ changed \in {"ok", "err"}
    /\ result \in {"none", "ok", "err"}
    /\ before \in Before
    /\ cut \in BOOLEAN

Init ==
    /\ up \in BOOLEAN
    /\ mode \in LinkModes /\ name \in LinkNames
    /\ at = "idle" /\ job = "none" /\ wanted = mode
    /\ changed = "ok" /\ result = "none"
    /\ before = [up |-> up, mode |-> mode, name |-> name]
    /\ cut = FALSE

Call(kind, value) ==
    /\ at = "idle"
    /\ at' = "down" /\ job' = kind /\ wanted' = value
    /\ changed' = "ok" /\ result' = "none"
    /\ before' = [up |-> up, mode |-> mode, name |-> name]
    /\ cut' = FALSE
    /\ UNCHANGED <<up, mode, name>>

SetMode == \E m \in LinkModes : Call("mode", m)
Rename == \E n \in LinkNames : Call("rename", n)

Return(res) ==
    /\ at' = "idle" /\ job' = "none" /\ result' = res
    /\ UNCHANGED <<wanted, changed, before>>

BringUp ==
    \/ up' = TRUE /\ UNCHANGED cut
    \/ "up" \in Failures /\ UNCHANGED up /\ cut' = TRUE

(* 1. set_link(index, false) *)
LinkDown ==
    /\ at = "down"
    /\ \/ /\ up' = FALSE
          /\ at' = "change"
          /\ UNCHANGED <<job, wanted, changed, result, before>>
       \/ "down" \in Failures /\ UNCHANGED up /\ Return("err")
    /\ UNCHANGED <<mode, name, cut>>

(* A slip: a failure returns at once. *)
ChangeModeOnly ==
    /\ at = "change" /\ job = "mode"
    /\ \/ /\ mode' = wanted /\ at' = "up"
          /\ UNCHANGED <<job, wanted, changed, result, before>>
       \/ "change" \in Failures /\ UNCHANGED mode /\ Return("err")
    /\ UNCHANGED <<up, name, cut>>

(* 2. set_iftype.  A failure brings the link up and reports the failure.   *)
ChangeMode ==
    /\ at = "change" /\ job = "mode"
    /\ \/ mode' = wanted /\ at' = "up"
       \/ "lie" \in Failures /\ UNCHANGED mode /\ at' = "up"
       \/ "change" \in Failures /\ UNCHANGED mode /\ at' = "upAgain"
    /\ UNCHANGED <<up, name, job, wanted, changed, result, before, cut>>

(* A slip: the outcome is not kept. *)
ChangeNameHopeful ==
    /\ at = "change" /\ job = "rename"
    /\ name' = wanted \/ ("change" \in Failures /\ UNCHANGED name)
    /\ changed' = "ok"
    /\ at' = "up"
    /\ UNCHANGED <<up, mode, job, wanted, result, before, cut>>

(* A slip: a failure is recovered from the way set_mode does. *)
ChangeNameAsMode ==
    /\ at = "change" /\ job = "rename"
    /\ \/ name' = wanted /\ at' = "up"
       \/ "change" \in Failures /\ UNCHANGED name /\ at' = "upAgain"
    /\ UNCHANGED <<up, mode, job, wanted, changed, result, before, cut>>

(* 2. The name is set by index; the link comes up whatever the outcome.    *)
ChangeName ==
    /\ at = "change" /\ job = "rename"
    /\ \/ name' = wanted /\ changed' = "ok"
       \/ "change" \in Failures /\ UNCHANGED name /\ changed' = "err"
    /\ at' = "up"
    /\ UNCHANGED <<up, mode, job, wanted, result, before, cut>>

(* A slip: bringing the link up is best effort. *)
LinkUpHopeful ==
    /\ at = "up"
    /\ BringUp
    /\ Return(changed)
    /\ UNCHANGED <<mode, name>>

(* 3. set_link(index, true).  rename reports the rename's error first.     *)
LinkUp ==
    /\ at = "up"
    /\ BringUp
    /\ Return(IF cut' THEN "err" ELSE changed)
    /\ UNCHANGED <<mode, name>>

LinkUpAgain ==
    /\ at = "upAgain"
    /\ BringUp
    /\ Return("err")
    /\ UNCHANGED <<mode, name>>

(* The deadline: the request in flight may have been served.               *)
Served ==
    \/ /\ at = "down" /\ up' = FALSE
       /\ UNCHANGED <<mode, name>>
    \/ /\ at = "change" /\ job = "mode" /\ mode' = wanted
       /\ UNCHANGED <<up, name>>
    \/ /\ at = "change" /\ job = "rename" /\ name' = wanted
       /\ UNCHANGED <<up, mode>>
    \/ /\ at \in {"up", "upAgain"} /\ up' = TRUE
       /\ UNCHANGED <<mode, name>>

(* A slip: the recovery is not under the deadline. *)
DeadlineBefore ==
    /\ at \notin {"idle", "upAgain"} /\ "late" \in Failures
    /\ Served \/ UNCHANGED <<up, mode, name>>
    /\ cut' = TRUE
    /\ Return("err")

Deadline ==
    /\ at # "idle" /\ "late" \in Failures
    /\ Served \/ UNCHANGED <<up, mode, name>>
    /\ cut' = TRUE
    /\ Return("err")

Request == LinkDown \/ ChangeMode \/ ChangeName \/ LinkUp \/ LinkUpAgain
Next == SetMode \/ Rename \/ Request \/ Deadline

Spec == Init /\ [][Next]_vars

(* Nothing obliges a driver to answer; the timer alone is sure to fire.    *)
FairSpec == Spec /\ WF_vars(Deadline)

---------------------------------------------------------------------------
(* set_mode and rename implement LinkContract.  Their change takes effect  *)
(* before they return, and shows to the caller when they do.               *)
Contract == INSTANCE LinkContract WITH
    mode <- IF at = "idle" THEN mode ELSE before.mode,
    name <- IF at = "idle" THEN name ELSE before.name

ImplementsContract == Contract!Spec

(* An operation that reports success leaves the link up, whatever state it *)
(* found it in, and a rename that does has taken effect: rename keeps the  *)
(* outcome of the change while it brings the link up.  set_mode's success  *)
(* says nothing of the mode, which is why enter and leave read it back.    *)
SuccessMeansDone ==
    [][at # "idle" /\ result' = "ok" => up' /\ (job = "rename" => name' = wanted)]_vars

(* An operation leaves a link up that it found up, whether it succeeds or  *)
(* not: set_mode brings it up after a failed change, rename in any case.   *)
(* The deadline is the exception: it drops the recovery with the rest.     *)
LeavesLinkUp == at = "idle" /\ before.up /\ ~cut => up

(* No operation outlives its deadline, even if no request is ever answered. *)
EveryOperationEnds == at # "idle" ~> at = "idle"
=============================================================================
