----------------------------- MODULE LinkProofs -----------------------------
(***************************************************************************)
(* Proofs about LinkOps, for any modes, names and failures: types, what a   *)
(* success and a failure leave of the link, and that set_mode and rename    *)
(* implement LinkContract.                                                 *)
(***************************************************************************)
EXTENDS LinkOps, TLAPS

(* How far the operation under way has come: it has not answered yet, and   *)
(* has changed, of the interface it found, at most what it was asked to.    *)
Progress ==
    /\ at # "idle" => result = "none"
    /\ at = "down" => up = before.up
    /\ at \in {"down", "change", "upAgain"} => mode = before.mode /\ name = before.name
    /\ job = "mode" => name = before.name /\ mode \in {before.mode, wanted}
    /\ job = "rename" => mode = before.mode /\ name \in {before.name, wanted}
    /\ at = "up" /\ job = "rename" /\ changed = "ok" => name = wanted
    /\ job = "mode" => changed = "ok"

LinkInv == TypeOK /\ Progress /\ LeavesLinkUp

(* The invariant holds of an interface in any state, with no operation.     *)
LEMMA LinkInit == Init => LinkInv
<1> SUFFICES ASSUME Init PROVE LinkInv
  OBVIOUS
<1>1. before \in Before
  BY DEF Init, Before
<1>2. TypeOK
  BY <1>1 DEF Init, TypeOK
<1>3. Progress /\ LeavesLinkUp
  BY DEF Init, Progress, LeavesLinkUp
<1> QED
  BY <1>2, <1>3 DEF LinkInv

(* A call changes nothing yet, and remembers the interface as it is.       *)
LEMMA CallKeeps ==
    ASSUME LinkInv, SetMode \/ Rename
    PROVE  LinkInv'
<1> USE DEF LinkInv, SetMode, Rename, Call
<1>1. before' \in Before
  BY DEF Before, TypeOK
<1>2. TypeOK'
  BY <1>1 DEF TypeOK
<1>3. Progress' /\ LeavesLinkUp'
  BY DEF TypeOK, Progress, LeavesLinkUp
<1> QED
  BY <1>2, <1>3

(* Every request keeps the invariant, served or not.                       *)
LEMMA RequestKeeps ==
    ASSUME LinkInv, Request
    PROVE  LinkInv'
<1> USE DEF LinkInv, TypeOK, Before, Progress, LeavesLinkUp, Return, BringUp
<1>1. CASE LinkDown
  BY <1>1 DEF LinkDown
<1>2. CASE ChangeMode
  BY <1>2 DEF ChangeMode
<1>3. CASE ChangeName
  BY <1>3 DEF ChangeName
<1>4. CASE LinkUp
  BY <1>4 DEF LinkUp
<1>5. CASE LinkUpAgain
  BY <1>5 DEF LinkUpAgain
<1> QED
  BY <1>1, <1>2, <1>3, <1>4, <1>5 DEF Request

(* So does the deadline, whether the request in flight was served or not.  *)
LEMMA DeadlineKeeps ==
    ASSUME LinkInv, Deadline
    PROVE  LinkInv'
BY DEF LinkInv, TypeOK, Before, Progress, LeavesLinkUp, Deadline, Served, Return

(* The invariant is inductive.                                             *)
LEMMA LinkStep == LinkInv /\ [Next]_vars => LinkInv'
<1> SUFFICES ASSUME LinkInv, [Next]_vars PROVE LinkInv'
  OBVIOUS
<1>1. CASE UNCHANGED vars
  BY <1>1 DEF vars, LinkInv, TypeOK, Before, Progress, LeavesLinkUp
<1> QED
  BY <1>1, CallKeeps, RequestKeeps, DeadlineKeeps DEF Next

(* Types, and how far every operation has come.                            *)
THEOREM LinkInvariant == Spec => []LinkInv
BY LinkInit, LinkStep, PTL DEF Spec

(* Every variable keeps its type, and an operation at one of its requests   *)
(* is one that makes that request.                                         *)
THEOREM LinkTypes == Spec => []TypeOK
<1>1. LinkInv => TypeOK
  BY DEF LinkInv
<1> QED
  BY <1>1, LinkInvariant, PTL

(* set_mode and rename report success only with the link up, and rename     *)
(* only once the name has changed.                                         *)
THEOREM SuccessIsDone == Spec => SuccessMeansDone
<1>1. LinkInv /\ [Next]_vars =>
        [at # "idle" /\ result' = "ok" => up' /\ (job = "rename" => name' = wanted)]_vars
  <2> SUFFICES ASSUME LinkInv, Next, at # "idle", result' = "ok"
               PROVE  up' /\ (job = "rename" => name' = wanted)
    OBVIOUS
  <2>1. result = "none"
    BY DEF LinkInv, Progress
  <2>2. LinkUp
    BY <2>1 DEF Next, SetMode, Rename, Call, Request, LinkDown, ChangeMode, ChangeName,
                LinkUpAgain, Deadline, Return
  <2> QED
    BY <2>2 DEF LinkInv, TypeOK, Progress, LinkUp, BringUp, Return
<1> QED
  BY <1>1, LinkInvariant, PTL DEF Spec, SuccessMeansDone

(* A change that fails leaves a link up that was up, unless the deadline    *)
(* passes or the kernel refuses to bring it up.                            *)
THEOREM FailureLeavesUp == Spec => []LeavesLinkUp
<1>1. LinkInv => LeavesLinkUp
  BY DEF LinkInv
<1> QED
  BY <1>1, LinkInvariant, PTL

---------------------------------------------------------------------------
(* The refinement: requests stutter until the last one, or the deadline,    *)
(* returns.                                                                *)

(* An interface with no operation under way is one of the contract's.      *)
LEMMA ContractInit == Init => Contract!Init
BY DEF Init, Contract!Init

(* A call of LinkOps is a call of the contract.                            *)
LEMMA CallRefines ==
    ASSUME LinkInv, SetMode \/ Rename
    PROVE  Contract!Call
BY DEF LinkInv, TypeOK, SetMode, Rename, Call, Contract!Call

(* A request in the middle of an operation is a stutter of the contract.    *)
LEMMA MiddleRefines ==
    ASSUME at # "idle", at' # "idle", UNCHANGED <<job, wanted, result, before>>
    PROVE  UNCHANGED Contract!vars
BY DEF Contract!vars

(* A step that returns has the contract's outcomes, if what it leaves of the *)
(* interface is within what was asked for.                                 *)
LEMMA ReturnRefines ==
    ASSUME LinkInv, at # "idle", at' = "idle", job' = "none",
           result' \in {"ok", "err"}, UNCHANGED wanted,
           job = "mode" => name' = before.name /\ mode' \in {before.mode, wanted},
           job = "rename" => mode' = before.mode /\ name' \in {before.name, wanted},
           job = "rename" /\ result' = "ok" => name' = wanted
    PROVE  Contract!Next
BY DEF LinkInv, TypeOK, Contract!Next, Contract!ReturnMode, Contract!ReturnRename

(* Every step of an operation is a step of the contract or a stutter.      *)
LEMMA RequestRefines ==
    ASSUME LinkInv, Request \/ Deadline
    PROVE  [Contract!Next]_(Contract!vars)
<1> USE DEF LinkInv, TypeOK, Progress, Return
<1>1. CASE LinkDown
  <2>1. CASE at' = "change"
    BY <1>1, <2>1, MiddleRefines DEF LinkDown
  <2>2. CASE at' # "change"
    BY <1>1, <2>2, ReturnRefines DEF LinkDown
  <2> QED
    BY <2>1, <2>2
<1>2. CASE ChangeMode
  BY <1>2, MiddleRefines DEF ChangeMode
<1>3. CASE ChangeName
  BY <1>3, MiddleRefines DEF ChangeName
<1>4. CASE LinkUp
  BY <1>4, ReturnRefines DEF LinkUp
<1>5. CASE LinkUpAgain
  BY <1>5, ReturnRefines DEF LinkUpAgain
<1>6. CASE Deadline
  BY <1>6, ReturnRefines DEF Deadline, Served
<1> QED
  BY <1>1, <1>2, <1>3, <1>4, <1>5, <1>6 DEF Request

(* set_mode and rename have no outcomes but those of LinkContract, whatever *)
(* fails and whenever the deadline passes.                                 *)
THEOREM Implementation == Spec => ImplementsContract
<1>1. LinkInv /\ [Next]_vars => [Contract!Next]_(Contract!vars)
  <2> SUFFICES ASSUME LinkInv, [Next]_vars
               PROVE  [Contract!Next]_(Contract!vars)
    OBVIOUS
  <2>1. CASE UNCHANGED vars
    BY <2>1 DEF vars, Contract!vars
  <2>2. CASE SetMode \/ Rename
    BY <2>2, CallRefines DEF Contract!Next
  <2> QED
    BY <2>1, <2>2, RequestRefines DEF Next
<1> QED
  BY <1>1, ContractInit, LinkInvariant, PTL DEF Spec, ImplementsContract, Contract!Spec
=============================================================================
