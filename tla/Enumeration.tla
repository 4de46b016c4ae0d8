----------------------------- MODULE Enumeration -----------------------------
(***************************************************************************)
(* detect (src/linux/interface.rs): two netlink dumps, one message at a     *)
(* time, joined by wiphy index, and then one look into sysfs for each       *)
(* interface, while adapters come and go.  A dump is a walk over the        *)
(* kernel's list of adapters, whose newest entry comes first.  Between two  *)
(* messages the kernel keeps only the position it has reached in it: when   *)
(* the list has changed by the next one, the position means another        *)
(* adapter.  What the kernel sends along for a reader to notice this        *)
(* (NLM_F_DUMP_INTR, a generation number) the code does not look at.       *)
(***************************************************************************)
EXTENDS Naturals, Sequences

CONSTANTS
    MaxPhys,   \* wiphys that ever exist: a bound on the instance
    Wdevs,     \* the wireless devices of a wiphy
    Netdevs,   \* those with an ifindex: not a P2P-device
    Parts      \* the messages a wiphy is described in

ASSUME EnumerationAssumption ==
    /\ MaxPhys \in Nat
    /\ Netdevs \subseteq Wdevs
    /\ Wdevs # {} /\ Parts # {}

VARIABLES
    created,   \* the highest wiphy index handed out; none is used twice
    adapters,  \* the kernel's list of wiphys
    at,        \* "idle", the dump under way, or "assemble"
    pos,       \* how many of the list the dump has passed
    sent,      \* the messages it has sent about the next one
    raw,       \* RawInterfaces
    caps,      \* the PhyAccums, part by part
    list,      \* the InterfaceInfos
    answer,
    (* Observers, which no step reads. *)
    since,     \* the wiphys that were there all the time
    torn       \* the dumps whose list has moved up under their position

vars == <<created, adapters, at, pos, sent, raw, caps, list, answer, since, torn>>

Phys == 1..MaxPhys
Info == [phy : Phys, wdev : Netdevs, parts : SUBSET Parts, driver : BOOLEAN]

Plugged == {adapters[i] : i \in DOMAIN adapters}

NewestFirst == \A i, j \in DOMAIN adapters : i < j => adapters[i] > adapters[j]

(* A slip: the capabilities are read first. *)
WiphysFirst == <<"wiphys", "interfaces">>

Order == <<"interfaces", "wiphys">>
Dumps == {"interfaces", "wiphys"}
Following(dump) == IF dump = Order[1] THEN Order[2] ELSE "assemble"

Items(dump) == IF dump = "interfaces" THEN Wdevs ELSE Parts

TypeOK ==
    /\ created \in 0..MaxPhys
    /\ adapters \in Seq(1..created) /\ NewestFirst
    /\ at \in Dumps \cup {"idle", "assemble"}
    /\ pos \in Nat
    /\ sent \subseteq Wdevs \cup Parts
    /\ raw \subseteq (1..created) \X Netdevs
    /\ caps \subseteq (1..created) \X Parts
    /\ list \subseteq Info
    /\ answer \in {"none", "ok", "Dump", "Timeout"}
    /\ since \subseteq Plugged
    /\ torn \subseteq Dumps

(* Every host comes about by plugging in. *)
Init ==
    /\ created = 0 /\ adapters = <<>>
    /\ at = "idle" /\ pos = 0 /\ sent = {}
    /\ raw = {} /\ caps = {} /\ list = {}
    /\ answer = "none" /\ since = {} /\ torn = {}

---------------------------------------------------------------------------
Begin(dump) == at' = dump /\ pos' = 0 /\ sent' = {}

Detect ==
    /\ at = "idle"
    /\ Begin(Order[1])
    /\ raw' = {} /\ caps' = {} /\ list' = {}
    /\ answer' = "none" /\ since' = Plugged /\ torn' = {}
    /\ UNCHANGED <<created, adapters>>

Return(result) == Begin("idle") /\ answer' = result

(* The adapter the position means by now, if there is one. *)
Ahead == pos < Len(adapters)
Current == adapters[pos + 1]

(* Having sent everything about one adapter a dump passes on to the next.  *)
Sent(told) ==
    IF told = Items(at) THEN pos' = pos + 1 /\ sent' = {}
                        ELSE pos' = pos /\ sent' = told

(* A slip: what is no interface ends the walk over its wiphy. *)
MessageOrLast ==
    /\ at \in Dumps /\ Ahead
    /\ \E i \in Items(at) \ sent :
          /\ Sent(IF at = "interfaces" /\ i \notin Netdevs THEN Items(at)
                  ELSE sent \cup {i})
          /\ raw' = IF at = "interfaces" /\ i \in Netdevs
                    THEN raw \cup {<<Current, i>>} ELSE raw
          /\ caps' = IF at = "wiphys" THEN caps \cup {<<Current, i>>} ELSE caps
    /\ UNCHANGED <<created, adapters, at, list, answer, since, torn>>

(* collect_interfaces, collect_phys: one message.  A device without an      *)
(* ifindex is skipped; the split messages of a wiphy are merged.           *)
Message ==
    /\ at \in Dumps /\ Ahead
    /\ \E i \in Items(at) \ sent :
          /\ Sent(sent \cup {i})
          /\ raw' = IF at = "interfaces" /\ i \in Netdevs
                    THEN raw \cup {<<Current, i>>} ELSE raw
          /\ caps' = IF at = "wiphys" THEN caps \cup {<<Current, i>>} ELSE caps
    /\ UNCHANGED <<created, adapters, at, list, answer, since, torn>>

DumpDone ==
    /\ at \in Dumps /\ ~Ahead
    /\ Begin(Following(at))
    /\ UNCHANGED <<created, adapters, raw, caps, list, answer, since, torn>>

Joined == {<<e.phy, e.wdev>> : e \in list}

(* A slip: the capabilities are moved out to the first interface. *)
AssembleMoving ==
    /\ at = "assemble"
    /\ \/ \E x \in raw \ Joined :
             /\ list' = list \cup
                   {[phy |-> x[1], wdev |-> x[2],
                     parts |-> IF \E e \in list : e.phy = x[1] THEN {}
                               ELSE {i \in Parts : <<x[1], i>> \in caps},
                     driver |-> x[1] \in Plugged]}
             /\ UNCHANGED <<at, pos, sent, answer>>
       \/ raw \subseteq Joined /\ Return("ok") /\ UNCHANGED list
    /\ UNCHANGED <<created, adapters, raw, caps, since, torn>>

(* assemble: join with the capabilities of the wiphy, which interfaces may *)
(* share, and read driver and bus from sysfs, where a wiphy that is gone   *)
(* has no entry.                                                           *)
Assemble ==
    /\ at = "assemble"
    /\ \/ \E x \in raw \ Joined :
             /\ list' = list \cup
                   {[phy |-> x[1], wdev |-> x[2],
                     parts |-> {i \in Parts : <<x[1], i>> \in caps},
                     driver |-> x[1] \in Plugged]}
             /\ UNCHANGED <<at, pos, sent, answer>>
       \/ raw \subseteq Joined /\ Return("ok") /\ UNCHANGED list
    /\ UNCHANGED <<created, adapters, raw, caps, since, torn>>

(* A message is an error. *)
Fail ==
    /\ at \in Dumps
    /\ Return("Dump")
    /\ UNCHANGED <<created, adapters, raw, caps, list, since, torn>>

(* A slip: the second dump has no deadline. *)
LateFirst ==
    /\ at = "interfaces"
    /\ Return("Timeout")
    /\ UNCHANGED <<created, adapters, raw, caps, list, since, torn>>

(* DUMP_TIMEOUT, which each dump has to itself. *)
Late ==
    /\ at \in Dumps
    /\ Return("Timeout")
    /\ UNCHANGED <<created, adapters, raw, caps, list, since, torn>>

(* The kernel puts a new wiphy at the head of its list, and everything a    *)
(* dump under way has passed moves down by one: it tells one of them again. *)
Plug ==
    /\ created < MaxPhys
    /\ created' = created + 1
    /\ adapters' = <<created'>> \o adapters
    /\ UNCHANGED <<at, pos, sent, raw, caps, list, answer, since, torn>>

Without(k) ==
    [i \in 1..(Len(adapters) - 1) |-> adapters[IF i < k THEN i ELSE i + 1]]

(* Had the dump told something of the k-th, it is a place too far now: it   *)
(* passes over an adapter of which it has not told everything.             *)
Skips(k) == at \in Dumps /\ (k <= pos \/ (k = pos + 1 /\ sent # {}))

Unplug ==
    /\ \E k \in DOMAIN adapters :
          /\ adapters' = Without(k)
          /\ since' = since \ {adapters[k]}
          /\ torn' = IF Skips(k) THEN torn \cup {at} ELSE torn
    /\ UNCHANGED <<created, at, pos, sent, raw, caps, list, answer>>

Next ==
    \/ Detect \/ Message \/ DumpDone \/ Assemble \/ Fail \/ Late
    \/ Plug \/ Unplug

Spec == Init /\ [][Next]_vars

(* The kernel need not answer; the timer fires, and assemble awaits nobody. *)
FairSpec == Spec /\ WF_vars(Late) /\ WF_vars(Assemble)

---------------------------------------------------------------------------
(* An adapter that is there from the call to the answer is listed, with     *)
(* every interface it has, whatever else is plugged in during the call and  *)
(* whatever is pulled during the second dump.  The one thing that hides it  *)
(* is another adapter which is pulled after the first dump has told of it: *)
(* detect does not notice that its dump was interrupted.                   *)
NothingMissed ==
    answer = "ok" /\ "interfaces" \notin torn => \A q \in since, w \in Netdevs :
        \E e \in list : e.phy = q /\ e.wdev = w

(* detect joins two dumps that nothing holds together.  Still, an interface *)
(* whose adapter is there is listed with its driver and with all its        *)
(* adapter can do, the latter unless another one was pulled after the       *)
(* second dump had told of it: no radio loses its candidacy because others *)
(* came, or went between the dumps or during the first.                    *)
PresentIsComplete ==
    answer = "ok" => \A e \in list : e.phy \in Plugged =>
        e.driver /\ ("wiphys" \notin torn => e.parts = Parts)

(* Why: what a dump is past, it has told in full, if it is not torn.       *)
Collected(q) == {q} \X Netdevs \subseteq raw
Described(q) == {q} \X Parts \subseteq caps
Known == {x[1] : x \in raw}

Progress ==
    /\ at # "idle" => answer = "none"
    /\ at \in Dumps => sent \subseteq Items(at) /\ list = {}
    /\ at = "interfaces" => caps = {}

Collecting ==
    "interfaces" \notin torn =>
        /\ at = "interfaces" => \A i \in DOMAIN adapters : adapters[i] \in since =>
              /\ i <= pos => Collected(adapters[i])
              /\ i = pos + 1 => {adapters[i]} \X (sent \cap Netdevs) \subseteq raw
        /\ at \in {"wiphys", "assemble"} \/ answer = "ok" =>
              \A q \in since : Collected(q)

Describing ==
    "wiphys" \notin torn =>
        /\ at = "wiphys" => \A i \in DOMAIN adapters : adapters[i] \in Known =>
              /\ i <= pos => Described(adapters[i])
              /\ i = pos + 1 => {adapters[i]} \X sent \subseteq caps
        /\ at = "assemble" \/ answer = "ok" =>
              \A q \in Known \cap Plugged : Described(q)

Assembling ==
    /\ answer = "ok" => raw \subseteq Joined
    /\ \A e \in list :
          /\ <<e.phy, e.wdev>> \in raw
          /\ e.phy \in Plugged =>
                e.driver /\ ("wiphys" \notin torn => e.parts = Parts)

EnumerationInv ==
    TypeOK /\ Progress /\ Collecting /\ Describing /\ Assembling

(* No dump keeps a caller waiting for ever, answered or not. *)
DetectEnds == at # "idle" ~> at = "idle"
=============================================================================
