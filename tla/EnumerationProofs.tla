-------------------------- MODULE EnumerationProofs --------------------------
(* What detect returns, for any number of adapters, interfaces and messages. *)
EXTENDS Enumeration, SequenceTheorems, TLAPS

USE EnumerationAssumption

(* detect runs two dumps, the interfaces first, and then assembles.        *)
LEMMA DumpOrder ==
    /\ Order[1] = "interfaces" /\ Order[2] = "wiphys"
    /\ Following("interfaces") = "wiphys"
    /\ Following("wiphys") = "assemble"
    /\ Items("interfaces") = Wdevs /\ Items("wiphys") = Parts
BY DEF Order, Following, Items

(* The kernel's list is a sequence of indexes that were handed out.        *)
LEMMA ListType ==
    ASSUME TypeOK
    PROVE  /\ created \in Nat /\ Len(adapters) \in Nat /\ pos \in Nat
           /\ DOMAIN adapters = 1..Len(adapters)
           /\ \A i \in DOMAIN adapters : adapters[i] \in 1..created
BY LenProperties DEF TypeOK

(* An adapter that comes is the first, and all others move down by one.    *)
LEMMA PlugList ==
    ASSUME TypeOK, Plug
    PROVE  /\ Len(adapters') = Len(adapters) + 1
           /\ DOMAIN adapters' = 1..(Len(adapters) + 1)
           /\ adapters'[1] = created + 1
           /\ \A i \in 1..Len(adapters) : adapters'[i + 1] = adapters[i]
           /\ adapters' \in Seq(1..(created + 1))
           /\ Plugged' = Plugged \cup {created + 1}
<1>1. adapters' = <<created + 1>> \o adapters /\ created' = created + 1
    BY DEF Plug
<1>2. <<created + 1>> \in Seq(1..(created + 1)) /\ adapters \in Seq(1..(created + 1))
    BY ListType DEF TypeOK
<1>3. adapters' \in Seq(1..(created + 1)) /\ Len(adapters') = Len(adapters) + 1
    BY <1>1, <1>2, ListType
<1>4. DOMAIN adapters' = 1..(Len(adapters) + 1)
    BY <1>3, LenProperties
<1>5. adapters'[1] = created + 1
    BY <1>1, <1>2, ListType
<1>6. \A i \in 1..Len(adapters) : adapters'[i + 1] = adapters[i]
    BY <1>1, <1>2, ListType
<1>7. Plugged' = Plugged \cup {created + 1}
  <2>1. ASSUME NEW q \in Plugged' PROVE q \in Plugged \cup {created + 1}
    <3>1. PICK i \in 1..(Len(adapters) + 1) : q = adapters'[i]
        BY <1>4, <2>1 DEF Plugged
    <3>2. CASE i = 1
        BY <1>5, <3>1, <3>2
    <3>3. CASE i # 1
      <4>1. i - 1 \in 1..Len(adapters) /\ (i - 1) + 1 = i
          BY <3>1, <3>3, ListType
      <4>2. q = adapters[i - 1]
          BY <1>6, <3>1, <4>1
      <4> QED
          BY <4>1, <4>2, ListType DEF Plugged
    <3> QED
        BY <3>2, <3>3
  <2>2. created + 1 \in Plugged'
      BY <1>4, <1>5, ListType DEF Plugged
  <2>3. ASSUME NEW q \in Plugged PROVE q \in Plugged'
    <3>1. PICK i \in 1..Len(adapters) : q = adapters[i]
        BY <2>3, ListType DEF Plugged
    <3>2. i + 1 \in 1..(Len(adapters) + 1)
        BY <3>1, ListType
    <3> QED
        BY <1>4, <1>6, <3>1, <3>2 DEF Plugged
  <2> QED
      BY <2>1, <2>2, <2>3
<1> QED
    BY <1>3, <1>4, <1>5, <1>6, <1>7

(* One that goes leaves its place to those behind it.                      *)
LEMMA UnplugList ==
    ASSUME TypeOK, NEW k \in DOMAIN adapters, adapters' = Without(k)
    PROVE  /\ Len(adapters') = Len(adapters) - 1
           /\ DOMAIN adapters' = 1..(Len(adapters) - 1)
           /\ \A i \in DOMAIN adapters' :
                 adapters'[i] = adapters[IF i < k THEN i ELSE i + 1]
           /\ adapters' \in Seq(1..created)
           /\ Plugged' = Plugged \ {adapters[k]}
<1>1. k \in 1..Len(adapters) /\ Len(adapters) - 1 \in Nat
    BY ListType
<1>2. /\ DOMAIN adapters' = 1..(Len(adapters) - 1)
      /\ \A i \in 1..(Len(adapters) - 1) :
            adapters'[i] = adapters[IF i < k THEN i ELSE i + 1]
    BY DEF Without
<1>3. \A i \in 1..(Len(adapters) - 1) : adapters'[i] \in 1..created
  <2> SUFFICES ASSUME NEW i \in 1..(Len(adapters) - 1) PROVE adapters'[i] \in 1..created
      OBVIOUS
  <2>1. (IF i < k THEN i ELSE i + 1) \in DOMAIN adapters
      BY <1>1, ListType
  <2> QED
      BY <1>2, <2>1, ListType
<1>4. adapters' \in [1..(Len(adapters) - 1) -> 1..created]
    BY <1>3 DEF Without
<1>5. adapters' \in Seq(1..created)
    BY <1>1, <1>4, SeqDef
<1>6. Len(adapters') = Len(adapters) - 1
    BY <1>1, <1>2, <1>5, LenProperties
<1>7. Plugged' = Plugged \ {adapters[k]}
  <2>1. ASSUME NEW q \in Plugged' PROVE q \in Plugged \ {adapters[k]}
    <3>1. PICK i \in 1..(Len(adapters) - 1) : q = adapters'[i]
        BY <1>2, <2>1 DEF Plugged
    <3>2. PICK j \in DOMAIN adapters : j # k /\ q = adapters[j]
      <4>1. CASE i < k
          BY <1>1, <1>2, <3>1, <4>1, ListType
      <4>2. CASE ~(i < k)
          BY <1>1, <1>2, <3>1, <4>2, ListType
      <4> QED
          BY <4>1, <4>2
    <3>3. adapters[j] # adapters[k]
        BY <1>1, <3>2, ListType DEF TypeOK, NewestFirst
    <3> QED
        BY <3>2, <3>3 DEF Plugged
  <2>2. ASSUME NEW q \in Plugged, q # adapters[k] PROVE q \in Plugged'
    <3>1. PICK j \in DOMAIN adapters : q = adapters[j]
        BY <2>2 DEF Plugged
    <3>2. CASE j < k
      <4>1. j \in 1..(Len(adapters) - 1) /\ adapters'[j] = adapters[j]
          BY <1>1, <1>2, <3>2, ListType
      <4> QED
          BY <1>2, <3>1, <4>1 DEF Plugged
    <3>3. CASE j > k
      <4>1. j - 1 \in 1..(Len(adapters) - 1) /\ ~(j - 1 < k) /\ (j - 1) + 1 = j
          BY <1>1, <3>3, ListType
      <4>2. adapters'[j - 1] = adapters[j]
          BY <1>2, <4>1
      <4> QED
          BY <1>2, <3>1, <4>1, <4>2 DEF Plugged
    <3> QED
        BY <1>1, <2>2, <3>1, <3>2, <3>3, ListType
  <2> QED
      BY <2>1, <2>2
<1> QED
    BY <1>2, <1>5, <1>6, <1>7

---------------------------------------------------------------------------
(* The invariant holds before the first call.                              *)
LEMMA InitHolds == Init => EnumerationInv
<1> SUFFICES ASSUME Init PROVE EnumerationInv
    OBVIOUS
<1>1. adapters \in Seq(1..created) /\ NewestFirst
    BY DEF Init, NewestFirst
<1>2. TypeOK
    BY <1>1 DEF Init, TypeOK, Dumps
<1> QED
    BY <1>2 DEF Init, EnumerationInv, Progress, Collecting, Describing, Assembling,
                Dumps

(* A message leaves the list alone, and adds itself to what is known.      *)
LEMMA MessageAdds ==
    ASSUME TypeOK, Message
    PROVE  /\ at \in Dumps /\ pos + 1 \in DOMAIN adapters
           /\ UNCHANGED <<created, adapters, at, list, answer, since, torn>>
           /\ \E i \in Items(at) \ sent :
                 /\ Sent(sent \cup {i})
                 /\ raw' = IF at = "interfaces" /\ i \in Netdevs
                           THEN raw \cup {<<Current, i>>} ELSE raw
                 /\ caps' = IF at = "wiphys" THEN caps \cup {<<Current, i>>} ELSE caps
<1>1. pos + 1 \in DOMAIN adapters
    BY ListType DEF Message, Ahead
<1> QED
    BY <1>1 DEF Message

(* The list, the position, the tables and the answer keep their types.     *)
LEMMA TypeStep == TypeOK /\ [Next]_vars => TypeOK'
<1> SUFFICES ASSUME TypeOK, [Next]_vars PROVE TypeOK'
    OBVIOUS
<1>1. CASE Detect
    BY <1>1, DumpOrder DEF TypeOK, Detect, Begin, Dumps, NewestFirst, Plugged
<1>2. CASE Message
  <2>1. PICK i \in Items(at) \ sent :
            /\ Sent(sent \cup {i})
            /\ raw' = IF at = "interfaces" /\ i \in Netdevs
                      THEN raw \cup {<<Current, i>>} ELSE raw
            /\ caps' = IF at = "wiphys" THEN caps \cup {<<Current, i>>} ELSE caps
      BY <1>2, MessageAdds
  <2>2. Current \in 1..created
      BY <1>2, MessageAdds, ListType DEF Current
  <2>3. sent' \subseteq Wdevs \cup Parts /\ pos' \in Nat
      BY <2>1 DEF Items, Sent, TypeOK
  <2>4. raw' \subseteq (1..created) \X Netdevs
      BY <2>1, <2>2 DEF TypeOK
  <2>5. caps' \subseteq (1..created) \X Parts
      BY <2>1, <2>2 DEF Items, TypeOK
  <2> QED
      BY <1>2, <2>3, <2>4, <2>5, MessageAdds DEF TypeOK, NewestFirst, Plugged
<1>4. CASE DumpDone
    BY <1>4, DumpOrder DEF TypeOK, DumpDone, Begin, Dumps, NewestFirst, Plugged
<1>5. CASE Assemble
  <2>1. CASE raw \subseteq Joined /\ Return("ok") /\ UNCHANGED list
      BY <1>5, <2>1 DEF TypeOK, Assemble, Return, Begin, NewestFirst, Plugged
  <2>2. ASSUME NEW x \in raw,
               list' = list \cup
                   {[phy |-> x[1], wdev |-> x[2],
                     parts |-> {i \in Parts : <<x[1], i>> \in caps},
                     driver |-> x[1] \in Plugged]},
               UNCHANGED <<at, pos, sent, answer>>
        PROVE  TypeOK'
    <3>1. x[1] \in Phys /\ x[2] \in Netdevs
        BY <2>2 DEF Phys, TypeOK
    <3>2. [phy |-> x[1], wdev |-> x[2],
           parts |-> {i \in Parts : <<x[1], i>> \in caps},
           driver |-> x[1] \in Plugged] \in Info
      <4>1. {i \in Parts : <<x[1], i>> \in caps} \in SUBSET Parts
          OBVIOUS
      <4>2. (x[1] \in Plugged) \in BOOLEAN
          OBVIOUS
      <4> QED
          BY <3>1, <4>1, <4>2 DEF Info
    <3>3. list' \subseteq Info
        BY <2>2, <3>2 DEF TypeOK
    <3>4. UNCHANGED <<created, adapters, at, pos, sent, raw, caps, answer, since, torn>>
        BY <1>5, <2>2 DEF Assemble
    <3> QED
        BY <3>3, <3>4 DEF TypeOK, NewestFirst, Plugged
  <2> QED
      BY <1>5, <2>1, <2>2 DEF Assemble
<1>6. ASSUME NEW result \in {"Dump", "Timeout"}, Return(result),
             UNCHANGED <<created, adapters, raw, caps, list, since, torn>>
      PROVE  TypeOK'
    BY <1>6 DEF TypeOK, Return, Begin, NewestFirst, Plugged
<1>7. CASE Plug
  <2>1. created' = created + 1 /\ created' \in 0..MaxPhys
        /\ UNCHANGED <<at, pos, sent, raw, caps, list, answer, since, torn>>
      BY <1>7 DEF Plug, TypeOK
  <2>2. NewestFirst'
    <3> SUFFICES ASSUME NEW i \in DOMAIN adapters', NEW j \in DOMAIN adapters', i < j
                 PROVE  adapters'[i] > adapters'[j]
        BY DEF NewestFirst
    <3>5. Len(adapters) \in Nat /\ i \in 1..(Len(adapters) + 1) /\ j \in 1..(Len(adapters) + 1)
        BY <1>7, PlugList, ListType
    <3>1. j - 1 \in 1..Len(adapters) /\ (j - 1) + 1 = j
        BY <3>5
    <3>2. adapters'[j] = adapters[j - 1] /\ adapters[j - 1] \in 1..created
        BY <1>7, <3>1, PlugList, ListType
    <3>3. CASE i = 1
        BY <1>7, <3>2, <3>3, PlugList, ListType
    <3>4. CASE i # 1
      <4>1. i - 1 \in 1..Len(adapters) /\ (i - 1) + 1 = i /\ i - 1 < j - 1
          BY <3>4, <3>5
      <4>2. adapters'[i] = adapters[i - 1]
          BY <1>7, <4>1, PlugList
      <4> QED
          BY <3>1, <3>2, <4>1, <4>2, ListType DEF TypeOK, NewestFirst
    <3> QED
        BY <3>3, <3>4
  <2>3. adapters' \in Seq(1..created') /\ since' \subseteq Plugged'
      BY <1>7, <2>1, PlugList DEF TypeOK
  <2>4. raw' \subseteq (1..created') \X Netdevs /\ caps' \subseteq (1..created') \X Parts
      BY <2>1, ListType DEF TypeOK
  <2> QED
      BY <2>1, <2>2, <2>3, <2>4 DEF TypeOK
<1>8. CASE Unplug
  <2>1. PICK k \in DOMAIN adapters :
            /\ adapters' = Without(k)
            /\ since' = since \ {adapters[k]}
            /\ torn' = IF Skips(k) THEN torn \cup {at} ELSE torn
      BY <1>8 DEF Unplug
  <2>2. UNCHANGED <<created, at, pos, sent, raw, caps, list, answer>>
      BY <1>8 DEF Unplug
  <2>3. NewestFirst'
    <3> SUFFICES ASSUME NEW i \in DOMAIN adapters', NEW j \in DOMAIN adapters', i < j
                 PROVE  adapters'[i] > adapters'[j]
        BY DEF NewestFirst
    <3> DEFINE was(n) == IF n < k THEN n ELSE n + 1
    <3>5. /\ Len(adapters) \in Nat /\ k \in 1..Len(adapters)
          /\ i \in 1..(Len(adapters) - 1) /\ j \in 1..(Len(adapters) - 1)
        BY <2>1, UnplugList, ListType
    <3>6. was(i) \in 1..Len(adapters) /\ was(j) \in 1..Len(adapters) /\ was(i) < was(j)
        BY <3>5
    <3>1. was(i) \in DOMAIN adapters /\ was(j) \in DOMAIN adapters /\ was(i) < was(j)
        BY <3>6, ListType
    <3>2. adapters'[i] = adapters[was(i)] /\ adapters'[j] = adapters[was(j)]
        BY <2>1, UnplugList
    <3> HIDE DEF was
    <3> QED
        BY <3>1, <3>2 DEF TypeOK, NewestFirst
  <2>4. adapters' \in Seq(1..created) /\ since' \subseteq Plugged'
      BY <2>1, UnplugList DEF TypeOK
  <2>5. torn' \subseteq Dumps
      BY <2>1 DEF Skips, TypeOK
  <2> QED
      BY <2>2, <2>3, <2>4, <2>5 DEF TypeOK
<1>9. CASE UNCHANGED vars
    BY <1>9 DEF TypeOK, vars, NewestFirst, Plugged
<1> QED
    BY <1>1, <1>2, <1>4, <1>5, <1>6, <1>7, <1>8, <1>9 DEF Next, Fail, Late

---------------------------------------------------------------------------
(* The parts of the invariant besides the types.                           *)
Facts == Progress /\ Collecting /\ Describing /\ Assembling

(* A call begins with empty lists.                                         *)
LEMMA DetectStep == EnumerationInv /\ Detect => Facts'
<1> SUFFICES ASSUME EnumerationInv, Detect PROVE Facts'
    OBVIOUS
<1>1. /\ at' = "interfaces" /\ pos' = 0 /\ sent' = {} /\ answer' = "none"
      /\ raw' = {} /\ caps' = {} /\ list' = {} /\ UNCHANGED adapters
    BY DumpOrder DEF Detect, Begin
<1>2. \A i \in DOMAIN adapters' : ~(i <= pos')
    BY <1>1, ListType DEF EnumerationInv
<1> QED
    BY <1>1, <1>2 DEF Facts, Dumps, Progress, Collecting, Describing, Assembling

(* A message adds to what is known of the adapter the position means, and   *)
(* the last one about it is followed by the next adapter.                  *)
LEMMA MessageStep == EnumerationInv /\ TypeOK' /\ Message => Facts'
<1> SUFFICES ASSUME EnumerationInv, TypeOK', Message PROVE Facts'
    OBVIOUS
<1>1. PICK i \in Items(at) \ sent :
          /\ Sent(sent \cup {i})
          /\ raw' = IF at = "interfaces" /\ i \in Netdevs
                    THEN raw \cup {<<Current, i>>} ELSE raw
          /\ caps' = IF at = "wiphys" THEN caps \cup {<<Current, i>>} ELSE caps
    BY MessageAdds DEF EnumerationInv
<1>2. /\ at \in Dumps /\ pos + 1 \in DOMAIN adapters
      /\ UNCHANGED <<created, adapters, at, list, answer, since, torn>>
    BY MessageAdds DEF EnumerationInv
<1>3. raw \subseteq raw' /\ caps \subseteq caps'
    BY <1>1
<1>4. answer = "none" /\ sent \subseteq Items(at) /\ list = {}
    BY <1>2 DEF EnumerationInv, Progress, Dumps
<1>5. \/ sent \cup {i} = Items(at) /\ pos' = pos + 1 /\ sent' = {}
      \/ pos' = pos /\ sent' = sent \cup {i}
    BY <1>1 DEF Sent
<1>6. pos \in Nat /\ DOMAIN adapters \subseteq Nat
    BY ListType DEF EnumerationInv
<1>7. Progress'
    BY <1>1, <1>2, <1>4, <1>5 DEF EnumerationInv, Progress, Dumps
<1>8. Collecting'
  <2> SUFFICES ASSUME "interfaces" \notin torn, at = "interfaces",
                      NEW j \in DOMAIN adapters, adapters[j] \in since
               PROVE  /\ j <= pos' => {adapters[j]} \X Netdevs \subseteq raw'
                      /\ j = pos' + 1 => {adapters[j]} \X (sent' \cap Netdevs) \subseteq raw'
    <3>1. "interfaces" \notin torn /\ at = "wiphys" =>
              \A q \in since : {q} \X Netdevs \subseteq raw'
        BY <1>3 DEF EnumerationInv, Collecting, Collected
    <3>2. at' # "assemble" /\ answer' # "ok"
        BY <1>2, <1>4 DEF Dumps
    <3> QED
        BY <1>2, <3>1, <3>2 DEF Collecting, Collected
  <2>1. j <= pos => {adapters[j]} \X Netdevs \subseteq raw'
      BY <1>3 DEF EnumerationInv, Collecting, Collected
  <2>2. j = pos + 1 => {adapters[j]} \X ((sent \cup {i}) \cap Netdevs) \subseteq raw'
      BY <1>1, <1>3 DEF EnumerationInv, Collecting, Current
  <2>3. CASE sent \cup {i} = Items(at) /\ pos' = pos + 1 /\ sent' = {}
    <3>1. j <= pos + 1 => j <= pos \/ j = pos + 1
        BY <1>6
    <3>2. (sent \cup {i}) \cap Netdevs = Netdevs
        BY <2>3, DumpOrder
    <3> QED
        BY <2>1, <2>2, <2>3, <3>1, <3>2
  <2>4. CASE pos' = pos /\ sent' = sent \cup {i}
      BY <2>1, <2>2, <2>4
  <2> QED
      BY <1>5, <2>3, <2>4
<1>9. Describing'
  <2> SUFFICES ASSUME "wiphys" \notin torn, at = "wiphys",
                      NEW j \in DOMAIN adapters, adapters[j] \in Known
               PROVE  /\ j <= pos' => {adapters[j]} \X Parts \subseteq caps'
                      /\ j = pos' + 1 => {adapters[j]} \X sent' \subseteq caps'
      BY <1>1, <1>2, <1>4 DEF Describing, Described, Dumps, Known
  <2>1. j <= pos => {adapters[j]} \X Parts \subseteq caps'
      BY <1>3 DEF EnumerationInv, Describing, Described
  <2>2. j = pos + 1 => {adapters[j]} \X (sent \cup {i}) \subseteq caps'
      BY <1>1, <1>3 DEF EnumerationInv, Describing, Current
  <2>3. CASE sent \cup {i} = Items(at) /\ pos' = pos + 1 /\ sent' = {}
    <3>1. j <= pos + 1 => j <= pos \/ j = pos + 1
        BY <1>6
    <3> QED
        BY <2>1, <2>2, <2>3, <3>1, DumpOrder
  <2>4. CASE pos' = pos /\ sent' = sent \cup {i}
      BY <2>1, <2>2, <2>4
  <2> QED
      BY <1>5, <2>3, <2>4
<1>10. Assembling'
    BY <1>2, <1>4 DEF Assembling
<1> QED
    BY <1>7, <1>8, <1>9, <1>10 DEF Facts

(* The end of a dump leads to the next one with its table complete.        *)
LEMMA DumpDoneStep == EnumerationInv /\ DumpDone => Facts'
<1> SUFFICES ASSUME EnumerationInv, DumpDone PROVE Facts'
    OBVIOUS
<1>1. /\ at \in Dumps /\ at' = Following(at) /\ pos' = 0 /\ sent' = {}
      /\ UNCHANGED <<created, adapters, raw, caps, list, answer, since, torn>>
    BY DEF DumpDone, Begin
<1>2. answer = "none" /\ list = {}
    BY <1>1 DEF EnumerationInv, Progress, Dumps
<1>3. \A i \in DOMAIN adapters : i <= pos /\ ~(i <= 0)
    BY ListType DEF DumpDone, Ahead, EnumerationInv
<1>4. Assembling'
    BY <1>1, <1>2 DEF Assembling
<1>5. CASE at = "interfaces"
  <2>1. at' = "wiphys"
      BY <1>1, <1>5, DumpOrder
  <2>2. Progress'
      BY <1>1, <1>2, <2>1 DEF Progress, Dumps
  <2>3. "interfaces" \notin torn => \A q \in since : Collected(q)
      BY <1>3, <1>5 DEF EnumerationInv, TypeOK, Collecting, Plugged
  <2>4. Collecting'
      BY <1>1, <2>1, <2>3 DEF Collecting, Collected
  <2>5. Describing'
      BY <1>1, <1>2, <1>3, <2>1 DEF Describing
  <2> QED
      BY <1>4, <2>2, <2>4, <2>5 DEF Facts
<1>6. CASE at = "wiphys"
  <2>1. at' = "assemble"
      BY <1>1, <1>6, DumpOrder
  <2>2. Progress'
      BY <1>1, <1>2, <2>1 DEF Progress, Dumps
  <2>3. Collecting'
      BY <1>1, <1>6, <2>1 DEF EnumerationInv, Collecting, Collected
  <2>4. "wiphys" \notin torn => \A q \in Known \cap Plugged : Described(q)
      BY <1>3, <1>6 DEF EnumerationInv, Describing, Plugged
  <2>5. Describing'
      BY <1>1, <2>1, <2>4 DEF Describing, Described, Known, Plugged
  <2> QED
      BY <1>4, <2>2, <2>3, <2>5 DEF Facts
<1> QED
    BY <1>1, <1>5, <1>6 DEF Dumps

(* Assembling puts every interface with its own adapter.                   *)
LEMMA AssembleStep == EnumerationInv /\ Assemble => Facts'
<1> SUFFICES ASSUME EnumerationInv, Assemble PROVE Facts'
    OBVIOUS
<1>1. at = "assemble" /\ answer = "none"
      /\ UNCHANGED <<created, adapters, raw, caps, since, torn>>
    BY DEF Assemble, EnumerationInv, Progress
<1>2. CASE raw \subseteq Joined /\ Return("ok") /\ UNCHANGED list
  <2>1. at' = "idle" /\ answer' = "ok"
      BY <1>2 DEF Return, Begin
  <2> QED
      BY <1>1, <1>2, <2>1 DEF EnumerationInv, Facts, Progress, Collecting, Describing,
          Assembling, Collected, Described, Known, Plugged, Joined, Dumps
<1>3. ASSUME NEW x \in raw,
             list' = list \cup
                 {[phy |-> x[1], wdev |-> x[2],
                   parts |-> {i \in Parts : <<x[1], i>> \in caps},
                   driver |-> x[1] \in Plugged]},
             UNCHANGED <<at, pos, sent, answer>>
      PROVE  Facts'
  <2>1. Progress' /\ Collecting' /\ Describing'
      BY <1>1, <1>3 DEF EnumerationInv, Progress, Collecting, Describing,
          Collected, Described, Known, Plugged, Dumps
  <2>2. Assembling'
    <3>1. <<x[1], x[2]>> \in raw /\ x[1] \in Known
        BY <1>3 DEF EnumerationInv, TypeOK, Known
    <3>2. x[1] \in Plugged /\ "wiphys" \notin torn =>
            {i \in Parts : <<x[1], i>> \in caps} = Parts
        BY <1>1, <3>1 DEF EnumerationInv, Describing, Described
    <3>3. SUFFICES ASSUME NEW e \in list'
                   PROVE  /\ <<e.phy, e.wdev>> \in raw
                          /\ e.phy \in Plugged =>
                                e.driver /\ ("wiphys" \notin torn => e.parts = Parts)
        BY <1>1, <1>3 DEF Assembling, Plugged
    <3>4. CASE e \in list
        BY <3>4 DEF EnumerationInv, Assembling
    <3>5. CASE e = [phy |-> x[1], wdev |-> x[2],
                    parts |-> {i \in Parts : <<x[1], i>> \in caps},
                    driver |-> x[1] \in Plugged]
      <4>1. /\ e.phy = x[1] /\ e.wdev = x[2]
            /\ e.parts = {i \in Parts : <<x[1], i>> \in caps}
          BY <3>5
      <4>2. e.driver = (x[1] \in Plugged)
          BY <3>5, Zenon
      <4> QED
          BY <3>1, <3>2, <4>1, <4>2
    <3> QED
        BY <1>3, <3>4, <3>5
  <2> QED
      BY <2>1, <2>2 DEF Facts
<1> QED
    BY <1>2, <1>3 DEF Assemble

(* A failed dump ends the call, and its lists are thrown away.             *)
LEMMA FailStep ==
    ASSUME EnumerationInv, at \in Dumps, NEW result \in {"Dump", "Timeout"}, Return(result),
           UNCHANGED <<created, adapters, raw, caps, list, since, torn>>
    PROVE  Facts'
<1>1. at' = "idle" /\ answer' # "ok" /\ list' = {}
    BY DEF Return, Begin, EnumerationInv, Progress
<1> QED
    BY <1>1 DEF Facts, Progress, Collecting, Describing, Assembling, Dumps

(* A new adapter is nobody's of those a dump has to tell of, and the one it *)
(* tells again is told of already.                                         *)
LEMMA PlugStep == EnumerationInv /\ Plug => Facts'
<1> SUFFICES ASSUME EnumerationInv, Plug PROVE Facts'
    OBVIOUS
<1>1. UNCHANGED <<at, pos, sent, raw, caps, list, answer, since, torn>>
    BY DEF Plug
<1>2. TypeOK
    BY DEF EnumerationInv
<1>3. /\ \A x \in raw : x[1] # created + 1
      /\ created + 1 \notin since /\ created + 1 \notin Known
  <2>1. \A x \in raw : x[1] # created + 1
      BY <1>2, ListType DEF TypeOK
  <2>2. created + 1 \notin Plugged
      BY <1>2, ListType DEF Plugged
  <2> QED
      BY <1>2, <2>1, <2>2 DEF TypeOK, Known
<1>4. ASSUME NEW i \in DOMAIN adapters', adapters'[i] # created + 1
      PROVE  \E j \in DOMAIN adapters : i = j + 1 /\ adapters'[i] = adapters[j]
  <2>1. Len(adapters) \in Nat /\ i \in 1..(Len(adapters) + 1) /\ i # 1
      BY <1>2, <1>4, PlugList, ListType
  <2>2. i - 1 \in 1..Len(adapters) /\ (i - 1) + 1 = i
      BY <2>1
  <2>3. adapters'[(i - 1) + 1] = adapters[i - 1]
      BY <1>2, <2>2, PlugList
  <2> QED
      BY <1>2, <2>2, <2>3, ListType
<1>5. Progress'
    BY <1>1 DEF EnumerationInv, Progress
<1>6. Collecting'
  <2>1. ASSUME "interfaces" \notin torn, at = "interfaces",
               NEW i \in DOMAIN adapters', adapters'[i] \in since
        PROVE  /\ i <= pos => {adapters'[i]} \X Netdevs \subseteq raw
               /\ i = pos + 1 => {adapters'[i]} \X (sent \cap Netdevs) \subseteq raw
    <3>1. PICK j \in DOMAIN adapters : i = j + 1 /\ adapters'[i] = adapters[j]
        BY <1>3, <1>4, <2>1
    <3>2. i <= pos \/ i = pos + 1 => j <= pos
        BY <1>2, <3>1, ListType
    <3>3. j <= pos => {adapters[j]} \X Netdevs \subseteq raw
        BY <2>1, <3>1 DEF EnumerationInv, Collecting, Collected
    <3> QED
        BY <3>1, <3>2, <3>3
  <2> QED
      BY <1>1, <2>1 DEF EnumerationInv, Collecting, Collected
<1>7. Describing'
  <2>1. ASSUME "wiphys" \notin torn, at = "wiphys",
               NEW i \in DOMAIN adapters', adapters'[i] \in Known
        PROVE  /\ i <= pos => {adapters'[i]} \X Parts \subseteq caps
               /\ i = pos + 1 => {adapters'[i]} \X sent \subseteq caps
    <3>1. PICK j \in DOMAIN adapters : i = j + 1 /\ adapters'[i] = adapters[j]
        BY <1>3, <1>4, <2>1
    <3>2. i <= pos \/ i = pos + 1 => j <= pos
        BY <1>2, <3>1, ListType
    <3>3. j <= pos => {adapters[j]} \X Parts \subseteq caps
        BY <2>1, <3>1 DEF EnumerationInv, Describing, Described
    <3>4. sent \subseteq Parts
        BY <2>1, DumpOrder DEF EnumerationInv, Progress, Dumps
    <3> QED
        BY <3>1, <3>2, <3>3, <3>4
  <2>2. Known \cap Plugged' = Known \cap Plugged
      BY <1>2, <1>3, PlugList
  <2>3. Known' = Known
      BY <1>1 DEF Known
  <2> QED
      BY <1>1, <2>1, <2>2, <2>3 DEF EnumerationInv, Describing, Described
<1>8. Assembling'
  <2>1. \A e \in list : e.phy # created + 1
    <3> SUFFICES ASSUME NEW e \in list PROVE e.phy # created + 1
        OBVIOUS
    <3>1. <<e.phy, e.wdev>> \in raw
        BY DEF EnumerationInv, Assembling
    <3> QED
        BY <1>3, <3>1
  <2>2. Joined' = Joined /\ Plugged' = Plugged \cup {created + 1}
      BY <1>1, <1>2, PlugList DEF Joined
  <2> QED
      BY <1>1, <2>1, <2>2 DEF EnumerationInv, Assembling
<1> QED
    BY <1>5, <1>6, <1>7, <1>8 DEF Facts

(* An adapter that goes takes the position with it only where that is        *)
(* recorded.                                                               *)
LEMMA UnplugStep == EnumerationInv /\ Unplug => Facts'
<1> SUFFICES ASSUME EnumerationInv, Unplug PROVE Facts'
    OBVIOUS
<1>1. PICK k \in DOMAIN adapters :
          /\ adapters' = Without(k)
          /\ since' = since \ {adapters[k]}
          /\ torn' = IF Skips(k) THEN torn \cup {at} ELSE torn
    BY DEF Unplug
<1>2. UNCHANGED <<created, at, pos, sent, raw, caps, list, answer>>
    BY DEF Unplug
<1>3. TypeOK /\ torn \subseteq torn' /\ since' \subseteq since
    BY <1>1 DEF EnumerationInv
<1>4. Plugged' \subseteq Plugged
    BY <1>1, <1>3, UnplugList
<1>5. ASSUME at \in Dumps, at \notin torn', NEW i \in DOMAIN adapters',
             i <= pos \/ (i = pos + 1 /\ sent # {})
      PROVE  i \in DOMAIN adapters /\ adapters'[i] = adapters[i]
  <2>1. ~Skips(k)
      BY <1>1, <1>5
  <2>2. /\ Len(adapters) \in Nat /\ k \in 1..Len(adapters) /\ pos \in Nat
        /\ i \in 1..(Len(adapters) - 1)
      BY <1>1, <1>3, UnplugList, ListType
  <2>3. i < k
      BY <1>5, <2>1, <2>2 DEF Skips
  <2>4. i \in DOMAIN adapters
      BY <1>3, <2>2, <2>3, ListType
  <2>5. adapters'[i] = adapters[IF i < k THEN i ELSE i + 1]
      BY <1>1, <2>2 DEF Without
  <2> QED
      BY <2>3, <2>4, <2>5
<1>6. Progress'
    BY <1>2 DEF EnumerationInv, Progress
<1>7. Collecting'
  <2>1. ASSUME "interfaces" \notin torn', at = "interfaces",
               NEW i \in DOMAIN adapters', adapters'[i] \in since'
        PROVE  /\ i <= pos => {adapters'[i]} \X Netdevs \subseteq raw
               /\ i = pos + 1 => {adapters'[i]} \X (sent \cap Netdevs) \subseteq raw
    <3>1. "interfaces" \notin torn /\ at \in Dumps /\ adapters'[i] \in since
        BY <1>3, <2>1 DEF Dumps
    <3>2. CASE i <= pos \/ (i = pos + 1 /\ sent # {})
      <4>1. i \in DOMAIN adapters /\ adapters'[i] = adapters[i]
          BY <1>5, <2>1, <3>1, <3>2
      <4> QED
          BY <2>1, <3>1, <4>1 DEF EnumerationInv, Collecting, Collected
    <3>3. CASE ~(i <= pos) /\ sent = {}
        BY <3>3
    <3> QED
        BY <3>2, <3>3
  <2> QED
      BY <1>2, <1>3, <2>1 DEF EnumerationInv, Collecting, Collected
<1>8. Describing'
  <2>1. ASSUME "wiphys" \notin torn', at = "wiphys",
               NEW i \in DOMAIN adapters', adapters'[i] \in Known
        PROVE  /\ i <= pos => {adapters'[i]} \X Parts \subseteq caps
               /\ i = pos + 1 => {adapters'[i]} \X sent \subseteq caps
    <3>1. "wiphys" \notin torn /\ at \in Dumps
        BY <1>3, <2>1 DEF Dumps
    <3>2. CASE i <= pos \/ (i = pos + 1 /\ sent # {})
      <4>1. i \in DOMAIN adapters /\ adapters'[i] = adapters[i]
          BY <1>5, <2>1, <3>1, <3>2
      <4> QED
          BY <2>1, <3>1, <4>1 DEF EnumerationInv, Describing, Described
    <3>3. CASE ~(i <= pos) /\ sent = {}
        BY <3>3
    <3> QED
        BY <3>2, <3>3
  <2>2. Known' = Known
      BY <1>2 DEF Known
  <2> QED
      BY <1>2, <1>3, <1>4, <2>1, <2>2 DEF EnumerationInv, Describing, Described
<1>9. Assembling'
  <2>1. Joined' = Joined
      BY <1>2 DEF Joined
  <2> QED
      BY <1>2, <1>3, <1>4, <2>1 DEF EnumerationInv, Assembling
<1> QED
    BY <1>6, <1>7, <1>8, <1>9 DEF Facts

(* Nothing changes on its own.                                             *)
LEMMA StutterStep == EnumerationInv /\ UNCHANGED vars => Facts'
BY DEF EnumerationInv, Facts, vars, Progress, Collecting, Describing, Assembling,
       Collected, Described, Known, Plugged, Joined

(* The invariant of detect: what a dump is past it has told, unless it is   *)
(* torn, and what is assembled is of that.                                 *)
THEOREM EnumerationInvariant == Spec => []EnumerationInv
<1>1. EnumerationInv /\ [Next]_vars => EnumerationInv'
  <2> SUFFICES ASSUME EnumerationInv, [Next]_vars PROVE EnumerationInv'
      OBVIOUS
  <2>1. TypeOK'
      BY TypeStep DEF EnumerationInv
  <2>2. Facts'
    <3>1. CASE Fail \/ Late
        BY <3>1, FailStep DEF Fail, Late
    <3> QED
        BY <2>1, <3>1, DetectStep, MessageStep, DumpDoneStep, AssembleStep, PlugStep,
           UnplugStep, StutterStep DEF Next
  <2> QED
      BY <2>1, <2>2 DEF Facts, EnumerationInv
<1> QED
    BY InitHolds, <1>1, PTL DEF Spec

(* An interface whose adapter is there is listed with all it can do,        *)
(* however the adapters came and went, if the second dump is not torn.     *)
THEOREM PresentComplete == Spec => []PresentIsComplete
<1>1. EnumerationInv => PresentIsComplete
    BY DEF EnumerationInv, Assembling, PresentIsComplete
<1> QED
    BY <1>1, EnumerationInvariant, PTL

(* An adapter there from the call to the answer is listed in full, if the   *)
(* first dump is not torn.                                                 *)
THEOREM NoneMissed == Spec => []NothingMissed
<1>1. EnumerationInv => NothingMissed
  <2> SUFFICES ASSUME EnumerationInv, answer = "ok", "interfaces" \notin torn,
                      NEW q \in since, NEW w \in Netdevs
               PROVE  \E e \in list : e.phy = q /\ e.wdev = w
      BY DEF NothingMissed
  <2>1. <<q, w>> \in Joined
      BY DEF EnumerationInv, Collecting, Collected, Assembling
  <2> QED
      BY <2>1 DEF Joined
<1> QED
    BY <1>1, EnumerationInvariant, PTL
=============================================================================
