---------------------------- MODULE SuiteProofs ----------------------------
(***************************************************************************)
(* The proof that the end-to-end suite passes, whatever programs ran before *)
(* it, where nothing fails while it runs.  Its script is annotated with the *)
(* places between its steps (Stands): a call, a look or a reckoning turns  *)
(* one place into the next and answers what the suite expects, and the     *)
(* phases lead from the first place to the last (SuiteLeads).  The         *)
(* invariant (SuiteInv) says that the suite is at a place, and what is left *)
(* of its script leads on from there; or that the call under way is going  *)
(* to its next place.                                                      *)
(***************************************************************************)
EXTENDS ProgramProofs, FiniteSetTheorems

(* Where the suite stands between two steps.                               *)
Stands == {"fresh", "clean", "open", "openAs", "kept", "noted", "swept", "bare"}

(* A call of the suite leads from x to z and returns o,                    *)
CallTurn(t, x, s, z, o) ==
    \/ /\ s.do = "stop" /\ s.name = Absent
       /\ x = "fresh" /\ z = "fresh" /\ o = "NotFound"
    \/ /\ s.do = "as" /\ s.new = Malformed
       /\ x = "fresh" /\ z = "fresh" /\ o = "InvalidInterfaceName"
    \/ /\ s.do = "on" /\ s.name = t /\ s.chan # "absent"
       /\ x \in {"fresh", "clean"} /\ z = "open" /\ o = "ok"
    \/ /\ s.do = "on" /\ s.name = t /\ s.chan = "absent"
       /\ x = "clean" /\ z = "clean" /\ o = "ChannelUnavailable"
    \/ /\ s.do = "on" /\ s.name = t
       /\ x = "kept" /\ z = "kept" /\ o = "AlreadyMonitor"
    \/ /\ s.do = "as" /\ s.name = t /\ s.new = Temp /\ s.chan # "absent"
       /\ x = "clean" /\ z = "openAs" /\ o = "ok"
    \/ /\ s.do = "stop" /\ s.name = t
       /\ x \in {"kept", "clean"} /\ z = "clean" /\ o = "ok"
    \/ /\ s.do \in {"restore", "drop"}
       /\ x \in {"open", "openAs"} /\ z = "clean" /\ o = "ok"
    \/ s.do = "persist" /\ x = "open" /\ z = "kept" /\ o = "ok"
    \/ s.do = "all" /\ x = "noted" /\ z = "swept" /\ o = "ok"
    \/ s.do = "all" /\ x = "swept" /\ z = "bare" /\ o = "ok"

(* what mode_of shows there,                                               *)
Sight(t, x, n, o) ==
    \/ n = t /\ x \in {"open", "kept"} /\ o = "monitor"
    \/ n = t /\ x \in {"clean", "swept"} /\ o = "managed"
    \/ n = t /\ x = "openAs" /\ o = "gone"
    \/ n = Temp /\ x = "openAs" /\ o = "monitor"
    \/ n = Temp /\ x \in {"clean", "bare"} /\ o = "gone"

(* and what the other looks and reckonings do.                             *)
LookTurn(t, x, s, z, o) ==
    \/ s.do = "tuned" /\ s.name = Absent /\ x = "fresh" /\ z = x /\ o = "NotFound"
    \/ s.do = "tuned" /\ s.name = t /\ x \in {"open", "kept"} /\ z = x /\ o = Verdict[s.chan]
    \/ s.do = "hop" /\ x = "open" /\ z = x /\ o = Verdict[s.chan]
    \/ s.do = "lookup" /\ s.name = t /\ x \in {"clean", "kept"} /\ z = x /\ o = "ok"
    \/ s.do = "see" /\ z = x /\ Sight(t, x, s.name, o)
    \/ s.do = "note" /\ x = "kept" /\ z = "noted" /\ o = "ok"
    \/ s.do = "reported" /\ s.name = t /\ x = "swept" /\ z = x /\ o = "ok"
    \/ s.do \in {"quiet", "spared"} /\ x = "swept" /\ z = x /\ o = "ok"
    \/ s.do = "nothing" /\ x = "bare" /\ z = x /\ o = "ok"
    \/ s.do = "idle" /\ s.name = t /\ x = "bare" /\ z = x /\ o = "ok"

(* The program takes o for an answer, and goes on with its script.         *)
Accepts(s, o, z) ==
    /\ s.must => o \notin Refusals
    /\ o = s.want \/ s.want = "any"
    /\ ~s.must /\ s.do \in Starts => z \notin {"open", "openAs"}

Turn(t, x, s, z, o) ==
    (CallTurn(t, x, s, z, o) \/ LookTurn(t, x, s, z, o)) /\ Accepts(s, o, z)

(* A script leads from x to y: some sequence of places fits its steps.     *)
Fits(t, s, a) == \A i \in 1..Len(s) : \E o \in Outcomes : Turn(t, a[i], s[i], a[i+1], o)
Leads(t, x, s, y) ==
    \E a \in [1..Len(s) + 1 -> Stands] : a[1] = x /\ a[Len(s) + 1] = y /\ Fits(t, s, a)

(* What holds where the suite stands, of its radio r,                      *)
Sessions == {"open", "openAs"}
Here(t, r, x) ==
    /\ pc[Shell] = IF x \in Sessions THEN "open" ELSE "idle"
    /\ label[r] = IF x = "openAs" THEN Temp ELSE t
    /\ x = "fresh" => mode[r] # "monitor"
    /\ x \in {"clean", "swept", "bare"} => mode[r] = "managed"
    /\ x \in {"open", "openAs", "kept", "noted"} => mode[r] = "monitor"
    /\ x \in {"kept", "noted"} => why[r] = "kept"
    /\ x \in Sessions => /\ radio[Shell] = r /\ orig[Shell] = t
                         /\ cur[Shell] = label[r] /\ begun = launched
    /\ x = "noted" => \A q \in Monitors : label[q] \notin noted
    /\ x = "swept" => Monitors = {} /\ t \in swept /\ noted \cap swept = {}
    /\ x = "bare" => Monitors = {} /\ swept = {}

(* and while a call is under way that leads to z and will return o:        *)
(* a stop that finds no interface,                                         *)
Missing(t, r, z, o) ==
    /\ op[Shell] = "stop" /\ orig[Shell] = Absent /\ radio[Shell] = NoRadio
    /\ pc[Shell] \in {"leaveFind", "failed"}
    /\ outcome = IF pc[Shell] = "failed" THEN "NotFound" ELSE "pending"
    /\ z = "fresh" /\ o = "NotFound" /\ label[r] = t /\ mode[r] # "monitor"

(* a start,                                                                *)
GoingIn(t, r, s, z, o) ==
    /\ op[Shell] = s.do /\ s.do \in {"on", "as"} /\ radio[Shell] = r /\ orig[Shell] = t
    /\ cur[Shell] = IF s.do = "as" THEN Temp ELSE t
    /\ pc[Shell] \in Entering \cup {"tune"} /\ outcome = "pending"
    /\ pc[Shell] = "wpaDrop" => wpa[r] # "out"
    /\ pc[Shell] = "confirm" => mode[r] = "monitor"
    /\ \/ s.chan # "absent" /\ z = (IF s.do = "as" THEN "openAs" ELSE "open") /\ o = "ok"
       \/ s.do = "on" /\ s.chan = "absent" /\ z = "clean" /\ o = "ChannelUnavailable"

(* a stop or the end of a guard,                                           *)
Stilled == {"unconfirm", "handback", "left"} \cup HandingBack
ComingOut(t, r, z, o) ==
    /\ op[Shell] \in {"stop", "restore", "drop"} /\ orig[Shell] = t
    /\ pc[Shell] \in Leaving \cup HandingBack \cup {"left"}
    /\ pc[Shell] = "leaveFind" => label[r] = t
    /\ pc[Shell] = "leaveFind" \/ radio[Shell] = r
    /\ cur[Shell] \in {t, Temp}
    /\ mode[r] = "managed" \/ (mode[r] = "monitor" /\ pc[Shell] \notin Stilled)
    /\ outcome = IF o = "ok" /\ pc[Shell] # "left" THEN "pending" ELSE o
    /\ z = "clean" /\ o \in {"ok", "ChannelUnavailable"}

(* and the sweep.                                                          *)
Sweeping(t, r, z, o) ==
    /\ op[Shell] = "all" /\ outcome \in {"pending", "ok"} /\ z = "swept" /\ o = "ok"
    /\ label[r] = t /\ swept \cap noted = {}
    /\ pc[Shell] # "sweep" => orig[Shell] \notin noted
    /\ \A c \in todo[Shell] : c[2] \notin noted
    /\ \/ t \in swept /\ mode[r] = "managed"
       \/ <<r, t>> \in todo[Shell] /\ mode[r] \in {"monitor", "managed"}
       \/ /\ orig[Shell] = t
          /\ pc[Shell] = "leaveFind" \/ radio[Shell] = r
          /\ pc[Shell] \in (Leaving \ {"restore", "renameBack"}) \cup HandingBack
          /\ mode[r] = "managed" \/ (mode[r] = "monitor" /\ pc[Shell] \notin Stilled)

Going(t, r, s, z, o) ==
    /\ begun = launched
    /\ \/ Missing(t, r, z, o) \/ GoingIn(t, r, s, z, o)
       \/ ComingOut(t, r, z, o) \/ Sweeping(t, r, z, o)

Ours(t, r) ==
    /\ r \in Present /\ t \in Names \ {Temp, Absent}
    /\ \A q \in Present \ {r} : label[q] # t

Course(t, r) ==
    \/ /\ outcome = "ready"
       /\ \E x \in Stands : Here(t, r, x) /\ Leads(t, x, script, "bare")
    \/ /\ outcome # "ready" /\ script # <<>>
       /\ \E x, z \in Stands, o \in Outcomes :
             /\ Turn(t, x, Head(script), z, o) /\ Leads(t, z, Tail(script), "bare")
             /\ \/ pc[Shell] \in {"idle", "open"} /\ outcome = o /\ Here(t, r, z)
                \/ pc[Shell] \notin {"idle", "open"} /\ Going(t, r, Head(script), z, o)

Calm == spent = launched /\ Cardinality(running) <= 1 /\ TempIsOurs

SuiteInv ==
    program = "suite" /\ Calm =>
        ~failed /\ \E t \in Names, r \in Radios : Ours(t, r) /\ Course(t, r)

(* What a program that is not the suite's choice of a radio lacks...       *)
SelectInv ==
    program = "full_cycle" /\ script # <<>> =>
        /\ ~failed
        /\ spent = launched /\ outcome \notin Refusals \cup {"ready"} =>
              \E r \in Present : label[r] = outcome /\ mode[r] # "monitor"

AbsentInv ==
    /\ \A r \in Radios : label[r] # Absent
    /\ op[Shell] \notin {"none", "stop", "all"} \/ pc[Shell] = "open" =>
          orig[Shell] # Absent /\ cur[Shell] # Absent

SuiteCall(s) == s.do # "auto" /\ (s.do = "as" => s.new \in {Temp, Malformed})

(* A call under way began after its program did.                           *)
Began == pc[Shell] # "idle" => launched <= begun

(* The suite makes no other calls, and asks for no other new name.         *)
OwnCalls ==
    program = "suite" =>
        /\ \A i \in 1..Len(script) : SuiteCall(script[i])
        /\ op[Shell] # "auto" /\ (op[Shell] = "as" => cur[Shell] = Temp)

(* Where it meets the temporary name, its own calls never move it.         *)
AfterRename == {"refind", "tune", "open", "restore", "renameBack"}
Unmoved ==
    program = "suite" /\ spent = launched /\ ~TempIsOurs /\ pc[Shell] \in AfterRename =>
        cur[Shell] = orig[Shell]

(* A script that leads nowhere yet.                                        *)
LEMMA LeadsNone ==
    ASSUME NEW t, NEW x \in Stands
    PROVE  Leads(t, x, <<>>, x)
<1> DEFINE a == [i \in 1..1 |-> x]
<1>1. a \in [1..1 -> Stands] /\ a[1] = x
  OBVIOUS
<1>2. Len(<<>>) = 0 /\ Len(<<>>) + 1 = 1
  OBVIOUS
<1> HIDE DEF a
<1>3. Fits(t, <<>>, a)
  BY <1>2 DEF Fits
<1> QED
  BY <1>1, <1>2, <1>3 DEF Leads

(* One step before a script.                                               *)
LEMMA LeadsOne ==
    ASSUME NEW t, NEW x \in Stands, NEW z \in Stands, NEW s, NEW o \in Outcomes, Turn(t, x, s, z, o)
    PROVE  Leads(t, x, <<s>>, z)
<1> DEFINE a == [i \in 1..2 |-> IF i = 1 THEN x ELSE z]
<1>1. a \in [1..2 -> Stands] /\ a[1] = x /\ a[2] = z
  OBVIOUS
<1>2. Len(<<s>>) = 1 /\ <<s>>[1] = s
  OBVIOUS
<1> HIDE DEF a
<1>3. Fits(t, <<s>>, a)
  BY <1>1, <1>2 DEF Fits
<1> QED
  BY <1>1, <1>2, <1>3 DEF Leads

(* Scripts one after the other.                                            *)
LEMMA LeadsJoin ==
    ASSUME NEW S, NEW u \in Seq(S), NEW v \in Seq(S), NEW t, NEW x, NEW y, NEW z,
           Leads(t, x, u, y), Leads(t, y, v, z)
    PROVE  Leads(t, x, u \o v, z)
<1>1. PICK a \in [1..Len(u) + 1 -> Stands] : a[1] = x /\ a[Len(u) + 1] = y /\ Fits(t, u, a)
  BY DEF Leads
<1>2. PICK b \in [1..Len(v) + 1 -> Stands] : b[1] = y /\ b[Len(v) + 1] = z /\ Fits(t, v, b)
  BY DEF Leads
<1> DEFINE m == Len(u)
           n == Len(v)
           w == u \o v
           c == [i \in 1..m + n + 1 |-> IF i <= m THEN a[i] ELSE b[i - m]]
<1>3. m \in Nat /\ n \in Nat /\ Len(w) = m + n
      /\ \A i \in 1..m : w[i] = u[i]
  BY ConcatProperties, LenProperties
<1>4. \A i \in 1..m + n : i > m => w[i] = v[i - m]
  BY ConcatProperties, LenProperties
<1> HIDE DEF w
<1>5. \A i \in 1..m + n + 1 : c[i] = IF i <= m THEN a[i] ELSE b[i - m]
  OBVIOUS
<1>6. c \in [1..m + n + 1 -> Stands]
  BY <1>3
<1> HIDE DEF m, n, c
<1>7. m \in Nat /\ n \in Nat
  BY <1>3
<1>8. c[1] = x /\ c[m + n + 1] = z
  <2>1. 1 \in 1..m + n + 1 /\ m + n + 1 \in 1..m + n + 1 /\ ~(m + n + 1 <= m) /\ m + n + 1 - m = n + 1
    BY <1>7
  <2>2. c[m + n + 1] = b[n + 1]
    BY <1>3, <1>5, <2>1
  <2>3. CASE m = 0
    <3>1. c[1] = b[1] /\ a[1] = a[m + 1]
      BY <1>5, <2>1, <2>3
    <3> QED
      BY <1>1, <1>2, <2>2, <3>1 DEF m, n
  <2>4. CASE m # 0
    <3>1. c[1] = a[1]
      BY <1>3, <1>5, <2>1, <2>4
    <3> QED
      BY <1>1, <1>2, <2>2, <3>1 DEF n
  <2> QED
    BY <2>3, <2>4
<1>9. ASSUME NEW i \in 1..m + n
      PROVE  \E o \in Outcomes : Turn(t, c[i], w[i], c[i + 1], o)
  <2>1. i \in Nat /\ i >= 1 /\ i <= m + n
    BY <1>7
  <2>2. CASE i < m
    <3>1. i \in 1..m /\ i \in 1..m + n + 1 /\ i + 1 \in 1..m + n + 1 /\ i <= m /\ i + 1 <= m
      BY <1>7, <2>1, <2>2
    <3>2. c[i] = a[i] /\ c[i + 1] = a[i + 1]
      BY <1>5, <3>1
    <3>3. w[i] = u[i]
      BY <1>3, <3>1
    <3> QED
      BY <1>1, <3>1, <3>2, <3>3 DEF Fits, m
  <2>3. CASE i = m
    <3>1. m >= 1 /\ m <= m + n
      BY <1>7, <2>1, <2>3
    <3>2. m \in 1..m /\ m \in 1..m + n + 1 /\ m + 1 \in 1..m + n + 1
      BY <1>7, <3>1
    <3>3. m <= m /\ ~(m + 1 <= m) /\ m + 1 - m = 1
      BY <1>7
    <3>4. c[m] = a[m] /\ w[m] = u[m]
      BY <1>3, <1>5, <3>2, <3>3
    <3>5. c[m + 1] = b[1]
      BY <1>5, <3>2, <3>3
    <3>6. c[m + 1] = a[m + 1]
      BY <1>1, <1>2, <3>5 DEF m
    <3>7. \E o \in Outcomes : Turn(t, c[m], w[m], c[m + 1], o)
      BY <1>1, <3>2, <3>4, <3>6 DEF Fits, m
    <3> QED
      BY <2>3, <3>7
  <2>4. CASE i > m
    <3>1. i \in 1..m + n + 1 /\ i + 1 \in 1..m + n + 1 /\ ~(i <= m) /\ ~(i + 1 <= m)
          /\ i + 1 - m = (i - m) + 1 /\ i - m \in 1..n
      BY <1>7, <2>1, <2>4
    <3>2. c[i] = b[i - m]
      BY <1>3, <1>5, <3>1
    <3>3. c[i + 1] = b[i + 1 - m]
      BY <1>3, <1>5, <3>1
    <3>4. w[i] = v[i - m]
      BY <1>4, <2>4
    <3> QED
      BY <1>2, <3>1, <3>2, <3>3, <3>4 DEF Fits, n
  <2> QED
    BY <1>7, <2>1, <2>2, <2>3, <2>4
<1>10. Fits(t, w, c)
  BY <1>3, <1>9 DEF Fits
<1> QED
  BY <1>3, <1>6, <1>8, <1>10 DEF Leads, w

(* The step due, and what is left.                                         *)
LEMMA LeadsOn ==
    ASSUME NEW S, NEW s \in Seq(S), s # <<>>, NEW t, NEW x, NEW y, Leads(t, x, s, y)
    PROVE  \E z \in Stands, o \in Outcomes : Turn(t, x, Head(s), z, o) /\ Leads(t, z, Tail(s), y)
<1>1. PICK a \in [1..Len(s) + 1 -> Stands] : a[1] = x /\ a[Len(s) + 1] = y /\ Fits(t, s, a)
  BY DEF Leads
<1>2. /\ Len(s) \in Nat /\ Len(s) > 0 /\ Len(Tail(s)) = Len(s) - 1 /\ Head(s) = s[1]
      /\ \A i \in 1..Len(s) - 1 : Tail(s)[i] = s[i + 1]
  BY HeadTailProperties, LenProperties, EmptySeq
<1> DEFINE n == Len(s) - 1
           b == [i \in 1..n + 1 |-> a[i + 1]]
<1>3. b \in [1..n + 1 -> Stands] /\ b[1] = a[2] /\ b[n + 1] = y
  BY <1>1, <1>2
<1>4. PICK o \in Outcomes : Turn(t, a[1], s[1], a[2], o)
  BY <1>1, <1>2 DEF Fits
<1>5. Fits(t, Tail(s), b)
  <2> SUFFICES ASSUME NEW i \in 1..n
               PROVE  \E q \in Outcomes : Turn(t, b[i], Tail(s)[i], b[i + 1], q)
    BY <1>2 DEF Fits
  <2>1. b[i] = a[i + 1] /\ b[i + 1] = a[i + 1 + 1] /\ Tail(s)[i] = s[i + 1] /\ i + 1 \in 1..Len(s)
    BY <1>2
  <2> QED
    BY <1>1, <2>1 DEF Fits
<1>6. Leads(t, a[2], Tail(s), y)
  BY <1>2, <1>3, <1>5 DEF Leads
<1>7. a[2] \in Stands
  BY <1>2
<1> QED
  BY <1>1, <1>2, <1>4, <1>6, <1>7

(* What the suite's calls lead to.                                         *)
LEMMA CallTurns ==
    ASSUME NEW t
    PROVE  /\ Turn(t, "fresh", On(t), "open", "ok") /\ Turn(t, "clean", On(t), "open", "ok")
           /\ Turn(t, "clean", At(On(t), "usable"), "open", "ok")
           /\ Turn(t, "clean", Expect(At(On(t), "absent"), "ChannelUnavailable"), "clean",
                   "ChannelUnavailable")
           /\ Turn(t, "kept", Expect(On(t), "AlreadyMonitor"), "kept", "AlreadyMonitor")
           /\ Turn(t, "clean", As(t, Temp), "openAs", "ok")
           /\ Turn(t, "open", Give("persist"), "kept", "ok")
           /\ \A x \in Sessions : /\ Turn(t, x, Give("restore"), "clean", "ok")
                                  /\ Turn(t, x, Leave, "clean", "ok")
           /\ \A x \in {"kept", "clean"} : /\ Turn(t, x, Stop(t), "clean", "ok")
                                           /\ Turn(t, x, Expect(Stop(t), "ok"), "clean", "ok")
           /\ Turn(t, "noted", All, "swept", "ok") /\ Turn(t, "swept", All, "bare", "ok")
BY DEF Turn, CallTurn, LookTurn, Accepts, Refusals, Starts, Sessions, Do, Expect, At, On, As,
   Stop, All, Give, Leave

(* What its looks show.                                                    *)
LEMMA SightTurns ==
    ASSUME NEW t
    PROVE  /\ \A x \in {"open", "kept"} : Turn(t, x, See(t, "monitor"), x, "monitor")
           /\ \A x \in {"clean", "swept"} : Turn(t, x, See(t, "managed"), x, "managed")
           /\ Turn(t, "openAs", See(t, "gone"), "openAs", "gone")
           /\ Turn(t, "openAs", See(Temp, "monitor"), "openAs", "monitor")
           /\ \A x \in {"clean", "bare"} : Turn(t, x, See(Temp, "gone"), x, "gone")
           /\ \A x \in {"clean", "kept"} : Turn(t, x, Lookup(t), x, "ok")
BY DEF Turn, LookTurn, Sight, Accepts, Refusals, Starts, Do, See, Lookup

(* What it reckons and tunes.                                              *)
LEMMA ReckonTurns ==
    ASSUME NEW t
    PROVE  /\ Turn(t, "kept", Do("note", NoName), "noted", "ok")
           /\ Turn(t, "swept", Reckon("reported", t), "swept", "ok")
           /\ Turn(t, "swept", Do("quiet", NoName), "swept", "ok")
           /\ Turn(t, "swept", Reckon("spared", NoName), "swept", "ok")
           /\ Turn(t, "bare", Reckon("nothing", NoName), "bare", "ok")
           /\ Turn(t, "bare", Do("idle", t), "bare", "ok")
BY DEF Turn, LookTurn, Accepts, Refusals, Starts, Do, Reckon, Expect

(* Hopping channels through the guard and by name keeps a session open.    *)
LEMMA TuneTurns ==
    ASSUME NEW t
    PROVE  /\ \A w \in {"ok", "any"} : Turn(t, "open", Expect(Hop("usable"), w), "open", "ok")
           /\ Turn(t, "open", Expect(Tuned(t, "usable"), "ok"), "open", "ok")
           /\ Turn(t, "kept", Expect(Tuned(t, "absent"), "ChannelUnavailable"), "kept",
                   "ChannelUnavailable")
           /\ Turn(t, "kept", Expect(Tuned(t, "disabled"), "ChannelDisabled"), "kept",
                   "ChannelDisabled")
           /\ Turn(t, "kept", Expect(Tuned(t, "elsewhere"), "WrongBand"), "kept", "WrongBand")
BY DEF Turn, LookTurn, Accepts, Refusals, Starts, Do, Expect, At, Hop, Tuned, Verdict

(* The outcomes they have.                                                 *)
LEMMA SuiteOutcomes ==
    {"ok", "monitor", "managed", "gone", "NotFound", "InvalidInterfaceName", "AlreadyMonitor",
     "ChannelUnavailable", "ChannelDisabled", "WrongBand"} \subseteq Outcomes
BY DEF Outcomes, Refusals, Modes

(* Its phases, one after the other: a start that is persisted;             *)
LEMMA Phase4Leads ==
    ASSUME NEW t
    PROVE  Leads(t, "fresh", Phase4(t), "kept")
<1> DEFINE a == <<"fresh", "open", "open", "kept", "kept">>
           s1 == On(t)
           s2 == See(t, "monitor")
           s3 == Give("persist")
<1>1. /\ Turn(t, "fresh", s1, "open", "ok")
      /\ Turn(t, "open", s2, "open", "monitor")
      /\ Turn(t, "open", s3, "kept", "ok")
      /\ Turn(t, "kept", s2, "kept", "monitor")
  BY CallTurns, SightTurns DEF Sessions
<1>2. {"ok", "monitor"} \subseteq Outcomes
  BY SuiteOutcomes
<1> HIDE DEF s1, s2, s3
<1>3. Fits(t, <<s1, s2, s3, s2>>, a)
  BY <1>1, <1>2 DEF Fits
<1>4. a \in [1..5 -> Stands] /\ Len(<<s1, s2, s3, s2>>) = 4
  BY DEF Stands
<1>5. Leads(t, "fresh", <<s1, s2, s3, s2>>, "kept")
  BY <1>3, <1>4 DEF Leads
<1> QED
  BY <1>5 DEF Phase4, s1, s2, s3

(* a second start, which is refused;                                       *)
LEMMA Phase5Leads ==
    ASSUME NEW t
    PROVE  Leads(t, "kept", Phase5(t), "kept")
<1> DEFINE a == <<"kept", "kept", "kept", "kept">>
           s1 == See(t, "monitor")
           s2 == Expect(On(t), "AlreadyMonitor")
<1>1. /\ Turn(t, "kept", s1, "kept", "monitor")
      /\ Turn(t, "kept", s2, "kept", "AlreadyMonitor")
  BY CallTurns, SightTurns DEF Sessions
<1>2. {"monitor", "AlreadyMonitor"} \subseteq Outcomes
  BY SuiteOutcomes
<1> HIDE DEF s1, s2
<1>3. Fits(t, <<s1, s2, s1>>, a)
  BY <1>1, <1>2 DEF Fits
<1>4. a \in [1..4 -> Stands] /\ Len(<<s1, s2, s1>>) = 3
  BY DEF Stands
<1>5. Leads(t, "kept", <<s1, s2, s1>>, "kept")
  BY <1>3, <1>4 DEF Leads
<1> QED
  BY <1>5 DEF Phase5, s1, s2

(* a session under the temporary name;                                     *)
LEMMA Phase8Leads ==
    ASSUME NEW t
    PROVE  Leads(t, "kept", Phase8(t), "clean")
<1> DEFINE a == <<"kept", "clean", "openAs", "openAs", "openAs", "clean", "clean", "clean">>
           s1 == Stop(t)
           s2 == As(t, Temp)
           s3 == See(Temp, "monitor")
           s4 == See(t, "gone")
           s5 == Give("restore")
           s6 == See(t, "managed")
           s7 == See(Temp, "gone")
<1>1. /\ Turn(t, "kept", s1, "clean", "ok")
      /\ Turn(t, "clean", s2, "openAs", "ok")
      /\ Turn(t, "openAs", s3, "openAs", "monitor")
      /\ Turn(t, "openAs", s4, "openAs", "gone")
      /\ Turn(t, "openAs", s5, "clean", "ok")
      /\ Turn(t, "clean", s6, "clean", "managed")
      /\ Turn(t, "clean", s7, "clean", "gone")
  BY CallTurns, SightTurns DEF Sessions
<1>2. {"ok", "monitor", "gone", "managed"} \subseteq Outcomes
  BY SuiteOutcomes
<1> HIDE DEF s1, s2, s3, s4, s5, s6, s7
<1>3. Fits(t, <<s1, s2, s3, s4, s5, s6, s7>>, a)
  BY <1>1, <1>2 DEF Fits
<1>4. a \in [1..8 -> Stands] /\ Len(<<s1, s2, s3, s4, s5, s6, s7>>) = 7
  BY DEF Stands
<1>5. Leads(t, "kept", <<s1, s2, s3, s4, s5, s6, s7>>, "clean")
  BY <1>3, <1>4 DEF Leads
<1> QED
  BY <1>5 DEF Phase8, s1, s2, s3, s4, s5, s6, s7

(* two stops, the second of a radio that is not in monitor mode;           *)
LEMMA Phase9Leads ==
    ASSUME NEW t
    PROVE  Leads(t, "clean", Phase9(t), "clean")
<1> DEFINE a == <<"clean", "open", "kept", "kept", "clean", "clean", "clean", "clean">>
           s1 == On(t)
           s2 == Give("persist")
           s3 == See(t, "monitor")
           s4 == Stop(t)
           s5 == See(t, "managed")
           s6 == Expect(Stop(t), "ok")
<1>1. /\ Turn(t, "clean", s1, "open", "ok")
      /\ Turn(t, "open", s2, "kept", "ok")
      /\ Turn(t, "kept", s3, "kept", "monitor")
      /\ Turn(t, "kept", s4, "clean", "ok")
      /\ Turn(t, "clean", s5, "clean", "managed")
      /\ Turn(t, "clean", s6, "clean", "ok")
  BY CallTurns, SightTurns DEF Sessions
<1>2. {"ok", "monitor", "managed"} \subseteq Outcomes
  BY SuiteOutcomes
<1> HIDE DEF s1, s2, s3, s4, s5, s6
<1>3. Fits(t, <<s1, s2, s3, s4, s5, s6, s5>>, a)
  BY <1>1, <1>2 DEF Fits
<1>4. a \in [1..8 -> Stands] /\ Len(<<s1, s2, s3, s4, s5, s6, s5>>) = 7
  BY DEF Stands
<1>5. Leads(t, "clean", <<s1, s2, s3, s4, s5, s6, s5>>, "clean")
  BY <1>3, <1>4 DEF Leads
<1> QED
  BY <1>5 DEF Phase9, s1, s2, s3, s4, s5, s6

(* a guard that is dropped;                                                *)
LEMMA Phase10Leads ==
    ASSUME NEW t
    PROVE  Leads(t, "clean", Phase10(t), "clean")
<1> DEFINE a == <<"clean", "open", "open", "clean", "clean">>
           s1 == On(t)
           s2 == See(t, "monitor")
           s3 == Leave
           s4 == See(t, "managed")
<1>1. /\ Turn(t, "clean", s1, "open", "ok")
      /\ Turn(t, "open", s2, "open", "monitor")
      /\ Turn(t, "open", s3, "clean", "ok")
      /\ Turn(t, "clean", s4, "clean", "managed")
  BY CallTurns, SightTurns DEF Sessions
<1>2. {"ok", "monitor", "managed"} \subseteq Outcomes
  BY SuiteOutcomes
<1> HIDE DEF s1, s2, s3, s4
<1>3. Fits(t, <<s1, s2, s3, s4>>, a)
  BY <1>1, <1>2 DEF Fits
<1>4. a \in [1..5 -> Stands] /\ Len(<<s1, s2, s3, s4>>) = 4
  BY DEF Stands
<1>5. Leads(t, "clean", <<s1, s2, s3, s4>>, "clean")
  BY <1>3, <1>4 DEF Leads
<1> QED
  BY <1>5 DEF Phase10, s1, s2, s3, s4

(* two sweeps;                                                             *)
LEMMA Phase11Leads ==
    ASSUME NEW t
    PROVE  Leads(t, "clean", Phase11(t), "bare")
<1> DEFINE a == <<"clean", "open", "kept", "kept", "noted", "swept", "swept", "swept", "swept", "swept", "bare", "bare">>
           s1 == On(t)
           s2 == Give("persist")
           s3 == See(t, "monitor")
           s4 == Do("note", NoName)
           s5 == All
           s6 == Reckon("reported", t)
           s7 == Do("quiet", NoName)
           s8 == See(t, "managed")
           s9 == Reckon("spared", NoName)
           s10 == Reckon("nothing", NoName)
<1>1. /\ Turn(t, "clean", s1, "open", "ok")
      /\ Turn(t, "open", s2, "kept", "ok")
      /\ Turn(t, "kept", s3, "kept", "monitor")
      /\ Turn(t, "kept", s4, "noted", "ok")
      /\ Turn(t, "noted", s5, "swept", "ok")
      /\ Turn(t, "swept", s6, "swept", "ok")
      /\ Turn(t, "swept", s7, "swept", "ok")
      /\ Turn(t, "swept", s8, "swept", "managed")
      /\ Turn(t, "swept", s9, "swept", "ok")
      /\ Turn(t, "swept", s5, "bare", "ok")
      /\ Turn(t, "bare", s10, "bare", "ok")
  BY CallTurns, SightTurns, ReckonTurns DEF Sessions
<1>2. {"ok", "monitor", "managed"} \subseteq Outcomes
  BY SuiteOutcomes
<1> HIDE DEF s1, s2, s3, s4, s5, s6, s7, s8, s9, s10
<1>3. Fits(t, <<s1, s2, s3, s4, s5, s6, s7, s8, s9, s5, s10>>, a)
  BY <1>1, <1>2 DEF Fits
<1>4. a \in [1..12 -> Stands] /\ Len(<<s1, s2, s3, s4, s5, s6, s7, s8, s9, s5, s10>>) = 11
  BY DEF Stands
<1>5. Leads(t, "clean", <<s1, s2, s3, s4, s5, s6, s7, s8, s9, s5, s10>>, "bare")
  BY <1>3, <1>4 DEF Leads
<1> QED
  BY <1>5 DEF Phase11, s1, s2, s3, s4, s5, s6, s7, s8, s9, s10

(* and a last look.                                                        *)
LEMMA Phase12Leads ==
    ASSUME NEW t
    PROVE  Leads(t, "bare", Phase12(t), "bare")
<1> DEFINE a == <<"bare", "bare", "bare">>
           s1 == Do("idle", t)
           s2 == See(Temp, "gone")
<1>1. /\ Turn(t, "bare", s1, "bare", "ok")
      /\ Turn(t, "bare", s2, "bare", "gone")
  BY SightTurns, ReckonTurns DEF Sessions
<1>2. {"ok", "gone"} \subseteq Outcomes
  BY SuiteOutcomes
<1> HIDE DEF s1, s2
<1>3. Fits(t, <<s1, s2>>, a)
  BY <1>1, <1>2 DEF Fits
<1>4. a \in [1..3 -> Stands] /\ Len(<<s1, s2>>) = 2
  BY DEF Stands
<1>5. Leads(t, "bare", <<s1, s2>>, "bare")
  BY <1>3, <1>4 DEF Leads
<1> QED
  BY <1>5 DEF Phase12, s1, s2

(* The calls that must be refused change nothing (phase 3).                *)
LEMMA Phase3Leads ==
    ASSUME NEW t
    PROVE  Leads(t, "fresh", Phase3, "fresh")
<1> DEFINE a == <<"fresh", "fresh", "fresh", "fresh">>
           s1 == Expect(Stop(Absent), "NotFound")
           s2 == Expect(Tuned(Absent, "usable"), "NotFound")
           s3 == Expect(As(Absent, Malformed), "InvalidInterfaceName")
<1>1. /\ Turn(t, "fresh", s1, "fresh", "NotFound")
      /\ Turn(t, "fresh", s2, "fresh", "NotFound")
      /\ Turn(t, "fresh", s3, "fresh", "InvalidInterfaceName")
  BY DEF Turn, CallTurn, LookTurn, Accepts, Refusals, Starts, Do, Expect, At, As, Stop, Tuned
<1> HIDE DEF s1, s2, s3
<1>2. Fits(t, <<s1, s2, s3>>, a)
  BY <1>1, SuiteOutcomes DEF Fits
<1>3. a \in [1..4 -> Stands] /\ Len(<<s1, s2, s3>>) = 3
  BY DEF Stands
<1>4. Leads(t, "fresh", <<s1, s2, s3>>, "fresh")
  BY <1>2, <1>3 DEF Leads
<1> QED
  BY <1>4 DEF Phase3, s1, s2, s3

(* Three steps, two, one or none,                                          *)
LEMMA LeadsThree ==
    ASSUME NEW t, NEW x \in Stands, NEW y \in Stands, NEW z \in Stands, NEW w \in Stands,
           NEW s1, NEW s2, NEW s3, NEW o1 \in Outcomes, NEW o2 \in Outcomes, NEW o3 \in Outcomes,
           Turn(t, x, s1, y, o1), Turn(t, y, s2, z, o2), Turn(t, z, s3, w, o3)
    PROVE  Leads(t, x, <<s1, s2, s3>>, w)
<1> DEFINE a == <<x, y, z, w>>
<1>1. Fits(t, <<s1, s2, s3>>, a)
  BY DEF Fits
<1>2. a \in [1..4 -> Stands] /\ Len(<<s1, s2, s3>>) = 3
  OBVIOUS
<1> QED
  BY <1>1, <1>2 DEF Leads

(* A band has its hops where the radio has the band.                       *)
LEMMA HopsLead ==
    ASSUME NEW t, NEW band, NEW has
    PROVE  Leads(t, "open", Hops(t, band, has), "open")
<1>1. "open" \in Stands
  BY DEF Stands
<1>2. CASE band \notin has
  BY <1>1, <1>2, LeadsNone DEF Hops
<1>3. CASE band \in has
  <2> DEFINE s1 == Expect(Hop("usable"), "ok")
             s2 == Expect(Tuned(t, "usable"), "ok")
             s3 == Expect(Hop("usable"), "any")
  <2>1. /\ Turn(t, "open", s1, "open", "ok") /\ Turn(t, "open", s2, "open", "ok")
        /\ Turn(t, "open", s3, "open", "ok")
    BY TuneTurns
  <2>2. Hops(t, band, has) = <<s1, s2, s3>>
    BY <1>3 DEF Hops
  <2> HIDE DEF s1, s2, s3
  <2>3. Leads(t, "open", <<s1, s2, s3>>, "open")
    BY <1>1, <2>1, SuiteOutcomes, LeadsThree
  <2> QED
    BY <2>2, <2>3
<1> QED
  BY <1>2, <1>3

(* the hops in every band;                                                 *)
LEMMA Phase6Leads ==
    ASSUME NEW t \in Names, NEW has
    PROVE  Phase6(t, has) \in Seq(Plain) /\ Leads(t, "kept", Phase6(t, has), "kept")
<1> DEFINE u == <<Stop(t), Lookup(t), On(t)>>
           h2 == Hops(t, "TwoGhz", has)
           h5 == Hops(t, "FiveGhz", has)
           h6 == IF "SixGhz" \in has THEN <<Expect(Hop("usable"), "ok")>> ELSE <<>>
           v == <<Give("persist")>>
<1>1. {"open", "kept", "clean"} \subseteq Stands
  BY DEF Stands
<1>2. Hop("usable") \in Plain /\ t \in Known /\ "gone" \in Modes
  BY PlainSteps DEF Known, Modes
<1>3. u \in Seq(Plain) /\ v \in Seq(Plain) /\ h6 \in Seq(Plain)
  <2>1. Expect(Hop("usable"), "ok") \in Plain
    BY <1>2, PlainExpect
  <2>2. Stop(t) \in Plain /\ Lookup(t) \in Plain /\ On(t) \in Plain /\ Give("persist") \in Plain
    BY <1>2, PlainSteps
  <2> QED
    BY <2>1, <2>2
<1>4. h2 \in Seq(Plain) /\ h5 \in Seq(Plain)
  BY PlainHops
<1>5. Leads(t, "kept", u, "open")
  <2>1. /\ Turn(t, "kept", Stop(t), "clean", "ok") /\ Turn(t, "clean", Lookup(t), "clean", "ok")
        /\ Turn(t, "clean", On(t), "open", "ok")
    BY CallTurns, SightTurns
  <2> QED
    BY <1>1, <2>1, SuiteOutcomes, LeadsThree
<1>6. Leads(t, "open", h2, "open") /\ Leads(t, "open", h5, "open")
  BY HopsLead
<1>7. Leads(t, "open", h6, "open")
  <2>1. Turn(t, "open", Expect(Hop("usable"), "ok"), "open", "ok")
    BY TuneTurns
  <2> QED
    BY <1>1, <2>1, SuiteOutcomes, LeadsOne, LeadsNone
<1>8. Leads(t, "open", v, "kept")
  BY <1>1, CallTurns, SuiteOutcomes, LeadsOne
<1>9. Phase6(t, has) = u \o h2 \o h5 \o h6 \o v
  BY DEF Phase6
<1> HIDE DEF u, h2, h5, h6, v
<1>10. u \o h2 \in Seq(Plain) /\ Leads(t, "kept", u \o h2, "open")
  BY <1>3, <1>4, <1>5, <1>6, LeadsJoin, PlainJoin
<1>11. u \o h2 \o h5 \in Seq(Plain) /\ Leads(t, "kept", u \o h2 \o h5, "open")
  BY <1>4, <1>6, <1>10, LeadsJoin, PlainJoin
<1>12. u \o h2 \o h5 \o h6 \in Seq(Plain) /\ Leads(t, "kept", u \o h2 \o h5 \o h6, "open")
  BY <1>3, <1>7, <1>11, LeadsJoin, PlainJoin
<1>13. u \o h2 \o h5 \o h6 \o v \in Seq(Plain) /\ Leads(t, "kept", u \o h2 \o h5 \o h6 \o v, "kept")
  BY <1>3, <1>8, <1>12, LeadsJoin, PlainJoin
<1> QED
  BY <1>9, <1>13

(* a channel to start on, one that can be had and one that cannot;         *)
LEMMA Phase6bLeads ==
    ASSUME NEW t \in Names, NEW has
    PROVE  Phase6b(t, has) \in Seq(Plain) /\ Leads(t, "kept", Phase6b(t, has), "kept")
<1> DEFINE s == At(On(t), "usable")
           d == Expect(At(On(t), "absent"), "ChannelUnavailable")
           u == <<Stop(t), Lookup(t)>>
           v == IF has \cap {"TwoGhz", "FiveGhz"} = {} THEN <<>>
                ELSE <<s, See(t, "monitor"), Give("restore")>>
           w == <<d, See(t, "managed"), On(t), Give("persist")>>
<1>1. {"open", "kept", "clean"} \subseteq Stands
  BY DEF Stands
<1>2. /\ t \in Known /\ "managed" \in Modes /\ "monitor" \in Modes
      /\ "ChannelUnavailable" \in Refusals
  BY DEF Known, Modes, Refusals
<1>3. /\ Stop(t) \in Plain /\ Lookup(t) \in Plain /\ On(t) \in Plain /\ Give("persist") \in Plain
      /\ Give("restore") \in Plain /\ See(t, "managed") \in Plain /\ See(t, "monitor") \in Plain
  BY <1>2, PlainSteps
<1>4. s \in Plain /\ d \in Plain
  <2>1. At(On(t), "usable") \in Plain /\ At(On(t), "absent") \in Plain
    BY <1>3, PlainAt
  <2> QED
    BY <1>2, <2>1, PlainExpect
<1>5. u \in Seq(Plain) /\ v \in Seq(Plain) /\ w \in Seq(Plain)
  BY <1>3, <1>4
<1>6. Leads(t, "kept", u, "clean")
  <2> DEFINE a == <<"kept", "clean", "clean">>
  <2>1. Turn(t, "kept", Stop(t), "clean", "ok") /\ Turn(t, "clean", Lookup(t), "clean", "ok")
    BY CallTurns, SightTurns
  <2>2. Fits(t, u, a)
    BY <2>1, SuiteOutcomes DEF Fits
  <2>3. a \in [1..3 -> Stands] /\ Len(u) = 2
    BY <1>1
  <2> QED
    BY <2>2, <2>3 DEF Leads
<1>7. Leads(t, "clean", v, "clean")
  <2>1. /\ Turn(t, "clean", s, "open", "ok") /\ Turn(t, "open", See(t, "monitor"), "open", "monitor")
        /\ Turn(t, "open", Give("restore"), "clean", "ok")
    BY CallTurns, SightTurns DEF Sessions
  <2>2. Leads(t, "clean", <<s, See(t, "monitor"), Give("restore")>>, "clean")
    BY <1>1, <2>1, SuiteOutcomes, LeadsThree
  <2> QED
    BY <1>1, <2>2, LeadsNone
<1>8. Leads(t, "clean", w, "kept")
  <2> DEFINE a == <<"clean", "clean", "clean", "open", "kept">>
             q == See(t, "managed")
             on == On(t)
             keep == Give("persist")
  <2>1. /\ Turn(t, "clean", d, "clean", "ChannelUnavailable") /\ Turn(t, "clean", q, "clean", "managed")
        /\ Turn(t, "clean", on, "open", "ok") /\ Turn(t, "open", keep, "kept", "ok")
    BY CallTurns, SightTurns
  <2> HIDE DEF d, q, on, keep
  <2>2. Fits(t, <<d, q, on, keep>>, a)
    BY <2>1, SuiteOutcomes DEF Fits
  <2>3. a \in [1..5 -> Stands] /\ Len(<<d, q, on, keep>>) = 4
    BY DEF Stands
  <2>4. Leads(t, "clean", <<d, q, on, keep>>, "kept")
    BY <2>2, <2>3 DEF Leads
  <2> QED
    BY <2>4 DEF q, on, keep
<1>9. Phase6b(t, has) = u \o v \o w
  BY DEF Phase6b
<1> HIDE DEF u, v, w
<1>10. u \o v \in Seq(Plain) /\ Leads(t, "kept", u \o v, "clean")
  BY <1>5, <1>6, <1>7, LeadsJoin, PlainJoin
<1>11. u \o v \o w \in Seq(Plain) /\ Leads(t, "kept", u \o v \o w, "kept")
  BY <1>5, <1>8, <1>10, LeadsJoin, PlainJoin
<1> QED
  BY <1>9, <1>11

(* channels that cannot be set;                                            *)
LEMMA Phase7Leads ==
    ASSUME NEW t \in Names, NEW has
    PROVE  Phase7(t, has) \in Seq(Plain) /\ Leads(t, "kept", Phase7(t, has), "kept")
<1> DEFINE s == Expect(Tuned(t, "absent"), "ChannelUnavailable")
           d == Expect(Tuned(t, "disabled"), "ChannelDisabled")
           e == Expect(Tuned(t, "elsewhere"), "WrongBand")
           u == <<Lookup(t), s>>
           v == IF "disabled" \in has THEN <<d>> ELSE <<>>
           w == IF "FiveGhz" \in has THEN <<e>> ELSE <<>>
<1>1. "kept" \in Stands
  BY DEF Stands
<1>2. t \in Known /\ "gone" \in Modes /\ {"ChannelUnavailable", "ChannelDisabled", "WrongBand"} \subseteq Refusals
  BY DEF Known, Modes, Refusals
<1>3. s \in Plain /\ d \in Plain /\ e \in Plain /\ Lookup(t) \in Plain
  <2>1. /\ Tuned(t, "absent") \in Plain /\ Tuned(t, "disabled") \in Plain
        /\ Tuned(t, "elsewhere") \in Plain /\ Lookup(t) \in Plain
    BY <1>2, PlainSteps
  <2> QED
    BY <1>2, <2>1, PlainExpect
<1>4. /\ Turn(t, "kept", Lookup(t), "kept", "ok") /\ Turn(t, "kept", s, "kept", "ChannelUnavailable")
      /\ Turn(t, "kept", d, "kept", "ChannelDisabled") /\ Turn(t, "kept", e, "kept", "WrongBand")
  BY TuneTurns, SightTurns
<1>5. Phase7(t, has) = u \o v \o w
  BY DEF Phase7
<1> HIDE DEF s, d, e
<1>6. u \in Seq(Plain) /\ v \in Seq(Plain) /\ w \in Seq(Plain)
  BY <1>3
<1>7. Leads(t, "kept", u, "kept")
  <2> DEFINE a == <<"kept", "kept", "kept">>
  <2>1. Fits(t, u, a)
    BY <1>4, SuiteOutcomes DEF Fits
  <2>2. a \in [1..3 -> Stands] /\ Len(u) = 2
    BY <1>1
  <2> QED
    BY <2>1, <2>2 DEF Leads
<1>8. Leads(t, "kept", v, "kept") /\ Leads(t, "kept", w, "kept")
  BY <1>1, <1>4, SuiteOutcomes, LeadsOne, LeadsNone
<1> HIDE DEF u, v, w
<1>9. u \o v \in Seq(Plain) /\ Leads(t, "kept", u \o v, "kept")
  BY <1>6, <1>7, <1>8, LeadsJoin, PlainJoin
<1>10. u \o v \o w \in Seq(Plain) /\ Leads(t, "kept", u \o v \o w, "kept")
  BY <1>6, <1>8, <1>9, LeadsJoin, PlainJoin
<1> QED
  BY <1>5, <1>10

(* The other phases are such scripts.                                      *)
LEMMA PlainPhases ==
    ASSUME NEW t \in Names
    PROVE  /\ Phase3 \in Seq(Plain) /\ Phase4(t) \in Seq(Plain) /\ Phase5(t) \in Seq(Plain)
           /\ Phase8(t) \in Seq(Plain) /\ Phase9(t) \in Seq(Plain) /\ Phase10(t) \in Seq(Plain)
           /\ Phase11(t) \in Seq(Plain) /\ Phase12(t) \in Seq(Plain)
<1> USE DEF Known, Modes
<1>1. /\ Absent \in Known /\ Temp \in Known /\ Malformed \in Known /\ t \in Known
      /\ {"NotFound", "InvalidInterfaceName", "AlreadyMonitor"} \subseteq Refusals
  BY ProgramAssumption, SessionAssumption DEF Malformed, Refusals
<1>2. \A n \in Known, m \in {"managed", "monitor", "gone"} : See(n, m) \in Plain
  BY PlainSteps
<1>3. /\ On(t) \in Plain /\ Stop(t) \in Plain /\ Lookup(t) \in Plain /\ All \in Plain
      /\ Leave \in Plain /\ As(t, Temp) \in Plain
      /\ Give("restore") \in Plain /\ Give("persist") \in Plain
      /\ \A what \in Reckoning : Reckon(what, t) \in Plain /\ Reckon(what, NoName) \in Plain
      /\ Do("note", NoName) \in Plain /\ Do("quiet", NoName) \in Plain /\ Do("idle", t) \in Plain
  BY <1>1, PlainSteps
<1>4. \A s \in Plain, w \in Refusals \cup {"ok", "any"} : Expect(s, w) \in Plain
  BY PlainExpect
<1>5. Phase3 \in Seq(Plain)
  <2>1. Stop(Absent) \in Plain /\ Tuned(Absent, "usable") \in Plain /\ As(Absent, Malformed) \in Plain
    BY <1>1, PlainSteps
  <2> QED
    BY <1>1, <1>4, <2>1 DEF Phase3
<1>6. Phase4(t) \in Seq(Plain) /\ Phase9(t) \in Seq(Plain) /\ Phase10(t) \in Seq(Plain)
  BY <1>1, <1>2, <1>3, <1>4 DEF Phase4, Phase9, Phase10
<1>7. Phase5(t) \in Seq(Plain) /\ Phase12(t) \in Seq(Plain)
  BY <1>1, <1>2, <1>3, <1>4 DEF Phase5, Phase12
<1>8. Phase8(t) \in Seq(Plain)
  BY <1>1, <1>2, <1>3 DEF Phase8
<1>9. Phase11(t) \in Seq(Plain)
  BY <1>1, <1>2, <1>3 DEF Phase11, Reckoning
<1> QED
  BY <1>5, <1>6, <1>7, <1>8, <1>9

(* The suite of a candidate, whatever its hardware can do, is such a script,*)
(* and it comes from the radio as it was chosen to its end.                *)
LEMMA SuiteLeads ==
    ASSUME NEW t \in Names, NEW has
    PROVE  Suite(t, has) \in Seq(Plain) /\ Leads(t, "fresh", Suite(t, has), "bare")
<1> DEFINE u3 == Phase3
           u4 == Phase3 \o Phase4(t)
           u5 == u4 \o Phase5(t)
           u6 == u5 \o Phase6(t, has)
           u6b == u6 \o Phase6b(t, has)
           u7 == u6b \o Phase7(t, has)
           u8 == u7 \o Phase8(t)
           u9 == u8 \o Phase9(t)
           u10 == u9 \o Phase10(t)
           u11 == u10 \o Phase11(t)
           u12 == u11 \o Phase12(t)
<1>0. Suite(t, has) = u12
  BY DEF Suite
<1>1. u4 \in Seq(Plain) /\ Leads(t, "fresh", u4, "kept")
  BY PlainPhases, Phase3Leads, Phase4Leads, PlainJoin, LeadsJoin
<1> HIDE DEF u4
<1>2. u5 \in Seq(Plain) /\ Leads(t, "fresh", u5, "kept")
  BY <1>1, PlainPhases, Phase5Leads, PlainJoin, LeadsJoin
<1> HIDE DEF u5
<1>3. u6 \in Seq(Plain) /\ Leads(t, "fresh", u6, "kept")
  BY <1>2, Phase6Leads, PlainJoin, LeadsJoin
<1> HIDE DEF u6
<1>4. u6b \in Seq(Plain) /\ Leads(t, "fresh", u6b, "kept")
  BY <1>3, Phase6bLeads, PlainJoin, LeadsJoin
<1> HIDE DEF u6b
<1>5. u7 \in Seq(Plain) /\ Leads(t, "fresh", u7, "kept")
  BY <1>4, Phase7Leads, PlainJoin, LeadsJoin
<1> HIDE DEF u7
<1>6. u8 \in Seq(Plain) /\ Leads(t, "fresh", u8, "clean")
  BY <1>5, PlainPhases, Phase8Leads, PlainJoin, LeadsJoin
<1> HIDE DEF u8
<1>7. u9 \in Seq(Plain) /\ Leads(t, "fresh", u9, "clean")
  BY <1>6, PlainPhases, Phase9Leads, PlainJoin, LeadsJoin
<1> HIDE DEF u9
<1>8. u10 \in Seq(Plain) /\ Leads(t, "fresh", u10, "clean")
  BY <1>7, PlainPhases, Phase10Leads, PlainJoin, LeadsJoin
<1> HIDE DEF u10
<1>9. u11 \in Seq(Plain) /\ Leads(t, "fresh", u11, "bare")
  BY <1>8, PlainPhases, Phase11Leads, PlainJoin, LeadsJoin
<1> HIDE DEF u11
<1>10. u12 \in Seq(Plain) /\ Leads(t, "fresh", u12, "bare")
  BY <1>9, PlainPhases, Phase12Leads, PlainJoin, LeadsJoin
<1> QED
  BY <1>0, <1>10

(* A script that leads somewhere names no call the suite does not make.    *)
LEMMA LedCalls ==
    ASSUME NEW S, NEW s \in Seq(S), NEW t, NEW x, NEW y, Leads(t, x, s, y), NEW i \in 1..Len(s)
    PROVE  SuiteCall(s[i])
<1>1. PICK z, w, o : Turn(t, z, s[i], w, o)
  BY DEF Leads, Fits
<1> QED
  BY <1>1 DEF Turn, CallTurn, LookTurn, SuiteCall

(* A step of a call renames only its own radio: a start to the new name,   *)
(* and whatever undoes it back to the one it was found under.              *)
LEMMA Relabels ==
    ASSUME Base, ByStart, Step(Shell), NEW s \in Radios, label'[s] # label[s]
    PROVE  /\ s = radio[Shell]
           /\ \/ pc[Shell] = "rename" /\ op[Shell] = "as" /\ label'[s] = cur[Shell]
              \/ pc[Shell] = "undoName" /\ op[Shell] = "as" /\ label'[s] = orig[Shell]
              \/ /\ pc[Shell] = "renameBack" /\ op[Shell] \in {"restore", "drop"}
                 /\ label'[s] = orig[Shell]
<1> USE ShellIsCaller
<1>1. RenameOn(Shell) \/ UndoName(Shell) \/ RenameBack(Shell)
  BY DEF Step, TryNext, NmRelease, WpaFind, WpaDrop, SwitchOn, Confirm, Refind, Tune, UndoMode,
     GiveNm, GiveWpa, GiveWpaAdd, Rejected, RestoreFind, LeaveFind, SwitchOff, ConfirmOff,
     Handback, Finish, world, WorldButSpent
<1>2. ASSUME NEW n, NEW ok, Rename(radio[Shell], n, ok)
      PROVE  s = radio[Shell] /\ label'[s] = n
  BY <1>2 DEF Rename, Base, TypeOK, WorldTypeOK
<1>3. CASE RenameOn(Shell)
  BY <1>2, <1>3 DEF RenameOn, ByStart
<1>4. CASE UndoName(Shell)
  BY <1>2, <1>4 DEF UndoName, ByStart
<1>5. CASE RenameBack(Shell)
  BY <1>2, <1>5 DEF RenameBack, ByStart
<1> QED
  BY <1>1, <1>3, <1>4, <1>5

(* Without a failure no radio comes or goes.                               *)
LEMMA Attendance ==
    ASSUME Base, [ShellNext]_allVars, spent' = spent
    PROVE  Present' = Present
<1>0. spent \in Nat
  BY WorldAssumption DEF Base, TypeOK, WorldTypeOK
<1>1. CASE Issue \/ Library \/ Killed
  <2>1. Within(Shell)
    BY <1>1, CallUnderWay, ShellIsCaller, StepWithin DEF Calling, Base
  <2> QED
    BY <2>1 DEF Within, Present
<1>2. CASE Surroundings
  <2>1. \A s \in Radios : ~Unplug(s)
    BY <1>0 DEF Unplug, Fault
  <2> QED
    BY <1>2, <2>1 DEF Surroundings, Environment, PullBack, NmAdopt, NmDrop, Present, Base, TypeOK,
       WorldTypeOK
<1>3. ASSUME NEW service \in Services, Restart(service) PROVE UNCHANGED mode
  BY <1>3 DEF Restart, Revived, world, WorldButSpent
<1>4. CASE Look \/ Launch \/ RefuseName \/ Judge \/ Exit \/ UNCHANGED allVars
  BY <1>4 DEF Look, WorldButSpent, Launch, RefuseName, Judge, Exit, allVars, vars, world, Present
<1> QED
  BY <1>1, <1>2, <1>3, <1>4 DEF ShellNext, Work, Present

----------------------------------------------------------------------------
(* No interface is ever called by the name that is tried as an absent one. *)
LEMMA AbsentCall ==
    ASSUME Base, ByStart, ByName, AbsentInv, NEW s, Call(s)
    PROVE  AbsentInv'
<1> USE ShellIsCaller DEF Base, TypeOK, CallTypeOK, AbsentInv, Goto
<1>1. UNCHANGED label
  BY CallIsClient, ClientSpends
<1>2. Absent \notin Aliases
  BY ProgramAssumption
<1>9. pc[Shell] = "idle" => orig[Shell] # Absent /\ cur[Shell] # Absent
  BY ProgramAssumption, WorldAssumption DEF Rested
<1>3. ASSUME NEW kind, NEW n, NEW new, StartNamed(Shell, kind, n, new), new = n \/ new \in Aliases
      PROVE  AbsentInv'
  <2>1. CASE UNCHANGED <<pc, call>>
    BY <1>1, <2>1 DEF call
  <2>2. CASE ~UNCHANGED <<pc, call>>
    <3>1. PICK r \in Named(n) : op' = [op EXCEPT ![Shell] = kind] /\ Engage(Shell, r, n, new, FALSE)
      BY <1>3, <2>2 DEF StartNamed
    <3>2. r \in Radios /\ label[r] = n
      BY DEF Named, Present
    <3>3. orig'[Shell] = n /\ cur'[Shell] = new
      BY <3>1 DEF Engage
    <3> QED
      BY <1>1, <1>2, <1>3, <3>2, <3>3
  <2> QED
    BY <2>1, <2>2
<1>4. CASE StartAuto(Shell)
  <2>1. UNCHANGED <<op, orig, cur>> \/ pc'[Shell] = "next"
    BY <1>4 DEF StartAuto, call
  <2> QED
    BY <1>1, <1>4, <2>1, <1>9 DEF StartAuto, call
<1>5. CASE StopMonitor(Shell)
  BY <1>1, <1>5 DEF StopMonitor
<1>6. CASE StopAll(Shell)
  BY <1>1, <1>6 DEF StopAll, call, ByStart
<1>7. CASE Restore(Shell)
  BY <1>1, <1>7 DEF Restore
<1>8. CASE Persist(Shell)
  BY <1>1, <1>8 DEF Persist, Return
<1> QED
  BY <1>3, <1>4, <1>5, <1>6, <1>7, <1>8 DEF Call

(* Nor does any other step call one so.                                    *)
LEMMA AbsentStep ==
    ASSUME Base, ByStart, ByName, AbsentInv, [ShellNext]_allVars
    PROVE  AbsentInv'
<1> USE ShellIsCaller DEF Base, TypeOK, CallTypeOK, AbsentInv, Goto
<1>1. CASE Issue
  BY <1>1, AbsentCall DEF Issue
<1>2. CASE Killed
  BY <1>2 DEF Killed, Kill, Return, WorldButSpent
<1>3. CASE ~Issue /\ ~Library /\ ~Killed
  BY <1>3, BetweenCalls DEF Aside
<1>4. CASE Step(Shell)
  <2>1. ASSUME NEW r \in Radios PROVE label'[r] # Absent
    BY <1>4, <2>1, Relabels
  <2>2. CASE TryNext(Shell)
    <3>1. op[Shell] = "auto"
      BY <2>2 DEF TryNext, ByStart, Starting, Starts
    <3>2. PICK c \in todo[Shell] : Engage(Shell, c[1], c[2], c[2], Stale(c))
      BY <2>2 DEF TryNext
    <3>3. c[1] \in Radios /\ label[c[1]] = c[2]
      BY <3>1 DEF ByName
    <3>4. orig'[Shell] = c[2] /\ cur'[Shell] = c[2]
      BY <3>2 DEF Engage
    <3> QED
      BY <2>1, <3>3, <3>4
  <2>3. CASE Finish(Shell)
    <3>1. CASE Return(Shell)
      BY <2>1, <3>1 DEF Return
    <3>2. ASSUME NEW c \in todo[Shell], UNCHANGED op,
                 Engage(Shell, NoRadio, c[2], c[2], FALSE), Goto(Shell, "leaveFind")
          PROVE  AbsentInv'
      <4>1. c[1] \in Radios /\ orig'[Shell] = c[2] /\ cur'[Shell] = c[2]
        BY <3>2 DEF Engage
      <4>2. op[Shell] \in {"auto", "all"} /\ (op[Shell] = "auto" => label[c[1]] = c[2])
        BY DEF ByStart, ByName
      <4> QED
        BY <2>1, <3>2, <4>1, <4>2
    <3> QED
      BY <2>3, <3>1, <3>2 DEF Finish
  <2>4. CASE Tune(Shell)
    BY <2>1, <2>4 DEF Tune, ByStart, Starting, Starts
  <2>5. CASE Rejected(Shell)
    BY <2>1, <2>5 DEF Rejected, Return, call
  <2>6. CASE Refind(Shell) \/ RestoreFind(Shell) \/ LeaveFind(Shell)
    BY <2>1, <2>6 DEF Refind, RestoreFind, LeaveFind, LeaveFrom, Resolve, Engage
  <2>7. CASE \/ NmRelease(Shell) \/ WpaFind(Shell) \/ WpaDrop(Shell) \/ SwitchOn(Shell)
             \/ Confirm(Shell) \/ RenameOn(Shell) \/ UndoName(Shell) \/ UndoMode(Shell)
    BY <2>1, <2>7 DEF NmRelease, WpaFind, WpaDrop, SwitchOn, Confirm, RenameOn, UndoName, UndoMode,
       call
  <2>8. CASE \/ GiveNm(Shell) \/ GiveWpa(Shell) \/ GiveWpaAdd(Shell) \/ RenameBack(Shell)
             \/ SwitchOff(Shell) \/ ConfirmOff(Shell) \/ Handback(Shell)
    BY <2>1, <2>8 DEF GiveNm, GiveWpa, GiveWpaAdd, Reclaimed, RenameBack, SwitchOff, ConfirmOff,
       Handback, call
  <2> QED
    BY <1>4, <2>2, <2>3, <2>4, <2>5, <2>6, <2>7, <2>8 DEF Step
<1> QED
  BY <1>1, <1>2, <1>3, <1>4 DEF Library

(* The temporary name where the suite does not expect it.                  *)
Misnamed(q) == q \in Present /\ label[q] = Temp /\ (q # radio[Shell] \/ orig[Shell] = Temp)

(* The suite meets the temporary name where it does not expect it.         *)
LEMMA MeetsTheName == ~TempIsOurs <=> \E q \in Radios : Misnamed(q)
BY DEF TempIsOurs, Misnamed, Present

(* The suite's calls end in the steps it starts with.                      *)
LEMMA OwnCallsLeft ==
    ASSUME script \in Seq(Plain), script # <<>>, \A i \in 1..Len(script) : SuiteCall(script[i])
    PROVE  /\ SuiteCall(Head(script))
           /\ \A i \in 1..Len(Tail(script)) : SuiteCall(Tail(script)[i])
           /\ \A i \in 1..Len(Unwind) : SuiteCall(Unwind[i])
           /\ \A i \in 1..Len(Unwind \o Tail(script)) : SuiteCall((Unwind \o Tail(script))[i])
<1>1. /\ Len(script) \in Nat /\ Len(script) > 0 /\ Len(Tail(script)) = Len(script) - 1
      /\ Head(script) = script[1] /\ Tail(script) \in Seq(Plain)
      /\ \A i \in 1..Len(script) - 1 : Tail(script)[i] = script[i + 1]
  BY HeadTailProperties, LenProperties, EmptySeq
<1>2. SuiteCall(Head(script))
  BY <1>1
<1>3. ASSUME NEW i \in 1..Len(Tail(script)) PROVE SuiteCall(Tail(script)[i])
  BY <1>1
<1>4. Unwind \in Seq(Plain) /\ Len(Unwind) \in Nat /\ \A i \in 1..Len(Unwind) : SuiteCall(Unwind[i])
  <2>1. SuiteCall(Leave)
    BY DEF SuiteCall, Leave, Expect, Give, Do
  <2>2. Unwind \in Seq(Plain)
    BY PlainLeft
  <2>3. Unwind = <<>> \/ Unwind = <<Leave>>
    BY DEF Unwind
  <2>4. \A i \in 1..Len(<<Leave>>) : <<Leave>>[i] = Leave
    OBVIOUS
  <2>5. \A i \in 1..Len(Unwind) : SuiteCall(Unwind[i])
    <3>1. CASE Unwind = <<>>
      BY <3>1
    <3>2. CASE Unwind = <<Leave>>
      BY <2>1, <2>4, <3>2
    <3> QED
      BY <2>3, <3>1, <3>2
  <2> QED
    BY <2>2, <2>5, LenProperties
<1>5. ASSUME NEW i \in 1..Len(Unwind \o Tail(script)) PROVE SuiteCall((Unwind \o Tail(script))[i])
  <2> DEFINE m == Len(Unwind)
             n == Len(Tail(script))
             w == Unwind \o Tail(script)
  <2>1. /\ m \in Nat /\ n \in Nat /\ Len(w) = m + n
        /\ \A k \in 1..m : w[k] = Unwind[k]
    BY <1>1, <1>4, ConcatProperties, LenProperties
  <2>2. \A k \in 1..m + n : k > m => w[k] = Tail(script)[k - m]
    BY <1>1, <1>4, ConcatProperties, LenProperties
  <2> HIDE DEF w
  <2>3. CASE i <= m
    <3>1. i \in 1..m
      BY <1>5, <2>1, <2>3 DEF w
    <3> QED
      BY <1>4, <2>1, <3>1 DEF w
  <2>4. CASE i > m
    <3>1. i - m \in 1..n /\ i \in 1..m + n
      BY <1>5, <2>1, <2>4 DEF w
    <3>2. w[i] = Tail(script)[i - m]
      BY <2>2, <2>4, <3>1
    <3> QED
      BY <1>3, <3>1, <3>2 DEF w
  <2>5. i \in Nat
    BY <1>5, <2>1 DEF w
  <2> QED
    BY <2>1, <2>3, <2>4, <2>5
<1> QED
  BY <1>2, <1>3, <1>4, <1>5

(* A call under way began after its program did: a program is launched     *)
(* between calls.                                                          *)
LEMMA BeganStep ==
    ASSUME Base, Observed, ProgramInv, ByScript, launched \in Nat, launched <= spent, Began,
           [ShellNext]_allVars
    PROVE  Began'
<1> USE ShellIsCaller DEF Began, Base, TypeOK, CallTypeOK
<1>0. spent \in Nat /\ begun \in Nat
  BY NeverForgiven DEF Base, Observed
<1>1. CASE Launch
  <2>1. pc'[Shell] = "idle"
    BY <1>1 DEF Launch, ByScript, vars
  <2> QED
    BY <2>1
<1>2. CASE Issue
  BY <1>0, <1>2 DEF Issue, progress
<1>3. CASE Library
  BY <1>3, StepUnderWay DEF Library, progress
<1>4. CASE Killed
  BY <1>4 DEF Killed, Kill, Return, Goto
<1>5. CASE RefuseName \/ Look \/ Judge \/ Exit \/ Surroundings \/ UNCHANGED allVars
  <2>1. UNCHANGED <<launched, begun, pc>>
    BY <1>5 DEF RefuseName, Look, Judge, Exit, Surroundings, allVars, shellVars, progress, vars
  <2> QED
    BY <2>1
<1>6. ASSUME NEW service \in Services, Restart(service) PROVE Began'
  BY <1>6 DEF Restart, progress
<1> QED
  BY <1>1, <1>2, <1>3, <1>4, <1>5, <1>6 DEF ShellNext, Work

(* The name a call of the suite asks for.                                  *)
OwnName == op[Shell] # "auto" /\ (op[Shell] = "as" => cur[Shell] = Temp)

(* A step of one of the suite's calls keeps it one of them,                *)
LEMMA OwnNameStep ==
    ASSUME Base, ByStart, OwnName, Step(Shell)
    PROVE  OwnName'
<1> USE ShellIsCaller DEF Base, TypeOK, CallTypeOK, OwnName, Goto
<1>1. CASE TryNext(Shell)
  BY <1>1 DEF TryNext, ByStart, Starting, Starts
<1>2. CASE Finish(Shell)
  <2>1. CASE Return(Shell)
    BY <2>1 DEF Return
  <2>2. ASSUME todo[Shell] # {}, UNCHANGED op PROVE OwnName'
    BY <2>2 DEF ByStart
  <2> QED
    BY <1>2, <2>1, <2>2 DEF Finish
<1>3. CASE Tune(Shell)
  BY <1>3 DEF Tune
<1>4. CASE Rejected(Shell)
  BY <1>4 DEF Rejected, Return, call
<1>5. CASE Refind(Shell) \/ RestoreFind(Shell) \/ LeaveFind(Shell)
  BY <1>5 DEF Refind, RestoreFind, LeaveFind, Resolve, Engage
<1>6. CASE \/ NmRelease(Shell) \/ WpaFind(Shell) \/ WpaDrop(Shell) \/ SwitchOn(Shell)
           \/ Confirm(Shell) \/ RenameOn(Shell) \/ UndoName(Shell) \/ UndoMode(Shell)
  BY <1>6 DEF NmRelease, WpaFind, WpaDrop, SwitchOn, Confirm, RenameOn, UndoName, UndoMode, call
<1>7. CASE \/ GiveNm(Shell) \/ GiveWpa(Shell) \/ GiveWpaAdd(Shell) \/ RenameBack(Shell)
           \/ SwitchOff(Shell) \/ ConfirmOff(Shell) \/ Handback(Shell)
  BY <1>7 DEF GiveNm, GiveWpa, GiveWpaAdd, RenameBack, SwitchOff, ConfirmOff, Handback, call
<1> QED
  BY <1>1, <1>2, <1>3, <1>4, <1>5, <1>6, <1>7 DEF Step

(* and they begin so.                                                      *)
LEMMA OwnNameCall ==
    ASSUME Base, ByStart, OwnName, NEW s, SuiteCall(s), Call(s)
    PROVE  OwnName'
<1> USE ShellIsCaller DEF Base, TypeOK, CallTypeOK, OwnName, Goto
<1>1. s.do # "auto" /\ (s.do = "as" /\ s.new \in Aliases => s.new = Temp)
  BY WorldAssumption, SessionAssumption DEF SuiteCall, Malformed
<1>2. ASSUME NEW kind, NEW n, NEW new, StartNamed(Shell, kind, n, new), kind # "auto",
             kind = "as" => new = Temp
      PROVE  OwnName'
  <2>1. CASE UNCHANGED <<pc, call>>
    BY <2>1 DEF call
  <2>2. CASE ~UNCHANGED <<pc, call>>
    <3>1. PICK r \in Named(n) : op' = [op EXCEPT ![Shell] = kind] /\ Engage(Shell, r, n, new, FALSE)
      BY <1>2, <2>2 DEF StartNamed
    <3> QED
      BY <1>2, <3>1 DEF Engage
  <2> QED
    BY <2>1, <2>2
<1>3. CASE StopMonitor(Shell) \/ Restore(Shell)
  BY <1>3 DEF StopMonitor, Restore
<1>4. CASE StopAll(Shell)
  BY <1>4 DEF StopAll, call
<1>5. CASE Persist(Shell)
  BY <1>5 DEF Persist, Return
<1>6. ~StartAuto(Shell) \/ s.do # "auto"
  BY <1>1
<1>7. CASE s.do = "as" /\ s.new \in Aliases /\ StartNamed(Shell, "as", s.name, s.new)
  BY <1>1, <1>2, <1>7
<1>8. CASE s.do = "on" /\ StartNamed(Shell, "on", s.name, s.name)
  BY <1>2, <1>8
<1> QED
  BY <1>1, <1>3, <1>4, <1>5, <1>7, <1>8 DEF Call

(* The suite keeps to its calls, from the choice of its radio on.          *)
LEMMA OwnCallsStep ==
    ASSUME Base, ProgramInv, ByScript, OwnCalls, [ShellNext]_allVars
    PROVE  OwnCalls'
<1> USE ShellIsCaller
<1> DEFINE own == \A i \in 1..Len(script) : SuiteCall(script[i])
<1>1. OwnCalls <=> (program = "suite" => own /\ OwnName)
  BY DEF OwnCalls, OwnName
<1>2. OwnCalls' <=> (program' = "suite" => own' /\ OwnName')
  BY DEF OwnCalls, OwnName
<1>3. ByStart
  BY DEF ProgramInv
<1>4. program = "suite" /\ script # <<>> => script \in Seq(Plain)
  BY HeadOfScript
<1> HIDE DEF own
<1>5. CASE Issue
  <2>1. UNCHANGED <<program, script>> /\ script # <<>>
    BY <1>5 DEF Issue, progress, Ready
  <2>2. own' <=> own
    BY <2>1 DEF own
  <2>3. program = "suite" => SuiteCall(Head(script))
    BY <1>1, <1>4, <2>1, OwnCallsLeft DEF own
  <2>4. Call(Head(script))
    BY <1>5 DEF Issue
  <2> QED
    BY <1>1, <1>2, <1>3, <2>1, <2>2, <2>3, <2>4, OwnNameCall
<1>6. CASE Library
  <2>1. UNCHANGED <<program, script>> /\ Step(Shell)
    BY <1>6 DEF Library, progress
  <2>2. own' <=> own
    BY <2>1 DEF own
  <2> QED
    BY <1>1, <1>2, <1>3, <2>1, <2>2, OwnNameStep
<1>7. CASE Launch
  <2>1. program' # "suite"
    BY <1>7, ProgramAssumption DEF Launch, AllCommands
  <2> QED
    BY <1>2, <2>1
<1>8. CASE Killed \/ Exit
  BY <1>2, <1>8 DEF Killed, Exit
<1>9. CASE RefuseName \/ Look \/ Surroundings \/ UNCHANGED allVars
  <2>1. UNCHANGED <<program, script, op, cur>>
    BY <1>9 DEF RefuseName, Look, Surroundings, allVars, shellVars, progress, vars, call
  <2> QED
    BY <1>1, <1>2, <2>1 DEF own, OwnName
<1>10. ASSUME NEW service \in Services, Restart(service) PROVE OwnCalls'
  <2>1. program' # "suite"
    BY <1>10, RestartIsResets DEF ProgramInv, Restart, progress
  <2> QED
    BY <1>2, <2>1
<1>11. CASE Judge
  <2> DEFINE s == Head(script)
             aborts == s.must /\ outcome \in Refusals
             chosen == s.do = "select" /\ ~aborts
  <2>1. /\ UNCHANGED <<op, cur, pc>> /\ outcome \notin {"ready", "pending"}
        /\ program' = IF chosen THEN "suite" ELSE program
        /\ \/ aborts /\ script' = Unwind
           \/ ~aborts /\ ~s.must /\ s.do \in Starts /\ script' = Unwind \o Tail(script)
           \/ chosen /\ \E has \in Hardware : script' = Suite(outcome, has)
           \/ ~aborts /\ ~chosen /\ (s.must \/ s.do \notin Starts) /\ script' = Tail(script)
    BY <1>11 DEF Judge, vars, call
  <2>2. script # <<>>
    BY <2>1 DEF ByScript
  <2>3. CASE program = "suite"
    <3>1. script \in Seq(Plain) /\ s.do \in Doings
      BY <2>2, <2>3, HeadOfScript
    <3>2. script' \in {Unwind, Unwind \o Tail(script), Tail(script)}
      BY <2>1, <3>1 DEF Doings, Starts, Detecting, Reckoning, Asking
    <3>3. own'
      BY <1>1, <2>2, <2>3, <3>1, <3>2, OwnCallsLeft DEF own
    <3> QED
      BY <1>1, <1>2, <2>1, <2>3, <3>3 DEF OwnName
  <2>4. CASE program = "full_cycle"
    <3>1. /\ pc[Shell] = "idle" /\ s.do = "select" /\ s.must /\ outcome \in Refusals \cup Names
      BY <2>1, <2>2, <2>4, HeadOfScript DEF SelectPoint, ByScript
    <3>2. CASE aborts
      BY <1>2, <2>1, <2>4, <3>2
    <3>3. CASE ~aborts
      <4>1. PICK has \in Hardware : script' = Suite(outcome, has)
        BY <2>1, <3>1, <3>3
      <4>2. Suite(outcome, has) \in Seq(Plain) /\ Leads(outcome, "fresh", Suite(outcome, has), "bare")
        BY <3>1, <3>3, SuiteLeads
      <4>3. own'
        BY <4>1, <4>2, LedCalls DEF own
      <4>4. OwnName
        BY <1>3, <3>1 DEF OwnName, ByStart
      <4> QED
        BY <1>2, <2>1, <4>3, <4>4 DEF OwnName
    <3> QED
      BY <3>2, <3>3
  <2>5. CASE program \notin {"suite", "full_cycle"}
    <3>1. s.do # "select"
      <4>1. CASE program = "reset"
        BY <2>2, <4>1, HeadOfScript, ResetSteps
      <4>2. CASE program # "reset"
        BY <2>2, <2>5, <4>2, HeadOfScript DEF Doings, Starts, Detecting, Reckoning, Asking
      <4> QED
        BY <4>1, <4>2
    <3> QED
      BY <1>2, <2>1, <2>5, <3>1
  <2> QED
    BY <2>3, <2>4, <2>5
<1> QED
  BY <1>5, <1>6, <1>7, <1>8, <1>9, <1>10, <1>11 DEF ShellNext, Work

(* While the suite runs no program is launched, and no service restarted.  *)
LEMMA SuiteGoesOn ==
    ASSUME Base, Between, ByScript, program = "suite", program' = "suite", [ShellNext]_allVars
    PROVE  /\ UNCHANGED <<launched, running>> /\ ~Killed
           /\ Issue \/ Library \/ RefuseName \/ Look \/ Judge \/ Surroundings \/ UNCHANGED allVars
<1> USE ShellIsCaller
<1>1. ~Launch /\ ~Killed /\ ~Exit
  BY DEF Launch, Killed, Exit
<1>2. ASSUME NEW service \in Services, Restart(service) PROVE FALSE
  BY <1>2, RestartIsResets
<1>3. Issue \/ Library \/ RefuseName \/ Look \/ Judge \/ Surroundings \/ UNCHANGED allVars
  BY <1>1, <1>2 DEF ShellNext, Work
<1>4. UNCHANGED launched
  <2>1. CASE Issue \/ Library \/ RefuseName \/ Look
    BY <2>1 DEF Issue, Library, RefuseName, Look, progress
  <2>2. CASE Judge \/ Surroundings \/ UNCHANGED allVars
    BY <2>2 DEF Judge, Surroundings, allVars, shellVars, progress
  <2> QED
    BY <1>3, <2>1, <2>2
<1> SUFFICES UNCHANGED running
  BY <1>1, <1>3, <1>4
<1>5. CASE Issue
  BY <1>5, CallIsClient, ClientSpends DEF Issue, Base
<1>6. CASE Library
  <2>1. Step(Shell)
    BY <1>6 DEF Library
  <2> QED
    BY <2>1 DEF Step, TryNext, NmRelease, WpaFind, WpaDrop, SwitchOn, Confirm, RenameOn, Refind, Tune,
       UndoName, UndoMode, GiveNm, GiveWpa, GiveWpaAdd, Rejected, RestoreFind, RenameBack, LeaveFind,
       SwitchOff, ConfirmOff, Handback, Finish, world, WorldButSpent
<1>7. CASE RefuseName \/ Look \/ Judge \/ Surroundings \/ UNCHANGED allVars
  <2>1. CASE Surroundings
    BY <2>1 DEF Surroundings, Environment, PullBack, NmAdopt, NmDrop, Unplug
  <2> QED
    BY <1>7, <2>1 DEF RefuseName, Look, Judge, allVars, vars, world, WorldButSpent
<1> QED
  BY <1>1, <1>3, <1>4, <1>5, <1>6, <1>7

(* A call of the suite that fails nowhere does not part with the temporary *)
(* name where the suite does not expect it.                                *)
LEMMA MisnamedStep ==
    ASSUME Base, ByStart, OwnName, Step(Shell), spent' = spent,
           pc[Shell] \in AfterRename => cur[Shell] = orig[Shell],
           NEW q \in Radios, Misnamed(q)
    PROVE  Misnamed(q)'
<1> USE ShellIsCaller DEF Base, TypeOK, CallTypeOK
<1>1. q # NoRadio
  BY SessionAssumption
<1>2. mode'[q] # "gone"
  BY StepWithin DEF Within, Misnamed, Present
<1>3. label'[q] = Temp
  <2> SUFFICES ASSUME label'[q] # label[q] PROVE FALSE
    BY DEF Misnamed
  <2>1. q = radio[Shell] /\ orig[Shell] = Temp
    BY Relabels DEF Misnamed
  <2>2. label'[q] = Temp
    <3>1. CASE pc[Shell] = "rename" /\ op[Shell] = "as" /\ label'[q] = cur[Shell]
      BY <3>1 DEF OwnName
    <3> QED
      BY <2>1, <3>1, Relabels
  <2> QED
    BY <2>2 DEF Misnamed
<1> SUFFICES q # radio'[Shell] \/ orig'[Shell] = Temp
  BY <1>2, <1>3 DEF Misnamed, Present
<1>4. q # radio[Shell] \/ orig[Shell] = Temp
  BY DEF Misnamed
<1>5. ASSUME NEW n, NEW r \in Named(n), Resolve(Shell, r), n = orig[Shell]
      PROVE  q # radio'[Shell] \/ orig'[Shell] = Temp
  <2>1. radio'[Shell] = r /\ orig'[Shell] = orig[Shell] /\ label[r] = n
    BY <1>5, Engaged DEF Resolve, Named
  <2> QED
    BY <1>5, <2>1 DEF Misnamed
<1>6. CASE UNCHANGED <<radio, orig>>
  BY <1>4, <1>6
<1>7. CASE TryNext(Shell)
  BY <1>7 DEF TryNext, ByStart, Starting, Starts, OwnName
<1>8. CASE Finish(Shell) \/ Rejected(Shell)
  <2>1. CASE UNCHANGED call
    BY <1>6, <2>1 DEF call
  <2>2. CASE Return(Shell)
    BY <1>1, <2>2 DEF Return
  <2>3. ASSUME NEW c, Engage(Shell, NoRadio, c, c, FALSE) PROVE radio'[Shell] = NoRadio
    BY <2>3, Engaged
  <2> QED
    BY <1>1, <1>8, <2>1, <2>2, <2>3 DEF Finish, Rejected
<1>9. CASE Refind(Shell)
  BY <1>5, <1>6, <1>9 DEF Refind, AfterRename
<1>10. CASE RestoreFind(Shell)
  BY <1>6, <1>10 DEF RestoreFind, AfterRename
<1>11. CASE LeaveFind(Shell)
  BY <1>5, <1>6, <1>11 DEF LeaveFind
<1>12. CASE \/ NmRelease(Shell) \/ WpaFind(Shell) \/ WpaDrop(Shell) \/ SwitchOn(Shell)
            \/ Confirm(Shell) \/ RenameOn(Shell) \/ UndoName(Shell) \/ UndoMode(Shell) \/ Tune(Shell)
  BY <1>6, <1>12 DEF NmRelease, WpaFind, WpaDrop, SwitchOn, Confirm, RenameOn, UndoName, UndoMode,
     Tune, call
<1>13. CASE \/ GiveNm(Shell) \/ GiveWpa(Shell) \/ GiveWpaAdd(Shell) \/ RenameBack(Shell)
            \/ SwitchOff(Shell) \/ ConfirmOff(Shell) \/ Handback(Shell)
  BY <1>6, <1>13 DEF GiveNm, GiveWpa, GiveWpaAdd, RenameBack, SwitchOff, ConfirmOff, Handback, call
<1> QED
  BY <1>7, <1>8, <1>9, <1>10, <1>11, <1>12, <1>13 DEF Step

(* Nor does the beginning of one.                                          *)
LEMMA MisnamedCall ==
    ASSUME Base, NEW s, Call(s), NEW q \in Radios, Misnamed(q)
    PROVE  Misnamed(q)'
<1> USE ShellIsCaller DEF Base, TypeOK, CallTypeOK
<1>1. q # NoRadio
  BY SessionAssumption
<1>2. UNCHANGED <<mode, label>>
  BY CallIsClient, ClientSpends
<1> SUFFICES q # radio'[Shell] \/ orig'[Shell] = Temp
  BY <1>2 DEF Misnamed, Present
<1>3. CASE UNCHANGED <<radio, orig>>
  BY <1>3 DEF Misnamed
<1>4. ASSUME NEW kind, NEW n, NEW new, StartNamed(Shell, kind, n, new)
      PROVE  q # radio'[Shell] \/ orig'[Shell] = Temp
  <2>1. CASE UNCHANGED <<pc, call>>
    BY <1>3, <2>1 DEF call
  <2>2. CASE ~UNCHANGED <<pc, call>>
    <3>1. PICK r \in Named(n) : Engage(Shell, r, n, new, FALSE)
      BY <1>4, <2>2 DEF StartNamed
    <3>2. radio'[Shell] = r /\ orig'[Shell] = n /\ label[r] = n
      BY <3>1, Engaged DEF Named
    <3> QED
      BY <3>2 DEF Misnamed
  <2> QED
    BY <2>1, <2>2
<1>5. CASE StopMonitor(Shell)
  <2>1. PICK n \in Names : Engage(Shell, NoRadio, n, n, FALSE)
    BY <1>5 DEF StopMonitor
  <2> QED
    BY <1>1, <2>1, Engaged
<1>6. CASE StartAuto(Shell) \/ StopAll(Shell) \/ Restore(Shell)
  BY <1>3, <1>6 DEF StartAuto, StopAll, Restore, call
<1>7. CASE Persist(Shell)
  BY <1>1, <1>7 DEF Persist, Return
<1> QED
  BY <1>4, <1>5, <1>6, <1>7 DEF Call

(* What the suite has learnt of its own calls.                             *)
SuiteKnown ==
    /\ Base /\ Observed /\ ProgramInv /\ TerminalInv /\ launched \in Nat
    /\ AbsentInv /\ Began /\ OwnCalls /\ Unmoved

(* Where the suite is calm it has been so before: neither a failure nor the *)
(* temporary name on another radio goes away while it runs.                *)
LEMMA CalmBefore ==
    ASSUME SuiteKnown, program = "suite", program' = "suite", [ShellNext]_allVars, Calm'
    PROVE  Calm /\ spent' = spent
<1> USE DEF SuiteKnown
<1>1. UNCHANGED <<launched, running>>
  BY SuiteGoesOn DEF ProgramInv, TerminalInv
<1>2. spent' = spent /\ spent = launched
  BY <1>1, NeverForgiven DEF Base, Calm, TerminalInv, ByReset
<1>3. TempIsOurs
  <2> SUFFICES ASSUME ~TempIsOurs PROVE ~TempIsOurs'
    BY DEF Calm
  <2>1. PICK q \in Radios : Misnamed(q)
    BY MeetsTheName
  <2>2. pc[Shell] \in AfterRename => cur[Shell] = orig[Shell]
    BY <1>2 DEF Unmoved
  <2>3. Misnamed(q)'
    <3>1. CASE Issue
      BY <2>1, <3>1, MisnamedCall DEF Issue
    <3>2. CASE Library
      BY <1>2, <2>1, <2>2, <3>2, MisnamedStep DEF Library, ProgramInv, OwnCalls, OwnName
    <3>3. CASE ~Issue /\ ~Library
      <4>1. UNCHANGED <<radio, orig, label>>
        BY <3>3, SuiteGoesOn, BetweenCalls DEF Aside, ProgramInv, TerminalInv
      <4>2. Present' = Present
        BY <1>2, Attendance
      <4> QED
        BY <2>1, <4>1, <4>2 DEF Misnamed
    <3> QED
      BY <3>1, <3>2, <3>3
  <2> QED
    BY <2>3 DEF TempIsOurs, Misnamed
<1> QED
  BY <1>1, <1>2, <1>3 DEF Calm

(* A name resolves to the radio a call has under it, if that is there.     *)
LEMMA SameRadio ==
    ASSUME Base, radio[Shell] \in Radios, NEW n, label[radio[Shell]] = n, NEW r \in Named(n)
    PROVE  r = radio[Shell] \/ radio[Shell] \notin Present
BY OneOfAName DEF Base, Present

(* Where the suite meets the name that another suite left, a call of its   *)
(* own is past its rename only if it asked for no new name.                *)
LEMMA UnmovedCall ==
    ASSUME Base, ByStart, Between, outcome = "ready", NEW s, Call(s), spent' = spent,
           pc'[Shell] \in AfterRename, ~TempIsOurs'
    PROVE  pc[Shell] \in AfterRename /\ ~TempIsOurs /\ UNCHANGED <<cur, orig>>
<1> USE ShellIsCaller DEF Base, TypeOK, CallTypeOK, AfterRename, Goto
<1>1. UNCHANGED <<mode, label>>
  BY CallIsClient, ClientSpends
<1>2. pc[Shell] \in {"idle", "open"}
  BY DEF Between
<1>3. Restore(Shell)
  <2>1. ASSUME NEW kind, NEW n, NEW new, StartNamed(Shell, kind, n, new) PROVE FALSE
    BY <2>1 DEF StartNamed
  <2>2. ~StartAuto(Shell) /\ ~StopMonitor(Shell) /\ ~StopAll(Shell)
    BY DEF StartAuto, StopMonitor, StopAll
  <2>3. ~Persist(Shell)
    BY DEF Persist, Return
  <2> QED
    BY <2>1, <2>2, <2>3 DEF Call
<1> QED
  BY <1>1, <1>3 DEF Restore, TempIsOurs, Present

(* Its steps reach no such point otherwise.                                *)
LEMMA UnmovedLibrary ==
    ASSUME Base, ByStart, ByName, OwnName, Step(Shell), spent' = spent,
           pc[Shell] = "refind" => Named(cur[Shell]) \subseteq {radio[Shell]},
           pc[Shell] \in AfterRename /\ ~TempIsOurs => cur[Shell] = orig[Shell],
           pc'[Shell] \in AfterRename, ~TempIsOurs'
    PROVE  cur'[Shell] = orig'[Shell]
<1> USE ShellIsCaller DEF Base, TypeOK, CallTypeOK, AfterRename, Goto
<1>0. PICK q \in Radios : Misnamed(q)'
  BY DEF TempIsOurs, Misnamed, Present
<1>1. mode[q] # "gone"
  BY <1>0, StepWithin DEF Within, Misnamed, Present
<1>2. CASE RenameOn(Shell)
  <2>1. /\ pc[Shell] = "rename" /\ Rename(radio[Shell], cur[Shell], TRUE)
        /\ UNCHANGED <<mode, radio, orig, cur>>
    BY <1>2 DEF RenameOn, call
  <2>2. op[Shell] = "as" /\ cur[Shell] = Temp
    BY <2>1 DEF ByStart, OwnName
  <2>3. Named(Temp) \subseteq {radio[Shell]} /\ \A s \in Radios \ {radio[Shell]} : label'[s] = label[s]
    BY <2>1, <2>2 DEF Rename, WorldTypeOK
  <2>4. q = radio[Shell]
    BY <1>0, <1>1, <2>3 DEF Misnamed, Named, Present
  <2> QED
    BY <1>0, <2>1, <2>2, <2>4 DEF Misnamed
<1>3. CASE Confirm(Shell)
  <2>1. pc[Shell] = "confirm" /\ op[Shell] # "as" /\ UNCHANGED <<orig, cur>>
    BY <1>3 DEF Confirm, call
  <2> QED
    BY <2>1 DEF ByName, UnderOrig
<1>4. CASE Refind(Shell)
  <2>1. /\ pc[Shell] = "refind" /\ UNCHANGED <<mode, label>>
        /\ \E r \in Named(cur[Shell]) : Resolve(Shell, r)
    BY <1>4 DEF Refind, WorldButSpent
  <2>2. /\ UNCHANGED <<orig, cur>> /\ radio'[Shell] = radio[Shell]
        /\ Named(cur[Shell]) \subseteq {radio[Shell]}
    BY <2>1, Engaged DEF Resolve, Engage
  <2>3. cur[Shell] = Temp
    BY <2>1 DEF ByStart, OwnName
  <2>4. q \in Named(cur[Shell])
    BY <1>0, <1>1, <2>1, <2>3 DEF Misnamed, Named, Present
  <2> QED
    BY <1>0, <2>2, <2>3, <2>4 DEF Misnamed
<1>5. CASE Tune(Shell)
  <2>1. pc[Shell] = "tune" /\ UNCHANGED <<mode, label, radio, orig, cur>>
    BY <1>5 DEF Tune, world
  <2>2. ~TempIsOurs
    BY <2>1 DEF TempIsOurs, Present
  <2> QED
    BY <2>1, <2>2
<1>6. CASE RestoreFind(Shell)
  <2>1. /\ pc[Shell] = "restore" /\ cur[Shell] # orig[Shell] /\ UNCHANGED <<mode, label>>
        /\ \E r \in Named(cur[Shell]) : Resolve(Shell, r)
    BY <1>6 DEF RestoreFind, WorldButSpent
  <2>2. PICK r \in Named(cur[Shell]) : radio'[Shell] = r /\ UNCHANGED orig
    BY <2>1, Engaged DEF Resolve, Engage
  <2>3. label[radio[Shell]] = cur[Shell] /\ radio[Shell] \in Radios
    BY <2>1, Equipment DEF ByName, Unresolved, Unnamed
  <2>4. TempIsOurs
    BY <2>1
  <2>5. radio[Shell] \notin Present
    BY <1>0, <1>1, <2>1, <2>2, <2>3, <2>4, SameRadio DEF TempIsOurs, Misnamed, Present
  <2>6. q = radio[Shell]
    BY <1>0, <1>1, <2>1, <2>4 DEF TempIsOurs, Misnamed, Present
  <2> QED
    BY <1>1, <2>5, <2>6 DEF Present
<1>7. CASE \/ TryNext(Shell) \/ Rejected(Shell) \/ UndoName(Shell) \/ UndoMode(Shell) \/ Finish(Shell)
           \/ NmRelease(Shell) \/ WpaFind(Shell) \/ WpaDrop(Shell) \/ SwitchOn(Shell)
  <2>1. pc'[Shell] \in {"release", "next", "idle", "undoMode", "giveNm", "leaveFind", "wpaFind",
                        "wpaDrop", "switch", "confirm", "rejected"}
    BY <1>7 DEF TryNext, Rejected, UndoName, UndoMode, Finish, Return, NmRelease, WpaFind, WpaDrop,
       SwitchOn
  <2> QED
    BY <2>1
<1>8. CASE \/ GiveNm(Shell) \/ GiveWpa(Shell) \/ GiveWpaAdd(Shell) \/ RenameBack(Shell)
           \/ LeaveFind(Shell) \/ SwitchOff(Shell) \/ ConfirmOff(Shell) \/ Handback(Shell)
  <2>1. pc'[Shell] \in {"giveNm", "giveWpa", "giveWpaAdd", "rejected", "left", "failed", "leaveFind",
                        "unswitch", "unconfirm", "handback"}
    BY <1>8 DEF GiveNm, GiveWpa, GiveWpaAdd, RenameBack, LeaveFind, LeaveFrom, SwitchOff, ConfirmOff,
       Handback, Reclaimed
  <2> QED
    BY <2>1
<1> QED
  BY <1>2, <1>3, <1>4, <1>5, <1>6, <1>7, <1>8 DEF Step

(* So no step of the suite moves the name another one left.                *)
LEMMA UnmovedStep ==
    ASSUME SuiteKnown, program' = "suite", [ShellNext]_allVars
    PROVE  Unmoved'
<1> USE ShellIsCaller DEF SuiteKnown
<1> SUFFICES ASSUME spent' = launched', ~TempIsOurs', pc'[Shell] \in AfterRename
             PROVE  cur'[Shell] = orig'[Shell]
  BY DEF Unmoved
<1>1. CASE program # "suite"
  <2>1. Judge /\ script # <<>> /\ Head(script).do = "select"
    <3>1. Judge
      BY <1>1, ProgramAssumption DEF ShellNext, Work, Launch, Issue, RefuseName, Library, Look, Exit,
         Restart, Killed, Surroundings, allVars, shellVars, progress, AllCommands
    <3> QED
      BY <1>1, <3>1 DEF Judge, TerminalInv, ByScript
  <2>2. pc[Shell] = "idle"
    <3>1. program = "full_cycle"
      <4>1. CASE program = "reset"
        BY <2>1, <4>1, HeadOfScript, ResetSteps DEF TerminalInv
      <4>2. CASE program \notin {"reset", "full_cycle"}
        BY <2>1, <4>2, HeadOfScript DEF TerminalInv, Doings, Starts, Detecting, Reckoning, Asking
      <4> QED
        BY <4>1, <4>2
    <3> QED
      BY <3>1 DEF TerminalInv, ByScript, SelectPoint
  <2> QED
    BY <2>1, <2>2 DEF Judge, vars, AfterRename
<1>2. CASE program = "suite"
  <2>1. UNCHANGED launched /\ ~Killed
    BY <1>2, SuiteGoesOn DEF ProgramInv, TerminalInv
  <2>2. spent' = spent /\ spent = launched
    BY <2>1, NeverForgiven DEF Base, TerminalInv, ByReset
  <2>3. Unmoved /\ (pc[Shell] \in AfterRename /\ ~TempIsOurs => cur[Shell] = orig[Shell])
    BY <1>2, <2>2 DEF Unmoved
  <2>4. CASE Issue
    <3>1. Call(Head(script)) /\ outcome = "ready"
      BY <2>4 DEF Issue, Ready
    <3> QED
      BY <2>2, <2>3, <3>1, UnmovedCall DEF ProgramInv
  <2>5. CASE Library
    <3>1. Step(Shell) /\ pc[Shell] # "idle"
      BY <2>5, StepUnderWay DEF Library
    <3>2. spent = begun
      BY <2>2, <3>1, NeverForgiven DEF Base, Began, ProgramInv, ByService, Observed
    <3>3. pc[Shell] = "refind" => Named(cur[Shell]) \subseteq {radio[Shell]}
      BY <3>2 DEF TerminalInv, ByRelease
    <3> QED
      BY <1>2, <2>2, <2>3, <3>1, <3>3, UnmovedLibrary DEF ProgramInv, OwnCalls, OwnName
  <2>6. CASE ~Issue /\ ~Library
    <3>1. UNCHANGED <<pc, radio, orig, cur, label>>
      BY <2>1, <2>6, BetweenCalls DEF Aside
    <3>2. Present' = Present
      BY <2>2, Attendance
    <3>3. ~TempIsOurs
      BY <3>1, <3>2 DEF TempIsOurs
    <3> QED
      BY <2>3, <3>1, <3>3
  <2> QED
    BY <2>4, <2>5, <2>6
<1> QED
  BY <1>1, <1>2

(* The radio that is selected is there, and not in monitor mode.           *)
LEMMA SelectedIdle ==
    ASSUME NEW n \in Known, Selected(n) \notin Refusals
    PROVE  \E r \in Present : label[r] = Selected(n) /\ mode[r] # "monitor"
<1> DEFINE idle == Present \ Monitors
           asked == Named(n)
           Least(r) == \A q \in idle : Rank[r] <= Rank[q]
<1>1. \A r \in idle : r \in Present /\ mode[r] # "monitor"
  BY DEF Monitors
<1>2. CASE n = NoName
  <2>1. idle # {} /\ Selected(n) = label[CHOOSE r \in idle : Least(r)]
    BY <1>2 DEF Selected, Refusals
  <2>2. idle \subseteq Radios
    BY DEF Present
  <2>3. \E r \in idle : Least(r)
    BY <2>1, <2>2, BestRanked
  <2>4. (CHOOSE r \in idle : Least(r)) \in idle
    BY <2>3
  <2> QED
    BY <1>1, <2>1, <2>4
<1>3. CASE n # NoName
  <2>1. /\ Selected(n) = CASE asked = {} -> "NotFound"
                           [] asked # {} /\ asked \cap idle = {} -> "AlreadyMonitor"
                           [] OTHER -> n
    BY <1>3 DEF Selected
  <2>2. asked # {} /\ asked \cap idle # {} /\ Selected(n) = n
    BY <2>1 DEF Refusals
  <2>3. PICK r \in asked : r \in idle
    BY <2>2
  <2>4. label[r] = n
    BY <2>3 DEF Named
  <2> QED
    BY <1>1, <2>2, <2>3, <2>4
<1> QED
  BY <1>2, <1>3

(* Until the suite has its radio it has failed in nothing, and the radio it *)
(* is about to take is there for it.                                       *)
LEMMA SelectStep ==
    ASSUME Base, ProgramInv, ByScript, launched \in Nat, launched <= spent, SelectInv,
           [ShellNext]_allVars
    PROVE  SelectInv'
<1> SUFFICES ASSUME program' = "full_cycle", script' # <<>>
             PROVE  /\ ~failed'
                    /\ spent' = launched' /\ outcome' \notin Refusals \cup {"ready"} =>
                          \E r \in Present' : label'[r] = outcome' /\ mode'[r] # "monitor"
  BY DEF SelectInv
<1> USE ShellIsCaller
<1>1. CASE Launch
  <2>1. ~failed' /\ outcome' = outcome /\ program = "none"
    BY <1>1 DEF Launch
  <2>2. outcome = "ready"
    BY <2>1 DEF ByScript
  <2> QED
    BY <2>1, <2>2
<1>2. CASE ~Launch
  <2>0. program = "full_cycle"
    BY <1>2 DEF ShellNext, Work, Launch, Issue, RefuseName, Library, Look, Judge, Exit, Restart,
       Killed, Surroundings, allVars, shellVars, progress
  <2>1. SelectPoint
    BY <2>0 DEF ByScript
  <2>2. ~Library /\ ~Killed /\ ~Exit
    BY <2>0, <2>1, StepUnderWay DEF SelectPoint, Library, Killed, Exit
  <2>3. ~Judge
    <3> SUFFICES ASSUME Judge PROVE FALSE
      OBVIOUS
    <3>1. outcome # "ready" /\ script # <<>>
      BY DEF Judge, ByScript
    <3>2. Head(script).do = "select" /\ Tail(script) = <<>>
      BY <2>0, <3>1, HeadOfScript
    <3>3. Unwind = <<>>
      BY <2>1 DEF Unwind, SelectPoint
    <3>4. program' = "suite" \/ script' \in {Unwind, Tail(script)}
      BY <3>2 DEF Judge, Starts
    <3> QED
      BY <3>2, <3>3, <3>4
  <2>4. UNCHANGED <<script, launched, failed>> /\ script # <<>>
    BY <1>2, <2>2, <2>3 DEF ShellNext, Work, Issue, RefuseName, Look, Restart, Surroundings, allVars,
       shellVars, progress, memory
  <2>5. PICK n \in Known : script = <<Do("select", n)>>
    BY <2>1, <2>4 DEF SelectPoint, Known
  <2>6. Head(script) = Do("select", n) /\ Head(script).do = "select" /\ Head(script).name = n
    BY <2>5 DEF Do
  <2>7. ~Issue /\ ~RefuseName /\ \A service \in Services : ~Restart(service)
    BY <2>0, <2>6, RestartIsResets DEF Issue, RefuseName, Ready, ProgramInv
  <2>8. ~failed' /\ (spent' = launched' => spent = launched /\ spent' = spent)
    BY <2>0, <2>4, NeverForgiven DEF Base, SelectInv
  <2>9. CASE Look
    <3>1. UNCHANGED <<mode, label>> /\ (outcome' = Result(Head(script)) \/ outcome' = "error")
      BY <2>9 DEF Look, WorldButSpent
    <3>2. Result(Head(script)) = Selected(n)
      BY <2>6 DEF Result, Asking
    <3>3. CASE outcome' = "error"
      BY <2>8, <3>3 DEF Refusals
    <3>4. CASE outcome' = Selected(n)
      <4>1. outcome' \notin Refusals => \E r \in Present : label[r] = outcome' /\ mode[r] # "monitor"
        BY <3>4, SelectedIdle
      <4> QED
        BY <2>8, <3>1, <4>1 DEF Present
    <3> QED
      BY <3>1, <3>2, <3>3, <3>4
  <2>10. CASE ~Look
    <3>1. Surroundings \/ UNCHANGED allVars
      BY <1>2, <2>2, <2>3, <2>7, <2>10 DEF ShellNext, Work
    <3>2. UNCHANGED outcome
      BY <3>1 DEF Surroundings, allVars, shellVars, memory
    <3>3. UNCHANGED label /\ \A r \in Radios : mode'[r] = mode[r] \/ mode'[r] \in {"managed", "gone"}
      BY <2>2, <2>7, BetweenCalls DEF Aside
    <3>4. spent' = spent => Present' = Present
      BY Attendance
    <3> QED
      BY <2>0, <2>4, <2>8, <3>2, <3>3, <3>4 DEF SelectInv, Present
  <2> QED
    BY <2>9, <2>10
<1> QED
  BY <1>1, <1>2

(* The suite's radio is the one of its name.                               *)
LEMMA OurName ==
    ASSUME NEW t, NEW r, Ours(t, r), label[r] = t
    PROVE  Named(t) = {r}
BY DEF Ours, Named, Present

(* The step due, where the suite is and where it goes.                     *)
LEMMA TurnDue ==
    ASSUME NEW t, NEW r, Course(t, r), outcome = "ready", script # <<>>, script \in Seq(Plain)
    PROVE  \E x, z \in Stands, o \in Outcomes :
              Here(t, r, x) /\ Turn(t, x, Head(script), z, o) /\ Leads(t, z, Tail(script), "bare")
<1>1. PICK x \in Stands : Here(t, r, x) /\ Leads(t, x, script, "bare")
  BY DEF Course
<1> QED
  BY <1>1, LeadsOn

(* What follows of it: the call is under way, or it has returned.          *)
LEMMA TurnTaken ==
    ASSUME NEW t, NEW r, UNCHANGED script, script # <<>>, outcome' # "ready",
           NEW x \in Stands, NEW z \in Stands, NEW o \in Outcomes,
           Turn(t, x, Head(script), z, o), Leads(t, z, Tail(script), "bare"),
           \/ pc'[Shell] \in {"idle", "open"} /\ outcome' = o /\ Here(t, r, z)'
           \/ pc'[Shell] \notin {"idle", "open"} /\ Going(t, r, Head(script), z, o)'
    PROVE  Course(t, r)'
<1> DEFINE s == Head(script)
           rest == Tail(script)
<1>1. Head(script') = s /\ Tail(script') = rest /\ script' # <<>>
  OBVIOUS
<1>2. /\ Turn(t, x, Head(script'), z, o) /\ Leads(t, z, Tail(script'), "bare")
      /\ \/ pc'[Shell] \in {"idle", "open"} /\ outcome' = o /\ Here(t, r, z)'
         \/ pc'[Shell] \notin {"idle", "open"} /\ Going(t, r, Head(script), z, o)'
  BY <1>1
<1> QED
  BY <1>1, <1>2 DEF Course

(* Where it stands nothing else goes by the temporary name.                *)
LEMMA TempThere ==
    ASSUME Base, TempIsOurs, NEW t, NEW r, Ours(t, r), NEW x \in Stands, Here(t, r, x)
    PROVE  Named(Temp) = IF x = "openAs" THEN {r} ELSE {}
<1> USE ShellIsCaller
<1>1. CASE x = "openAs"
  BY <1>1 DEF Here, Sessions, TempIsOurs, Named, Ours, Present
<1>2. CASE x = "open"
  BY <1>2 DEF Here, Sessions, TempIsOurs, Named, Ours, Present
<1>3. CASE x \notin Sessions
  <2>1. radio[Shell] = NoRadio
    BY <1>3 DEF Here, Base, Rested
  <2> QED
    BY <1>3, <2>1, SessionAssumption DEF TempIsOurs, Named, Present, Sessions
<1> QED
  BY <1>1, <1>2, <1>3 DEF Sessions

(* What the suite sees of a radio is what it is.                           *)
LEMMA SightSeen ==
    ASSUME Base, TempIsOurs, NEW t, NEW r, Ours(t, r), NEW x \in Stands, Here(t, r, x),
           NEW s, NEW o, s.do = "see", Sight(t, x, s.name, o)
    PROVE  Result(s) = o
<1>1. Result(s) = IF Named(s.name) = {} THEN "gone" ELSE mode[CHOOSE q \in Named(s.name) : TRUE]
  BY DEF Result, Asking
<1>2. ASSUME Named(s.name) = {r} PROVE Result(s) = mode[r]
  BY <1>1, <1>2
<1>3. x # "openAs" => Named(t) = {r}
  BY OurName DEF Here
<1>4. x = "openAs" => Named(t) = {}
  BY DEF Here, Ours, Named
<1>5. CASE s.name = t /\ x \in {"open", "kept"} /\ o = "monitor"
  BY <1>2, <1>3, <1>5 DEF Here
<1>6. CASE s.name = t /\ x \in {"clean", "swept"} /\ o = "managed"
  BY <1>2, <1>3, <1>6 DEF Here
<1>7. CASE s.name = t /\ x = "openAs" /\ o = "gone"
  BY <1>1, <1>4, <1>7
<1>8. CASE s.name = Temp /\ x = "openAs" /\ o = "monitor"
  BY <1>2, <1>8, TempThere DEF Here
<1>9. CASE s.name = Temp /\ x \in {"clean", "bare"} /\ o = "gone"
  BY <1>1, <1>9, TempThere
<1> QED
  BY <1>5, <1>6, <1>7, <1>8, <1>9 DEF Sight

(* And what it looks up and reckons is what its script expects,            *)
LEMMA LookSeen ==
    ASSUME Base, TempIsOurs, AbsentInv, NEW t, NEW r, Ours(t, r), NEW x \in Stands, Here(t, r, x),
           NEW s, NEW z, NEW o, LookTurn(t, x, s, z, o)
    PROVE  Result(s) = o
<1>1. Named(Absent) = {}
  BY DEF AbsentInv, Named, Present
<1>2. x # "openAs" => Named(t) = {r}
  BY OurName DEF Here
<1>3. CASE s.do = "tuned" /\ s.name = Absent /\ o = "NotFound"
  BY <1>1, <1>3 DEF Result
<1>4. CASE s.do = "tuned" /\ s.name = t /\ x \in {"open", "kept"} /\ o = Verdict[s.chan]
  BY <1>2, <1>4 DEF Result, Asking
<1>5. CASE s.do = "hop" /\ o = Verdict[s.chan]
  BY <1>5 DEF Result, Asking
<1>6. CASE s.do = "lookup" /\ s.name = t /\ x \in {"clean", "kept"} /\ o = "ok"
  BY <1>2, <1>6 DEF Result, Asking
<1>7. CASE s.do = "see" /\ Sight(t, x, s.name, o)
  BY <1>7, SightSeen
<1>8. CASE s.do = "note" /\ o = "ok"
  BY <1>8 DEF Result, Asking
<1>9. CASE s.do = "reported" /\ s.name = t /\ x = "swept" /\ o = "ok"
  BY <1>9 DEF Result, Asking, Says, Here
<1>10. CASE s.do \in {"quiet", "spared"} /\ x = "swept" /\ o = "ok"
  BY <1>10 DEF Result, Asking, Says, Here
<1>11. CASE s.do = "nothing" /\ x = "bare" /\ o = "ok"
  BY <1>11 DEF Result, Asking, Says, Here
<1>12. CASE s.do = "idle" /\ s.name = t /\ x = "bare" /\ o = "ok"
  <2>1. Named(s.name) # {} /\ Named(s.name) \cap Monitors = {}
    BY <1>2, <1>12 DEF Here
  <2> QED
    BY <1>12, <2>1 DEF Result, Asking, Says
<1> QED
  BY <1>3, <1>4, <1>5, <1>6, <1>7, <1>8, <1>9, <1>10, <1>11, <1>12 DEF LookTurn

(* and leaves it where its script goes on.                                 *)
LEMMA LookStands ==
    ASSUME Base, NEW t, NEW r, NEW x \in Stands, Here(t, r, x), NEW s, NEW z, NEW o,
           LookTurn(t, x, s, z, o), s.do # "nmRead",
           UNCHANGED <<mode, label, pc, radio, orig, cur, why, begun, launched, swept>>,
           noted' = IF s.do = "note" THEN Quiet ELSE noted
    PROVE  Here(t, r, z)'
<1>1. CASE s.do = "note"
  <2>1. x = "kept" /\ z = "noted"
    BY <1>1 DEF LookTurn
  <2>2. \A q \in Monitors : label[q] \notin Quiet
    BY DEF Monitors, Quiet, Present, Base, WorldOK
  <2>3. \A q \in Monitors' : label'[q] \notin noted'
    BY <1>1, <2>2 DEF Monitors, Present
  <2> QED
    BY <2>1, <2>3 DEF Here, Sessions
<1>2. CASE s.do # "note"
  <2>1. z = x /\ UNCHANGED noted
    BY <1>2 DEF LookTurn
  <2>2. Monitors' = Monitors
    BY DEF Monitors, Present
  <2> QED
    BY <2>1, <2>2 DEF Here
<1> QED
  BY <1>1, <1>2

(* A turn that is no call is a look; the other way round, a call.          *)
LEMMA TurnKinds ==
    ASSUME NEW t, NEW x, NEW s, NEW z, NEW o, Turn(t, x, s, z, o)
    PROVE  /\ s.do \in Detecting \cup Reckoning => LookTurn(t, x, s, z, o)
           /\ s.do \notin Detecting \cup Reckoning => CallTurn(t, x, s, z, o)
           /\ s.do \notin {"select", "list"} \cup Asking
<1>1. CallTurn(t, x, s, z, o) => s.do \in {"stop", "as", "on", "restore", "drop", "persist", "all"}
  BY DEF CallTurn
<1>2. LookTurn(t, x, s, z, o) =>
        s.do \in {"tuned", "hop", "lookup", "see", "note", "reported", "quiet", "spared", "nothing", "idle"}
  BY DEF LookTurn
<1> QED
  BY <1>1, <1>2 DEF Turn, Detecting, Reckoning, Asking

(* A turn returns what a call or a look can return.                        *)
LEMMA TurnReturns ==
    ASSUME NEW t, NEW x, NEW s, NEW z, NEW o, Turn(t, x, s, z, o),
           s.chan \in {"none", "usable", "absent", "disabled", "elsewhere"}
    PROVE  o \notin {"ready", "pending"}
<1>1. Verdict[s.chan] \notin {"ready", "pending"}
  BY DEF Verdict
<1>2. CallTurn(t, x, s, z, o) => o \notin {"ready", "pending"}
  BY DEF CallTurn
<1>3. LookTurn(t, x, s, z, o) => o \notin {"ready", "pending"}
  BY <1>1 DEF LookTurn, Sight
<1> QED
  BY <1>2, <1>3 DEF Turn

(* A look keeps the suite on its course.                                   *)
LEMMA LookCourse ==
    ASSUME SuiteKnown, program = "suite", Calm, NEW t, NEW r, Ours(t, r), Course(t, r),
           Look, spent' = spent
    PROVE  Course(t, r)'
<1> USE DEF SuiteKnown
<1> DEFINE s == Head(script)
<1>1. script # <<>> /\ outcome = "ready" /\ s.do \in Detecting \cup Reckoning \cup Asking
  BY DEF Look, Ready
<1>2. script \in Seq(Plain) /\ s \in Plain
  BY <1>1, HeadOfScript DEF TerminalInv
<1>3. PICK x, z \in Stands, o \in Outcomes :
        Here(t, r, x) /\ Turn(t, x, s, z, o) /\ Leads(t, z, Tail(script), "bare")
  BY <1>1, <1>2, TurnDue
<1>4. LookTurn(t, x, s, z, o) /\ s.do \notin Asking
  BY <1>1, <1>3, TurnKinds
<1>5. spent \in Nat
  BY WorldAssumption DEF Base, TypeOK, WorldTypeOK
<1>6. outcome' = Result(s)
  BY <1>5 DEF Look, Fault
<1>7. Result(s) = o
  BY <1>3, <1>4, LookSeen DEF Calm
<1>8. /\ UNCHANGED <<mode, label, pc, radio, orig, cur, why, begun, launched, swept, script>>
      /\ noted' = IF s.do = "note" THEN Quiet ELSE noted
  BY <1>4 DEF Look, WorldButSpent, call, progress, Asking
<1>9. Here(t, r, z)'
  BY <1>3, <1>4, <1>8, LookStands DEF Asking
<1>10. s.chan \in {"none", "usable", "absent", "disabled", "elsewhere"}
  BY <1>2 DEF Plain
<1>11. o \notin {"ready", "pending"}
  BY <1>3, <1>10, TurnReturns
<1>12. pc'[Shell] \in {"idle", "open"}
  BY <1>1, <1>8 DEF ProgramInv, Between
<1> QED
  BY <1>1, <1>3, <1>6, <1>7, <1>8, <1>9, <1>11, <1>12, TurnTaken

(* So does a name that is refused,                                         *)
LEMMA RefusedCourse ==
    ASSUME SuiteKnown, program = "suite", NEW t, NEW r, Ours(t, r), Course(t, r), RefuseName
    PROVE  Course(t, r)'
<1> USE DEF SuiteKnown
<1> DEFINE s == Head(script)
<1>1. /\ script # <<>> /\ outcome = "ready" /\ s.do = "as" /\ s.new = Malformed
      /\ outcome' = "InvalidInterfaceName"
      /\ UNCHANGED <<mode, label, pc, radio, orig, cur, why, begun, launched, swept, noted, script>>
  BY DEF RefuseName, Ready, vars, world, call, progress
<1>2. script \in Seq(Plain)
  BY <1>1, HeadOfScript DEF TerminalInv
<1>3. PICK x, z \in Stands, o \in Outcomes :
        Here(t, r, x) /\ Turn(t, x, s, z, o) /\ Leads(t, z, Tail(script), "bare")
  BY <1>1, <1>2, TurnDue
<1>4. CallTurn(t, x, s, z, o)
  BY <1>1, <1>3, TurnKinds DEF Detecting, Reckoning
<1>5. z = x /\ o = "InvalidInterfaceName"
  BY <1>1, <1>4, ProgramAssumption, SessionAssumption, WorldAssumption DEF CallTurn, Malformed
<1>6. Here(t, r, z)'
  <2>1. Monitors' = Monitors
    BY <1>1 DEF Monitors, Present
  <2> QED
    BY <1>1, <1>3, <1>5, <2>1 DEF Here
<1>7. pc'[Shell] \in {"idle", "open"}
  BY <1>1 DEF ProgramInv, Between
<1> QED
  BY <1>1, <1>3, <1>5, <1>6, <1>7, TurnTaken

(* and the judgement of what a call returned, which finds nothing wrong.   *)
LEMMA JudgedCourse ==
    ASSUME SuiteKnown, program = "suite", ~failed, NEW t, NEW r, Ours(t, r), Course(t, r), Judge
    PROVE  Course(t, r)' /\ ~failed'
<1> USE DEF SuiteKnown
<1> DEFINE s == Head(script)
           aborts == s.must /\ outcome \in Refusals
           chosen == s.do = "select" /\ ~aborts
<1>1. /\ outcome \notin {"ready", "pending"} /\ pc[Shell] \in {"idle", "open"} /\ outcome' = "ready"
      /\ UNCHANGED <<mode, label, pc, radio, orig, cur, why, begun, launched, swept, noted>>
  BY DEF Judge, vars, world, call
<1>2. /\ failed' = (failed \/ aborts \/ (~chosen /\ outcome # s.want /\ s.want # "any"))
      /\ \/ aborts /\ script' = Unwind
         \/ ~aborts /\ ~s.must /\ s.do \in Starts /\ script' = Unwind \o Tail(script)
         \/ chosen /\ \E has \in Hardware : script' = Suite(outcome, has)
         \/ ~aborts /\ ~chosen /\ (s.must \/ s.do \notin Starts) /\ script' = Tail(script)
  BY DEF Judge
<1>3. script # <<>>
  BY <1>1 DEF TerminalInv, ByScript
<1>4. script \in Seq(Plain) /\ s \in Plain /\ s.must \in BOOLEAN
  BY <1>3, HeadOfScript DEF TerminalInv, Plain
<1>5. PICK x, z \in Stands, o \in Outcomes :
        /\ Turn(t, x, s, z, o) /\ Leads(t, z, Tail(script), "bare")
        /\ outcome = o /\ Here(t, r, z)
  BY <1>1 DEF Course
<1>6. Accepts(s, outcome, z) /\ s.do # "select"
  BY <1>5, TurnKinds DEF Turn
<1>7. ~aborts /\ ~chosen
  BY <1>6 DEF Accepts
<1>8. ~failed'
  BY <1>2, <1>6, <1>7 DEF Accepts
<1>9. script' = Tail(script)
  <2>1. CASE ~s.must /\ s.do \in Starts
    <3>1. z \notin Sessions
      BY <1>6, <2>1 DEF Accepts, Sessions
    <3>2. Unwind = <<>>
      BY <1>5, <3>1 DEF Here, Unwind
    <3>3. <<>> \o Tail(script) = Tail(script)
      BY <1>3, <1>4
    <3> QED
      BY <1>2, <1>7, <3>2, <3>3
  <2>2. CASE s.must \/ s.do \notin Starts
    BY <1>2, <1>7, <2>2
  <2> QED
    BY <2>1, <2>2
<1>10. Here(t, r, z)'
  <2>1. Monitors' = Monitors
    BY <1>1 DEF Monitors, Present
  <2> QED
    BY <1>1, <1>5, <2>1 DEF Here
<1> QED
  BY <1>1, <1>5, <1>8, <1>9, <1>10 DEF Course

(* The suite begins on the radio it has selected.                          *)
LEMMA ChosenCourse ==
    ASSUME SuiteKnown, SelectInv, program = "full_cycle", program' = "suite", Judge, Calm'
    PROVE  ~failed' /\ \E t \in Names, r \in Radios : Ours(t, r)' /\ Course(t, r)'
<1> USE ShellIsCaller DEF SuiteKnown
<1> DEFINE s == Head(script)
<1>0. PICK t : t = outcome
  OBVIOUS
<1>1. /\ t \notin {"ready", "pending"} /\ outcome' = "ready"
      /\ UNCHANGED <<mode, label, pc, radio, orig, spent, launched>>
  BY <1>0 DEF Judge, vars, world, call
<1>2. script # <<>>
  BY <1>0, <1>1 DEF TerminalInv, ByScript
<1>3. s.do = "select" /\ s.must /\ pc[Shell] = "idle" /\ t \in Refusals \cup Names
  BY <1>0, <1>1, <1>2, HeadOfScript DEF TerminalInv, ByScript, SelectPoint
<1>4. t \notin Refusals /\ \E has \in Hardware : script' = Suite(t, has)
  BY <1>0, <1>3 DEF Judge
<1>5. ~failed /\ spent = launched
  BY <1>1, <1>2 DEF SelectInv, Calm
<1>6. ~failed'
  BY <1>0, <1>3, <1>4, <1>5 DEF Judge
<1>7. PICK r \in Present : label[r] = t /\ mode[r] # "monitor"
  BY <1>0, <1>1, <1>2, <1>4, <1>5 DEF SelectInv
<1>8. r \in Radios /\ radio[Shell] = NoRadio /\ t \in Names
  BY <1>3, <1>4, <1>7 DEF Base, Rested, Present
<1>9. t # Absent
  BY <1>7, <1>8 DEF AbsentInv
<1>10. t # Temp
  BY <1>1, <1>7, <1>8, SessionAssumption DEF Calm, TempIsOurs, Present
<1>11. \A q \in Present \ {r} : label[q] # t
  BY <1>7 DEF Base, WorldOK, Present
<1>12. Ours(t, r)'
  BY <1>1, <1>7, <1>8, <1>9, <1>10, <1>11 DEF Ours, Present
<1>13. Here(t, r, "fresh")'
  BY <1>1, <1>3, <1>7 DEF Here, Sessions
<1>14. PICK has : script' = Suite(t, has)
  BY <1>4
<1>15. Leads(t, "fresh", script', "bare")
  BY <1>8, <1>14, SuiteLeads
<1>16. Course(t, r)'
  BY <1>1, <1>13, <1>15 DEF Course, Stands
<1> QED
  BY <1>6, <1>8, <1>12, <1>16

(* A host without failures leaves a radio what the services make of it:    *)
(* one they hold they may pull back, the others stay as they are.          *)
LEMMA HostCalm ==
    ASSUME Base, ProgramInv, Cardinality(running) <= 1, spent' = spent,
           Surroundings \/ UNCHANGED allVars, NEW r \in Present
    PROVE  /\ mode'[r] = mode[r] \/ (Held(r) /\ mode'[r] = "managed")
           /\ wpa[r] # "out" => wpa'[r] # "out"
           /\ Monitors' \subseteq Monitors
           /\ UNCHANGED <<label, pc, op, radio, orig, cur, held, todo, shellVars>>
<1> USE DEF Base, TypeOK, WorldTypeOK
<1>1. spent \in Nat
  BY WorldAssumption
<1>2. CASE UNCHANGED allVars
  <2>1. UNCHANGED <<mode, label, wpa, pc, op, radio, orig, cur, held, todo, shellVars>>
    BY <1>2 DEF allVars, vars, world, call
  <2> QED
    BY <2>1 DEF Monitors, Present
<1>3. CASE Surroundings
  <2>1. PICK q \in Radios : PullBack(q) \/ NmAdopt(q) \/ NmDrop(q) \/ Unplug(q)
    BY <1>3 DEF Surroundings, Environment
  <2>2. UNCHANGED <<label, pc, op, radio, orig, cur, held, todo, shellVars>>
    BY <1>3, <2>1 DEF Surroundings, PullBack, NmAdopt, NmDrop, Unplug, call
  <2>3. ~Unplug(q)
    BY <1>1 DEF Unplug, Fault
  <2>4. CASE PullBack(q)
    BY <2>2, <2>4 DEF PullBack, Monitors, Present
  <2>5. CASE NmAdopt(q)
    <3>1. UNCHANGED mode /\ \A p \in Radios : wpa'[p] = wpa[p] \/ wpa'[p] = "nm"
      BY <2>5 DEF NmAdopt
    <3> QED
      BY <2>2, <3>1 DEF Monitors, Present
  <2>6. CASE NmDrop(q)
    <3>1. wpa[q] = "nm"
      BY <2>6 DEF NmDrop
    <3>2. "nm" \in running /\ "wpa" \in running
      BY <3>1 DEF ProgramInv, ByService, WorldOK
    <3>3. running = {"nm", "wpa"}
      BY <3>2 DEF Services
    <3>4. Cardinality({"nm", "wpa"}) = 2
      <4>1. /\ IsFiniteSet({"nm"}) /\ Cardinality({"nm"}) = 1
            /\ "wpa" \notin {"nm"} /\ {"nm", "wpa"} = {"nm"} \cup {"wpa"}
        BY FS_Singleton
      <4>2. Cardinality({"nm"} \cup {"wpa"}) = Cardinality({"nm"}) + 1
        BY <4>1, FS_AddElement
      <4> QED
        BY <4>1, <4>2
    <3> QED
      BY <3>3, <3>4
  <2> QED
    BY <2>1, <2>3, <2>4, <2>5, <2>6
<1> QED
  BY <1>2, <1>3

(* Between its steps nothing moves the suite from where it stands: what a  *)
(* session or persist left behind is held by no service,                   *)
LEMMA HereLasts ==
    ASSUME Base, ProgramInv, TerminalInv, KeptStands, Calm, NEW t, NEW r, Ours(t, r),
           NEW x \in Stands, Here(t, r, x), spent' = spent, Surroundings \/ UNCHANGED allVars
    PROVE  Here(t, r, x)'
<1>1. r \in Present /\ r \in Radios
  BY DEF Ours, Present
<1>2. /\ mode'[r] = mode[r] \/ (Held(r) /\ mode'[r] = "managed")
      /\ Monitors' \subseteq Monitors
      /\ UNCHANGED <<label, pc, radio, orig, cur>>
      /\ UNCHANGED <<launched, noted, swept, why, begun>>
  BY <1>1, HostCalm DEF Calm, shellVars, progress, memory
<1>3. x \in Sessions => ~Held(r)
  <2> SUFFICES ASSUME x \in Sessions PROVE ~Held(r)
    OBVIOUS
  <2>1. pc[Shell] = "open" /\ radio[Shell] = r /\ spent = begun
    BY DEF Here, Calm
  <2> QED
    BY <2>1 DEF TerminalInv, ByRelease, Held, NmLetGo, WpaLetGo, Switched, InSession
<1>4. x \in {"kept", "noted"} => ~Held(r)
  BY <1>1 DEF Here, KeptStands
<1>5. x \in Sessions \cup {"kept", "noted"} => mode'[r] = mode[r]
  BY <1>2, <1>3, <1>4
<1>6. mode'[r] # mode[r] => mode'[r] = "managed"
  BY <1>2
<1> QED
  BY <1>2, <1>5, <1>6 DEF Here, Sessions

(* and a call under way goes on as it would have.                          *)
LEMMA GoingLasts ==
    ASSUME Base, ProgramInv, TerminalInv, Calm, NEW t, NEW r, Ours(t, r),
           NEW s, NEW z, NEW o, Going(t, r, s, z, o), spent' = spent,
           Surroundings \/ UNCHANGED allVars
    PROVE  Going(t, r, s, z, o)'
<1>1. r \in Present /\ r \in Radios
  BY DEF Ours, Present
<1>2. /\ mode'[r] = mode[r] \/ (Held(r) /\ mode'[r] = "managed")
      /\ wpa[r] # "out" => wpa'[r] # "out"
      /\ UNCHANGED <<label, pc, op, radio, orig, cur, todo>>
      /\ UNCHANGED <<launched, noted, swept, outcome, begun>>
  BY <1>1, HostCalm DEF Calm, shellVars, progress, memory
<1>3. mode'[r] # mode[r] => mode'[r] = "managed"
  BY <1>2
<1>4. CASE Missing(t, r, z, o)
  BY <1>2, <1>3, <1>4 DEF Going, Missing
<1>5. CASE GoingIn(t, r, s, z, o)
  <2>1. pc[Shell] = "confirm" => ~Held(r)
    <3> SUFFICES ASSUME pc[Shell] = "confirm" PROVE ~Held(r)
      OBVIOUS
    <3>1. radio[Shell] = r /\ spent = begun
      BY <1>5 DEF GoingIn, Going, Calm
    <3> QED
      BY <3>1 DEF TerminalInv, ByRelease, Held, NmLetGo, WpaLetGo
  <2>2. pc[Shell] = "confirm" => mode'[r] = mode[r]
    BY <1>2, <2>1
  <2> QED
    BY <1>2, <1>5, <2>2 DEF Going, GoingIn
<1>6. CASE ComingOut(t, r, z, o)
  BY <1>2, <1>3, <1>6 DEF Going, ComingOut
<1>7. CASE Sweeping(t, r, z, o)
  <2>1. Sweeping(t, r, z, o)'
    BY <1>2, <1>3, <1>7 DEF Sweeping
  <2> QED
    BY <1>2, <2>1 DEF Going
<1> QED
  BY <1>4, <1>5, <1>6, <1>7 DEF Going

(* The host leaves the suite on its course.                                *)
LEMMA HostCourse ==
    ASSUME SuiteKnown, KeptStands, Calm, NEW t, NEW r, Ours(t, r), Course(t, r),
           spent' = spent, Surroundings \/ UNCHANGED allVars
    PROVE  Course(t, r)'
<1> USE DEF SuiteKnown
<1>1. UNCHANGED <<script, outcome, pc>>
  <2>1. CASE Surroundings
    BY <2>1 DEF Surroundings, shellVars, progress, memory
  <2>2. CASE UNCHANGED allVars
    BY <2>2 DEF allVars, vars, shellVars, progress, memory
  <2> QED
    BY <2>1, <2>2
<1>2. CASE outcome = "ready"
  <2>1. PICK x \in Stands : Here(t, r, x) /\ Leads(t, x, script, "bare")
    BY <1>2 DEF Course
  <2>2. Here(t, r, x)'
    BY <2>1, HereLasts
  <2> QED
    BY <1>1, <1>2, <2>1, <2>2 DEF Course
<1>3. CASE outcome # "ready"
  <2>1. script # <<>>
    BY <1>3 DEF Course
  <2>2. PICK x, z \in Stands, o \in Outcomes :
           /\ Turn(t, x, Head(script), z, o) /\ Leads(t, z, Tail(script), "bare")
           /\ \/ pc[Shell] \in {"idle", "open"} /\ outcome = o /\ Here(t, r, z)
              \/ pc[Shell] \notin {"idle", "open"} /\ Going(t, r, Head(script), z, o)
    BY <1>3 DEF Course
  <2>3. Here(t, r, z) => Here(t, r, z)'
    BY HereLasts
  <2>4. Going(t, r, Head(script), z, o) => Going(t, r, Head(script), z, o)'
    <3>1. PICK s : s = Head(script)
      OBVIOUS
    <3>2. Going(t, r, s, z, o) => Going(t, r, s, z, o)'
      BY GoingLasts
    <3>3. Head(script') = s
      BY <1>1, <3>1
    <3> QED
      BY <3>1, <3>2, <3>3
  <2>5. \/ pc'[Shell] \in {"idle", "open"} /\ outcome' = o /\ Here(t, r, z)'
        \/ pc'[Shell] \notin {"idle", "open"} /\ Going(t, r, Head(script), z, o)'
    BY <1>1, <2>2, <2>3, <2>4
  <2> QED
    BY <1>1, <1>3, <2>1, <2>2, <2>5, TurnTaken
<1> QED
  BY <1>2, <1>3

(* A start on the one radio of a name, of which nothing fails.             *)
LEMMA StartIssued ==
    ASSUME Base, NEW kind, NEW t, NEW new, NEW r, Named(t) = {r}, spent' = spent,
           StartNamed(Shell, kind, t, new)
    PROVE  /\ mode[r] = "monitor" => UNCHANGED <<pc, call>>
           /\ mode[r] # "monitor" =>
                /\ pc'[Shell] = "release" /\ op'[Shell] = kind /\ radio'[Shell] = r
                /\ orig'[Shell] = t /\ cur'[Shell] = new /\ UNCHANGED todo
<1> USE ShellIsCaller DEF Base, TypeOK, CallTypeOK, WorldTypeOK
<1>1. \A kind_ : ~Fault(kind_)
  BY WorldAssumption DEF Fault
<1>2. \/ (\A q \in {r} : mode[q] = "monitor") /\ UNCHANGED <<pc, call>>
      \/ \E q \in {r} :
            /\ mode[q] # "monitor" /\ Goto(Shell, "release") /\ op' = [op EXCEPT ![Shell] = kind]
            /\ Engage(Shell, q, t, new, FALSE) /\ UNCHANGED todo
  <2>1. PICK seen \in {Named(t), {}} :
          /\ Find(t, seen)
          /\ \/ (\A q \in seen : mode[q] = "monitor") /\ UNCHANGED <<pc, call>>
             \/ \E q \in seen :
                   /\ mode[q] # "monitor" /\ Goto(Shell, "release")
                   /\ op' = [op EXCEPT ![Shell] = kind]
                   /\ Engage(Shell, q, t, new, FALSE) /\ UNCHANGED todo
    BY DEF StartNamed
  <2>2. seen = {r}
    BY <1>1, <2>1 DEF Find
  <2> QED
    BY <2>1, <2>2
<1>3. CASE mode[r] = "monitor" /\ UNCHANGED <<pc, call>>
  BY <1>3
<1>4. CASE /\ mode[r] # "monitor" /\ Goto(Shell, "release") /\ op' = [op EXCEPT ![Shell] = kind]
           /\ Engage(Shell, r, t, new, FALSE) /\ UNCHANGED todo
  BY <1>4, Engaged DEF Goto
<1> QED
  BY <1>2, <1>3, <1>4

(* What the suite knows as a call of its script begins.                    *)
Beginning(t, r, x, s) ==
    /\ Base /\ ByStart /\ ByRelease /\ AbsentInv /\ Calm
    /\ t \in Names \ {Temp, Absent} /\ Ours(t, r) /\ x \in Stands /\ Here(t, r, x)
    /\ Call(s) /\ spent' = spent /\ begun' = spent
    /\ UNCHANGED <<mode, label, launched, noted>>
    /\ swept' = IF s.do = "all" THEN {} ELSE swept
    /\ outcome' = IF pc'[Shell] \in {"idle", "open"} THEN AtOnce(s) ELSE "pending"

(* It is under way or has returned.                                        *)
Taken(t, r, s, z, o) ==
    \/ pc'[Shell] \in {"idle", "open"} /\ outcome' = o /\ Here(t, r, z)'
    \/ pc'[Shell] \notin {"idle", "open"} /\ outcome' # "ready" /\ Going(t, r, s, z, o)'

(* The start of a session,                                                 *)
LEMMA StartTaken ==
    ASSUME NEW t, NEW r, NEW x, NEW s, NEW z, NEW o, Beginning(t, r, x, s),
           s.do \in {"on", "as"}, s.name = t, mode[r] # "monitor", label[r] = t,
           s.do = "as" => s.new = Temp,
           \/ s.chan # "absent" /\ z = (IF s.do = "as" THEN "openAs" ELSE "open") /\ o = "ok"
           \/ s.do = "on" /\ s.chan = "absent" /\ z = "clean" /\ o = "ChannelUnavailable"
    PROVE  Taken(t, r, s, z, o)
<1> USE DEF Beginning
<1>1. Named(t) = {r}
  BY OurName
<1>2. PICK new : StartNamed(Shell, s.do, t, new) /\ new = IF s.do = "as" THEN Temp ELSE t
  BY DEF Call
<1>3. /\ pc'[Shell] = "release" /\ op'[Shell] = s.do /\ radio'[Shell] = r
      /\ orig'[Shell] = t /\ cur'[Shell] = new
  BY <1>1, <1>2, StartIssued
<1>4. outcome' = "pending"
  BY <1>3
<1>5. GoingIn(t, r, s, z, o)'
  BY <1>2, <1>3, <1>4 DEF GoingIn, Entering
<1> QED
  BY <1>3, <1>4, <1>5 DEF Taken, Going, Calm

(* or of one that is open already,                                         *)
LEMMA BusyTaken ==
    ASSUME NEW t, NEW r \in Radios, NEW s, Beginning(t, r, "kept", s), Answerable,
           s.do = "on", s.name = t
    PROVE  Taken(t, r, s, "kept", "AlreadyMonitor")
<1> USE DEF Beginning
<1>0. label[r] = t /\ mode[r] = "monitor" /\ pc[Shell] = "idle"
  BY DEF Here, Sessions
<1>1. Named(t) = {r}
  BY <1>0, OurName
<1>2. StartNamed(Shell, "on", t, t)
  BY DEF Call
<1>3. UNCHANGED <<pc, call>>
  BY <1>0, <1>1, <1>2, StartIssued
<1>4. outcome' = "AlreadyMonitor"
  BY <1>0, <1>1, <1>3 DEF AtOnce
<1>5. why'[r] = why[r]
  <2>1. radio[Shell] = NoRadio /\ radio'[Shell] = radio[Shell] /\ r # NoRadio
    BY <1>0, <1>3, ShellIsCaller, SessionAssumption DEF Base, Rested, call
  <2> QED
    BY <2>1 DEF Answerable
<1>6. Here(t, r, "kept")'
  BY <1>0, <1>3, <1>5 DEF Here, Sessions
<1> QED
  BY <1>0, <1>3, <1>4, <1>6 DEF Taken

(* the end of one, by name or by its guard,                                *)
LEMMA StopTaken ==
    ASSUME NEW t, NEW r, NEW x, NEW s, Beginning(t, r, x, s),
           \/ s.do = "stop" /\ s.name = t /\ x \in {"kept", "clean"}
           \/ s.do \in {"restore", "drop"} /\ x \in Sessions
    PROVE  Taken(t, r, s, "clean", "ok")
<1> USE ShellIsCaller DEF Beginning, Base, TypeOK, CallTypeOK
<1>0. mode[r] \in {"monitor", "managed"}
  BY DEF Here, Sessions
<1>1. CASE s.do = "stop" /\ s.name = t /\ x \in {"kept", "clean"}
  <2>1. StopMonitor(Shell) /\ orig'[Shell] = t /\ label[r] = t
    BY <1>1 DEF Call, Here
  <2>2. pc'[Shell] = "leaveFind" /\ op'[Shell] = "stop" /\ cur'[Shell] = t
    BY <2>1, Engaged DEF StopMonitor, Goto
  <2>3. ComingOut(t, r, "clean", "ok")'
    BY <1>0, <2>1, <2>2 DEF ComingOut, Leaving, Stilled, HandingBack
  <2> QED
    BY <2>2, <2>3 DEF Taken, Going, Calm
<1>2. CASE s.do \in {"restore", "drop"} /\ x \in Sessions
  <2>1. Restore(Shell) /\ op'[Shell] = s.do
    BY <1>2 DEF Call
  <2>2. /\ pc'[Shell] = "restore" /\ UNCHANGED <<radio, orig, cur>>
    BY <2>1 DEF Restore, Goto
  <2>3. radio[Shell] = r /\ orig[Shell] = t /\ cur[Shell] \in {t, Temp}
    BY <1>2 DEF Here
  <2>4. ComingOut(t, r, "clean", "ok")'
    BY <1>0, <1>2, <2>1, <2>2, <2>3 DEF ComingOut, Leaving, Stilled, HandingBack
  <2> QED
    BY <2>2, <2>4 DEF Taken, Going, Calm
<1> QED
  BY <1>1, <1>2

(* and of a guard that lets its session go,                                *)
LEMMA PersistTaken ==
    ASSUME NEW t, NEW r, NEW s, Beginning(t, r, "open", s), s.do = "persist", r \in Radios,
           why \in [Radios -> {"free", "kept", "loose"}],
           why' = [why EXCEPT ![radio[Shell]] = IF spent = begun THEN "kept" ELSE "loose"]
    PROVE  Taken(t, r, s, "kept", "ok")
<1> USE ShellIsCaller DEF Beginning, Base, TypeOK, CallTypeOK
<1>1. /\ Persist(Shell) /\ radio[Shell] = r /\ spent = begun /\ label[r] = t /\ mode[r] = "monitor"
  BY DEF Call, Here, Sessions, Calm
<1>2. pc'[Shell] = "idle" /\ outcome' = "ok"
  BY <1>1 DEF Persist, Return, Goto, AtOnce
<1>3. why'[r] = "kept"
  BY <1>1
<1>4. Here(t, r, "kept")'
  BY <1>1, <1>2, <1>3 DEF Here, Sessions
<1> QED
  BY <1>2, <1>4 DEF Taken

(* a stop of what is not there,                                            *)
LEMMA MissingTaken ==
    ASSUME NEW t, NEW r, NEW s, Beginning(t, r, "fresh", s), s.do = "stop", s.name = Absent
    PROVE  Taken(t, r, s, "fresh", "NotFound")
<1> USE ShellIsCaller DEF Beginning, Base, TypeOK, CallTypeOK
<1>1. StopMonitor(Shell) /\ orig'[Shell] = Absent /\ label[r] = t /\ mode[r] # "monitor"
  BY DEF Call, Here
<1>2. pc'[Shell] = "leaveFind" /\ op'[Shell] = "stop" /\ radio'[Shell] = NoRadio
  BY <1>1, Engaged DEF StopMonitor, Goto
<1>3. Missing(t, r, "fresh", "NotFound")'
  BY <1>1, <1>2 DEF Missing
<1> QED
  BY <1>2, <1>3 DEF Taken, Going, Calm

(* and the sweep.                                                          *)
LEMMA SweepTaken ==
    ASSUME NEW t, NEW r, NEW x, NEW s, NEW z, Beginning(t, r, x, s), s.do = "all",
           \/ x = "noted" /\ z = "swept"
           \/ x = "swept" /\ z = "bare"
    PROVE  Taken(t, r, s, z, "ok")
<1> USE ShellIsCaller DEF Beginning, Base, TypeOK, CallTypeOK
<1>1. StopAll(Shell) /\ pc[Shell] = "idle" /\ label[r] = t /\ swept' = {}
  BY DEF Call, StopAll, Here
<1>2. ~Fault("detect")
  BY WorldAssumption DEF Fault, WorldTypeOK
<1>3. IF Busy(Listed) = {}
      THEN UNCHANGED <<pc, call>>
      ELSE /\ Goto(Shell, "sweep") /\ op' = [op EXCEPT ![Shell] = "all"]
           /\ todo' = [todo EXCEPT ![Shell] = Busy(Listed)]
  BY <1>1, <1>2 DEF StopAll, Snapshot
<1>4. Monitors' = Monitors /\ r \in Present
  BY DEF Monitors, Present, Ours
<1>5. CASE x = "noted" /\ z = "swept"
  <2>1. <<r, t>> \in Busy(Listed) /\ mode[r] = "monitor"
    BY <1>1, <1>4, <1>5 DEF Busy, Listed, Here
  <2>2. \A c \in Busy(Listed) : c[2] \notin noted
    BY <1>5 DEF Busy, Listed, Here, Monitors
  <2>3. /\ pc'[Shell] = "sweep" /\ op'[Shell] = "all" /\ todo'[Shell] = Busy(Listed)
        /\ outcome' = "pending"
    BY <1>3, <2>1 DEF Goto
  <2>4. Sweeping(t, r, "swept", "ok")'
    BY <1>1, <2>1, <2>2, <2>3 DEF Sweeping
  <2> QED
    BY <1>5, <2>3, <2>4 DEF Taken, Going, Calm
<1>6. CASE x = "swept" /\ z = "bare"
  <2>1. Monitors = {} /\ mode[r] = "managed"
    BY <1>6 DEF Here
  <2>2. Busy(Listed) = {}
    BY <2>1 DEF Busy, Listed, Monitors
  <2>3. UNCHANGED <<pc, call>>
    BY <1>3, <2>2
  <2>4. outcome' = "ok"
    BY <1>1, <2>3 DEF AtOnce
  <2>5. Here(t, r, "bare")'
    BY <1>1, <1>4, <2>1, <2>3 DEF Here, Sessions
  <2> QED
    BY <1>1, <1>6, <2>3, <2>4, <2>5 DEF Taken
<1> QED
  BY <1>5, <1>6

(* A call keeps the suite on its course.                                   *)
LEMMA IssueCourse ==
    ASSUME SuiteKnown, program = "suite", Calm, NEW t, NEW r, Ours(t, r), Course(t, r),
           Issue, spent' = spent
    PROVE  Course(t, r)'
<1> USE DEF SuiteKnown
<1> DEFINE s == Head(script)
<1>1. /\ script # <<>> /\ outcome = "ready" /\ Call(s) /\ UNCHANGED <<script, launched, noted>>
      /\ outcome' = IF pc'[Shell] \in {"idle", "open"} THEN AtOnce(s) ELSE "pending"
      /\ swept' = IF s.do = "all" THEN {} ELSE swept
      /\ IF s.do = "persist"
         THEN why' = [why EXCEPT ![radio[Shell]] = IF spent = begun THEN "kept" ELSE "loose"]
         ELSE Answerable
      /\ begun' = spent
      /\ s.do \in {"auto", "on", "as", "stop", "all", "restore", "drop", "persist"}
  BY DEF Issue, Ready, progress
<1>2. script \in Seq(Plain) /\ s \in Plain
  BY <1>1, HeadOfScript DEF TerminalInv
<1>3. PICK x, z \in Stands, o \in Outcomes :
        Here(t, r, x) /\ Turn(t, x, s, z, o) /\ Leads(t, z, Tail(script), "bare")
  BY <1>1, <1>2, TurnDue
<1>4. CallTurn(t, x, s, z, o)
  BY <1>1, <1>3, TurnKinds DEF Detecting, Reckoning
<1>5. Beginning(t, r, x, s)
  <2>1. UNCHANGED <<mode, label>>
    BY <1>1, CallIsClient, ClientSpends DEF Base
  <2> QED
    BY <1>1, <1>3, <2>1 DEF Beginning, ProgramInv, TerminalInv, Ours
<1>6. r \in Radios
  BY DEF Ours, Present
<1>7. Malformed \notin Aliases
  BY SessionAssumption, WorldAssumption DEF Malformed
<1>8. Taken(t, r, s, z, o)
  <2>1. CASE s.do = "stop" /\ s.name = Absent /\ x = "fresh" /\ z = "fresh" /\ o = "NotFound"
    BY <1>5, <2>1, MissingTaken
  <2>2. CASE s.do = "as" /\ s.new = Malformed
    BY <1>1, <1>7, <2>2 DEF Call
  <2>3. CASE s.do = "on" /\ s.name = t /\ s.chan # "absent" /\ x \in {"fresh", "clean"} /\ z = "open" /\ o = "ok"
    BY <1>3, <1>5, <2>3, StartTaken DEF Here
  <2>4. CASE s.do = "on" /\ s.name = t /\ s.chan = "absent" /\ x = "clean" /\ z = "clean" /\ o = "ChannelUnavailable"
    BY <1>3, <1>5, <2>4, StartTaken DEF Here
  <2>5. CASE s.do = "on" /\ s.name = t /\ x = "kept" /\ z = "kept" /\ o = "AlreadyMonitor"
    BY <1>1, <1>5, <1>6, <2>5, BusyTaken
  <2>6. CASE s.do = "as" /\ s.name = t /\ s.new = Temp /\ s.chan # "absent" /\ x = "clean" /\ z = "openAs" /\ o = "ok"
    BY <1>3, <1>5, <2>6, StartTaken DEF Here
  <2>7. CASE s.do = "stop" /\ s.name = t /\ x \in {"kept", "clean"} /\ z = "clean" /\ o = "ok"
    BY <1>5, <2>7, StopTaken
  <2>8. CASE s.do \in {"restore", "drop"} /\ x \in {"open", "openAs"} /\ z = "clean" /\ o = "ok"
    BY <1>5, <2>8, StopTaken DEF Sessions
  <2>9. CASE s.do = "persist" /\ x = "open" /\ z = "kept" /\ o = "ok"
    BY <1>1, <1>5, <1>6, <2>9, PersistTaken DEF Observed
  <2>10. CASE s.do = "all" /\ x = "noted" /\ z = "swept" /\ o = "ok"
    BY <1>5, <2>10, SweepTaken
  <2>11. CASE s.do = "all" /\ x = "swept" /\ z = "bare" /\ o = "ok"
    BY <1>5, <2>11, SweepTaken
  <2> QED
    BY <1>4, <2>1, <2>2, <2>3, <2>4, <2>5, <2>6, <2>7, <2>8, <2>9, <2>10, <2>11 DEF CallTurn
<1>9. o \notin {"ready", "pending"}
  BY <1>2, <1>3, TurnReturns DEF Plain
<1>10. outcome' # "ready"
  BY <1>8, <1>9 DEF Taken
<1>11. \/ pc'[Shell] \in {"idle", "open"} /\ outcome' = o /\ Here(t, r, z)'
       \/ pc'[Shell] \notin {"idle", "open"} /\ Going(t, r, Head(script), z, o)'
  <2>1. PICK u : u = s
    OBVIOUS
  <2>2. Head(script') = u
    BY <1>1, <2>1
  <2>3. Taken(t, r, u, z, o)
    BY <1>8, <2>1
  <2>4. \/ pc'[Shell] \in {"idle", "open"} /\ outcome' = o /\ Here(t, r, z)'
        \/ pc'[Shell] \notin {"idle", "open"} /\ Going(t, r, u, z, o)'
    BY <2>3 DEF Taken
  <2> QED
    BY <2>1, <2>2, <2>4
<1> QED
  BY <1>1, <1>3, <1>10, <1>11, TurnTaken

(* What the suite knows as a call of its script goes on.                   *)
Advancing(t, r) ==
    /\ Base /\ ProgramInv /\ TerminalInv /\ Calm /\ begun = launched
    /\ t \in Names \ {Temp, Absent} /\ Ours(t, r)
    /\ Step(Shell) /\ spent' = spent
    /\ UNCHANGED <<begun, launched, noted>>
    /\ outcome' = Settled
    /\ swept' = IF op[Shell] = "all" /\ pc'[Shell] = "left" THEN swept \cup {orig[Shell]} ELSE swept

(* Nothing fails meanwhile.                                                *)
LEMMA NoFault ==
    ASSUME WorldTypeOK, spent' = spent
    PROVE  \A kind : ~Fault(kind)
BY WorldAssumption DEF WorldTypeOK, Fault

(* The answer is still to come until the call ends.                        *)
LEMMA StillPending ==
    ASSUME op[Shell] # "all", pc[Shell] # "tune",
           pc'[Shell] \notin {"open", "rejected", "left", "failed"}
    PROVE  Settled = outcome
BY DEF Settled

(* A start whose radio is there under its name goes in without a refusal:  *)
(* to the mode change,                                                     *)
LEMMA ReleaseGoesIn ==
    ASSUME NEW t, NEW r, NEW s, NEW z, NEW o, Advancing(t, r), GoingIn(t, r, s, z, o),
           pc[Shell] \in {"release", "wpaFind", "wpaDrop"}
    PROVE  GoingIn(t, r, s, z, o)' /\ pc'[Shell] \in {"wpaFind", "wpaDrop", "switch"}
<1> USE ShellIsCaller DEF Advancing, Base, TypeOK, CallTypeOK
<1>0. \A kind : ~Fault(kind)
  BY NoFault
<1>1. label[r] = t /\ op[Shell] \in {"on", "as"} /\ radio[Shell] = r /\ orig[Shell] = t
  BY DEF GoingIn, ProgramInv, ByName, UnderOrig
<1>2. Named(t) = {r}
  BY <1>1, OurName
<1>3. CASE pc[Shell] = "release"
  <2>1. NmRelease(Shell)
    BY <1>3 DEF Step, TryNext, WpaFind, WpaDrop, SwitchOn, Confirm, RenameOn, Refind, Tune, UndoName,
       UndoMode, GiveNm, GiveWpa, GiveWpaAdd, Rejected, RestoreFind, RenameBack, LeaveFind, SwitchOff,
       ConfirmOff, Handback, Finish
  <2>2. ~NmSet(orig[Shell], FALSE, FALSE)
    BY <1>0 DEF NmSet
  <2>3. pc'[Shell] = "wpaFind" /\ UNCHANGED <<mode, wpa, op, radio, orig, cur>>
    BY <2>1, <2>2 DEF NmRelease, Goto
  <2>4. outcome' = outcome
    BY <1>1, <1>3, <2>3, StillPending
  <2> QED
    BY <2>3, <2>4 DEF GoingIn, Entering
<1>4. CASE pc[Shell] = "wpaFind"
  <2>1. WpaFind(Shell)
    BY <1>4 DEF Step, TryNext, NmRelease, WpaDrop, SwitchOn, Confirm, RenameOn, Refind, Tune, UndoName,
       UndoMode, GiveNm, GiveWpa, GiveWpaAdd, Rejected, RestoreFind, RenameBack, LeaveFind, SwitchOff,
       ConfirmOff, Handback, Finish
  <2>2. UNCHANGED <<mode, wpa, op, radio, orig, cur>>
    BY <2>1 DEF WpaFind, WorldButSpent
  <2>3. \/ pc'[Shell] = "switch"
        \/ pc'[Shell] = "wpaDrop" /\ WpaKnows(t, TRUE)
    BY <1>0, <1>1, <2>1 DEF WpaFind, Goto
  <2>4. WpaKnows(t, TRUE) => wpa[r] # "out"
    BY <1>2 DEF WpaKnows
  <2>5. outcome' = outcome
    BY <1>1, <1>4, <2>3, StillPending
  <2> QED
    BY <2>2, <2>3, <2>4, <2>5 DEF GoingIn, Entering
<1>5. CASE pc[Shell] = "wpaDrop"
  <2>1. WpaDrop(Shell)
    BY <1>5 DEF Step, TryNext, NmRelease, WpaFind, SwitchOn, Confirm, RenameOn, Refind, Tune, UndoName,
       UndoMode, GiveNm, GiveWpa, GiveWpaAdd, Rejected, RestoreFind, RenameBack, LeaveFind, SwitchOff,
       ConfirmOff, Handback, Finish
  <2>2. wpa[r] # "out"
    BY <1>5 DEF GoingIn
  <2>3. ~WpaSet(t, "out", FALSE)
    BY <1>0, <1>2, <2>2 DEF WpaSet
  <2>4. pc'[Shell] = "switch" /\ UNCHANGED <<mode, op, radio, orig, cur>>
    BY <1>1, <2>1, <2>3 DEF WpaDrop, Goto
  <2>5. outcome' = outcome
    BY <1>1, <1>5, <2>4, StillPending
  <2> QED
    BY <2>4, <2>5 DEF GoingIn, Entering
<1> QED
  BY <1>3, <1>4, <1>5

(* through it and through the rename,                                      *)
LEMMA SwitchGoesIn ==
    ASSUME NEW t, NEW r, NEW s, NEW z, NEW o, Advancing(t, r), GoingIn(t, r, s, z, o),
           pc[Shell] \in {"switch", "confirm", "rename", "refind"}
    PROVE  /\ GoingIn(t, r, s, z, o)'
           /\ pc'[Shell] \in {"confirm", "rename", "refind", "tune"}
<1> USE ShellIsCaller DEF Advancing, Base, TypeOK, CallTypeOK
<1>0. \A kind : ~Fault(kind)
  BY NoFault
<1>1. /\ op[Shell] \in {"on", "as"} /\ radio[Shell] = r /\ orig[Shell] = t
      /\ r \in Present /\ r \in Radios /\ mode[r] # "gone"
      /\ cur[Shell] = IF s.do = "as" THEN Temp ELSE t
      /\ op[Shell] = s.do
  BY DEF GoingIn, Ours, Present
<1>2. CASE pc[Shell] = "switch"
  <2>1. SwitchOn(Shell)
    BY <1>2 DEF Step, TryNext, NmRelease, WpaFind, WpaDrop, Confirm, RenameOn, Refind, Tune, UndoName,
       UndoMode, GiveNm, GiveWpa, GiveWpaAdd, Rejected, RestoreFind, RenameBack, LeaveFind, SwitchOff,
       ConfirmOff, Handback, Finish
  <2>2. ~SetMode(r, "monitor", FALSE)
    BY <1>0, <1>1 DEF SetMode
  <2>3. pc'[Shell] = "confirm" /\ SetMode(r, "monitor", TRUE) /\ UNCHANGED <<op, radio, orig, cur>>
    BY <1>1, <2>1, <2>2 DEF SwitchOn, Goto, call
  <2>4. mode'[r] = "monitor"
    BY <1>0, <1>1, <2>3 DEF SetMode, WorldTypeOK
  <2>5. outcome' = outcome
    BY <1>1, <1>2, <2>3, StillPending
  <2> QED
    BY <2>3, <2>4, <2>5 DEF GoingIn, Entering
<1>3. CASE pc[Shell] = "confirm"
  <2>1. Confirm(Shell)
    BY <1>3 DEF Step, TryNext, NmRelease, WpaFind, WpaDrop, SwitchOn, RenameOn, Refind, Tune, UndoName,
       UndoMode, GiveNm, GiveWpa, GiveWpaAdd, Rejected, RestoreFind, RenameBack, LeaveFind, SwitchOff,
       ConfirmOff, Handback, Finish
  <2>2. mode[r] = "monitor"
    BY <1>3 DEF GoingIn
  <2>3. pc'[Shell] \in {"rename", "tune"} /\ UNCHANGED <<op, radio, orig, cur, mode>>
    BY <1>0, <1>1, <2>1, <2>2 DEF Confirm, ReadMode, Goto, call, WorldButSpent
  <2>5. outcome' = outcome
    BY <1>1, <1>3, <2>3, StillPending
  <2> QED
    BY <2>3, <2>5 DEF GoingIn, Entering
<1>4. CASE pc[Shell] = "rename"
  <2>1. RenameOn(Shell)
    BY <1>4 DEF Step, TryNext, NmRelease, WpaFind, WpaDrop, SwitchOn, Confirm, Refind, Tune, UndoName,
       UndoMode, GiveNm, GiveWpa, GiveWpaAdd, Rejected, RestoreFind, RenameBack, LeaveFind, SwitchOff,
       ConfirmOff, Handback, Finish
  <2>2. cur[Shell] = Temp
    BY <1>1, <1>4 DEF ProgramInv, ByStart
  <2>3. Named(Temp) \subseteq {r}
    BY <1>1 DEF Calm, TempIsOurs, Named
  <2>4. ~Rename(r, Temp, FALSE)
    BY <1>0, <1>1, <2>3 DEF Rename
  <2>5. pc'[Shell] = "refind" /\ UNCHANGED <<op, radio, orig, cur, mode>>
    BY <1>1, <2>1, <2>2, <2>4 DEF RenameOn, Goto, call
  <2>6. outcome' = outcome
    BY <1>1, <1>4, <2>5, StillPending
  <2> QED
    BY <2>5, <2>6 DEF GoingIn, Entering
<1>5. CASE pc[Shell] = "refind"
  <2>1. Refind(Shell)
    BY <1>5 DEF Step, TryNext, NmRelease, WpaFind, WpaDrop, SwitchOn, Confirm, RenameOn, Tune, UndoName,
       UndoMode, GiveNm, GiveWpa, GiveWpaAdd, Rejected, RestoreFind, RenameBack, LeaveFind, SwitchOff,
       ConfirmOff, Handback, Finish
  <2>2. label[r] = cur[Shell]
    BY <1>1, <1>5 DEF ProgramInv, ByName
  <2>3. r \in Named(cur[Shell]) /\ \A q \in Named(cur[Shell]) : q = r
    BY <1>1, <2>2, OneOfAName DEF Named
  <2>4. PICK q \in Named(cur[Shell]) : Resolve(Shell, q) /\ Goto(Shell, "tune")
    BY <1>0, <2>1, <2>3 DEF Refind, Find
  <2>5. pc'[Shell] = "tune" /\ UNCHANGED <<op, mode>>
    BY <2>1, <2>4 DEF Refind, Goto, WorldButSpent
  <2>6. radio'[Shell] = r /\ orig'[Shell] = orig[Shell] /\ cur'[Shell] = cur[Shell]
    BY <2>3, <2>4, Engaged DEF Resolve
  <2>7. outcome' = outcome
    BY <1>1, <1>5, <2>5, StillPending
  <2> QED
    BY <2>5, <2>6, <2>7 DEF GoingIn, Entering
<1> QED
  BY <1>2, <1>3, <1>4, <1>5

(* and to its guard, or out again where the channel cannot be set.         *)
LEMMA TuneGoesIn ==
    ASSUME NEW t, NEW r, NEW s, NEW z, NEW o, Advancing(t, r), GoingIn(t, r, s, z, o),
           pc[Shell] = "tune", (pc'[Shell] = "open") = (s.chan # "absent")
    PROVE  Taken(t, r, s, z, o)
<1> USE ShellIsCaller DEF Advancing, Base, TypeOK, CallTypeOK
<1>1. /\ op[Shell] = s.do /\ s.do \in {"on", "as"} /\ radio[Shell] = r /\ orig[Shell] = t
      /\ r \in Present /\ r \in Radios
      /\ cur[Shell] = IF s.do = "as" THEN Temp ELSE t
  BY DEF GoingIn, Ours, Present
<1>2. Tune(Shell)
  BY DEF Step, TryNext, NmRelease, WpaFind, WpaDrop, SwitchOn, Confirm, RenameOn, Refind, UndoName,
     UndoMode, GiveNm, GiveWpa, GiveWpaAdd, Rejected, RestoreFind, RenameBack, LeaveFind, SwitchOff,
     ConfirmOff, Handback, Finish
<1>3. UNCHANGED <<mode, label, radio, orig, cur>>
  BY <1>2 DEF Tune, world
<1>4. mode[r] = "monitor" /\ label[r] = cur[Shell]
  <2>1. spent = begun
    BY DEF Calm
  <2>2. mode[r] \in {"monitor", "gone"} /\ label[r] = cur[Shell]
    BY <1>1, <2>1 DEF TerminalInv, ByRelease, Switched, InSession, ProgramInv, ByName
  <2> QED
    BY <1>1, <2>2 DEF Present
<1>5. CASE s.chan # "absent"
  <2>1. z = (IF s.do = "as" THEN "openAs" ELSE "open") /\ o = "ok"
    BY <1>5 DEF GoingIn
  <2>2. pc'[Shell] = "open"
    BY <1>5
  <2>3. outcome' = "ok"
    BY <2>2 DEF Settled
  <2>4. Here(t, r, z)'
    BY <1>1, <1>3, <1>4, <2>1, <2>2 DEF Here, Sessions
  <2> QED
    BY <2>1, <2>2, <2>3, <2>4 DEF Taken
<1>6. CASE s.chan = "absent"
  <2>1. s.do = "on" /\ z = "clean" /\ o = "ChannelUnavailable"
    BY <1>6 DEF GoingIn
  <2>2. pc'[Shell] = "restore" /\ op'[Shell] = "restore"
    BY <1>2, <1>6 DEF Tune, Goto
  <2>3. outcome' = "ChannelUnavailable"
    BY <1>1, <2>2 DEF Settled
  <2>4. ComingOut(t, r, z, o)'
    BY <1>1, <1>3, <1>4, <2>1, <2>2, <2>3 DEF ComingOut, Leaving, Stilled, HandingBack
  <2> QED
    BY <2>2, <2>3, <2>4 DEF Taken, Going, Calm
<1> QED
  BY <1>5, <1>6

(* So every step of a start goes in, or ends it as the suite expects.      *)
LEMMA GoingInStep ==
    ASSUME NEW t, NEW r, NEW s, NEW z, NEW o, Advancing(t, r), GoingIn(t, r, s, z, o),
           pc[Shell] = "tune" => (pc'[Shell] = "open") = (s.chan # "absent")
    PROVE  Taken(t, r, s, z, o)
<1>1. CASE pc[Shell] = "tune"
  BY <1>1, TuneGoesIn
<1>2. CASE pc[Shell] # "tune"
  <2>1. pc[Shell] \in {"release", "wpaFind", "wpaDrop"}
        \/ pc[Shell] \in {"switch", "confirm", "rename", "refind"}
    BY <1>2 DEF GoingIn, Entering
  <2>2. GoingIn(t, r, s, z, o)' /\ pc'[Shell] \notin {"idle", "open"}
    BY <2>1, ReleaseGoesIn, SwitchGoesIn
  <2> QED
    BY <2>2 DEF Taken, Going, Advancing, GoingIn
<1> QED
  BY <1>1, <1>2

(* A stop of what is not there says so.                                    *)
LEMMA MissingStep ==
    ASSUME NEW t, NEW r, NEW s, NEW z, NEW o, Advancing(t, r), AbsentInv, Missing(t, r, z, o)
    PROVE  Taken(t, r, s, z, o)
<1> USE ShellIsCaller DEF Advancing, Base, TypeOK, CallTypeOK, Missing
<1>1. Named(Absent) = {}
  BY DEF AbsentInv, Named, Present
<1>2. CASE pc[Shell] = "leaveFind"
  <2>1. LeaveFind(Shell)
    BY <1>2 DEF Step, TryNext, NmRelease, WpaFind, WpaDrop, SwitchOn, Confirm, RenameOn, Refind, Tune,
       UndoName, UndoMode, GiveNm, GiveWpa, GiveWpaAdd, Rejected, RestoreFind, RenameBack, SwitchOff,
       ConfirmOff, Handback, Finish
  <2>2. pc'[Shell] = "failed" /\ UNCHANGED <<mode, label, op, radio, orig, cur>>
    BY <1>1, <2>1 DEF LeaveFind, Goto, WorldButSpent
  <2>3. outcome' = "NotFound"
    BY <1>2, <2>2 DEF Settled
  <2>4. Missing(t, r, z, o)'
    BY <2>2, <2>3 DEF Missing
  <2> QED
    BY <2>2, <2>3, <2>4 DEF Taken, Going, Calm
<1>3. CASE pc[Shell] = "failed"
  <2>1. Finish(Shell)
    BY <1>3 DEF Step, TryNext, NmRelease, WpaFind, WpaDrop, SwitchOn, Confirm, RenameOn, Refind, Tune,
       UndoName, UndoMode, GiveNm, GiveWpa, GiveWpaAdd, Rejected, RestoreFind, RenameBack, SwitchOff,
       ConfirmOff, Handback, LeaveFind
  <2>2. todo[Shell] = {}
    BY DEF ProgramInv, ByStart
  <2>3. pc'[Shell] = "idle" /\ UNCHANGED <<mode, label>>
    BY <2>1, <2>2 DEF Finish, Return, Goto, world
  <2>4. outcome' = "NotFound"
    BY <1>3, <2>3 DEF Settled
  <2>5. Here(t, r, z)'
    BY <2>3 DEF Here, Sessions
  <2> QED
    BY <2>3, <2>4, <2>5 DEF Taken
<1> QED
  BY <1>2, <1>3

(* A stop that resolves its name has the radio of that name,               *)
LEMMA StopResolves ==
    ASSUME NEW t, NEW r, Advancing(t, r), pc[Shell] = "leaveFind", orig[Shell] = t, label[r] = t
    PROVE  /\ UNCHANGED <<mode, label, op, orig, cur, todo>> /\ radio'[Shell] = r
           /\ pc'[Shell] = LeaveFrom(r)
<1> USE ShellIsCaller DEF Advancing, Base, TypeOK, CallTypeOK
<1>1. LeaveFind(Shell)
  BY DEF Step, TryNext, NmRelease, WpaFind, WpaDrop, SwitchOn, Confirm, RenameOn, Refind, Tune,
     UndoName, UndoMode, GiveNm, GiveWpa, GiveWpaAdd, Rejected, RestoreFind, RenameBack, SwitchOff,
     ConfirmOff, Handback, Finish
<1>2. Named(t) = {r} /\ \A kind : ~Fault(kind)
  BY OurName, NoFault
<1>3. Resolve(Shell, r) /\ Goto(Shell, LeaveFrom(r))
  BY <1>1, <1>2 DEF LeaveFind, Find
<1>4. UNCHANGED <<mode, label, op, todo>>
  BY <1>1 DEF LeaveFind, WorldButSpent
<1>5. radio'[Shell] = r /\ orig' = orig /\ cur' = cur
  BY <1>3 DEF Resolve, Engage
<1> QED
  BY <1>3, <1>4, <1>5 DEF Goto

(* and switches it, to the end, if it has to.                              *)
LEMMA StopHandsBack ==
    ASSUME NEW t, NEW r, Advancing(t, r), radio[Shell] = r, op[Shell] \notin Starts,
           pc[Shell] \in {"unswitch", "unconfirm", "handback"} \cup HandingBack,
           mode[r] = "managed" \/ (mode[r] = "monitor" /\ pc[Shell] \notin Stilled)
    PROVE  /\ UNCHANGED <<label, op, radio, orig, cur, todo>> /\ mode'[r] = "managed"
           /\ pc'[Shell] \in {"unconfirm", "handback", "left"} \cup HandingBack
<1> USE ShellIsCaller DEF Advancing, Base, TypeOK, CallTypeOK, call
<1>0. r \in Radios /\ mode[r] # "gone" /\ \A kind : ~Fault(kind)
  BY NoFault DEF Ours, Present
<1>1. CASE pc[Shell] = "unswitch"
  <2>1. SwitchOff(Shell)
    BY <1>1 DEF Step, TryNext, NmRelease, WpaFind, WpaDrop, SwitchOn, Confirm, RenameOn, Refind, Tune,
       UndoName, UndoMode, GiveNm, GiveWpa, GiveWpaAdd, Rejected, RestoreFind, RenameBack, LeaveFind,
       ConfirmOff, Handback, Finish
  <2>2. ~SetMode(r, "managed", FALSE)
    BY <1>0 DEF SetMode
  <2>3. /\ SetMode(r, "managed", TRUE) /\ pc'[Shell] = "unconfirm"
        /\ UNCHANGED <<label, op, radio, orig, cur, todo>>
    BY <2>1, <2>2 DEF SwitchOff, Goto
  <2>4. mode'[r] = "managed"
    BY <1>0, <2>3 DEF SetMode, WorldTypeOK
  <2> QED
    BY <2>3, <2>4
<1>2. CASE pc[Shell] = "unconfirm"
  <2>1. ConfirmOff(Shell) /\ mode[r] = "managed"
    BY <1>2 DEF Stilled, Step, TryNext, NmRelease, WpaFind, WpaDrop, SwitchOn, Confirm, RenameOn,
       Refind, Tune, UndoName, UndoMode, GiveNm, GiveWpa, GiveWpaAdd, Rejected, RestoreFind,
       RenameBack, LeaveFind, SwitchOff, Handback, Finish
  <2> QED
    BY <1>0, <2>1 DEF ConfirmOff, ReadMode, Goto, WorldButSpent
<1>3. CASE pc[Shell] = "handback"
  <2>1. Handback(Shell) /\ mode[r] = "managed"
    BY <1>3 DEF Stilled, Step, TryNext, NmRelease, WpaFind, WpaDrop, SwitchOn, Confirm, RenameOn,
       Refind, Tune, UndoName, UndoMode, GiveNm, GiveWpa, GiveWpaAdd, Rejected, RestoreFind,
       RenameBack, LeaveFind, SwitchOff, ConfirmOff, Finish
  <2> QED
    BY <2>1 DEF Handback, Goto, WorldButSpent, HandingBack
<1>4. CASE pc[Shell] \in HandingBack
  <2>1. GiveNm(Shell) \/ GiveWpa(Shell) \/ GiveWpaAdd(Shell)
    BY <1>4 DEF HandingBack, Step, TryNext, NmRelease, WpaFind, WpaDrop, SwitchOn, Confirm, RenameOn,
       Refind, Tune, UndoName, UndoMode, Rejected, RestoreFind, RenameBack, LeaveFind, SwitchOff,
       ConfirmOff, Handback, Finish
  <2>2. mode[r] = "managed"
    BY <1>4 DEF Stilled
  <2> QED
    BY <2>1, <2>2 DEF GiveNm, GiveWpa, GiveWpaAdd, Reclaimed, Goto, WorldButSpent, HandingBack
<1> QED
  BY <1>1, <1>2, <1>3, <1>4

(* The end of a session gets its radio its name back first,                *)
LEMMA RenameComesOut ==
    ASSUME NEW t, NEW r, NEW s, NEW z, NEW o, Advancing(t, r), ComingOut(t, r, z, o),
           pc[Shell] \in {"restore", "renameBack"}
    PROVE  ComingOut(t, r, z, o)' /\ pc'[Shell] \in {"renameBack", "leaveFind"}
<1> USE ShellIsCaller DEF Advancing, Base, TypeOK, CallTypeOK
<1>0. \A kind : ~Fault(kind)
  BY NoFault
<1>1. /\ op[Shell] \in {"restore", "drop"} /\ radio[Shell] = r /\ orig[Shell] = t
      /\ r \in Present /\ r \in Radios /\ mode[r] # "gone"
      /\ \A q \in Present \ {r} : label[q] # t
  BY DEF ComingOut, ProgramInv, ByStart, Ours, Present
<1>2. CASE pc[Shell] = "restore"
  <2>1. RestoreFind(Shell)
    BY <1>2 DEF Step, TryNext, NmRelease, WpaFind, WpaDrop, SwitchOn, Confirm, RenameOn, Refind, Tune,
       UndoName, UndoMode, GiveNm, GiveWpa, GiveWpaAdd, Rejected, RenameBack, LeaveFind, SwitchOff,
       ConfirmOff, Handback, Finish
  <2>2. label[r] = cur[Shell] /\ UNCHANGED <<mode, label, op>>
    BY <1>1, <1>2, <2>1 DEF ProgramInv, ByName, RestoreFind, WorldButSpent
  <2>3. CASE cur[Shell] = orig[Shell]
    <3>1. pc'[Shell] = "leaveFind" /\ UNCHANGED <<radio, orig, cur>>
      BY <2>1, <2>3 DEF RestoreFind, Goto
    <3>2. outcome' = outcome
      BY <1>1, <1>2, <3>1, StillPending
    <3> QED
      BY <1>1, <1>2, <2>2, <2>3, <3>1, <3>2 DEF ComingOut, Leaving, Stilled, HandingBack
  <2>4. CASE cur[Shell] # orig[Shell]
    <3>1. r \in Named(cur[Shell]) /\ \A q \in Named(cur[Shell]) : q = r
      BY <1>1, <2>2, OneOfAName DEF Named
    <3>2. PICK q \in Named(cur[Shell]) : Resolve(Shell, q) /\ Goto(Shell, "renameBack")
      BY <1>0, <2>1, <2>4, <3>1 DEF RestoreFind, Find
    <3>3. /\ pc'[Shell] = "renameBack" /\ radio'[Shell] = r
          /\ orig'[Shell] = orig[Shell] /\ cur'[Shell] = cur[Shell]
      BY <3>1, <3>2, Engaged DEF Resolve, Goto
    <3>4. outcome' = outcome
      BY <1>1, <1>2, <3>3, StillPending
    <3> QED
      BY <1>1, <1>2, <2>2, <3>3, <3>4 DEF ComingOut, Leaving, Stilled, HandingBack
  <2> QED
    BY <2>3, <2>4
<1>3. CASE pc[Shell] = "renameBack"
  <2>1. RenameBack(Shell)
    BY <1>3 DEF Step, TryNext, NmRelease, WpaFind, WpaDrop, SwitchOn, Confirm, RenameOn, Refind, Tune,
       UndoName, UndoMode, GiveNm, GiveWpa, GiveWpaAdd, Rejected, RestoreFind, LeaveFind, SwitchOff,
       ConfirmOff, Handback, Finish
  <2>2. ~Rename(r, t, FALSE)
    BY <1>0, <1>1 DEF Rename, Named
  <2>3. /\ pc'[Shell] = "leaveFind" /\ Rename(r, t, TRUE) /\ UNCHANGED <<mode, op, radio, orig, cur>>
    BY <1>1, <2>1, <2>2 DEF RenameBack, Goto, call
  <2>4. label'[r] = t
    BY <1>1, <2>3, Renamed
  <2>5. outcome' = outcome
    BY <1>1, <1>3, <2>3, StillPending
  <2> QED
    BY <1>1, <1>3, <2>3, <2>4, <2>5 DEF ComingOut, Leaving, Stilled, HandingBack
<1> QED
  BY <1>2, <1>3

(* and then to the services.                                               *)
LEMMA ComingOutStep ==
    ASSUME NEW t, NEW r, NEW s, NEW z, NEW o, Advancing(t, r), ComingOut(t, r, z, o)
    PROVE  Taken(t, r, s, z, o)
<1> USE ShellIsCaller
<1>1. /\ op[Shell] \in {"stop", "restore", "drop"} /\ orig[Shell] = t /\ todo[Shell] = {}
      /\ z = "clean" /\ o \in {"ok", "ChannelUnavailable"} /\ outcome \in {"pending", o}
  BY DEF ComingOut, Advancing, ProgramInv, ByStart
<1>2. CASE pc[Shell] \in {"restore", "renameBack"}
  <2>1. ComingOut(t, r, z, o)' /\ pc'[Shell] \in {"renameBack", "leaveFind"}
    BY <1>2, RenameComesOut
  <2>2. outcome' # "ready"
    BY <1>1, <2>1 DEF ComingOut
  <2> QED
    BY <2>1, <2>2 DEF Taken, Going, Advancing
<1>3. CASE pc[Shell] = "leaveFind"
  <2>1. /\ UNCHANGED <<mode, label, op, orig, cur, todo>> /\ radio'[Shell] = r
        /\ pc'[Shell] = LeaveFrom(r)
    BY <1>1, <1>3, StopResolves DEF ComingOut
  <2>2. pc'[Shell] = IF mode[r] = "monitor" THEN "unswitch" ELSE "handback"
    BY <2>1 DEF LeaveFrom
  <2>3. outcome' = outcome
    BY <1>1, <1>3, <2>2, StillPending DEF Advancing
  <2>4. ComingOut(t, r, z, o)'
    BY <1>3, <2>1, <2>2, <2>3 DEF ComingOut, Leaving, Stilled, HandingBack
  <2> QED
    BY <1>1, <2>2, <2>3, <2>4 DEF Taken, Going, Advancing
<1>4. CASE pc[Shell] \in {"unswitch", "unconfirm", "handback"} \cup HandingBack
  <2>1. /\ UNCHANGED <<label, op, radio, orig, cur, todo>> /\ mode'[r] = "managed"
        /\ pc'[Shell] \in {"unconfirm", "handback", "left"} \cup HandingBack
    BY <1>1, <1>4, StopHandsBack DEF ComingOut, Starts, HandingBack
  <2>2. outcome' = IF o = "ok" /\ pc'[Shell] # "left" THEN "pending" ELSE o
    <3>1. outcome = IF o = "ok" THEN "pending" ELSE o
      BY <1>4 DEF ComingOut, HandingBack
    <3>2. pc'[Shell] = "left" => outcome' = IF outcome = "pending" THEN "ok" ELSE outcome
      BY <1>1, <1>4 DEF Settled, Advancing, HandingBack
    <3>3. pc'[Shell] # "left" => outcome' = outcome
      BY <1>1, <1>4, <2>1, StillPending DEF Advancing, HandingBack
    <3> QED
      BY <1>1, <3>1, <3>2, <3>3
  <2>3. ComingOut(t, r, z, o)'
    BY <1>4, <2>1, <2>2 DEF ComingOut, Leaving, HandingBack
  <2>4. pc'[Shell] \notin {"idle", "open"} /\ outcome' # "ready"
    BY <1>1, <2>1, <2>2 DEF HandingBack
  <2> QED
    BY <2>3, <2>4 DEF Taken, Going, Advancing
<1>5. CASE pc[Shell] = "left"
  <2>1. Finish(Shell)
    BY <1>5 DEF Advancing, Step, TryNext, NmRelease, WpaFind, WpaDrop, SwitchOn, Confirm, RenameOn,
       Refind, Tune, UndoName, UndoMode, GiveNm, GiveWpa, GiveWpaAdd, Rejected, RestoreFind,
       RenameBack, LeaveFind, SwitchOff, ConfirmOff, Handback
  <2>2. pc'[Shell] = "idle" /\ UNCHANGED <<mode, label>>
    BY <1>1, <2>1 DEF Finish, Return, Goto, world, Advancing, Base, TypeOK, CallTypeOK
  <2>3. outcome' = o
    BY <1>1, <1>5, <2>2, StillPending DEF Advancing, ComingOut
  <2>4. label[r] = t /\ mode[r] = "managed"
    BY <1>5 DEF ComingOut, Stilled, Leaving, HandingBack, Advancing, ProgramInv, ByName
  <2>5. Here(t, r, z)'
    BY <1>1, <2>2, <2>4 DEF Here, Sessions
  <2> QED
    BY <2>2, <2>3, <2>5 DEF Taken
<1> QED
  BY <1>2, <1>3, <1>4, <1>5 DEF ComingOut, Leaving

(* The sweep goes from radio to radio,                                     *)
LEMMA SweepPasses ==
    ASSUME NEW t, NEW r, NEW z, NEW o, Advancing(t, r), Sweeping(t, r, z, o), Finish(Shell)
    PROVE  \/ pc'[Shell] = "idle" /\ t \in swept /\ mode[r] = "managed"
           \/ Sweeping(t, r, z, o)' /\ pc'[Shell] = "leaveFind"
<1> USE ShellIsCaller DEF Advancing, Base, TypeOK, CallTypeOK
<1>1. /\ UNCHANGED <<mode, label>> /\ pc[Shell] \in {"left", "failed", "sweep"}
      /\ op[Shell] = "all" /\ label[r] = t
  BY DEF Finish, world, Sweeping
<1>2. \/ t \in swept /\ mode[r] = "managed"
      \/ <<r, t>> \in todo[Shell] /\ mode[r] \in {"monitor", "managed"}
  BY <1>1 DEF Sweeping, Leaving, HandingBack
<1>3. CASE todo[Shell] = {} /\ Return(Shell)
  BY <1>2, <1>3 DEF Return, Goto
<1>4. ASSUME NEW c \in todo[Shell], todo' = [todo EXCEPT ![Shell] = todo[Shell] \ {c}],
             Engage(Shell, NoRadio, c[2], c[2], FALSE), Goto(Shell, "leaveFind"), UNCHANGED op
      PROVE  Sweeping(t, r, z, o)' /\ pc'[Shell] = "leaveFind"
  <2>1. /\ pc'[Shell] = "leaveFind" /\ orig'[Shell] = c[2] /\ op'[Shell] = "all"
        /\ todo'[Shell] = todo[Shell] \ {c}
    BY <1>1, <1>4, Engaged DEF Goto
  <2>2. swept' = swept /\ outcome' = "ok"
    BY <1>1, <2>1 DEF Settled
  <2>3. /\ orig'[Shell] \notin noted' /\ swept' \cap noted' = {}
        /\ (\A d \in todo'[Shell] : d[2] \notin noted') /\ z = "swept" /\ o = "ok"
    BY <2>1, <2>2 DEF Sweeping
  <2>4. CASE t \in swept /\ mode[r] = "managed"
    BY <1>1, <2>1, <2>2, <2>3, <2>4 DEF Sweeping
  <2>5. CASE c = <<r, t>> /\ mode[r] \in {"monitor", "managed"}
    <3>1. orig'[Shell] = t
      BY <2>1, <2>5
    <3> QED
      BY <1>1, <2>1, <2>2, <2>3, <2>5, <3>1 DEF Sweeping, Leaving, HandingBack, Stilled
  <2>6. CASE c # <<r, t>> /\ <<r, t>> \in todo[Shell] /\ mode[r] \in {"monitor", "managed"}
    BY <1>1, <2>1, <2>2, <2>3, <2>6 DEF Sweeping
  <2> QED
    BY <1>2, <2>1, <2>4, <2>5, <2>6
<1> QED
  BY <1>3, <1>4 DEF Finish, Remaining

(* takes each out of monitor mode,                                         *)
LEMMA SweepGoesOn ==
    ASSUME NEW t, NEW r, NEW z, NEW o, Advancing(t, r), Sweeping(t, r, z, o), ~Finish(Shell)
    PROVE  Sweeping(t, r, z, o)' /\ pc'[Shell] \notin {"idle", "open"}
<1> USE ShellIsCaller DEF Advancing, Base, TypeOK, CallTypeOK
<1>0. r \in Radios /\ op[Shell] = "all" /\ label[r] = t
  BY DEF Sweeping, Ours, Present
<1>1. \/ LeaveFind(Shell) \/ SwitchOff(Shell) \/ ConfirmOff(Shell) \/ Handback(Shell)
      \/ GiveNm(Shell) \/ GiveWpa(Shell) \/ GiveWpaAdd(Shell)
  <2>1. pc[Shell] \notin Starting \cup {"restore", "renameBack"}
    BY <1>0 DEF ProgramInv, ByStart, Starts
  <2> QED
    BY <2>1 DEF Step, TryNext, NmRelease, WpaFind, WpaDrop, SwitchOn, Confirm, RenameOn, Refind, Tune,
       UndoName, UndoMode, Rejected, RestoreFind, RenameBack, Starting, Entering, RollingBack
<1>2. /\ UNCHANGED <<op, orig, todo>>
      /\ pc'[Shell] \in {"failed", "unswitch", "unconfirm", "handback", "left"} \cup HandingBack
  <2>1. CASE LeaveFind(Shell)
    BY <2>1 DEF LeaveFind, LeaveFrom, Resolve, Engage, Goto
  <2>2. CASE SwitchOff(Shell) \/ ConfirmOff(Shell) \/ Handback(Shell)
    BY <2>2 DEF SwitchOff, ConfirmOff, Handback, Goto, call, HandingBack
  <2>3. CASE GiveNm(Shell) \/ GiveWpa(Shell) \/ GiveWpaAdd(Shell)
    BY <1>0, <2>3 DEF GiveNm, GiveWpa, GiveWpaAdd, Reclaimed, Goto, call, HandingBack, Starts
  <2> QED
    BY <1>1, <2>1, <2>2, <2>3
<1>3. mode'[r] \in {mode[r], "managed"}
  <2>1. CASE SwitchOff(Shell)
    BY <1>0, <2>1 DEF SwitchOff, SetMode, WorldTypeOK
  <2>2. CASE ~SwitchOff(Shell)
    BY <1>1, <2>2 DEF LeaveFind, ConfirmOff, Handback, GiveNm, GiveWpa, GiveWpaAdd, WorldButSpent
  <2> QED
    BY <2>1, <2>2
<1>4. label'[r] = t
  BY <1>0, Relabels DEF ProgramInv
<1>5. outcome' = "ok"
  BY <1>0, <1>2 DEF Settled, HandingBack
<1>6. pc[Shell] # "sweep"
  BY <1>1 DEF LeaveFind, SwitchOff, ConfirmOff, Handback, GiveNm, GiveWpa, GiveWpaAdd
<1>7. swept \subseteq swept' /\ swept' \cap noted' = {} /\ orig'[Shell] \notin noted'
      /\ (pc'[Shell] = "left" => orig[Shell] \in swept')
  BY <1>0, <1>2, <1>6 DEF Sweeping
<1>8. /\ op'[Shell] = "all" /\ z = "swept" /\ o = "ok"
      /\ \A c \in todo'[Shell] : c[2] \notin noted'
  BY <1>0, <1>2 DEF Sweeping
<1>9. pc'[Shell] \notin {"idle", "open"}
  BY <1>2 DEF HandingBack
<1> SUFFICES \/ t \in swept' /\ mode'[r] = "managed"
             \/ <<r, t>> \in todo'[Shell] /\ mode'[r] \in {"monitor", "managed"}
             \/ /\ orig'[Shell] = t /\ pc'[Shell] # "leaveFind" /\ radio'[Shell] = r
                /\ pc'[Shell] \in (Leaving \ {"restore", "renameBack"}) \cup HandingBack
                /\ mode'[r] = "managed" \/ (mode'[r] = "monitor" /\ pc'[Shell] \notin Stilled)
  BY <1>4, <1>5, <1>7, <1>8, <1>9 DEF Sweeping
<1>10. CASE t \in swept /\ mode[r] = "managed"
  BY <1>3, <1>7, <1>10
<1>11. CASE <<r, t>> \in todo[Shell] /\ mode[r] \in {"monitor", "managed"}
  BY <1>2, <1>3, <1>11
<1>12. CASE /\ orig[Shell] = t
            /\ pc[Shell] = "leaveFind" \/ radio[Shell] = r
            /\ pc[Shell] \in (Leaving \ {"restore", "renameBack"}) \cup HandingBack
            /\ mode[r] = "managed" \/ (mode[r] = "monitor" /\ pc[Shell] \notin Stilled)
  <2>1. CASE pc[Shell] = "leaveFind"
    <3>1. UNCHANGED <<mode, orig>> /\ radio'[Shell] = r /\ pc'[Shell] = LeaveFrom(r)
      BY <1>0, <1>12, <2>1, StopResolves
    <3>2. pc'[Shell] = IF mode[r] = "monitor" THEN "unswitch" ELSE "handback"
      BY <3>1 DEF LeaveFrom
    <3> QED
      BY <1>12, <3>1, <3>2 DEF Leaving, HandingBack, Stilled
  <2>2. CASE pc[Shell] # "leaveFind"
    <3>1. /\ UNCHANGED <<radio, orig>> /\ mode'[r] = "managed"
          /\ pc'[Shell] \in {"unconfirm", "handback", "left"} \cup HandingBack
      BY <1>0, <1>12, <2>2, StopHandsBack DEF Leaving, Starts
    <3>2. CASE pc'[Shell] = "left"
      BY <1>7, <1>12, <3>1, <3>2
    <3>3. CASE pc'[Shell] # "left"
      BY <1>12, <2>2, <3>1, <3>3 DEF Leaving, HandingBack
    <3> QED
      BY <3>2, <3>3
  <2> QED
    BY <2>1, <2>2
<1> QED
  BY <1>10, <1>11, <1>12 DEF Sweeping

(* and ends with none left in it, the suite's own among those it reports.  *)
LEMMA SweepingStep ==
    ASSUME NEW t, NEW r, NEW s, NEW z, NEW o, Advancing(t, r), Sweeping(t, r, z, o)
    PROVE  Taken(t, r, s, z, o)
<1> USE ShellIsCaller DEF Advancing
<1>1. op[Shell] = "all" /\ z = "swept" /\ o = "ok" /\ label[r] = t
  BY DEF Sweeping
<1>2. outcome' = "ok"
  BY <1>1 DEF Settled
<1>3. CASE Sweeping(t, r, z, o)' /\ pc'[Shell] \notin {"idle", "open"}
  BY <1>2, <1>3 DEF Taken, Going
<1>4. CASE Finish(Shell) /\ pc'[Shell] = "idle" /\ t \in swept /\ mode[r] = "managed"
  <2>1. Monitors = {} /\ UNCHANGED mode
    BY <1>1, <1>4, SweepLeavesNone DEF Calm, ProgramInv
  <2>2. UNCHANGED label
    BY <1>4 DEF Finish, world
  <2>3. swept' = swept /\ swept \cap noted = {}
    BY <1>4 DEF Sweeping
  <2>4. Monitors' = {}
    BY <2>1 DEF Monitors, Present
  <2>5. Here(t, r, z)'
    BY <1>1, <1>4, <2>1, <2>2, <2>3, <2>4 DEF Here, Sessions
  <2> QED
    BY <1>1, <1>2, <1>4, <2>5 DEF Taken
<1> QED
  BY <1>3, <1>4, SweepPasses, SweepGoesOn

(* A call goes on on the suite's course.                                   *)
LEMMA LibraryCourse ==
    ASSUME SuiteKnown, program = "suite", Calm, NEW t \in Names, NEW r, Ours(t, r), Course(t, r),
           Library, spent' = spent
    PROVE  Course(t, r)'
<1> USE DEF SuiteKnown
<1>1. /\ Step(Shell) /\ ChannelAsAsked /\ outcome' = Settled
      /\ swept' = IF op[Shell] = "all" /\ pc'[Shell] = "left"
                  THEN swept \cup {orig[Shell]} ELSE swept
      /\ UNCHANGED <<script, launched, noted, begun>>
  BY DEF Library, progress
<1>2. pc[Shell] \notin {"idle", "open"}
  BY <1>1, StepUnderWay
<1>3. outcome # "ready" /\ script # <<>>
  BY <1>2 DEF ProgramInv, Between, TerminalInv, ByScript
<1>4. PICK x, z \in Stands, o \in Outcomes :
        /\ Turn(t, x, Head(script), z, o) /\ Leads(t, z, Tail(script), "bare")
        /\ Going(t, r, Head(script), z, o)
  BY <1>2, <1>3 DEF Course
<1>5. Head(script).chan \in {"none", "usable", "absent", "disabled", "elsewhere"}
  BY <1>3, HeadOfScript DEF TerminalInv, Plain
<1>6. PICK s : s = Head(script)
  OBVIOUS
<1>7. Advancing(t, r) /\ Going(t, r, s, z, o)
  BY <1>1, <1>4, <1>6 DEF Advancing, Going, Ours
<1>8. Taken(t, r, s, z, o)
  <2>1. pc[Shell] = "tune" => (pc'[Shell] = "open") = (s.chan # "absent")
    BY <1>1, <1>6 DEF ChannelAsAsked
  <2>2. CASE Missing(t, r, z, o)
    BY <1>7, <2>2, MissingStep
  <2>3. CASE GoingIn(t, r, s, z, o)
    BY <1>7, <2>1, <2>3, GoingInStep
  <2>4. CASE ComingOut(t, r, z, o)
    BY <1>7, <2>4, ComingOutStep
  <2>5. CASE Sweeping(t, r, z, o)
    BY <1>7, <2>5, SweepingStep
  <2> QED
    BY <1>7, <2>2, <2>3, <2>4, <2>5 DEF Going
<1>9. outcome' # "ready"
  BY <1>4, <1>5, <1>8, TurnReturns DEF Taken
<1>10. \/ pc'[Shell] \in {"idle", "open"} /\ outcome' = o /\ Here(t, r, z)'
       \/ pc'[Shell] \notin {"idle", "open"} /\ Going(t, r, Head(script), z, o)'
  <2>1. Head(script') = s
    BY <1>1, <1>6
  <2>2. \/ pc'[Shell] \in {"idle", "open"} /\ outcome' = o /\ Here(t, r, z)'
        \/ pc'[Shell] \notin {"idle", "open"} /\ Going(t, r, s, z, o)'
    BY <1>8 DEF Taken
  <2> QED
    BY <1>6, <2>1, <2>2
<1> QED
  BY <1>1, <1>3, <1>4, <1>9, <1>10, TurnTaken

(* No call takes the suite's radio its name, nor gives it to another.      *)
LEMMA LibraryOurs ==
    ASSUME SuiteKnown, program = "suite", NEW t, NEW r, Ours(t, r), Course(t, r), Library,
           spent' = spent, Present' = Present
    PROVE  Ours(t, r)'
<1> USE DEF SuiteKnown
<1>1. Step(Shell) /\ pc[Shell] \notin {"idle", "open"}
  BY StepUnderWay DEF Library
<1>2. \E s, z, o : Going(t, r, s, z, o)
  BY <1>1 DEF Course, ProgramInv, Between
<1>3. ASSUME NEW q \in Radios, label'[q] # label[q]
      PROVE  label'[q] = Temp \/ q = r
  <2>1. CASE pc[Shell] = "rename" /\ op[Shell] = "as" /\ label'[q] = cur[Shell]
    BY <2>1 DEF OwnCalls
  <2>2. CASE pc[Shell] = "undoName" /\ op[Shell] = "as"
    BY <1>2, <2>2 DEF Going, Missing, GoingIn, ComingOut, Sweeping, Entering
  <2>3. CASE pc[Shell] = "renameBack" /\ op[Shell] \in {"restore", "drop"} /\ q = radio[Shell]
    BY <1>2, <2>3 DEF Going, Missing, GoingIn, ComingOut, Sweeping, Entering
  <2> QED
    BY <1>1, <1>3, <2>1, <2>2, <2>3, Relabels DEF ProgramInv
<1> QED
  BY <1>3 DEF Ours, Present

(* Where nothing fails and the name is its own, the suite stays on its     *)
(* course to the end, whatever step is taken.                              *)
LEMMA SuiteInvStep ==
    ASSUME SuiteKnown, KeptStands, SelectInv, SuiteInv, [ShellNext]_allVars
    PROVE  SuiteInv'
<1> USE DEF SuiteKnown
<1> SUFFICES ASSUME program' = "suite", Calm'
             PROVE  ~failed' /\ \E t \in Names, r \in Radios : Ours(t, r)' /\ Course(t, r)'
  BY DEF SuiteInv
<1>1. CASE program = "suite"
  <2>1. Calm /\ spent' = spent
    BY <1>1, CalmBefore
  <2>2. PICK t \in Names, r \in Radios : Ours(t, r) /\ Course(t, r)
    BY <1>1, <2>1 DEF SuiteInv
  <2>3. ~failed
    BY <1>1, <2>1 DEF SuiteInv
  <2>4. /\ ~Killed
        /\ Issue \/ Library \/ RefuseName \/ Look \/ Judge \/ Surroundings \/ UNCHANGED allVars
    BY <1>1, SuiteGoesOn DEF ProgramInv, TerminalInv
  <2>5. Present' = Present
    BY <2>1, Attendance
  <2>6. Ours(t, r)'
    <3>1. CASE Library
      BY <1>1, <2>1, <2>2, <2>5, <3>1, LibraryOurs
    <3>2. CASE Issue
      <4>1. UNCHANGED label
        BY <3>2, CallIsClient, ClientSpends DEF Issue, Base
      <4> QED
        BY <2>2, <2>5, <4>1 DEF Ours
    <3>3. CASE ~Issue /\ ~Library
      <4>1. UNCHANGED label
        BY <2>4, <3>3, BetweenCalls DEF Aside
      <4> QED
        BY <2>2, <2>5, <4>1 DEF Ours
    <3> QED
      BY <3>1, <3>2, <3>3
  <2>7. Course(t, r)' /\ ~failed'
    <3>1. CASE Judge
      BY <1>1, <2>2, <2>3, <3>1, JudgedCourse
    <3>2. CASE Issue
      BY <1>1, <2>1, <2>2, <2>3, <3>2, IssueCourse DEF Issue
    <3>3. CASE Library
      BY <1>1, <2>1, <2>2, <2>3, <3>3, LibraryCourse DEF Library
    <3>4. CASE RefuseName
      BY <1>1, <2>2, <2>3, <3>4, RefusedCourse DEF RefuseName
    <3>5. CASE Look
      BY <1>1, <2>1, <2>2, <2>3, <3>5, LookCourse DEF Look
    <3>6. CASE Surroundings \/ UNCHANGED allVars
      <4>1. UNCHANGED failed
        BY <3>6 DEF Surroundings, allVars, shellVars, memory
      <4> QED
        BY <2>1, <2>2, <2>3, <3>6, <4>1, HostCourse
    <3> QED
      BY <2>4, <3>1, <3>2, <3>3, <3>4, <3>5, <3>6
  <2> QED
    BY <2>2, <2>6, <2>7
<1>2. CASE program # "suite"
  <2>1. Judge /\ script # <<>> /\ Head(script).do = "select"
    <3>1. Judge
      BY <1>2, ProgramAssumption DEF ShellNext, Work, Launch, Issue, RefuseName, Library, Look, Exit,
         Restart, Killed, Surroundings, allVars, shellVars, progress, AllCommands
    <3> QED
      BY <1>2, <3>1 DEF Judge, TerminalInv, ByScript
  <2>2. program = "full_cycle"
    <3>1. CASE program = "reset"
      BY <2>1, <3>1, HeadOfScript, ResetSteps DEF TerminalInv
    <3>2. CASE program \notin {"reset", "full_cycle"}
      BY <2>1, <3>2, HeadOfScript DEF TerminalInv, Doings, Starts, Detecting, Reckoning, Asking
    <3> QED
      BY <3>1, <3>2
  <2> QED
    BY <2>1, <2>2, ChosenCourse
<1> QED
  BY <1>1, <1>2

(* What the suite rests on: what it knows of its calls and of its radio.   *)
SuiteAll == /\ TInv /\ AbsentInv /\ Began /\ OwnCalls /\ Unmoved
            /\ SelectInv /\ SuiteInv

(* It holds at boot, where no radio has a name of the suite's,             *)
LEMMA SuiteInit == ShellInit => SuiteAll
<1> SUFFICES ASSUME ShellInit PROVE SuiteAll
  OBVIOUS
<1>1. /\ program = "none" /\ pc[Shell] = "idle" /\ op[Shell] = "none" /\ label = Home
  BY ShellIsCaller DEF ShellInit, Init, WorldInit
<1>2. AbsentInv
  BY <1>1, ProgramAssumption DEF AbsentInv
<1>3. Began /\ OwnCalls /\ Unmoved /\ SelectInv /\ SuiteInv
  BY <1>1 DEF Began, OwnCalls, Unmoved, SelectInv, SuiteInv
<1> QED
  BY <1>2, <1>3, TerminalInit DEF SuiteAll

(* and every step keeps it.                                                *)
LEMMA SuiteStep == SuiteAll /\ [ShellNext]_allVars => SuiteAll'
<1> SUFFICES ASSUME SuiteAll, [ShellNext]_allVars PROVE SuiteAll'
  OBVIOUS
<1>1. TInv /\ AbsentInv /\ Began /\ OwnCalls /\ Unmoved /\ SelectInv /\ SuiteInv
  BY DEF SuiteAll
<1>2. /\ Base /\ Observed /\ ProgramInv /\ TerminalInv /\ ByScript /\ ByStart /\ ByName
      /\ KeptStands /\ launched \in Nat /\ launched <= spent
  BY <1>1, WorldAssumption DEF TInv, ProgramInv, TerminalInv, ByReset, ShellTypeOK
<1>3. SuiteKnown
  BY <1>1, <1>2 DEF SuiteKnown
<1>4. TInv'
  BY <1>1, TerminalStep
<1>5. AbsentInv'
  BY <1>1, <1>2, AbsentStep
<1>6. Began'
  BY <1>1, <1>2, BeganStep
<1>7. OwnCalls'
  BY <1>1, <1>2, OwnCallsStep
<1>8. Unmoved'
  <2>1. CASE program' = "suite"
    BY <1>3, <2>1, UnmovedStep
  <2>2. CASE program' # "suite"
    BY <2>2 DEF Unmoved
  <2> QED
    BY <2>1, <2>2
<1>9. SelectInv'
  BY <1>1, <1>2, SelectStep
<1>10. SuiteInv'
  BY <1>1, <1>2, <1>3, SuiteInvStep
<1> QED
  BY <1>4, <1>5, <1>6, <1>7, <1>8, <1>9, <1>10 DEF SuiteAll

(* Every check of the end-to-end suite holds, whatever ran before it, for  *)
(* any radios, any hardware and any number of programs, on a host where    *)
(* nothing fails meanwhile, one service at most holds the radios, and the  *)
(* suite's temporary name is on no radio but the one it renames.           *)
THEOREM SuitesPass == ShellSpec => []SuitePasses
<1>1. SuiteAll => SuitePasses
  BY DEF SuiteAll, SuiteInv, Calm, SuitePasses
<1>2. ShellSpec => []SuiteAll
  BY SuiteInit, SuiteStep, PTL DEF ShellSpec
<1> QED
  BY <1>1, <1>2, PTL
============================================================================
