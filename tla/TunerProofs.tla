----------------------------- MODULE TunerProofs -----------------------------
(***************************************************************************)
(* Proofs about Tuner, for any radio, callers, channels and glitches: an Ok *)
(* is true when it is given, and stands until another call begins, the      *)
(* radio is moved from outside, or a request that was abandoned before it  *)
(* is served; a channel's number leads back to it.                         *)
(***************************************************************************)
EXTENDS Tuner, FiniteSetTheorems, TLAPS

(* A caller at work has resolved its number to a frequency of that number,  *)
(* in a band of its scope.                                                 *)
Fits(mhz, a) ==
    /\ ChannelFromMhz(mhz) = a.number
    /\ \E b \in Bands : b.mhz = mhz /\ Includes(a.scope, b.kind)

Resolved == \A t \in Tuners : at[t] # "idle" => Fits(freq[t], ask[t])

(* The radio is where it was, or where some set_channel would put it.      *)
Requests == {Request(b.mhz, w) : b \in Bands, w \in Widths}
Settled == tuning = Untuned \/ tuning \in Requests

(* Whose request is in flight still was told so; and one that is since an   *)
(* Ok was so when it was given.                                            *)
Loosened ==
    /\ \A p \in pending : p.nth \in told
    /\ said.answer = "Ok" => pending \subseteq loose

(* What is left of the last Ok: it is true, or undone by one of those.     *)
Stands ==
    \/ Delivers(said.ask)
    \/ \E p \in loose \ pending :
          tuning \in {Request(p.freq, p.width), Request(p.freq, "20")}

(* Once nobody has changed the tuning and not yet said so.                 *)
Standing ==
    said.answer = "Ok" /\ (\A t \in Tuners : at[t] # "verify") => Stands

TunerInv == TypeOK /\ Resolved /\ Settled /\ Loosened /\ Standing

---------------------------------------------------------------------------
(* What a request asks for.                                                *)
LEMMA RequestType ==
    ASSUME NEW b \in Bands, NEW w \in Widths
    PROVE  /\ Request(b.mhz, w) \in Tuning
           /\ Request(b.mhz, w).freq = b.mhz
BY TunerAssumption DEF Request, Tuning, Widths

(* A width and a side read back from a radio that is settled determine its  *)
(* tuning, although drivers may leave any attribute out.                   *)
LEMMA ReadBackTells ==
    ASSUME NEW b \in Bands, NEW w \in Widths, NEW v \in Widths, NEW read,
           read \in [freq : {b.mhz, None}, width : {Request(b.mhz, w).width, None},
                     center : {Request(b.mhz, w).center, None}],
           NEW mhz \in Nat, mhz > 10, Verdict(read, mhz, v) = "Ok"
    PROVE  mhz = b.mhz /\ v = w
<1>1. read.freq = mhz /\ WidthAt(read, mhz) = v
  BY DEF Verdict
<1>2. mhz = b.mhz /\ b.mhz \in Nat
  BY <1>1, TunerAssumption DEF None
<1>3. CASE w = "20"
  BY <1>1, <1>2, <1>3 DEF Request, WidthAt, Widths, None
<1>4. CASE w = "40above"
  BY <1>1, <1>2, <1>4 DEF Request, WidthAt, Widths, None
<1>5. CASE w = "40below"
  BY <1>1, <1>2, <1>5 DEF Request, WidthAt, Widths, None
<1> QED
  BY <1>2, <1>3, <1>4, <1>5 DEF Widths

(* The full readback is one of those.                                      *)
LEMMA VerdictTells ==
    ASSUME TypeOK, Settled, NEW read,
           read \in [freq : {tuning.freq, None}, width : {tuning.width, None},
                     center : {tuning.center, None}],
           NEW mhz \in Nat, mhz > 10, NEW v \in Widths, Verdict(read, mhz, v) = "Ok"
    PROVE  tuning = Request(mhz, v) /\ tuning.freq = mhz
<1>1. CASE tuning = Untuned
  BY <1>1 DEF Untuned, Verdict, None
<1>2. CASE tuning \in Requests
  <2>1. PICK b \in Bands, w \in Widths : tuning = Request(b.mhz, w)
    BY <1>2 DEF Requests
  <2>2. mhz = b.mhz /\ v = w
    BY <2>1, ReadBackTells, RequestType
  <2> QED
    BY <2>1, <2>2, RequestType
<1> QED
  BY <1>1, <1>2 DEF Settled

(* What resolve_frequency returns fits the number and the scope.           *)
LEMMA ResolveFits ==
    ASSUME NEW b, NEW a \in Ask, Resolve(Table(b), a.number, a.scope) = "Ok"
    PROVE  /\ Fits(Frequency(Table(b), a.number, a.scope), a)
           /\ Frequency(Table(b), a.number, a.scope) \in {l.mhz : l \in Bands}
<1> DEFINE usable == Usable(InScope(Table(b), a.number, a.scope))
           mhz == Frequency(Table(b), a.number, a.scope)
<1>1. usable # {}
  BY DEF Resolve
<1>2. mhz \in usable
  BY <1>1 DEF Frequency
<1>3. PICK l \in Table(b) : /\ l.mhz = mhz /\ ChannelFromMhz(l.mhz) = a.number
                            /\ Includes(a.scope, l.kind)
  BY <1>2 DEF Usable, InScope, Numbered
<1>4. PICK c \in Bands : c.mhz = l.mhz /\ c.kind = l.kind
  BY <1>3 DEF Table
<1> QED
  BY <1>3, <1>4 DEF Fits

(* A call that ends with Ok ends with the radio where it asked.            *)
LEMMA OkDelivers ==
    ASSUME TunerInv, NEW t \in Tuners, ReadBack(t), said'.answer = "Ok"
    PROVE  Delivers(ask[t]) /\ UNCHANGED <<tuning, pending>>
<1>1. ask[t] \in Ask /\ freq[t] \in Nat /\ freq[t] > 10 /\ at[t] = "verify"
  BY TunerAssumption DEF TunerInv, TypeOK, ReadBack, None
<1>2. tuning \in Tuning /\ TypeOK /\ Settled
  BY DEF TunerInv, TypeOK
<1>3. PICK read \in [freq : {tuning.freq, None}, width : {tuning.width, None},
                     center : {tuning.center, None}] :
         Verdict(read, freq[t], ask[t].width) = "Ok"
  <2>1. CASE Return(t, Verdict(tuning, freq[t], ask[t].width))
    BY <1>2, <2>1 DEF Return, Say, Tuning
  <2>2. CASE \E read \in [freq : {tuning.freq, None}, width : {tuning.width, None},
                          center : {tuning.center, None}] :
                Return(t, Verdict(read, freq[t], ask[t].width))
    BY <2>2 DEF Return, Say
  <2>3. ~Return(t, "Dump")
    BY DEF Return, Say
  <2> QED
    BY <2>1, <2>2, <2>3 DEF ReadBack
<1>4. ask[t].width \in Widths
  BY <1>1 DEF Ask
<1>5. tuning = Request(freq[t], ask[t].width) /\ tuning.freq = freq[t]
  BY <1>1, <1>2, <1>3, <1>4, VerdictTells
<1>6. Fits(freq[t], ask[t])
  BY <1>1 DEF TunerInv, Resolved
<1> QED
  BY <1>5, <1>6 DEF Delivers, Fits, ReadBack

---------------------------------------------------------------------------
(* The invariant holds of a radio nobody has tuned yet.                    *)
LEMMA TunerInit == Init => TunerInv
<1> SUFFICES ASSUME Init PROVE TunerInv
  OBVIOUS
<1>1. TypeOK
  BY TunerAssumption DEF Init, TypeOK, Tuning, Untuned, None, Silence
<1>2. Resolved /\ Settled /\ Loosened /\ Standing
  BY DEF Init, Resolved, Settled, Loosened, Standing, Silence
<1> QED
  BY <1>1, <1>2 DEF TunerInv

(* An answer keeps the types.                                              *)
LEMMA ReturnType ==
    ASSUME TypeOK, NEW t \in Tuners, at[t] # "idle",
           NEW answer \in Errors \cup {"Ok"}, Return(t, answer)
    PROVE  /\ at' \in [Tuners -> {"idle", "set", "verify"}]
           /\ ask' \in [Tuners -> Ask \cup {NoAsk}]
           /\ freq' \in [Tuners -> {b.mhz : b \in Bands} \cup {None}]
           /\ \A u \in Tuners : at'[u] # "idle" => ask'[u] \in Ask /\ freq'[u] # None
           /\ said' \in [ask : Ask, answer : Telling]
                           \cup [ask : {NoAsk}, answer : Errors] \cup {Silence}
           /\ loose' \subseteq Abandoned
           /\ told' = IF answer = "Timeout" THEN told \cup {glitches'} ELSE told
BY DEF TypeOK, Return, Say, Telling

(* A call that ends leaves the others as resolved as they were.            *)
LEMMA ReturnResolved ==
    ASSUME TypeOK, Resolved, NEW t \in Tuners, NEW answer, Return(t, answer)
    PROVE  Resolved'
BY DEF TypeOK, Return, Resolved, Fits

(* A call that begins resolves its number.                                 *)
LEMMA SetChannelKeeps ==
    ASSUME TunerInv, NEW t \in Tuners, SetChannel(t)
    PROVE  TunerInv'
<1> USE DEF TunerInv
<1>1. PICK a \in Ask :
        LET verdict == Resolve(Known(t), a.number, a.scope)
        IN \/ /\ verdict = "Ok"
              /\ at' = [at EXCEPT ![t] = "set"]
              /\ ask' = [ask EXCEPT ![t] = a]
              /\ freq' = [freq EXCEPT ![t] = Frequency(Known(t), a.number, a.scope)]
              /\ Hush
           \/ /\ verdict # "Ok"
              /\ Say(a, verdict)
              /\ UNCHANGED <<at, ask, freq>>
  BY DEF SetChannel
<1>2. at[t] = "idle" /\ UNCHANGED <<barred, tuning, pending, known, told, glitches>>
  BY DEF SetChannel
<1>3. Settled'
  BY <1>2 DEF Settled
<1>4. CASE Resolve(Known(t), a.number, a.scope) = "Ok"
  <2> DEFINE mhz == Frequency(Known(t), a.number, a.scope)
  <2>1. Fits(mhz, a) /\ mhz \in {l.mhz : l \in Bands}
    BY <1>4, ResolveFits DEF Known
  <2>2. mhz # None
    BY <2>1, TunerAssumption DEF None
  <2> HIDE DEF mhz
  <2>3. /\ at' = [at EXCEPT ![t] = "set"] /\ ask' = [ask EXCEPT ![t] = a]
        /\ freq' = [freq EXCEPT ![t] = mhz] /\ said' = Silence /\ loose' = {}
    BY <1>1, <1>4 DEF mhz, Hush
  <2>4. TypeOK'
    BY <1>2, <2>1, <2>2, <2>3 DEF TypeOK
  <2>5. Resolved'
    BY <2>1, <2>3 DEF TypeOK, Resolved, Fits
  <2>6. Loosened' /\ Standing'
    BY <1>2, <2>3 DEF Loosened, Standing, Silence
  <2> QED
    BY <1>3, <2>4, <2>5, <2>6
<1>5. CASE Resolve(Known(t), a.number, a.scope) # "Ok"
  <2> DEFINE verdict == Resolve(Known(t), a.number, a.scope)
  <2>1. verdict \in Errors
    BY <1>5 DEF Resolve, Errors
  <2> HIDE DEF verdict
  <2>2. Say(a, verdict) /\ UNCHANGED <<at, ask, freq>> /\ verdict # "Ok"
    BY <1>1, <1>5 DEF verdict
  <2>3. TypeOK'
    BY <1>2, <2>1, <2>2 DEF TypeOK, Say, Telling
  <2>4. Resolved'
    BY <2>2 DEF Resolved, Fits
  <2>5. Loosened' /\ Standing'
    BY <1>2, <2>2 DEF Loosened, Standing, Say
  <2> QED
    BY <1>3, <2>3, <2>4, <2>5
<1> QED
  BY <1>4, <1>5

(* A request that is served leaves the radio where it was or tuned to that. *)
LEMMA ServeSettles ==
    ASSUME TunerInv, NEW b \in Bands, NEW w \in Widths,
           Serve(b.mhz, w) \/ UNCHANGED tuning
    PROVE  /\ tuning' \in {tuning, Request(b.mhz, w), Request(b.mhz, "20")}
           /\ Settled' /\ tuning' \in Tuning
<1>1. tuning' \in {tuning, Request(b.mhz, w), Request(b.mhz, "20")}
  BY DEF Serve
<1>2. {Request(b.mhz, w), Request(b.mhz, "20")} \subseteq Requests
  BY DEF Requests, Widths
<1>3. Settled'
  BY <1>1, <1>2 DEF TunerInv, Settled
<1>4. tuning' \in Tuning
  BY <1>3, RequestType DEF Settled, Requests, Untuned, Tuning, None
<1> QED
  BY <1>1, <1>3, <1>4

(* A request tunes the radio to what its caller asked for, or not at all,    *)
(* or it is left behind.                                                   *)
LEMMA SetFreqKeeps ==
    ASSUME TunerInv, NEW t \in Tuners, SetFreq(t)
    PROVE  TunerInv'
<1> USE DEF TunerInv
<1>1. /\ at[t] = "set" /\ ask[t] \in Ask /\ ask[t].width \in Widths
      /\ UNCHANGED <<barred, known>> /\ glitches' \in 0..MaxGlitches
  BY TunerAssumption DEF SetFreq, TypeOK, Ask, Smooth, Glitch, Serve
<1>2. PICK b \in Bands : b.mhz = freq[t]
  BY <1>1 DEF TypeOK, None
<1>3. Settled' /\ tuning' \in Tuning
  BY <1>1, <1>2, ServeSettles DEF SetFreq
<1>4. pending' \subseteq Abandoned
  <2>1. CASE UNCHANGED pending
    BY <2>1 DEF TypeOK
  <2>2. CASE /\ Glitch("late")
             /\ pending' = pending \cup
                   {[nth |-> glitches', freq |-> freq[t], width |-> ask[t].width]}
    <3>1. glitches' \in 1..MaxGlitches
      BY <1>1, <2>2, TunerAssumption DEF Glitch, TypeOK
    <3> QED
      BY <1>1, <1>2, <2>2, <3>1 DEF Abandoned, TypeOK
  <2> QED
    BY <2>1, <2>2 DEF SetFreq
<1>5. CASE /\ at' = [at EXCEPT ![t] = "verify"]
           /\ UNCHANGED <<ask, freq, said, told, loose, pending>>
  <2>1. TypeOK'
    BY <1>1, <1>3, <1>5 DEF TypeOK
  <2>2. Resolved' /\ Loosened'
    BY <1>1, <1>5 DEF TypeOK, Resolved, Fits, Loosened
  <2>3. Standing'
    BY <1>5 DEF TypeOK, Standing
  <2> QED
    BY <1>3, <2>1, <2>2, <2>3
<1>6. ASSUME NEW answer \in {"SetChannel", "Timeout"}, Return(t, answer),
             \/ answer = "SetChannel" /\ UNCHANGED pending
             \/ /\ answer = "Timeout" /\ Glitch("late")
                /\ pending' = pending \cup
                      {[nth |-> glitches', freq |-> freq[t], width |-> ask[t].width]}
      PROVE  TunerInv'
  <2>1. told' = IF answer = "Timeout" THEN told \cup {glitches'} ELSE told
    BY <1>6 DEF Return
  <2>2. told' \subseteq 1..MaxGlitches
    <3>1. glitches \in 0..MaxGlitches /\ told \subseteq 1..MaxGlitches
      BY DEF TypeOK
    <3>2. answer = "Timeout" => glitches' \in 1..MaxGlitches
      BY <1>6, <3>1, TunerAssumption DEF Glitch
    <3> QED
      BY <2>1, <3>1, <3>2
  <2>3. TypeOK'
    BY <1>1, <1>3, <1>4, <1>6, <2>2, ReturnType DEF TypeOK, Errors
  <2>4. Resolved'
    BY <1>6, ReturnResolved
  <2>5. said'.answer = answer
    BY <1>6 DEF Return, Say
  <2>6. Loosened' /\ Standing'
    BY <1>6, <2>1, <2>5 DEF Loosened, Standing
  <2> QED
    BY <1>3, <2>3, <2>4, <2>6
<1> QED
  BY <1>5, <1>6 DEF SetFreq

(* One that was left behind undoes an Ok only if it was so before the Ok.   *)
LEMMA LandKeeps == ASSUME TunerInv, Land PROVE TunerInv'
<1> USE DEF TunerInv
<1>1. PICK p \in pending :
          /\ pending' = pending \ {p}
          /\ Serve(p.freq, p.width) \/ (UNCHANGED tuning /\ Smooth)
  BY DEF Land
<1>2. UNCHANGED <<barred, known, at, ask, freq, said, told, loose>>
  BY DEF Land
<1>3. p.width \in Widths /\ \E b \in Bands : b.mhz = p.freq
  BY <1>1 DEF TypeOK, Abandoned
<1>4. /\ tuning' \in {tuning, Request(p.freq, p.width), Request(p.freq, "20")}
      /\ Settled' /\ tuning' \in Tuning
  BY <1>1, <1>3, ServeSettles
<1>5. glitches' \in 0..MaxGlitches
  BY <1>1, TunerAssumption DEF TypeOK, Serve, Smooth, Glitch
<1>6. TypeOK' /\ Resolved' /\ Loosened'
  BY <1>1, <1>2, <1>4, <1>5 DEF TypeOK, Resolved, Fits, Loosened
<1>7. Standing'
  <2> SUFFICES ASSUME said.answer = "Ok", \A t \in Tuners : at[t] # "verify"
               PROVE  Stands'
    BY <1>2 DEF Standing
  <2>1. Stands /\ p \in loose \ pending'
    BY <1>1 DEF Standing, Loosened
  <2>2. CASE tuning' = tuning
    BY <1>1, <1>2, <2>1, <2>2 DEF Stands, Delivers
  <2>3. CASE tuning' # tuning
    BY <1>2, <1>4, <2>1, <2>3 DEF Stands
  <2> QED
    BY <2>2, <2>3
<1> QED
  BY <1>4, <1>6, <1>7

(* A readback that ends in Ok found the radio where the call asked.        *)
LEMMA ReadBackKeeps ==
    ASSUME TunerInv, NEW t \in Tuners, ReadBack(t)
    PROVE  TunerInv'
<1> USE DEF TunerInv
<1>1. PICK answer \in (Errors \ {"Timeout"}) \cup {"Ok"} : Return(t, answer)
  BY DEF ReadBack, Verdict, Errors
<1>2. /\ at[t] = "verify" /\ UNCHANGED <<barred, tuning, pending, known>>
      /\ glitches' \in 0..MaxGlitches
  BY TunerAssumption DEF ReadBack, TypeOK, Smooth, Glitch
<1>3. told' = told
  BY <1>1 DEF Return
<1>4. TypeOK'
  BY <1>1, <1>2, <1>3, ReturnType DEF TypeOK
<1>5. Resolved' /\ Settled'
  BY <1>1, <1>2, ReturnResolved DEF Settled
<1>6. Loosened' /\ Standing'
  <2>1. CASE answer = "Ok"
    <3>1. said' = [ask |-> ask[t], answer |-> "Ok"] /\ loose' = pending
      BY <1>1, <2>1 DEF Return, Say, Telling, Loosened
    <3>2. Delivers(ask[t])
      BY <3>1, OkDelivers
    <3> QED
      BY <1>2, <1>3, <3>1, <3>2 DEF Loosened, Standing, Stands, Delivers
  <2>2. CASE answer # "Ok"
    BY <1>1, <1>2, <1>3, <2>2 DEF Loosened, Standing, Return, Say
  <2> QED
    BY <2>1, <2>2
<1> QED
  BY <1>4, <1>5, <1>6

(* What happens around the calls keeps the invariant.                      *)
LEMMA SurroundingsKeep ==
    ASSUME TunerInv, (\E g \in Guards : OpenGuard(g)) \/ Regulate \/ Move
    PROVE  TunerInv'
<1> USE DEF TunerInv
<1>1. CASE \E g \in Guards : OpenGuard(g)
  BY <1>1 DEF OpenGuard, TypeOK, Resolved, Fits, Settled, Loosened, Standing, Stands, Delivers
<1>2. CASE Regulate
  BY <1>2 DEF Regulate, TypeOK, Resolved, Fits, Settled, Loosened, Standing, Stands, Delivers
<1>3. CASE Move
  <2>1. Settled' /\ tuning' \in Tuning
    BY <1>3, RequestType DEF Move, Settled, Requests
  <2>2. glitches' \in 0..MaxGlitches
    BY <1>3, TunerAssumption DEF Move, Glitch, TypeOK
  <2>3. said' = Silence /\ loose' = {} /\ UNCHANGED <<barred, pending, known, at, ask, freq, told>>
    BY <1>3 DEF Move, Hush
  <2> QED
    BY <2>1, <2>2, <2>3 DEF TypeOK, Resolved, Fits, Loosened, Standing, Silence
<1> QED
  BY <1>1, <1>2, <1>3

(* The invariant is inductive.                                             *)
LEMMA TunerStep == TunerInv /\ [Next]_vars => TunerInv'
<1> SUFFICES ASSUME TunerInv, [Next]_vars PROVE TunerInv'
  OBVIOUS
<1>1. CASE UNCHANGED vars
  BY <1>1 DEF vars, TunerInv, TypeOK, Resolved, Fits, Settled, Loosened, Standing, Stands, Delivers
<1> QED
  BY <1>1, SetChannelKeeps, SetFreqKeeps, LandKeeps, ReadBackKeeps, SurroundingsKeep DEF Next

(* Types, what every call has resolved, and where the radio can be.        *)
THEOREM TunerInvariant == Spec => []TunerInv
BY TunerInit, TunerStep, PTL DEF Spec

(* Every variable keeps its type, and a call under way has asked for a      *)
(* channel and has resolved it to a frequency.                             *)
THEOREM TunerTypes == Spec => []TypeOK
<1>1. TunerInv => TypeOK
  BY DEF TunerInv
<1> QED
  BY <1>1, TunerInvariant, PTL

(* Ok is true when it is given: whatever the driver leaves out or ignores,  *)
(* and whatever other callers did between the set and the readback.        *)
THEOREM OkIsTrue == Spec => OkMeansTuned
<1>1. TunerInv /\ [Next]_vars =>
        [\A t \in Tuners : at[t] # "idle" /\ at'[t] = "idle" /\ said'.answer = "Ok"
            => Delivers(ask[t])]_vars
  <2> SUFFICES ASSUME TunerInv, Next, NEW t \in Tuners,
                      at[t] # "idle", at'[t] = "idle", said'.answer = "Ok"
               PROVE  Delivers(ask[t])
    OBVIOUS
  <2>1. ASSUME NEW u \in Tuners, SetChannel(u) PROVE FALSE
    BY <2>1 DEF SetChannel, TunerInv, TypeOK
  <2>2. ASSUME NEW u \in Tuners, SetFreq(u) PROVE FALSE
    BY <2>2 DEF SetFreq, Return, Say, TunerInv, TypeOK
  <2>3. ASSUME NEW u \in Tuners, ReadBack(u) PROVE Delivers(ask[t])
    <3>1. u = t
      BY <2>3 DEF ReadBack, Return, TunerInv, TypeOK
    <3> QED
      BY <2>3, <3>1, OkDelivers
  <2>4. ~((\E g \in Guards : OpenGuard(g)) \/ Land \/ Regulate \/ Move)
    BY DEF OpenGuard, Land, Regulate, Move
  <2> QED
    BY <2>1, <2>2, <2>3, <2>4 DEF Next
<1> QED
  BY <1>1, TunerInvariant, PTL DEF Spec, OkMeansTuned

(* The last Ok stands, whatever the calls before it did: only a request     *)
(* that was in flight when it was given, abandoned by its caller on a       *)
(* timeout, can undo it by being served later.                             *)
THEOREM OkStands == Spec => []LastOkStands
<1>1. TunerInv => LastOkStands
  BY DEF TunerInv, Standing, Stands, LastOkStands
<1> QED
  BY <1>1, TunerInvariant, PTL

(* The two scopes share the bands out between them.                        *)
LEMMA ScopesComplete ==
    ASSUME NEW table, NEW n, NEW s \in Scopes
    PROVE  Numbered(table, n) \ InScope(table, n, s) = InScope(table, n, Alternative(s))
BY DEF InScope, Includes, Alternative, Scopes

(* WrongBand names a call that works: for any radio, regulatory domain,    *)
(* number and scope.                                                       *)
THEOREM AdviceAlwaysWorks == Spec => []AdviceWorks
<1>1. AdviceWorks
  <2> SUFFICES ASSUME NEW n \in Numbers, NEW s \in Scopes,
                      Resolve(Table(barred), n, s) = "WrongBand"
               PROVE  Resolve(Table(barred), n, Alternative(s)) \in {"Ok", "AmbiguousChannel"}
    BY DEF AdviceWorks
  <2>1. Elsewhere(Table(barred), n, s)
    BY DEF Resolve
  <2>2. Usable(InScope(Table(barred), n, Alternative(s))) # {}
    BY <2>1, ScopesComplete DEF Elsewhere
  <2> QED
    BY <2>2 DEF Resolve
<1> QED
  BY <1>1, PTL

(* No two frequencies of one scope have one number.                        *)
LEMMA NumbersApart ==
    ASSUME Allotted, NEW s \in Scopes, NEW b \in Bands, NEW c \in Bands,
           Includes(s, b.kind), Includes(s, c.kind),
           ChannelFromMhz(b.mhz) # None, ChannelFromMhz(c.mhz) = ChannelFromMhz(b.mhz)
    PROVE  c.mhz = b.mhz
<1> DEFINE Own(d) == /\ d.mhz \in Nat /\ d.kind \in {"2.4", "5", "6", "60"}
                     /\ d.kind = "2.4" => d.mhz \in 2400..2500
                     /\ d.kind = "5" => d.mhz \in 5075..5925
                     /\ d.kind = "6" => d.mhz = 5935 \/ (d.mhz >= 5955 /\ (d.mhz - 5955) % 20 = 0)
                     /\ d.kind = "60" => d.mhz > 7115
<1>1. Own(b) /\ Own(c)
  BY TunerAssumption DEF Allotted, Kinds
<1>2. ASSUME NEW d \in Bands, Own(d), ChannelFromMhz(d.mhz) # None
      PROVE  /\ d.kind # "60"
             /\ d.kind = "2.4" => \/ /\ d.mhz = 2484
                                     /\ ChannelFromMhz(d.mhz) = 14
                                  \/ /\ ChannelFromMhz(d.mhz) \in 1..13
                                     /\ d.mhz = 2407 + 5 * ChannelFromMhz(d.mhz)
             /\ d.kind = "5" => /\ ChannelFromMhz(d.mhz) >= 15
                                /\ d.mhz = 5000 + 5 * ChannelFromMhz(d.mhz)
             /\ d.kind = "6" => \/ /\ d.mhz = 5935
                                   /\ ChannelFromMhz(d.mhz) = 2
                                \/ /\ ChannelFromMhz(d.mhz) \in Nat \ {2}
                                   /\ d.mhz = 5950 + 5 * ChannelFromMhz(d.mhz)
  <2> DEFINE m == d.mhz
             n == ChannelFromMhz(d.mhz)
  <2>1. m \in Nat /\ d.kind \in {"2.4", "5", "6", "60"}
    BY <1>2
  <2>2. n = IF OnGrid(m, 2412, 2472, 2407) THEN (m - 2407) \div 5
            ELSE IF m = 2484 THEN 14
            ELSE IF m = 5935 THEN 2
            ELSE IF OnGrid(m, 5005, 5895, 5000) THEN (m - 5000) \div 5
            ELSE IF OnGrid(m, 5955, 7115, 5950) THEN (m - 5950) \div 5
            ELSE None
    BY DEF ChannelFromMhz
  <2>3. n # None
    BY <1>2
  <2> HIDE DEF m, n
  <2>4. CASE d.kind = "2.4"
    <3>1. m \in 2400..2500
      BY <1>2, <2>4 DEF m
    <3>2. CASE OnGrid(m, 2412, 2472, 2407)
      <4>1. n = (m - 2407) \div 5
        BY <2>2, <3>2
      <4>2. n \in 1..13 /\ m = 2407 + 5 * n
        BY <2>1, <3>2, <4>1 DEF OnGrid
      <4> QED
        BY <2>4, <4>2 DEF m, n
    <3>3. CASE ~OnGrid(m, 2412, 2472, 2407)
      <4>1. ~OnGrid(m, 5005, 5895, 5000) /\ ~OnGrid(m, 5955, 7115, 5950) /\ m # 5935
        BY <3>1 DEF OnGrid
      <4>2. m = 2484 /\ n = 14
        BY <2>3, <2>2, <3>3, <4>1
      <4> QED
        BY <2>4, <4>2 DEF m, n
    <3> QED
      BY <3>2, <3>3
  <2>5. CASE d.kind = "5"
    <3>1. m \in 5075..5925
      BY <1>2, <2>5 DEF m
    <3>2. ~OnGrid(m, 2412, 2472, 2407) /\ ~OnGrid(m, 5955, 7115, 5950) /\ m \notin {2484, 5935}
      BY <3>1 DEF OnGrid
    <3>3. OnGrid(m, 5005, 5895, 5000) /\ n = (m - 5000) \div 5
      BY <2>3, <2>2, <3>2
    <3>4. n >= 15 /\ m = 5000 + 5 * n
      BY <3>1, <3>3 DEF OnGrid
    <3> QED
      BY <2>5, <3>4 DEF m, n
  <2>6. CASE d.kind = "6"
    <3>1. m = 5935 \/ (m >= 5955 /\ (m - 5955) % 20 = 0)
      BY <1>2, <2>6 DEF m
    <3>2. CASE m = 5935
      BY <2>2, <2>6, <3>2 DEF OnGrid, m, n
    <3>3. CASE m # 5935
      <4>1. m >= 5955 /\ m # 5960
        BY <3>1, <3>3
      <4>2. ~OnGrid(m, 2412, 2472, 2407) /\ ~OnGrid(m, 5005, 5895, 5000) /\ m # 2484
        BY <4>1 DEF OnGrid
      <4>3. OnGrid(m, 5955, 7115, 5950) /\ n = (m - 5950) \div 5
        BY <2>3, <2>2, <3>3, <4>2
      <4>4. n \in Nat \ {2} /\ m = 5950 + 5 * n
        BY <2>1, <4>1, <4>3 DEF OnGrid
      <4> QED
        BY <2>6, <4>4 DEF m, n
    <3> QED
      BY <3>2, <3>3
  <2>7. d.kind # "60"
    <3>1. SUFFICES ASSUME d.kind = "60" PROVE FALSE
      OBVIOUS
    <3>2. m > 7115
      BY <1>2, <3>1 DEF m
    <3>3. /\ ~OnGrid(m, 2412, 2472, 2407) /\ ~OnGrid(m, 5005, 5895, 5000)
          /\ ~OnGrid(m, 5955, 7115, 5950) /\ m \notin {2484, 5935}
      BY <2>1, <3>2 DEF OnGrid
    <3> QED
      BY <2>3, <2>2, <3>3
  <2> QED
    BY <2>1, <2>4, <2>5, <2>6, <2>7
<1>3. CASE s = "sixOnly"
  BY <1>1, <1>2, <1>3 DEF Includes
<1>4. CASE s = "exceptSix"
  BY <1>1, <1>2, <1>4 DEF Includes
<1> QED
  BY <1>3, <1>4 DEF Scopes

(* The number a listed frequency is reported under leads back to it, for   *)
(* any radio whose bands are where radios have them, in any regulatory     *)
(* domain.                                                                 *)
THEOREM NumbersLeadBack == ASSUME Allotted PROVE Spec => []RoundTrip
<1>1. RoundTrip
  <2> SUFFICES ASSUME NEW b \in Bands, NEW s \in Scopes, Includes(s, b.kind),
                      b.mhz \notin barred, ChannelFromMhz(b.mhz) # None
               PROVE  /\ Resolve(Table(barred), ChannelFromMhz(b.mhz), s) = "Ok"
                      /\ Frequency(Table(barred), ChannelFromMhz(b.mhz), s) = b.mhz
    BY DEF RoundTrip
  <2> DEFINE n == ChannelFromMhz(b.mhz)
             freqs == Usable(InScope(Table(barred), n, s))
  <2>1. freqs = {b.mhz}
    <3>1. b.mhz \notin barred /\ ChannelFromMhz(b.mhz) = n
      OBVIOUS
    <3> DEFINE listing == [kind |-> b.kind, mhz |-> b.mhz, disabled |-> b.mhz \in barred]
    <3>2. listing \in InScope(Table(barred), n, s)
      <4>1. listing \in Table(barred)
        BY DEF Table
      <4>2. listing.mhz = b.mhz /\ listing.kind = b.kind
        OBVIOUS
      <4> QED
        BY <4>1, <4>2 DEF InScope, Numbered
    <3>3. b.mhz \in freqs
      <4>1. ~listing.disabled /\ listing.mhz = b.mhz
        BY <3>1
      <4> QED
        BY <3>2, <4>1 DEF Usable
    <3>4. ASSUME NEW l \in InScope(Table(barred), n, s) PROVE l.mhz = b.mhz
      <4>1. PICK c \in Bands : l = [kind |-> c.kind, mhz |-> c.mhz, disabled |-> c.mhz \in barred]
        BY DEF InScope, Numbered, Table
      <4>2. Includes(s, c.kind) /\ ChannelFromMhz(c.mhz) = n
        BY <4>1 DEF InScope, Numbered
      <4>3. c.mhz = b.mhz
        BY <4>2, NumbersApart
      <4> QED
        BY <4>1, <4>3
    <3> QED
      BY <3>3, <3>4 DEF Usable
  <2>2. Cardinality(freqs) = 1
    BY <2>1, FS_Singleton
  <2> QED
    BY <2>1, <2>2 DEF Resolve, Frequency
<1> QED
  BY <1>1, PTL
=============================================================================
