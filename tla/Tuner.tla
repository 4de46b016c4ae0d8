-------------------------------- MODULE Tuner --------------------------------
(***************************************************************************)
(* set_channel and set_channel_6g (set_channel_with in src/monitor.rs,     *)
(* set_channel_verified in src/linux/mod.rs) on one radio that several     *)
(* callers tune at once, by name or through a guard.  A call by name reads *)
(* the bands as they are; a guard keeps those of the interface it was      *)
(* built with, and every call it makes works from them.  A call that gives *)
(* up leaves its request behind: the connection task that carries it is    *)
(* not the caller's, and the kernel may serve it at any time after.        *)
(***************************************************************************)
EXTENDS Channels

CONSTANTS
    Bands,       \* what the radio lists: a set of [kind, mhz]
    Regulated,   \* the frequencies a regulatory domain may rule out
    Tuners,      \* callers
    Guards,      \* those that tune through a guard
    Numbers,     \* the channel numbers they ask for
    Glitches,    \* what may go wrong: see Serve, SetFreq and ReadBack
    MaxGlitches  \* how often

ASSUME TunerAssumption ==
    /\ Bands \subseteq [kind : Kinds, mhz : Nat]
    /\ \A b \in Bands : b.mhz > 10     \* far above the offsets of Request
    /\ Regulated \subseteq {b.mhz : b \in Bands}
    /\ Guards \subseteq Tuners
    /\ Numbers \subseteq Nat \ {None}
    /\ Glitches \subseteq {"refuse", "ignore", "narrow", "late", "partial", "read", "move"}
    /\ MaxGlitches \in Nat

VARIABLES
    barred,   \* the frequencies the current regulatory domain disables
    tuning,   \* what the device is tuned to
    pending,  \* the requests that calls which timed out have left behind
    known,    \* known[g]: the barred ones in the snapshot the guard holds
    at,       \* where a caller is: "idle", "set" or "verify"
    ask,      \* what it asked for: the number, the scope, the width
    freq,     \* the frequency it resolved
    said,     \* observer: the last answer, with the question where it is one
              \* of the Telling; nothing once another call has begun or the
              \* radio was moved from outside
    told,     \* observer: which failures were reported as a Timeout
    loose,    \* observer: when that answer, an Ok, was given, the requests in
              \* flight whose callers had been told so
    glitches  \* how often something went wrong

vars == <<barred, tuning, pending, known, at, ask, freq, said, told, loose, glitches>>

Ask == [number : Numbers, scope : Scopes, width : Widths]
NoAsk == [number |-> None, scope |-> "none", width |-> "none"]
Errors == {"WrongBand", "ChannelDisabled", "ChannelUnavailable",
           "AmbiguousChannel", "ChannelVerifyFailed", "WidthVerifyFailed",
           "SetChannel", "Timeout", "Dump"}
Silence == [ask |-> NoAsk, answer |-> "none"]
Telling == {"Ok", "ChannelDisabled"}
Abandoned == [nth : 1..MaxGlitches, freq : {b.mhz : b \in Bands}, width : Widths]

(* The bands of the radio when b is disabled.                              *)
Table(b) == {[kind |-> l.kind, mhz |-> l.mhz, disabled |-> l.mhz \in b] : l \in Bands}
Known(t) == Table(IF t \in Guards THEN known[t] ELSE barred)

TypeOK ==
    /\ barred \subseteq Regulated
    /\ tuning \in Tuning
    /\ pending \subseteq Abandoned /\ loose \subseteq Abandoned
    /\ told \subseteq 1..MaxGlitches
    /\ known \in [Guards -> SUBSET Regulated]
    /\ at \in [Tuners -> {"idle", "set", "verify"}]
    /\ ask \in [Tuners -> Ask \cup {NoAsk}]
    /\ freq \in [Tuners -> {b.mhz : b \in Bands} \cup {None}]
    /\ \A t \in Tuners : at[t] # "idle" => ask[t] \in Ask /\ freq[t] # None
    /\ said \in [ask : Ask, answer : Telling]
                \cup [ask : {NoAsk}, answer : Errors] \cup {Silence}
    /\ glitches \in 0..MaxGlitches

Init ==
    /\ barred \in SUBSET Regulated
    /\ tuning = Untuned
    /\ pending = {} /\ told = {} /\ loose = {}
    /\ known = [g \in Guards |-> barred]
    /\ at = [t \in Tuners |-> "idle"]
    /\ ask = [t \in Tuners |-> NoAsk]
    /\ freq = [t \in Tuners |-> None]
    /\ said = Silence
    /\ glitches = 0

Smooth == UNCHANGED glitches
Glitch(kind) == /\ kind \in Glitches /\ glitches < MaxGlitches
                /\ glitches' = glitches + 1

Say(a, answer) ==
    /\ said' = [ask |-> IF answer \in Telling THEN a ELSE NoAsk, answer |-> answer]
    /\ loose' = IF answer = "Ok" THEN {p \in pending : p.nth \in told} ELSE {}

Hush == said' = Silence /\ loose' = {}

Return(t, answer) ==
    /\ at' = [at EXCEPT ![t] = "idle"]
    /\ ask' = [ask EXCEPT ![t] = NoAsk]
    /\ freq' = [freq EXCEPT ![t] = None]
    /\ Say(ask[t], answer)
    /\ told' = IF answer = "Timeout" THEN told \cup {glitches'} ELSE told

(* set_channel_with: resolve the number on what is known of the bands.     *)
SetChannel(t) ==
    /\ at[t] = "idle"
    /\ \E a \in Ask :
          LET verdict == Resolve(Known(t), a.number, a.scope)
          IN \/ /\ verdict = "Ok"
                /\ at' = [at EXCEPT ![t] = "set"]
                /\ ask' = [ask EXCEPT ![t] = a]
                /\ freq' = [freq EXCEPT ![t] = Frequency(Known(t), a.number, a.scope)]
                /\ Hush
             \/ /\ verdict # "Ok"
                /\ Say(a, verdict)
                /\ UNCHANGED <<at, ask, freq>>
    /\ UNCHANGED <<barred, tuning, pending, known, told, glitches>>

(* A request for f at width w is served: the driver honours it, ignores it, *)
(* or falls back to 20 MHz.  A frequency that is disabled by now is not.   *)
Serve(f, w) ==
    /\ f \notin barred
    /\ \/ tuning' = Request(f, w) /\ Smooth
       \/ tuning' = tuning /\ Glitch("ignore")
       \/ tuning' = Request(f, "20") /\ Glitch("narrow")

(* A slip: the request is spawned, and not awaited. *)
SetFreqDetached(t) ==
    /\ at[t] = "set"
    /\ pending' = pending \cup {[nth |-> 0, freq |-> freq[t], width |-> ask[t].width]}
    /\ at' = [at EXCEPT ![t] = "verify"]
    /\ UNCHANGED <<barred, tuning, known, ask, freq, said, told, loose, glitches>>

(* interface::set_channel.  The kernel serves the request or refuses it,    *)
(* for reasons of its own too; or the deadline passes with the request on   *)
(* its way.                                                                *)
SetFreq(t) ==
    /\ at[t] = "set"
    /\ \/ /\ Serve(freq[t], ask[t].width)
          /\ at' = [at EXCEPT ![t] = "verify"]
          /\ UNCHANGED <<ask, freq, said, told, loose, pending>>
       \/ /\ IF freq[t] \in barred THEN Smooth ELSE Glitch("refuse")
          /\ Return(t, "SetChannel")
          /\ UNCHANGED <<tuning, pending>>
       \/ /\ Glitch("late")
          /\ pending' = pending \cup
                {[nth |-> glitches', freq |-> freq[t], width |-> ask[t].width]}
          /\ Return(t, "Timeout")
          /\ UNCHANGED tuning
    /\ UNCHANGED <<barred, known>>

(* The connection task, which open_handle has spawned, outlives the call:   *)
(* its request is served late, refused, or lost with the program.          *)
Land ==
    /\ \E p \in pending :
          /\ pending' = pending \ {p}
          /\ Serve(p.freq, p.width) \/ (UNCHANGED tuning /\ Smooth)
    /\ UNCHANGED <<barred, known, at, ask, freq, said, told, loose>>

(* read_channel, of which a driver may report any attributes only, and the *)
(* comparison.                                                             *)
ReadBack(t) ==
    /\ at[t] = "verify"
    /\ \/ Smooth /\ Return(t, Verdict(tuning, freq[t], ask[t].width))
       \/ \E read \in [freq : {tuning.freq, None}, width : {tuning.width, None},
                       center : {tuning.center, None}] :
             Glitch("partial") /\ Return(t, Verdict(read, freq[t], ask[t].width))
       \/ Glitch("read") /\ Return(t, "Dump")
    /\ UNCHANGED <<barred, tuning, pending, known>>

(* A slip: what is usable is taken for what is disabled. *)
OpenGuardInverted(g) ==
    /\ at[g] = "idle"
    /\ known' = [known EXCEPT ![g] = {b.mhz : b \in Bands} \ barred]
    /\ UNCHANGED <<barred, tuning, pending, at, ask, freq, said, told, loose, glitches>>

(* A new session: the guard's interface is detected anew.                  *)
OpenGuard(g) ==
    /\ at[g] = "idle"
    /\ known' = [known EXCEPT ![g] = barred]
    /\ UNCHANGED <<barred, tuning, pending, at, ask, freq, said, told, loose, glitches>>

(* The operator, the country code of an access point, the adapter.         *)
Regulate ==
    /\ barred' \in SUBSET Regulated
    /\ UNCHANGED <<tuning, pending, known, at, ask, freq, said, told, loose, glitches>>

(* Something outside moves the radio.                                      *)
Move ==
    /\ Glitch("move")
    /\ \E b \in Bands, w \in Widths : tuning' = Request(b.mhz, w)
    /\ Hush
    /\ UNCHANGED <<barred, pending, known, at, ask, freq, told>>

Next ==
    \/ \E t \in Tuners : SetChannel(t) \/ SetFreq(t) \/ ReadBack(t)
    \/ \E g \in Guards : OpenGuard(g)
    \/ Land \/ Regulate \/ Move

Spec == Init /\ [][Next]_vars

---------------------------------------------------------------------------
(* Nobody is told "tuned" by a radio that is not, at that moment, on a      *)
(* frequency of the number asked for, in a band of the scope asked for, at *)
(* the width and on the side asked for; whatever the driver and the other  *)
(* callers do (set_channel_verified).                                      *)
Delivers(a) ==
    /\ ChannelFromMhz(tuning.freq) = a.number
    /\ \E b \in Bands : b.mhz = tuning.freq /\ Includes(a.scope, b.kind)
    /\ tuning = Request(tuning.freq, a.width)

OkMeansTuned ==
    [][\A t \in Tuners : at[t] # "idle" /\ at'[t] = "idle" /\ said'.answer = "Ok"
           => Delivers(ask[t])]_vars

(* While no call is under way the radio is where the last call that         *)
(* returned left it, if that one succeeded.  Of the calls before it, only   *)
(* those that were told Timeout may still reach past its Ok, with a        *)
(* request that was in flight when it was given and was served since: any  *)
(* other error is final (refused, not verified, not read back).            *)
LastOkStands ==
    said.answer = "Ok" /\ (\A t \in Tuners : at[t] = "idle") =>
        \/ Delivers(said.ask)
        \/ \E p \in loose \ pending :
              tuning \in {Request(p.freq, p.width), Request(p.freq, "20")}

(* WrongBand sends the caller to a call that works: under the scope it     *)
(* names, the same number is found and is not disabled (resolve_frequency). *)
AdviceWorks ==
    \A n \in Numbers, s \in Scopes :
        Resolve(Table(barred), n, s) = "WrongBand" =>
            Resolve(Table(barred), n, Alternative(s)) \in {"Ok", "AmbiguousChannel"}

(* The number a listed frequency is reported under leads back to it, under *)
(* the scope of its band, unless the regulatory domain disables it.        *)
RoundTrip ==
    \A b \in Bands : \A s \in Scopes :
        Includes(s, b.kind) /\ b.mhz \notin barred /\ ChannelFromMhz(b.mhz) # None =>
            /\ Resolve(Table(barred), ChannelFromMhz(b.mhz), s) = "Ok"
            /\ Frequency(Table(barred), ChannelFromMhz(b.mhz), s) = b.mhz

(* Band tables on which it does: every listing is where radios have that   *)
(* band.  Outside, channel_from_mhz gives one number to two frequencies: 14 *)
(* to 2484 and 5070 MHz, 2 to 5935 and 5960 MHz.                           *)
Allotted ==
    \A b \in Bands :
        /\ b.kind = "2.4" => b.mhz \in 2400..2500
        /\ b.kind = "5" => b.mhz \in 5075..5925
        /\ b.kind = "6" => b.mhz = 5935 \/ (b.mhz >= 5955 /\ (b.mhz - 5955) % 20 = 0)
        /\ b.kind = "60" => b.mhz > 7115

---------------------------------------------------------------------------
(* What the documentation says and the code does not keep.                 *)

(* errors/mod.rs: "is disabled by the current regulatory domain"; and      *)
(* cleanup.rs, of a guard's interface: "none of it goes stale".            *)
DisabledMeansNow ==
    [][said' # said /\ said'.answer = "ChannelDisabled"
           => Usable(InScope(Table(barred), said'.ask.number, said'.ask.scope)) = {}]_vars
=============================================================================
