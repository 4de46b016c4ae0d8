------------------------------ MODULE Channels ------------------------------
(***************************************************************************)
(* Channel numbers, frequencies and widths: channel_from_mhz, BandScope,   *)
(* resolve_frequency, Tuning::width_at (src/interface.rs), the segment     *)
(* centre that set_channel asks for (src/linux/interface.rs) and the       *)
(* verdict of set_channel_verified (src/linux/mod.rs).                     *)
(***************************************************************************)
EXTENDS Integers, FiniteSets

None == 0      \* Option::None, for a channel number, a frequency or a width

Kinds == {"2.4", "5", "6", "60"}
Scopes == {"exceptSix", "sixOnly"}
Widths == {"20", "40above", "40below"}

(* Frequency, in its band: what resolve_frequency reads of an interface.   *)
Listing == [kind : Kinds, mhz : Nat, disabled : BOOLEAN]

OnGrid(mhz, first, last, base) ==
    mhz \in first..last /\ (mhz - base) % 5 = 0

(* A slip: a frequency between two channels falls to the lower one. *)
ChannelTruncated(mhz) ==
    IF mhz \in 2412..2472 THEN (mhz - 2407) \div 5
    ELSE IF mhz = 2484 THEN 14
    ELSE IF mhz = 5935 THEN 2
    ELSE IF mhz \in 5005..5895 THEN (mhz - 5000) \div 5
    ELSE IF mhz \in 5955..7115 THEN (mhz - 5950) \div 5
    ELSE None

ChannelFromMhz(mhz) ==
    IF OnGrid(mhz, 2412, 2472, 2407) THEN (mhz - 2407) \div 5
    ELSE IF mhz = 2484 THEN 14
    ELSE IF mhz = 5935 THEN 2
    ELSE IF OnGrid(mhz, 5005, 5895, 5000) THEN (mhz - 5000) \div 5
    ELSE IF OnGrid(mhz, 5955, 7115, 5950) THEN (mhz - 5950) \div 5
    ELSE None

Includes(scope, kind) == (kind = "6") = (scope = "sixOnly")

(* alternative: the entry point WrongBand names searches the other scope.  *)
Alternative(scope) == IF scope = "sixOnly" THEN "exceptSix" ELSE "sixOnly"

Numbered(table, channel) == {l \in table : ChannelFromMhz(l.mhz) = channel}
InScope(table, channel, scope) ==
    {l \in Numbered(table, channel) : Includes(scope, l.kind)}
Usable(listings) == {l.mhz : l \in {m \in listings : ~m.disabled}}

(* A slip: any listing of the other bands is worth redirecting to. *)
ElsewhereAtAll(table, channel, scope) ==
    Numbered(table, channel) \ InScope(table, channel, scope) # {}

(* out_of_scope: the number is usable in a band the scope leaves out.      *)
Elsewhere(table, channel, scope) ==
    Usable(Numbered(table, channel) \ InScope(table, channel, scope)) # {}

Resolve(table, channel, scope) ==
    LET listed == InScope(table, channel, scope)
        freqs == Usable(listed)
    IN IF freqs = {}
       THEN IF Elsewhere(table, channel, scope) THEN "WrongBand"
            ELSE IF listed # {} THEN "ChannelDisabled"
            ELSE "ChannelUnavailable"
       ELSE IF Cardinality(freqs) = 1 THEN "Ok" ELSE "AmbiguousChannel"

(* The frequency of an "Ok".                                               *)
Frequency(table, channel, scope) ==
    CHOOSE mhz \in Usable(InScope(table, channel, scope)) : TRUE

---------------------------------------------------------------------------
(* A device's tuning; any of its attributes may be missing in a readback.  *)
Tuning == [freq : Nat, width : Nat, center : Nat]
Untuned == [freq |-> None, width |-> None, center |-> None]

(* What set_channel asks the driver for.                                   *)
Request(mhz, width) ==
    CASE width = "20"      -> [freq |-> mhz, width |-> 20, center |-> mhz]
      [] width = "40above" -> [freq |-> mhz, width |-> 40, center |-> mhz + 10]
      [] width = "40below" -> [freq |-> mhz, width |-> 40, center |-> mhz - 10]

(* A slip: the side is not read back. *)
WidthOnly(t, primary) ==
    IF t.width = 20 THEN "20" ELSE IF t.width = 40 THEN "40above" ELSE "other"

(* width_at, classify_width: a width this library asks for, or another.     *)
WidthAt(t, primary) ==
    IF t.width = 20 THEN "20"
    ELSE IF t.width = 40 /\ t.center # None /\ t.center = primary + 10 THEN "40above"
    ELSE IF t.width = 40 /\ t.center # None /\ t.center + 10 = primary THEN "40below"
    ELSE "other"

(* set_channel_verified, once it has the readback.                         *)
Verdict(read, mhz, width) ==
    IF read.freq # mhz THEN "ChannelVerifyFailed"
    ELSE IF WidthAt(read, mhz) # width THEN "WidthVerifyFailed"
    ELSE "Ok"
=============================================================================
