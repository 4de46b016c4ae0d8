------------------------------ MODULE Programs ------------------------------
(***************************************************************************)
(* The programs of this repository, one after the other at one terminal:   *)
(* the CLI (src/bin/rfmon.rs) and the examples, with the end-to-end suite  *)
(* (examples/full_cycle.rs) among them.  A program is the sequence of the   *)
(* calls it makes, what it does when one fails, and what it expects.  The   *)
(* calls themselves are those of MonitorSession, step by step.             *)
(***************************************************************************)
EXTENDS SessionProperties, Sequences

CONSTANTS
    Shell,     \* the process: one program at a time
    Absent,    \* ABSENT_IFACE, a name no interface has
    Temp,      \* RENAME_TO
    Hardware,  \* what a radio may have: see Traits
    Units,     \* the services systemd knows
    Commands,  \* the programs that are run, a bound on the instance
    MaxRuns    \* how many of them

(* A usable channel in that band, and a channel the regulator disables.     *)
Traits == {"TwoGhz", "FiveGhz", "SixGhz", "disabled"}
Malformed == NoName   \* what validate_iface_name rejects

AllCommands == {"start_monitor", "start_monitor_as", "stop_monitor", "stop_all",
                "reset", "list", "detect", "monitor", "monitor_as",
                "nm_state_probe", "full_cycle"}

ASSUME ProgramAssumption ==
    /\ Procs = {Shell}
    /\ Calls = {"auto", "on", "as", "stop", "all"}
    /\ Absent \in Names \ Aliases
    /\ \A r \in Radios : Home[r] \notin {Absent, Temp}
    /\ Temp \in Aliases
    /\ Hardware \subseteq SUBSET Traits
    /\ Units \subseteq Services
    /\ Commands \subseteq AllCommands
    /\ MaxRuns \in Nat

VARIABLES
    program,  \* what runs, or "none"
    script,   \* the calls it has still to make, the one under way first
    outcome,  \* of that call: "ready" before it, "pending" meanwhile
    failed,   \* a check failed, or the program aborted
    swept,    \* what stop_all_monitors returned
    noted,    \* names the program remembers
    runs,
    (* Observers, which no step reads. *)
    why,      \* why[r]: why no program has to take care of radio r
    begun,    \* spent, as the last call began
    launched  \* spent, as the program began

progress == <<program, script, runs, launched>>
memory == <<outcome, failed, swept, noted>>
shellVars == <<progress, memory, why, begun>>
allVars == <<vars, shellVars>>

Refusals == {"NotFound", "AlreadyMonitor", "NoMonitorCapable",
             "InvalidInterfaceName", "ChannelUnavailable", "ChannelDisabled",
             "WrongBand", "error"}

ShellTypeOK ==
    /\ program \in AllCommands \cup {"none", "suite"}
    /\ outcome \in Refusals \cup Modes \cup Names
                   \cup {"ready", "pending", "ok", "mismatch"}
    /\ failed \in BOOLEAN
    /\ swept \subseteq Names
    /\ noted \subseteq Names
    /\ runs \in 0..MaxRuns
    /\ why \in [Radios -> {"free", "kept", "loose"}]
    /\ begun \in 0..MaxFaults
    /\ launched \in 0..MaxFaults

---------------------------------------------------------------------------
(* The steps of a program.  must: the call is followed by "?", and an error *)
(* ends the program.  want: what the program checks the outcome against.   *)
Do(call_, n) == [do |-> call_, name |-> n, new |-> n, chan |-> "none",
                 must |-> TRUE, want |-> "ok"]
Expect(step, result) == [step EXCEPT !.must = FALSE, !.want = result]
At(step, c) == [step EXCEPT !.chan = c]

On(n) == Do("on", n)
As(n, new) == [Do("as", n) EXCEPT !.new = new]
Best == Do("auto", NoName)
Stop(n) == Do("stop", n)
All == Do("all", NoName)
Give(how) == Do(how, NoName)        \* restore, drop or persist the guard
Leave == Expect(Give("drop"), "any") \* the end of a guard's scope

(* mode_of: a fresh detect, never the value a call returned. *)
See(n, m) == [Do("see", n) EXCEPT !.want = m]
Lookup(n) == Do("lookup", n)

(* set_channel through the guard, and by name. *)
Hop(c) == At(Do("hop", NoName), c)
Tuned(n, c) == At(Do("tuned", n), c)

(* What the program reckons from what it already has. *)
Reckon(what, n) == Expect(Do(what, n), "ok")

IfTuned(c) == IF c = "none" THEN <<>> ELSE <<Hop(c)>>

---------------------------------------------------------------------------
(* The CLI.                                                                *)

(* A slip: a sweep that succeeds is recovery enough. *)
ResetSweeping == <<All>>

Reset == <<All, Do("wpa", NoName), Do("nm", NoName)>>

List == <<Do("list", NoName)>>

(* A MonitorBuilder: which radio, and the channel to park it on.           *)
Start(n, chan) == At(IF n = NoName THEN Best ELSE On(n), chan)

(* The examples.                                                           *)
Monitor(n, c) == <<Start(n, "none")>> \o IfTuned(c) \o <<Give("restore")>>
MonitorAs(n, new, c) == <<As(n, new)>> \o IfTuned(c) \o <<Leave>>
NmStateProbe(n) ==
    <<Do("nmRead", n), On(n), Give("restore"), Do("nmCompare", n)>>

Script(command, n, new, c) ==
    CASE command = "start_monitor" -> <<Start(n, "none"), Give("persist")>>
      [] command = "start_monitor_as" -> <<As(n, new), Give("persist")>>
      [] command = "stop_monitor" -> <<Stop(n)>>
      [] command = "stop_all" -> <<All>>
      [] command = "reset" -> Reset
      [] command \in {"list", "detect"} -> List
      [] command = "monitor" -> Monitor(n, c)
      [] command = "monitor_as" -> MonitorAs(n, new, c)
      [] command = "nm_state_probe" -> NmStateProbe(n)
      [] command = "full_cycle" -> <<Do("select", n)>>

(* The suite, phase by phase, for the radio t.                             *)
Phase3 ==
    << Expect(Stop(Absent), "NotFound"), Expect(Tuned(Absent, "usable"), "NotFound"),
       Expect(As(Absent, Malformed), "InvalidInterfaceName") >>

Phase4(t) ==
    << On(t), See(t, "monitor"), Give("persist"), See(t, "monitor") >>

Phase5(t) ==
    << See(t, "monitor"), Expect(On(t), "AlreadyMonitor"), See(t, "monitor") >>

(* A band at a time: through the guard, by name, and at HT40+, which a      *)
(* driver may refuse.                                                      *)
Hops(t, band, has) ==
    IF band \notin has THEN <<>>
    ELSE << Expect(Hop("usable"), "ok"), Expect(Tuned(t, "usable"), "ok"),
            Expect(Hop("usable"), "any") >>

(* A slip: the suite starts on the session it has just persisted. *)
Phase6Straight(t, has) == << On(t), Give("persist") >>

Phase6(t, has) ==
    << Stop(t), Lookup(t), On(t) >>
    \o Hops(t, "TwoGhz", has) \o Hops(t, "FiveGhz", has)
    \o (IF "SixGhz" \in has THEN <<Expect(Hop("usable"), "ok")>> ELSE <<>>)
    \o << Give("persist") >>

Phase6b(t, has) ==
    << Stop(t), Lookup(t) >>
    \o (IF has \cap {"TwoGhz", "FiveGhz"} = {} THEN <<>>
        ELSE << At(On(t), "usable"), See(t, "monitor"), Give("restore") >>)
    \o << Expect(At(On(t), "absent"), "ChannelUnavailable"), See(t, "managed"),
          On(t), Give("persist") >>

Phase7(t, has) ==
    << Lookup(t), Expect(Tuned(t, "absent"), "ChannelUnavailable") >>
    \o (IF "disabled" \in has
        THEN <<Expect(Tuned(t, "disabled"), "ChannelDisabled")>> ELSE <<>>)
    \o (IF "FiveGhz" \in has
        THEN <<Expect(Tuned(t, "elsewhere"), "WrongBand")>> ELSE <<>>)

Phase8(t) ==
    << Stop(t), As(t, Temp), See(Temp, "monitor"), See(t, "gone"),
       Give("restore"), See(t, "managed"), See(Temp, "gone") >>

Phase9(t) ==
    << On(t), Give("persist"), See(t, "monitor"), Stop(t), See(t, "managed"),
       Expect(Stop(t), "ok"), See(t, "managed") >>

Phase10(t) == << On(t), See(t, "monitor"), Leave, See(t, "managed") >>

Phase11(t) ==
    << On(t), Give("persist"), See(t, "monitor"), Do("note", NoName), All,
       Reckon("reported", t), Do("quiet", NoName), See(t, "managed"),
       Reckon("spared", NoName), All, Reckon("nothing", NoName) >>

Phase12(t) == << Do("idle", t), See(Temp, "gone") >>

Suite(t, has) ==
    Phase3 \o Phase4(t) \o Phase5(t) \o Phase6(t, has) \o Phase6b(t, has)
    \o Phase7(t, has) \o Phase8(t) \o Phase9(t) \o Phase10(t) \o Phase11(t)
    \o Phase12(t)

---------------------------------------------------------------------------
ShellInit ==
    /\ Init
    /\ program = "none" /\ script = <<>> /\ runs = 0
    /\ outcome = "ready" /\ failed = FALSE /\ swept = {} /\ noted = {}
    /\ why = [r \in Radios |-> IF mode[r] = "monitor" THEN "kept" ELSE "free"]
    /\ begun = 0 /\ launched = 0

Launch ==
    /\ program = "none" /\ runs < MaxRuns
    /\ program' \in Commands
    /\ \E n \in Names \cup {NoName}, new \in (Aliases \ {Temp}) \cup {Malformed},
          c \in {"none", "usable", "absent"} :
          /\ n = NoName => program' \in {"start_monitor", "stop_all", "reset", "list",
                                         "detect", "monitor", "full_cycle"}
          /\ script' = Script(program', n, new, c)
    /\ runs' = runs + 1
    /\ launched' = spent
    /\ failed' = FALSE /\ swept' = {} /\ noted' = {}
    /\ UNCHANGED <<vars, outcome, why, begun>>

Ready(do) == script # <<>> /\ outcome = "ready" /\ Head(script).do \in do

(* A call into the library.                                                *)
Call(s) ==
    \/ s.do = "auto" /\ StartAuto(Shell)
    \/ s.do = "on" /\ s.name \in Names /\ StartNamed(Shell, "on", s.name, s.name)
    \/ s.do = "as" /\ s.name \in Names /\ s.new \in Aliases
       /\ StartNamed(Shell, "as", s.name, s.new)
    \/ s.do = "stop" /\ StopMonitor(Shell) /\ orig'[Shell] = s.name
    \/ s.do = "all" /\ StopAll(Shell)
    \/ s.do \in {"restore", "drop"} /\ Restore(Shell) /\ op'[Shell] = s.do
    \/ s.do = "persist" /\ Persist(Shell)

(* What a call that returns at once returns.                               *)
AtOnce(s) ==
    IF spent' # spent THEN "error"
    ELSE CASE s.do = "auto" -> "NoMonitorCapable"
           [] s.do \in {"on", "as"} ->
                IF Named(s.name) = {} THEN "NotFound" ELSE "AlreadyMonitor"
           [] s.do \in {"all", "persist"} -> "ok"

(* Radio r is taken up by a call, or given up by one.                      *)
Answerable ==
    why' = [r \in Radios |->
        CASE r = radio[Shell] /\ pc'[Shell] = "failed" -> "loose"
          [] r = radio[Shell] /\ pc'[Shell] = "rejected" /\ mode'[r] = "monitor" ->
               "loose"
          [] r = radio'[Shell] /\ r # radio[Shell] -> "free"
          [] OTHER -> why[r]]

Issue ==
    /\ Ready({"auto", "on", "as", "stop", "all", "restore", "drop", "persist"})
    /\ LET s == Head(script)
       IN /\ Call(s)
          /\ outcome' = IF pc'[Shell] \in {"idle", "open"} THEN AtOnce(s) ELSE "pending"
          /\ swept' = IF s.do = "all" THEN {} ELSE swept
          /\ IF s.do = "persist"
             THEN why' = [why EXCEPT ![radio[Shell]] = IF spent = begun THEN "kept" ELSE "loose"]
             ELSE Answerable
    /\ begun' = spent
    /\ UNCHANGED <<progress, failed, noted>>

(* validate_iface_name, before the backend is touched.                     *)
RefuseName ==
    /\ Ready({"as"}) /\ Head(script).new = Malformed
    /\ outcome' = "InvalidInterfaceName"
    /\ UNCHANGED <<vars, progress, failed, swept, noted, why, begun>>

(* Which way a start goes at its channel.                                  *)
ChannelAsAsked ==
    pc[Shell] = "tune" => (pc'[Shell] = "open") = (Head(script).chan # "absent")

(* What the call under way returns, as far as this step settles it: the    *)
(* error of a tuning that failed goes before those of the teardown, and a  *)
(* sweep goes on after a failure.                                          *)
Settled ==
    IF pc'[Shell] = "open" \/ op[Shell] = "all" THEN "ok" ELSE
    CASE pc[Shell] = "tune" -> "ChannelUnavailable"
      [] pc'[Shell] = "rejected" -> "error"
      [] pc'[Shell] = "left" /\ outcome = "pending" -> "ok"
      [] pc'[Shell] = "failed" /\ outcome = "pending" ->
           IF pc[Shell] \in {"leaveFind", "restore"} /\ spent' = spent
           THEN "NotFound" ELSE "error"
      [] OTHER -> outcome

Library ==
    /\ Step(Shell)
    /\ ChannelAsAsked
    /\ outcome' = Settled
    /\ swept' = IF op[Shell] = "all" /\ pc'[Shell] = "left"
                THEN swept \cup {orig[Shell]} ELSE swept
    /\ Answerable
    /\ UNCHANGED <<progress, failed, noted, begun>>

---------------------------------------------------------------------------
(* What a program does between its calls.                                  *)
Verdict == [none |-> "ok", usable |-> "ok", absent |-> "ChannelUnavailable",
            disabled |-> "ChannelDisabled", elsewhere |-> "WrongBand"]

Says(good) == IF good THEN "ok" ELSE "mismatch"
Monitors == {r \in Present : mode[r] = "monitor"}
(* A slip: the radios, not their names. *)
QuietRadios == Present \ Monitors

Quiet == {label[r] : r \in Present \ Monitors}

(* nmcli: GENERAL.NM-MANAGED of the interfaces of that name.               *)
NmManaged(n) == {label[r] : r \in {r \in Named(n) : nm[r]}}

Detecting == {"see", "lookup", "idle", "tuned", "note", "quiet", "list", "select"}
Reckoning == {"hop", "reported", "spared", "nothing"}
Asking == {"nmRead", "nmCompare"}

(* Phases 1 and 2: the radio asked for, or else what start_monitor would    *)
(* choose; never one in monitor mode.                                      *)
Selected(n) ==
    LET idle == Present \ Monitors
        asked == Named(n)
    IN IF n = NoName
       THEN IF idle = {} THEN "NoMonitorCapable"
            ELSE label[CHOOSE r \in idle : \A q \in idle : Rank[r] <= Rank[q]]
       ELSE CASE asked = {} -> "NotFound"
              [] asked # {} /\ asked \cap idle = {} -> "AlreadyMonitor"
              [] OTHER -> n

Result(s) ==
    LET of == Named(s.name)
    IN IF s.do \in {"lookup", "tuned", "idle"} /\ of = {} THEN "NotFound"
       ELSE IF s.do \in Asking /\ (of = {} \/ "nm" \notin running) THEN "error" ELSE
       CASE s.do = "see" ->
              IF of = {} THEN "gone" ELSE mode[CHOOSE r \in of : TRUE]
         [] s.do = "select" -> Selected(s.name)
         [] s.do = "idle" -> Says(of \cap Monitors = {})
         [] s.do \in {"tuned", "hop"} -> Verdict[s.chan]
         [] s.do = "quiet" -> Says(Monitors = {})
         [] s.do = "reported" -> Says(s.name \in swept)
         [] s.do = "spared" -> Says(noted \cap swept = {})
         [] s.do = "nothing" -> Says(swept = {})
         [] s.do = "nmCompare" -> Says(noted = NmManaged(s.name))
         [] OTHER -> "ok"

Look ==
    /\ Ready(Detecting \cup Reckoning \cup Asking)
    /\ LET s == Head(script)
       IN /\ \/ outcome' = Result(s) /\ Smooth
             \/ outcome' = "error" /\ s.do \in Detecting /\ Fault("detect")
             \/ outcome' = "error" /\ s.do \in Asking /\ Fault("probe")
          /\ noted' = CASE s.do = "note" -> Quiet
                        [] s.do = "nmRead" -> NmManaged(s.name)
                        [] OTHER -> noted
    /\ WorldButSpent
    /\ UNCHANGED <<pc, call, observers, progress, failed, swept, why, begun>>

(* systemd: the service starts anew, and NetworkManager manages what there  *)
(* is; wpa_supplicant knows what its configuration names.                  *)
Revived(service) ==
    /\ running' = running \cup {service}
    /\ nm' = IF service = "nm" THEN [r \in Radios |-> r \in Present] ELSE nm
    /\ IF service = "wpa"
       THEN \E named \in SUBSET {r \in Radios : wpa[r] = "own"} :
                wpa' = [r \in Radios |-> IF r \in named THEN "own" ELSE "out"]
       ELSE UNCHANGED wpa
    /\ UNCHANGED <<mode, label>>

(* restart_service: best effort, and only where the unit exists.           *)
Restart(service) ==
    /\ Ready({service})
    /\ outcome' = "ok"
    /\ \/ service \notin Units /\ UNCHANGED world
       \/ service \in Units /\ Fault("bus") /\ WorldButSpent
       \/ service \in Units /\ Smooth /\ Revived(service)
    /\ why' = [r \in Radios |-> IF why[r] = "kept" THEN "loose" ELSE why[r]]
    /\ UNCHANGED <<pc, call, observers, progress, failed, swept, noted, begun>>

(* An early return drops the guard.                                        *)
Unwind == IF pc[Shell] = "open" THEN <<Leave>> ELSE <<>>

(* The call returned.  An unexpected guard is a temporary, dropped at once. *)
Judge ==
    /\ outcome \notin {"ready", "pending"} /\ pc[Shell] \in {"idle", "open"}
    /\ LET s == Head(script)
           aborts == s.must /\ outcome \in Refusals
           chosen == s.do = "select" /\ ~aborts
       IN /\ failed' = (failed \/ aborts \/ (~chosen /\ outcome # s.want /\ s.want # "any"))
          /\ program' = IF chosen THEN "suite" ELSE program
          /\ \/ aborts /\ script' = Unwind
             \/ ~aborts /\ ~s.must /\ s.do \in Starts /\ script' = Unwind \o Tail(script)
             \/ chosen /\ \E has \in Hardware : script' = Suite(outcome, has)
             \/ ~aborts /\ ~chosen /\ (s.must \/ s.do \notin Starts) /\ script' = Tail(script)
    /\ outcome' = "ready"
    /\ UNCHANGED <<vars, runs, launched, swept, noted, why, begun>>

Exit ==
    /\ program # "none" /\ script = <<>> /\ pc[Shell] = "idle"
    /\ program' = "none"
    /\ UNCHANGED <<vars, script, runs, launched, memory, why, begun>>

Killed ==
    /\ Kill(Shell)
    /\ program' = "none" /\ script' = <<>> /\ outcome' = "ready" /\ failed' = TRUE
    /\ why' = [r \in Radios |-> IF r = radio[Shell] THEN "loose" ELSE why[r]]
    /\ UNCHANGED <<runs, launched, swept, noted, begun>>

Surroundings == Environment /\ UNCHANGED <<pc, call, observers, shellVars>>

Work == Issue \/ RefuseName \/ Library \/ Look \/ Judge \/ Exit
        \/ \E service \in Services : Restart(service)

ShellNext == Launch \/ Work \/ Killed \/ Surroundings

(* What the program itself runs has no deadline: reset waits for systemctl, *)
(* nm_state_probe for nmcli, as long as they take.                         *)
Waiting == Ready(Services \cup Asking)

(* Everything else it awaits is the library's, whose primitives do end by   *)
(* theirs.                                                                 *)
Timely == Issue \/ RefuseName \/ Library \/ (Look /\ ~Waiting) \/ Judge \/ Exit

ShellSpec == ShellInit /\ [][ShellNext]_allVars /\ WF_allVars(Timely)

---------------------------------------------------------------------------
(* Every check of the end-to-end suite holds, and it runs to its end, on a  *)
(* host whose services do not race each other, if nothing fails meanwhile:  *)
(* whatever programs ran before it, failed or were killed, unless it meets  *)
(* the temporary name that a suite which was killed has left, on another    *)
(* radio or on the one it runs on.  The suite itself needs the hardware,    *)
(* and runs on one host, once (examples/full_cycle.rs).                    *)
TempIsOurs ==
    \A r \in Present : label[r] = Temp => r = radio[Shell] /\ orig[Shell] # Temp
SuitePasses ==
    program = "suite" /\ spent = launched /\ Cardinality(running) <= 1 /\ TempIsOurs =>
        ~failed

(* Whatever way a program ends, and wherever it is meanwhile, a radio in    *)
(* monitor mode is the one its guard stands for, or one that was left so on *)
(* purpose, by a call that failed to restore it, or by a kill: no early     *)
(* return forgets one (the "?" of the examples and of the suite).          *)
Accounted ==
    \A r \in Radios : mode[r] = "monitor" /\ why[r] = "free" => r = radio[Shell]

(* What persist left behind after a start without a failure lasts: through *)
(* whichever programs are run later, until one takes the radio back, it     *)
(* stays a session that no service can end (rfmon start_monitor).          *)
KeptStands ==
    \A r \in Radios : why[r] = "kept" => mode[r] \in {"monitor", "gone"} /\ ~Held(r)

(* A stop during which nothing fails completes what went wrong before:      *)
(* whatever calls failed, timed out half done or were killed, the radio is  *)
(* out of monitor mode and every service has it (leave, which hands back   *)
(* to every service there is, and not to those a session recorded).        *)
RetryCompletes ==
    pc[Shell] = "left" /\ spent = begun =>
        LET r == radio[Shell]
        IN mode[r] # "gone" => /\ mode[r] # "monitor" /\ label[r] = orig[Shell]
                               /\ "nm" \in running => nm[r]
                               /\ "wpa" \in running => wpa[r] # "out"

(* And a sweep during which nothing fails leaves no radio in monitor mode.  *)
SweepClears ==
    pc[Shell] = "left" /\ op[Shell] = "all" /\ todo[Shell] = {} /\ spent = begun =>
        Monitors = {}

(* reset is for the worst case: it also brings back a radio that no sweep   *)
(* sees, because it is out of monitor mode already and has been kept from  *)
(* NetworkManager all the same.                                            *)
ResetRecovers ==
    program = "reset" /\ script = <<>> /\ ~failed /\ spent = launched =>
        \A r \in Present : mode[r] # "monitor" /\ ("nm" \in Units => nm[r])

(* Why: what each point of a call knows of the radio it works on, failures   *)
(* or not.  Its own start got it this far,                                 *)
Starting == Entering \cup RollingBack \cup {"next", "rejected", "tune"}
Stopping == pc[Shell] \in HandingBack /\ op[Shell] \notin Starts

ByStart ==
    /\ pc[Shell] \in Starting => op[Shell] \in Starts
    /\ pc[Shell] \in {"rename", "refind", "undoName"} => op[Shell] = "as"
    /\ pc[Shell] \in {"restore", "renameBack"} => op[Shell] \in {"restore", "drop"}
    /\ pc[Shell] = "sweep" => radio[Shell] = NoRadio
    /\ pc[Shell] = "idle" => op[Shell] = "none"
    /\ todo[Shell] # {} => op[Shell] \in {"auto", "all"} /\ pc[Shell] # "open"

(* it goes by the name the call resolves,                                  *)
ByName ==
    LET n == label[radio[Shell]]
    IN /\ op[Shell] = "auto" => \A c \in todo[Shell] : label[c[1]] = c[2]
       /\ pc[Shell] \in UnderOrig => /\ n = orig[Shell]
                                     /\ op[Shell] # "as" => cur[Shell] = orig[Shell]
       /\ pc[Shell] \in {"refind", "tune", "open", "restore"} => n = cur[Shell]
       /\ pc[Shell] = "leaveFind" /\ radio[Shell] # NoRadio => n = orig[Shell]
       /\ pc[Shell] \in {"unswitch", "unconfirm", "handback", "left"} \/ Stopping =>
            n = orig[Shell]

(* and what is given up in monitor mode is marked.                         *)
ByMode ==
    LET r == radio[Shell]
    IN /\ pc[Shell] \in {"handback", "left"} \/ Stopping => mode[r] # "monitor"
       /\ pc[Shell] \in {"rejected", "next", "failed"} /\ r # NoRadio =>
            ~(mode[r] = "monitor" /\ why[r] = "free")

(* Where nothing failed, what was handed back so far is with its services. *)
ByService ==
    LET r == radio[Shell]
        with == mode[r] # "gone" /\ spent = begun
    IN /\ \A s \in Radios : wpa[s] = "nm" => "nm" \in running
       /\ begun <= spent
       /\ Stopping /\ spent = begun => held[Shell] = running
       /\ (pc[Shell] = "left" \/ (Stopping /\ pc[Shell] # "giveNm")) /\ with =>
            ("nm" \in running => nm[r])
       /\ pc[Shell] = "left" /\ with => ("wpa" \in running => wpa[r] # "out")

(* Where nothing failed, a sweep still has every radio before it that it    *)
(* has not switched yet.                                                   *)
BySweep ==
    op[Shell] = "all" =>
        /\ \A c \in todo[Shell] : label[c[1]] = c[2]
        /\ spent = begun => \A r \in Radios : mode[r] = "monitor" =>
              \/ \E c \in todo[Shell] : c[1] = r
              \/ pc[Shell] = "leaveFind" /\ label[r] = orig[Shell]
              \/ pc[Shell] = "unswitch" /\ r = radio[Shell]

(* The program goes on between calls only.                                 *)
Between == outcome = "ready" => pc[Shell] \in {"idle", "open"}

ProgramInv == Between /\ Accounted /\ ByStart /\ ByName /\ ByMode /\ ByService /\ BySweep

(* What is still to do: a step of a program, but for reset's and for the    *)
(* suite's choice of its radio.                                            *)
Doings == Starts \cup {"stop", "all", "restore", "drop", "persist"}
          \cup (Detecting \ {"select"}) \cup Reckoning \cup Asking
Plain == [do : Doings, name : Names \cup {NoName}, new : Names \cup {NoName},
          chan : {"none", "usable", "absent", "disabled", "elsewhere"},
          must : BOOLEAN, want : Refusals \cup Modes \cup {"ok", "any"}]

(* reset sweeps, then restarts the services, and opens nothing.            *)
ResetPoint ==
    /\ script \in {Reset, Tail(Reset), Tail(Tail(Reset)), <<>>}
    /\ pc[Shell] # "idle" => script = Reset /\ op[Shell] = "all" /\ outcome # "ready"
    /\ pc[Shell] # "open"

SelectPoint ==
    /\ pc[Shell] = "idle"
    /\ script = <<>> \/ \E n \in Names \cup {NoName} : script = <<Do("select", n)>>
    /\ outcome \in {"ready"} \cup Refusals \cup Names

ByScript ==
    /\ program = "none" => pc[Shell] = "idle" /\ script = <<>>
    /\ script = <<>> => outcome = "ready"
    /\ program = "reset" => ResetPoint
    /\ program = "full_cycle" => SelectPoint
    /\ program \notin {"reset", "full_cycle"} => script \in Seq(Plain)

(* The name a call gives the services means its radio or none,             *)
BySole ==
    /\ Sole(Shell)
    /\ op[Shell] = "auto" => \A c \in todo[Shell] : Named(c[2]) \subseteq {c[1]}

(* where nothing failed, a start has released its radio before it switched *)
(* it,                                                                     *)
ByRelease ==
    LET r == radio[Shell]
    IN spent = begun =>
       /\ pc[Shell] \in NmLetGo => ~nm[r]
       /\ pc[Shell] \in WpaLetGo => wpa[r] = "out"
       /\ pc[Shell] \in Switched => mode[r] \in {"monitor", "gone"}
       /\ pc[Shell] = "refind" => Named(cur[Shell]) \subseteq {r}

(* and a radio a call works on is not one left to itself.                  *)
TakenUp == radio[Shell] \in Radios => why[radio[Shell]] # "kept"

(* reset: the sweep's part of the work, then NetworkManager's.             *)
ByReset ==
    /\ launched <= spent
    /\ program = "reset" /\ ~failed /\ spent = launched =>
          /\ pc[Shell] # "idle" => begun = launched
          /\ script # Reset \/ (pc[Shell] = "idle" /\ outcome # "ready") => Monitors = {}
          /\ script = <<>> \/ (script = Tail(Tail(Reset)) /\ outcome # "ready") =>
                ("nm" \in Units => \A r \in Present : nm[r])

TerminalInv == ByScript /\ BySole /\ ByRelease /\ TakenUp /\ ByReset

(* Every program ends, unless systemctl or nmcli keeps it waiting for ever: *)
(* no call, no drop and no list of candidates does, failed or rolled back   *)
(* wherever it may be.                                                     *)
ProgramEnds == program # "none" ~> (program = "none" \/ []Waiting)
=============================================================================
