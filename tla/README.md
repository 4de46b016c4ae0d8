# Verification of rfmon

TLA+ models of rfmon, a Rust library and command line that puts Wi-Fi
interfaces into monitor mode on Linux without killing NetworkManager or
wpa_supplicant: it asks the two services to release one interface, switches it,
and gives it back. The models are checked with TLC, and theorems about them are
proved with TLAPS. Paths below are relative to the crate's `src/`.

1. [The system](#1-the-system)
2. [The modules](#2-the-modules)
3. [The runs](#3-the-runs)
4. [What is proved](#4-what-is-proved)
5. [Where the code and its documentation differ](#5-where-the-code-and-its-documentation-differ)
6. [What is not modelled](#6-what-is-not-modelled)
7. [Plan](#7-plan)

## 1. The system

| Component | Source | State it keeps | Operations | Correct when |
|---|---|---|---|---|
| Session calls | `monitor.rs` `start_with`, `stop_monitor_with`, `stop_all_with`, `restore_named_with`; `linux/mod.rs` `enter`, `start_auto_impl`, `start_on_impl`, `start_as_impl`, `leave`, `release_stack`, `reclaim_stack` | none between calls; inside one: the interface resolved, the names, `Holders`, the candidates left | start (auto, on a name, under a new name), stop one, stop all | a session that was confirmed stays one; a failed start leaves the radio as found; a stop gives it back to every service |
| Guard | `cleanup.rs` `MonitorGuard` | the interface snapshot, the original name, `armed` | `restore`, `Drop`, `persist`, tuning | the session ends exactly once, and ends whatever path the caller takes |
| Service control | `linux/netman.rs`, `linux/supplicant.rs` | none; NetworkManager keeps `Managed` per device, wpa_supplicant a set of interfaces | `is_present`, `release`, `reclaim` | each call concerns the interface of the name it is given and no other |
| Link operations | `linux/interface.rs` `set_mode`, `rename`, `set_link`, `set_iftype`; `linux/mod.rs` `with_timeout` | the kernel's link state, mode and name | `set_mode`, `rename` | a success is one; a failure does not leave the link down; every operation ends |
| Candidate selection | `interface.rs` `monitor_score`, `rank`, `rank_candidates` | none | rank | the host's uplink is taken last; another tool's capture never; the order does not depend on detection |
| Channels and tuning | `interface.rs` `channel_from_mhz`, `resolve_frequency`, `Tuning::width_at`; `monitor.rs` `set_channel_with`; `linux/mod.rs` `set_channel_verified`; `linux/interface.rs` `set_channel`, `read_channel` | the kernel's tuning; the guard's band table | `set_channel`, `set_channel_6g`, `tuning` | Ok means tuned; errors send the caller to a call that works |
| Enumeration | `linux/interface.rs` `detect`, `collect_*`, `assemble`; `linux/mod.rs` `dump_with_timeout` | one call's tables of the two dumps | `detect` | whoever is there all the time is listed, and what is listed and still there is complete, unless an adapter that was told already is pulled in the middle of a dump; it ends |
| Programs | `bin/rfmon.rs`, `examples/` (`full_cycle.rs` is the end-to-end suite) | the calls still to make, the guard, what it remembers | the subcommands, `reset`, the examples, the suite's phases | no way out forgets a radio in monitor mode; a program ends if what it runs outside the library does; the suite holds after whatever ran before it; a stop or sweep run again completes; reset recovers |
| Names and errors | `interface.rs`, `errors/` | none | `validate_iface_name`, the error kinds | the kinds a caller branches on are told apart |
| Crate root, other platforms | `lib.rs`, `unsupported.rs` | none | - | - |

**How they interact.** A session call runs primitives in sequence, each an
`await` with a deadline of its own: netlink requests to the kernel (addressed by
ifindex), D-Bus calls to the services (addressed by interface *name*). Between
two of them anything may happen: another task, thread or program runs the same
calls; a service acts on its own (NetworkManager adds the devices it manages to
wpa_supplicant and removes those it does not; a service that holds an interface
pulls it back to managed mode); an adapter is pulled; the caller drops the
future; the process dies. There is no lock: the only shared state is the
kernel's and the services', and each call reads it once and then acts on it.

**What is hard.** State read before an await and used after it (the mode that
start and stop decide on, the names the services are given, the candidate list,
the guard's bands); failures half way (release of the second service, a mode
change that reports an error and happened, a rename likewise); the rollback
paths, which ignore their own errors; calls that overlap on one radio or on one
name; the deadline dropping a future between "link down" and "link up";
cancellation and death; a driver that accepts and ignores; a request that outlives
the call that gave up on it; a kernel list that changes under a dump of it; `systemctl`
and `nmcli`, which are run without a deadline. `PROJECT.json` lists
each at its line with the properties that watch it.

## 2. The modules

| Module | Models | Extends |
|---|---|---|
| `RadioWorld` | the radios and the two services, one action per primitive of the trait `LinuxOps`, and what the services and the operator do on their own | |
| `MonitorSession` | every session call and the guard's life, one action per await | `RadioWorld` |
| `SessionProperties` | what the calls promise, and the inductive invariant | `MonitorSession` |
| `SessionClaims` | what the documentation says and the code does not keep | `SessionProperties` |
| `SessionProofs` | proofs | `SessionProperties` |
| `RecoveryProofs` | proofs | `SessionProofs` |
| `MCSession` | instances for TLC | `SessionClaims` |
| `LinkContract` | abstract: `set_mode` and `rename` as one change that happens or does not | |
| `LinkOps` | the two, request by request, under their deadline; implements `LinkContract` | |
| `LinkProofs` | proofs | `LinkOps` |
| `Selection`, `MCSelection` | scoring, order, refusals; every host | |
| `SelectionProofs` | proofs | `MCSelection` |
| `Channels` | channel numbers, scopes, resolution, width verdict: pure operators | |
| `Tuner`, `MCTuner` | several callers tuning one radio; instances | `Channels` |
| `TunerProofs` | proofs | `Tuner` |
| `Enumeration` | the two dumps of `detect` and their join, message by message, while adapters come and go | |
| `EnumerationProofs` | proofs | `Enumeration` |
| `Programs`, `MCPrograms` | the command line and the examples as scripts of calls at one terminal; instances | `SessionProperties` |
| `ProgramProofs` | proofs | `Programs`, `SessionProofs` |
| `SuiteProofs` | the proof of `SuitePasses` | `ProgramProofs` |

### RadioWorld

`mode`, `label`, `nm`, `wpa` are what the kernel and the services know of each
radio (a radio is an ifindex, which a rename does not change). `mode[r] =
"gone"` is a radio that was unplugged. `nm[r]` is NetworkManager's `Managed`.
`wpa[r]` tells who added the radio to wpa_supplicant: nobody (`"out"`), a caller
of its bus interface (`"own"`: the configuration, or rfmon's `CreateInterface`),
or NetworkManager (`"nm"`). The distinction matters because NetworkManager
removes what it added once the device is unmanaged, and only that.

An operator such as `SetMode(r, m, ok)` is the primitive with its outcome `ok`;
a failure of any kind spends one unit of `MaxFaults` and must be in `FaultKinds`,
so a run chooses which failures can happen. The kinds separate failures with no
effect (`refuse`) from those that had one (`tornMode`, `tornName`): `LinkOps`
shows where the latter come from. `lie` is a driver that accepts a mode and does
not honour it, which is why every switch is read back.

Modelled from how the code uses them, not from their source: the kernel, the two
services, the host rfmon is started on (`external` in the map).

### MonitorSession

A process is one caller. `pc` names the await it is at; `op` the call; `radio`,
`orig`, `cur` the interface resolved, the name it had and the name of the
session; `held` is `Holders`; `todo` what `start_auto` and `stop_all` still have
to try. Two observers, read by no step: `found`, the radio as the start found
it, and `spoiled`, which becomes true for every call involved once a call takes
up a radio or a name another call under way has, or takes up a candidate whose
snapshot is out of date.

The paths follow the source:

- start: resolve (`StartAuto`, `StartOn`, `StartAs`), `NmRelease`, `WpaFind`,
  `WpaDrop` (`release_stack`), `SwitchOn`, `Confirm` (`enter`), `RenameOn`,
  `Refind` (`start_as_impl`), `Tune`, and the guard is open.
- rollback: `UndoName` then `UndoMode` then `GiveNm`, `GiveWpa`, `GiveWpaAdd`
  (`reclaim_stack`) then `Rejected`, which goes on to the next candidate. A
  failed release goes straight to `Rejected`, and a failed `set_mode` straight
  to `GiveNm`: the early returns of `enter`.
- end: `Restore` (and `Drop`, the same on a thread of its own), `RestoreFind`,
  `RenameBack`, `LeaveFind`, `SwitchOff`, `ConfirmOff`, `Handback`, then the
  reclaim as above. `stop_monitor` and `stop_all_monitors` enter at `LeaveFind`.
- `Cancel` drops the future, and runs the guard's `Drop` if there is one by
  then; `Kill` ends the process without.

Candidate order is `Rank` here and computed in `Selection`; every radio is a
plausible candidate. Tuning is an action that succeeds or fails here and a
module of its own (`Tuner`). A call that fails before it changed anything
returns in the same step.

Operators that a comment calls *a slip* are not part of the model: each is a
mistake someone could make in the code next to it, and the check that a
property notices it when it takes the place of the real definition.

### LinkContract and LinkOps

`LinkOps` takes `set_mode` and `rename` apart into netlink requests, each of
which is served, refused or never answered; the deadline drops the future at any
of them, whether or not the request in flight was served. `cut` records that
the deadline passed or the link would not come up. `LinkContract` is what
`RadioWorld` assumes: one attribute changes or does not, success means the
kernel accepted it, failure means nothing. The refinement mapping hides a change until
its operation returns (`before` holds the interface as it was at the call).

### Selection, Channels, Tuner

`Selection` has one operator per function of `interface.rs`; an interface is a
record of what scoring reads. `Channels` likewise; a band table is a set of
listings (band, frequency, disabled). `Tuner` composes `Channels` into
`set_channel_with`: a caller resolves its number (a caller by name on the bands
as they are, a guard on those it was built with), sets, reads back, and judges.
`barred` is what the regulatory domain disables now, `known[g]` what it disabled
when guard `g` was built.

The future a deadline drops is not the task that carries its request:
`open_handle` spawns the netlink connection, which outlives the call. So a call
that times out leaves its request in `pending`, and `Land` is a step of its own:
the request is served, refused or lost at any later time, also between another
caller's set and readback, or after that caller's Ok. The observers: `said` is the
last answer anyone got while no call has begun since, `told` the failures that
were answered with Timeout, `loose` the requests of those that were in flight
when the last Ok was given.

### Enumeration

A dump walks the kernel's list of wiphys (`adapters`), whose newest entry comes
first, and between two messages the kernel keeps the position it has reached
(`pos`, and `sent` for the messages about the next entry): for the first dump one
per wireless device, for the second one per part of its description, because the
kernel splits it and `collect_phys` merges. Nothing holds the list, nor the two
dumps, together: `Plug` and `Unplug` may fall between any two messages and between
any two steps of `assemble`, which reads the driver from sysfs. A new wiphy enters
at the head, so a dump under way does not meet it and tells one it has passed
again. When one the dump has told leaves, the list moves up under the position and
the dump passes over one it has not told. The kernel marks such a dump
(NLM_F_DUMP_INTR, a generation number); `detect` does not look
(`linux/interface.rs:484`, `536`) and returns what it got, so the model has no
step for it. `raw` and `caps` are the code's two tables, joined by wiphy index;
`answer` is what the caller gets. The observers: `since` is the set of wiphys that
were there from the call on, `torn` the dumps that lost their place like this.

How the list is kept and walked is modelled from the kernel (`external` in the map).

`MonitorSession` uses `detect` as one step that may fail. `PresentIsComplete` and
`NothingMissed` are what makes that sound for a radio that stays, as long as no
dump is torn. A torn one can hide a radio that is there, or have it listed without
capabilities; the session models do not have that (section 6).

### Programs

One process, `Shell`, runs one program after another. A program is a `script`: the
calls it has still to make, each with what follows from the outcome. `must` is a
call followed by `?`, whose error ends the program; `want` is what a check of the
suite compares with. `Issue` makes the call, through the actions of
`MonitorSession`; `Library` is a step of it; `Judge` looks at the outcome, and on
an error goes out through the guard's scope (`Unwind`), which drops the guard if
there is one. `Look` is what a program does in between without changing
anything: a fresh `detect`, `nmcli`, a comparison of what it remembered (`noted`,
`swept`). A start whose check fails returns a guard that nobody names: it is
dropped at once.

`full_cycle` is `Select` (phases 1 and 2, which radio) and then the suite of
phases 3 to 12 for that radio and its hardware (`Hardware`: the bands in which it
has a usable channel, and whether the regulator disables one). `hop` and `tuned`
stand for a channel set through the guard and by name, as their outcome only:
`Tuner` models them. `reset` is the sweep and the restart of both units.

`Restart` is `restart_service`, which runs `systemctl` and waits for it without a
deadline, as `nm_state_probe` does for `nmcli`: a program whose next step is one of
these is `Waiting`. What the restart does is external: systemd starts the service anew, NetworkManager then
manages every device there is, and wpa_supplicant has those its configuration
names, any subset of what it had on its own account.

The observers: `why[r]` is the reason no program has to take care of a radio
(`"free"`: somebody has; `"kept"`: persisted by a start in which nothing failed;
`"loose"`: left by a failed rollback or restore, by a kill, or kept until a service was
restarted under it); `begun` and `launched` are the failures spent as the last
call and the program began, so `spent = begun` says that nothing failed in it.

## 3. The runs

Twelve runs. "States" are distinct states.

| Run | Instance | States | Shows |
|---|---|---|---|
| `session` | 2 callers, 2 radios, 2 names, `start_monitor_as` with the other radio's name as alias, both services, one of: torn mode, unplug, kill | 1.07 M | `SessionIntact`, `OwnRadioOnly`, and the inductive invariant `SessionInv` of the proof |
| `recovery` | 1 caller, every call, 1 radio, every host (neither service, one, both; every custody; found managed or in monitor mode), any one failure of 8 kinds, fairness | 3.9 k | `RejectedAsFound`, `RestoreComplete`, `NoFightingHandback`, `EveryCallReturns`, and the inductive invariant `RecoveryInv` |
| `programs` | 2 programs of any of the 11 commands, any argument; 2 radios, hosts with either service or both, one failure of 6 kinds, a kill among them; fairness | 304 k | `SuitePasses`, `Accounted`, `KeptStands`, `RetryCompletes`, `SweepClears`, `ResetRecovers`, `ProgramEnds`, and the inductive invariants `ProgramInv` and `TerminalInv` |
| `link` | every failure anywhere, 3 modes, 2 names, fairness of the deadline | 696 | `SuccessMeansDone`, `LeavesLinkUp`, `ImplementsContract`, `EveryOperationEnds` |
| `selection` | every host of up to 2 radios of all 96 kinds | 9.3 k | `UplinkIsLast`, `RankIsOrder`, `BusyIsSpared` |
| `tuner` | 2 callers (one guard, one by name), a 6E adapter, one glitch of 7 kinds, a timeout whose request is served later among them, a regulatory domain that comes and goes | 291 k | `OkMeansTuned`, `LastOkStands`, `AdviceWorks`, `RoundTrip` |
| `enumeration` | 3 adapters that come and go, in a list that moves under the dumps, each with 2 interfaces, a P2P device and 2 messages; fairness of the timer | 242 k | `PresentIsComplete`, `NothingMissed`, `DetectEnds`, and the inductive invariant `EnumerationInv` |
| `stranded`, `torn_start`, `custody`, `two_sessions`, `tuner_stale` | see section 5 | - | a documented promise the code does not keep |

**The properties.**

- `SessionIntact`: from the guard's creation to its end an undisturbed session
  is in monitor mode, under its name, with no service left that could pull it
  back. Nothing in the code checks this after the confirmation: it holds because
  both services let go *before* the switch. "Undisturbed" is `~spoiled`: without
  it the property is false (run `two_sessions`).
- `OwnRadioOnly`: services are addressed by a name read several awaits ago, and
  with two sessions that rename, names change hands. An undisturbed call still
  changes no radio but its own.
- `RejectedAsFound`: any one failing step of a start, cancellation excepted,
  leaves mode, name and custody as found. It is conditioned on a radio that
  every service of the host held, wpa_supplicant on its own account, and does
  not include torn mode changes, because the code breaks the promise in those
  cases (`custody`, `stranded`, `torn_start`); bus and probe failures are left
  out because the code documents its handback as best effort.
- `NoFightingHandback`: no service is handed a radio in monitor mode, under the same
  conditions.
- `RestoreComplete`: a stop or restore that reached its end left the radio out
  of monitor mode, under its own name, and with *every* service of the host.
- `EveryCallReturns`: through all candidates, rollbacks and restores.
- `SuitePasses`: the suite runs to its end and every check of it holds, if nothing
  fails while it runs, whatever ran before it, failed or was killed. Two
  conditions. At most one service: with both, a radio that NetworkManager takes out of
  wpa_supplicant between rfmon's two requests fails a start, without any fault
  (`stranded`). And `TempIsOurs`: a suite that was killed leaves its temporary name
  behind, on which the next one trips: its own rename is refused where another
  radio has the name, and where the radio it runs on has it already, the check of
  phase 8 that the old name is gone fails.
- `Accounted`: at every point of every program, every early return included, a radio
  in monitor mode is the guard's, or was left so by `persist`, a failed
  rollback or restore, or a kill. It is what `Drop` is for, and what the `?` of the
  examples relies on.
- `KeptStands`: a session persisted by a start in which nothing failed stays one
  through all later programs, until one takes the radio back: still in monitor
  mode, and no service has it. Starts in which a presence probe failed
  are excluded for the reason given for `NoFailedProbe` below.
- `RetryCompletes`: a stop in which nothing fails completes whatever went wrong
  before it, half changed modes, half done renames and kills included: out of
  monitor mode, and back with every service. It rests on `leave` handing back to
  every service there is, whatever mode it finds.
- `SweepClears`: and a sweep in which nothing fails leaves no radio in monitor mode,
  with or without an alias left behind.
- `ResetRecovers`: after a reset that did not fail NetworkManager manages every
  radio, those included that no sweep sees because they are out of monitor mode
  already.
- `NothingMissed`: an adapter that is there from the call to the answer is listed,
  with each of its interfaces, whatever is plugged in meanwhile and whatever is
  pulled that the first dump has not told yet, or after it. If the first dump is
  torn the property is false: of two adapters the one that was told is pulled, and
  the other is passed over.
- `PresentIsComplete`: a listed interface whose adapter is there has its driver, and
  all its capabilities unless the second dump was torn. `Order` matters: with
  the wiphys first an adapter that arrives between the dumps is listed without
  capabilities, and `monitor_score` would pass it over.
- `DetectEnds`: a silent kernel does not stop it. `ProgramEnds`: a program ends, or
  waits for `systemctl` or `nmcli` for ever. Nothing else keeps it: no call, no list
  of candidates or radios, no failure, no early return.
- `SuccessMeansDone`, `LeavesLinkUp`, `EveryOperationEnds`: a success leaves the link
  up, and a rename's success the new name; the link is never the casualty of a
  failed change; and no driver can hang a call.
- `UplinkIsLast`: the penalty for an associated radio outweighs every sum of
  points. `RankIsOrder`: `sort_by` gets a strict total order, so the choice does
  not depend on the order of the dump. `BusyIsSpared`: a radio another tool
  captures on is neither taken nor blocks the others.
- `OkMeansTuned`: whoever is told Ok has, at that moment, a radio on a frequency
  of that number, in that scope, at that width and side, although the other
  caller may have tuned between set and readback. `LastOkStands`: once
  no call is under way the radio is where the last call put it, if that was told
  Ok. Timeout is the one error that is not final: a request whose caller was told
  so can be served after another caller's Ok and undo it, and nobody is told then.
  After every other error nothing is left in flight. `AdviceWorks`: `WrongBand` names a call
  that is not refused as disabled. `RoundTrip`: the number reported for a
  frequency leads back to it.

**The bounds.** Interference between calls is pairwise (each step of a call
touches one radio and reads its own variables), so two callers and two radios
show it, and the proof below covers any number. One failure is enough to enter
every rollback; a second one inside a rollback is not promised to be handled
(rollbacks are best effort in the code). `recovery` has one radio because no
property of it relates two. `programs` has two runs because what one program
leaves behind is what the next finds, and one failure among both, which falls in
the first, the second or neither; two radios so that a sweep has a list, a suite
a bystander, and a start a second candidate. Its radios start managed, held by
every service: other states are what the first program makes. `enumeration` has
three adapters so that one can be pulled behind the position, one be passed over
for it and one arrive at the head; the host starts without any, and every other
list comes about by plugging in. `selection` has two radios because `Ahead` compares two, and three
add only transitivity, which is proved for any number. `tuner` has a channel number
that exists in two bands (1), one that exists at 6 GHz only and may be disabled
(37), and a frequency between two channels (2414 MHz). `MaxFaults`, `MaxGlitches`,
`MaxRadios`, `MaxPhys` and `MaxRuns` are the only counters. Symmetry is used in `session`, over the
two callers, whose runs check safety only.

**Deadlock** is checked in every run but `selection`, where a behaviour ends once
the host is full, and `programs`, where it ends after `MaxRuns` programs; there
`ProgramEnds` rules out a program that is stuck, except in `systemctl` or `nmcli`. In `link` that means no request leaves an operation stuck; in
the session runs that every call can always go on.

**Fairness.** `FairSpec` of `MonitorSession` is weak fairness of each caller's
`Step`: every primitive is wrapped in a deadline (`with_timeout`, `DUMP_TIMEOUT`,
`DBUS_TIMEOUT`), so an await ends and the task goes on. It assumes nothing of
the client (which may hold a guard forever: `open` counts as returned) nor of the
services. `ShellSpec` is weak fairness of `Timely`: the program's own steps and its
calls into the library. It does not cover `Restart` and the questions to
`nmcli`, which are `Command::status()` and `Command::output()` without a deadline
(`bin/rfmon.rs:273`, `examples/nm_state_probe.rs:111`), nor `Launch`, `Killed` and the
services. `LinkOps` and `Enumeration` assume the timer
only (`Late`, and `Assemble`, which awaits nobody): no driver and no kernel is
obliged to answer.

## 4. What is proved

All by TLAPS, for every value of the constants that satisfies the named
assumptions (`WorldAssumption`, `SessionAssumption`, `LinkAssumption`,
`TunerAssumption`, `EnumerationAssumption`, `ProgramAssumption`).

**SessionProofs.**

- `TypeCorrect`: `Spec => []TypeOK`. The part that is work is `Equipped`: every
  point of a call has the names and the interface its next step uses, so no path
  into a rollback lacks them.
- `WorldConsistent`: `Spec => []WorldOK`: services hold only radios that are
  there, and no two radios that are there share a name.
- `SessionInvariant`: `Spec => []SessionInv`, and `SessionsStayIntact`: `Spec =>
  []SessionIntact`, for any number of radios, names, callers and failures,
  assuming `NoFailedProbe`.

`SessionIntact` is not inductive: when `Tune` opens the session nothing in the
state of the step says that the services let go. `SessionInv` adds what each
point on the way in knows (`Stage`: after `NmRelease` NetworkManager does not
hold the radio, after the wpa_supplicant steps neither does it, after `Confirm`
the mode is monitor, and the name is the one the services were asked about), and
what keeps this true under everybody else's steps: `Apart` (an undisturbed call
shares its radio and names with no other call), `Rested` (an idle caller has
neither), `HeldRuns` (only running services are recorded) and `WorldOK` (a name
means one radio). The proof has three parts: the call's own step establishes the
next stage (`OwnStep`); another call's step works on another radio and other
names (`StepWithin`, `StepElsewhere`, `Bystander`); a service acting on its own
cannot touch a radio nobody holds (`Undisturbed`).

`NoFailedProbe` is needed: a presence probe that times out reads as "absent"
(`is_present`), the service is not asked to let go, and pulls the radio back
during the session.

`CallsKeepToTheirRadio`: `Spec => OwnRadioOnly`, for any
radios, names, callers and failures, without `NoFailedProbe`. The kernel is
addressed by ifindex, so only the services can be misdirected. `OwnInv` says that
from the resolution to the handback no present radio but the call's own has the
name the call gives them: it is unique when it is resolved (`WorldOK`), the call
itself renames only its own radio, and a call that would rename another one to
it overlaps this one (`Apart`).

**RecoveryProofs.** `StopsRecover`: `Spec => []RestoreComplete`;
`FailedStartsRecover`: `Spec => []RejectedAsFound`; `HandbacksDoNotFight`:
`Spec => NoFightingHandback`, for any radios, names, callers and failures, each
under the conditions that its run's choice of failures has:

- `Careful`: the calls to the services and the probes of them do not fail. The
  code hands back as best effort, and a service whose probe fails is taken to be absent.
  `StopsRecover` needs nothing else: torn mode changes and renames, drivers that accept
  and ignore, cancellation, kills and any number of refusals are allowed.
- `SafeUndo`, for the two about starts: no mode change is torn and no radio boots
  as an access point (the differences `torn_start` and the first of those
  without a run in section 5), and either set_mode and rename never fail, or one
  of them fails once and `start_monitor_as` has only one radio to mistake for its
  own. The `recovery` run is an instance. The condition says where the code keeps
  its promise, and it cannot just be dropped: the rollback ignores its own errors, so
  two failures, one of the start and one of its rollback, leave the radio in monitor
  mode; and where a second radio already has the alias, the rename fails without any
  fault, and the one fault is still to come.

The invariant `RecoveryInv` follows a call on its way back, where `SessionInv` follows
it on its way in. `Recorded` says that what a call has recorded is every service that
runs, whichever failed; `GivenBack`, that a radio is out of monitor mode and under its own
name before the first service hears of it, and with the services one after
the other; `Undoing`, that a start with something to undo has met its failure
already (`Spare`), so that the undoing succeeds; `HeldStill`, that a radio every
service held is still with those that were not yet asked. Only calls that are alone
promise this (`Alone`), and other callers' steps keep it by the non-interference
lemmas of `SessionProofs`. `RecoveryInvariant` is proved over
`SessionInv` and `OwnInv`: the services are addressed by name, and only `OwnInv` says
whose radio they find.

**LinkProofs.** `LinkTypes`, `SuccessIsDone`, `FailureLeavesUp`, and `Implementation`: `Spec =>
ImplementsContract`. The invariant `Progress` says what an operation under way
has changed so far: at most the one attribute it was asked to, and not yet
answered. Every request in the middle is a stutter of the contract, and whatever
returns, the deadline included, is one of its two `Return` actions. This is what
licenses `RadioWorld` to treat the two operations as atomic steps with a torn
outcome.

**SelectionProofs.** `RankOrders` and `PenaltySuffices` for any set of
interfaces with distinct indexes; `RankAlwaysOrders`, `UplinkAlwaysLast` and
`BusyAlwaysSpared` for every host, where distinct indexes are an invariant
(`HostsNumbered`) and so is that a first candidate exists (`FirstExists`, which
stands in for an induction over the set).

**TunerProofs.** `TunerTypes`; `OkIsTrue`: `Spec => OkMeansTuned`, and `OkStands`: `Spec =>
[]LastOkStands`, for any band table, callers, channels and glitches. The
invariant adds what a call resolved (`Resolved`), that the radio is where it was
or where some request put it (`Settled`, from which the width and the side that
were read back determine the whole tuning), `Loosened`
(whose request is still in flight has been told Timeout, and what is in flight since
an Ok was so when it was given), and `Standing`, the part of `LastOkStands` that
survives other calls being under way: until somebody has set and not yet read
back, an Ok is true or undone by a request of `loose`. `AdviceAlwaysWorks` holds of any band
table because the two scopes share the bands out between them
(`ScopesComplete`). `NumbersLeadBack`: `Spec => []RoundTrip` on every radio that has
its bands where radios have them (`Allotted`, which TLC evaluates for the
instance): then no two frequencies of one scope have one number (`NumbersApart`). It
is false of other band tables (see the last item of section 5).

**EnumerationProofs.** `EnumerationInvariant`, `PresentComplete` and `NoneMissed`, for
any number of adapters, interfaces and messages. The invariant says that what a
dump is past it has told in full, and of the entry it is at what `sent` says, unless
it is torn (`Collecting`, `Describing`). Plugging in keeps this because the list
moves down: everything within the position was within it before, one entry further
up. Pulling keeps it because what moves up was not within the position, or the dump
is torn (`Skips`). The interfaces come first and an index is not used twice, so a
wiphy of which `raw` knows an interface and which is still there was there when the
second dump began (`Assembling`).

**ProgramProofs.** `ProgramInvariant`, and from it `AlwaysAccounted`,
`RetriesComplete` and `SweepsClear`: `ShellSpec => []Accounted`, `[]RetryCompletes`
and `[]SweepClears`, for any radios, names, hosts, length of the run and number of
failures. `ProgramAssumption` says that the terminal is the one caller, so
what `SessionProofs` shows of calls that are alone holds of every call.
`Accounted` is not inductive: that a call lets no radio go in monitor mode
unmarked depends on what each point of it knows. `ByStart` says which kind of
call is where; `ByName`, that the name a call uses next is the name its radio
has at that point, so each lookup by name finds the same radio or none; `ByMode`,
that a radio is handed back only after it was read out of monitor mode, and that a
failed attempt moves on only with its radio marked. `RetryCompletes` needs
`ByService`: while nothing has failed since the call began (`spent = begun`), the
holders are all running services, and each of them up to the present point has
the radio back; `reset`'s restarts keep this, since a revived NetworkManager takes what
it manages. `SweepClears` needs `BySweep`: every radio in monitor mode is still in
the list, or is the one being switched. `Between` says that a program acts
between calls only.

`TerminalInvariant` adds what the scripts have left, and gives `KeptSessionsStand`,
`ResetsRecover` and `ShellTypes`: `ShellSpec => []KeptStands`, `[]ResetRecovers` and
`[]ShellTypeOK`, as general as the others. `TInv` is inductive:

- `ByScript`: what each program can have left of its script. The scripts are sequences
  built by concatenation, and that they hold no foreign step (`PlainSuite`, `PlainHops`)
  is what `ShellTypes` needs: each call, lookup and check then has an outcome of
  the list. `reset` and the choice of the suite's radio are followed step by step.
- `BySole`: at one terminal `OwnInv` holds of every call, candidates that are still to
  be tried included, so a call's requests reach its radio and no other
  (`OthersAlone`).
- `ByRelease`: in a start in which nothing failed, each service has let go of the
  radio before it is switched.
- `TakenUp`: a radio a call works on is not marked as kept. With the two before,
  `KeptStands`: no other program's call and no service can end a session that was
  left behind on purpose.
- `ByReset`: `launched` failures were spent when the program began and `begun` when its
  call did; while they are those spent now, the sweep has left no radio in
  monitor mode, and after the restart NetworkManager has every radio that is present.

**SuiteProofs.** `SuitesPass`: `ShellSpec => []SuitePasses`, for any radios, names,
ranking, hosts, hardware, earlier programs and earlier failures. The suite is a script of
up to 65 steps that depends on the hardware, so the proof annotates it instead of
walking through it:

- `Stands` are the places between two steps (no session yet; clean; a guard open, or
  open under the temporary name; a session kept; before, between and after the two
  sweeps), and `Turn` says which step leads from which place to which and what it
  returns, as the program expects it. `Leads(t, x, s, y)` is an annotation of the script
  `s` from `x` to `y`. It composes over concatenation (`LeadsJoin`), so that each phase is
  looked at once, whatever the hardware, and `SuiteLeads` takes the suite from its
  first place to its last.
- `SuiteInv`: while the suite is calm (`Calm`: no failure since it was launched, one
  service at most, `TempIsOurs`), nothing has failed its check, and for some radio `r` of
  some name `t` that no other radio has (`Ours`) it is on its `Course`: between
  calls, at a place (`Here`) from which the rest of the script leads on; in a call, at a
  point of it that goes (`Going`) to the place after. `Going` has a case per kind of
  call: `GoingIn`, `ComingOut`, `Sweeping`, `Missing`.
- One lemma per action shows that it stays on course (`IssueCourse`, `LibraryCourse`,
  `LookCourse`, `JudgedCourse`, `RefusedCourse`, `HostCourse`). With two services
  `ReleaseGoesIn` is false: that is the failure of `stranded`. Once a call has switched the
  radio, no service has it (`ByRelease`), and none can pull it back.
- `Calm` is about the present state only, and the suite must have been on course before:
  `CalmBefore` shows that a suite that is calm now has been so throughout. A failure
  stays counted; and the name another suite left does not go away while this one runs,
  because its own calls never rename the radio that has it (`MisnamedStep`), for which
  `Unmoved`, `OwnCalls` and `Began` are needed. `AbsentInv` is what phase 3 rests on: no
  radio ever goes by the name it takes for an absent one.
- `SelectInv` is the entry: what phase 2 selects is a radio that is there and not in
  monitor mode, until the suite takes it up.

**Only model-checked**: liveness (`EveryCallReturns`, `EveryOperationEnds`,
`DetectEnds`, `ProgramEnds`: fairness and ENABLED are beyond the prover); every
safety property a passing run checks is proved as well. What a recursive definition
computes over all inputs would be beyond the prover too; the models have none.

## 5. Where the code and its documentation differ

Each has a run in which TLC finds the behaviour:

- `stranded`: `enter` returns a failed `release_stack` with `?`
  (`linux/mod.rs:256`) although NetworkManager has already let go; the comment at
  236 promises "we never strand the interface". No failure is needed: once
  NetworkManager is told to unmanage a radio it removes it from wpa_supplicant
  itself, and if that falls between rfmon's `GetInterface` and `RemoveInterface`
  the latter fails.
- `torn_start`: `set_mode` can fail after the mode changed (`linux/interface.rs:158`);
  `enter` then hands the radio back without undoing it (`linux/mod.rs:259`).
- `custody`: `Holders` records a service that runs and whose release succeeded,
  which it does for a radio the service never held (`linux/mod.rs:588`, against 52).
- `two_sessions`: the refusal of a radio in monitor mode tests a mode read
  several awaits before the switch (`linux/mod.rs:247`).
- `tuner_stale`: a guard answers `ChannelDisabled` from the bands of its snapshot
  (`monitor.rs:678`).

Others met while modelling, without a run of their own:

- the rollback sets `Managed` whatever the mode was, so an access point comes
  back as a station (`linux/mod.rs:277`, against 395);
- a restore whose rename back fails stops there, with the radio in monitor mode
  under the session's name (`monitor.rs:700`, against 246);
- a stop whose readback fails returns with the mode changed
  (`linux/mod.rs:520`, against the comment at 516);
- a stop hands the radio to every service present, where `monitor.rs:174` says
  NetworkManager if it runs, otherwise wpa_supplicant (`linux/mod.rs:621`);
- the deadline can pass between link down and link up (`linux/mod.rs:648`,
  against `linux/interface.rs:151`): `LeavesLinkUp` is conditioned on `~cut`;
- a candidate of `start_auto` that was unplugged or renamed since the enumeration
  is released by the name it had then, whichever radio has it now
  (`linux/mod.rs:405`; no document speaks of it, and `spoiled` covers it);
- `detect` is to find "every wireless interface, joined with its physical device's
  capabilities" (`linux/interface.rs:90`); a dump the kernel marks as interrupted is
  taken for a whole one, so an adapter that is pulled can hide another, or cost it
  its capabilities (`linux/interface.rs:484`, `536`): `NothingMissed` and
  `PresentIsComplete` are conditioned on `torn`;
- a `set_channel` that timed out can be served after another caller, or the same one,
  was told Ok for another channel (`linux/interface.rs:473`; no document speaks of it,
  and `LastOkStands` excepts it);
- the documentation of `Frequency::is_disabled` says that asking for a disabled channel yields
  `ChannelUnavailable` (`interface.rs:402`); it yields `ChannelDisabled`
  (`interface.rs:1109`);
- `channel_from_mhz` numbers 5005 to 5070 MHz 1 to 14, so on a radio that lists
  them channel numbers 1 to 14 are not 2.4 GHz only (`interface.rs:986`, against
  `monitor.rs:273`); the table of `tuner` has none of these.

## 6. What is not modelled

- Of `Programs`: argument parsing and printing; the suite's checks of the fields
  that `detect` fills (phases 1 and 2), and of the bands a tuned guard reports.
- The syntax of interface names (one malformed name stands for all), error texts,
  logging, the stubs of other platforms.
- Services that start or stop during a call: `running` changes by `reset` only.
- Adapters that arrive in the middle of a session call: there radios only leave.
  In `Enumeration` they do both. Nor has the `detect` of a session call a torn dump.
- A request for a mode or a name that is served after its deadline's error was
  returned: in `LinkOps`, and in the torn outcomes of `RadioWorld`, it is served by
  then or not at all. `Tuner` has late requests.
- That `RemoveInterface` is addressed by the object path which `GetInterface`
  returned (`linux/supplicant.rs:80`), where `WpaSet` and `WpaDrop` use the name of
  the interface; and that `get_device_by_ip_iface` and `set_managed` are two requests
  (`linux/netman.rs:92`, `112`), where `NmSet` is one step. Both differ
  only where the name changes hands between the two requests, and a call to which
  that happens overlaps another (`spoiled`).
- The contents of the driver table, of regulatory databases and of netlink
  messages.

## 7. Plan

In the order of importance; the first nine are done.

1. `RadioWorld`, `MonitorSession`, `SessionProperties` with the runs `session`,
   `recovery` and the claims.
2. `SessionProofs`: types, world consistency, `SessionIntact`,
   `OwnRadioOnly`.
3. `LinkContract` and `LinkOps` with the refinement, and its proof.
4. `Selection`, `Channels`, `Tuner` with their runs and proofs.
5. `Enumeration` with its run and proof.
6. `Programs`: the command line and the examples over `MonitorSession`.
7. `ProgramProofs`: `Accounted`, `RetryCompletes`, `SweepClears`.
8. `RecoveryProofs`: `RestoreComplete`, `RejectedAsFound`, `NoFightingHandback`; and in
   `ProgramProofs` `KeptStands`, `ResetRecovers` and the types. In `TunerProofs`
   `RoundTrip`.
9. `SuiteProofs`: `SuitePasses`.
10. Services that start and stop during a call, and adapters that arrive.
11. `SessionContract`: what one caller sees of a session (start or refuse, end
   once), implemented by `MonitorSession`.
