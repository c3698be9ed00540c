# goalpaca in TLA+

goalpaca is a Go framework for ASCOM Alpaca device servers. A program
constructs device objects (a telescope, a camera, ...), registers them with a
`server.Server`, and calls `Run`: the server opens their hardware, serves the
Alpaca HTTP API and setup pages with forms, answers discovery, and closes the
hardware when it stops. `devicemain` wraps that into a standalone host with a
config file and SIGHUP reloads; `sim` has a simulator of every device type;
`client` is a typed HTTP client.

This directory holds TLA+ modules translated from the source, TLC
configurations that check them on small instances, and proofs that TLAPS checks
for every instance.

## 1. Inventory

| part (source) | state | operations | talks to | what is hard | what makes it correct |
|---|---|---|---|---|---|
| Hosting and lifecycle (`server/server.go`, `reload.go`, `device.go`) | `devices`, `order`, `runCtx` under `Server.mu`; per record `dev`, `cfg`, `hw`, `hwCancel`, `reloader`, `reloadMu` | `Run`, `Register`, `Unregister`, `RegisterConfigurable`, `SetReloader`, `Reload`, `ReloadAll`, the look-up of a request | drivers (`Open`, `Close`), the settings store, the HTTP server, hosts, signals | every call is several lock sections with driver calls between them; reloads, registrations, requests and shutdown overlap | one `Close` per `Open`, after its context is cancelled; one open device per address; nothing left open; reloads serialized; registry and order agree; shutdown ends |
| Settings (`setup.go`, `configadapter.go`, `settings_store.go`, `settingstruct.go`) | the adapter's `raw` entry and `current` config; the settings file; `FileStore.mu` | apply a form, read back, save (temporary file and rename), load at start and on reload | hosts (config file), devices (`Reconfigure`), browsers | three separately locked sections per submission; crashes; failing saves; edits of the config file | precedence defaults < saved < host; refused values never saved; host values never leak into the file; no lost lock; secrets kept |
| Telescope simulator and gates (`sim/telescope.go`, `telescope_http.go`, `gates.go`) | start/target, slew, axis and offset clocks, on-arrival flags, park/home, targets | 20 members, each behind a gate | HTTP handlers | motion is computed when asked; gates check in one call and members act in another; flags outlive slews | parked is still; only Unpark unparks; a synchronous slew arrives; drift counted once |
| `devicemain` (`devicemain.go`, `reload_unix.go`) | the config file, the current device | construct as reloader, SIGHUP | Server, Settings | publication before validation | as above |
| HTTP dispatch, gating (`httpserver.go`, `device_http.go`, `transaction.go`, `gate.go`) | connected flags, transaction counter | connection check, busy check, parse, call, answer | devices | check and call are separate sections | one worker however many requests pass the busy check; a geometry that was checked is the one exposed |
| Async helpers (`op.go`, `base.go`, `supervise.go`) | operation status, connecting flags, loop goroutine | Begin/TryBegin/Complete/Fail, Connect/Disconnect, RunLoop stop | drivers | Complete and Fail end whatever runs; a stop that times out | no worker ends another's run |
| Other simulators and their HTTP members (`sim/*.go`, `camera_http.go`, `dome.go`, ...) | legs of moves, shutter, cover, lamp, exposure, geometry | moves, halts, syncs, aborts, exposures | HTTP handlers | nothing runs: the position is computed when asked, from where and when a move began; several initiators write one flag | no jumps; a device that says it is still is still; moves end where they were sent; an aborted exposure is no image |
| Discovery (`discovery*.go`, `client/discovery.go`, `cmd/discover_proxy`) | registrations with their age, relay rate gate, the client's socket | heartbeat, record, expire, answer, relay, probe | UDP, other processes | lost, late, repeated, reordered datagrams; restarts on other ports | what a client finds was lately there; the table converges to who is up |
| Client and image transport (`client/`, `alpaca/imagebytes.go`, `imagearray.go`) | the cached refusal; the sink of a stream | negotiate, encode, transpose, stream, decode | servers, proxies | errors in mid-transfer; two transports and a transposition split among goroutines | the frame is the camera's, row-major, or an error; the sink is closed once |
| Fault proxy (`cmd/fault_proxy`) | faults per member with their counters, global toggles | arm, clear, toggle, intercept | clients, a server, a tester | faults are re-armed under requests in flight, which take the lock three times | a request counts in the fault that stands, once, and re-arms nothing |
| Driver registry, conformance checks, command-line tools, specs | none after start | - | - | - | - |

`PROJECT.json` lists every part with its status, and under `hazards` every
place where the code is hard to test, with the properties that cover it.

## 2. Modules

| module | models | built on |
|---|---|---|
| `Hosting` | the server, its records and goroutines | - |
| `HardwareSessions` | abstract: what a driver is promised about Open and Close | - |
| `Mount` | telescope simulator, gates, handlers of the slews | - |
| `Settings` | adapter, submission handler, settings file, reload, restart | - |
| `Motion` | a leg of a move: where it is, whether it has arrived, going round a circle or straight | - |
| `Movers` | rotator, focuser, filter wheel and dome, with the gates of their members | EXTENDS `Motion` |
| `Panels` | cover calibrator, switch, weather station | - |
| `Exposure` | the camera and its gates | - |
| `ExposurePromise` | abstract: exposing, then an image of the rectangle that was exposed | - |
| `Operation` | `server.Op`, and a driver that uses it asynchronously | - |
| `Requests` | HTTP requests to one device of any of these kinds, while the clock runs | EXTENDS `Movers`, `Panels`, `Exposure`, `Operation`; refines `ExposurePromise` |
| `Discovery` | servers, heartbeats, the proxy's table, relay, a client's probe | - |
| `ImageCodec` | the two encodings of a frame and their decoders | - |
| `ProxyFaults` | replies, and what each fault makes of one | EXTENDS `ImageCodec` |
| `Transport` | clients, the fault proxy's store, the server's image handler, the tester | EXTENDS `ProxyFaults` |
| `MCHosting`, `MCMount`, `MCSettings`, `MCRequests`, `MCDiscovery`, `MCTransport` | instances for TLC | EXTENDS the above |
| `HostingProofs` | type, session and record invariants of `Hosting` | EXTENDS `Hosting`, TLAPS |
| `HostingPromiseProofs` | reloads are exclusive; nobody waits in a circle; the registry; replacement first; `Hosting` implements `HardwareSessions`; what a host must not overlap | EXTENDS `HostingProofs` |
| `HostingServedProofs` | the drain; what holds when only HTTP calls in: opens, sessions, settings | EXTENDS `HostingPromiseProofs` |
| `MountProofs` | types, parking with one client and with several, arrival, continuity | EXTENDS `Mount`, TLAPS |
| `SettingsProofs` | types and locks, pins, what may be saved, precedence | EXTENDS `Settings`, TLAPS |
| `RequestsProofs` | types, one worker, what each instrument reports, that the clock runs out and where it leaves them; the camera implements `ExposurePromise` | EXTENDS `Requests`, TLAPS |
| `DiscoveryProofs` | types, restarts, reachability, how long a server stays listed and when it is forgotten | EXTENDS `Discovery`, TLAPS |
| `TransportProofs` | types, the tester's store, the sink of a stream, the codec, what a call is told | EXTENDS `Transport`, TLAPS |

### 2.1 Hosting

State. A *record* is a `*registeredDevice`; records are numbered in the order
they are made, `devices[k]` is the record registered at address `k` (0: none)
and `order` is `s.order`. `data[r]` and `itab[r]` are the two words of the Go
interface value `rd.dev`, which a reader outside the lock can see half
written. `hw[r]` is the *session* (one successful `Open`) that `rd.hw` and
`rd.hwCancel` stand for. `sess` remembers what became of every session: whether
its hardware is open, whether its context is done, and whether that context
derives from `Run`'s or from the one a caller gave a `Reload` before `Run`
(`base` is the choice, made at the first section of `openHardwareFor`).
`CancelRun` ends `Run`'s context and every one derived from it, `CancelCaller`
a caller's. `settings[d]` is what came of loading a device's saved settings.

Goroutines. Each has a program counter `pc`, the call it is executing (`task`)
and its local variables: the record, device and session in hand, and what is
left of a snapshot of `s.order`. One action is one section under `Server.mu`, or
one call made outside it: `CheckOpen` / `OpenSucceeds` / `StoreHardware` are the
three parts of `openHardwareFor`, `TakeHardware` / `CancelHardware` /
`CloseHardware` those of `closeHardwareFor`, `LockReload` ... `UnlockReload`
those of `Reload`. `loadSettingsFor` is `LoadSettings` and `ApplySettings`: for
a `Doubtful` device the store may fail or the form refuse what it holds, which
the code logs before it opens the hardware with what the device had.
`RegisterConfigurable` runs after `Register`, and `Run` goes through `Start`,
three loops over a snapshot (settings, open, close), `Bind`, `StopServing` and
`Drained`. A driver's `Open` may fail, its reloader may fail or build a device
that does not fit its address, a listener may not bind.

Three environments are checked, because what holds depends on who calls. In
`served.cfg` everything is registered before `Run` and afterwards only reload
forms over HTTP call in. In `dynamic.cfg` the host itself registers, unregisters
and reloads at any time, as the API allows, and contexts end at any time. In
`registry.cfg` three addresses come and go under `Run`, reloads and requests,
without hardware.

### 2.2 Mount

The telescope is one record; every method holds `t.mu` for its whole body, so it
is a function from telescope to telescope. The clocks (`slewAge`, `axisAge`,
`rateAge`) are the time since `slewStart`, `axisStart` and `rateEpoch`; `Tick`
advances those that something reads. `Pointing`, `Settled`, `SettleRates`,
`SettleAxes` and `BeginSlew` are the helpers of the same name in the code, with
`currentRALocked` and `currentDecLocked` as `Pointing`.

A request is `Gate` (which calls `AtPark`, and so settles the mount, or reads
the tracking rate), then `Member`, then for a blocking slew `WaitSlewDone`, then
`SetTargets`; `ReadTarget` is the read of the stored targets that
`SlewToTarget` and its kin make in a section of their own. Other clients run
between any two of these. `waited` is how long a `waitSlewDone` has polled and
`Patience` its cap of 30 s: when they meet, the call returns whether or not the
mount has arrived.

Abstracted: angles are small integers, a slew moves one unit of each axis
per tick (so the rate that `WithSlewRate` sets decides how many units
`Patience` is good for), and stored values that no other member reads (site, optics, guide
rates, refraction, settle time, `SetPark`, `SyncToAltAz`) are left out.

### 2.3 Settings

`entry` is the admin's config file with the flags, `file` the settings file,
`adapters` the `StructConfig`s built since the process started, with the raw
entry they were built from and their current values, `serving` the one in use.
A submission is `Submit` (the handler picks the form and collects the values),
`ApplySettings` (under the adapter's lock: drop locked fields, parse and
validate the whole configuration, `Reconfigure`), `Persist` (read the values
back), `Save` and `Rename` or `SaveFails`. A reload is `Reload`, `Rebuild`,
`Swap`, `Load`, `ApplyLoaded`. `Crash` ends the process between any two;
`Boot` starts it; `EditConfig` is the admin's editor.

A value is a form string; its parsing, bounds and options are one set `Good[k]`
of accepted values per field, and what the device itself refuses is the set
`Refused` of configurations. A Configurable that a driver writes by hand saves
what was submitted, which is the same set of values, so it is not a case of its
own. The server's own form is not saved by the code and is not modelled.

### 2.4 Requests and the instruments

A simulator has no goroutine: a call records where and when a move began, and
the position is worked out when it is asked for. So each is a function of the
device, in `Motion`, `Movers`, `Panels` and `Exposure`: the device as built
(`NewDome`), the calls clients make with arguments on both sides of every bound
(`DomeCalls`), what the gates refuse (`DomeRefuses`), what a call does
(`DomeDoes`), what reads report (`DomeView`) and what they settle
(`SettledDome`). Time since a `time.Time` field is an age (`leg.age`) or what is
left of a fixed time (`shutterLeft`, `left`); `Tick` advances it while it matters.

`Requests` is the dispatch over them. `kind` is drawn once, so one run explores
nine kinds of device. `Arrive` is the connection check; `Get`, `Put` and
`BadRequest` are the three ways a call ends. Members that take more than one
call are steps of their own, with other clients in between: `SeeBin`,
`SeeStart`, `SeeNum` and `Expose` are `StartExposure` behind `validSubframe`,
`AskImage` and `GetImage` the image member, `BusyGate` and `Initiator` an
initiator of a driver that is `Busyable`. `AskImage` is the handler's check of
`ImageReady`, and `GetImage` has the camera's own, in `ImageFrame`; `handed` is
the frame of the image that a client was given last. `dirty` is a history
variable: the clients whose subframe check another client's write has overtaken.

A sensor's temperature runs from `Ambient` to the set point over `CoolTime`
ticks of a clock (`cooling`) that only `StartExposure` sets, whatever the camera
is doing: `CCDTemperature` changes while `CameraState` is idle. No member says
that it has been reached, so `StillWhenSaid` is about everything but it
(`Completed`); `Settles` includes that it is.

No driver in the repository is asynchronous, so `Operation` takes one from
outside, as `DRIVERS.md` describes it: its initiator uses `TryBegin` and leaves
the work to a goroutine, an interrupt cancels it, `Connect` goes through
`ConnectOp`.

Abstracted: angles and steps are small integers, an argument is drawn when it is
used, both axes of the camera are treated alike (one is run), names and
descriptions are left out.

### 2.5 Discovery

`Start` and `Stop` are a server process; nobody is told of either. `Register` is
the name resolution at start, `SendHeartbeats` the ticker's datagram, `Deliver`
(perhaps again) and `Lose` what the network does, `Record` the table's upsert by
identity (or by address for a device with none), `Live` the expiry on reading.
A probe that reaches the proxy is answered in two looks at the table:
`AnswerLocal` for the ports on its own host, `RelayRemote` for the others, whose
servers answer from their own address (`DiscoveryReply`) while their rate gate has
tokens. `ProxyRestart` forgets the table. `CloseWindow` is the client's deadline.
Two variables are history: `gone`, how long ago somebody last listened at an
address, and `fresh`, the servers of which a heartbeat was recorded since they
started while none was under way from a place they had left.

The clock ticks in heartbeat intervals, and only when no timer is due and no
datagram is older than `MaxDelay`. Left out: IPv6 and the choice of interfaces,
and a dial that fails after `relayPeer` is stored (the server then answers relays
that never come, because it sends no heartbeat).

### 2.6 Transport

`ImageCodec` is the arithmetic: `TransposeInto` band by band as the goroutines
share it, ImageBytes and the JSON array, and the two decoders. A pixel is a
number; element widths are left out.

`ProxyFaults` gives, for a reply and a fault, the set of replies the proxy may
produce: its percentage, count or header field is drawn, and a frame is cut or
overwritten in units of one pixel. `form` tells how the body still parses, `cut`
whether it ends before its `Content-Length`.

`Transport` is the interleaving. A call is `Ask`, `PreForward` (toggles that
reset the connection), `Withhold` (faults that keep the request), `Serve` (the
Director's edits and the server), `ReadFault` and `Modify` (the proxy looks the
fault up, and later counts in it), then `Receive`, or for a stream `EndEarly`,
`OpenSink`, `WriteSink`. `HangCap` and `GiveUp` are the timeouts. The tester's
`ArmMember`, `SetToggle` and `Clear` run at any time. The clients share one
`Device`, and with it `noStream`, the refusal that is cached.

`campaign` is drawn once from a small set: who asks for what, which faults the
tester sets on which members, and how often. `fired`, `calm` and `disturbed` are
history variables for the properties. Left out: latency and jitter, which only
take time, advertising, and the choice of the upstream. A client that gives up
ends its request; what the server does with it after that changes nothing here.

## 3. Runs

| run | instance and bounds | what it shows |
|---|---|---|
| `hosting_served` | 2 addresses, 4 devices (one whose settings may not load), 2 reload handlers, 4 sessions, with fairness | with the devices registered before `Run`: hardware at an address is closed before its replacement opens, a device's settings are dealt with before its hardware opens and never afterwards, no open hardware is lost, all of it is closed when `Run` returns, and only after the requests have drained; cancelling `Run`'s context ends `Run`, and a `Reload` that waits gets its turn and returns |
| `hosting_registry` | 3 addresses (2 in use before `Run`), 3 devices, 3 records, 1 host goroutine, 1 reload handler, 1 API request, no hardware | whoever registers, unregisters, or walks a snapshot: the map and the order hold the same records, each at its address, oldest first |
| `hosting_dynamic` | 1 address, 3 devices (one that does not fit), 2 host goroutines, 2 records, 2 sessions; the drain may time out | whatever the host calls and when: a session is in one pair of hands, a record holds only open hardware, whose context lives while `Run`'s does, reloads of a record exclude one another, a reload takes the old hardware only for a replacement, and `Hosting` implements `HardwareSessions` |
| `hosting_torn` | 1 reload, 1 request | **violated**: a request can see half of each device during a swap |
| `mount` | 1 client, every member, RA circle of 3, declination 0..1, an axis or offset runs 1 tick between calls, a wait of 1 tick where a slew may need 2 | a parked mount is still, only `Unpark` unparks, a synchronous slew returns on target or, after the full wait, on its way there, position is continuous (drift is folded in once) |
| `mount_park` | as above, 1 target | **violated**: a mount can be parked away from the pole |
| `mount_jump` | as above | **violated**: changing the rate of a moving axis counts its drift twice |
| `settings` | 3 fields (bounded number, secret, start-only), 5 submissions, 3 config files, 2 handlers, 2 forms built between two starts | pins stay out of the file, only accepted configurations are saved and the file is never torn, locks are released on every path, and at rest the form in use is what the precedence rule says |
| `settings_secret` | 1 handler | **violated**: a submission that leaves a secret untouched clears it |
| `instruments` | 9 kinds of device, 2 clients of the camera and the driver and 1 of the others, circle of 6, travel of 2, sensor of 2, bins to 2, cooling in 2 ticks, 2 goroutines of a kind | positions change by time only, a unit a tick; a device that says it is still shows no change but a sensor's temperature; a dome says parked or home only at 0; a cover is open or closed only after it has travelled; whatever is sent somewhere gets there; the camera implements `ExposurePromise`, exposes the rectangle that was checked, and hands out only images that are ready; initiators that pass the busy check together start one worker |
| `discovery` | 1 server on the proxy's host or on another, in either mode, 2 ports, 2 heartbeats under way, TTL of 2, delay of 1, window of 1, burst of 1 | a client finds only where somebody listened no longer ago than a registration lives; a restarted server is announced only where it is once one of its heartbeats is recorded that no older one can follow; a server that stays up is listed again and again, one that stays down is forgotten |
| `transport` | 2 frames (3x2 mono, 1x2 with 2 planes), 2 workers, 3 campaigns: any one fault; up to three faults of six kinds together; 2 clients on counted faults re-armed once | what no harmful fault has touched arrives as served, by both transports; a sink is closed exactly once if it was opened, wherever the transfer fails; requests in flight leave the tester's store alone but for one count |

Why the bounds are enough. *Hosting*: the hazards are races of two callers over
one record; two goroutines on the record, a second address (to tell "at one
address" from "anywhere") and one session more than addresses give every pair
of overlapping calls, and a third caller adds only more of the same pairs. The
registry has three records, so that one can leave from the middle of the order;
hardware, which the registry does not look at, is left out of that run. A device object is built once, so the number of devices bounds the
number of reloads. *Mount*: every formula is about the change from one call
to the next; two ticks of a slew, one of an axis, an offset of 0 or 1 and a
declination that reaches its stop exercise the wrap, the clamp, the arrival and the
way in between; of the slews some fit in the wait and some do not. *Settings*: two overlapping calls, and two forms so that a
submission can hold the one that a reload has replaced; the crash is never
bounded. *Instruments*: a device is one record under one mutex, so one client
gives every order of calls; two are needed where a request is several sections
(the camera) or the device has a goroutine (the driver). A circle of 6 has two
half-turns and a seam, the shutter's and the cover's 2 ticks have a middle, and
arguments go one beyond each bound. *Discovery*: a server meets its own past (an
old heartbeat, an old port, an old registration); two heartbeats and two ports give
the overtaking, a TTL of 2 leaves one of them to be lost. Servers share only the
table, by keys of their own. *Transport*: a frame that is not square, an odd number
of rows so that 2 workers get bands of different heights, and two clients with
one re-arming so that a count meets a fault that is not the one that was read.

Deadlock is checked in `mount`, `settings` and the three runs above. In `Hosting` the server ends, so
`CHECK_DEADLOCK FALSE` there; that it ends only when it should is
`ShutdownCompletes` and `ReloadsReturn`.

Fairness (`FairSpec`, used only by `hosting_served`): a goroutine that can take a
step takes one (weak fairness of its own steps: the Go scheduler, and drivers
whose `Open` and `Close` return); a goroutine that waits for `reloadMu` gets it
in the end (strong fairness of `LockReload`: `sync.Mutex` hands over after 1 ms
of waiting). Nothing is assumed of callers: no one must ever call, cancel
`Run`, or have `Open` succeed. `StopServing` is fair only when the context is
cancelled, not for a listener that might fail.

`Requests` assumes that the clock does not stop, and nothing of clients:
`Settles` speaks of runs in which they only read from some point on. `Discovery`
assumes that goroutines and timers get their turn (weak fairness of `Register`,
`SendHeartbeats`, `Tick`; of `CloseWindow`, the client's deadline), that a datagram past its time is gone,
and that the network does not lose every heartbeat of a server for ever (strong
fairness of its delivery), without which no protocol converges. `Transport` has
no fairness: it has only safety properties.

`Precedence` is stated for a state in which the last call that changed the form or the file
overlapped no other and could save (`clean`, a history variable). Without that
it fails, in two ways the code accepts: a failed save leaves the change applied
(the page says so), and overlapping submissions, or one that overlaps
a reload, can save in the other order or apply to a form that is
no longer in use. The hazards list both.

Every property has a mutant in `PROJECT.json`: a form of one definition with a
plausible bug, under which the same run finds the property violated. The
mutated definitions stand in the modules, marked "Seeded fault".

## 4. Proofs

| theorem | module | establishes |
|---|---|---|
| `TypeCorrect` | `HostingProofs` | `Spec => []TypeOK` |
| `HeldOnce` | `HostingProofs` | `Spec => []SessionHeldOnce` |
| `RecordedRegulated` | `HostingProofs` | `Spec => []RegulatedWhileRunning` |
| `ReloadsExclusive` | `HostingPromiseProofs` | `Spec => []ReloadExclusive` |
| `Implements` | `HostingPromiseProofs` | `Spec => SessionsAsPromised`: `Hosting` implements `HardwareSessions` |
| `RegistryConsistent` | `HostingPromiseProofs` | `Spec => []RegistryAgrees` |
| `ReplacedNotDropped` | `HostingPromiseProofs` | `Spec => ReplacementFirst` |
| `NobodyStuck` | `HostingPromiseProofs` | `Spec => []SomebodyMoves`: whoever waits for `Server.mu`, a `reloadMu` or `Shutdown`, somebody who waits for none can go on |
| `HostsApart` | `HostingPromiseProofs` | with no `OpensAcross` and no `TakesAcross` step: `[]OneOpenPerAddress`, and everything open can be found |
| `DrainedFirst` | `HostingServedProofs` | if `DrainTimesOut = FALSE`: `Spec => []DrainedBeforeClose` |
| `OneOpen` | `HostingServedProofs` | if `ServedOnly`: `Spec => []OneOpenPerAddress` |
| `NothingLost` | `HostingServedProofs` | if `ServedOnly`: `Spec => []NoLostSession` |
| `AllClosed` | `HostingServedProofs` | if `ServedOnly`: `Spec => []ClosedWhenStopped` |
| `SettingsFirst` | `HostingServedProofs` | if `ServedOnly`: `Spec => []SettingsBeforeOpen` |
| `TypeCorrect` | `MountProofs` | `Spec => []TypeOK` |
| `ParkedStaysStill` | `MountProofs` | if `OneClient`: `Spec => []ParkedIsStill` |
| `UnparkUnparks` | `MountProofs` | if `OneClient`: `Spec => OnlyUnparkUnparks` |
| `SlewsArrive` | `MountProofs` | if `OneClient`: `Spec => SlewArrives` |
| `ParkHolds` | `MountProofs` | with no `Overtaken` request: `[]ParkedIsStill /\ OnlyUnparkUnparks`, for any number of clients |
| `OnlyTheOvertakenStir` | `MountProofs` | `Spec =>` every step that stirs a parked mount is an `Overtaken` request |
| `PointingContinuous` | `MountProofs` | `Spec => Continuous` |
| `TypeCorrect` | `SettingsProofs` | `Spec => []TypeOK`: types, and each lock is held exactly in its section |
| `PinsNeverLeak` | `SettingsProofs` | `Spec => []PinsStayOut` |
| `SavedWasAccepted` | `SettingsProofs` | `Spec => []AcceptedOnly` |
| `PrecedenceKept` | `SettingsProofs` | `Spec => []Precedence` |
| `TypeCorrect` | `RequestsProofs` | `Spec => []TypeOK` |
| `OneWorkerAtATime` | `RequestsProofs` | `Spec => []OneWorker` |
| `PositionsContinuous` | `RequestsProofs` | `Spec => NoTeleport` |
| `StillMeansStill` | `RequestsProofs` | `Spec => StillWhenSaid` |
| `ParkedAndHomeTrue` | `RequestsProofs` | `Spec => ParkAndHomeAtZero` |
| `CoverTravels` | `RequestsProofs` | `Spec => CoverKnown` |
| `CameraImplements` | `RequestsProofs` | `Spec => CameraAsPromised`: the camera implements `ExposurePromise` |
| `FramesFit` | `RequestsProofs` | `Spec => FrameFits` |
| `ClockRunsOut` | `RequestsProofs` | each tick takes from the time a device has left, no read gives any back |
| `RestsWhereSent` | `RequestsProofs` | a device that time no longer changes is `AtRest`: where it was sent, and says so |
| `RestLasts` | `RequestsProofs` | time and reads leave such a device as it is |
| `TypeCorrect` | `DiscoveryProofs` | `Spec => []TypeOK` |
| `RestartedOnce` | `DiscoveryProofs` | `Spec => []RestartReplaces` |
| `FoundIsReachable` | `DiscoveryProofs` | `Spec => []Reachable` |
| `Forgotten` | `DiscoveryProofs` | what is known of a server that is down never grows, fades with each tick and is gone after `TTL + 1 + MaxDelay` |
| `ListedStays` | `DiscoveryProofs` | a listed server with an identity is dropped only by its own restart, age, the proxy's restart or its own late heartbeat |
| `TypeCorrect` | `TransportProofs` | `Spec => []TypeOK` |
| `PatternsCounted` | `TransportProofs` | `Spec => PatternsCount` |
| `SinkKept` | `TransportProofs` | `Spec => []SinkContract` |
| `AnsweredAsServed` | `TransportProofs` | `Spec => []AsServed` |
| `FramesRoundTrip` | `TransportProofs` | a frame comes out of either transport as it went in |

### Assumptions

No bound on the numbers of goroutines, addresses, devices, fields, handlers,
clients or servers is assumed anywhere.

- `Hosting`: `ThreadsDiffer` (the runner is not a handler, host goroutines are
  not API handlers), `DevicesTyped` (nil is no device, every device has a type),
  `BootIsARegistration` (the devices registered before `Run` have addresses of
  their own). `DrainedFirst` has the hypothesis that `Shutdown` returns because
  its handlers have, not because 5 seconds are over. The other theorems of
  `HostingServedProofs` have the hypothesis `ServedOnly`, which adds what
  `served.cfg` says: no goroutine of the host calls the server once it runs.
  Without it, a `Register` that falls between `Run`'s publication of `runCtx` and
  its open loop opens a device twice. `HostsApart` is for any host: its hypothesis
  is about the execution, and names the two steps that a host would have to
  avoid, since no lock of the server does (`OpensAcross`, `TakesAcross`).
- `Mount`: `Geometry` (the circle and the pole are positive, targets are
  coordinates). Three theorems have the hypothesis `OneClient`: with two, a park
  that completes between another's gate and member breaks what they say (5).
  `ParkHolds` needs only that no such step (`Overtaken`) is taken, whoever the
  clients are, and `OnlyTheOvertakenStir` needs nothing.
- `Settings`: `Forms` (fields, values and files are what their names say).
- `Requests`: the assumptions of the modules it extends, which give each range
  of a device an end above 0, and `RequestAssumption`.
- `Discovery`: `DiscoveryAssumption` (the proxy's host is a host; times and
  bounds are numbers, those that would stop everything at 0 are above it).
- `Transport`: `PatternsCounted` and `SinkKept` need none. The others need
  `TransportAssumption`, of which `Whole` says what a driver's frame is (rank 2
  or 3, and as many pixels as its dimensions say, which is what
  `writeImageArrayJSON` checks before it serves one), and `WorkersAssumption`,
  that somebody transposes.

### Arguments

`Hosting`. `TypeOK` is not inductive: that `StoreHardware` writes a session into
a record needs that the goroutine has a record and a session in hand, which
depends on its `pc`. `LocalInv` states, for each step a goroutine can be at,
which of its local variables are set; `TypeInv == TypeOK /\ LocalInv` is
inductive. `SessionInv` adds who may hold a session: it is `none` beyond
`opens`, open or cancelled in a goroutine's hands according to the step it is
at, open on a record, and never in two places; each action hands a session from
one place to another, so the proof has one step per action and under it one per
place. `SessionHeldOnce` and `RegulatedWhileRunning` follow (a
context that derives from `Run`'s is done only if `Run`'s is, or once its session has
left its record), and the refinement: `OpenSucceeds` is `Open`, of a context
that may be done from the start; `CancelHardware`, `CancelRun` and
`CancelCaller` are `Cancel` of one session or of many; `CloseHardware` is
`Close`, and every other action a stutter. `HolderInv` (a goroutine inside
`Reload` holds `reloadMu` of the record in its hand) gives `ReloadExclusive`.
`WaitInv` says that a held lock has a holder inside the section it guards. Who
holds `Server.mu` is between the two words of a swap and waits for nothing; who
holds a `reloadMu` waits at most for `Server.mu`; `Run` waits in `Drained` only for
handlers: so every chain of waiting ends, which is `NobodyStuck`.
`RegistryInv` says that `order` lists exactly the records `devices` holds
(`Listed`), oldest first, each at the address it was registered at; a removal
from the middle of a sequence is the step that needs work. `FreshInv` says that
a goroutine of a reload that takes hardware has a device in hand which its
reloader built, and which no record and no other reload has.

`Hosting`, while a host calls in. `openHardwareFor` and `closeHardwareFor` are
three sections each, so `OneOpenPerAddress` is not an invariant of `Spec`.
`HostsApart` names the steps that break it. `OpensAcross` is an open that goes on
although its record was unregistered, or while another goroutine has hardware of
the address in hand or is about to take it; `TakesAcross` is an `Unregister` that
passes a record that is being opened. In an execution without them `ApartInv` is
inductive: at each address there is one goroutine with hardware in hand or one
record with hardware, and such a record is listed or an `Unregister` is about to
visit it. Then one device is open per address, and everything open is with a
goroutine, on a listed record, or about to be taken (`Findable`): nothing open
is lost. Neither condition can be dropped: without the first, `Run` and a
`Register` open one device twice (5); without the second, an `Unregister` finds no
hardware on a record that is being opened, the open stores some there that
nobody takes any more, and the next `Register` at the address opens beside it.

`Hosting`, served. `HandlersInv` is what `DrainedFirst` needs, whatever the host
does: the listeners open after `Run`'s open loop, and its close loop begins
when no handler is left. The others: the registry is what it was at boot (`Static`). `PhaseInv`
says where each goroutine can be: handlers work only while the server serves or
drains, `Run`'s loops only before or after, so `Run` meets no handler.
`HolderInv` and `PhaseInv` together leave one goroutine to work on a record at a
time; `HwInv` says that a record has no hardware while that goroutine opens
some, and that each open session is on a record or with that goroutine.
`StopInv` says that what is still open when `Run` ends waits in `Run`'s last
loop. `SettingsFirst` says two things. `SettingsInv` says that a device reaches
an open only through the step that loads its settings. That no settings reach an
open device rests on where that step is: `Run`'s settings loop is over before
anything is open, and the device of a reload is new, of no record and no
session (`ServesInv`: an open session is of the device that its record serves,
and records serve different ones).

`Mount`. `StillWhenParked` is the strengthening that makes `ParkedIsStill`
inductive: a parked mount does not track either, and a slew that will park is
not overlaid by a moving axis; `GateHolds` says that a pending call whose gate
asked `AtPark` finds the mount unparked. `StirStep` shows call by call that the only step
which breaks `StillWhenParked` is that of a request which finds parked a mount its
gate saw unparked (`Overtaken`); a client alone cannot be overtaken, which is
`GateHolds`, so the theorems for one client follow from those for several. `OnItsWay` says that a slew somebody
waits for is still the one he asked for, and has run for as long as he has
waited, or has arrived; a slew of no more units than the wait has ticks is
therefore over when the wait is. `Continuous` is shown
call by call: a call that takes drift into `start` does so at the place the
mount points to, and sets the clock it has counted back to 0
(`SettleRatesFields` and its kin).

`Settings`. `TypeOK` together with what each step has in hand is inductive.
`PinsStayOut` needs that no value only the admin can give is in any handler's
hands either, neither posted nor about to be saved; `AcceptedOnly` needs that
every form a submission was accepted by holds an acceptable configuration and
every set of values about to be saved is a part of one. `Precedence` needs three
facts of `PrecInv`: a locked value is in every adapter what it was built with;
the handler whose change is alone has in hand what the form in use holds, at
each of its steps, while the others are idle; and unless a handler is between a
change and its save, the form agrees with the file and the entry it was built
from.

`Requests`. `DriverInv` says what a driver's record is, that requests to it are
only at the steps of a driver, and that `workers` is 1 while `op` is busy: an
initiator that finds it idle therefore finds no worker. The others rest on
`TypeInv`, which has for each device what its fields can be together (`Fits`: a
leg's ends are in range, a dome that says home or parked is under way to 0 if
anywhere, a cover that has time left is moving, an exposure that has time left
has not ended), and on `DeviceMoves`: whatever the request, one step settles the
device, makes one call on it, or lets time pass. What a call does to what
clients see is a lemma per device. A leg that has ended starts where it was sent (`Ended`),
so `TimeLeft`, the sum of what the legs, the shutter, the lamp, the exposure and the
sensor of a device still need, is 0 only where it was sent. It falls with each tick and no read
raises it: this is the part of `Settles` that needs no fairness. `SeenInv` says that what a subframe check has
read so far still holds, for clients nobody has overtaken.

`Discovery`. `OneRegistration`: two entries of one server with an identity are
one. `FreshInv`: of a server that is `fresh` no heartbeat is under way from
elsewhere than where it is, so that the one that made it so cannot be followed by an
older one; with the other, that is `RestartedOnce`. `ReachInv` follows an address from the socket outwards: a heartbeat is no
younger than the time since its sender listened, an entry no younger than the
heartbeat that made it, and an answer no younger than the entry; each hop adds
what it may keep it (`MaxDelay`, `TTL`, the window), and the sum is the bound of
`Reachable`. `LivesAtMost` says how long what the network and the table hold of a
server can still be there; its three facts in `Forgotten`, with `ListedStays`, are the
part of `Converges` that needs no fairness.

`Transport`. `PatternsCounted` rests on `nextCount` looking at the member's
entry again under the lock: a cleared entry is left alone and counts 0, at which
nothing strikes; the invariant is only that the store holds faults.
`SinkContract` is not inductive, because it does not say that a sink is
untouched while its call is still on its way; `SinkInv` says for each stage of a
call what its sink has seen, and each action is a lemma that its record fits.
`AsServed` needs the codec: `Across` is the place of a pixel in the transposed
grid, the bands of the goroutines cover the grid whatever their number and each
writes a pixel where `Across` says (`TransposeIs`), and what one side transposes
the other undoes (`TurnedTwice`). `ServedInv` then says of a call that met no
harmful fault that no such fault stands while it is under way, that its reply is
the one the server made, and of a stream that what the sink has, followed by
what is still to come, is the frame; and that while no fault has disturbed a
stream, none has stood beside one, so that none is refused.

What stays with TLC: liveness (`ShutdownCompletes`, `ReloadsReturn`, `Settles`,
`Converges`: the prover has no rule for fairness or ENABLED). What each rests on
is proved for every instance: nobody waits in a circle (`NobodyStuck`), the clock
runs out and leaves a device where it was sent (`ClockRunsOut`,
`RestsWhereSent`, `RestLasts`), registrations fade and nothing else drops
them (`Forgotten`, `ListedStays`). Every other
property of the passing runs is also a theorem; those with a hypothesis are
claimed, and checked, only under it.

## 5. What the code does and its documents do not say

1. `server/reload.go:44` says requests during a swap see one device or the
   other, whole. `lookup` reads `rd.dev` after releasing the lock, and an
   interface value is two words (`hosting_torn`).
2. `Park` at the pole leaves `parkOnArrive` set; after `Unpark` the next slew
   ends parked, wherever it ends (`mount_park`).
3. `MoveAxis` on a moving axis adds the drift so far twice (`mount_jump`).
4. An untouched secret is posted blank and overwrites the stored one
   (`settings_secret`).

Others were met while modelling and have no run of their own:

- `server/server.go:419,430` says hardware is opened once. `openHardwareFor`
  checks, opens and stores in three sections, and `Run` publishes `runCtx`
  before it opens, so a `Register` in between opens the same device.
  `OneOpenPerAddress` is therefore claimed for devices registered before `Run`,
  and otherwise for executions without the steps that `HostsApart` names.
- `server/server.go:420` says regulation persists until the very end, and
  `server.go:611` that the context given to `Open` lasts until the device is
  closed. That context derives from `Run`'s, which is cancelled before the drain:
  a driver that regulates under it stops while handlers still use the device, up
  to its `Close`. What holds is `RegulatedWhileRunning`.
- `server/server.go:550-553,576-578`: settings that do not load, or that the
  device refuses, are logged, and the hardware is opened with what the device
  had. `SettingsBeforeOpen` is therefore about when they are loaded, and says
  nothing about whether they were accepted.
- `sim/telescope.go:419-421` says a synchronous slew returns with the mount at
  the target. `waitSlewDone` gives up after 30 s, and with a slow `WithSlewRate` a
  slew takes longer; `SlewArrives` says how long one may be.
- A heartbeat of a server's previous life that arrives late puts the old place
  back in the proxy's table, until the next of the new life. `RestartReplaces` is
  about what follows once no such heartbeat is under way.
- A gate reads `AtPark` in one call and the member acts in another: with two
  clients, a park that completes in between leaves a parked mount tracking or
  moving. `ParkedIsStill` is therefore claimed for one client, and
  for several while no request is so overtaken (`ParkHolds`); nothing else
  breaks it (`OnlyTheOvertakenStir`).
- `client/imagestream.go:71` says device errors are preserved.
  `streamRefusedJSON` ignores a failing read, so a device error whose reply is cut
  off is taken for a refusal, and the refusal is cached.

## 6. What is left

Modelled since the first plan: the dispatch and the asynchronous helpers
(`Requests`, `Operation`), the other simulators (`Motion`, `Movers`, `Panels`,
`Exposure`), discovery, the image transport and the fault proxy.

Still worth doing, in this order:

1. `Settings`: hidden fields, the front-end's copy of the device, the actions
   console, and what a form should do about a locked value out of range.
2. `Discovery` with two servers that share a host, for devices without an
   identity that take over each other's port.
3. Theorems: what `HostsApart` does for `OneOpenPerAddress`, for `SettingsBeforeOpen`
   and `ClosedWhenStopped`: the steps between which they hold when a host registers
   and unregisters while the server runs.

Not modelled: `Supervise` and `RunLoop` (nothing in the repository calls them; what
a loop does when its stop has timed out is the driver's), transaction ids,
page rendering and flag parsing (layout and wording), the safety monitor (one value
that clients cannot change), the driver registry (no state after start), the
conformance checks (a test suite), `cmd/alpacasim` and `cmd/alpacadiscover` (glue),
the vendored API schemas.
