------------------------------- MODULE Hosting -------------------------------
(***************************************************************************)
(* The server that owns the devices (server/server.go, server/reload.go).  *)
(*                                                                         *)
(* A registration record (Go: *registeredDevice) ties an address (type and *)
(* number) to a device object, its setup form, the hardware its Open       *)
(* succeeded on, and a reloader.  Five kinds of goroutine work on the      *)
(* records at once: Run (one), the host's own goroutines, handlers of the  *)
(* setup page's reload form, device-API requests, and whatever the host    *)
(* calls ReloadAll from (devicemain: SIGHUP).  Every action is one section *)
(* under Server.mu, or one call made outside it: Open, Close, the          *)
(* reloader, applying settings.  What a caller read in an earlier section  *)
(* it carries in its own variables and may use when it is no longer true.  *)
(*                                                                         *)
(* A hardware session is one successful Open: the pair (hw, hwCancel) that *)
(* openHardwareFor stores on the record.                                   *)
(***************************************************************************)
EXTENDS Integers, Sequences, SequencesExt

CONSTANTS
  Keys,          \* addresses: device type and number
  Devs,          \* device objects; each is constructed once
  NoDev,         \* a nil device
  Types,         \* concrete Go types of the device objects
  TypeOf,        \* [Devs -> Types]
  Misfits,       \* devices that lack the typed interface of their address
  HardwareDevs,  \* devices that implement Hardware
  OwnForm,       \* devices that implement Configurable themselves
  Doubtful,      \* devices whose persisted settings may fail to load or be refused
  Runner,        \* the goroutine that calls Run
  HostThreads,   \* host goroutines: Register, Unregister, Reload, ...
  SetupThreads,  \* handlers of the setup page's reload form
  ApiThreads,    \* handlers of device-API requests
  NoThread,
  BootKey,       \* BootKey[i]: the address of the i-th device registered ...
  BootDev,       \* ... before Run, and the device
  MaxRegs,       \* bound: registration records ever made
  MaxSessions,   \* bound: successful Opens
  DrainTimesOut  \* whether http.Shutdown may give up after its 5 seconds

Threads  == {Runner} \union HostThreads \union SetupThreads \union ApiThreads
Regs     == 1..MaxRegs
Sessions == 1..MaxSessions
BootRegs == DOMAIN BootKey

\* What the goroutines are: Runner calls Run, the others do not overlap.
ASSUME ThreadsDiffer ==
  /\ Runner \notin HostThreads \union SetupThreads \union ApiThreads
  /\ NoThread \notin Threads
  /\ HostThreads \intersect SetupThreads = {}
  /\ (HostThreads \union SetupThreads) \intersect ApiThreads = {}

\* Devices are objects with one concrete type each.
ASSUME DevicesTyped ==
  /\ NoDev \notin Devs
  /\ TypeOf \in [Devs -> Types]

\* The host registered the boot devices, each once, at addresses of their own.
ASSUME BootIsARegistration ==
  /\ Keys # {} /\ MaxRegs \in Nat /\ MaxSessions \in Nat
  /\ \E n \in 0..MaxRegs : BootKey \in [1..n -> Keys] /\ BootDev \in [1..n -> Devs \ Misfits]
  /\ \A i, j \in DOMAIN BootKey : i # j => BootKey[i] # BootKey[j] /\ BootDev[i] # BootDev[j]
  /\ DrainTimesOut \in BOOLEAN

VARIABLES
  \* The server, under Server.mu
  devices,    \* s.devices: address -> record, 0 for none
  order,      \* s.order: records in registration order
  runCtx,     \* s.runCtx: "unset", "live" or "cancelled"
  mu,         \* who holds Server.mu across more than one action (Reload's swap)
  \* The records
  made,       \* records made so far: 1..made
  keyOf,      \* rd.typ, rd.num
  itab, data, \* rd.dev: the two words of a Go interface value
  cfg,        \* rd.cfg: the device whose form was attached, or NoDev
  hw,         \* rd.hw and rd.hwCancel: a session, 0 for nil
  reloader,   \* whether rd.reloader is set
  reloadMu,   \* rd.reloadMu: its holder
  \* The devices
  used,       \* device objects constructed so far
  settings,   \* what came of loading a device's persisted settings
  sess,       \* sessions: record, device, state of hardware and context, and
              \* whether the context derives from Run's (else from a caller's)
  opens,      \* sessions so far: 1..opens
  listening,  \* the HTTP listener accepts requests
  \* The goroutines
  pc, task,   \* the next step, and the call it is part of
  rd,         \* the record in hand
  obj,        \* the device in hand
  tok,        \* the session in hand
  base,       \* whether the context it opens under derives from Run's
  queue,      \* what is left of a snapshot of s.order
  handle      \* a request's copy of rd.dev

serverVars == <<devices, order, runCtx, mu>>
deviceVars == <<itab, data, cfg>>
recordVars == <<made, keyOf, itab, data, cfg, hw, reloader, reloadMu>>
hwVars     == <<used, settings, sess, opens>>
localVars  == <<task, rd, obj, tok, base, queue, handle>>
vars == <<serverVars, recordVars, hwVars, listening, pc, localVars>>

-----------------------------------------------------------------------------
(* Helpers *)

Steps == {"idle", "start", "snapshot", "next", "load", "apply", "check", "open", "store",
          "take", "cancel", "close", "bind", "serve", "drain", "stopped", "return",
          "lock", "rebuild", "swap", "swapped", "unlock", "readItab", "readData", "call"}

Tasks == {"none", "settings", "boot", "stop", "register", "unregister", "configure", "reload", "request"}

Unlocked == mu = NoThread

Goto(t, step) == pc' = [pc EXCEPT ![t] = step]

Move(t, from, to) == pc[t] = from /\ Goto(t, to)

\* The device whose setup form configurableFor finds on record r.
FormOf(r) == IF data[r] \in OwnForm THEN data[r] ELSE cfg[r]

\* Where a caller of loadSettingsFor, openHardwareFor and closeHardwareFor goes on.
AfterLoad(k)  == CASE k = "settings" -> "next" [] k = "configure" -> "return" [] OTHER -> "check"
AfterOpen(k)  == CASE k = "boot" -> "next" [] k = "reload" -> "unlock" [] OTHER -> "return"
AfterClose(k) == CASE k = "stop" -> "next" [] k = "reload" -> "swap" [] OTHER -> "return"

\* implementsType: d has the typed interface of its address.
ImplementsType(d) == d \notin Misfits

\* The type word of an interface value that holds d.
ItabOf(d) == IF d = NoDev THEN NoDev ELSE TypeOf[d]

NoHandle == [itab |-> NoDev, data |-> NoDev]

Open(s) == sess[s].st \in {"open", "cancelled"}

-----------------------------------------------------------------------------
(* The initial state: New, then the host's Register, RegisterConfigurable   *)
(* and SetReloader calls for the boot devices.                              *)

Init ==
  /\ devices = [k \in Keys |-> IF \E r \in BootRegs : BootKey[r] = k
                               THEN CHOOSE r \in BootRegs : BootKey[r] = k ELSE 0]
  /\ order = [r \in BootRegs |-> r]
  /\ runCtx = "unset" /\ mu = NoThread /\ listening = FALSE
  /\ made = Len(BootKey)
  /\ keyOf    = [r \in Regs |-> IF r \in BootRegs THEN BootKey[r] ELSE CHOOSE k \in Keys : TRUE]
  /\ data     = [r \in Regs |-> IF r \in BootRegs THEN BootDev[r] ELSE NoDev]
  /\ itab     = [r \in Regs |-> ItabOf(data[r])]
  /\ cfg      = data
  /\ hw       = [r \in Regs |-> 0]
  /\ reloader = [r \in Regs |-> r \in BootRegs]
  /\ reloadMu = [r \in Regs |-> NoThread]
  /\ used = {BootDev[r] : r \in BootRegs} /\ settings = [d \in Devs |-> "unread"]
  /\ sess = [s \in Sessions |-> [reg |-> 0, dev |-> NoDev, st |-> "none", run |-> FALSE]] /\ opens = 0
  /\ pc     = [t \in Threads |-> IF t = Runner THEN "start" ELSE "idle"]
  /\ task   = [t \in Threads |-> "none"]
  /\ rd     = [t \in Threads |-> 0]
  /\ obj    = [t \in Threads |-> NoDev]
  /\ tok    = [t \in Threads |-> 0]
  /\ base   = [t \in Threads |-> FALSE]
  /\ queue  = [t \in Threads |-> <<>>]
  /\ handle = [t \in Threads |-> NoHandle]

-----------------------------------------------------------------------------
(* Calls of the host *)

\* Seeded fault: the address is not looked up before the record is stored.
Register_Overwrites(t, k, d) ==
  /\ pc[t] = "idle" /\ Unlocked
  /\ d \notin used /\ ImplementsType(d) /\ made < MaxRegs
  /\ made' = made + 1
  /\ keyOf' = [keyOf EXCEPT ![made + 1] = k]
  /\ data' = [data EXCEPT ![made + 1] = d] /\ itab' = [itab EXCEPT ![made + 1] = ItabOf(d)]
  /\ devices' = [devices EXCEPT ![k] = made + 1]
  /\ order' = Append(order, made + 1)
  /\ rd' = [rd EXCEPT ![t] = made + 1]
  /\ used' = used \union {d}
  /\ task' = [task EXCEPT ![t] = "register"]
  /\ Goto(t, IF runCtx = "unset" THEN "return" ELSE "load")
  /\ UNCHANGED <<runCtx, mu, cfg, hw, reloader, reloadMu, settings, sess, opens, listening,
                 obj, tok, base, queue, handle>>

\* Register: a device that fits goes under a free address; on a server that
\* has run, its settings load and its hardware opens in the same call.
Register(t, k, d) ==
  /\ pc[t] = "idle" /\ Unlocked
  /\ d \notin used /\ ImplementsType(d) /\ devices[k] = 0 /\ made < MaxRegs
  /\ LET r == made + 1 IN
       /\ made' = r
       /\ keyOf' = [keyOf EXCEPT ![r] = k]
       /\ data' = [data EXCEPT ![r] = d] /\ itab' = [itab EXCEPT ![r] = ItabOf(d)]
       /\ devices' = [devices EXCEPT ![k] = r]
       /\ order' = Append(order, r)
       /\ rd' = [rd EXCEPT ![t] = r]
  /\ used' = used \union {d}
  /\ task' = [task EXCEPT ![t] = "register"]
  /\ Goto(t, IF runCtx = "unset" THEN "return" ELSE "load")
  /\ UNCHANGED <<runCtx, mu, cfg, hw, reloader, reloadMu, settings, sess, opens, listening,
                 obj, tok, base, queue, handle>>

\* Unregister: the record leaves both indexes under one lock; its hardware is
\* closed after the lock is gone.
Unregister(t, k) ==
  /\ pc[t] = "idle" /\ Unlocked /\ devices[k] # 0
  /\ rd' = [rd EXCEPT ![t] = devices[k]]
  /\ devices' = [devices EXCEPT ![k] = 0]
  /\ \E i \in DOMAIN order : order[i] = devices[k] /\ order' = RemoveAt(order, i)
  /\ task' = [task EXCEPT ![t] = "unregister"]
  /\ Goto(t, "take")
  /\ UNCHANGED <<runCtx, mu, recordVars, hwVars, listening, obj, tok, base, queue, handle>>

SetReloader(t, k) ==
  /\ pc[t] = "idle" /\ Unlocked /\ devices[k] # 0
  /\ reloader' = [reloader EXCEPT ![devices[k]] = TRUE]
  /\ UNCHANGED <<serverVars, made, keyOf, deviceVars, hw, reloadMu, hwVars, listening, pc, localVars>>

\* RegisterConfigurable: the form attached is one over the device now served.
RegisterConfigurable(t, k) ==
  /\ pc[t] = "idle" /\ Unlocked /\ devices[k] # 0
  /\ rd' = [rd EXCEPT ![t] = devices[k]]
  /\ cfg' = [cfg EXCEPT ![devices[k]] = data[devices[k]]]
  /\ task' = [task EXCEPT ![t] = "configure"]
  /\ Goto(t, IF runCtx = "unset" THEN "return" ELSE "load")
  /\ UNCHANGED <<serverVars, made, keyOf, itab, data, hw, reloader, reloadMu, hwVars, listening,
                 obj, tok, base, queue, handle>>

\* ReloadAll snapshots the order; NextReload looks each address up again.
ReloadAll(t) ==
  /\ pc[t] = "idle" /\ Unlocked
  /\ queue' = [queue EXCEPT ![t] = order]
  /\ task' = [task EXCEPT ![t] = "reload"]
  /\ Goto(t, "next")
  /\ UNCHANGED <<serverVars, recordVars, hwVars, listening, rd, obj, tok, base, handle>>

NextReload(t) ==
  /\ pc[t] = "next" /\ task[t] = "reload" /\ Unlocked
  /\ IF queue[t] = <<>>
     THEN Goto(t, "return") /\ UNCHANGED <<rd, queue>>
     ELSE LET r == Head(queue[t])
              now == devices[keyOf[r]] IN
          /\ queue' = [queue EXCEPT ![t] = Tail(@)]
          /\ IF reloader[r] /\ now # 0 /\ reloader[now]
             THEN rd' = [rd EXCEPT ![t] = now] /\ Goto(t, "lock")
             ELSE UNCHANGED <<rd, pc>>
  /\ UNCHANGED <<serverVars, recordVars, hwVars, listening, task, obj, tok, base, handle>>

\* Reload: a record found once and used to the end, whatever happens to it.
Reload(t, k) ==
  /\ pc[t] = "idle" /\ Unlocked
  /\ devices[k] # 0 /\ reloader[devices[k]]
  /\ t \in SetupThreads => listening
  /\ rd' = [rd EXCEPT ![t] = devices[k]]
  /\ task' = [task EXCEPT ![t] = "reload"]
  /\ Goto(t, "lock")
  /\ UNCHANGED <<serverVars, recordVars, hwVars, listening, obj, tok, base, queue, handle>>

\* Seeded fault: reloadMu is not taken.
LockReload_NoMutex(t) ==
  /\ Move(t, "lock", "rebuild")
  /\ UNCHANGED <<serverVars, recordVars, hwVars, listening, localVars>>

LockReload(t) ==
  /\ Move(t, "lock", "rebuild") /\ reloadMu[rd[t]] = NoThread
  /\ reloadMu' = [reloadMu EXCEPT ![rd[t]] = t]
  /\ UNCHANGED <<serverVars, made, keyOf, deviceVars, hw, reloader, hwVars, listening, localVars>>

\* Seeded fault: an early return of Reload does not release reloadMu.
Rebuild_LeavesLocked(t) ==
  /\ pc[t] = "rebuild"
  /\ \/ Goto(t, "return") /\ UNCHANGED <<used, obj>>
     \/ \E d \in Devs \ used :
          ImplementsType(d) /\ used' = used \union {d} /\ Goto(t, "take") /\ obj' = [obj EXCEPT ![t] = d]
  /\ UNCHANGED <<serverVars, recordVars, settings, sess, opens, listening, task, rd, tok, base, queue, handle>>

\* Seeded fault: Reload does not look at what the reloader returned.
Rebuild_Unchecked(t) ==
  /\ Move(t, "rebuild", "take")
  /\ \/ UNCHANGED <<used, obj>>
     \/ \E d \in Devs \ used : used' = used \union {d} /\ obj' = [obj EXCEPT ![t] = d]
  /\ UNCHANGED <<serverVars, recordVars, settings, sess, opens, listening, task, rd, tok, base, queue, handle>>

\* The reloader builds a new device object, or fails; a device of the wrong
\* type is refused.  Only then does Reload go on to close the old hardware.
Rebuild(t) ==
  /\ pc[t] = "rebuild"
  /\ \/ Goto(t, "unlock") /\ UNCHANGED <<used, obj>>
     \/ \E d \in Devs \ used :
          /\ used' = used \union {d}
          /\ IF ImplementsType(d)
             THEN Goto(t, "take") /\ obj' = [obj EXCEPT ![t] = d]
             ELSE Goto(t, "unlock") /\ UNCHANGED obj
  /\ UNCHANGED <<serverVars, recordVars, settings, sess, opens, listening, task, rd, tok, base, queue, handle>>

\* rd.dev = dev; rd.cfg = cfg: an interface value is two words, written one
\* after the other while Server.mu is held.
SwapItab(t) ==
  /\ Move(t, "swap", "swapped") /\ Unlocked
  /\ mu' = t
  /\ itab' = [itab EXCEPT ![rd[t]] = ItabOf(obj[t])]
  /\ UNCHANGED <<devices, order, runCtx, made, keyOf, data, cfg, hw, reloader, reloadMu, hwVars,
                 listening, localVars>>

\* Seeded fault: Reload opens the new device without loading its settings.
SwapData_NoSettings(t) ==
  /\ pc[t] = "swapped"
  /\ mu' = NoThread
  /\ data' = [data EXCEPT ![rd[t]] = obj[t]]
  /\ cfg' = [cfg EXCEPT ![rd[t]] = obj[t]]
  /\ Goto(t, "check")
  /\ UNCHANGED <<devices, order, runCtx, made, keyOf, itab, hw, reloader, reloadMu, hwVars,
                 listening, localVars>>

SwapData(t) ==
  /\ pc[t] = "swapped"
  /\ mu' = NoThread
  /\ data' = [data EXCEPT ![rd[t]] = obj[t]]
  /\ cfg' = [cfg EXCEPT ![rd[t]] = obj[t]]
  /\ Goto(t, "load")
  /\ UNCHANGED <<devices, order, runCtx, made, keyOf, itab, hw, reloader, reloadMu, hwVars,
                 listening, localVars>>

UnlockReload(t) ==
  /\ pc[t] = "unlock"
  /\ reloadMu' = [reloadMu EXCEPT ![rd[t]] = NoThread]
  /\ Goto(t, IF queue[t] = <<>> THEN "return" ELSE "next")
  /\ UNCHANGED <<serverVars, made, keyOf, deviceVars, hw, reloader, hwVars, listening, localVars>>

-----------------------------------------------------------------------------
(* loadSettingsFor, openHardwareFor, closeHardwareFor: called by Register,  *)
(* RegisterConfigurable, Unregister, Reload and Run.                        *)

\* current: the device and its form, read as a pair.
LoadSettings(t) ==
  /\ pc[t] = "load" /\ Unlocked
  /\ IF FormOf(rd[t]) = NoDev
     THEN Goto(t, AfterLoad(task[t])) /\ UNCHANGED obj
     ELSE Goto(t, "apply") /\ obj' = [obj EXCEPT ![t] = FormOf(rd[t])]
  /\ UNCHANGED <<serverVars, recordVars, hwVars, listening, task, rd, tok, base, queue, handle>>

\* The store is read, outside the lock, and the form takes what it holds.  An
\* error of Load, a file without a value of the form, and a form that refuses
\* leave the device as it is; the caller goes on as if nothing had been.
ApplySettings(t) ==
  /\ pc[t] = "apply"
  /\ \E outcome \in {"saved"} \union (IF obj[t] \in Doubtful THEN {"default"} ELSE {}) :
       settings' = [settings EXCEPT ![obj[t]] = IF @ = "saved" THEN @ ELSE outcome]
  /\ Goto(t, AfterLoad(task[t]))
  /\ UNCHANGED <<serverVars, recordVars, used, sess, opens, listening, localVars>>

\* The first section of openHardwareFor: is there anything to open, and does
\* its context derive from Run's or from the caller's?
CheckOpen(t) ==
  /\ pc[t] = "check" /\ Unlocked
  /\ IF hw[rd[t]] = 0 /\ data[rd[t]] \in HardwareDevs
     THEN /\ Goto(t, "open")
          /\ obj' = [obj EXCEPT ![t] = data[rd[t]]]
          /\ base' = [base EXCEPT ![t] = runCtx # "unset"]
     ELSE Goto(t, AfterOpen(task[t])) /\ UNCHANGED <<obj, base>>
  /\ UNCHANGED <<serverVars, recordVars, hwVars, listening, task, rd, tok, queue, handle>>

\* Open returns: an error, or a session the goroutine has in hand.
OpenFails(t) ==
  /\ pc[t] = "open"
  /\ Goto(t, AfterOpen(task[t]))
  /\ base' = [base EXCEPT ![t] = FALSE]
  /\ UNCHANGED <<serverVars, recordVars, hwVars, listening, task, rd, obj, tok, queue, handle>>

\* A context that derives from a cancelled one is cancelled from the start.
OpenSucceeds(t) ==
  /\ Move(t, "open", "store") /\ opens < MaxSessions
  /\ opens' = opens + 1
  /\ sess' = [sess EXCEPT ![opens + 1] =
       [reg |-> rd[t], dev |-> obj[t], run |-> base[t],
        st |-> IF base[t] /\ runCtx = "cancelled" THEN "cancelled" ELSE "open"]]
  /\ tok' = [tok EXCEPT ![t] = opens + 1]
  /\ base' = [base EXCEPT ![t] = FALSE]
  /\ UNCHANGED <<serverVars, recordVars, used, settings, listening, task, rd, obj, queue, handle>>

\* The second section: whatever the record holds by now is overwritten.
StoreHardware(t) ==
  /\ pc[t] = "store" /\ Unlocked
  /\ hw' = [hw EXCEPT ![rd[t]] = tok[t]]
  /\ tok' = [tok EXCEPT ![t] = 0]
  /\ Goto(t, AfterOpen(task[t]))
  /\ UNCHANGED <<serverVars, made, keyOf, deviceVars, reloader, reloadMu, hwVars, listening,
                 task, rd, obj, base, queue, handle>>

\* Seeded fault: the record keeps the session that is being closed.
TakeHardware_KeepsRecord(t) ==
  /\ pc[t] = "take" /\ Unlocked
  /\ tok' = [tok EXCEPT ![t] = hw[rd[t]]]
  /\ Goto(t, IF hw[rd[t]] = 0 THEN AfterClose(task[t]) ELSE "cancel")
  /\ UNCHANGED <<serverVars, recordVars, hwVars, listening, task, rd, obj, base, queue, handle>>

\* Seeded fault: Close is called under a live context.
TakeHardware_NoCancel(t) ==
  /\ pc[t] = "take" /\ Unlocked
  /\ tok' = [tok EXCEPT ![t] = hw[rd[t]]]
  /\ hw' = [hw EXCEPT ![rd[t]] = 0]
  /\ Goto(t, IF hw[rd[t]] = 0 THEN AfterClose(task[t]) ELSE "close")
  /\ UNCHANGED <<serverVars, made, keyOf, deviceVars, reloader, reloadMu, hwVars, listening,
                 task, rd, obj, base, queue, handle>>

\* closeHardwareFor: take the session off the record under the lock, ...
TakeHardware(t) ==
  /\ pc[t] = "take" /\ Unlocked
  /\ tok' = [tok EXCEPT ![t] = hw[rd[t]]]
  /\ hw' = [hw EXCEPT ![rd[t]] = 0]
  /\ Goto(t, IF hw[rd[t]] = 0 THEN AfterClose(task[t]) ELSE "cancel")
  /\ UNCHANGED <<serverVars, made, keyOf, deviceVars, reloader, reloadMu, hwVars, listening,
                 task, rd, obj, base, queue, handle>>

\* ... cancel the context its Open ran under, ...
CancelHardware(t) ==
  /\ Move(t, "cancel", "close")
  /\ sess' = [sess EXCEPT ![tok[t]].st = "cancelled"]
  /\ UNCHANGED <<serverVars, recordVars, used, settings, opens, listening, localVars>>

\* ... and Close.
CloseHardware(t) ==
  /\ pc[t] = "close"
  /\ sess' = [sess EXCEPT ![tok[t]].st = "closed"]
  /\ tok' = [tok EXCEPT ![t] = 0]
  /\ Goto(t, AfterClose(task[t]))
  /\ UNCHANGED <<serverVars, recordVars, used, settings, opens, listening, task, rd, obj, base, queue, handle>>

\* The call is over: what it had in hand is forgotten.
Return(t) ==
  /\ Move(t, "return", "idle")
  /\ task' = [task EXCEPT ![t] = "none"]
  /\ rd' = [rd EXCEPT ![t] = 0]
  /\ obj' = [obj EXCEPT ![t] = NoDev]
  /\ handle' = [handle EXCEPT ![t] = NoHandle]
  /\ UNCHANGED <<serverVars, recordVars, hwVars, listening, tok, base, queue>>

-----------------------------------------------------------------------------
(* Run *)

Start(t) ==
  /\ Move(t, "start", "snapshot") /\ Unlocked
  /\ runCtx' = "live"
  /\ task' = [task EXCEPT ![t] = "settings"]
  /\ UNCHANGED <<devices, order, mu, recordVars, hwVars, listening, rd, obj, tok, base, queue, handle>>

\* loadSettings, openHardware and closeHardware each copy the order first;
\* closeHardware walks its copy backwards.
Snapshot(t) ==
  /\ Move(t, "snapshot", "next") /\ Unlocked
  /\ queue' = [queue EXCEPT ![t] = IF task[t] = "stop" THEN Reverse(order) ELSE order]
  /\ UNCHANGED <<serverVars, recordVars, hwVars, listening, task, rd, obj, tok, base, handle>>

NextRecord(t) ==
  /\ task[t] \in {"settings", "boot", "stop"} /\ queue[t] # <<>>
  /\ Move(t, "next", CASE task[t] = "settings" -> "load" [] task[t] = "boot" -> "check" [] OTHER -> "take")
  /\ rd' = [rd EXCEPT ![t] = Head(queue[t])]
  /\ queue' = [queue EXCEPT ![t] = Tail(@)]
  /\ UNCHANGED <<serverVars, recordVars, hwVars, listening, task, obj, tok, base, handle>>

\* A loop over the records ends: after the settings the hardware, after the
\* hardware the listeners, after the closing Run returns.
LoopDone(t) ==
  /\ task[t] \in {"settings", "boot", "stop"} /\ queue[t] = <<>>
  /\ Move(t, "next", CASE task[t] = "settings" -> "snapshot" [] task[t] = "boot" -> "bind"
                       [] OTHER -> "stopped")
  /\ task' = [task EXCEPT ![t] = IF @ = "settings" THEN "boot" ELSE @]
  /\ rd' = [rd EXCEPT ![t] = 0]
  /\ obj' = [obj EXCEPT ![t] = NoDev]
  /\ UNCHANGED <<serverVars, recordVars, hwVars, listening, tok, base, queue, handle>>

\* The listeners bind, or none does and Run closes the hardware it opened.
Bind(t) ==
  /\ pc[t] = "bind"
  /\ \/ listening' = TRUE /\ Goto(t, "serve") /\ UNCHANGED task
     \/ Goto(t, "snapshot") /\ task' = [task EXCEPT ![t] = "stop"] /\ UNCHANGED listening
  /\ UNCHANGED <<serverVars, recordVars, hwVars, rd, obj, tok, base, queue, handle>>

\* Run's context is cancelled, and with it every context that derives from it:
\* a driver's own loops end now, before requests are drained and Close is called.
CancelRun ==
  /\ runCtx = "live"
  /\ runCtx' = "cancelled"
  /\ sess' = [s \in Sessions |-> IF sess[s].run /\ sess[s].st = "open"
                                THEN [sess[s] EXCEPT !.st = "cancelled"] ELSE sess[s]]
  /\ UNCHANGED <<devices, order, mu, recordVars, used, settings, opens, listening, pc, localVars>>

\* A Reload before Run opens under its caller's context, which may end any time.
CancelCaller(s) ==
  /\ sess[s].st = "open" /\ ~sess[s].run
  /\ sess' = [sess EXCEPT ![s].st = "cancelled"]
  /\ UNCHANGED <<serverVars, recordVars, used, settings, opens, listening, pc, localVars>>

\* The select of Run: its context is done, or a listener failed.
StopServing(t) ==
  /\ Move(t, "serve", "drain")
  /\ listening' = FALSE
  /\ UNCHANGED <<serverVars, recordVars, hwVars, localVars>>

Handlers == SetupThreads \union ApiThreads

\* Seeded fault: Run closes the hardware without waiting for Shutdown.
Drained_NoWait(t) ==
  /\ Move(t, "drain", "snapshot")
  /\ task' = [task EXCEPT ![t] = "stop"]
  /\ UNCHANGED <<serverVars, recordVars, hwVars, listening, rd, obj, tok, base, queue, handle>>

\* http.Shutdown returns when no handler is running, or after 5 seconds.
Drained(t) ==
  /\ Move(t, "drain", "snapshot")
  /\ DrainTimesOut \/ \A h \in Handlers : pc[h] = "idle"
  /\ task' = [task EXCEPT ![t] = "stop"]
  /\ UNCHANGED <<serverVars, recordVars, hwVars, listening, rd, obj, tok, base, queue, handle>>

-----------------------------------------------------------------------------
(* A device-API request: lookupRegistered under the lock, rd.dev after it.  *)

Request(t, k) ==
  /\ Move(t, "idle", "readItab") /\ Unlocked /\ listening /\ devices[k] # 0
  /\ rd' = [rd EXCEPT ![t] = devices[k]]
  /\ task' = [task EXCEPT ![t] = "request"]
  /\ UNCHANGED <<serverVars, recordVars, hwVars, listening, obj, tok, base, queue, handle>>

ReadItab(t) ==
  /\ Move(t, "readItab", "readData")
  /\ handle' = [handle EXCEPT ![t].itab = itab[rd[t]]]
  /\ UNCHANGED <<serverVars, recordVars, hwVars, listening, task, rd, obj, tok, base, queue>>

ReadData(t) ==
  /\ Move(t, "readData", "call")
  /\ handle' = [handle EXCEPT ![t].data = data[rd[t]]]
  /\ UNCHANGED <<serverVars, recordVars, hwVars, listening, task, rd, obj, tok, base, queue>>

\* The device member runs and the response is written.
Respond(t) ==
  /\ Move(t, "call", "return")
  /\ UNCHANGED <<serverVars, recordVars, hwVars, listening, localVars>>

-----------------------------------------------------------------------------
(* The specification *)

HostCall(t) ==
  \/ \E k \in Keys : \/ Unregister(t, k) \/ SetReloader(t, k) \/ RegisterConfigurable(t, k)
                     \/ Reload(t, k)
                     \/ \E d \in Devs : Register(t, k, d)
  \/ ReloadAll(t)

\* The steps a goroutine takes by itself once it has been called.
Continue(t) ==
  \/ NextReload(t) \/ LockReload(t) \/ Rebuild(t) \/ SwapItab(t) \/ SwapData(t) \/ UnlockReload(t)
  \/ LoadSettings(t) \/ ApplySettings(t)
  \/ CheckOpen(t) \/ OpenFails(t) \/ OpenSucceeds(t) \/ StoreHardware(t)
  \/ TakeHardware(t) \/ CancelHardware(t) \/ CloseHardware(t)
  \/ Return(t)

RunStep(t) ==
  \/ Start(t) \/ Snapshot(t) \/ NextRecord(t) \/ LoopDone(t) \/ Bind(t) \/ Drained(t)

Answer(t) == ReadItab(t) \/ ReadData(t) \/ Respond(t)

Next ==
  \/ \E t \in HostThreads : HostCall(t)
  \/ \E t \in SetupThreads, k \in Keys : Reload(t, k)
  \/ \E t \in ApiThreads, k \in Keys : Request(t, k)
  \/ \E t \in Threads : Continue(t)
  \/ \E t \in ApiThreads : Answer(t)
  \/ RunStep(Runner) \/ StopServing(Runner)
  \/ CancelRun
  \/ \E s \in Sessions : CancelCaller(s)

Spec == Init /\ [][Next]_vars

\* Goroutines are scheduled, drivers' Open and Close return, and a goroutine
\* waiting for reloadMu gets it (sync.Mutex hands over after 1 ms of waiting).
Fairness ==
  /\ \A t \in Threads : WF_vars(Continue(t)) /\ SF_vars(LockReload(t))
  /\ \A t \in ApiThreads : WF_vars(Answer(t))
  /\ WF_vars(RunStep(Runner))
  /\ WF_vars(runCtx = "cancelled" /\ StopServing(Runner))

FairSpec == Spec /\ Fairness
-----------------------------------------------------------------------------
(* Properties *)

ServerTypes ==
  /\ devices \in [Keys -> 0..MaxRegs] /\ order \in Seq(Regs)
  /\ runCtx \in {"unset", "live", "cancelled"} /\ mu \in Threads \union {NoThread}
  /\ listening \in BOOLEAN

RecordTypes ==
  /\ made \in 0..MaxRegs /\ keyOf \in [Regs -> Keys]
  /\ itab \in [Regs -> Types \union {NoDev}]
  /\ data \in [Regs -> Devs \union {NoDev}] /\ cfg \in [Regs -> Devs \union {NoDev}]
  /\ \A r \in 1..made : data[r] # NoDev
  /\ hw \in [Regs -> 0..MaxSessions]
  /\ reloader \in [Regs -> BOOLEAN] /\ reloadMu \in [Regs -> Threads \union {NoThread}]

HardwareTypes ==
  /\ used \subseteq Devs /\ opens \in 0..MaxSessions
  /\ settings \in [Devs -> {"unread", "default", "saved"}]
  /\ sess \in [Sessions -> [reg : 0..MaxRegs, dev : Devs \union {NoDev},
                            st : {"none", "open", "cancelled", "closed"}, run : BOOLEAN]]

ThreadTypes ==
  /\ pc \in [Threads -> Steps] /\ task \in [Threads -> Tasks]
  /\ rd \in [Threads -> 0..MaxRegs] /\ obj \in [Threads -> Devs \union {NoDev}]
  /\ tok \in [Threads -> 0..MaxSessions] /\ base \in [Threads -> BOOLEAN]
  /\ queue \in [Threads -> Seq(Regs)]
  /\ handle \in [Threads -> [itab : Types \union {NoDev}, data : Devs \union {NoDev}]]

\* Every variable keeps its type, and a record that was made serves a device.
TypeOK == ServerTypes /\ RecordTypes /\ HardwareTypes /\ ThreadTypes

\* The map of devices and the registration order list the same records, each
\* once and oldest first, whoever registers and unregisters at the same time.
RegistryAgrees ==
  /\ \A i, j \in DOMAIN order : i < j => order[i] < order[j]
  /\ {devices[k] : k \in Keys} \ {0} = {order[i] : i \in DOMAIN order}
  /\ \A k \in Keys : devices[k] # 0 => keyOf[devices[k]] = k

\* closeHardwareFor takes hw and hwCancel together, under the lock: a session
\* is on one record or in one goroutine's hands and never in two places, so
\* no two callers can close it.
SessionHeldOnce ==
  /\ \A r, q \in Regs : hw[r] # 0 /\ hw[r] = hw[q] => r = q
  /\ \A t, u \in Threads : tok[t] # 0 /\ tok[t] = tok[u] => t = u
  /\ \A r \in Regs, t \in Threads : tok[t] # 0 => tok[t] # hw[r]

\* A record holds only hardware that is open, and while Run's context lives so
\* does the one that hardware was opened under, if it derives from it: nothing
\* a Reload, an Unregister or another caller does ends the regulation of
\* hardware that a record still shows (openHardwareFor, closeHardwareFor).
RegulatedWhileRunning ==
  \A r \in Regs : hw[r] # 0 =>
    /\ hw[r] <= opens /\ Open(hw[r])
    /\ sess[hw[r]].run /\ runCtx = "live" => sess[hw[r]].st = "open"

\* Reloads of one device are serialized (reload.go): between reloadMu.Lock
\* and its Unlock there is one goroutine per record.
InReload(t) == task[t] = "reload" /\ pc[t] \notin {"idle", "return", "next", "lock"}
ReloadExclusive ==
  \A t, u \in Threads : InReload(t) /\ InReload(u) /\ rd[t] = rd[u] => t = u

\* A Reload takes the old hardware only once its replacement is built, so a
\* failing reloader leaves the old device open.
ReplacementFirst ==
  [][\A r \in Regs : hw[r] # 0 /\ hw'[r] = 0 =>
       \E t \in Threads : /\ pc[t] = "take" /\ rd[t] = r
                          /\ task[t] = "reload" => obj[t] \in used \ {data[r]}]_vars

\* At one address hardware is released before its replacement opens: while
\* Open runs, no other session there is open and no other Open runs.
OneOpenPerAddress ==
  \A t \in Threads : pc[t] = "open" =>
    /\ \A s \in Sessions : Open(s) => keyOf[sess[s].reg] # keyOf[rd[t]]
    /\ \A u \in Threads \ {t} : pc[u] = "open" => keyOf[rd[u]] # keyOf[rd[t]]

\* Settings come before hardware: a device opens only after a load of its
\* persisted settings, whatever came of it, and none is applied to a device
\* whose hardware is open already (server.go, Run; reload.go, Reload).
SettingsBeforeOpen ==
  \A t \in Threads :
    /\ pc[t] = "open" => settings[obj[t]] \in {"saved"} \union (IF obj[t] \in Doubtful THEN {"default"} ELSE {})
    /\ pc[t] = "apply" => \A s \in Sessions : Open(s) => sess[s].dev # obj[t]

\* When Run returns, every session ever opened has been closed.
ClosedWhenStopped ==
  pc[Runner] = "stopped" => \A s \in Sessions : ~Open(s)

\* Open hardware can always be found again: the session is in a goroutine's
\* hands or on a record the server lists (so Unregister, Reload or the end of
\* Run will close it).
NoLostSession ==
  \A s \in Sessions : Open(s) =>
    \/ \E t \in Threads : tok[t] = s
    \/ \E k \in Keys : devices[k] # 0 /\ hw[devices[k]] = s

\* A request sees one device or the other, whole (reload.go): the type word
\* and the data word it dispatches on belong to one device.
WholeDevice ==
  \A t \in ApiThreads : pc[t] = "call" => handle[t].itab = TypeOf[handle[t].data]

\* Cancelling Run's context ends Run.
ShutdownCompletes == runCtx = "cancelled" ~> pc[Runner] = "stopped"

\* Every Reload that waits for its turn has its turn and returns.
ReloadsReturn == \A t \in HostThreads \union SetupThreads : pc[t] = "lock" ~> pc[t] = "idle"

\* Run closes hardware only after the HTTP server has drained: while it walks
\* the records to close them, no handler of a request is still running.
DrainedBeforeClose ==
  task[Runner] = "stop" /\ pc[Runner] # "stopped" => \A h \in Handlers : pc[h] = "idle"

\* Every successful Open is cancelled, then closed, at most once each: the
\* sessions of the server behave as HardwareSessions says.
SessionState == [s \in Sessions |-> sess[s].st]
Promise == INSTANCE HardwareSessions WITH Sessions <- Sessions, state <- SessionState
SessionsAsPromised == Promise!Spec
=============================================================================
