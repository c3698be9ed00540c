------------------------- MODULE HostingServedProofs --------------------------
(* Hosting when the devices are registered before Run and everything after   *)
(* is HTTP (devicemain without a host of its own), and Shutdown waits for    *)
(* its handlers: what the server then promises about the hardware.  That Run *)
(* closes nothing under a running handler needs only the last of these.      *)
EXTENDS HostingPromiseProofs

\* No goroutine of the host calls the server once it runs, and http.Shutdown
\* returns because the handlers have, not because its 5 seconds are over.
ServedOnly == HostThreads = {} /\ DrainTimesOut = FALSE

-----------------------------------------------------------------------------
(* The records are the boot devices *)

\* The boot devices are the records 1..n.
LEMMA BootRange ==
  \E n \in Nat : BootRegs = 1..n /\ Len(BootKey) = n /\ BootRegs \subseteq Regs
<1>1. PICK n \in 0..MaxRegs : BootKey \in [1..n -> Keys] /\ BootDev \in [1..n -> Devs \ Misfits]
  BY BootIsARegistration
<1>2. BootRegs = 1..n /\ Len(BootKey) = n /\ n \in Nat /\ 1..n \subseteq Regs
  BY <1>1, BootIsARegistration DEF BootRegs, Regs
<1>3. QED
  BY <1>2

\* The indexes stay what the host made them before Run.
Static == made = Len(BootKey) /\ order = [r \in BootRegs |-> r] /\ RegistryInv

\* They begin so ...
LEMMA InitStatic == Init => Static
BY InitRegistryInv DEF Init, Static

\* ... and stay so, because only the host registers.
LEMMA NextStatic ==
  ASSUME ServedOnly, TypeInv, Static, [Next]_vars PROVE Static'
<1>1. RegistryInv'
  BY NextRegistryInv DEF Static
<1>2. ASSUME NEW t \in Threads PROVE Continue(t) => UNCHANGED <<made, order>>
  BY DEF Continue, NextReload, LockReload, Rebuild, SwapItab, SwapData, UnlockReload, LoadSettings,
         ApplySettings, CheckOpen, OpenFails, OpenSucceeds, StoreHardware, TakeHardware, CancelHardware,
         CloseHardware, Return, serverVars, recordVars
<1>3. ASSUME NEW t \in Threads
      PROVE  RunStep(t) \/ StopServing(t) \/ Answer(t) => UNCHANGED <<made, order>>
  BY DEF RunStep, StopServing, Answer, Start, Snapshot, NextRecord, LoopDone, Bind, Drained,
         ReadItab, ReadData, Respond, serverVars, recordVars
<1>4. ASSUME NEW t \in Threads, NEW k \in Keys
      PROVE  Reload(t, k) \/ Request(t, k) => UNCHANGED <<made, order>>
  BY DEF Reload, Request, serverVars, recordVars
<1>5. ContextsEnd \/ UNCHANGED vars => UNCHANGED <<made, order>>
  BY ContextsEndOnly DEF vars, serverVars, recordVars
<1>6. UNCHANGED <<made, order>>
  BY <1>2, <1>3, <1>4, <1>5 DEF Next, Threads, ServedOnly, ContextsEnd
<1>7. QED
  BY <1>1, <1>6 DEF Static

\* An address holds a boot device, each boot device is at its address, and no
\* two are at the same one.
LEMMA StaticIndexes ==
  ASSUME TypeInv, Static
  PROVE  /\ \A k \in Keys : devices[k] # 0 => devices[k] \in BootRegs
         /\ \A r \in BootRegs : keyOf[r] \in Keys /\ devices[keyOf[r]] = r
         /\ \A r, q \in BootRegs : keyOf[r] = keyOf[q] => r = q
<1>1. PICK n \in Nat : BootRegs = 1..n /\ BootRegs \subseteq Regs
  BY BootRange
<1>2. DOMAIN order = BootRegs /\ \A r \in BootRegs : order[r] = r
  BY DEF Static
<1>3. \A k \in Keys : devices[k] # 0 => devices[k] \in BootRegs
  BY <1>2 DEF Static, RegistryInv, Listed
<1>4. \A r \in BootRegs : keyOf[r] \in Keys /\ devices[keyOf[r]] = r
  <2> SUFFICES ASSUME NEW r \in BootRegs PROVE keyOf[r] \in Keys /\ devices[keyOf[r]] = r
    OBVIOUS
  <2>1. PICK k \in Keys : devices[k] = r
    BY <1>2 DEF Static, RegistryInv, Listed
  <2>2. r # 0
    BY <1>1
  <2>3. keyOf[r] = k
    BY <2>1, <2>2 DEF Static, RegistryInv, AtItsKey
  <2>4. QED
    BY <2>1, <2>3
<1>5. QED
  BY <1>3, <1>4

-----------------------------------------------------------------------------
(* The phases of Run *)

\* Where Run can be in each of its four parts.
RunnerAt ==
  \/ task[Runner] = "none" /\ pc[Runner] = "start"
  \/ task[Runner] = "settings" /\ pc[Runner] \in {"snapshot", "next", "load", "apply"}
  \/ task[Runner] = "boot"
     /\ pc[Runner] \in {"snapshot", "next", "check", "open", "store", "bind", "serve", "drain"}
  \/ task[Runner] = "stop" /\ pc[Runner] \in {"snapshot", "next", "take", "cancel", "close", "stopped"}

\* Where a handler of the reload form can be, ...
SetupAt(h) ==
  \/ task[h] = "none" /\ pc[h] = "idle"
  \/ task[h] = "reload"
     /\ pc[h] \in {"lock", "rebuild", "take", "cancel", "close", "swap", "swapped", "load", "apply",
                   "check", "open", "store", "unlock", "return"}

\* ... and one of a device request.
ApiAt(h) == pc[h] \in {"idle", "readItab", "readData", "call", "return"}

\* Run serves: only then is a handler at work.
Serving == pc[Runner] \in {"serve", "drain"}

Placed(t) ==
  /\ t = Runner => RunnerAt
  /\ t \in SetupThreads => SetupAt(t)
  /\ t \in ApiThreads => ApiAt(t)
  /\ pc[t] \in WithRecord => rd[t] \in BootRegs

PhaseInv ==
  /\ \A t \in Threads : Placed(t)
  /\ listening => pc[Runner] = "serve"
  /\ ~ Serving => \A h \in Handlers : pc[h] = "idle"
  /\ queue[Runner] \in Seq(BootRegs)
  /\ \A h \in SetupThreads : queue[h] = <<>>

\* Run has not started, and no one has called.
LEMMA InitPhaseInv == ASSUME ServedOnly, Init PROVE PhaseInv
<1>1. Runner \in Threads /\ Runner \notin Handlers /\ Handlers \subseteq Threads
  BY ThreadsDiffer DEF Threads, Handlers
<1>2. \A t \in Threads : Placed(t)
  <2> SUFFICES ASSUME NEW t \in Threads PROVE Placed(t)
    OBVIOUS
  <2>1. task[t] = "none" /\ pc[t] = IF t = Runner THEN "start" ELSE "idle"
    BY DEF Init
  <2>2. t # Runner => SetupAt(t) /\ ApiAt(t)
    BY <2>1 DEF SetupAt, ApiAt
  <2>3. t = Runner => RunnerAt /\ t \notin SetupThreads /\ t \notin ApiThreads
    BY <2>1, <1>1 DEF RunnerAt, Handlers
  <2>4. pc[t] \notin WithRecord
    BY <2>1 DEF WithRecord
  <2>5. QED
    BY <2>2, <2>3, <2>4 DEF Placed
<1>3. ~ listening /\ \A h \in Handlers : pc[h] = "idle"
  BY <1>1 DEF Init
<1>4. queue[Runner] \in Seq(BootRegs) /\ \A h \in SetupThreads : queue[h] = <<>>
  BY <1>1, EmptySeq DEF Init, Handlers
<1>5. QED
  BY <1>2, <1>3, <1>4 DEF PhaseInv

\* A step of t between two steps of a call, that opens and closes no listener.
Inside(t) ==
  /\ Alone(t) /\ UNCHANGED listening
  /\ queue'[Runner] \in Seq(BootRegs) /\ \A h \in SetupThreads : queue'[h] = queue[h]
  /\ pc[t] \notin {"idle", "serve", "drain"} /\ pc'[t] \notin {"serve", "drain"}

\* Such a step keeps the phases if it leaves t well placed.
LEMMA PhaseFrame ==
  ASSUME PhaseInv, NEW t \in Threads, Inside(t), Placed(t)' PROVE PhaseInv'
<1>1. Runner \in Threads /\ Runner \notin Handlers /\ Handlers \subseteq Threads
      /\ Threads \ {Runner} \subseteq HostThreads \union Handlers
  BY ThreadsDiffer DEF Threads, Handlers
<1>2. \A u \in Threads \ {t} : pc'[u] = pc[u] /\ rd'[u] = rd[u] /\ task'[u] = task[u]
  BY DEF Inside, Alone
<1>3. \A u \in Threads : Placed(u)'
  <2> SUFFICES ASSUME NEW u \in Threads, u # t PROVE Placed(u)'
    OBVIOUS
  <2>1. Placed(u)
    BY DEF PhaseInv
  <2>2. u = Runner => (RunnerAt => RunnerAt')
    BY <1>2 DEF RunnerAt
  <2>3. (SetupAt(u) => SetupAt(u)') /\ (ApiAt(u) => ApiAt(u)')
    BY <1>2 DEF SetupAt, ApiAt
  <2>4. pc'[u] = pc[u] /\ rd'[u] = rd[u]
    BY <1>2
  <2>5. QED
    BY <2>1, <2>2, <2>3, <2>4 DEF Placed
<1>4. listening' => pc'[Runner] = "serve"
  BY <1>1, <1>2 DEF Inside, PhaseInv
<1>5. ~ Serving' => \A h \in Handlers : pc'[h] = "idle"
  <2>1. CASE t = Runner
    BY <1>1, <1>2, <2>1 DEF Inside, PhaseInv, Serving
  <2>2. CASE t # Runner
    BY <1>1, <1>2, <2>2 DEF Inside, PhaseInv, Serving
  <2>3. QED
    BY <2>1, <2>2
<1>6. QED
  BY <1>3, <1>4, <1>5 DEF PhaseInv, Inside

\* Run walks the boot devices, forwards or backwards.
LEMMA BootWalks ==
  ASSUME Static
  PROVE  /\ order \in Seq(BootRegs) /\ Reverse(order) \in Seq(BootRegs)
         /\ \A r \in BootRegs : \E i \in DOMAIN order : order[i] = r
         /\ \A r \in BootRegs : \E i \in DOMAIN Reverse(order) : Reverse(order)[i] = r
<1>1. PICK n \in Nat : BootRegs = 1..n
  BY BootRange
<1>2. order \in [1..n -> BootRegs] /\ \A r \in 1..n : order[r] = r
  BY <1>1 DEF Static
<1>3. order \in Seq(BootRegs)
  BY <1>1, <1>2, FunctionIsSeq
<1>4. Len(order) \in Nat /\ DOMAIN order = 1..Len(order)
  BY <1>3, LenProperties
<1>5. Len(order) = n
  <2>1. DOMAIN order = 1..n
    BY <1>2
  <2>2. n # 0 => n \in 1..Len(order)
    <3>1. n # 0 => n \in 1..n
      BY <1>1
    <3>2. QED
      BY <1>4, <2>1, <3>1, Zenon
  <2>3. Len(order) # 0 => Len(order) \in 1..n
    <3>1. Len(order) # 0 => Len(order) \in 1..Len(order)
      BY <1>4
    <3>2. QED
      BY <1>4, <2>1, <3>1, Zenon
  <2>4. n <= Len(order)
    <3>1. CASE n = 0
      BY <1>4, <3>1
    <3>2. CASE n # 0
      BY <1>4, <2>2, <3>2
    <3>3. QED
      BY <3>1, <3>2
  <2>5. Len(order) <= n
    <3>1. CASE Len(order) = 0
      BY <1>1, <3>1
    <3>2. CASE Len(order) # 0
      BY <1>1, <2>3, <3>2
    <3>3. QED
      BY <3>1, <3>2
  <2>6. \A a, b \in Nat : a <= b /\ b <= a => a = b
    OBVIOUS
  <2>7. n \in Nat /\ Len(order) \in Nat
    BY <1>1, <1>4
  <2>8. QED
    BY <2>4, <2>5, <2>6, <2>7, Zenon
<1>6. \A i \in 1..n : (n - i) + 1 \in 1..n
  BY <1>1
<1>7. Reverse(order) = [i \in 1..n |-> order[(n - i) + 1]]
  BY <1>5 DEF Reverse
<1>8. Reverse(order) \in [1..n -> BootRegs] /\ \A i \in 1..n : Reverse(order)[i] = (n - i) + 1
  BY <1>1, <1>2, <1>6, <1>7
<1>9. Reverse(order) \in Seq(BootRegs)
  BY <1>1, <1>8, FunctionIsSeq
<1>10. \A r \in BootRegs : \E i \in DOMAIN Reverse(order) : Reverse(order)[i] = r
  <2> SUFFICES ASSUME NEW r \in 1..n PROVE \E i \in DOMAIN Reverse(order) : Reverse(order)[i] = r
    BY <1>1
  <2>1. (n - r) + 1 \in DOMAIN Reverse(order) /\ (n - ((n - r) + 1)) + 1 = r
    BY <1>6, <1>8
  <2>2. QED
    BY <1>6, <1>8, <2>1
<1>11. QED
  BY <1>1, <1>2, <1>3, <1>9, <1>10

\* A call that a handler begins while Run serves keeps them too, ...
LEMMA CallFrame ==
  ASSUME PhaseInv, NEW t \in Threads, t # Runner, Alone(t), UNCHANGED <<listening, queue>>,
         pc[Runner] = "serve", Placed(t)'
  PROVE  PhaseInv'
<1>1. Runner \in Threads
  BY DEF Threads
<1>2. \A u \in Threads \ {t} : pc'[u] = pc[u] /\ rd'[u] = rd[u] /\ task'[u] = task[u]
  BY DEF Alone
<1>3. \A u \in Threads : Placed(u)'
  <2> SUFFICES ASSUME NEW u \in Threads, u # t PROVE Placed(u)'
    OBVIOUS
  <2>1. Placed(u)
    BY DEF PhaseInv
  <2>2. u = Runner => (RunnerAt => RunnerAt')
    BY <1>2 DEF RunnerAt
  <2>3. (SetupAt(u) => SetupAt(u)') /\ (ApiAt(u) => ApiAt(u)')
    BY <1>2 DEF SetupAt, ApiAt
  <2>4. pc'[u] = pc[u] /\ rd'[u] = rd[u]
    BY <1>2
  <2>5. QED
    BY <2>1, <2>2, <2>3, <2>4 DEF Placed
<1>4. pc'[Runner] = "serve"
  BY <1>1, <1>2
<1>5. QED
  BY <1>3, <1>4 DEF PhaseInv, Serving

\* ... and so does a step of Run from one phase to the next.
LEMMA RunnerFrame ==
  ASSUME PhaseInv, Alone(Runner), UNCHANGED queue, Placed(Runner)',
         listening' => pc'[Runner] = "serve",
         Serving' \/ ~ Serving \/ \A h \in Handlers : pc[h] = "idle"
  PROVE  PhaseInv'
<1>1. Runner \in Threads /\ Runner \notin Handlers /\ Handlers \subseteq Threads
  BY ThreadsDiffer DEF Threads, Handlers
<1>2. \A u \in Threads \ {Runner} : pc'[u] = pc[u] /\ rd'[u] = rd[u] /\ task'[u] = task[u]
  BY DEF Alone
<1>3. \A u \in Threads : Placed(u)'
  <2> SUFFICES ASSUME NEW u \in Threads, u # Runner PROVE Placed(u)'
    OBVIOUS
  <2>1. Placed(u)
    BY DEF PhaseInv
  <2>2. (SetupAt(u) => SetupAt(u)') /\ (ApiAt(u) => ApiAt(u)')
    BY <1>2 DEF SetupAt, ApiAt
  <2>3. pc'[u] = pc[u] /\ rd'[u] = rd[u]
    BY <1>2
  <2>4. QED
    BY <2>1, <2>2, <2>3 DEF Placed
<1>4. \A h \in Handlers : pc'[h] = pc[h]
  BY <1>1, <1>2
<1>5. ~ Serving' => \A h \in Handlers : pc'[h] = "idle"
  BY <1>4 DEF PhaseInv
<1>6. QED
  BY <1>3, <1>5 DEF PhaseInv

\* What one goroutine of the server does next: the steps that are left when
\* the host has no goroutine of its own.
Served(t) ==
  \/ LockReload(t) \/ Rebuild(t) \/ SwapItab(t) \/ SwapData(t) \/ UnlockReload(t)
  \/ LoadSettings(t) \/ ApplySettings(t)
  \/ CheckOpen(t) \/ OpenFails(t) \/ OpenSucceeds(t) \/ StoreHardware(t)
  \/ TakeHardware(t) \/ CancelHardware(t) \/ CloseHardware(t)
  \/ Return(t)

\* Every step is one of them, a call of a handler, a step of Run, or of a request.
LEMMA ServedSteps ==
  ASSUME ServedOnly, TypeInv, PhaseInv, [Next]_vars
  PROVE  \/ \E t \in Threads : Served(t) \/ ReadItab(t) \/ ReadData(t) \/ Respond(t)
         \/ \E t \in SetupThreads, k \in Keys : Reload(t, k)
         \/ \E t \in ApiThreads, k \in Keys : Request(t, k)
         \/ Start(Runner) \/ Snapshot(Runner) \/ NextRecord(Runner) \/ LoopDone(Runner)
         \/ Bind(Runner) \/ Drained(Runner) \/ StopServing(Runner)
         \/ ContextsEnd \/ UNCHANGED vars
<1>1. ASSUME NEW t \in Threads PROVE ~ NextReload(t)
  <2>1. Placed(t) /\ t \in {Runner} \union SetupThreads \union ApiThreads
    BY DEF PhaseInv, Threads, ServedOnly
  <2>2. ~ (pc[t] = "next" /\ task[t] = "reload")
    <3>1. CASE t = Runner
      BY <2>1, <3>1 DEF Placed, RunnerAt
    <3>2. CASE t \in SetupThreads
      BY <2>1, <3>2 DEF Placed, SetupAt
    <3>3. CASE t \in ApiThreads
      BY <2>1, <3>3 DEF Placed, ApiAt
    <3>4. QED
      BY <2>1, <3>1, <3>2, <3>3
  <2>3. QED
    BY <2>2 DEF NextReload
<1>2. \A t \in Threads : Continue(t) => Served(t)
  BY <1>1 DEF Continue, Served
<1>3. ApiThreads \subseteq Threads
  BY DEF Threads
<1>4. QED
  BY <1>2, <1>3 DEF Next, RunStep, Answer, ServedOnly, ContextsEnd

\* Every step keeps the phases: the listeners open after the devices are up,
\* and Run goes on to close them when no handler is left.
LEMMA NextPhaseInv ==
  ASSUME ServedOnly, TypeInv, Static, PhaseInv, [Next]_vars PROVE PhaseInv'
<1> USE DEF Goto, Move
<1>t. /\ pc \in [Threads -> Steps] /\ task \in [Threads -> Tasks] /\ rd \in [Threads -> 0..MaxRegs]
      /\ obj \in [Threads -> Devs \union {NoDev}] /\ queue \in [Threads -> Seq(Regs)]
  BY DEF TypeInv, TypeOK, ThreadTypes
<1>p. /\ Runner \in Threads /\ Runner \notin SetupThreads /\ Runner \notin ApiThreads
      /\ Threads = {Runner} \union SetupThreads \union ApiThreads
      /\ SetupThreads \intersect ApiThreads = {} /\ Handlers = SetupThreads \union ApiThreads
  BY ThreadsDiffer DEF Threads, Handlers, ServedOnly
<1>q. queue[Runner] \in Seq(BootRegs)
  BY DEF PhaseInv
<1>i. \A t \in Threads : Placed(t)
  BY DEF PhaseInv
<1>1. ASSUME NEW t \in Threads, LockReload(t) PROVE PhaseInv'
  <2>1. Placed(t)'
    BY <1>1, <1>t, <1>p, <1>i DEF LockReload, Placed, RunnerAt, SetupAt, ApiAt, WithRecord, PhaseInv,
       AfterLoad, AfterOpen, AfterClose, localVars
  <2>2. Inside(t)
    BY <1>1, <1>t, <1>p, <1>q, <1>i DEF LockReload, Inside, Alone, Placed, RunnerAt, SetupAt, ApiAt,
       AfterLoad, AfterOpen, AfterClose, localVars, serverVars
  <2>3. QED
    BY <1>p, <2>1, <2>2, PhaseFrame
<1>2. ASSUME NEW t \in Threads, Rebuild(t) PROVE PhaseInv'
  <2>1. Placed(t)'
    BY <1>2, <1>t, <1>p, <1>i DEF Rebuild, Placed, RunnerAt, SetupAt, ApiAt, WithRecord, PhaseInv,
       AfterLoad, AfterOpen, AfterClose, localVars
  <2>2. Inside(t)
    BY <1>2, <1>t, <1>p, <1>q, <1>i DEF Rebuild, Inside, Alone, Placed, RunnerAt, SetupAt, ApiAt,
       AfterLoad, AfterOpen, AfterClose, localVars, serverVars
  <2>3. QED
    BY <1>p, <2>1, <2>2, PhaseFrame
<1>3. ASSUME NEW t \in Threads, SwapItab(t) PROVE PhaseInv'
  <2>1. Placed(t)'
    BY <1>3, <1>t, <1>p, <1>i DEF SwapItab, Placed, RunnerAt, SetupAt, ApiAt, WithRecord, PhaseInv,
       AfterLoad, AfterOpen, AfterClose, localVars
  <2>2. Inside(t)
    BY <1>3, <1>t, <1>p, <1>q, <1>i DEF SwapItab, Inside, Alone, Placed, RunnerAt, SetupAt, ApiAt,
       AfterLoad, AfterOpen, AfterClose, localVars, serverVars
  <2>3. QED
    BY <1>p, <2>1, <2>2, PhaseFrame
<1>4. ASSUME NEW t \in Threads, SwapData(t) PROVE PhaseInv'
  <2>1. Placed(t)'
    BY <1>4, <1>t, <1>p, <1>i DEF SwapData, Placed, RunnerAt, SetupAt, ApiAt, WithRecord, PhaseInv,
       AfterLoad, AfterOpen, AfterClose, localVars
  <2>2. Inside(t)
    BY <1>4, <1>t, <1>p, <1>q, <1>i DEF SwapData, Inside, Alone, Placed, RunnerAt, SetupAt, ApiAt,
       AfterLoad, AfterOpen, AfterClose, localVars, serverVars
  <2>3. QED
    BY <1>p, <2>1, <2>2, PhaseFrame
<1>5. ASSUME NEW t \in Threads, UnlockReload(t) PROVE PhaseInv'
  <2>1. Placed(t)'
    <3>1. Placed(t) /\ UNCHANGED <<task, rd>>
      BY <1>5, <1>i DEF UnlockReload, localVars
    <3>2. t = Runner => RunnerAt'
      BY <1>5, <1>t, <1>p, <3>1 DEF UnlockReload, Placed, RunnerAt, AfterLoad
    <3>3. t \in SetupThreads => SetupAt(t)'
      <4>1. t \in SetupThreads => pc[t] = "unlock" /\ pc'[t] = "return"
        BY <1>5, <1>t DEF UnlockReload, PhaseInv
      <4> QED
        BY <3>1, <4>1 DEF Placed, SetupAt
    <3>4. t \in ApiThreads => ApiAt(t)'
      BY <1>5, <3>1 DEF UnlockReload, Placed, ApiAt
    <3>5. rd[t] \in BootRegs
      BY <1>5, <3>1 DEF UnlockReload, Placed, WithRecord
    <3> QED
      BY <3>1, <3>2, <3>3, <3>4, <3>5 DEF Placed
  <2>2. Inside(t)
    <3>1. pc[t] = "unlock" /\ pc'[t] \in {"return", "next"}
      BY <1>5, <1>t DEF UnlockReload
    <3>2. Alone(t) /\ UNCHANGED <<listening, queue>>
      BY <1>5, <1>t DEF UnlockReload, Alone, localVars
    <3>3. QED
      BY <1>q, <3>1, <3>2 DEF Inside
  <2>3. QED
    BY <1>p, <2>1, <2>2, PhaseFrame
<1>6. ASSUME NEW t \in Threads, LoadSettings(t) PROVE PhaseInv'
  <2>1. Placed(t)'
    <3>1. Placed(t) /\ UNCHANGED <<task, rd>>
      BY <1>6, <1>i DEF LoadSettings, localVars
    <3>2. t = Runner => RunnerAt'
      BY <1>6, <1>t, <1>p, <3>1 DEF LoadSettings, Placed, RunnerAt, AfterLoad
    <3>3. t \in SetupThreads => SetupAt(t)'
      BY <1>6, <1>t, <1>p, <3>1 DEF LoadSettings, Placed, SetupAt, AfterLoad
    <3>4. t \in ApiThreads => ApiAt(t)'
      BY <1>6, <3>1 DEF LoadSettings, Placed, ApiAt
    <3>5. rd[t] \in BootRegs
      BY <1>6, <3>1 DEF LoadSettings, Placed, WithRecord
    <3> QED
      BY <3>1, <3>2, <3>3, <3>4, <3>5 DEF Placed
  <2>2. Inside(t)
    <3>1. pc[t] = "load" /\ pc'[t] \in {"apply", "next", "return", "check"}
      BY <1>6, <1>t, AfterSteps DEF LoadSettings
    <3>2. Alone(t) /\ UNCHANGED <<listening, queue>>
      BY <1>6, <1>t DEF LoadSettings, Alone, localVars
    <3>3. QED
      BY <1>q, <3>1, <3>2 DEF Inside
  <2>3. QED
    BY <1>p, <2>1, <2>2, PhaseFrame
<1>7. ASSUME NEW t \in Threads, ApplySettings(t) PROVE PhaseInv'
  <2>1. Placed(t)'
    <3>1. Placed(t) /\ UNCHANGED <<task, rd>>
      BY <1>7, <1>i DEF ApplySettings, localVars
    <3>2. t = Runner => RunnerAt'
      BY <1>7, <1>t, <1>p, <3>1 DEF ApplySettings, Placed, RunnerAt, AfterLoad
    <3>3. t \in SetupThreads => SetupAt(t)'
      BY <1>7, <1>t, <1>p, <3>1 DEF ApplySettings, Placed, SetupAt, AfterLoad
    <3>4. t \in ApiThreads => ApiAt(t)'
      BY <1>7, <3>1 DEF ApplySettings, Placed, ApiAt
    <3>5. rd[t] \in BootRegs
      BY <1>7, <3>1 DEF ApplySettings, Placed, WithRecord
    <3> QED
      BY <3>1, <3>2, <3>3, <3>4, <3>5 DEF Placed
  <2>2. Inside(t)
    <3>1. pc[t] = "apply" /\ pc'[t] \in {"next", "return", "check"}
      BY <1>7, <1>t, AfterSteps DEF ApplySettings
    <3>2. Alone(t) /\ UNCHANGED <<listening, queue>>
      BY <1>7, <1>t DEF ApplySettings, Alone, localVars
    <3>3. QED
      BY <1>q, <3>1, <3>2 DEF Inside
  <2>3. QED
    BY <1>p, <2>1, <2>2, PhaseFrame
<1>8. ASSUME NEW t \in Threads, CheckOpen(t) PROVE PhaseInv'
  <2>1. Placed(t)'
    <3>1. Placed(t) /\ UNCHANGED <<task, rd>>
      BY <1>8, <1>i DEF CheckOpen
    <3>2. t = Runner => RunnerAt'
      BY <1>8, <1>t, <1>p, <3>1 DEF CheckOpen, Placed, RunnerAt, AfterOpen
    <3>3. t \in SetupThreads => SetupAt(t)'
      BY <1>8, <1>t, <1>p, <3>1 DEF CheckOpen, Placed, SetupAt, AfterOpen
    <3>4. t \in ApiThreads => ApiAt(t)'
      BY <1>8, <3>1 DEF CheckOpen, Placed, ApiAt
    <3>5. rd[t] \in BootRegs
      BY <1>8, <3>1 DEF CheckOpen, Placed, WithRecord
    <3> QED
      BY <3>1, <3>2, <3>3, <3>4, <3>5 DEF Placed
  <2>2. Inside(t)
    <3>1. pc[t] = "check" /\ pc'[t] \in {"open", "next", "return", "unlock"}
      BY <1>8, <1>t, AfterSteps DEF CheckOpen
    <3>2. Alone(t) /\ UNCHANGED <<listening, queue>>
      BY <1>8, <1>t DEF CheckOpen, Alone
    <3>3. QED
      BY <1>q, <3>1, <3>2 DEF Inside
  <2>3. QED
    BY <1>p, <2>1, <2>2, PhaseFrame
<1>9. ASSUME NEW t \in Threads, OpenFails(t) PROVE PhaseInv'
  <2>1. Placed(t)'
    BY <1>9, <1>t, <1>p, <1>i DEF OpenFails, Placed, RunnerAt, SetupAt, ApiAt, WithRecord, PhaseInv,
       AfterLoad, AfterOpen, AfterClose, localVars
  <2>2. Inside(t)
    BY <1>9, <1>t, <1>p, <1>q, <1>i DEF OpenFails, Inside, Alone, Placed, RunnerAt, SetupAt, ApiAt,
       AfterLoad, AfterOpen, AfterClose, localVars, serverVars
  <2>3. QED
    BY <1>p, <2>1, <2>2, PhaseFrame
<1>10. ASSUME NEW t \in Threads, OpenSucceeds(t) PROVE PhaseInv'
  <2>1. Placed(t)'
    BY <1>10, <1>t, <1>p, <1>i DEF OpenSucceeds, Placed, RunnerAt, SetupAt, ApiAt, WithRecord, PhaseInv,
       AfterLoad, AfterOpen, AfterClose, localVars
  <2>2. Inside(t)
    BY <1>10, <1>t, <1>p, <1>q, <1>i DEF OpenSucceeds, Inside, Alone, Placed, RunnerAt, SetupAt, ApiAt,
       AfterLoad, AfterOpen, AfterClose, localVars, serverVars
  <2>3. QED
    BY <1>p, <2>1, <2>2, PhaseFrame
<1>11. ASSUME NEW t \in Threads, StoreHardware(t) PROVE PhaseInv'
  <2>1. Placed(t)'
    BY <1>11, <1>t, <1>p, <1>i DEF StoreHardware, Placed, RunnerAt, SetupAt, ApiAt, WithRecord, PhaseInv,
       AfterLoad, AfterOpen, AfterClose, localVars
  <2>2. Inside(t)
    BY <1>11, <1>t, <1>p, <1>q, <1>i DEF StoreHardware, Inside, Alone, Placed, RunnerAt, SetupAt, ApiAt,
       AfterLoad, AfterOpen, AfterClose, localVars, serverVars
  <2>3. QED
    BY <1>p, <2>1, <2>2, PhaseFrame
<1>12. ASSUME NEW t \in Threads, TakeHardware(t) PROVE PhaseInv'
  <2>1. Placed(t)'
    BY <1>12, <1>t, <1>p, <1>i DEF TakeHardware, Placed, RunnerAt, SetupAt, ApiAt, WithRecord, PhaseInv,
       AfterLoad, AfterOpen, AfterClose, localVars
  <2>2. Inside(t)
    BY <1>12, <1>t, <1>p, <1>q, <1>i DEF TakeHardware, Inside, Alone, Placed, RunnerAt, SetupAt, ApiAt,
       AfterLoad, AfterOpen, AfterClose, localVars, serverVars
  <2>3. QED
    BY <1>p, <2>1, <2>2, PhaseFrame
<1>13. ASSUME NEW t \in Threads, CancelHardware(t) PROVE PhaseInv'
  <2>1. Placed(t)'
    BY <1>13, <1>t, <1>p, <1>i DEF CancelHardware, Placed, RunnerAt, SetupAt, ApiAt, WithRecord, PhaseInv,
       AfterLoad, AfterOpen, AfterClose, localVars
  <2>2. Inside(t)
    BY <1>13, <1>t, <1>p, <1>q, <1>i DEF CancelHardware, Inside, Alone, Placed, RunnerAt, SetupAt, ApiAt,
       AfterLoad, AfterOpen, AfterClose, localVars, serverVars
  <2>3. QED
    BY <1>p, <2>1, <2>2, PhaseFrame
<1>14. ASSUME NEW t \in Threads, CloseHardware(t) PROVE PhaseInv'
  <2>1. Placed(t)'
    BY <1>14, <1>t, <1>p, <1>i DEF CloseHardware, Placed, RunnerAt, SetupAt, ApiAt, WithRecord, PhaseInv,
       AfterLoad, AfterOpen, AfterClose, localVars
  <2>2. Inside(t)
    BY <1>14, <1>t, <1>p, <1>q, <1>i DEF CloseHardware, Inside, Alone, Placed, RunnerAt, SetupAt, ApiAt,
       AfterLoad, AfterOpen, AfterClose, localVars, serverVars
  <2>3. QED
    BY <1>p, <2>1, <2>2, PhaseFrame
<1>15. ASSUME NEW t \in Threads, Return(t) PROVE PhaseInv'
  <2>1. Placed(t)'
    BY <1>15, <1>t, <1>p, <1>i DEF Return, Placed, RunnerAt, SetupAt, ApiAt, WithRecord, PhaseInv,
       AfterLoad, AfterOpen, AfterClose, localVars
  <2>2. Inside(t)
    BY <1>15, <1>t, <1>p, <1>q, <1>i DEF Return, Inside, Alone, Placed, RunnerAt, SetupAt, ApiAt,
       AfterLoad, AfterOpen, AfterClose, localVars, serverVars
  <2>3. QED
    BY <1>p, <2>1, <2>2, PhaseFrame
<1>16. ASSUME NEW t \in Threads, ReadItab(t) PROVE PhaseInv'
  <2>1. Placed(t)'
    BY <1>16, <1>t, <1>p, <1>i DEF ReadItab, Placed, RunnerAt, SetupAt, ApiAt, WithRecord, PhaseInv,
       AfterLoad, AfterOpen, AfterClose, localVars
  <2>2. Inside(t)
    BY <1>16, <1>t, <1>p, <1>q, <1>i DEF ReadItab, Inside, Alone, Placed, RunnerAt, SetupAt, ApiAt,
       AfterLoad, AfterOpen, AfterClose, localVars, serverVars
  <2>3. QED
    BY <1>p, <2>1, <2>2, PhaseFrame
<1>17. ASSUME NEW t \in Threads, ReadData(t) PROVE PhaseInv'
  <2>1. Placed(t)'
    BY <1>17, <1>t, <1>p, <1>i DEF ReadData, Placed, RunnerAt, SetupAt, ApiAt, WithRecord, PhaseInv,
       AfterLoad, AfterOpen, AfterClose, localVars
  <2>2. Inside(t)
    BY <1>17, <1>t, <1>p, <1>q, <1>i DEF ReadData, Inside, Alone, Placed, RunnerAt, SetupAt, ApiAt,
       AfterLoad, AfterOpen, AfterClose, localVars, serverVars
  <2>3. QED
    BY <1>p, <2>1, <2>2, PhaseFrame
<1>18. ASSUME NEW t \in Threads, Respond(t) PROVE PhaseInv'
  <2>1. Placed(t)'
    BY <1>18, <1>t, <1>p, <1>i DEF Respond, Placed, RunnerAt, SetupAt, ApiAt, WithRecord, PhaseInv,
       AfterLoad, AfterOpen, AfterClose, localVars
  <2>2. Inside(t)
    BY <1>18, <1>t, <1>p, <1>q, <1>i DEF Respond, Inside, Alone, Placed, RunnerAt, SetupAt, ApiAt,
       AfterLoad, AfterOpen, AfterClose, localVars, serverVars
  <2>3. QED
    BY <1>p, <2>1, <2>2, PhaseFrame
<1>19. ASSUME Start(Runner) PROVE PhaseInv'
  <2>1. Placed(Runner)'
    BY <1>19, <1>t, <1>p, <1>i DEF Start, Placed, RunnerAt, SetupAt, ApiAt, WithRecord, PhaseInv,
       AfterLoad, AfterOpen, AfterClose, localVars
  <2>2. Inside(Runner)
    BY <1>19, <1>t, <1>p, <1>q, <1>i DEF Start, Inside, Alone, Placed, RunnerAt, SetupAt, ApiAt,
       AfterLoad, AfterOpen, AfterClose, localVars, serverVars
  <2>3. QED
    BY <1>p, <2>1, <2>2, PhaseFrame
<1>20. ASSUME Snapshot(Runner) PROVE PhaseInv'
  <2>q. queue'[Runner] \in Seq(BootRegs)
    <3>1. queue'[Runner] = IF task[Runner] = "stop" THEN Reverse(order) ELSE order
      BY <1>20, <1>t, <1>p DEF Snapshot
    <3>2. QED
      BY <3>1, BootWalks
  <2>1. Placed(Runner)'
    BY <1>20, <1>t, <1>p, <1>i, <2>q DEF Snapshot, Placed, RunnerAt, SetupAt, ApiAt, WithRecord, PhaseInv,
       AfterLoad, AfterOpen, AfterClose, localVars
  <2>2. Inside(Runner)
    BY <1>20, <1>t, <1>p, <1>q, <1>i, <2>q DEF Snapshot, Inside, Alone, Placed, RunnerAt, SetupAt, ApiAt,
       AfterLoad, AfterOpen, AfterClose, localVars, serverVars
  <2>3. QED
    BY <1>p, <2>1, <2>2, PhaseFrame
<1>21. ASSUME NextRecord(Runner) PROVE PhaseInv'
  <2>0. queue[Runner] # <<>> /\ queue'[Runner] = Tail(queue[Runner]) /\ rd'[Runner] = Head(queue[Runner])
    BY <1>21, <1>t, <1>p DEF NextRecord
  <2>q. Head(queue[Runner]) \in BootRegs /\ Tail(queue[Runner]) \in Seq(BootRegs)
    BY <1>q, <2>0, HeadTailProperties
  <2>1. Placed(Runner)'
    BY <1>21, <1>t, <1>p, <1>i, <2>q, <2>0 DEF NextRecord, Placed, RunnerAt, SetupAt, ApiAt, WithRecord, PhaseInv,
       AfterLoad, AfterOpen, AfterClose, localVars
  <2>2. Inside(Runner)
    BY <1>21, <1>t, <1>p, <1>q, <1>i, <2>q, <2>0 DEF NextRecord, Inside, Alone, Placed, RunnerAt, SetupAt, ApiAt,
       AfterLoad, AfterOpen, AfterClose, localVars, serverVars
  <2>3. QED
    BY <1>p, <2>1, <2>2, PhaseFrame
<1>22. ASSUME LoopDone(Runner) PROVE PhaseInv'
  <2>1. Placed(Runner)'
    BY <1>22, <1>t, <1>p, <1>i DEF LoopDone, Placed, RunnerAt, SetupAt, ApiAt, WithRecord, PhaseInv,
       AfterLoad, AfterOpen, AfterClose, localVars
  <2>2. Inside(Runner)
    BY <1>22, <1>t, <1>p, <1>q, <1>i DEF LoopDone, Inside, Alone, Placed, RunnerAt, SetupAt, ApiAt,
       AfterLoad, AfterOpen, AfterClose, localVars, serverVars
  <2>3. QED
    BY <1>p, <2>1, <2>2, PhaseFrame
<1>30. ASSUME NEW t \in SetupThreads, NEW k \in Keys, Reload(t, k) PROVE PhaseInv'
  <2>1. listening /\ pc[Runner] = "serve" /\ devices[k] # 0
    BY <1>30 DEF Reload, PhaseInv
  <2>2. devices[k] \in BootRegs
    BY <2>1, StaticIndexes
  <2>3. Placed(t)'
    BY <1>30, <1>t, <1>p, <2>2 DEF Reload, Placed, SetupAt, RunnerAt, ApiAt
  <2>4. Alone(t) /\ UNCHANGED <<listening, queue>>
    BY <1>30, <1>t, <1>p DEF Reload, Alone
  <2>5. QED
    BY <1>p, <2>1, <2>3, <2>4, CallFrame
<1>31. ASSUME NEW t \in ApiThreads, NEW k \in Keys, Request(t, k) PROVE PhaseInv'
  <2>1. listening /\ pc[Runner] = "serve" /\ devices[k] # 0
    BY <1>31 DEF Request, PhaseInv
  <2>2. devices[k] \in BootRegs
    BY <2>1, StaticIndexes
  <2>3. Placed(t)'
    BY <1>31, <1>t, <1>p, <2>2 DEF Request, Placed, SetupAt, RunnerAt, ApiAt
  <2>4. Alone(t) /\ UNCHANGED <<listening, queue>>
    BY <1>31, <1>t, <1>p DEF Request, Alone
  <2>5. QED
    BY <1>p, <2>1, <2>3, <2>4, CallFrame
<1>32. ASSUME Bind(Runner) PROVE PhaseInv'
  <2>1. /\ Alone(Runner) /\ UNCHANGED <<queue, rd>>
        /\ \/ listening' = TRUE /\ pc'[Runner] = "serve" /\ task'[Runner] = task[Runner]
           \/ listening' = listening /\ pc'[Runner] = "snapshot" /\ task'[Runner] = "stop"
    BY <1>32, <1>t, <1>p DEF Bind, Alone
  <2>2. pc[Runner] = "bind" /\ task[Runner] = "boot" /\ ~ listening
    BY <1>32, <1>p, <1>i DEF Bind, Placed, RunnerAt, PhaseInv
  <2>3. Placed(Runner)'
    BY <1>p, <2>1, <2>2 DEF Placed, RunnerAt, WithRecord
  <2>4. QED
    BY <1>p, <2>1, <2>2, <2>3, RunnerFrame DEF Serving
<1>33. ASSUME StopServing(Runner) PROVE PhaseInv'
  <2>1. Alone(Runner) /\ UNCHANGED <<queue, rd, task>> /\ listening' = FALSE /\ pc'[Runner] = "drain"
    BY <1>33, <1>t, <1>p DEF StopServing, Alone, localVars
  <2>2. pc[Runner] = "serve" /\ task[Runner] = "boot"
    BY <1>33, <1>p, <1>i DEF StopServing, Placed, RunnerAt
  <2>3. Placed(Runner)'
    BY <1>p, <2>1, <2>2 DEF Placed, RunnerAt, WithRecord
  <2>4. QED
    BY <1>p, <2>1, <2>2, <2>3, RunnerFrame DEF Serving
<1>34. ASSUME Drained(Runner) PROVE PhaseInv'
  <2>1. /\ Alone(Runner) /\ UNCHANGED <<queue, rd, listening>>
        /\ pc'[Runner] = "snapshot" /\ task'[Runner] = "stop"
    BY <1>34, <1>t, <1>p DEF Drained, Alone
  <2>2. pc[Runner] = "drain" /\ ~ listening /\ \A h \in Handlers : pc[h] = "idle"
    BY <1>34, <1>p DEF Drained, PhaseInv, ServedOnly
  <2>3. Placed(Runner)'
    BY <1>p, <2>1, <2>2 DEF Placed, RunnerAt, WithRecord
  <2>4. QED
    BY <1>p, <2>1, <2>2, <2>3, RunnerFrame DEF Serving
<1>35. CASE ContextsEnd
  BY <1>35, ContextsEndOnly DEF PhaseInv, Placed, RunnerAt, SetupAt, ApiAt, Serving, localVars
<1>36. CASE UNCHANGED vars
  BY <1>36 DEF vars, PhaseInv, Placed, RunnerAt, SetupAt, ApiAt, Serving, localVars
<1>37. QED
  BY <1>1, <1>2, <1>3, <1>4, <1>5, <1>6, <1>7, <1>8, <1>9, <1>10, <1>11, <1>12, <1>13, <1>14, <1>15, <1>16, <1>17, <1>18, <1>19, <1>20, <1>21, <1>22, <1>30, <1>31, <1>32, <1>33, <1>34, <1>35, <1>36, ServedSteps DEF Served

\* While Run is on its way up or down no handler is at work: the step is Run's.
LEMMA RunAlone ==
  ASSUME ServedOnly, TypeInv, PhaseInv, [Next]_vars, ~ Serving
  PROVE  \/ Start(Runner) \/ Snapshot(Runner) \/ NextRecord(Runner) \/ LoopDone(Runner) \/ Bind(Runner)
         \/ LoadSettings(Runner) \/ ApplySettings(Runner)
         \/ CheckOpen(Runner) \/ OpenFails(Runner) \/ OpenSucceeds(Runner) \/ StoreHardware(Runner)
         \/ TakeHardware(Runner) \/ CancelHardware(Runner) \/ CloseHardware(Runner)
         \/ ContextsEnd \/ UNCHANGED vars
<1>p. /\ Runner \in Threads /\ Threads = {Runner} \union Handlers
      /\ SetupThreads \subseteq Handlers /\ ApiThreads \subseteq Handlers
  BY DEF Threads, Handlers, ServedOnly
<1>1. ~ listening /\ \A h \in Handlers : pc[h] = "idle"
  BY DEF PhaseInv, Serving
<1>2. RunnerAt
  BY <1>p DEF PhaseInv, Placed
<1>3. ~ (\E t \in SetupThreads, k \in Keys : Reload(t, k)) /\ ~ (\E t \in ApiThreads, k \in Keys : Request(t, k))
  BY <1>1 DEF Reload, Request
<1>4. ASSUME NEW t \in Handlers PROVE ~ (Served(t) \/ ReadItab(t) \/ ReadData(t) \/ Respond(t))
  <2>1. pc[t] = "idle"
    BY <1>1
  <2>2. QED
    BY <2>1 DEF Served, LockReload, Rebuild, SwapItab, SwapData, UnlockReload, LoadSettings, ApplySettings,
           CheckOpen, OpenFails, OpenSucceeds, StoreHardware, TakeHardware, CancelHardware, CloseHardware,
           Return, ReadItab, ReadData, Respond, Move
<1>5. ~ (LockReload(Runner) \/ Rebuild(Runner) \/ SwapItab(Runner) \/ SwapData(Runner) \/ UnlockReload(Runner)
         \/ Return(Runner) \/ ReadItab(Runner) \/ ReadData(Runner) \/ Respond(Runner)
         \/ Drained(Runner) \/ StopServing(Runner))
  BY <1>2 DEF RunnerAt, Serving, LockReload, Rebuild, SwapItab, SwapData, UnlockReload, Return, ReadItab,
         ReadData, Respond, Drained, StopServing, Move
<1>6. \A t \in Threads : Served(t) \/ ReadItab(t) \/ ReadData(t) \/ Respond(t) => t = Runner
  BY <1>p, <1>4
<1>7. QED
  BY <1>3, <1>5, <1>6, ServedSteps DEF Served

\* While Run serves it stays in its second part until it has drained.
LEMMA ServingOn ==
  ASSUME ServedOnly, TypeInv, PhaseInv, [Next]_vars, Serving
  PROVE  \/ Serving' /\ task'[Runner] = "boot"
         \/ task'[Runner] = "stop" /\ pc'[Runner] = "snapshot"
<1>t. /\ pc \in [Threads -> Steps] /\ task \in [Threads -> Tasks]
      /\ rd \in [Threads -> 0..MaxRegs] /\ obj \in [Threads -> Devs \union {NoDev}]
  BY DEF TypeInv, TypeOK, ThreadTypes
<1>p. /\ Runner \in Threads /\ Runner \notin SetupThreads /\ Runner \notin ApiThreads
      /\ Threads = {Runner} \union SetupThreads \union ApiThreads
  BY ThreadsDiffer DEF Threads, ServedOnly
<1>1. pc[Runner] \in {"serve", "drain"} /\ task[Runner] = "boot"
  BY <1>p DEF PhaseInv, Placed, RunnerAt, Serving
<1>2. ASSUME NEW t \in Threads, Served(t) \/ ReadItab(t) \/ ReadData(t) \/ Respond(t)
      PROVE  pc'[Runner] = pc[Runner] /\ task'[Runner] = task[Runner]
  <2>1. t # Runner
    BY <1>1, <1>2 DEF Served, LockReload, Rebuild, SwapItab, SwapData, UnlockReload, LoadSettings,
       ApplySettings, CheckOpen, OpenFails, OpenSucceeds, StoreHardware, TakeHardware, CancelHardware,
       CloseHardware, Return, ReadItab, ReadData, Respond, Move
  <2>2. Alone(t)
    BY <1>2, <1>t DEF Alone, Served, LockReload, Rebuild, SwapItab, SwapData, UnlockReload, LoadSettings,
       ApplySettings, CheckOpen, OpenFails, OpenSucceeds, StoreHardware, TakeHardware, CancelHardware,
       CloseHardware, Return, ReadItab, ReadData, Respond, Move, Goto, localVars
  <2>3. QED
    BY <1>p, <2>1, <2>2 DEF Alone
<1>3. ASSUME NEW t \in SetupThreads, NEW k \in Keys, Reload(t, k)
      PROVE  pc'[Runner] = pc[Runner] /\ task'[Runner] = task[Runner]
  BY <1>3, <1>t, <1>p DEF Reload, Goto
<1>4. ASSUME NEW t \in ApiThreads, NEW k \in Keys, Request(t, k)
      PROVE  pc'[Runner] = pc[Runner] /\ task'[Runner] = task[Runner]
  BY <1>4, <1>t, <1>p DEF Request, Move, Goto
<1>5. ~ (Start(Runner) \/ Snapshot(Runner) \/ NextRecord(Runner) \/ LoopDone(Runner) \/ Bind(Runner))
  BY <1>1 DEF Start, Snapshot, NextRecord, LoopDone, Bind, Move
<1>6. StopServing(Runner) => pc'[Runner] = "drain" /\ task'[Runner] = task[Runner]
  BY <1>t, <1>p DEF StopServing, Move, Goto, localVars
<1>7. Drained(Runner) => task'[Runner] = "stop" /\ pc'[Runner] = "snapshot"
  BY <1>t, <1>p DEF Drained, Move, Goto
<1>8. ContextsEnd \/ UNCHANGED vars => pc'[Runner] = pc[Runner] /\ task'[Runner] = task[Runner]
  BY ContextsEndOnly DEF vars, localVars
<1>9. CASE Drained(Runner)
  BY <1>7, <1>9
<1>10. CASE ~ Drained(Runner)
  <2>1. (pc'[Runner] = pc[Runner] \/ pc'[Runner] = "drain") /\ task'[Runner] = task[Runner]
    BY <1>2, <1>3, <1>4, <1>5, <1>6, <1>8, <1>10, ServedSteps
  <2>2. QED
    BY <1>1, <2>1 DEF Serving
<1>11. QED
  BY <1>9, <1>10

-----------------------------------------------------------------------------
(* Run and the handlers of requests, whatever else the host does *)

\* Handlers are at work only while Run serves, and listeners are open no longer.
HandlersInv ==
  /\ RunnerAt
  /\ listening => pc[Runner] = "serve"
  /\ ~ Serving => \A h \in Handlers : pc[h] = "idle"

\* At first no handler is at work.
LEMMA InitHandlersInv == Init => HandlersInv
BY ThreadsDiffer DEF Init, HandlersInv, RunnerAt, Serving, Threads, Handlers

\* What the others do leaves Run where it is.
LEMMA OthersLeaveRun ==
  ASSUME TypeInv, NEW t \in Threads, t # Runner,
         HostCall(t) \/ Continue(t) \/ Answer(t) \/ \E k \in Keys : Reload(t, k) \/ Request(t, k)
  PROVE  /\ UNCHANGED listening
         /\ \A u \in Threads \ {t} : pc'[u] = pc[u] /\ task'[u] = task[u]
<1> USE DEF Goto, Move
<1>t. pc \in [Threads -> Steps] /\ task \in [Threads -> Tasks]
  BY DEF TypeInv, TypeOK, ThreadTypes
<1>1. UNCHANGED listening
  <2>1. Continue(t) => UNCHANGED listening
    BY DEF Continue, NextReload, LockReload, Rebuild, SwapItab, SwapData, UnlockReload, LoadSettings,
           ApplySettings, CheckOpen, OpenFails, OpenSucceeds, StoreHardware, TakeHardware, CancelHardware,
           CloseHardware, Return
  <2>2. Answer(t) => UNCHANGED listening
    BY DEF Answer, ReadItab, ReadData, Respond
  <2>3. ASSUME NEW k \in Keys
        PROVE  /\ Unregister(t, k) \/ SetReloader(t, k) \/ RegisterConfigurable(t, k) => UNCHANGED listening
               /\ Reload(t, k) \/ Request(t, k) => UNCHANGED listening
               /\ \A d \in Devs : Register(t, k, d) => UNCHANGED listening
    BY DEF Unregister, SetReloader, RegisterConfigurable, Reload, Request, Register
  <2>4. ReloadAll(t) => UNCHANGED listening
    BY DEF ReloadAll
  <2> QED
    BY <2>1, <2>2, <2>3, <2>4 DEF HostCall
<1>2. ASSUME LockReload(t) \/ SwapItab(t) \/ SwapData(t) \/ UnlockReload(t)
      PROVE  \A u \in Threads \ {t} : pc'[u] = pc[u] /\ task'[u] = task[u]
  BY <1>t, <1>2 DEF LockReload, SwapItab, SwapData, UnlockReload, localVars
<1>3. CASE Continue(t) \/ Answer(t)
  BY <1>1, <1>2, <1>3, ContinueLockFree DEF LockFree
<1>4. CASE HostCall(t) \/ \E k \in Keys : Reload(t, k) \/ Request(t, k)
  BY <1>1, <1>4, CallLockFree DEF LockFree
<1> QED
  BY <1>3, <1>4

\* A handler that is idle begins a call only while the listeners are open.
LEMMA IdleHandler ==
  ASSUME NEW h \in Handlers, pc[h] = "idle", ~ listening
  PROVE  /\ ~ (Continue(h) \/ Answer(h))
         /\ \A k \in Keys : ~ Request(h, k) /\ (h \in SetupThreads => ~ Reload(h, k))
<1>1. ~ Continue(h)
  BY DEF Continue, NextReload, LockReload, Rebuild, SwapItab, SwapData, UnlockReload, LoadSettings,
         ApplySettings, CheckOpen, OpenFails, OpenSucceeds, StoreHardware, TakeHardware, CancelHardware,
         CloseHardware, Return, Move
<1>2. ~ Answer(h)
  BY DEF Answer, ReadItab, ReadData, Respond, Move
<1>3. \A k \in Keys : ~ Request(h, k) /\ (h \in SetupThreads => ~ Reload(h, k))
  BY DEF Request, Reload
<1> QED
  BY <1>1, <1>2, <1>3

\* Run's work on one record keeps it in its loop.
LEMMA RunWorks ==
  ASSUME TypeInv, RunnerAt, Continue(Runner)
  PROVE  RunnerAt' /\ ~ Serving /\ ~ Serving' /\ UNCHANGED listening /\ \A h \in Threads \ {Runner} : pc'[h] = pc[h]
<1> USE DEF Goto, Move
<1>t. pc \in [Threads -> Steps] /\ task \in [Threads -> Tasks] /\ Runner \in Threads
  BY DEF TypeInv, TypeOK, ThreadTypes, Threads
<1>1. ASSUME LoadSettings(Runner)
      PROVE  /\ pc[Runner] \notin {"serve", "drain"} /\ pc'[Runner] \notin {"serve", "drain"} /\ RunnerAt'
             /\ UNCHANGED listening /\ \A h \in Threads \ {Runner} : pc'[h] = pc[h]
  BY <1>1, <1>t DEF LoadSettings, RunnerAt, AfterLoad, localVars
<1>2. ASSUME ApplySettings(Runner)
      PROVE  /\ pc[Runner] \notin {"serve", "drain"} /\ pc'[Runner] \notin {"serve", "drain"} /\ RunnerAt'
             /\ UNCHANGED listening /\ \A h \in Threads \ {Runner} : pc'[h] = pc[h]
  BY <1>2, <1>t DEF ApplySettings, RunnerAt, AfterLoad, localVars
<1>3. ASSUME CheckOpen(Runner)
      PROVE  /\ pc[Runner] \notin {"serve", "drain"} /\ pc'[Runner] \notin {"serve", "drain"} /\ RunnerAt'
             /\ UNCHANGED listening /\ \A h \in Threads \ {Runner} : pc'[h] = pc[h]
  BY <1>3, <1>t DEF CheckOpen, RunnerAt, AfterOpen, localVars
<1>4. ASSUME OpenFails(Runner)
      PROVE  /\ pc[Runner] \notin {"serve", "drain"} /\ pc'[Runner] \notin {"serve", "drain"} /\ RunnerAt'
             /\ UNCHANGED listening /\ \A h \in Threads \ {Runner} : pc'[h] = pc[h]
  BY <1>4, <1>t DEF OpenFails, RunnerAt, AfterOpen, localVars
<1>5. ASSUME OpenSucceeds(Runner)
      PROVE  /\ pc[Runner] \notin {"serve", "drain"} /\ pc'[Runner] \notin {"serve", "drain"} /\ RunnerAt'
             /\ UNCHANGED listening /\ \A h \in Threads \ {Runner} : pc'[h] = pc[h]
  BY <1>5, <1>t DEF OpenSucceeds, RunnerAt, localVars
<1>6. ASSUME StoreHardware(Runner)
      PROVE  /\ pc[Runner] \notin {"serve", "drain"} /\ pc'[Runner] \notin {"serve", "drain"} /\ RunnerAt'
             /\ UNCHANGED listening /\ \A h \in Threads \ {Runner} : pc'[h] = pc[h]
  BY <1>6, <1>t DEF StoreHardware, RunnerAt, AfterOpen, localVars
<1>7. ASSUME TakeHardware(Runner)
      PROVE  /\ pc[Runner] \notin {"serve", "drain"} /\ pc'[Runner] \notin {"serve", "drain"} /\ RunnerAt'
             /\ UNCHANGED listening /\ \A h \in Threads \ {Runner} : pc'[h] = pc[h]
  BY <1>7, <1>t DEF TakeHardware, RunnerAt, AfterClose, localVars
<1>8. ASSUME CancelHardware(Runner)
      PROVE  /\ pc[Runner] \notin {"serve", "drain"} /\ pc'[Runner] \notin {"serve", "drain"} /\ RunnerAt'
             /\ UNCHANGED listening /\ \A h \in Threads \ {Runner} : pc'[h] = pc[h]
  BY <1>8, <1>t DEF CancelHardware, RunnerAt, localVars
<1>9. ASSUME CloseHardware(Runner)
      PROVE  /\ pc[Runner] \notin {"serve", "drain"} /\ pc'[Runner] \notin {"serve", "drain"} /\ RunnerAt'
             /\ UNCHANGED listening /\ \A h \in Threads \ {Runner} : pc'[h] = pc[h]
  BY <1>9, <1>t DEF CloseHardware, RunnerAt, AfterClose, localVars
<1>10. ~ (NextReload(Runner) \/ LockReload(Runner) \/ Rebuild(Runner) \/ SwapItab(Runner) \/ SwapData(Runner)
        \/ UnlockReload(Runner) \/ Return(Runner))
  BY DEF RunnerAt, NextReload, LockReload, Rebuild, SwapItab, SwapData, UnlockReload, Return
<1> QED
  BY <1>1, <1>2, <1>3, <1>4, <1>5, <1>6, <1>7, <1>8, <1>9, <1>10 DEF Continue, Serving

\* Every step keeps handlers inside the time Run serves, if Shutdown waits for them.
LEMMA NextHandlersInv ==
  ASSUME DrainTimesOut = FALSE, TypeInv, HandlersInv, [Next]_vars PROVE HandlersInv'
<1> USE DEF Goto, Move
<1>t. pc \in [Threads -> Steps] /\ task \in [Threads -> Tasks]
  BY DEF TypeInv, TypeOK, ThreadTypes
<1>p. /\ Runner \in Threads /\ Runner \notin Handlers /\ Handlers \subseteq Threads /\ Runner \notin HostThreads
      /\ HostThreads \subseteq Threads /\ HostThreads \intersect Handlers = {}
      /\ Handlers = SetupThreads \union ApiThreads /\ Threads = {Runner} \union HostThreads \union Handlers
      /\ SetupThreads \intersect ApiThreads = {}
  BY ThreadsDiffer DEF Threads, Handlers
<1>1. ASSUME NEW t \in Threads, t # Runner, UNCHANGED listening,
             \A u \in Threads \ {t} : pc'[u] = pc[u] /\ task'[u] = task[u],
             t \in Handlers => ~ (pc[t] = "idle" /\ ~ listening)
      PROVE  HandlersInv'
  <2>1. pc'[Runner] = pc[Runner] /\ task'[Runner] = task[Runner]
    BY <1>p, <1>1
  <2>2. RunnerAt' /\ (listening' => pc'[Runner] = "serve")
    BY <1>1, <2>1 DEF HandlersInv, RunnerAt
  <2>3. ASSUME ~ Serving', NEW h \in Handlers PROVE pc'[h] = "idle"
    <3>1. ~ Serving /\ pc[h] = "idle" /\ ~ listening
      BY <2>1, <2>3 DEF HandlersInv, Serving
    <3>2. t \notin Handlers
      BY <1>1, <3>1 DEF HandlersInv
    <3> QED
      BY <1>p, <1>1, <3>1, <3>2
  <2> QED
    BY <2>2, <2>3 DEF HandlersInv
<1>2. ASSUME NEW t \in Threads, t # Runner, Continue(t) \/ (t \in ApiThreads /\ Answer(t)) PROVE HandlersInv'
  BY <1>1, <1>2, OthersLeaveRun, IdleHandler
<1>3. ASSUME NEW t \in HostThreads, HostCall(t) PROVE HandlersInv'
  BY <1>p, <1>1, <1>3, OthersLeaveRun
<1>4. ASSUME NEW t \in SetupThreads, NEW k \in Keys, Reload(t, k) PROVE HandlersInv'
  BY <1>p, <1>1, <1>4, OthersLeaveRun, IdleHandler
<1>5. ASSUME NEW t \in ApiThreads, NEW k \in Keys, Request(t, k) PROVE HandlersInv'
  BY <1>p, <1>1, <1>5, OthersLeaveRun, IdleHandler
<1>6. CASE Continue(Runner)
  <2>1. RunnerAt' /\ ~ Serving /\ ~ Serving' /\ UNCHANGED listening /\ \A h \in Threads \ {Runner} : pc'[h] = pc[h]
    BY <1>6, RunWorks DEF HandlersInv
  <2>2. ~ listening
    BY <2>1 DEF HandlersInv, Serving
  <2> QED
    BY <1>p, <2>1, <2>2 DEF HandlersInv
<1>7. ASSUME Start(Runner) \/ Snapshot(Runner) \/ NextRecord(Runner) \/ LoopDone(Runner) PROVE HandlersInv'
  <2>1. RunnerAt' /\ ~ Serving
    BY <1>p, <1>t, <1>7 DEF HandlersInv, RunnerAt, Serving, Start, Snapshot, NextRecord, LoopDone
  <2>2. UNCHANGED listening /\ \A h \in Threads \ {Runner} : pc'[h] = pc[h]
    BY <1>t, <1>7 DEF Start, Snapshot, NextRecord, LoopDone
  <2>3. ~ listening
    BY <2>1 DEF HandlersInv, Serving
  <2> QED
    BY <1>p, <2>1, <2>2, <2>3 DEF HandlersInv
<1>8. CASE Bind(Runner)
  <2>1. RunnerAt' /\ ~ Serving /\ ~ listening /\ (listening' => pc'[Runner] = "serve")
    BY <1>p, <1>t, <1>8 DEF HandlersInv, RunnerAt, Serving, Bind
  <2>2. \A h \in Threads \ {Runner} : pc'[h] = pc[h]
    BY <1>t, <1>8 DEF Bind
  <2> QED
    BY <1>p, <2>1, <2>2 DEF HandlersInv
<1>9. CASE StopServing(Runner)
  <2>1. RunnerAt' /\ Serving' /\ ~ listening'
    BY <1>p, <1>t, <1>9 DEF HandlersInv, RunnerAt, Serving, StopServing, localVars
  <2> QED
    BY <2>1 DEF HandlersInv
<1>10. CASE Drained(Runner)
  <2>1. RunnerAt' /\ (\A h \in Handlers : pc[h] = "idle") /\ ~ listening /\ UNCHANGED listening
    BY <1>p, <1>t, <1>10 DEF HandlersInv, RunnerAt, Drained
  <2>2. \A h \in Threads \ {Runner} : pc'[h] = pc[h]
    BY <1>t, <1>10 DEF Drained
  <2> QED
    BY <1>p, <2>1, <2>2 DEF HandlersInv
<1>11. CASE ContextsEnd \/ UNCHANGED vars
  BY <1>11, ContextsEndOnly DEF vars, localVars, HandlersInv, RunnerAt, Serving
<1> QED
  BY <1>p, <1>2, <1>3, <1>4, <1>5, <1>6, <1>7, <1>8, <1>9, <1>10, <1>11 DEF Next, RunStep, ContextsEnd

\* Run closes no hardware while a handler of a request is running, whatever
\* the host registers, unregisters and reloads meanwhile: the listeners open
\* after the devices are up, and Shutdown waits for the handlers, unless its 5
\* seconds are over (server.go, Run).
THEOREM DrainedFirst == ASSUME DrainTimesOut = FALSE PROVE Spec => []DrainedBeforeClose
<1>1. Init => TypeInv /\ HandlersInv
  BY InitTypeInv, InitHandlersInv
<1>2. TypeInv /\ HandlersInv /\ [Next]_vars => (TypeInv /\ HandlersInv)'
  BY NextTypeInv, NextHandlersInv
<1>3. HandlersInv => DrainedBeforeClose
  BY DEF HandlersInv, DrainedBeforeClose, RunnerAt, Serving
<1>4. QED
  BY <1>1, <1>2, <1>3, PTL DEF Spec

-----------------------------------------------------------------------------
(* Where the open hardware is *)

\* The steps at which a goroutine has a record to itself.
Working == {"load", "apply", "check", "open", "store", "take", "cancel", "close", "rebuild", "swap",
            "swapped", "unlock"}

\* Two goroutines never work on one record: Run works alone, and Reloads of
\* one record exclude each other.
LEMMA OneWorksOn ==
  ASSUME ServedOnly, PhaseInv, HolderInv, NEW t \in Threads, NEW u \in Threads,
         pc[t] \in Working, pc[u] \in Working, rd[t] = rd[u]
  PROVE  t = u
<1>p. /\ Runner \in Threads /\ Threads = {Runner} \union Handlers
      /\ Handlers = SetupThreads \union ApiThreads
  BY DEF Threads, Handlers, ServedOnly
<1>1. RunnerAt /\ Placed(t) /\ Placed(u)
  BY <1>p DEF PhaseInv, Placed
<1>2. CASE t = Runner \/ u = Runner
  <2>1. ~ Serving
    BY <1>2 DEF Serving, Working
  <2>2. \A h \in Handlers : pc[h] = "idle"
    BY <2>1 DEF PhaseInv
  <2>3. QED
    BY <1>p, <2>2 DEF Working
<1>3. CASE t # Runner /\ u # Runner
  <2>1. t \in SetupThreads /\ u \in SetupThreads
    BY <1>p, <1>1, <1>3 DEF Placed, ApiAt, Working
  <2>2. InReload(t) /\ InReload(u)
    BY <1>1, <2>1 DEF Placed, SetupAt, InReload, Working
  <2>3. QED
    BY <2>2 DEF HolderInv
<1>4. QED
  BY <1>2, <1>3

\* A goroutine that opens the device of its record, and a Reload that has taken
\* the old hardware of its own, ...
Emptied(t) ==
  \/ pc[t] \in {"open", "store"}
  \/ task[t] = "reload" /\ pc[t] \in {"cancel", "close", "swap", "swapped", "load", "apply", "check"}

\* ... has a record without hardware.
OpenEmpty == \A t \in Threads : Emptied(t) => hw[rd[t]] = 0

\* An open session is on its record, or in the hands of the goroutine that
\* works on that record.
SessAt ==
  \A s \in Sessions : Open(s) =>
    /\ sess[s].reg \in BootRegs
    /\ \/ hw[sess[s].reg] = s
       \/ \E t \in Threads : tok[t] = s /\ rd[t] = sess[s].reg

HwInv == OpenEmpty /\ SessAt

\* Nothing is open at first.
LEMMA InitHwInv == Init => HwInv
BY DEF Init, HwInv, OpenEmpty, Emptied, SessAt, Open

\* A step of t that moves no session.
NothingMoved(t) ==
  /\ UNCHANGED <<hw, sess, tok>>
  /\ \A u \in Threads \ {t} : pc'[u] = pc[u] /\ rd'[u] = rd[u] /\ task'[u] = task[u]
  /\ tok[t] # 0 => rd'[t] = rd[t]
  /\ Emptied(t)' => hw[rd'[t]] = 0 \/ (Emptied(t) /\ rd'[t] = rd[t])

\* Such a step keeps HwInv.
LEMMA HwFrame == ASSUME HwInv, NEW t \in Threads, NothingMoved(t) PROVE HwInv'
<1>1. OpenEmpty'
  BY DEF HwInv, OpenEmpty, Emptied, NothingMoved
<1>2. SessAt'
  <2> SUFFICES ASSUME NEW s \in Sessions, Open(s)'
               PROVE  /\ sess'[s].reg \in BootRegs
                      /\ \/ hw'[sess'[s].reg] = s
                         \/ \E u \in Threads : tok'[u] = s /\ rd'[u] = sess'[s].reg
    BY DEF SessAt
  <2>1. Open(s) /\ sess' = sess /\ hw' = hw /\ tok' = tok
    BY DEF Open, NothingMoved
  <2>2. s # 0
    BY DEF Sessions
  <2>3. \A u \in Threads : tok[u] = s => rd'[u] = rd[u]
    BY <2>2 DEF NothingMoved
  <2>4. QED
    BY <2>1, <2>3 DEF HwInv, SessAt
<1>3. QED
  BY <1>1, <1>2 DEF HwInv

\* Every step keeps HwInv: what a Reload opens replaces nothing.
LEMMA NextHwInv ==
  ASSUME ServedOnly, TypeInv, SessionInv, HolderInv, Static, PhaseInv, HwInv, [Next]_vars PROVE HwInv'
<1> USE DEF Goto, Move
<1>t. /\ pc \in [Threads -> Steps] /\ task \in [Threads -> Tasks] /\ rd \in [Threads -> 0..MaxRegs]
      /\ obj \in [Threads -> Devs \union {NoDev}] /\ tok \in [Threads -> 0..MaxSessions]
      /\ hw \in [Regs -> 0..MaxSessions] /\ opens \in 0..MaxSessions
      /\ sess \in [Sessions -> [reg : 0..MaxRegs, dev : Devs \union {NoDev},
                                st : {"none", "open", "cancelled", "closed"}, run : BOOLEAN]]
  BY DEF TypeInv, TypeOK, ThreadTypes, RecordTypes, HardwareTypes
<1>p. /\ Runner \in Threads /\ SetupThreads \subseteq Threads /\ ApiThreads \subseteq Threads
      /\ BootRegs \subseteq Regs
  BY BootRange DEF Threads
<1>h. \A t \in Threads : pc[t] \in {"store", "cancel", "close"} <=> tok[t] # 0
  BY DEF SessionInv, Holding
<1>i. \A t \in Threads : Placed(t)
  BY DEF PhaseInv
<1>a. \A t \in Threads :
        /\ AfterLoad(task[t]) \in {"next", "return", "check"}
        /\ AfterOpen(task[t]) \in {"next", "return", "unlock"}
        /\ AfterClose(task[t]) \in {"next", "return", "swap"}
  BY <1>t, AfterSteps
<1>1. ASSUME NEW t \in Threads, NEW k \in Keys, Reload(t, k) PROVE HwInv'
  <2>1. NothingMoved(t)
    BY <1>1, <1>t, <1>a, <1>h DEF Reload, NothingMoved, Emptied, recordVars, deviceVars, hwVars, localVars
  <2>2. QED
    BY <2>1, HwFrame
<1>2. ASSUME NEW t \in Threads, NEW k \in Keys, Request(t, k) PROVE HwInv'
  <2>1. NothingMoved(t)
    BY <1>2, <1>t, <1>a, <1>h DEF Request, NothingMoved, Emptied, recordVars, deviceVars, hwVars, localVars
  <2>2. QED
    BY <2>1, HwFrame
<1>3. ASSUME NEW t \in Threads, LockReload(t) PROVE HwInv'
  <2>1. NothingMoved(t)
    BY <1>3, <1>t, <1>a, <1>h DEF LockReload, NothingMoved, Emptied, recordVars, deviceVars, hwVars, localVars
  <2>2. QED
    BY <2>1, HwFrame
<1>4. ASSUME NEW t \in Threads, Rebuild(t) PROVE HwInv'
  <2>1. NothingMoved(t)
    BY <1>4, <1>t, <1>a, <1>h DEF Rebuild, NothingMoved, Emptied, recordVars, deviceVars, hwVars, localVars
  <2>2. QED
    BY <2>1, HwFrame
<1>5. ASSUME NEW t \in Threads, SwapItab(t) PROVE HwInv'
  <2>1. NothingMoved(t)
    BY <1>5, <1>t, <1>a, <1>h DEF SwapItab, NothingMoved, Emptied, recordVars, deviceVars, hwVars, localVars
  <2>2. QED
    BY <2>1, HwFrame
<1>6. ASSUME NEW t \in Threads, SwapData(t) PROVE HwInv'
  <2>1. NothingMoved(t)
    BY <1>6, <1>t, <1>a, <1>h DEF SwapData, NothingMoved, Emptied, recordVars, deviceVars, hwVars, localVars
  <2>2. QED
    BY <2>1, HwFrame
<1>7. ASSUME NEW t \in Threads, UnlockReload(t) PROVE HwInv'
  <2>1. NothingMoved(t)
    BY <1>7, <1>t, <1>a, <1>h DEF UnlockReload, NothingMoved, Emptied, recordVars, deviceVars, hwVars, localVars
  <2>2. QED
    BY <2>1, HwFrame
<1>8. ASSUME NEW t \in Threads, LoadSettings(t) PROVE HwInv'
  <2>1. NothingMoved(t)
    BY <1>8, <1>t, <1>a, <1>h DEF LoadSettings, NothingMoved, Emptied, recordVars, deviceVars, hwVars, localVars
  <2>2. QED
    BY <2>1, HwFrame
<1>9. ASSUME NEW t \in Threads, ApplySettings(t) PROVE HwInv'
  <2>1. NothingMoved(t)
    BY <1>9, <1>t, <1>a, <1>h DEF ApplySettings, NothingMoved, Emptied, recordVars, deviceVars, hwVars, localVars
  <2>2. QED
    BY <2>1, HwFrame
<1>10. ASSUME NEW t \in Threads, CheckOpen(t) PROVE HwInv'
  <2>1. NothingMoved(t)
    BY <1>10, <1>t, <1>a, <1>h DEF CheckOpen, NothingMoved, Emptied, recordVars, deviceVars, hwVars, localVars
  <2>2. QED
    BY <2>1, HwFrame
<1>11. ASSUME NEW t \in Threads, OpenFails(t) PROVE HwInv'
  <2>1. NothingMoved(t)
    BY <1>11, <1>t, <1>a, <1>h DEF OpenFails, NothingMoved, Emptied, recordVars, deviceVars, hwVars, localVars
  <2>2. QED
    BY <2>1, HwFrame
<1>12. ASSUME NEW t \in Threads, Return(t) PROVE HwInv'
  <2>1. NothingMoved(t)
    BY <1>12, <1>t, <1>a, <1>h DEF Return, NothingMoved, Emptied, recordVars, deviceVars, hwVars, localVars
  <2>2. QED
    BY <2>1, HwFrame
<1>13. ASSUME NEW t \in Threads, ReadItab(t) PROVE HwInv'
  <2>1. NothingMoved(t)
    BY <1>13, <1>t, <1>a, <1>h DEF ReadItab, NothingMoved, Emptied, recordVars, deviceVars, hwVars, localVars
  <2>2. QED
    BY <2>1, HwFrame
<1>14. ASSUME NEW t \in Threads, ReadData(t) PROVE HwInv'
  <2>1. NothingMoved(t)
    BY <1>14, <1>t, <1>a, <1>h DEF ReadData, NothingMoved, Emptied, recordVars, deviceVars, hwVars, localVars
  <2>2. QED
    BY <2>1, HwFrame
<1>15. ASSUME NEW t \in Threads, Respond(t) PROVE HwInv'
  <2>1. NothingMoved(t)
    BY <1>15, <1>t, <1>a, <1>h DEF Respond, NothingMoved, Emptied, recordVars, deviceVars, hwVars, localVars
  <2>2. QED
    BY <2>1, HwFrame
<1>16. ASSUME NEW t \in Threads, Start(t) PROVE HwInv'
  <2>1. NothingMoved(t)
    BY <1>16, <1>t, <1>a, <1>h DEF Start, NothingMoved, Emptied, recordVars, deviceVars, hwVars, localVars
  <2>2. QED
    BY <2>1, HwFrame
<1>17. ASSUME NEW t \in Threads, Snapshot(t) PROVE HwInv'
  <2>1. NothingMoved(t)
    BY <1>17, <1>t, <1>a, <1>h DEF Snapshot, NothingMoved, Emptied, recordVars, deviceVars, hwVars, localVars
  <2>2. QED
    BY <2>1, HwFrame
<1>18. ASSUME NEW t \in Threads, NextRecord(t) PROVE HwInv'
  <2>1. NothingMoved(t)
    BY <1>18, <1>t, <1>a, <1>h DEF NextRecord, NothingMoved, Emptied, recordVars, deviceVars, hwVars, localVars
  <2>2. QED
    BY <2>1, HwFrame
<1>19. ASSUME NEW t \in Threads, LoopDone(t) PROVE HwInv'
  <2>1. NothingMoved(t)
    BY <1>19, <1>t, <1>a, <1>h DEF LoopDone, NothingMoved, Emptied, recordVars, deviceVars, hwVars, localVars
  <2>2. QED
    BY <2>1, HwFrame
<1>20. ASSUME NEW t \in Threads, Bind(t) PROVE HwInv'
  <2>1. NothingMoved(t)
    BY <1>20, <1>t, <1>a, <1>h DEF Bind, NothingMoved, Emptied, recordVars, deviceVars, hwVars, localVars
  <2>2. QED
    BY <2>1, HwFrame
<1>21. ASSUME NEW t \in Threads, StopServing(t) PROVE HwInv'
  <2>1. NothingMoved(t)
    BY <1>21, <1>t, <1>a, <1>h DEF StopServing, NothingMoved, Emptied, recordVars, deviceVars, hwVars, localVars
  <2>2. QED
    BY <2>1, HwFrame
<1>22. ASSUME NEW t \in Threads, Drained(t) PROVE HwInv'
  <2>1. NothingMoved(t)
    BY <1>22, <1>t, <1>a, <1>h DEF Drained, NothingMoved, Emptied, recordVars, deviceVars, hwVars, localVars
  <2>2. QED
    BY <2>1, HwFrame
<1>40. ASSUME NEW t \in Threads, OpenSucceeds(t) PROVE HwInv'
  <2> DEFINE s == opens + 1
  <2>1. /\ pc[t] = "open" /\ s \in Sessions /\ sess[s].st = "none" /\ UNCHANGED <<hw, rd>>
        /\ tok' = [tok EXCEPT ![t] = s] /\ pc' = [pc EXCEPT ![t] = "store"] /\ task' = task
        /\ sess' = [sess EXCEPT ![s] = sess'[s]] /\ sess'[s].reg = rd[t]
    <3>1. s \in Sessions
      BY <1>40, <1>t, BootIsARegistration DEF OpenSucceeds, Sessions
    <3>2. sess' = [sess EXCEPT ![s] = sess'[s]] /\ sess'[s].reg = rd[t]
      BY <1>40, <1>t, <3>1 DEF OpenSucceeds
    <3>3. sess[s].st = "none"
      BY <1>t, <3>1 DEF SessionInv
    <3>4. QED
      BY <1>40, <3>1, <3>2, <3>3 DEF OpenSucceeds, recordVars
  <2> HIDE DEF s
  <2>2. rd[t] \in BootRegs /\ hw[rd[t]] = 0 /\ tok[t] = 0
    BY <1>i, <1>h, <2>1 DEF Placed, WithRecord, HwInv, OpenEmpty, Emptied
  <2>3. OpenEmpty'
    BY <1>t, <2>1, <2>2 DEF HwInv, OpenEmpty, Emptied
  <2>4. sess'[s].reg = rd[t] /\ tok'[t] = s /\ \A z \in Sessions : z # s => sess'[z] = sess[z]
    BY <1>t, <2>1
  <2>5. SessAt'
    <3> SUFFICES ASSUME NEW z \in Sessions, Open(z)'
                 PROVE  /\ sess'[z].reg \in BootRegs
                        /\ \/ hw'[sess'[z].reg] = z
                           \/ \E u \in Threads : tok'[u] = z /\ rd'[u] = sess'[z].reg
      BY DEF SessAt
    <3>1. CASE z = s
      BY <2>1, <2>2, <2>4, <3>1
    <3>2. CASE z # s
      <4>1. Open(z) /\ sess'[z] = sess[z]
        BY <2>4, <3>2 DEF Open
      <4>2. z # 0
        BY DEF Sessions
      <4>3. \A u \in Threads : tok[u] = z => tok'[u] = z
        BY <1>t, <2>1, <2>2, <4>2
      <4>4. QED
        BY <2>1, <4>1, <4>3 DEF HwInv, SessAt
    <3>3. QED
      BY <3>1, <3>2
  <2>6. QED
    BY <2>3, <2>5 DEF HwInv
<1>41. ASSUME NEW t \in Threads, StoreHardware(t) PROVE HwInv'
  <2>1. /\ pc[t] = "store" /\ hw' = [hw EXCEPT ![rd[t]] = tok[t]] /\ tok' = [tok EXCEPT ![t] = 0]
        /\ pc' = [pc EXCEPT ![t] = AfterOpen(task[t])] /\ UNCHANGED <<sess, rd, task>>
    BY <1>41 DEF StoreHardware, hwVars
  <2>2. rd[t] \in BootRegs /\ rd[t] \in Regs /\ hw[rd[t]] = 0 /\ tok[t] # 0
    BY <1>i, <1>h, <1>p, <2>1 DEF Placed, WithRecord, HwInv, OpenEmpty, Emptied
  <2>3. \A r \in Regs : hw'[r] = IF r = rd[t] THEN tok[t] ELSE hw[r]
    BY <1>t, <2>1, <2>2
  <2>4. OpenEmpty'
    <3> SUFFICES ASSUME NEW u \in Threads, Emptied(u)' PROVE hw'[rd'[u]] = 0
      BY DEF OpenEmpty
    <3>1. u # t /\ Emptied(u)
      BY <1>t, <1>a, <2>1 DEF Emptied
    <3>2. rd[u] # rd[t] /\ rd[u] \in Regs
      BY <1>i, <1>p, <2>1, <3>1, OneWorksOn DEF Working, Placed, WithRecord, Emptied
    <3>3. QED
      BY <2>1, <2>3, <3>1, <3>2 DEF HwInv, OpenEmpty
  <2>5. SessAt'
    <3> SUFFICES ASSUME NEW z \in Sessions, Open(z)'
                 PROVE  /\ sess'[z].reg \in BootRegs
                        /\ \/ hw'[sess'[z].reg] = z
                           \/ \E u \in Threads : tok'[u] = z /\ rd'[u] = sess'[z].reg
      BY DEF SessAt
    <3>1. Open(z) /\ sess' = sess /\ rd' = rd /\ z # 0
      BY <2>1 DEF Open, Sessions
    <3>2. sess[z].reg \in BootRegs /\ sess[z].reg \in Regs
      BY <1>p, <3>1 DEF HwInv, SessAt
    <3>3. CASE hw[sess[z].reg] = z
      <4>1. sess[z].reg # rd[t]
        BY <2>2, <3>1, <3>3
      <4>2. QED
        BY <2>3, <3>1, <3>2, <3>3, <4>1
    <3>4. ASSUME NEW u \in Threads, tok[u] = z, rd[u] = sess[z].reg
          PROVE  /\ sess'[z].reg \in BootRegs
                 /\ \/ hw'[sess'[z].reg] = z
                    \/ \E v \in Threads : tok'[v] = z /\ rd'[v] = sess'[z].reg
      <4>1. CASE u = t
        BY <2>3, <3>1, <3>2, <3>4, <4>1
      <4>2. CASE u # t
        <5>1. tok'[u] = z
          BY <1>t, <2>1, <3>4, <4>2
        <5>2. QED
          BY <3>1, <3>2, <3>4, <5>1
      <4>3. QED
        BY <4>1, <4>2
    <3>5. QED
      BY <3>1, <3>3, <3>4 DEF HwInv, SessAt
  <2>6. QED
    BY <2>4, <2>5 DEF HwInv
<1>42. ASSUME NEW t \in Threads, TakeHardware(t) PROVE HwInv'
  <2>1. /\ pc[t] = "take" /\ hw' = [hw EXCEPT ![rd[t]] = 0] /\ tok' = [tok EXCEPT ![t] = hw[rd[t]]]
        /\ pc' = [pc EXCEPT ![t] = IF hw[rd[t]] = 0 THEN AfterClose(task[t]) ELSE "cancel"]
        /\ UNCHANGED <<sess, rd, task>>
    BY <1>42 DEF TakeHardware, hwVars
  <2>2. rd[t] \in Regs /\ tok[t] = 0
    BY <1>i, <1>h, <1>p, <2>1 DEF Placed, WithRecord
  <2>3. \A r \in Regs : hw'[r] = IF r = rd[t] THEN 0 ELSE hw[r]
    BY <1>t, <2>1, <2>2
  <2>4. OpenEmpty'
    <3> SUFFICES ASSUME NEW u \in Threads, Emptied(u)', u # t PROVE hw'[rd'[u]] = 0
      BY <2>1, <2>3, <2>2 DEF OpenEmpty
    <3>1. Emptied(u)
      BY <1>t, <2>1 DEF Emptied
    <3>2. rd[u] \in Regs
      BY <1>i, <1>p, <3>1 DEF Placed, WithRecord, Emptied
    <3>3. QED
      BY <2>1, <2>3, <3>1, <3>2 DEF HwInv, OpenEmpty
  <2>5. SessAt'
    <3> SUFFICES ASSUME NEW z \in Sessions, Open(z)'
                 PROVE  /\ sess'[z].reg \in BootRegs
                        /\ \/ hw'[sess'[z].reg] = z
                           \/ \E u \in Threads : tok'[u] = z /\ rd'[u] = sess'[z].reg
      BY DEF SessAt
    <3>1. Open(z) /\ sess' = sess /\ rd' = rd /\ z # 0
      BY <2>1 DEF Open, Sessions
    <3>2. sess[z].reg \in BootRegs /\ sess[z].reg \in Regs
      BY <1>p, <3>1 DEF HwInv, SessAt
    <3>3. CASE hw[sess[z].reg] = z
      <4>1. CASE sess[z].reg = rd[t]
        <5>1. tok'[t] = z
          BY <1>t, <2>1, <3>3, <4>1
        <5>2. QED
          BY <3>1, <3>2, <4>1, <5>1
      <4>2. CASE sess[z].reg # rd[t]
        BY <2>3, <3>1, <3>2, <3>3, <4>2
      <4>3. QED
        BY <4>1, <4>2
    <3>4. ASSUME NEW u \in Threads, tok[u] = z, rd[u] = sess[z].reg
          PROVE  \E v \in Threads : tok'[v] = z /\ rd'[v] = sess'[z].reg
      <4>1. u # t
        BY <2>2, <3>1, <3>4
      <4>2. tok'[u] = z
        BY <1>t, <2>1, <3>4, <4>1
      <4>3. QED
        BY <3>1, <3>4, <4>2
    <3>5. QED
      BY <3>1, <3>2, <3>3, <3>4 DEF HwInv, SessAt
  <2>6. QED
    BY <2>4, <2>5 DEF HwInv
<1>43. ASSUME NEW t \in Threads, CancelHardware(t) \/ CloseHardware(t) PROVE HwInv'
  <2>1. /\ UNCHANGED <<hw, rd>> /\ tok[t] \in Sessions /\ pc[t] \in {"cancel", "close"}
        /\ \A u \in Threads \ {t} : pc'[u] = pc[u] /\ tok'[u] = tok[u] /\ task'[u] = task[u]
        /\ Emptied(t)' => Emptied(t)
        /\ \A z \in Sessions : sess'[z].reg = sess[z].reg /\ (Open(z)' => Open(z))
        /\ tok'[t] = tok[t] \/ sess'[tok[t]].st = "closed"
    <3>0. pc[t] \in {"cancel", "close"} /\ tok[t] \in Sessions
      BY <1>43, <1>t, <1>h DEF CancelHardware, CloseHardware, Sessions
    <3>s. ASSUME NEW st, sess' = [sess EXCEPT ![tok[t]].st = st]
          PROVE  /\ sess'[tok[t]].st = st
                 /\ \A z \in Sessions : sess'[z].reg = sess[z].reg /\ (z # tok[t] => sess'[z] = sess[z])
      BY <1>t, <3>0, <3>s
    <3>o. sess[tok[t]].st \in {"open", "cancelled"}
      BY <3>0 DEF SessionInv, Open
    <3>1. CASE CancelHardware(t)
      <4>1. /\ UNCHANGED <<hw, rd, tok, task>> /\ sess' = [sess EXCEPT ![tok[t]].st = "cancelled"]
            /\ pc' = [pc EXCEPT ![t] = "close"]
        BY <3>1 DEF CancelHardware, recordVars, localVars
      <4>2. \A z \in Sessions : Open(z)' => Open(z)
        BY <3>s, <3>o, <4>1 DEF Open
      <4>3. Emptied(t)' => Emptied(t)
        BY <1>t, <3>1, <4>1 DEF Emptied, CancelHardware
      <4>4. QED
        BY <1>t, <3>0, <3>s, <4>1, <4>2, <4>3
    <3>2. CASE CloseHardware(t)
      <4>1. /\ UNCHANGED <<hw, rd, task>> /\ sess' = [sess EXCEPT ![tok[t]].st = "closed"]
            /\ pc' = [pc EXCEPT ![t] = AfterClose(task[t])] /\ tok' = [tok EXCEPT ![t] = 0]
        BY <3>2 DEF CloseHardware, recordVars
      <4>2. \A z \in Sessions : Open(z)' => Open(z)
        BY <3>s, <3>o, <4>1 DEF Open
      <4>3. Emptied(t)' => Emptied(t)
        BY <1>t, <1>a, <3>2, <4>1 DEF Emptied, CloseHardware
      <4>4. QED
        BY <1>t, <1>a, <3>0, <3>s, <4>1, <4>2, <4>3
    <3>3. QED
      BY <1>43, <3>1, <3>2
  <2>2. OpenEmpty'
    BY <2>1 DEF HwInv, OpenEmpty, Emptied
  <2>3. SessAt'
    <3> SUFFICES ASSUME NEW z \in Sessions, Open(z)'
                 PROVE  /\ sess'[z].reg \in BootRegs
                        /\ \/ hw'[sess'[z].reg] = z
                           \/ \E u \in Threads : tok'[u] = z /\ rd'[u] = sess'[z].reg
      BY DEF SessAt
    <3>1. Open(z) /\ sess'[z].reg = sess[z].reg /\ hw' = hw /\ rd' = rd
      BY <2>1
    <3>2. \A u \in Threads : tok[u] = z => tok'[u] = z
      BY <2>1 DEF Open
    <3>3. QED
      BY <3>1, <3>2 DEF HwInv, SessAt
  <2>4. QED
    BY <2>2, <2>3 DEF HwInv
<1>44. CASE ContextsEnd
  <2>1. UNCHANGED <<hw, tok, pc, rd, task>>
        /\ \A z \in Sessions : sess'[z].reg = sess[z].reg /\ Open(z)' = Open(z)
    BY <1>44, ContextsEndOnly DEF recordVars, localVars
  <2>2. OpenEmpty'
    BY <2>1 DEF HwInv, OpenEmpty, Emptied
  <2>3. SessAt'
    BY <2>1 DEF HwInv, SessAt
  <2>4. QED
    BY <2>2, <2>3 DEF HwInv
<1>45. CASE UNCHANGED vars
  BY <1>45 DEF vars, HwInv, OpenEmpty, Emptied, SessAt, Open, recordVars, hwVars, localVars
<1>46. QED
  BY <1>1, <1>2, <1>3, <1>4, <1>5, <1>6, <1>7, <1>8, <1>9, <1>10, <1>11, <1>12, <1>13, <1>14, <1>15, <1>16, <1>17, <1>18, <1>19, <1>20, <1>21, <1>22, <1>40, <1>41, <1>42, <1>43, <1>44, <1>45, <1>p, ServedSteps DEF Served


\* What the session theorems use of an execution.
ServedInv == TypeInv /\ SessionInv /\ HolderInv /\ Static /\ PhaseInv /\ HwInv

\* It begins so ...
LEMMA InitServedInv == ASSUME ServedOnly, Init PROVE ServedInv
BY InitTypeInv, InitSessionInv, InitHolderInv, InitStatic, InitPhaseInv, InitHwInv DEF ServedInv

\* ... and stays so.
LEMMA NextServedInv == ASSUME ServedOnly, ServedInv, [Next]_vars PROVE ServedInv'
BY NextTypeInv, NextSessionInv, NextHolderInv, NextStatic, NextPhaseInv, NextHwInv DEF ServedInv

\* While Open runs at an address no other session there is open, and no other
\* Open runs: a Reload has closed the old hardware first.
LEMMA ServedOneOpen == ASSUME ServedOnly, ServedInv PROVE OneOpenPerAddress
<1> USE DEF ServedInv
<1> SUFFICES ASSUME NEW t \in Threads, pc[t] = "open"
             PROVE  /\ \A s \in Sessions : Open(s) => keyOf[sess[s].reg] # keyOf[rd[t]]
                    /\ \A u \in Threads \ {t} : pc[u] = "open" => keyOf[rd[u]] # keyOf[rd[t]]
  BY DEF OneOpenPerAddress
<1>1. \A u \in Threads : pc[u] \in WithRecord => rd[u] \in BootRegs
  BY DEF PhaseInv, Placed
<1>2. \A u \in Threads : pc[u] \in {"store", "cancel", "close"} <=> tok[u] # 0
  BY DEF SessionInv, Holding
<1>3. rd[t] \in BootRegs /\ tok[t] = 0 /\ hw[rd[t]] = 0
  BY <1>1, <1>2 DEF WithRecord, HwInv, OpenEmpty, Emptied
<1>4. ASSUME NEW u \in Threads, pc[u] \in Working, rd[u] \in BootRegs, keyOf[rd[u]] = keyOf[rd[t]]
      PROVE  u = t
  <2>1. rd[u] = rd[t]
    BY <1>3, <1>4, StaticIndexes
  <2>2. QED
    BY <1>4, <2>1, OneWorksOn DEF Working
<1>5. ASSUME NEW s \in Sessions, Open(s), keyOf[sess[s].reg] = keyOf[rd[t]] PROVE FALSE
  <2>1. sess[s].reg \in BootRegs /\ s # 0
    BY <1>5 DEF HwInv, SessAt, Sessions
  <2>2. sess[s].reg = rd[t]
    BY <1>3, <1>5, <2>1, StaticIndexes
  <2>3. PICK u \in Threads : tok[u] = s /\ rd[u] = rd[t]
    BY <1>3, <1>5, <2>1, <2>2 DEF HwInv, SessAt
  <2>4. u = t
    BY <1>2, <1>3, <1>4, <2>1, <2>3 DEF Working
  <2>5. QED
    BY <1>3, <2>1, <2>3, <2>4
<1>6. ASSUME NEW u \in Threads \ {t}, pc[u] = "open", keyOf[rd[u]] = keyOf[rd[t]] PROVE FALSE
  BY <1>1, <1>4, <1>6 DEF Working, WithRecord
<1>7. QED
  BY <1>5, <1>6

\* Released before reopened, in every execution.
THEOREM OneOpen == ASSUME ServedOnly PROVE Spec => []OneOpenPerAddress
<1>1. Init => ServedInv
  BY InitServedInv
<1>2. ServedInv /\ [Next]_vars => ServedInv'
  BY NextServedInv
<1>3. ServedInv => OneOpenPerAddress
  BY ServedOneOpen
<1>4. QED
  BY <1>1, <1>2, <1>3, PTL DEF Spec

\* Open hardware is in someone's hands or on a record the server lists.
LEMMA ServedNoLost == ASSUME ServedInv PROVE NoLostSession
<1> USE DEF ServedInv
<1> SUFFICES ASSUME NEW s \in Sessions, Open(s)
             PROVE  \/ \E t \in Threads : tok[t] = s
                    \/ \E k \in Keys : devices[k] # 0 /\ hw[devices[k]] = s
  BY DEF NoLostSession
<1>1. CASE \E t \in Threads : tok[t] = s
  BY <1>1
<1>2. CASE ~ \E t \in Threads : tok[t] = s
  <2> DEFINE r == sess[s].reg
  <2>1. r \in BootRegs /\ hw[r] = s
    BY <1>2 DEF HwInv, SessAt
  <2>2. keyOf[r] \in Keys /\ devices[keyOf[r]] = r
    BY <2>1, StaticIndexes
  <2>3. r # 0
    BY <2>1, BootRange
  <2>4. QED
    BY <2>1, <2>2, <2>3
<1>3. QED
  BY <1>1, <1>2

\* No session is ever lost: Reload and the end of Run find everything that is open.
THEOREM NothingLost == ASSUME ServedOnly PROVE Spec => []NoLostSession
<1>1. Init => ServedInv
  BY InitServedInv
<1>2. ServedInv /\ [Next]_vars => ServedInv'
  BY NextServedInv
<1>3. ServedInv => NoLostSession
  BY ServedNoLost
<1>4. QED
  BY <1>1, <1>2, <1>3, PTL DEF Spec

-----------------------------------------------------------------------------
(* The end of Run *)

\* A record that Run's loop has still to visit.
Awaits(r) == \E i \in DOMAIN queue[Runner] : queue[Runner][i] = r

\* While Run closes the hardware, what is still open it has still to visit;
\* when it returns nothing is.
StopInv ==
  task[Runner] = "stop" =>
    /\ pc[Runner] \in {"next", "take", "cancel", "close"} =>
         \A r \in BootRegs : hw[r] # 0 => Awaits(r) \/ (pc[Runner] = "take" /\ rd[Runner] = r)
    /\ pc[Runner] = "stopped" => \A r \in BootRegs : hw[r] = 0

\* A loop over a sequence of records takes the first and has the rest to visit.
LEMMA VisitFirst ==
  ASSUME queue[Runner] \in Seq(BootRegs), queue[Runner] # <<>>, queue'[Runner] = Tail(queue[Runner]),
         NEW r, Awaits(r)
  PROVE  r = Head(queue[Runner]) \/ Awaits(r)'
<1> DEFINE q == queue[Runner]
<1>1. PICK i \in DOMAIN q : q[i] = r
  BY DEF Awaits
<1>2. /\ Len(q) \in Nat /\ DOMAIN q = 1..Len(q) /\ Tail(q) \in Seq(BootRegs)
      /\ Len(Tail(q)) = Len(q) - 1 /\ \A j \in 1..Len(Tail(q)) : Tail(q)[j] = q[j + 1]
  BY HeadTailProperties, LenProperties
<1>3. DOMAIN Tail(q) = 1..(Len(q) - 1)
  BY <1>2, LenProperties
<1>4. CASE i = 1
  BY <1>1, <1>4
<1>5. CASE i # 1
  <2>1. i - 1 \in 1..(Len(q) - 1) /\ (i - 1) + 1 = i
    BY <1>1, <1>2, <1>5
  <2>2. Tail(q)[i - 1] = q[i]
    BY <1>2, <2>1
  <2>3. QED
    BY <1>1, <1>3, <2>1, <2>2 DEF Awaits
<1>6. QED
  BY <1>4, <1>5

\* Run has nothing to visit when its loop is over.
LEMMA NoneAwaits == ASSUME queue[Runner] = <<>>, NEW r PROVE ~ Awaits(r)
BY DEF Awaits

\* Run is not stopping at first.
LEMMA InitStopInv == Init => StopInv
BY DEF Init, StopInv, Threads

\* Every step keeps StopInv: the snapshot is of all the records, and nothing
\* opens while Run walks it.
LEMMA NextStopInv ==
  ASSUME ServedOnly, ServedInv, StopInv, [Next]_vars PROVE StopInv'
<1> USE DEF Goto, Move
<1>t. /\ pc \in [Threads -> Steps] /\ task \in [Threads -> Tasks] /\ rd \in [Threads -> 0..MaxRegs]
      /\ queue \in [Threads -> Seq(Regs)] /\ hw \in [Regs -> 0..MaxSessions]
  BY DEF ServedInv, TypeInv, TypeOK, ThreadTypes, RecordTypes
<1>p. Runner \in Threads /\ BootRegs \subseteq Regs
  BY BootRange DEF Threads
<1>r. RunnerAt /\ queue[Runner] \in Seq(BootRegs)
  BY <1>p DEF ServedInv, PhaseInv, Placed
<1>1. CASE Serving
  <2>1. task'[Runner] = "boot" \/ pc'[Runner] = "snapshot"
    BY <1>1, ServingOn DEF ServedInv
  <2>2. QED
    BY <2>1 DEF StopInv
<1>2. CASE ~ Serving
  <2>1. CASE Start(Runner) \/ Bind(Runner)
    <3>1. pc'[Runner] = "snapshot" \/ task'[Runner] # "stop"
      BY <1>t, <1>p, <1>r, <2>1 DEF Start, Bind, RunnerAt
    <3>2. QED
      BY <3>1 DEF StopInv
  <2>2. CASE Snapshot(Runner)
    <3>1. pc'[Runner] = "next" /\ task' = task
          /\ queue'[Runner] = IF task[Runner] = "stop" THEN Reverse(order) ELSE order
      BY <1>t, <1>p, <2>2 DEF Snapshot
    <3>2. task[Runner] = "stop" => \A r \in BootRegs : Awaits(r)'
      BY <3>1, BootWalks DEF Awaits, ServedInv
    <3>3. QED
      BY <3>1, <3>2 DEF StopInv
  <2>3. CASE NextRecord(Runner)
    <3>1. /\ task' = task /\ hw' = hw /\ pc[Runner] = "next" /\ queue[Runner] # <<>>
          /\ queue'[Runner] = Tail(queue[Runner]) /\ rd'[Runner] = Head(queue[Runner])
          /\ task[Runner] = "stop" => pc'[Runner] = "take"
      BY <1>t, <1>p, <2>3 DEF NextRecord, recordVars
    <3>2. \A r \in BootRegs : Awaits(r) => r = rd'[Runner] \/ Awaits(r)'
      BY <1>r, <3>1, VisitFirst
    <3>3. QED
      BY <3>1, <3>2 DEF StopInv
  <2>4. CASE LoopDone(Runner)
    <3>1. /\ hw' = hw /\ pc[Runner] = "next" /\ queue[Runner] = <<>>
          /\ task'[Runner] = "stop" => task[Runner] = "stop" /\ pc'[Runner] = "stopped"
      BY <1>t, <1>p, <1>r, <2>4 DEF LoopDone, recordVars, RunnerAt
    <3>2. \A r \in BootRegs : ~ Awaits(r)
      BY <3>1, NoneAwaits
    <3>3. QED
      BY <3>1, <3>2 DEF StopInv
  <2>5. CASE LoadSettings(Runner) \/ ApplySettings(Runner) \/ CheckOpen(Runner) \/ OpenFails(Runner)
             \/ OpenSucceeds(Runner) \/ StoreHardware(Runner)
    <3>1. task[Runner] # "stop" /\ task' = task
      BY <1>r, <2>5 DEF RunnerAt, LoadSettings, ApplySettings, CheckOpen, OpenFails, OpenSucceeds, StoreHardware,
         localVars
    <3>2. QED
      BY <3>1 DEF StopInv
  <2>6. CASE TakeHardware(Runner)
    <3>1. /\ task[Runner] = "stop" /\ task' = task /\ rd' = rd /\ queue' = queue /\ pc[Runner] = "take"
          /\ hw' = [hw EXCEPT ![rd[Runner]] = 0] /\ pc'[Runner] \in {"next", "cancel"}
      BY <1>t, <1>p, <1>r, <2>6 DEF TakeHardware, RunnerAt, AfterClose
    <3>2. \A r \in BootRegs : hw'[r] # 0 => hw[r] # 0 /\ r # rd[Runner]
      BY <1>t, <1>p, <3>1
    <3>3. \A r : Awaits(r)' = Awaits(r)
      BY <3>1 DEF Awaits
    <3>4. QED
      BY <3>1, <3>2, <3>3 DEF StopInv
  <2>7. CASE CancelHardware(Runner) \/ CloseHardware(Runner)
    <3>1. /\ task[Runner] = "stop" /\ UNCHANGED <<task, rd, queue, hw>>
          /\ pc[Runner] \in {"cancel", "close"} /\ pc'[Runner] \in {"next", "close"}
      BY <1>t, <1>p, <1>r, <2>7 DEF CancelHardware, CloseHardware, RunnerAt, AfterClose, recordVars, localVars
    <3>2. \A r : Awaits(r)' = Awaits(r)
      BY <3>1 DEF Awaits
    <3>3. QED
      BY <3>1, <3>2 DEF StopInv
  <2>8. CASE ContextsEnd \/ UNCHANGED vars
    BY <2>8, ContextsEndOnly DEF ServedInv, vars, StopInv, Awaits, recordVars, localVars
  <2>9. QED
    BY <1>2, <2>1, <2>2, <2>3, <2>4, <2>5, <2>6, <2>7, <2>8, RunAlone DEF ServedInv
<1>3. QED
  BY <1>1, <1>2

\* When Run has returned every session ever opened is closed.
LEMMA StoppedClosed == ASSUME ServedOnly, ServedInv, StopInv PROVE ClosedWhenStopped
<1> USE DEF ServedInv
<1> SUFFICES ASSUME pc[Runner] = "stopped", NEW s \in Sessions, Open(s) PROVE FALSE
  BY DEF ClosedWhenStopped
<1>p. Runner \in Threads /\ Handlers \subseteq Threads
  BY DEF Threads, Handlers
<1>1. task[Runner] = "stop" /\ ~ Serving
  BY <1>p DEF PhaseInv, Placed, RunnerAt, Serving
<1>2. \A h \in Handlers : pc[h] = "idle"
  BY <1>1 DEF PhaseInv
<1>3. \A r \in BootRegs : hw[r] = 0
  BY <1>1 DEF StopInv
<1>4. s # 0 /\ \A t \in Threads : tok[t] # 0 => pc[t] \in {"store", "cancel", "close"}
  BY DEF SessionInv, Holding, Sessions
<1>5. PICK t \in Threads : tok[t] = s
  BY <1>3, <1>4 DEF HwInv, SessAt
<1>6. pc[t] \in {"store", "cancel", "close"} /\ rd[t] \in BootRegs
  BY <1>4, <1>5 DEF PhaseInv, Placed, WithRecord
<1>7. t \notin Handlers /\ t # Runner
  BY <1>2, <1>6
<1>8. QED
  BY <1>7 DEF Handlers, Threads, ServedOnly

\* Run leaves no hardware open behind it.
THEOREM AllClosed == ASSUME ServedOnly PROVE Spec => []ClosedWhenStopped
<1>1. Init => ServedInv /\ StopInv
  BY InitServedInv, InitStopInv
<1>2. ServedInv /\ StopInv /\ [Next]_vars => (ServedInv /\ StopInv)'
  BY NextServedInv, NextStopInv
<1>3. ServedInv /\ StopInv => ClosedWhenStopped
  BY StoppedClosed
<1>4. QED
  BY <1>1, <1>2, <1>3, PTL DEF Spec

-----------------------------------------------------------------------------
(* Settings before Open *)

\* The form on a boot record is over the device it serves.
FormsInv == \A r \in BootRegs : cfg[r] = data[r]

\* A load of the device's settings has been tried, and came out as it may.
Settled(d) == settings[d] \in {"saved"} \union (IF d \in Doubtful THEN {"default"} ELSE {})

\* No step undoes one.
Keeps == \A d \in Devs : Settled(d) => Settled(d)'

\* What a goroutine between loading settings and opening has in hand.
LoadedAt(t) ==
  /\ pc[t] \in {"apply", "open"} => obj[t] = data[rd[t]]
  /\ task[t] = "reload" /\ pc[t] = "check" => Settled(data[rd[t]])
  /\ pc[t] = "open" => Settled(obj[t])

\* What Run's first loop has done, and what holds when the second opens.
RunLoaded ==
  /\ task[Runner] = "settings" /\ pc[Runner] \in {"next", "load", "apply"} =>
       \A r \in BootRegs : Settled(data[r]) \/ Awaits(r) \/ (pc[Runner] # "next" /\ rd[Runner] = r)
  /\ task[Runner] = "boot" /\ ~ Serving => \A r \in BootRegs : Settled(data[r])

SettingsInv == FormsInv /\ RunLoaded /\ \A t \in Threads : LoadedAt(t)

\* No load has been tried at first, and no device is opened.
LEMMA InitSettingsInv == Init => SettingsInv
<1> SUFFICES ASSUME Init PROVE SettingsInv
  OBVIOUS
<1>1. Runner \in Threads /\ BootRegs \subseteq Regs
  BY BootRange DEF Threads
<1>2. FormsInv
  BY DEF Init, FormsInv
<1>3. RunLoaded /\ \A t \in Threads : LoadedAt(t)
  BY <1>1 DEF Init, RunLoaded, LoadedAt
<1>4. QED
  BY <1>2, <1>3 DEF SettingsInv

\* The form found on a boot record is the device's: settings are always applied.
LEMMA FormFound ==
  ASSUME TypeInv, Static, FormsInv, NEW r \in BootRegs PROVE FormOf(r) = data[r] /\ data[r] # NoDev /\ data[r] \in Devs
<1>1. PICK n \in Nat : BootRegs = 1..n /\ Len(BootKey) = n
  BY BootRange
<1>2. data[r] # NoDev /\ data[r] \in Devs
  BY <1>1, BootRange DEF TypeInv, TypeOK, RecordTypes, Static
<1>3. QED
  BY <1>2 DEF FormOf, FormsInv

\* Only a Reload changes what a record serves, and with it the form.
LEMMA NextFormsInv ==
  ASSUME ServedOnly, ServedInv, SettingsInv, [Next]_vars
  PROVE  /\ FormsInv'
         /\ UNCHANGED data \/ \E t \in Threads : SwapData(t)
         /\ Keeps
<1>t. /\ data \in [Regs -> Devs \union {NoDev}] /\ cfg \in [Regs -> Devs \union {NoDev}]
      /\ settings \in [Devs -> {"unread", "default", "saved"}]
  BY DEF ServedInv, TypeInv, TypeOK, RecordTypes, HardwareTypes
<1>p. BootRegs \subseteq Regs /\ SetupThreads \subseteq Threads /\ ApiThreads \subseteq Threads
  BY BootRange DEF Threads
<1>k. settings' = settings => Keeps
  BY DEF Keeps, Settled
<1>1. ASSUME NEW t \in Threads, SwapData(t) PROVE FormsInv'
  <2>1. data' = [data EXCEPT ![rd[t]] = obj[t]] /\ cfg' = [cfg EXCEPT ![rd[t]] = obj[t]]
    BY <1>1 DEF SwapData
  <2>2. QED
    BY <1>t, <1>p, <2>1 DEF FormsInv, SettingsInv
<1>2. ASSUME NEW t \in Threads PROVE Served(t) => SwapData(t) \/ UNCHANGED <<data, cfg>>
  BY DEF Served, LockReload, Rebuild, SwapItab, UnlockReload, LoadSettings, ApplySettings, CheckOpen,
         OpenFails, OpenSucceeds, StoreHardware, TakeHardware, CancelHardware, CloseHardware, Return,
         recordVars, deviceVars
<1>3. ASSUME NEW t \in Threads PROVE Served(t) => Keeps
  <2>1. Served(t) => ApplySettings(t) \/ UNCHANGED settings
    BY DEF Served, LockReload, Rebuild, SwapItab, SwapData, UnlockReload, LoadSettings, CheckOpen,
           OpenFails, OpenSucceeds, StoreHardware, TakeHardware, CancelHardware, CloseHardware, Return,
           hwVars
  <2>2. ApplySettings(t) => Keeps
    BY <1>t DEF ApplySettings, Keeps, Settled
  <2>3. QED
    BY <1>k, <2>1, <2>2
<1>4. ASSUME NEW t \in Threads, NEW k \in Keys
      PROVE  Reload(t, k) \/ Request(t, k) \/ ReadItab(t) \/ ReadData(t) \/ Respond(t)
               => UNCHANGED <<data, cfg, settings>>
  BY DEF Reload, Request, ReadItab, ReadData, Respond, recordVars, hwVars
<1>5. Start(Runner) \/ Snapshot(Runner) \/ NextRecord(Runner) \/ LoopDone(Runner)
         \/ Bind(Runner) \/ Drained(Runner) \/ StopServing(Runner) \/ ContextsEnd \/ UNCHANGED vars
           => UNCHANGED <<data, cfg, settings>>
  BY ContextsEndOnly DEF ServedInv, Start, Snapshot, NextRecord, LoopDone, Bind, Drained, StopServing, vars, recordVars, hwVars
<1>6. ASSUME NEW t \in Threads
      PROVE  ReadItab(t) \/ ReadData(t) \/ Respond(t) => UNCHANGED <<data, cfg, settings>>
  BY DEF ReadItab, ReadData, Respond, recordVars, hwVars
<1>7. UNCHANGED <<data, cfg>> => FormsInv'
  BY DEF FormsInv, SettingsInv
<1>8. QED
  BY <1>k, <1>p, <1>1, <1>2, <1>3, <1>4, <1>5, <1>6, <1>7, ServedSteps DEF ServedInv

\* Applying settings settles the device of the record in hand.
LEMMA ApplySettles ==
  ASSUME ServedInv, SettingsInv, NEW t \in Threads, ApplySettings(t)
  PROVE  /\ pc[t] = "apply" /\ pc' = [pc EXCEPT ![t] = AfterLoad(task[t])] /\ obj[t] = data[rd[t]]
         /\ UNCHANGED data /\ Settled(data[rd[t]])'
<1>1. pc[t] = "apply" /\ pc' = [pc EXCEPT ![t] = AfterLoad(task[t])] /\ obj[t] = data[rd[t]] /\ UNCHANGED data
  BY DEF ApplySettings, Goto, SettingsInv, LoadedAt, recordVars
<1>2. rd[t] \in BootRegs
  BY <1>1 DEF ServedInv, PhaseInv, Placed, WithRecord
<1>3. obj[t] \in Devs
  BY <1>1, <1>2, FormFound DEF ServedInv, SettingsInv
<1>4. settings \in [Devs -> {"unread", "default", "saved"}]
  BY DEF ServedInv, TypeInv, TypeOK, HardwareTypes
<1>5. Settled(obj[t])'
  <2>1. UNCHANGED obj
    BY DEF ApplySettings, localVars
  <2>2. QED
    BY <1>3, <1>4, <2>1 DEF ApplySettings, Settled
<1>6. QED
  BY <1>1, <1>5 DEF ApplySettings, localVars

\* Run opens its devices only once its first loop has loaded them all.
LEMMA NextRunLoaded ==
  ASSUME ServedOnly, ServedInv, SettingsInv, [Next]_vars PROVE RunLoaded'
<1> USE DEF Goto, Move
<1>t. /\ pc \in [Threads -> Steps] /\ task \in [Threads -> Tasks] /\ rd \in [Threads -> 0..MaxRegs]
      /\ queue \in [Threads -> Seq(Regs)]
  BY DEF ServedInv, TypeInv, TypeOK, ThreadTypes
<1>p. Runner \in Threads
  BY DEF Threads
<1>r. RunnerAt /\ queue[Runner] \in Seq(BootRegs)
  BY <1>p DEF ServedInv, PhaseInv, Placed
<1>d. \A r \in BootRegs : data[r] \in Devs
  BY FormFound DEF ServedInv, SettingsInv
<1>1. CASE Serving
  <2>1. task'[Runner] # "settings" /\ (task'[Runner] = "boot" => Serving')
    BY <1>1, ServingOn DEF ServedInv
  <2>2. QED
    BY <2>1 DEF RunLoaded
<1>2. CASE ~ Serving
  <2>d. UNCHANGED data /\ \A r \in BootRegs : Settled(data[r]) => Settled(data[r])'
    <3>1. \A t \in Threads : ~ SwapData(t)
      <4> SUFFICES ASSUME NEW t \in Threads, pc[t] = "swapped" PROVE FALSE
        BY DEF SwapData
      <4>1. t # Runner
        BY <1>r DEF RunnerAt
      <4>2. t \in Handlers
        BY <4>1 DEF Threads, Handlers, ServedOnly
      <4>3. pc[t] = "idle"
        BY <1>2, <4>2 DEF ServedInv, PhaseInv
      <4>4. QED
        BY <4>3
    <3>2. QED
      BY <1>d, <3>1, NextFormsInv DEF Keeps
  <2>1. CASE Start(Runner)
    <3>1. task'[Runner] = "settings" /\ pc'[Runner] = "snapshot"
      BY <1>t, <1>p, <2>1 DEF Start
    <3>2. QED
      BY <3>1 DEF RunLoaded
  <2>2. CASE Snapshot(Runner)
    <3>1. /\ task' = task
          /\ queue'[Runner] = IF task[Runner] = "stop" THEN Reverse(order) ELSE order
      BY <1>t, <1>p, <2>2 DEF Snapshot
    <3>2. \A r \in BootRegs : Awaits(r)'
      BY <3>1, BootWalks DEF Awaits, ServedInv
    <3>3. QED
      BY <1>2, <2>d, <3>1, <3>2 DEF RunLoaded, SettingsInv
  <2>3. CASE NextRecord(Runner)
    <3>1. /\ task' = task /\ pc[Runner] = "next" /\ queue[Runner] # <<>>
          /\ queue'[Runner] = Tail(queue[Runner]) /\ rd'[Runner] = Head(queue[Runner])
          /\ task[Runner] = "settings" => pc'[Runner] = "load"
      BY <1>t, <1>p, <2>3 DEF NextRecord
    <3>2. \A r \in BootRegs : Awaits(r) => r = rd'[Runner] \/ Awaits(r)'
      BY <1>r, <3>1, VisitFirst
    <3>3. QED
      BY <1>2, <2>d, <3>1, <3>2 DEF RunLoaded, SettingsInv
  <2>4. CASE LoopDone(Runner)
    <3>1. /\ pc[Runner] = "next" /\ queue[Runner] = <<>> /\ task'[Runner] # "settings"
          /\ task'[Runner] = "boot" => task[Runner] \in {"settings", "boot"}
      BY <1>t, <1>p, <1>r, <2>4 DEF LoopDone, RunnerAt
    <3>2. \A r \in BootRegs : ~ Awaits(r)
      BY <3>1, NoneAwaits
    <3>3. task[Runner] \in {"settings", "boot"} => \A r \in BootRegs : Settled(data[r])
      BY <1>2, <3>1, <3>2 DEF RunLoaded, SettingsInv
    <3>4. QED
      BY <2>d, <3>1, <3>3 DEF RunLoaded
  <2>5. CASE Bind(Runner)
    <3>1. task[Runner] = "boot" /\ (task'[Runner] = "stop" \/ task'[Runner] = "boot")
      BY <1>t, <1>p, <1>r, <2>5 DEF Bind, RunnerAt
    <3>2. QED
      BY <1>2, <2>d, <3>1 DEF RunLoaded, SettingsInv
  <2>6. CASE LoadSettings(Runner)
    <3>1. pc[Runner] = "load" /\ task[Runner] = "settings" /\ rd[Runner] \in BootRegs
      BY <1>p, <1>r, <2>6 DEF LoadSettings, RunnerAt, ServedInv, PhaseInv, Placed, WithRecord
    <3>2. FormOf(rd[Runner]) # NoDev
      BY <3>1, FormFound DEF ServedInv, SettingsInv
    <3>3. pc'[Runner] = "apply" /\ UNCHANGED <<task, rd, queue>>
      BY <1>t, <1>p, <2>6, <3>2 DEF LoadSettings
    <3>4. \A r : Awaits(r)' = Awaits(r)
      BY <3>3 DEF Awaits
    <3>5. QED
      BY <2>d, <3>1, <3>3, <3>4 DEF RunLoaded, SettingsInv
  <2>7. CASE ApplySettings(Runner)
    <3>1. pc[Runner] = "apply" /\ task[Runner] = "settings" /\ UNCHANGED <<task, rd, queue>>
      BY <1>r, <2>7 DEF ApplySettings, RunnerAt, localVars
    <3>2. pc'[Runner] = "next" /\ Settled(data[rd[Runner]])'
      BY <1>p, <1>t, <2>7, <2>d, <3>1, ApplySettles DEF AfterLoad
    <3>3. \A r : Awaits(r)' = Awaits(r)
      BY <3>1 DEF Awaits
    <3>4. QED
      BY <2>d, <3>1, <3>2, <3>3 DEF RunLoaded, SettingsInv
  <2>8. CASE CheckOpen(Runner) \/ OpenFails(Runner) \/ OpenSucceeds(Runner) \/ StoreHardware(Runner)
    <3>1. task[Runner] = "boot" /\ task' = task
      BY <1>r, <2>8 DEF CheckOpen, OpenFails, OpenSucceeds, StoreHardware, RunnerAt, localVars
    <3>2. QED
      BY <1>2, <2>d, <3>1 DEF RunLoaded, SettingsInv
  <2>9. CASE TakeHardware(Runner) \/ CancelHardware(Runner) \/ CloseHardware(Runner)
    <3>1. task[Runner] = "stop" /\ task' = task
      BY <1>r, <2>9 DEF TakeHardware, CancelHardware, CloseHardware, RunnerAt, localVars
    <3>2. QED
      BY <3>1 DEF RunLoaded
  <2>10. CASE ContextsEnd \/ UNCHANGED vars
    <3>1. UNCHANGED <<pc, task, rd, queue>>
      BY <2>10, ContextsEndOnly DEF ServedInv, vars, localVars
    <3>2. \A r : Awaits(r)' = Awaits(r)
      BY <3>1 DEF Awaits
    <3>3. QED
      BY <2>d, <3>1, <3>2 DEF RunLoaded, SettingsInv, Serving
  <2>11. QED
    BY <1>2, <2>1, <2>2, <2>3, <2>4, <2>5, <2>6, <2>7, <2>8, <2>9, <2>10, RunAlone DEF ServedInv
<1>3. QED
  BY <1>1, <1>2

\* A device that is settled stays so, whichever record serves it.
LEMMA SettledSame == ASSUME Keeps, NEW d \in Devs, Settled(d) PROVE Settled(d)'
BY DEF Keeps

\* A step of t leaves what the others have in hand alone: nobody swaps the
\* device of a record that another goroutine works on.
LEMMA LoadedFrame ==
  ASSUME ServedOnly, ServedInv, SettingsInv, [Next]_vars, NEW t \in Threads, Alone(t), LoadedAt(t)',
         UNCHANGED data \/ SwapData(t)
  PROVE  \A u \in Threads : LoadedAt(u)'
<1> SUFFICES ASSUME NEW u \in Threads, u # t PROVE LoadedAt(u)'
  OBVIOUS
<1>1. LoadedAt(u) /\ Keeps
  BY NextFormsInv DEF SettingsInv
<1>d. pc[u] \in {"apply", "check", "open"} => rd[u] \in Regs /\ data[rd[u]] \in Devs
  BY BootRange, FormFound DEF ServedInv, SettingsInv, PhaseInv, Placed, WithRecord
<1>k. \A d \in Devs : Settled(d) => Settled(d)'
  BY <1>1 DEF Keeps
<1>2. pc'[u] = pc[u] /\ rd'[u] = rd[u] /\ task'[u] = task[u] /\ obj'[u] = obj[u]
  BY DEF Alone
<1>3. CASE UNCHANGED data
  <2>1. pc[u] \in {"apply", "check", "open"} => data'[rd'[u]] = data[rd[u]]
    BY <1>2, <1>3
  <2>2. QED
    BY <1>1, <1>2, <1>d, <2>1, SettledSame DEF LoadedAt
<1>4. CASE SwapData(t)
  <2>1. pc[t] = "swapped" /\ data' = [data EXCEPT ![rd[t]] = obj[t]]
    BY <1>4 DEF SwapData
  <2>2. pc[u] \in {"apply", "check", "open"} => rd[u] # rd[t]
    BY <2>1, OneWorksOn DEF Working, ServedInv
  <2>4. data \in [Regs -> Devs \union {NoDev}]
    BY DEF ServedInv, TypeInv, TypeOK, RecordTypes
  <2>5. pc[u] \in {"apply", "check", "open"} => data'[rd'[u]] = data[rd[u]]
    BY <1>2, <1>d, <2>1, <2>2, <2>4
  <2>6. QED
    BY <1>1, <1>2, <1>d, <2>5, SettledSame DEF LoadedAt
<1>5. QED
  BY <1>3, <1>4

\* Every step leaves a goroutine that goes on to open with a loaded device.
LEMMA NextLoadedAt ==
  ASSUME ServedOnly, ServedInv, SettingsInv, [Next]_vars PROVE \A u \in Threads : LoadedAt(u)'
<1> USE DEF Goto, Move
<1>t. /\ pc \in [Threads -> Steps] /\ task \in [Threads -> Tasks] /\ rd \in [Threads -> 0..MaxRegs]
      /\ obj \in [Threads -> Devs \union {NoDev}]
  BY DEF ServedInv, TypeInv, TypeOK, ThreadTypes
<1>p. Runner \in Threads /\ SetupThreads \subseteq Threads /\ ApiThreads \subseteq Threads
  BY DEF Threads
<1>i. \A t \in Threads : /\ t \in {Runner} \union SetupThreads \union ApiThreads
                         /\ Placed(t)
  BY DEF ServedInv, PhaseInv, Threads, ServedOnly
<1>a. \A t \in Threads :
        /\ AfterOpen(task[t]) \in {"next", "return", "unlock"}
        /\ AfterClose(task[t]) \in {"next", "return", "swap"}
  BY <1>t, AfterSteps
<1>l. \A t \in Threads : LoadedAt(t)
  BY DEF SettingsInv
<1>1. ASSUME NEW t \in Threads, NEW k \in Keys, Reload(t, k) PROVE \A u \in Threads : LoadedAt(u)'
  <2>1. Alone(t) /\ UNCHANGED data /\ pc'[t] \notin {"apply", "check", "open"}
    BY <1>1, <1>t, <1>a DEF Reload, Alone, recordVars, deviceVars, hwVars, localVars
  <2>2. QED
    BY <2>1, LoadedFrame DEF LoadedAt
<1>2. ASSUME NEW t \in Threads, NEW k \in Keys, Request(t, k) PROVE \A u \in Threads : LoadedAt(u)'
  <2>1. Alone(t) /\ UNCHANGED data /\ pc'[t] \notin {"apply", "check", "open"}
    BY <1>2, <1>t, <1>a DEF Request, Alone, recordVars, deviceVars, hwVars, localVars
  <2>2. QED
    BY <2>1, LoadedFrame DEF LoadedAt
<1>3. ASSUME NEW t \in Threads, LockReload(t) PROVE \A u \in Threads : LoadedAt(u)'
  <2>1. Alone(t) /\ UNCHANGED data /\ pc'[t] \notin {"apply", "check", "open"}
    BY <1>3, <1>t, <1>a DEF LockReload, Alone, recordVars, deviceVars, hwVars, localVars
  <2>2. QED
    BY <2>1, LoadedFrame DEF LoadedAt
<1>4. ASSUME NEW t \in Threads, Rebuild(t) PROVE \A u \in Threads : LoadedAt(u)'
  <2>1. Alone(t) /\ UNCHANGED data /\ pc'[t] \notin {"apply", "check", "open"}
    BY <1>4, <1>t, <1>a DEF Rebuild, Alone, recordVars, deviceVars, hwVars, localVars
  <2>2. QED
    BY <2>1, LoadedFrame DEF LoadedAt
<1>5. ASSUME NEW t \in Threads, SwapItab(t) PROVE \A u \in Threads : LoadedAt(u)'
  <2>1. Alone(t) /\ UNCHANGED data /\ pc'[t] \notin {"apply", "check", "open"}
    BY <1>5, <1>t, <1>a DEF SwapItab, Alone, recordVars, deviceVars, hwVars, localVars
  <2>2. QED
    BY <2>1, LoadedFrame DEF LoadedAt
<1>6. ASSUME NEW t \in Threads, UnlockReload(t) PROVE \A u \in Threads : LoadedAt(u)'
  <2>1. Alone(t) /\ UNCHANGED data /\ pc'[t] \notin {"apply", "check", "open"}
    BY <1>6, <1>t, <1>a DEF UnlockReload, Alone, recordVars, deviceVars, hwVars, localVars
  <2>2. QED
    BY <2>1, LoadedFrame DEF LoadedAt
<1>7. ASSUME NEW t \in Threads, OpenFails(t) PROVE \A u \in Threads : LoadedAt(u)'
  <2>1. Alone(t) /\ UNCHANGED data /\ pc'[t] \notin {"apply", "check", "open"}
    BY <1>7, <1>t, <1>a DEF OpenFails, Alone, recordVars, deviceVars, hwVars, localVars
  <2>2. QED
    BY <2>1, LoadedFrame DEF LoadedAt
<1>8. ASSUME NEW t \in Threads, OpenSucceeds(t) PROVE \A u \in Threads : LoadedAt(u)'
  <2>1. Alone(t) /\ UNCHANGED data /\ pc'[t] \notin {"apply", "check", "open"}
    BY <1>8, <1>t, <1>a DEF OpenSucceeds, Alone, recordVars, deviceVars, hwVars, localVars
  <2>2. QED
    BY <2>1, LoadedFrame DEF LoadedAt
<1>9. ASSUME NEW t \in Threads, StoreHardware(t) PROVE \A u \in Threads : LoadedAt(u)'
  <2>1. Alone(t) /\ UNCHANGED data /\ pc'[t] \notin {"apply", "check", "open"}
    BY <1>9, <1>t, <1>a DEF StoreHardware, Alone, recordVars, deviceVars, hwVars, localVars
  <2>2. QED
    BY <2>1, LoadedFrame DEF LoadedAt
<1>10. ASSUME NEW t \in Threads, TakeHardware(t) PROVE \A u \in Threads : LoadedAt(u)'
  <2>1. Alone(t) /\ UNCHANGED data /\ pc'[t] \notin {"apply", "check", "open"}
    BY <1>10, <1>t, <1>a DEF TakeHardware, Alone, recordVars, deviceVars, hwVars, localVars
  <2>2. QED
    BY <2>1, LoadedFrame DEF LoadedAt
<1>11. ASSUME NEW t \in Threads, CancelHardware(t) PROVE \A u \in Threads : LoadedAt(u)'
  <2>1. Alone(t) /\ UNCHANGED data /\ pc'[t] \notin {"apply", "check", "open"}
    BY <1>11, <1>t, <1>a DEF CancelHardware, Alone, recordVars, deviceVars, hwVars, localVars
  <2>2. QED
    BY <2>1, LoadedFrame DEF LoadedAt
<1>12. ASSUME NEW t \in Threads, CloseHardware(t) PROVE \A u \in Threads : LoadedAt(u)'
  <2>1. Alone(t) /\ UNCHANGED data /\ pc'[t] \notin {"apply", "check", "open"}
    BY <1>12, <1>t, <1>a DEF CloseHardware, Alone, recordVars, deviceVars, hwVars, localVars
  <2>2. QED
    BY <2>1, LoadedFrame DEF LoadedAt
<1>13. ASSUME NEW t \in Threads, Return(t) PROVE \A u \in Threads : LoadedAt(u)'
  <2>1. Alone(t) /\ UNCHANGED data /\ pc'[t] \notin {"apply", "check", "open"}
    BY <1>13, <1>t, <1>a DEF Return, Alone, recordVars, deviceVars, hwVars, localVars
  <2>2. QED
    BY <2>1, LoadedFrame DEF LoadedAt
<1>14. ASSUME NEW t \in Threads, ReadItab(t) PROVE \A u \in Threads : LoadedAt(u)'
  <2>1. Alone(t) /\ UNCHANGED data /\ pc'[t] \notin {"apply", "check", "open"}
    BY <1>14, <1>t, <1>a DEF ReadItab, Alone, recordVars, deviceVars, hwVars, localVars
  <2>2. QED
    BY <2>1, LoadedFrame DEF LoadedAt
<1>15. ASSUME NEW t \in Threads, ReadData(t) PROVE \A u \in Threads : LoadedAt(u)'
  <2>1. Alone(t) /\ UNCHANGED data /\ pc'[t] \notin {"apply", "check", "open"}
    BY <1>15, <1>t, <1>a DEF ReadData, Alone, recordVars, deviceVars, hwVars, localVars
  <2>2. QED
    BY <2>1, LoadedFrame DEF LoadedAt
<1>16. ASSUME NEW t \in Threads, Respond(t) PROVE \A u \in Threads : LoadedAt(u)'
  <2>1. Alone(t) /\ UNCHANGED data /\ pc'[t] \notin {"apply", "check", "open"}
    BY <1>16, <1>t, <1>a DEF Respond, Alone, recordVars, deviceVars, hwVars, localVars
  <2>2. QED
    BY <2>1, LoadedFrame DEF LoadedAt
<1>17. ASSUME NEW t \in Threads, Start(t) PROVE \A u \in Threads : LoadedAt(u)'
  <2>1. Alone(t) /\ UNCHANGED data /\ pc'[t] \notin {"apply", "check", "open"}
    BY <1>17, <1>t, <1>a DEF Start, Alone, recordVars, deviceVars, hwVars, localVars
  <2>2. QED
    BY <2>1, LoadedFrame DEF LoadedAt
<1>18. ASSUME NEW t \in Threads, Snapshot(t) PROVE \A u \in Threads : LoadedAt(u)'
  <2>1. Alone(t) /\ UNCHANGED data /\ pc'[t] \notin {"apply", "check", "open"}
    BY <1>18, <1>t, <1>a DEF Snapshot, Alone, recordVars, deviceVars, hwVars, localVars
  <2>2. QED
    BY <2>1, LoadedFrame DEF LoadedAt
<1>19. ASSUME NEW t \in Threads, LoopDone(t) PROVE \A u \in Threads : LoadedAt(u)'
  <2>1. Alone(t) /\ UNCHANGED data /\ pc'[t] \notin {"apply", "check", "open"}
    BY <1>19, <1>t, <1>a DEF LoopDone, Alone, recordVars, deviceVars, hwVars, localVars
  <2>2. QED
    BY <2>1, LoadedFrame DEF LoadedAt
<1>20. ASSUME NEW t \in Threads, Bind(t) PROVE \A u \in Threads : LoadedAt(u)'
  <2>1. Alone(t) /\ UNCHANGED data /\ pc'[t] \notin {"apply", "check", "open"}
    BY <1>20, <1>t, <1>a DEF Bind, Alone, recordVars, deviceVars, hwVars, localVars
  <2>2. QED
    BY <2>1, LoadedFrame DEF LoadedAt
<1>21. ASSUME NEW t \in Threads, StopServing(t) PROVE \A u \in Threads : LoadedAt(u)'
  <2>1. Alone(t) /\ UNCHANGED data /\ pc'[t] \notin {"apply", "check", "open"}
    BY <1>21, <1>t, <1>a DEF StopServing, Alone, recordVars, deviceVars, hwVars, localVars
  <2>2. QED
    BY <2>1, LoadedFrame DEF LoadedAt
<1>22. ASSUME NEW t \in Threads, Drained(t) PROVE \A u \in Threads : LoadedAt(u)'
  <2>1. Alone(t) /\ UNCHANGED data /\ pc'[t] \notin {"apply", "check", "open"}
    BY <1>22, <1>t, <1>a DEF Drained, Alone, recordVars, deviceVars, hwVars, localVars
  <2>2. QED
    BY <2>1, LoadedFrame DEF LoadedAt
<1>40. ASSUME NEW t \in Threads, LoadSettings(t) PROVE \A u \in Threads : LoadedAt(u)'
  <2>1. pc[t] = "load" /\ rd[t] \in BootRegs
    BY <1>40, <1>i DEF LoadSettings, Placed, WithRecord
  <2>2. FormOf(rd[t]) = data[rd[t]] /\ FormOf(rd[t]) # NoDev
    BY <2>1, FormFound DEF ServedInv, SettingsInv
  <2>3. /\ Alone(t) /\ UNCHANGED <<data, rd>>
        /\ pc'[t] = "apply" /\ obj'[t] = data[rd[t]]
    BY <1>40, <1>t, <2>2 DEF LoadSettings, Alone, recordVars, deviceVars
  <2>4. QED
    BY <2>3, LoadedFrame DEF LoadedAt
<1>41. ASSUME NEW t \in Threads, ApplySettings(t) PROVE \A u \in Threads : LoadedAt(u)'
  <2>1. pc[t] = "apply" /\ obj[t] = data[rd[t]] /\ Settled(data[rd[t]])'
    BY <1>41, ApplySettles
  <2>2. task[t] \in {"settings", "reload"}
    BY <1>i, <2>1 DEF Placed, RunnerAt, SetupAt, ApiAt
  <2>3. /\ Alone(t) /\ UNCHANGED <<data, rd, obj, task>>
        /\ pc'[t] = AfterLoad(task[t])
    BY <1>41, <1>t DEF ApplySettings, Alone, recordVars, deviceVars, localVars
  <2>4. pc'[t] \in {"next", "check"}
    BY <2>2, <2>3 DEF AfterLoad
  <2>5. LoadedAt(t)'
    BY <2>1, <2>3, <2>4 DEF LoadedAt
  <2>6. QED
    BY <2>3, <2>5, LoadedFrame
<1>42. ASSUME NEW t \in Threads, CheckOpen(t) PROVE \A u \in Threads : LoadedAt(u)'
  <2>1. pc[t] = "check" /\ rd[t] \in BootRegs
    BY <1>42, <1>i DEF CheckOpen, Placed, WithRecord
  <2>2. task[t] = "reload" \/ (t = Runner /\ task[t] = "boot")
    BY <1>i, <2>1 DEF Placed, RunnerAt, SetupAt, ApiAt
  <2>3. Settled(data[rd[t]])
    <3>1. CASE task[t] = "reload"
      BY <1>l, <2>1, <3>1 DEF LoadedAt
    <3>2. CASE t = Runner /\ task[t] = "boot"
      BY <2>1, <3>2 DEF SettingsInv, RunLoaded, Serving
    <3>3. QED
      BY <2>2, <3>1, <3>2
  <2>4. /\ Alone(t) /\ UNCHANGED <<data, rd, task, settings>>
        /\ \/ pc'[t] = "open" /\ obj'[t] = data[rd[t]]
           \/ pc'[t] = AfterOpen(task[t])
    BY <1>42, <1>t DEF CheckOpen, Alone, recordVars, deviceVars, hwVars
  <2>5. LoadedAt(t)'
    BY <1>a, <2>3, <2>4 DEF LoadedAt, Settled
  <2>6. QED
    BY <2>4, <2>5, LoadedFrame
<1>43. ASSUME NEW t \in Threads, SwapData(t) PROVE \A u \in Threads : LoadedAt(u)'
  <2>1. Alone(t) /\ pc'[t] = "load"
    BY <1>43, <1>t DEF SwapData, Alone, localVars
  <2>2. QED
    BY <1>43, <2>1, LoadedFrame DEF LoadedAt
<1>39. ASSUME NEW t \in Threads, NextRecord(t) PROVE \A u \in Threads : LoadedAt(u)'
  <2>1. /\ Alone(t) /\ UNCHANGED <<data, task>>
        /\ \/ pc'[t] \in {"load", "take"}
           \/ pc'[t] = "check" /\ task[t] = "boot"
    BY <1>39, <1>t DEF NextRecord, Alone, recordVars, deviceVars
  <2>2. QED
    BY <2>1, LoadedFrame DEF LoadedAt
<1>44. CASE ContextsEnd
  <2>1. UNCHANGED <<pc, task, rd, obj, data, settings>>
    BY <1>44, ContextsEndOnly DEF ServedInv, recordVars, deviceVars, localVars
  <2>2. QED
    BY <1>l, <2>1 DEF LoadedAt, Settled
<1>45. CASE UNCHANGED vars
  BY <1>45, <1>l DEF vars, LoadedAt, Settled, recordVars, deviceVars, hwVars, localVars
<1>46. QED
  BY <1>1, <1>2, <1>3, <1>4, <1>5, <1>6, <1>7, <1>8, <1>9, <1>10, <1>11, <1>12, <1>13, <1>14, <1>15, <1>16, <1>17, <1>18, <1>19, <1>20, <1>21, <1>22, <1>39, <1>40, <1>41, <1>42, <1>43, <1>44, <1>45, <1>p, ServedSteps DEF Served, ServedInv

-----------------------------------------------------------------------------
(* Settings are applied to no open device *)

\* A session is on the device its record serves, no two boot records serve one
\* device, and nothing was opened while Run loads the first settings.
ServesOwn == \A s \in Sessions : Open(s) => sess[s].dev = data[sess[s].reg]
OneEach == \A r, q \in BootRegs : data[r] = data[q] => r = q
NoneYet == task[Runner] \in {"none", "settings"} => opens = 0
ServesInv == ServesOwn /\ OneEach /\ NoneYet /\ FreshInv

\* Nothing is open at first, and the boot devices differ.
LEMMA InitServesInv == Init => ServesInv
<1> SUFFICES ASSUME Init PROVE ServesInv
  OBVIOUS
<1>1. ServesOwn /\ NoneYet /\ FreshInv
  BY InitFreshInv DEF Init, ServesOwn, NoneYet, Open
<1>2. OneEach
  <2>1. \A r \in BootRegs : data[r] = BootDev[r]
    BY BootRange DEF Init
  <2>2. QED
    BY <2>1, BootIsARegistration DEF OneEach, BootRegs
<1>3. QED
  BY <1>1, <1>2 DEF ServesInv

\* No session is open on a record without hardware, unless the goroutine that
\* works on the record has it in hand.
LEMMA NothingOn ==
  ASSUME ServedOnly, ServedInv, NEW t \in Threads, pc[t] \in Working, hw[rd[t]] = 0, tok[t] = 0,
         NEW s \in Sessions, Open(s)
  PROVE  sess[s].reg \in BootRegs /\ sess[s].reg # rd[t]
<1> USE DEF ServedInv
<1>1. sess[s].reg \in BootRegs /\ s # 0
  BY DEF HwInv, SessAt, Sessions
<1>2. ASSUME sess[s].reg = rd[t] PROVE FALSE
  <2>1. PICK u \in Threads : tok[u] = s /\ rd[u] = rd[t]
    BY <1>1, <1>2 DEF HwInv, SessAt
  <2>2. pc[u] \in Working
    BY <1>1, <2>1 DEF SessionInv, Holding, Working
  <2>3. u = t
    BY <2>1, <2>2, OneWorksOn
  <2>4. QED
    BY <1>1, <2>1, <2>3
<1>3. QED
  BY <1>1, <1>2

\* A step that swaps no device opens at most the one of the record in hand.
LEMMA OpensOwn ==
  ASSUME ServedOnly, ServedInv, SettingsInv, [Next]_vars
  PROVE  \/ \E t \in Threads : SwapData(t) /\ UNCHANGED sess
         \/ UNCHANGED data /\ \E t \in Threads : OpenSucceeds(t)
         \/ /\ UNCHANGED <<data, opens>>
            /\ \A z \in Sessions : /\ sess'[z].reg = sess[z].reg /\ sess'[z].dev = sess[z].dev
                                   /\ Open(z)' => Open(z)
<1>t. /\ sess \in [Sessions -> [reg : 0..MaxRegs, dev : Devs \union {NoDev},
                                st : {"none", "open", "cancelled", "closed"}, run : BOOLEAN]]
      /\ tok \in [Threads -> 0..MaxSessions] /\ MaxSessions \in Nat
  BY BootIsARegistration DEF ServedInv, TypeInv, TypeOK, HardwareTypes, ThreadTypes
<1>p. SetupThreads \subseteq Threads /\ ApiThreads \subseteq Threads
  BY DEF Threads
<1>1. ASSUME UNCHANGED <<data, opens, sess>>
      PROVE  /\ UNCHANGED <<data, opens>>
             /\ \A z \in Sessions : /\ sess'[z].reg = sess[z].reg /\ sess'[z].dev = sess[z].dev
                                    /\ Open(z)' => Open(z)
  BY <1>1 DEF Open
<1>2. ASSUME NEW t \in Threads
      PROVE  Served(t) => \/ SwapData(t) /\ UNCHANGED sess
                          \/ OpenSucceeds(t) /\ UNCHANGED data
                          \/ CancelHardware(t) \/ CloseHardware(t)
                          \/ UNCHANGED <<data, opens, sess>>
  BY DEF Served, LockReload, Rebuild, SwapItab, SwapData, UnlockReload, LoadSettings, ApplySettings, CheckOpen,
         OpenFails, OpenSucceeds, StoreHardware, TakeHardware, Return, recordVars, deviceVars, hwVars
<1>3. ASSUME NEW t \in Threads, CancelHardware(t) \/ CloseHardware(t)
      PROVE  /\ UNCHANGED <<data, opens>>
             /\ \A z \in Sessions : /\ sess'[z].reg = sess[z].reg /\ sess'[z].dev = sess[z].dev
                                    /\ Open(z)' => Open(z)
  <2>1. UNCHANGED <<data, opens>> /\ pc[t] \in {"cancel", "close"}
    BY <1>3 DEF CancelHardware, CloseHardware, Move, recordVars
  <2>2. tok[t] \in Sessions /\ sess[tok[t]].st \in {"open", "cancelled"}
    BY <1>t, <2>1 DEF ServedInv, SessionInv, Holding, Sessions, Open
  <2>3. PICK st : sess' = [sess EXCEPT ![tok[t]].st = st]
    BY <1>3 DEF CancelHardware, CloseHardware
  <2>4. \A z \in Sessions : /\ sess'[z].reg = sess[z].reg /\ sess'[z].dev = sess[z].dev
                            /\ z # tok[t] => sess'[z] = sess[z]
    BY <1>t, <2>2, <2>3
  <2>5. \A z \in Sessions : Open(z)' => Open(z)
    BY <2>2, <2>4 DEF Open
  <2>6. QED
    BY <2>1, <2>4, <2>5
<1>4. ASSUME NEW t \in Threads, NEW k \in Keys
      PROVE  Reload(t, k) \/ Request(t, k) => UNCHANGED <<data, opens, sess>>
  BY DEF Reload, Request, recordVars, hwVars
<1>5. ASSUME NEW t \in Threads
      PROVE  ReadItab(t) \/ ReadData(t) \/ Respond(t) => UNCHANGED <<data, opens, sess>>
  BY DEF ReadItab, ReadData, Respond, recordVars, hwVars
<1>6. Start(Runner) \/ Snapshot(Runner) \/ NextRecord(Runner) \/ LoopDone(Runner) \/ Bind(Runner)
        \/ Drained(Runner) \/ StopServing(Runner) \/ UNCHANGED vars => UNCHANGED <<data, opens, sess>>
  BY DEF Start, Snapshot, NextRecord, LoopDone, Bind, Drained, StopServing, vars, recordVars, hwVars
<1>7. ContextsEnd =>
        /\ UNCHANGED <<data, opens>>
        /\ \A z \in Sessions : /\ sess'[z].reg = sess[z].reg /\ sess'[z].dev = sess[z].dev
                               /\ Open(z)' => Open(z)
  BY ContextsEndOnly DEF ServedInv, recordVars
<1>8. QED
  BY <1>p, <1>1, <1>2, <1>3, <1>4, <1>5, <1>6, <1>7, ServedSteps DEF ServedInv

\* What is open is open on the device its record serves: a Reload swaps the
\* device of a record it has emptied, for one that no other record serves.
LEMMA NextServesOwn ==
  ASSUME ServedOnly, ServedInv, SettingsInv, ServesInv, [Next]_vars PROVE ServesOwn' /\ OneEach'
<1>t. /\ sess \in [Sessions -> [reg : 0..MaxRegs, dev : Devs \union {NoDev},
                                st : {"none", "open", "cancelled", "closed"}, run : BOOLEAN]]
      /\ data \in [Regs -> Devs \union {NoDev}] /\ opens \in 0..MaxSessions /\ BootRegs \subseteq Regs
      /\ pc \in [Threads -> Steps]
  BY BootRange DEF ServedInv, TypeInv, TypeOK, HardwareTypes, RecordTypes, ThreadTypes
<1>1. ASSUME NEW t \in Threads, SwapData(t), UNCHANGED sess PROVE ServesOwn' /\ OneEach'
  <2>1. pc[t] = "swapped" /\ data' = [data EXCEPT ![rd[t]] = obj[t]]
    BY <1>1 DEF SwapData
  <2>2. task[t] = "reload" /\ rd[t] \in BootRegs /\ tok[t] = 0
    BY <2>1 DEF ServedInv, PhaseInv, Placed, RunnerAt, SetupAt, ApiAt, WithRecord, Threads, ServedOnly, SessionInv, Holding
  <2>3. hw[rd[t]] = 0
    BY <2>1, <2>2 DEF ServedInv, HwInv, OpenEmpty, Emptied
  <2>4. \A r \in Regs : data[r] # obj[t]
    BY <2>1, <2>2 DEF ServesInv, FreshInv, Replacing
  <2>5. \A r \in Regs : data'[r] = IF r = rd[t] THEN obj[t] ELSE data[r]
    BY <1>t, <2>1, <2>2
  <2>6. \A s \in Sessions : Open(s) => sess[s].reg \in BootRegs /\ sess[s].reg # rd[t]
    BY <2>1, <2>2, <2>3, NothingOn DEF Working
  <2>7. ServesOwn'
    BY <1>t, <1>1, <2>5, <2>6 DEF ServesOwn, ServesInv, Open
  <2>8. OneEach'
    BY <1>t, <2>4, <2>5 DEF OneEach, ServesInv
  <2>9. QED
    BY <2>7, <2>8
<1>2. ASSUME NEW t \in Threads, OpenSucceeds(t), UNCHANGED data PROVE ServesOwn' /\ OneEach'
  <2>1. /\ pc[t] = "open" /\ obj[t] = data[rd[t]] /\ opens + 1 \in Sessions
    BY <1>t, <1>2, BootIsARegistration DEF OpenSucceeds, Move, SettingsInv, LoadedAt, Sessions
  <2>2. /\ sess'[opens + 1].reg = rd[t] /\ sess'[opens + 1].dev = obj[t]
        /\ \A z \in Sessions : z # opens + 1 => sess'[z] = sess[z]
    BY <1>t, <1>2, <2>1 DEF OpenSucceeds
  <2>3. ServesOwn'
    BY <1>2, <2>1, <2>2 DEF ServesOwn, ServesInv, Open
  <2>4. QED
    BY <1>2, <2>3 DEF OneEach, ServesInv
<1>3. ASSUME UNCHANGED data,
             \A z \in Sessions : sess'[z].reg = sess[z].reg /\ sess'[z].dev = sess[z].dev /\ (Open(z)' => Open(z))
      PROVE  ServesOwn' /\ OneEach'
  BY <1>3 DEF ServesOwn, OneEach, ServesInv
<1>4. QED
  BY <1>1, <1>2, <1>3, OpensOwn

\* Only the second loop of Run, and the handlers once it serves, open anything.
LEMMA NextNoneYet ==
  ASSUME ServedOnly, ServedInv, SettingsInv, ServesInv, [Next]_vars PROVE NoneYet'
<1> USE DEF Goto, Move
<1>t. task \in [Threads -> Tasks] /\ Runner \in Threads
  BY DEF ServedInv, TypeInv, TypeOK, ThreadTypes, Threads
<1>r. RunnerAt
  BY <1>t DEF ServedInv, PhaseInv, Placed
<1>1. CASE Serving
  <2>1. task'[Runner] \in {"boot", "stop"}
    BY <1>1, ServingOn DEF ServedInv
  <2>2. QED
    BY <2>1 DEF NoneYet
<1>2. CASE ~ Serving
  <2>1. CASE Start(Runner)
    BY <1>t, <1>r, <2>1 DEF Start, NoneYet, ServesInv, RunnerAt, hwVars
  <2>2. CASE LoopDone(Runner)
    BY <1>t, <1>r, <2>2 DEF LoopDone, NoneYet, ServesInv, RunnerAt, hwVars
  <2>3. CASE Bind(Runner)
    BY <1>t, <1>r, <2>3 DEF Bind, NoneYet, ServesInv, RunnerAt, hwVars
  <2>4. CASE OpenSucceeds(Runner)
    BY <1>t, <1>r, <2>4 DEF OpenSucceeds, NoneYet, RunnerAt
  <2>5. CASE Snapshot(Runner) \/ NextRecord(Runner)
    BY <2>5 DEF Snapshot, NextRecord, NoneYet, ServesInv, hwVars
  <2>6. CASE \/ LoadSettings(Runner) \/ ApplySettings(Runner) \/ CheckOpen(Runner) \/ OpenFails(Runner)
             \/ StoreHardware(Runner) \/ TakeHardware(Runner) \/ CancelHardware(Runner) \/ CloseHardware(Runner)
    BY <2>6 DEF LoadSettings, ApplySettings, CheckOpen, OpenFails, StoreHardware, TakeHardware, CancelHardware,
       CloseHardware, NoneYet, ServesInv, hwVars, localVars
  <2>7. CASE ContextsEnd \/ UNCHANGED vars
    BY <2>7, ContextsEndOnly DEF ServedInv, vars, NoneYet, ServesInv, hwVars, localVars
  <2>8. QED
    BY <1>2, <2>1, <2>2, <2>3, <2>4, <2>5, <2>6, <2>7, RunAlone DEF ServedInv
<1>3. QED
  BY <1>1, <1>2

\* Whoever applies settings does so to a device without open hardware.
LEMMA AppliesToClosed ==
  ASSUME ServedOnly, ServedInv, SettingsInv, ServesInv, NEW t \in Threads, pc[t] = "apply",
         NEW s \in Sessions, Open(s)
  PROVE  sess[s].dev # obj[t]
<1>1. obj[t] = data[rd[t]] /\ rd[t] \in BootRegs /\ tok[t] = 0
  BY DEF SettingsInv, LoadedAt, ServedInv, PhaseInv, Placed, WithRecord, SessionInv, Holding
<1>2. CASE t = Runner
  <2>1. opens = 0
    BY <1>2 DEF ServedInv, PhaseInv, Placed, RunnerAt, ServesInv, NoneYet
  <2>2. sess[s].st = "none"
    BY <2>1 DEF ServedInv, SessionInv, Sessions
  <2>3. QED
    BY <2>2 DEF Open
<1>3. CASE t # Runner
  <2>1. task[t] = "reload"
    BY <1>3 DEF ServedInv, PhaseInv, Placed, SetupAt, ApiAt, Threads, ServedOnly
  <2>2. hw[rd[t]] = 0
    BY <2>1 DEF ServedInv, HwInv, OpenEmpty, Emptied
  <2>3. sess[s].reg \in BootRegs /\ sess[s].reg # rd[t]
    BY <1>1, <2>2, NothingOn DEF Working
  <2>4. sess[s].dev = data[sess[s].reg]
    BY DEF ServesInv, ServesOwn
  <2>5. QED
    BY <1>1, <2>3, <2>4 DEF ServesInv, OneEach
<1>4. QED
  BY <1>2, <1>3

\* A device opens only after a load of its persisted settings, and none is
\* applied to one that is open: at the start of Run because the settings come
\* first, in a Reload because the form is the new device's from the moment it
\* is swapped in, and the old hardware is closed by then.
THEOREM SettingsFirst == ASSUME ServedOnly PROVE Spec => []SettingsBeforeOpen
<1> DEFINE Inv == ServedInv /\ SettingsInv /\ ServesInv
<1>1. Init => Inv
  BY InitServedInv, InitSettingsInv, InitServesInv
<1>2. Inv /\ [Next]_vars => Inv'
  <2> SUFFICES ASSUME Inv, [Next]_vars PROVE Inv'
    OBVIOUS
  <2>1. SettingsInv'
    BY NextFormsInv, NextRunLoaded, NextLoadedAt DEF SettingsInv
  <2>2. ServesInv'
    BY NextServesOwn, NextNoneYet, NextFreshInv DEF ServesInv, ServedInv
  <2>3. QED
    BY <2>1, <2>2, NextServedInv
<1>3. Inv => SettingsBeforeOpen
  <2> SUFFICES ASSUME Inv PROVE SettingsBeforeOpen
    OBVIOUS
  <2>1. \A t \in Threads : pc[t] = "open" => Settled(obj[t])
    BY DEF SettingsInv, LoadedAt
  <2>2. \A t \in Threads : pc[t] = "apply" => \A s \in Sessions : Open(s) => sess[s].dev # obj[t]
    BY AppliesToClosed
  <2>3. QED
    BY <2>1, <2>2 DEF SettingsBeforeOpen, Settled
<1>4. QED
  <2> HIDE DEF Inv
  <2>1. QED
    BY <1>1, <1>2, <1>3, PTL DEF Spec
=============================================================================
