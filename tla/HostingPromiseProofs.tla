------------------------ MODULE HostingPromiseProofs -------------------------
(* More results about Hosting, on top of the type and session invariants    *)
(* of HostingProofs: reloads of one record exclude each other, nobody waits *)
(* in a circle, the server's sessions implement HardwareSessions, the two   *)
(* indexes of the records agree, a Reload closes nothing before its         *)
(* replacement is built, and what a host that calls in while the server     *)
(* runs must not do for the hardware to stay in order.                      *)
EXTENDS HostingProofs

-----------------------------------------------------------------------------
(* reloadMu *)

\* A goroutine between reloadMu.Lock and its Unlock is the holder.
HolderInv ==
  \A t \in Threads : InReload(t) => rd[t] \in Regs /\ reloadMu[rd[t]] = t

\* No goroutine is in a Reload at first.
LEMMA InitHolderInv == Init => HolderInv
BY DEF Init, HolderInv, InReload

\* A step of t that neither takes nor releases a reloadMu, and enters no Reload.
MutexAlone(t) ==
  /\ \A u \in Threads \ {t} : pc'[u] = pc[u] /\ rd'[u] = rd[u] /\ task'[u] = task[u]
  /\ UNCHANGED reloadMu
  /\ InReload(t)' => InReload(t) /\ rd'[t] = rd[t]

\* Such a step leaves the holders as they are.
LEMMA HolderFrame ==
  ASSUME HolderInv, NEW t \in Threads, MutexAlone(t) PROVE HolderInv'
BY DEF HolderInv, InReload, MutexAlone

\* Every step keeps the holders: only LockReload enters, only UnlockReload leaves.
LEMMA NextHolderInv == TypeInv /\ HolderInv /\ [Next]_vars => HolderInv'
<1> SUFFICES ASSUME TypeInv, HolderInv, [Next]_vars PROVE HolderInv'
  OBVIOUS
<1> USE DEF Goto, Move
<1>t. /\ pc \in [Threads -> Steps] /\ task \in [Threads -> Tasks] /\ rd \in [Threads -> 0..MaxRegs]
      /\ reloadMu \in [Regs -> Threads \union {NoThread}]
      /\ DOMAIN queue = Threads
      /\ \A u \in Threads : LocalAt(u)
  BY DEF TypeInv, TypeOK, ThreadTypes, RecordTypes, LocalInv
<1>1. ASSUME NEW t \in Threads, NEW k \in Keys, NEW d \in Devs, Register(t, k, d) PROVE HolderInv'
  <2>1. MutexAlone(t)
    BY <1>1, <1>t DEF Register, MutexAlone, InReload, recordVars, hwVars, localVars
  <2>2. QED
    BY <2>1, HolderFrame
<1>2. ASSUME NEW t \in Threads, NEW k \in Keys, Unregister(t, k) PROVE HolderInv'
  <2>1. MutexAlone(t)
    BY <1>2, <1>t DEF Unregister, MutexAlone, InReload, recordVars, hwVars, localVars
  <2>2. QED
    BY <2>1, HolderFrame
<1>3. ASSUME NEW t \in Threads, NEW k \in Keys, SetReloader(t, k) PROVE HolderInv'
  <2>1. MutexAlone(t)
    BY <1>3, <1>t DEF SetReloader, MutexAlone, InReload, recordVars, hwVars, localVars
  <2>2. QED
    BY <2>1, HolderFrame
<1>4. ASSUME NEW t \in Threads, NEW k \in Keys, RegisterConfigurable(t, k) PROVE HolderInv'
  <2>1. MutexAlone(t)
    BY <1>4, <1>t DEF RegisterConfigurable, MutexAlone, InReload, recordVars, hwVars, localVars
  <2>2. QED
    BY <2>1, HolderFrame
<1>5. ASSUME NEW t \in Threads, NEW k \in Keys, Reload(t, k) PROVE HolderInv'
  <2>1. MutexAlone(t)
    BY <1>5, <1>t DEF Reload, MutexAlone, InReload, recordVars, hwVars, localVars
  <2>2. QED
    BY <2>1, HolderFrame
<1>6. ASSUME NEW t \in Threads, NEW k \in Keys, Request(t, k) PROVE HolderInv'
  <2>1. MutexAlone(t)
    BY <1>6, <1>t DEF Request, MutexAlone, InReload, recordVars, hwVars, localVars
  <2>2. QED
    BY <2>1, HolderFrame
<1>7. ASSUME NEW t \in Threads, ReloadAll(t) PROVE HolderInv'
  <2>1. MutexAlone(t)
    BY <1>7, <1>t DEF ReloadAll, MutexAlone, InReload, recordVars, hwVars, localVars
  <2>2. QED
    BY <2>1, HolderFrame
<1>8. ASSUME NEW t \in Threads, NextReload(t) PROVE HolderInv'
  <2>1. MutexAlone(t)
    BY <1>8, <1>t DEF NextReload, MutexAlone, InReload, recordVars, hwVars, localVars
  <2>2. QED
    BY <2>1, HolderFrame
<1>9. ASSUME NEW t \in Threads, Rebuild(t) PROVE HolderInv'
  <2>1. MutexAlone(t)
    BY <1>9, <1>t DEF Rebuild, MutexAlone, InReload, recordVars, hwVars, localVars
  <2>2. QED
    BY <2>1, HolderFrame
<1>10. ASSUME NEW t \in Threads, SwapItab(t) PROVE HolderInv'
  <2>1. MutexAlone(t)
    BY <1>10, <1>t DEF SwapItab, MutexAlone, InReload, recordVars, hwVars, localVars
  <2>2. QED
    BY <2>1, HolderFrame
<1>11. ASSUME NEW t \in Threads, SwapData(t) PROVE HolderInv'
  <2>1. MutexAlone(t)
    BY <1>11, <1>t DEF SwapData, MutexAlone, InReload, recordVars, hwVars, localVars
  <2>2. QED
    BY <2>1, HolderFrame
<1>12. ASSUME NEW t \in Threads, LoadSettings(t) PROVE HolderInv'
  <2>1. MutexAlone(t)
    BY <1>12, <1>t DEF LoadSettings, MutexAlone, InReload, recordVars, hwVars, localVars, AfterLoad
  <2>2. QED
    BY <2>1, HolderFrame
<1>13. ASSUME NEW t \in Threads, ApplySettings(t) PROVE HolderInv'
  <2>1. MutexAlone(t)
    BY <1>13, <1>t DEF ApplySettings, MutexAlone, InReload, recordVars, hwVars, localVars, AfterLoad
  <2>2. QED
    BY <2>1, HolderFrame
<1>14. ASSUME NEW t \in Threads, CheckOpen(t) PROVE HolderInv'
  <2>1. MutexAlone(t)
    BY <1>14, <1>t DEF CheckOpen, MutexAlone, InReload, recordVars, hwVars, localVars
  <2>2. QED
    BY <2>1, HolderFrame
<1>15. ASSUME NEW t \in Threads, OpenFails(t) PROVE HolderInv'
  <2>1. MutexAlone(t)
    BY <1>15, <1>t DEF OpenFails, MutexAlone, InReload, recordVars, hwVars, localVars
  <2>2. QED
    BY <2>1, HolderFrame
<1>16. ASSUME NEW t \in Threads, OpenSucceeds(t) PROVE HolderInv'
  <2>1. MutexAlone(t)
    BY <1>16, <1>t DEF OpenSucceeds, MutexAlone, InReload, recordVars, hwVars, localVars
  <2>2. QED
    BY <2>1, HolderFrame
<1>17. ASSUME NEW t \in Threads, StoreHardware(t) PROVE HolderInv'
  <2>1. MutexAlone(t)
    BY <1>17, <1>t DEF StoreHardware, MutexAlone, InReload, recordVars, hwVars, localVars
  <2>2. QED
    BY <2>1, HolderFrame
<1>18. ASSUME NEW t \in Threads, TakeHardware(t) PROVE HolderInv'
  <2>1. MutexAlone(t)
    BY <1>18, <1>t DEF TakeHardware, MutexAlone, InReload, recordVars, hwVars, localVars
  <2>2. QED
    BY <2>1, HolderFrame
<1>19. ASSUME NEW t \in Threads, CancelHardware(t) PROVE HolderInv'
  <2>1. MutexAlone(t)
    BY <1>19, <1>t DEF CancelHardware, MutexAlone, InReload, recordVars, hwVars, localVars
  <2>2. QED
    BY <2>1, HolderFrame
<1>20. ASSUME NEW t \in Threads, CloseHardware(t) PROVE HolderInv'
  <2>1. MutexAlone(t)
    BY <1>20, <1>t DEF CloseHardware, MutexAlone, InReload, recordVars, hwVars, localVars
  <2>2. QED
    BY <2>1, HolderFrame
<1>21. ASSUME NEW t \in Threads, Return(t) PROVE HolderInv'
  <2>1. MutexAlone(t)
    BY <1>21, <1>t DEF Return, MutexAlone, InReload, recordVars, hwVars, localVars
  <2>2. QED
    BY <2>1, HolderFrame
<1>22. ASSUME NEW t \in Threads, Start(t) PROVE HolderInv'
  <2>1. MutexAlone(t)
    BY <1>22, <1>t DEF Start, MutexAlone, InReload, recordVars, hwVars, localVars
  <2>2. QED
    BY <2>1, HolderFrame
<1>23. ASSUME NEW t \in Threads, Snapshot(t) PROVE HolderInv'
  <2>1. MutexAlone(t)
    BY <1>23, <1>t DEF Snapshot, MutexAlone, InReload, recordVars, hwVars, localVars
  <2>2. QED
    BY <2>1, HolderFrame
<1>24. ASSUME NEW t \in Threads, NextRecord(t) PROVE HolderInv'
  <2>1. MutexAlone(t)
    BY <1>24, <1>t DEF NextRecord, MutexAlone, InReload, recordVars, hwVars, localVars
  <2>2. QED
    BY <2>1, HolderFrame
<1>25. ASSUME NEW t \in Threads, LoopDone(t) PROVE HolderInv'
  <2>1. MutexAlone(t)
    BY <1>25, <1>t DEF LoopDone, MutexAlone, InReload, recordVars, hwVars, localVars
  <2>2. QED
    BY <2>1, HolderFrame
<1>26. ASSUME NEW t \in Threads, Bind(t) PROVE HolderInv'
  <2>1. MutexAlone(t)
    BY <1>26, <1>t DEF Bind, MutexAlone, InReload, recordVars, hwVars, localVars
  <2>2. QED
    BY <2>1, HolderFrame
<1>27. ASSUME NEW t \in Threads, StopServing(t) PROVE HolderInv'
  <2>1. MutexAlone(t)
    BY <1>27, <1>t DEF StopServing, MutexAlone, InReload, recordVars, hwVars, localVars
  <2>2. QED
    BY <2>1, HolderFrame
<1>28. ASSUME NEW t \in Threads, Drained(t) PROVE HolderInv'
  <2>1. MutexAlone(t)
    BY <1>28, <1>t DEF Drained, MutexAlone, InReload, recordVars, hwVars, localVars
  <2>2. QED
    BY <2>1, HolderFrame
<1>29. ASSUME NEW t \in Threads, ReadItab(t) PROVE HolderInv'
  <2>1. MutexAlone(t)
    BY <1>29, <1>t DEF ReadItab, MutexAlone, InReload, recordVars, hwVars, localVars
  <2>2. QED
    BY <2>1, HolderFrame
<1>30. ASSUME NEW t \in Threads, ReadData(t) PROVE HolderInv'
  <2>1. MutexAlone(t)
    BY <1>30, <1>t DEF ReadData, MutexAlone, InReload, recordVars, hwVars, localVars
  <2>2. QED
    BY <2>1, HolderFrame
<1>31. ASSUME NEW t \in Threads, Respond(t) PROVE HolderInv'
  <2>1. MutexAlone(t)
    BY <1>31, <1>t DEF Respond, MutexAlone, InReload, recordVars, hwVars, localVars
  <2>2. QED
    BY <2>1, HolderFrame
<1>32. ASSUME NEW t \in Threads, LockReload(t) PROVE HolderInv'
  <2>1. rd[t] \in Regs /\ reloadMu[rd[t]] = NoThread
    BY <1>32, <1>t DEF LockReload, LocalAt, WithRecord
  <2>2. \A u \in Threads : pc'[u] = (IF u = t THEN "rebuild" ELSE pc[u]) /\ rd'[u] = rd[u]
                           /\ task'[u] = task[u]
    BY <1>32, <1>t DEF LockReload, localVars
  <2>3. \A r \in Regs : reloadMu'[r] = IF r = rd[t] THEN t ELSE reloadMu[r]
    BY <1>32, <1>t DEF LockReload
  <2>4. \A u \in Threads \ {t} : InReload(u) => rd[u] # rd[t]
    BY <2>1, ThreadsDiffer DEF HolderInv
  <2>5. QED
    BY <2>1, <2>2, <2>3, <2>4 DEF HolderInv, InReload
<1>33. ASSUME NEW t \in Threads, UnlockReload(t) PROVE HolderInv'
  <2>1. InReload(t)
    BY <1>33, <1>t DEF UnlockReload, LocalAt, ReloadOnly, InReload
  <2>2. \A u \in Threads : rd'[u] = rd[u] /\ task'[u] = task[u] /\ (u # t => pc'[u] = pc[u])
    BY <1>33, <1>t DEF UnlockReload, localVars
  <2>3. ~ InReload(t)'
    BY <1>33, <1>t DEF UnlockReload, InReload
  <2>4. \A r \in Regs : r # rd[t] => reloadMu'[r] = reloadMu[r]
    BY <1>33, <1>t DEF UnlockReload
  <2>5. \A u \in Threads \ {t} : InReload(u) => rd[u] # rd[t]
    BY <2>1 DEF HolderInv
  <2>6. QED
    BY <2>2, <2>3, <2>4, <2>5 DEF HolderInv, InReload
<1>34. CASE ContextsEnd
  BY <1>34, ContextsEndOnly DEF HolderInv, InReload, recordVars, localVars
<1>35. CASE UNCHANGED vars
  BY <1>35 DEF vars, HolderInv, InReload, recordVars, localVars
<1>36. QED
  BY <1>1, <1>2, <1>3, <1>4, <1>5, <1>6, <1>7, <1>8, <1>9, <1>10, <1>11, <1>12, <1>13, <1>14, <1>15, <1>16, <1>17, <1>18, <1>19, <1>20, <1>21, <1>22, <1>23, <1>24, <1>25, <1>26, <1>27, <1>28, <1>29, <1>30, <1>31, <1>32, <1>33, <1>34, <1>35
  DEF Next, HostCall, Continue, RunStep, Answer, Threads, ContextsEnd

\* Reloads of one device are serialized, however many handlers, hosts and
\* signals ask for them (reload.go, reloadMu).
THEOREM ReloadsExclusive == Spec => []ReloadExclusive
<1>1. Init => TypeInv /\ HolderInv
  BY InitTypeInv, InitHolderInv
<1>2. TypeInv /\ HolderInv /\ [Next]_vars => (TypeInv /\ HolderInv)'
  BY NextTypeInv, NextHolderInv
<1>3. HolderInv => ReloadExclusive
  BY DEF HolderInv, ReloadExclusive
<1>4. QED
  BY <1>1, <1>2, <1>3, PTL DEF Spec

-----------------------------------------------------------------------------
(* Who waits for whom *)

\* The steps of a Reload between reloadMu.Lock and its Unlock.
Inner == {"rebuild", "take", "cancel", "close", "swap", "swapped", "load", "apply", "check", "open",
          "store", "unlock"}

\* The steps of Run that no other goroutine takes.
RunOnly == {"start", "snapshot", "bind", "serve", "drain", "stopped"}

\* The steps that begin with Server.mu.Lock.
NeedsMu(t) ==
  \/ pc[t] \in {"start", "snapshot", "load", "check", "store", "take", "swap"}
  \/ pc[t] = "next" /\ task[t] = "reload"

\* t can do nothing until another goroutine has done something: Server.mu or the
\* record's reloadMu is held, or Shutdown waits for the handlers of requests.
Waits(t) ==
  \/ NeedsMu(t) /\ mu # NoThread
  \/ pc[t] = "lock" /\ reloadMu[rd[t]] # NoThread
  \/ pc[t] = "drain" /\ ~ DrainTimesOut /\ \E h \in Handlers : pc[h] # "idle"

\* t is in a call of the server or in Run, and Run is not just serving.
InCall(t) == pc[t] \notin {"idle", "serve", "stopped"}

\* Nobody waits in a circle: while somebody waits, somebody else can go on.
SomebodyMoves == \A t \in Threads : Waits(t) => \E u \in Threads : InCall(u) /\ ~ Waits(u)

\* A held lock has a holder that is in the section the lock guards: Server.mu
\* between the two words of a swap, reloadMu inside a Reload of that record.
WaitInv ==
  /\ mu # NoThread => pc[mu] = "swapped"
  /\ \A r \in Regs : reloadMu[r] # NoThread =>
       rd[reloadMu[r]] = r /\ task[reloadMu[r]] = "reload" /\ pc[reloadMu[r]] \in Inner
  /\ \A t \in Threads : pc[t] \in RunOnly => t = Runner
  /\ task[Runner] # "reload"

\* No lock is held at first.
LEMMA InitWaitInv == Init => WaitInv
BY ThreadsDiffer DEF Init, WaitInv, RunOnly, Threads

\* A step of t that takes and releases no lock, and does not leave a Reload.
LockFree(t) ==
  /\ \A u \in Threads \ {t} : pc'[u] = pc[u] /\ rd'[u] = rd[u] /\ task'[u] = task[u]
  /\ UNCHANGED <<mu, reloadMu>>
  /\ pc[t] # "swapped"
  /\ pc[t] \in Inner /\ task[t] = "reload" => pc'[t] \in Inner /\ task'[t] = "reload" /\ rd'[t] = rd[t]
  /\ pc'[t] \in RunOnly => t = Runner
  /\ t = Runner => task'[t] = task[t] \/ task'[t] # "reload"

\* Such a step leaves every holder in its section.
LEMMA LockFreeKeeps ==
  ASSUME WaitInv, mu \in Threads \union {NoThread}, reloadMu \in [Regs -> Threads \union {NoThread}],
         NEW t \in Threads, LockFree(t)
  PROVE  WaitInv'
<1>1. mu' # NoThread => pc'[mu'] = "swapped"
  BY DEF WaitInv, LockFree
<1>2. ASSUME NEW r \in Regs, reloadMu'[r] # NoThread
      PROVE  rd'[reloadMu'[r]] = r /\ task'[reloadMu'[r]] = "reload" /\ pc'[reloadMu'[r]] \in Inner
  <2>1. PICK h \in Threads : h = reloadMu[r] /\ h = reloadMu'[r]
    BY <1>2 DEF LockFree
  <2>2. rd[h] = r /\ task[h] = "reload" /\ pc[h] \in Inner
    BY <1>2, <2>1 DEF WaitInv
  <2>3. rd'[h] = r /\ task'[h] = "reload" /\ pc'[h] \in Inner
    BY <2>2 DEF LockFree
  <2> QED
    BY <2>1, <2>3
<1>3. \A u \in Threads : pc'[u] \in RunOnly => u = Runner
  BY DEF WaitInv, LockFree
<1>4. task'[Runner] # "reload"
  BY DEF WaitInv, LockFree, Threads
<1> QED
  BY <1>1, <1>2, <1>3, <1>4 DEF WaitInv

\* What a goroutine does by itself inside a call, but for the four steps that
\* take or release a lock.
LEMMA ContinueLockFree ==
  ASSUME TypeInv, NEW t \in Threads,
         Continue(t) \/ Answer(t), ~ (LockReload(t) \/ SwapItab(t) \/ SwapData(t) \/ UnlockReload(t))
  PROVE  LockFree(t)
<1> USE DEF Goto, Move
<1>t. /\ pc \in [Threads -> Steps] /\ task \in [Threads -> Tasks] /\ rd \in [Threads -> 0..MaxRegs]
      /\ DOMAIN queue = Threads
  BY DEF TypeInv, TypeOK, ThreadTypes
<1>1. NextReload(t) => LockFree(t)
  BY <1>t DEF NextReload, LockFree, Inner, RunOnly, serverVars, recordVars, localVars
<1>2. Rebuild(t) => LockFree(t)
  BY <1>t DEF Rebuild, LockFree, Inner, RunOnly, serverVars, recordVars, localVars
<1>3. LoadSettings(t) => LockFree(t)
  BY <1>t, AfterSteps DEF LoadSettings, LockFree, Inner, RunOnly, AfterLoad, serverVars, recordVars, localVars
<1>4. ApplySettings(t) => LockFree(t)
  BY <1>t, AfterSteps DEF ApplySettings, LockFree, Inner, RunOnly, AfterLoad, serverVars, recordVars, localVars
<1>5. CheckOpen(t) => LockFree(t)
  BY <1>t, AfterSteps DEF CheckOpen, LockFree, Inner, RunOnly, AfterOpen, serverVars, recordVars, localVars
<1>6. OpenFails(t) => LockFree(t)
  BY <1>t, AfterSteps DEF OpenFails, LockFree, Inner, RunOnly, AfterOpen, serverVars, recordVars, localVars
<1>7. OpenSucceeds(t) => LockFree(t)
  BY <1>t DEF OpenSucceeds, LockFree, Inner, RunOnly, serverVars, recordVars, localVars
<1>8. StoreHardware(t) => LockFree(t)
  BY <1>t, AfterSteps DEF StoreHardware, LockFree, Inner, RunOnly, AfterOpen, serverVars, recordVars, localVars
<1>9. TakeHardware(t) => LockFree(t)
  BY <1>t, AfterSteps DEF TakeHardware, LockFree, Inner, RunOnly, AfterClose, serverVars, recordVars, localVars
<1>10. CancelHardware(t) => LockFree(t)
  BY <1>t DEF CancelHardware, LockFree, Inner, RunOnly, serverVars, recordVars, localVars
<1>11. CloseHardware(t) => LockFree(t)
  BY <1>t, AfterSteps DEF CloseHardware, LockFree, Inner, RunOnly, AfterClose, serverVars, recordVars, localVars
<1>12. Return(t) => LockFree(t)
  BY <1>t DEF Return, LockFree, Inner, RunOnly, serverVars, recordVars, localVars
<1>13. ReadItab(t) => LockFree(t)
  BY <1>t DEF ReadItab, LockFree, Inner, RunOnly, serverVars, recordVars, localVars
<1>14. ReadData(t) => LockFree(t)
  BY <1>t DEF ReadData, LockFree, Inner, RunOnly, serverVars, recordVars, localVars
<1>15. Respond(t) => LockFree(t)
  BY <1>t DEF Respond, LockFree, Inner, RunOnly, serverVars, recordVars, localVars
<1> QED
  BY <1>1, <1>2, <1>3, <1>4, <1>5, <1>6, <1>7, <1>8, <1>9, <1>10, <1>11, <1>12, <1>13, <1>14, <1>15 DEF Continue, Answer

\* A call that begins takes no lock that it keeps.
LEMMA CallLockFree ==
  ASSUME TypeInv, NEW t \in Threads, t # Runner,
         HostCall(t) \/ \E k \in Keys : Reload(t, k) \/ Request(t, k)
  PROVE  LockFree(t)
<1> USE DEF Goto, Move
<1>t. /\ pc \in [Threads -> Steps] /\ task \in [Threads -> Tasks] /\ rd \in [Threads -> 0..MaxRegs]
      /\ DOMAIN queue = Threads
  BY DEF TypeInv, TypeOK, ThreadTypes
<1>1. ASSUME NEW k \in Keys, NEW d \in Devs, Register(t, k, d) PROVE LockFree(t)
  BY <1>1, <1>t DEF Register, LockFree, Inner, RunOnly, serverVars, recordVars, deviceVars, localVars
<1>2. ASSUME NEW k \in Keys, Unregister(t, k) PROVE LockFree(t)
  BY <1>2, <1>t DEF Unregister, LockFree, Inner, RunOnly, serverVars, recordVars, deviceVars, localVars
<1>3. ASSUME NEW k \in Keys, SetReloader(t, k) PROVE LockFree(t)
  BY <1>3, <1>t DEF SetReloader, LockFree, Inner, RunOnly, serverVars, recordVars, deviceVars, localVars
<1>4. ASSUME NEW k \in Keys, RegisterConfigurable(t, k) PROVE LockFree(t)
  BY <1>4, <1>t DEF RegisterConfigurable, LockFree, Inner, RunOnly, serverVars, recordVars, deviceVars, localVars
<1>5. ASSUME NEW k \in Keys, Reload(t, k) PROVE LockFree(t)
  BY <1>5, <1>t DEF Reload, LockFree, Inner, RunOnly, serverVars, recordVars, deviceVars, localVars
<1>6. ASSUME NEW k \in Keys, Request(t, k) PROVE LockFree(t)
  BY <1>6, <1>t DEF Request, LockFree, Inner, RunOnly, serverVars, recordVars, deviceVars, localVars
<1>7. ASSUME ReloadAll(t) PROVE LockFree(t)
  BY <1>7, <1>t DEF ReloadAll, LockFree, Inner, RunOnly, serverVars, recordVars, deviceVars, localVars
<1> QED
  BY <1>1, <1>2, <1>3, <1>4, <1>5, <1>6, <1>7 DEF HostCall

\* Nor does Run, whose loops take Server.mu for a single step.
LEMMA RunLockFree ==
  ASSUME TypeInv, task[Runner] # "reload", RunStep(Runner) \/ StopServing(Runner)
  PROVE  LockFree(Runner)
<1> USE DEF Goto, Move
<1>t. /\ pc \in [Threads -> Steps] /\ task \in [Threads -> Tasks] /\ rd \in [Threads -> 0..MaxRegs]
      /\ DOMAIN queue = Threads /\ Runner \in Threads
  BY DEF TypeInv, TypeOK, ThreadTypes, Threads
<1>1. Start(Runner) => LockFree(Runner)
  BY <1>t DEF Start, LockFree, Inner, RunOnly, serverVars, recordVars, localVars
<1>2. Snapshot(Runner) => LockFree(Runner)
  BY <1>t DEF Snapshot, LockFree, Inner, RunOnly, serverVars, recordVars, localVars
<1>3. NextRecord(Runner) => LockFree(Runner)
  BY <1>t DEF NextRecord, LockFree, Inner, RunOnly, serverVars, recordVars, localVars
<1>4. LoopDone(Runner) => LockFree(Runner)
  BY <1>t DEF LoopDone, LockFree, Inner, RunOnly, serverVars, recordVars, localVars
<1>5. Bind(Runner) => LockFree(Runner)
  BY <1>t DEF Bind, LockFree, Inner, RunOnly, serverVars, recordVars, localVars
<1>6. Drained(Runner) => LockFree(Runner)
  BY <1>t DEF Drained, LockFree, Inner, RunOnly, serverVars, recordVars, localVars
<1>7. StopServing(Runner) => LockFree(Runner)
  BY <1>t DEF StopServing, LockFree, Inner, RunOnly, serverVars, recordVars, localVars
<1> QED
  BY <1>1, <1>2, <1>3, <1>4, <1>5, <1>6, <1>7 DEF RunStep
\* Every step keeps the holders in their sections.
LEMMA NextWaitInv == ASSUME TypeInv, WaitInv, [Next]_vars PROVE WaitInv'
<1> USE DEF Goto, Move
<1>t. /\ pc \in [Threads -> Steps] /\ task \in [Threads -> Tasks] /\ rd \in [Threads -> 0..MaxRegs]
      /\ mu \in Threads \union {NoThread} /\ reloadMu \in [Regs -> Threads \union {NoThread}]
  BY DEF TypeInv, TypeOK, ThreadTypes, ServerTypes, RecordTypes
<1>r. Runner \in Threads /\ NoThread \notin Threads
  BY ThreadsDiffer DEF Threads
<1>a. \A t \in Threads : LocalAt(t)
  BY DEF TypeInv, LocalInv
<1>1. ASSUME NEW t \in Threads, LockFree(t) PROVE WaitInv'
  BY <1>1, <1>t, LockFreeKeeps
<1>2. ASSUME NEW t \in Threads, LockReload(t) PROVE WaitInv'
  <2>1. /\ pc[t] = "lock" /\ reloadMu[rd[t]] = NoThread
        /\ pc' = [pc EXCEPT ![t] = "rebuild"] /\ reloadMu' = [reloadMu EXCEPT ![rd[t]] = t]
        /\ UNCHANGED <<mu, task, rd>>
    BY <1>2 DEF LockReload, serverVars, localVars
  <2>2. rd[t] \in Regs /\ task[t] = "reload"
    BY <1>a, <2>1 DEF LocalAt, WithRecord, ReloadOnly
  <2>3. ASSUME NEW r \in Regs, reloadMu'[r] # NoThread
        PROVE  rd'[reloadMu'[r]] = r /\ task'[reloadMu'[r]] = "reload" /\ pc'[reloadMu'[r]] \in Inner
    <3>1. CASE r = rd[t]
      BY <1>t, <2>1, <2>2, <3>1 DEF Inner
    <3>2. CASE r # rd[t]
      <4>1. PICK h \in Threads : h = reloadMu[r] /\ h = reloadMu'[r]
        BY <1>t, <2>1, <2>3, <3>2
      <4>2. rd[h] = r /\ task[h] = "reload" /\ pc[h] \in Inner
        BY <2>3, <4>1, <1>r DEF WaitInv
      <4> QED
        BY <1>t, <2>1, <4>1, <4>2 DEF Inner
    <3> QED
      BY <3>1, <3>2
  <2>4. mu' # NoThread => pc'[mu'] = "swapped"
    BY <1>t, <2>1 DEF WaitInv
  <2>5. (\A u \in Threads : pc'[u] \in RunOnly => u = Runner) /\ task'[Runner] # "reload"
    BY <1>t, <2>1 DEF WaitInv, RunOnly
  <2> QED
    BY <2>3, <2>4, <2>5 DEF WaitInv
<1>3. ASSUME NEW t \in Threads, UnlockReload(t) PROVE WaitInv'
  <2>1. /\ pc[t] = "unlock" /\ reloadMu' = [reloadMu EXCEPT ![rd[t]] = NoThread]
        /\ pc'[t] \in {"return", "next"} /\ (\A u \in Threads \ {t} : pc'[u] = pc[u])
        /\ UNCHANGED <<mu, task, rd>>
    BY <1>3, <1>t DEF UnlockReload, serverVars, localVars
  <2>2. rd[t] \in Regs
    BY <1>a, <2>1 DEF LocalAt, WithRecord
  <2>3. ASSUME NEW r \in Regs, reloadMu'[r] # NoThread
        PROVE  rd'[reloadMu'[r]] = r /\ task'[reloadMu'[r]] = "reload" /\ pc'[reloadMu'[r]] \in Inner
    <3>1. r # rd[t] /\ reloadMu'[r] = reloadMu[r]
      BY <1>t, <2>1, <2>2, <2>3
    <3>2. PICK h \in Threads : h = reloadMu[r] /\ h = reloadMu'[r]
      BY <1>t, <2>3, <3>1
    <3>3. rd[h] = r /\ task[h] = "reload" /\ pc[h] \in Inner
      BY <2>3, <3>1, <3>2 DEF WaitInv
    <3> QED
      BY <2>1, <3>1, <3>2, <3>3
  <2>4. mu' # NoThread => pc'[mu'] = "swapped"
    BY <1>t, <2>1 DEF WaitInv
  <2>5. (\A u \in Threads : pc'[u] \in RunOnly => u = Runner) /\ task'[Runner] # "reload"
    BY <1>t, <2>1 DEF WaitInv, RunOnly
  <2> QED
    BY <2>3, <2>4, <2>5 DEF WaitInv
<1>4. ASSUME NEW t \in Threads, SwapItab(t) \/ SwapData(t) PROVE WaitInv'
  <2>1. /\ pc[t] \in {"swap", "swapped"} /\ UNCHANGED <<task, rd, reloadMu>>
        /\ \/ pc' = [pc EXCEPT ![t] = "swapped"] /\ mu' = t
           \/ pc' = [pc EXCEPT ![t] = "load"] /\ mu' = NoThread
    BY <1>4 DEF SwapItab, SwapData, localVars
  <2>2. pc'[t] \in {"swapped", "load"} /\ \A u \in Threads \ {t} : pc'[u] = pc[u]
    BY <1>t, <2>1
  <2>3. ASSUME NEW r \in Regs, reloadMu'[r] # NoThread
        PROVE  rd'[reloadMu'[r]] = r /\ task'[reloadMu'[r]] = "reload" /\ pc'[reloadMu'[r]] \in Inner
    <3>1. PICK h \in Threads : h = reloadMu[r] /\ h = reloadMu'[r]
      BY <1>t, <2>1, <2>3
    <3>2. rd[h] = r /\ task[h] = "reload" /\ pc[h] \in Inner
      BY <2>1, <2>3, <3>1 DEF WaitInv
    <3>3. pc'[h] \in Inner
      BY <2>2, <3>2 DEF Inner
    <3> QED
      BY <2>1, <3>1, <3>2, <3>3
  <2>4. mu' # NoThread => pc'[mu'] = "swapped"
    BY <1>t, <2>1
  <2>5. (\A u \in Threads : pc'[u] \in RunOnly => u = Runner) /\ task'[Runner] # "reload"
    BY <2>1, <2>2 DEF WaitInv, RunOnly
  <2> QED
    BY <2>3, <2>4, <2>5 DEF WaitInv
<1>5. CASE ContextsEnd \/ UNCHANGED vars
  <2>1. UNCHANGED <<mu, reloadMu, pc, task, rd>>
    BY <1>5, ContextsEndOnly DEF vars, serverVars, recordVars, localVars
  <2> QED
    BY <2>1 DEF WaitInv
<1>6. \A t \in HostThreads \union SetupThreads \union ApiThreads : t \in Threads /\ t # Runner
  BY ThreadsDiffer DEF Threads
<1>7. ASSUME NEW t \in Threads, Continue(t) \/ (t \in ApiThreads /\ Answer(t)) PROVE WaitInv'
  BY <1>1, <1>2, <1>3, <1>4, <1>7, ContinueLockFree
<1>8. ASSUME NEW t \in HostThreads, HostCall(t) PROVE WaitInv'
  BY <1>1, <1>6, <1>8, CallLockFree
<1>9. ASSUME NEW t \in SetupThreads \union ApiThreads, NEW k \in Keys, Reload(t, k) \/ Request(t, k)
      PROVE  WaitInv'
  BY <1>1, <1>6, <1>9, CallLockFree
<1>10. CASE RunStep(Runner) \/ StopServing(Runner)
  BY <1>1, <1>r, <1>10, RunLockFree DEF WaitInv
<1> QED
  BY <1>5, <1>6, <1>7, <1>8, <1>9, <1>10 DEF Next, ContextsEnd

\* No deadlock over the server's locks and its shutdown: whatever hosts and
\* handlers do, and however many there are, whoever waits for Server.mu, for a
\* reloadMu or for Shutdown waits, directly or not, for somebody who can go on
\* (server.go, reload.go: reloadMu is taken before Server.mu and never after).
THEOREM NobodyStuck == Spec => []SomebodyMoves
<1>1. Init => TypeInv /\ WaitInv
  BY InitTypeInv, InitWaitInv
<1>2. TypeInv /\ WaitInv /\ [Next]_vars => (TypeInv /\ WaitInv)'
  BY NextTypeInv, NextWaitInv
<1>3. TypeInv /\ WaitInv => SomebodyMoves
  <2> SUFFICES ASSUME TypeInv, WaitInv, NEW t \in Threads, Waits(t)
               PROVE  \E u \in Threads : InCall(u) /\ ~ Waits(u)
    BY DEF SomebodyMoves
  <2>t. /\ mu \in Threads \union {NoThread} /\ reloadMu \in [Regs -> Threads \union {NoThread}]
        /\ \A u \in Threads : LocalAt(u)
    BY DEF TypeInv, TypeOK, ServerTypes, RecordTypes, LocalInv
  <2>1. CASE mu # NoThread
    <3>1. mu \in Threads /\ pc[mu] = "swapped"
      BY <2>t, <2>1 DEF WaitInv
    <3> QED
      BY <3>1 DEF InCall, Waits, NeedsMu
  <2>2. ASSUME mu = NoThread, NEW u \in Threads, pc[u] = "lock", Waits(u)
        PROVE  \E h \in Threads : InCall(h) /\ ~ Waits(h)
    <3>1. rd[u] \in Regs
      BY <2>t, <2>2 DEF LocalAt, WithRecord
    <3>2. reloadMu[rd[u]] # NoThread
      BY <2>2 DEF Waits, NeedsMu
    <3>3. PICK h \in Threads : h = reloadMu[rd[u]]
      BY <2>t, <3>1, <3>2
    <3>4. pc[h] \in Inner
      BY <3>1, <3>2, <3>3 DEF WaitInv
    <3> QED
      BY <2>2, <3>4 DEF InCall, Waits, Inner
  <2>3. CASE mu = NoThread /\ pc[t] # "lock"
    <3>1. PICK h \in Handlers : pc[h] # "idle"
      BY <2>3 DEF Waits
    <3>2. h \in Threads /\ h # Runner
      BY <3>1, ThreadsDiffer DEF Handlers, Threads
    <3>3. pc[h] \notin RunOnly
      BY <3>2 DEF WaitInv
    <3>4. InCall(h)
      BY <3>1, <3>3 DEF InCall, RunOnly
    <3>5. CASE Waits(h)
      <4>1. pc[h] = "lock"
        BY <2>3, <3>3, <3>5 DEF Waits, RunOnly
      <4> QED
        BY <2>2, <2>3, <3>2, <3>5, <4>1
    <3> QED
      BY <3>2, <3>4, <3>5
  <2> QED
    BY <2>1, <2>2, <2>3
<1>4. QED
  BY <1>1, <1>2, <1>3, PTL DEF Spec

-----------------------------------------------------------------------------
(* The refinement *)

\* The first states map to the abstract first state.
LEMMA InitPromise == Init => Promise!Init
BY DEF Init, Promise!Init, SessionState

\* A successful Open is the abstract Open of a fresh session, the Close of
\* closeHardwareFor the abstract Close; what ends contexts (closeHardwareFor, Run's
\* end, a caller's) is an abstract Cancel of all that ends at once; every other
\* step is a stutter.
LEMMA NextPromise == TypeInv /\ SessionInv /\ [Next]_vars => [Promise!Next]_SessionState
<1> SUFFICES ASSUME TypeInv, SessionInv, [Next]_vars PROVE [Promise!Next]_SessionState
  OBVIOUS
<1> USE BootIsARegistration DEF Sessions
<1>t. /\ tok \in [Threads -> 0..MaxSessions] /\ opens \in 0..MaxSessions
      /\ sess \in [Sessions -> [reg : 0..MaxRegs, dev : Devs \union {NoDev},
                                st : {"none", "open", "cancelled", "closed"}, run : BOOLEAN]]
  BY DEF TypeInv, TypeOK, ThreadTypes, HardwareTypes
<1>0. ASSUME UNCHANGED sess PROVE [Promise!Next]_SessionState
  BY <1>0 DEF SessionState
<1>1. ASSUME NEW t \in Threads, OpenSucceeds(t) PROVE Promise!Next
  <2> DEFINE s == opens + 1
             st == IF base[t] /\ runCtx = "cancelled" THEN "cancelled" ELSE "open"
  <2>1. s \in Sessions /\ sess[s].st = "none" /\ st \in {"open", "cancelled"}
    BY <1>1, <1>t DEF OpenSucceeds, SessionInv
  <2>2. sess' = [sess EXCEPT ![s] = [reg |-> rd[t], dev |-> obj[t], run |-> base[t], st |-> st]]
    BY <1>1 DEF OpenSucceeds
  <2> HIDE DEF s, st
  <2>3. SessionState' = [SessionState EXCEPT ![s] = st]
    BY <1>t, <2>1, <2>2 DEF SessionState
  <2>4. Promise!Open(s, st)
    BY <2>1, <2>3 DEF Promise!Open, SessionState
  <2>5. QED
    BY <2>1, <2>4 DEF Promise!Next
<1>2. ASSUME NEW ended \in SUBSET Sessions,
             \A z \in ended : sess[z].st = "open" /\ sess'[z].st = "cancelled",
             \A z \in Sessions \ ended : sess'[z].st = sess[z].st
      PROVE  Promise!Next
  <2>1. \A z \in ended : z \in Sessions /\ SessionState[z] = "open"
    BY <1>2 DEF SessionState
  <2>2. \A z \in Sessions : sess'[z].st = IF z \in ended THEN "cancelled" ELSE SessionState[z]
    BY <1>2 DEF SessionState
  <2>3. SessionState' = [z \in Sessions |-> IF z \in ended THEN "cancelled" ELSE SessionState[z]]
    BY <2>2, Zenon DEF SessionState
  <2>4. Promise!Cancel(ended)
    BY <2>1, <2>3 DEF Promise!Cancel
  <2>5. QED
    BY <1>2, <2>4 DEF Promise!Next
<1>3. ASSUME NEW t \in Threads, CancelHardware(t) PROVE [Promise!Next]_SessionState
  <2>1. tok[t] \in Sessions /\ sess[tok[t]].st \in {"open", "cancelled"}
    BY <1>3, <1>t DEF CancelHardware, Move, SessionInv, Holding, Open
  <2>2. sess'[tok[t]].st = "cancelled" /\ \A z \in Sessions : z # tok[t] => sess'[z].st = sess[z].st
    BY <1>3, <1>t, <2>1 DEF CancelHardware
  <2>3. CASE sess[tok[t]].st = "open"
    <3>1. {tok[t]} \in SUBSET Sessions
      BY <2>1
    <3>2. QED
      BY <1>2, <2>2, <2>3, <3>1
  <2>4. CASE sess[tok[t]].st = "cancelled"
    BY <1>t, <2>2, <2>4 DEF SessionState
  <2>5. QED
    BY <2>1, <2>3, <2>4
<1>4. ASSUME NEW t \in Threads, CloseHardware(t) PROVE Promise!Next
  <2>1. tok[t] \in Sessions /\ sess[tok[t]].st = "cancelled"
    BY <1>4, <1>t DEF CloseHardware, SessionInv, Holding
  <2>2. sess' = [sess EXCEPT ![tok[t]].st = "closed"]
    BY <1>4 DEF CloseHardware
  <2>3. SessionState' = [SessionState EXCEPT ![tok[t]] = "closed"]
    BY <1>t, <2>1, <2>2 DEF SessionState
  <2>4. Promise!Close(tok[t])
    BY <2>1, <2>3 DEF Promise!Close, SessionState
  <2>5. QED
    BY <2>1, <2>4 DEF Promise!Next
<1>5. CASE CancelRun
  <2> DEFINE ended == {s \in Sessions : sess[s].run /\ sess[s].st = "open"}
  <2>1. /\ \A z \in ended : sess[z].st = "open" /\ sess'[z].st = "cancelled"
        /\ \A z \in Sessions \ ended : sess'[z].st = sess[z].st
    BY <1>5, <1>t DEF CancelRun
  <2>2. QED
    BY <1>2, <2>1
<1>6. ASSUME NEW s \in Sessions, CancelCaller(s) PROVE Promise!Next
  <2>1. /\ \A z \in {s} : sess[z].st = "open" /\ sess'[z].st = "cancelled"
        /\ \A z \in Sessions \ {s} : sess'[z].st = sess[z].st
    BY <1>6, <1>t DEF CancelCaller
  <2>2. {s} \in SUBSET Sessions
    OBVIOUS
  <2>3. QED
    BY <1>2, <2>1, <2>2
<1>7. ASSUME NEW t \in Threads PROVE HostCall(t) => UNCHANGED sess
  BY DEF HostCall, Register, Unregister, SetReloader, RegisterConfigurable, Reload, ReloadAll, hwVars
<1>8. ASSUME NEW t \in Threads
      PROVE  Continue(t) => OpenSucceeds(t) \/ CancelHardware(t) \/ CloseHardware(t) \/ UNCHANGED sess
  BY DEF Continue, NextReload, LockReload, Rebuild, SwapItab, SwapData, UnlockReload, LoadSettings,
         ApplySettings, CheckOpen, OpenFails, StoreHardware, TakeHardware, Return, hwVars
<1>9. ASSUME NEW t \in Threads PROVE RunStep(t) \/ StopServing(t) \/ Answer(t) => UNCHANGED sess
  BY DEF RunStep, StopServing, Answer, Start, Snapshot, NextRecord, LoopDone, Bind, Drained,
         ReadItab, ReadData, Respond, hwVars
<1>10. ASSUME NEW t \in Threads, NEW k \in Keys PROVE Reload(t, k) \/ Request(t, k) => UNCHANGED sess
  BY DEF Reload, Request, hwVars
<1>11. UNCHANGED vars => UNCHANGED sess
  BY DEF vars, hwVars
<1>12. QED
  BY <1>0, <1>1, <1>3, <1>4, <1>5, <1>6, <1>7, <1>8, <1>9, <1>10, <1>11 DEF Next, Threads

\* Every session of the server is opened, then its context ended, then closed,
\* each at most once: Hosting implements HardwareSessions.
THEOREM Implements == Spec => SessionsAsPromised
<1>1. Init => TypeInv /\ SessionInv /\ Promise!Init
  BY InitTypeInv, InitSessionInv, InitPromise
<1>2. TypeInv /\ SessionInv /\ [Next]_vars => (TypeInv /\ SessionInv)'
  BY NextTypeInv, NextSessionInv
<1>3. TypeInv /\ SessionInv /\ [Next]_vars => [Promise!Next]_SessionState
  BY NextPromise
<1>4. QED
  BY <1>1, <1>2, <1>3, PTL DEF Spec, SessionsAsPromised, Promise!Spec

-----------------------------------------------------------------------------
(* The two indexes of the registered devices *)

\* What RemoveAt leaves: one element fewer, those after the gap moved up.
LEMMA RemoveAtElements ==
  ASSUME NEW s \in Seq(Regs), NEW i \in DOMAIN s
  PROVE  LET w == RemoveAt(s, i) IN
           /\ DOMAIN w = 1..(Len(s) - 1)
           /\ \A j \in 1..(Len(s) - 1) : w[j] = IF j < i THEN s[j] ELSE s[j + 1]
<1>1. i \in 1..Len(s) /\ Len(s) \in Nat /\ \A j \in 1..Len(s) : s[j] \in Regs
  BY LenProperties, ElementOfSeq
<1> DEFINE a == SubSeq(s, 1, i - 1)
           b == SubSeq(s, i + 1, Len(s))
<1>2. a \in Seq(Regs) /\ Len(a) = i - 1 /\ \A j \in 1..(i - 1) : a[j] = s[j]
  <2>1. i - 1 \in Int /\ \A j \in 1..(i - 1) : s[j] \in Regs
    BY <1>1
  <2>2. /\ a \in Seq(Regs) /\ Len(a) = (IF 1 <= i - 1 THEN (i - 1) - 1 + 1 ELSE 0)
        /\ \A j \in 1..((i - 1) - 1 + 1) : a[j] = s[1 + j - 1]
    BY <2>1, SubSeqProperties
  <2>3. (i - 1) - 1 + 1 = i - 1 /\ \A j \in 1..(i - 1) : 1 + j - 1 = j
    BY <1>1
  <2>4. QED
    BY <1>1, <2>2, <2>3
<1>3. b \in Seq(Regs) /\ Len(b) = Len(s) - i /\ \A j \in 1..(Len(s) - i) : b[j] = s[i + j]
  <2>1. i + 1 \in Int /\ \A j \in (i + 1)..Len(s) : s[j] \in Regs
    BY <1>1
  <2>2. /\ b \in Seq(Regs) /\ Len(b) = (IF i + 1 <= Len(s) THEN Len(s) - (i + 1) + 1 ELSE 0)
        /\ \A j \in 1..(Len(s) - (i + 1) + 1) : b[j] = s[(i + 1) + j - 1]
    BY <1>1, <2>1, SubSeqProperties
  <2>3. Len(s) - (i + 1) + 1 = Len(s) - i /\ \A j \in 1..(Len(s) - i) : (i + 1) + j - 1 = i + j
    BY <1>1
  <2>4. QED
    BY <1>1, <2>2, <2>3
<1> HIDE DEF a, b
<1>4. RemoveAt(s, i) = a \o b
  BY DEF RemoveAt, a, b
<1>5. /\ a \o b \in Seq(Regs) /\ Len(a \o b) = Len(s) - 1
      /\ \A j \in 1..(Len(s) - 1) : (a \o b)[j] = IF j <= i - 1 THEN a[j] ELSE b[j - (i - 1)]
  <2>1. /\ a \o b \in Seq(Regs) /\ Len(a \o b) = Len(a) + Len(b)
        /\ \A j \in 1..(Len(a) + Len(b)) : (a \o b)[j] = IF j <= Len(a) THEN a[j] ELSE b[j - Len(a)]
    BY <1>2, <1>3, ConcatProperties
  <2>2. Len(a) + Len(b) = Len(s) - 1
    BY <1>1, <1>2, <1>3
  <2>3. QED
    BY <1>2, <2>1, <2>2
<1>6. \A j \in 1..(Len(s) - 1) : (a \o b)[j] = IF j < i THEN s[j] ELSE s[j + 1]
  <2> SUFFICES ASSUME NEW j \in 1..(Len(s) - 1)
               PROVE  (a \o b)[j] = IF j < i THEN s[j] ELSE s[j + 1]
    OBVIOUS
  <2>1. CASE j < i
    BY <1>1, <1>2, <1>5, <2>1
  <2>2. CASE ~ (j < i)
    <3>1. j - (i - 1) \in 1..(Len(s) - i) /\ i + (j - (i - 1)) = j + 1
      BY <1>1, <2>2
    <3>2. b[j - (i - 1)] = s[i + (j - (i - 1))]
      BY <1>3, <3>1
    <3>3. (a \o b)[j] = b[j - (i - 1)]
      BY <1>1, <1>5, <2>2
    <3>4. QED
      BY <2>2, <3>1, <3>2, <3>3
  <2>3. QED
    BY <2>1, <2>2
<1>7. DOMAIN (a \o b) = 1..(Len(s) - 1)
  BY <1>5, LenProperties
<1>8. QED
  BY <1>4, <1>6, <1>7

\* The equality of RegistryAgrees, read both ways; no order entry is beyond
\* the records made.
Listed ==
  /\ \A k \in Keys : devices[k] # 0 => \E i \in DOMAIN order : order[i] = devices[k]
  /\ \A i \in DOMAIN order : \E k \in Keys : devices[k] = order[i]
Ascending == \A i, j \in DOMAIN order : i < j => order[i] < order[j]
AtItsKey  == \A k \in Keys : devices[k] # 0 => keyOf[devices[k]] = k

RegistryInv ==
  /\ Listed /\ Ascending /\ AtItsKey
  /\ \A i \in DOMAIN order : order[i] \in 1..made

\* The parts together are RegistryAgrees.
LEMMA RegistryParts == TypeInv /\ RegistryInv => RegistryAgrees
<1> SUFFICES ASSUME TypeInv, RegistryInv PROVE RegistryAgrees
  OBVIOUS
<1>1. \A i \in DOMAIN order : order[i] # 0
  BY DEF RegistryInv
<1>2. {devices[k] : k \in Keys} \ {0} = {order[i] : i \in DOMAIN order}
  BY <1>1 DEF RegistryInv, Listed
<1>3. QED
  BY <1>2 DEF RegistryAgrees, RegistryInv, Ascending, AtItsKey

\* The boot devices are listed in the order of their registration.
LEMMA InitRegistryInv == Init => RegistryInv
<1> SUFFICES ASSUME Init PROVE RegistryInv
  OBVIOUS
<1>1. PICK n \in 0..MaxRegs : BootKey \in [1..n -> Keys] /\ BootDev \in [1..n -> Devs \ Misfits]
  BY BootIsARegistration
<1>2. BootRegs = 1..n /\ Len(BootKey) = n /\ n \in Nat /\ 1..n \subseteq Regs
  BY <1>1, BootIsARegistration DEF BootRegs, Regs
<1>3. order = [r \in 1..n |-> r] /\ made = n
  BY <1>2 DEF Init
<1>4. DOMAIN order = 1..n /\ \A i \in DOMAIN order : order[i] = i
  BY <1>3
<1>5. \A k \in Keys : devices[k] # 0 => devices[k] \in 1..n /\ BootKey[devices[k]] = k
  <2> SUFFICES ASSUME NEW k \in Keys, devices[k] # 0
               PROVE  devices[k] \in 1..n /\ BootKey[devices[k]] = k
    OBVIOUS
  <2>1. \E r \in BootRegs : BootKey[r] = k
    BY DEF Init
  <2>2. devices[k] = CHOOSE r \in BootRegs : BootKey[r] = k
    BY <2>1 DEF Init
  <2>3. QED
    BY <1>2, <2>1, <2>2
<1>6. \A i \in 1..n : BootKey[i] \in Keys /\ devices[BootKey[i]] = i
  <2> SUFFICES ASSUME NEW i \in 1..n PROVE BootKey[i] \in Keys /\ devices[BootKey[i]] = i
    OBVIOUS
  <2>1. BootKey[i] \in Keys
    BY <1>1
  <2>2. devices[BootKey[i]] = CHOOSE r \in BootRegs : BootKey[r] = BootKey[i]
    BY <1>2, <2>1 DEF Init
  <2>3. \A r \in BootRegs : BootKey[r] = BootKey[i] => r = i
    BY <1>2, BootIsARegistration DEF BootRegs
  <2>4. QED
    BY <1>2, <2>1, <2>2, <2>3
<1>7. Listed
  BY <1>4, <1>5, <1>6 DEF Listed
<1>8. Ascending /\ \A i \in DOMAIN order : order[i] \in 1..made
  BY <1>3, <1>4 DEF Ascending
<1>9. AtItsKey
  <2>1. \A r \in 1..n : keyOf[r] = BootKey[r]
    BY <1>2 DEF Init
  <2>2. QED
    BY <1>5, <2>1 DEF AtItsKey
<1>10. QED
  BY <1>7, <1>8, <1>9 DEF RegistryInv

\* Register puts a new record at the end of the order and under a free address.
LEMMA RegisterRegistry ==
  ASSUME TypeInv, RegistryInv, NEW t \in Threads, NEW k \in Keys, NEW d \in Devs, Register(t, k, d)
  PROVE  RegistryInv'
<1> DEFINE r == made + 1
<1>1. /\ devices[k] = 0 /\ made < MaxRegs /\ made' = r
      /\ devices' = [devices EXCEPT ![k] = r] /\ order' = Append(order, r)
      /\ keyOf' = [keyOf EXCEPT ![r] = k]
  BY DEF Register
<1>2. /\ made \in Nat /\ MaxRegs \in Nat /\ order \in Seq(Regs)
      /\ devices \in [Keys -> 0..MaxRegs] /\ keyOf \in [Regs -> Keys]
  BY BootIsARegistration DEF TypeInv, TypeOK, RecordTypes, ServerTypes
<1>3. r \in Regs /\ r \in Nat /\ made < r
  BY <1>1, <1>2 DEF Regs
<1> HIDE DEF r
<1>4. /\ DOMAIN order = 1..Len(order) /\ Len(order) \in Nat
      /\ DOMAIN order' = 1..(Len(order) + 1)
      /\ \A i \in 1..Len(order) : order'[i] = order[i]
      /\ order'[Len(order) + 1] = r
  BY <1>1, <1>2, <1>3, AppendProperties, LenProperties
<1>5. \A i \in 1..(Len(order) + 1) : i \in 1..Len(order) \/ i = Len(order) + 1
  BY <1>4
<1>6. \A i \in DOMAIN order : order[i] \in Nat /\ order[i] <= made /\ order[i] # 0
  BY <1>2 DEF RegistryInv
<1>7. \A i \in DOMAIN order' : order'[i] \in 1..made'
  BY <1>1, <1>2, <1>3, <1>4, <1>5, <1>6
<1>8. Ascending'
  <2> SUFFICES ASSUME NEW i \in DOMAIN order', NEW j \in DOMAIN order', i < j
               PROVE  order'[i] < order'[j]
    BY DEF Ascending
  <2>1. i \in 1..Len(order)
    BY <1>4, <1>5
  <2>2. CASE j \in 1..Len(order)
    BY <1>4, <2>1, <2>2 DEF RegistryInv, Ascending
  <2>3. CASE j = Len(order) + 1
    BY <1>2, <1>3, <1>4, <1>6, <2>1, <2>3
  <2>4. QED
    BY <1>4, <1>5, <2>2, <2>3
<1>9. Listed'
  <2>1. ASSUME NEW c \in Keys, devices'[c] # 0 PROVE \E i \in DOMAIN order' : order'[i] = devices'[c]
    <3>1. CASE c = k
      <4>1. Len(order) + 1 \in DOMAIN order' /\ order'[Len(order) + 1] = r
        BY <1>4
      <4>2. devices'[c] = r
        BY <1>1, <1>2, <3>1
      <4>3. QED
        BY <4>1, <4>2
    <3>2. CASE c # k
      <4>1. devices'[c] = devices[c]
        BY <1>1, <1>2, <3>2
      <4>2. PICK i \in DOMAIN order : order[i] = devices[c]
        BY <2>1, <4>1 DEF RegistryInv, Listed
      <4>3. i \in DOMAIN order' /\ order'[i] = order[i]
        BY <1>4
      <4>4. QED
        BY <4>1, <4>2, <4>3
    <3>3. QED
      BY <3>1, <3>2
  <2>2. ASSUME NEW i \in DOMAIN order' PROVE \E c \in Keys : devices'[c] = order'[i]
    <3>1. CASE i \in 1..Len(order)
      <4>1. PICK c \in Keys : devices[c] = order[i]
        BY <1>4, <3>1 DEF RegistryInv, Listed
      <4>2. c # k
        BY <1>1, <1>4, <1>6, <3>1, <4>1
      <4>3. devices'[c] = order'[i]
        BY <1>1, <1>2, <1>4, <3>1, <4>1, <4>2
      <4>4. QED
        BY <4>3
    <3>2. CASE i = Len(order) + 1
      BY <1>1, <1>2, <1>4, <3>2
    <3>3. QED
      BY <1>4, <1>5, <3>1, <3>2
  <2>3. QED
    BY <2>1, <2>2 DEF Listed
<1>10. AtItsKey'
  <2> SUFFICES ASSUME NEW c \in Keys, devices'[c] # 0 PROVE keyOf'[devices'[c]] = c
    BY DEF AtItsKey
  <2>1. CASE c = k
    BY <1>1, <1>2, <1>3, <2>1
  <2>2. CASE c # k
    <3>1. devices'[c] = devices[c] /\ devices[c] # 0
      BY <1>1, <1>2, <2>2
    <3>2. devices[c] # r
      <4>1. PICK i \in DOMAIN order : order[i] = devices[c]
        BY <3>1 DEF RegistryInv, Listed
      <4>2. QED
        BY <1>2, <1>3, <1>6, <4>1
    <3>3. QED
      BY <1>1, <1>2, <3>1, <3>2 DEF RegistryInv, AtItsKey
  <2>3. QED
    BY <2>1, <2>2
<1>11. QED
  BY <1>7, <1>8, <1>9, <1>10 DEF RegistryInv

\* Unregister takes one record out of both indexes.
LEMMA UnregisterRegistry ==
  ASSUME TypeInv, RegistryInv, NEW t \in Threads, NEW k \in Keys, Unregister(t, k)
  PROVE  RegistryInv'
<1>1. PICK p \in DOMAIN order : order[p] = devices[k] /\ order' = RemoveAt(order, p)
  BY DEF Unregister
<1>2. /\ devices[k] # 0 /\ devices' = [devices EXCEPT ![k] = 0]
      /\ UNCHANGED <<made, keyOf>>
  BY DEF Unregister, recordVars
<1>3. /\ order \in Seq(Regs) /\ devices \in [Keys -> 0..MaxRegs]
      /\ Len(order) \in Nat /\ DOMAIN order = 1..Len(order) /\ p \in 1..Len(order)
  BY <1>1, LenProperties DEF TypeInv, TypeOK, ServerTypes
<1>4. /\ DOMAIN order' = 1..(Len(order) - 1)
      /\ \A j \in 1..(Len(order) - 1) : order'[j] = IF j < p THEN order[j] ELSE order[j + 1]
  BY <1>1, <1>3, RemoveAtElements
<1> DEFINE at(j) == IF j < p THEN j ELSE j + 1
<1>5. \A j \in DOMAIN order' : at(j) \in DOMAIN order /\ at(j) # p /\ order'[j] = order[at(j)]
  BY <1>3, <1>4
<1>6. \A i, j \in DOMAIN order' : i < j => at(i) < at(j)
  BY <1>3, <1>4
<1>7. \A i \in DOMAIN order : i # p => \E j \in DOMAIN order' : at(j) = i
  <2> SUFFICES ASSUME NEW i \in DOMAIN order, i # p PROVE \E j \in DOMAIN order' : at(j) = i
    OBVIOUS
  <2>1. CASE i < p
    <3>1. i \in DOMAIN order' /\ at(i) = i
      BY <1>3, <1>4, <2>1
    <3>2. QED
      BY <3>1
  <2>2. CASE p < i
    <3>1. i - 1 \in DOMAIN order' /\ at(i - 1) = i
      BY <1>3, <1>4, <2>2
    <3>2. QED
      BY <3>1
  <2>3. QED
    BY <1>3, <2>1, <2>2
<1>8. \A i \in DOMAIN order : i # p => order[i] # order[p]
  <2> SUFFICES ASSUME NEW i \in DOMAIN order, i # p PROVE order[i] # order[p]
    OBVIOUS
  <2>1. order[i] \in Regs /\ order[p] \in Regs
    BY <1>3, ElementOfSeq
  <2> USE DEF Regs
  <2>2. i < p \/ p < i
    BY <1>3
  <2>3. order[i] < order[p] \/ order[p] < order[i]
    BY <2>2 DEF RegistryInv, Ascending
  <2>4. QED
    BY <2>1, <2>3
<1> HIDE DEF at
<1>9. Ascending' /\ \A i \in DOMAIN order' : order'[i] \in 1..made'
  <2>1. ASSUME NEW i \in DOMAIN order', NEW j \in DOMAIN order', i < j PROVE order'[i] < order'[j]
    BY <1>5, <1>6, <2>1 DEF RegistryInv, Ascending
  <2>2. QED
    BY <1>2, <1>5, <2>1 DEF RegistryInv, Ascending
<1>10. Listed'
  <2>1. ASSUME NEW c \in Keys, devices'[c] # 0 PROVE \E i \in DOMAIN order' : order'[i] = devices'[c]
    <3>1. c # k /\ devices'[c] = devices[c]
      BY <1>2, <1>3, <2>1
    <3>2. PICK i \in DOMAIN order : order[i] = devices[c]
      BY <2>1, <3>1 DEF RegistryInv, Listed
    <3>3. i # p
      <4>1. keyOf[devices[c]] = c /\ keyOf[devices[k]] = k
        BY <1>2, <2>1, <3>1 DEF RegistryInv, AtItsKey
      <4>2. QED
        BY <1>1, <3>1, <3>2, <4>1
    <3>4. QED
      BY <1>5, <1>7, <3>1, <3>2, <3>3
  <2>2. ASSUME NEW j \in DOMAIN order' PROVE \E c \in Keys : devices'[c] = order'[j]
    <3>1. PICK c \in Keys : devices[c] = order[at(j)]
      BY <1>5 DEF RegistryInv, Listed
    <3>2. c # k
      BY <1>1, <1>5, <1>8, <3>1
    <3>3. devices'[c] = order'[j]
      BY <1>2, <1>3, <1>5, <3>1, <3>2
    <3>4. QED
      BY <3>3
  <2>3. QED
    BY <2>1, <2>2 DEF Listed
<1>11. AtItsKey'
  BY <1>2, <1>3 DEF RegistryInv, AtItsKey
<1>12. QED
  BY <1>9, <1>10, <1>11 DEF RegistryInv

\* Only these two calls of the host change the indexes.
LEMMA NextRegistryInv == TypeInv /\ RegistryInv /\ [Next]_vars => RegistryInv'
<1> SUFFICES ASSUME TypeInv, RegistryInv, [Next]_vars PROVE RegistryInv'
  OBVIOUS
<1>1. ASSUME UNCHANGED <<devices, order, made, keyOf>> PROVE RegistryInv'
  BY <1>1 DEF RegistryInv, Listed, Ascending, AtItsKey
<1>2. ASSUME NEW t \in HostThreads PROVE HostCall(t) => RegistryInv'
  <2>1. t \in Threads
    BY DEF Threads
  <2>2. \A k \in Keys : Unregister(t, k) => RegistryInv'
    BY <2>1, UnregisterRegistry
  <2>3. \A k \in Keys, d \in Devs : Register(t, k, d) => RegistryInv'
    BY <2>1, RegisterRegistry
  <2>4. \A k \in Keys : SetReloader(t, k) \/ RegisterConfigurable(t, k) \/ Reload(t, k) \/ ReloadAll(t)
          => UNCHANGED <<devices, order, made, keyOf>>
    BY DEF SetReloader, RegisterConfigurable, Reload, ReloadAll, serverVars, recordVars
  <2>5. ReloadAll(t) => UNCHANGED <<devices, order, made, keyOf>>
    BY DEF ReloadAll, serverVars, recordVars
  <2>6. QED
    BY <1>1, <2>2, <2>3, <2>4, <2>5 DEF HostCall
<1>3. ASSUME NEW t \in Threads PROVE Continue(t) => UNCHANGED <<devices, order, made, keyOf>>
  BY DEF Continue, NextReload, LockReload, Rebuild, SwapItab, SwapData, UnlockReload, LoadSettings,
         ApplySettings, CheckOpen, OpenFails, OpenSucceeds, StoreHardware, TakeHardware, CancelHardware,
         CloseHardware, Return, serverVars, recordVars
<1>4. ASSUME NEW t \in Threads
      PROVE  RunStep(t) \/ StopServing(t) \/ Answer(t) => UNCHANGED <<devices, order, made, keyOf>>
  BY DEF RunStep, StopServing, Answer, Start, Snapshot, NextRecord, LoopDone, Bind, Drained,
         ReadItab, ReadData, Respond, serverVars, recordVars
<1>5. ASSUME NEW t \in Threads, NEW k \in Keys
      PROVE  Reload(t, k) \/ Request(t, k) => UNCHANGED <<devices, order, made, keyOf>>
  BY DEF Reload, Request, serverVars, recordVars
<1>6. ContextsEnd \/ UNCHANGED vars => UNCHANGED <<devices, order, made, keyOf>>
  BY ContextsEndOnly DEF vars, serverVars, recordVars
<1>7. QED
  BY <1>1, <1>2, <1>3, <1>4, <1>5, <1>6 DEF Next, Threads, ContextsEnd

\* The map of devices and the registration order never disagree, whoever
\* registers and unregisters at the same time (server.go, Register and Unregister).
THEOREM RegistryConsistent == Spec => []RegistryAgrees
<1>1. Init => TypeInv /\ RegistryInv
  BY InitTypeInv, InitRegistryInv
<1>2. TypeInv /\ RegistryInv /\ [Next]_vars => (TypeInv /\ RegistryInv)'
  BY NextTypeInv, NextRegistryInv
<1>3. TypeInv /\ RegistryInv => RegistryAgrees
  BY RegistryParts
<1>4. QED
  BY <1>1, <1>2, <1>3, PTL DEF Spec

-----------------------------------------------------------------------------
(* A Reload closes the old hardware with the new device in hand *)

\* A goroutine with a device its reloader has built and no record serves yet.
Replacing(t) == task[t] = "reload" /\ pc[t] \in {"take", "cancel", "close", "swap", "swapped"}

\* That device was constructed, is served nowhere, and is in one Reload's
\* hands; every device served was constructed.
FreshInv ==
  /\ \A r \in Regs : data[r] \in used \union {NoDev}
  /\ \A t \in Threads : Replacing(t) => obj[t] \in used /\ \A r \in Regs : data[r] # obj[t]
  /\ \A t, u \in Threads : Replacing(t) /\ Replacing(u) /\ obj[t] = obj[u] => t = u

\* No Reload runs at first.
LEMMA InitFreshInv == Init => FreshInv
<1> SUFFICES ASSUME Init PROVE FreshInv
  OBVIOUS
<1>1. \A t \in Threads : ~ Replacing(t)
  BY DEF Init, Replacing
<1>2. \A r \in Regs : data[r] \in used \union {NoDev}
  BY DEF Init
<1>3. QED
  BY <1>1, <1>2 DEF FreshInv

\* A step of t that constructs and serves no device, and begins no replacement.
NothingBuilt(t) ==
  /\ \A u \in Threads \ {t} : pc'[u] = pc[u] /\ task'[u] = task[u] /\ obj'[u] = obj[u]
  /\ UNCHANGED <<data, used>>
  /\ Replacing(t)' => Replacing(t) /\ obj'[t] = obj[t]

\* Such a step keeps FreshInv.
LEMMA FreshFrame ==
  ASSUME FreshInv, NEW t \in Threads, NothingBuilt(t) PROVE FreshInv'
BY DEF FreshInv, Replacing, NothingBuilt

\* Every step keeps FreshInv: a constructor returns a device no one has.
LEMMA NextFreshInv == TypeInv /\ FreshInv /\ [Next]_vars => FreshInv'
<1> SUFFICES ASSUME TypeInv, FreshInv, [Next]_vars PROVE FreshInv'
  OBVIOUS
<1> USE DEF Goto, Move
<1>t. /\ pc \in [Threads -> Steps] /\ task \in [Threads -> Tasks] /\ rd \in [Threads -> 0..MaxRegs]
      /\ obj \in [Threads -> Devs \union {NoDev}] /\ data \in [Regs -> Devs \union {NoDev}]
      /\ used \subseteq Devs
      /\ \A u \in Threads : LocalAt(u)
  BY DEF TypeInv, TypeOK, ThreadTypes, RecordTypes, HardwareTypes, LocalInv
<1>a. \A t \in Threads :
        /\ AfterLoad(task[t]) \in {"next", "return", "check"}
        /\ AfterOpen(task[t]) \in {"next", "return", "unlock"}
  BY <1>t, AfterSteps
<1>1. ASSUME NEW t \in Threads, NEW k \in Keys, Unregister(t, k) PROVE FreshInv'
  <2>1. NothingBuilt(t)
    BY <1>1, <1>t, <1>a DEF Unregister, NothingBuilt, Replacing, recordVars, deviceVars, hwVars, localVars
  <2>2. QED
    BY <2>1, FreshFrame
<1>2. ASSUME NEW t \in Threads, NEW k \in Keys, SetReloader(t, k) PROVE FreshInv'
  <2>1. NothingBuilt(t)
    BY <1>2, <1>t, <1>a DEF SetReloader, NothingBuilt, Replacing, recordVars, deviceVars, hwVars, localVars
  <2>2. QED
    BY <2>1, FreshFrame
<1>3. ASSUME NEW t \in Threads, NEW k \in Keys, RegisterConfigurable(t, k) PROVE FreshInv'
  <2>1. NothingBuilt(t)
    BY <1>3, <1>t, <1>a DEF RegisterConfigurable, NothingBuilt, Replacing, recordVars, deviceVars, hwVars, localVars
  <2>2. QED
    BY <2>1, FreshFrame
<1>4. ASSUME NEW t \in Threads, NEW k \in Keys, Reload(t, k) PROVE FreshInv'
  <2>1. NothingBuilt(t)
    BY <1>4, <1>t, <1>a DEF Reload, NothingBuilt, Replacing, recordVars, deviceVars, hwVars, localVars
  <2>2. QED
    BY <2>1, FreshFrame
<1>5. ASSUME NEW t \in Threads, NEW k \in Keys, Request(t, k) PROVE FreshInv'
  <2>1. NothingBuilt(t)
    BY <1>5, <1>t, <1>a DEF Request, NothingBuilt, Replacing, recordVars, deviceVars, hwVars, localVars
  <2>2. QED
    BY <2>1, FreshFrame
<1>6. ASSUME NEW t \in Threads, ReloadAll(t) PROVE FreshInv'
  <2>1. NothingBuilt(t)
    BY <1>6, <1>t, <1>a DEF ReloadAll, NothingBuilt, Replacing, recordVars, deviceVars, hwVars, localVars
  <2>2. QED
    BY <2>1, FreshFrame
<1>7. ASSUME NEW t \in Threads, NextReload(t) PROVE FreshInv'
  <2>1. NothingBuilt(t)
    BY <1>7, <1>t, <1>a DEF NextReload, NothingBuilt, Replacing, recordVars, deviceVars, hwVars, localVars
  <2>2. QED
    BY <2>1, FreshFrame
<1>8. ASSUME NEW t \in Threads, LockReload(t) PROVE FreshInv'
  <2>1. NothingBuilt(t)
    BY <1>8, <1>t, <1>a DEF LockReload, NothingBuilt, Replacing, recordVars, deviceVars, hwVars, localVars
  <2>2. QED
    BY <2>1, FreshFrame
<1>9. ASSUME NEW t \in Threads, SwapItab(t) PROVE FreshInv'
  <2>1. NothingBuilt(t)
    BY <1>9, <1>t, <1>a DEF SwapItab, NothingBuilt, Replacing, recordVars, deviceVars, hwVars, localVars
  <2>2. QED
    BY <2>1, FreshFrame
<1>10. ASSUME NEW t \in Threads, UnlockReload(t) PROVE FreshInv'
  <2>1. NothingBuilt(t)
    BY <1>10, <1>t, <1>a DEF UnlockReload, NothingBuilt, Replacing, recordVars, deviceVars, hwVars, localVars
  <2>2. QED
    BY <2>1, FreshFrame
<1>11. ASSUME NEW t \in Threads, LoadSettings(t) PROVE FreshInv'
  <2>1. NothingBuilt(t)
    BY <1>11, <1>t, <1>a DEF LoadSettings, NothingBuilt, Replacing, recordVars, deviceVars, hwVars, localVars
  <2>2. QED
    BY <2>1, FreshFrame
<1>12. ASSUME NEW t \in Threads, ApplySettings(t) PROVE FreshInv'
  <2>1. NothingBuilt(t)
    BY <1>12, <1>t, <1>a DEF ApplySettings, NothingBuilt, Replacing, recordVars, deviceVars, hwVars, localVars
  <2>2. QED
    BY <2>1, FreshFrame
<1>13. ASSUME NEW t \in Threads, CheckOpen(t) PROVE FreshInv'
  <2>1. NothingBuilt(t)
    BY <1>13, <1>t, <1>a DEF CheckOpen, NothingBuilt, Replacing, recordVars, deviceVars, hwVars, localVars
  <2>2. QED
    BY <2>1, FreshFrame
<1>14. ASSUME NEW t \in Threads, OpenFails(t) PROVE FreshInv'
  <2>1. NothingBuilt(t)
    BY <1>14, <1>t, <1>a DEF OpenFails, NothingBuilt, Replacing, recordVars, deviceVars, hwVars, localVars
  <2>2. QED
    BY <2>1, FreshFrame
<1>15. ASSUME NEW t \in Threads, OpenSucceeds(t) PROVE FreshInv'
  <2>1. NothingBuilt(t)
    BY <1>15, <1>t, <1>a DEF OpenSucceeds, NothingBuilt, Replacing, recordVars, deviceVars, hwVars, localVars
  <2>2. QED
    BY <2>1, FreshFrame
<1>16. ASSUME NEW t \in Threads, StoreHardware(t) PROVE FreshInv'
  <2>1. NothingBuilt(t)
    BY <1>16, <1>t, <1>a DEF StoreHardware, NothingBuilt, Replacing, recordVars, deviceVars, hwVars, localVars
  <2>2. QED
    BY <2>1, FreshFrame
<1>17. ASSUME NEW t \in Threads, TakeHardware(t) PROVE FreshInv'
  <2>1. NothingBuilt(t)
    BY <1>17, <1>t, <1>a DEF TakeHardware, NothingBuilt, Replacing, recordVars, deviceVars, hwVars, localVars
  <2>2. QED
    BY <2>1, FreshFrame
<1>18. ASSUME NEW t \in Threads, CancelHardware(t) PROVE FreshInv'
  <2>1. NothingBuilt(t)
    BY <1>18, <1>t, <1>a DEF CancelHardware, NothingBuilt, Replacing, recordVars, deviceVars, hwVars, localVars
  <2>2. QED
    BY <2>1, FreshFrame
<1>19. ASSUME NEW t \in Threads, CloseHardware(t) PROVE FreshInv'
  <2>1. NothingBuilt(t)
    BY <1>19, <1>t, <1>a DEF CloseHardware, NothingBuilt, Replacing, recordVars, deviceVars, hwVars, localVars
  <2>2. QED
    BY <2>1, FreshFrame
<1>20. ASSUME NEW t \in Threads, Return(t) PROVE FreshInv'
  <2>1. NothingBuilt(t)
    BY <1>20, <1>t, <1>a DEF Return, NothingBuilt, Replacing, recordVars, deviceVars, hwVars, localVars
  <2>2. QED
    BY <2>1, FreshFrame
<1>21. ASSUME NEW t \in Threads, Start(t) PROVE FreshInv'
  <2>1. NothingBuilt(t)
    BY <1>21, <1>t, <1>a DEF Start, NothingBuilt, Replacing, recordVars, deviceVars, hwVars, localVars
  <2>2. QED
    BY <2>1, FreshFrame
<1>22. ASSUME NEW t \in Threads, Snapshot(t) PROVE FreshInv'
  <2>1. NothingBuilt(t)
    BY <1>22, <1>t, <1>a DEF Snapshot, NothingBuilt, Replacing, recordVars, deviceVars, hwVars, localVars
  <2>2. QED
    BY <2>1, FreshFrame
<1>23. ASSUME NEW t \in Threads, NextRecord(t) PROVE FreshInv'
  <2>1. NothingBuilt(t)
    BY <1>23, <1>t, <1>a DEF NextRecord, NothingBuilt, Replacing, recordVars, deviceVars, hwVars, localVars
  <2>2. QED
    BY <2>1, FreshFrame
<1>24. ASSUME NEW t \in Threads, LoopDone(t) PROVE FreshInv'
  <2>1. NothingBuilt(t)
    BY <1>24, <1>t, <1>a DEF LoopDone, NothingBuilt, Replacing, recordVars, deviceVars, hwVars, localVars
  <2>2. QED
    BY <2>1, FreshFrame
<1>25. ASSUME NEW t \in Threads, Bind(t) PROVE FreshInv'
  <2>1. NothingBuilt(t)
    BY <1>25, <1>t, <1>a DEF Bind, NothingBuilt, Replacing, recordVars, deviceVars, hwVars, localVars
  <2>2. QED
    BY <2>1, FreshFrame
<1>26. ASSUME NEW t \in Threads, StopServing(t) PROVE FreshInv'
  <2>1. NothingBuilt(t)
    BY <1>26, <1>t, <1>a DEF StopServing, NothingBuilt, Replacing, recordVars, deviceVars, hwVars, localVars
  <2>2. QED
    BY <2>1, FreshFrame
<1>27. ASSUME NEW t \in Threads, Drained(t) PROVE FreshInv'
  <2>1. NothingBuilt(t)
    BY <1>27, <1>t, <1>a DEF Drained, NothingBuilt, Replacing, recordVars, deviceVars, hwVars, localVars
  <2>2. QED
    BY <2>1, FreshFrame
<1>28. ASSUME NEW t \in Threads, ReadItab(t) PROVE FreshInv'
  <2>1. NothingBuilt(t)
    BY <1>28, <1>t, <1>a DEF ReadItab, NothingBuilt, Replacing, recordVars, deviceVars, hwVars, localVars
  <2>2. QED
    BY <2>1, FreshFrame
<1>29. ASSUME NEW t \in Threads, ReadData(t) PROVE FreshInv'
  <2>1. NothingBuilt(t)
    BY <1>29, <1>t, <1>a DEF ReadData, NothingBuilt, Replacing, recordVars, deviceVars, hwVars, localVars
  <2>2. QED
    BY <2>1, FreshFrame
<1>30. ASSUME NEW t \in Threads, Respond(t) PROVE FreshInv'
  <2>1. NothingBuilt(t)
    BY <1>30, <1>t, <1>a DEF Respond, NothingBuilt, Replacing, recordVars, deviceVars, hwVars, localVars
  <2>2. QED
    BY <2>1, FreshFrame
<1>31. ASSUME NEW t \in Threads, NEW k \in Keys, NEW d \in Devs, Register(t, k, d) PROVE FreshInv'
  <2>1. d \notin used /\ used' = used \union {d} /\ data' = [data EXCEPT ![made + 1] = d]
    BY <1>31 DEF Register
  <2>2. \A u \in Threads : obj'[u] = obj[u] /\ (Replacing(u)' => Replacing(u))
    BY <1>31, <1>t DEF Register, Replacing
  <2>3. \A r \in Regs : data'[r] = data[r] \/ data'[r] = d
    BY <1>t, <2>1
  <2>4. QED
    BY <2>1, <2>2, <2>3 DEF FreshInv
<1>32. ASSUME NEW t \in Threads, Rebuild(t) PROVE FreshInv'
  <2>1. UNCHANGED data /\ \A u \in Threads \ {t} : pc'[u] = pc[u] /\ task'[u] = task[u] /\ obj'[u] = obj[u]
    BY <1>32, <1>t DEF Rebuild, recordVars
  <2>2. CASE used' = used /\ pc'[t] = "unlock"
    BY <2>1, <2>2 DEF FreshInv, Replacing
  <2>3. ASSUME NEW d \in Devs \ used, used' = used \union {d}, pc'[t] = "unlock" \/ obj'[t] = d
        PROVE  FreshInv'
    <3>1. \A r \in Regs : data[r] # d
      BY DevicesTyped DEF FreshInv
    <3>2. \A u \in Threads \ {t} : Replacing(u)' => Replacing(u) /\ obj[u] # d
      BY <2>1 DEF Replacing, FreshInv
    <3>3. Replacing(t)' => obj'[t] = d
      BY <2>3 DEF Replacing
    <3>4. QED
      BY <2>1, <2>3, <3>1, <3>2, <3>3 DEF FreshInv
  <2>4. QED
    BY <1>32, <1>t, <2>2, <2>3 DEF Rebuild
<1>33. ASSUME NEW t \in Threads, SwapData(t) PROVE FreshInv'
  <2>1. Replacing(t) /\ rd[t] \in Regs
    BY <1>33, <1>t DEF SwapData, Replacing, LocalAt, ReloadOnly, WithRecord
  <2>2. /\ data' = [data EXCEPT ![rd[t]] = obj[t]] /\ UNCHANGED <<used, task, obj>>
        /\ pc' = [pc EXCEPT ![t] = "load"]
    BY <1>33 DEF SwapData, hwVars, localVars
  <2>3. \A u \in Threads : Replacing(u)' => Replacing(u) /\ u # t
    BY <1>t, <2>2 DEF Replacing
  <2>4. \A r \in Regs : data'[r] = data[r] \/ data'[r] = obj[t]
    BY <1>t, <2>2
  <2>5. QED
    BY <2>1, <2>2, <2>3, <2>4 DEF FreshInv
<1>34. CASE ContextsEnd
  BY <1>34, ContextsEndOnly DEF FreshInv, Replacing, recordVars, localVars
<1>35. CASE UNCHANGED vars
  BY <1>35 DEF vars, FreshInv, Replacing, recordVars, hwVars, localVars
<1>36. QED
  BY <1>1, <1>2, <1>3, <1>4, <1>5, <1>6, <1>7, <1>8, <1>9, <1>10, <1>11, <1>12, <1>13, <1>14, <1>15, <1>16, <1>17, <1>18, <1>19, <1>20, <1>21, <1>22, <1>23, <1>24, <1>25, <1>26, <1>27, <1>28, <1>29, <1>30, <1>31, <1>32, <1>33, <1>34, <1>35
  DEF Next, HostCall, Continue, RunStep, Answer, Threads, ContextsEnd

\* In each step of each execution a record that loses its hardware loses it to
\* closeHardwareFor, and in a Reload only once a replacement is in hand that
\* was built for this Reload and is not the device in service.
THEOREM ReplacedNotDropped == Spec => ReplacementFirst
<1>1. Init => TypeInv /\ SessionInv /\ FreshInv
  BY InitTypeInv, InitSessionInv, InitFreshInv
<1>2. TypeInv /\ SessionInv /\ FreshInv /\ [Next]_vars => (TypeInv /\ SessionInv /\ FreshInv)'
  BY NextTypeInv, NextSessionInv, NextFreshInv
<1>3. ASSUME TypeInv, SessionInv, FreshInv, [Next]_vars, NEW r \in Regs, hw[r] # 0, hw'[r] = 0
      PROVE  \E t \in Threads : /\ pc[t] = "take" /\ rd[t] = r
                                /\ task[t] = "reload" => obj[t] \in used \ {data[r]}
  <2>t. hw \in [Regs -> 0..MaxSessions]
    BY <1>3 DEF TypeInv, TypeOK, RecordTypes
  <2>1. ~ UNCHANGED hw
    BY <1>3
  <2>2. \E t \in Threads : StoreHardware(t) \/ TakeHardware(t)
    <3>1. \A t \in Threads, k \in Keys, d \in Devs :
            Register(t, k, d) \/ Unregister(t, k) \/ SetReloader(t, k) \/ RegisterConfigurable(t, k)
              \/ Reload(t, k) \/ Request(t, k) => UNCHANGED hw
      BY DEF Register, Unregister, SetReloader, RegisterConfigurable, Reload, Request, recordVars
    <3>2. \A t \in Threads, k \in Keys :
            Unregister(t, k) \/ SetReloader(t, k) \/ RegisterConfigurable(t, k)
              \/ Reload(t, k) \/ Request(t, k) => UNCHANGED hw
      BY DEF Unregister, SetReloader, RegisterConfigurable, Reload, Request, recordVars
    <3>3. \A t \in Threads : RunStep(t) \/ StopServing(t) \/ Answer(t) \/ ReloadAll(t) => UNCHANGED hw
      BY DEF RunStep, StopServing, Answer, Start, Snapshot, NextRecord, LoopDone, Bind, Drained,
             ReadItab, ReadData, Respond, ReloadAll, recordVars
    <3>4. \A t \in Threads : Continue(t) => StoreHardware(t) \/ TakeHardware(t) \/ UNCHANGED hw
      BY DEF Continue, NextReload, LockReload, Rebuild, SwapItab, SwapData, UnlockReload, LoadSettings,
             ApplySettings, CheckOpen, OpenFails, OpenSucceeds, CancelHardware, CloseHardware, Return,
             recordVars
    <3>5. ContextsEnd \/ UNCHANGED vars => UNCHANGED hw
      BY <1>3, ContextsEndOnly DEF vars, recordVars
    <3>6. QED
      BY <1>3, <2>1, <3>1, <3>2, <3>3, <3>4, <3>5 DEF Next, HostCall, Threads, ContextsEnd
  <2>3. PICK t \in Threads : StoreHardware(t) \/ TakeHardware(t)
    BY <2>2
  <2>4. ~ StoreHardware(t)
    <3>1. ASSUME StoreHardware(t) PROVE FALSE
      <4>1. tok[t] # 0 /\ hw' = [hw EXCEPT ![rd[t]] = tok[t]]
        BY <1>3, <3>1 DEF StoreHardware, SessionInv, Holding
      <4>2. QED
        BY <1>3, <2>t, <4>1
    <3>2. QED
      BY <3>1
  <2>5. pc[t] = "take" /\ rd[t] = r
    BY <1>3, <2>t, <2>3, <2>4 DEF TakeHardware
  <2>6. task[t] = "reload" => obj[t] \in used \ {data[r]}
    BY <1>3, <2>5 DEF FreshInv, Replacing
  <2>7. QED
    BY <2>5, <2>6
<1>4. TypeInv /\ SessionInv /\ FreshInv /\ [Next]_vars =>
        [\A r \in Regs : hw[r] # 0 /\ hw'[r] = 0 =>
           \E t \in Threads : /\ pc[t] = "take" /\ rd[t] = r
                              /\ task[t] = "reload" => obj[t] \in used \ {data[r]}]_vars
  BY <1>3
<1>5. QED
  BY <1>1, <1>2, <1>4, PTL DEF Spec, ReplacementFirst

-----------------------------------------------------------------------------
(* What a host must not do while the server runs *)

\* The address a record is registered at still names that record.
ListedNow(r) == devices[keyOf[r]] = r

\* An Unregister that has taken record r out of the indexes and not yet its hardware.
Unregistering(t, r) == pc[t] = "take" /\ task[t] = "unregister" /\ rd[t] = r

\* A goroutine that has hardware in hand which no record shows: it is opening
\* it, about to store it, or closing what it took.
InHand(t) == pc[t] \in {"open", "store", "cancel", "close"}

\* openHardwareFor goes on to Open although its record was unregistered, or
\* although somebody is between the sections of an Open, of a Close or of an
\* Unregister at the address.
OpensAcross(t) ==
  /\ pc[t] = "check" /\ pc'[t] = "open"
  /\ \/ ~ListedNow(rd[t])
     \/ \E u \in Threads \ {t} : /\ InHand(u) \/ Unregistering(u, rd[u])
                                 /\ keyOf[rd[u]] = keyOf[rd[t]]

\* An Unregister looks for hardware on a record that is just being opened.
TakesAcross(t) ==
  /\ pc[t] = "take" /\ pc'[t] # "take" /\ task[t] = "unregister"
  /\ \E u \in Threads \ {t} : pc[u] \in {"open", "store"} /\ rd[u] = rd[t]

\* Open hardware is in a goroutine's hands, on a record the server lists, or on
\* one whose Unregister is about to take it.
Findable ==
  \A s \in Sessions : Open(s) =>
    \/ \E t \in Threads : tok[t] = s
    \/ \E k \in Keys : devices[k] # 0 /\ hw[devices[k]] = s
    \/ \E r \in Regs, t \in Threads : Unregistering(t, r) /\ hw[r] = s

\* A record that is listed, or that an Unregister is about to visit.
Answered(r) == ListedNow(r) \/ \E t \in Threads : Unregistering(t, r)

\* While nobody opens or takes across another: per address one goroutine with
\* hardware in hand or one record with hardware on it, and somebody answers for it.
HandsApart ==
  \A t \in Threads : InHand(t) =>
    /\ rd[t] \in 1..made
    /\ \A u \in Threads : InHand(u) /\ keyOf[rd[u]] = keyOf[rd[t]] => u = t
    /\ \A r \in 1..made : keyOf[r] = keyOf[rd[t]] => hw[r] = 0
    /\ pc[t] \in {"open", "store"} => Answered(rd[t])

RecordsApart ==
  \A r \in Regs : hw[r] # 0 =>
    /\ r \in 1..made /\ Answered(r)
    /\ \A q \in 1..made : hw[q] # 0 /\ keyOf[q] = keyOf[r] => q = r

SessionsPlaced ==
  \A s \in Sessions : Open(s) =>
    /\ sess[s].reg \in 1..made
    /\ \/ hw[sess[s].reg] = s
       \/ \E t \in Threads : tok[t] = s /\ rd[t] = sess[s].reg

UnregisterHolds == \A t \in Threads, r \in Regs : Unregistering(t, r) => r \in 1..made
ApartInv == HandsApart /\ RecordsApart /\ SessionsPlaced /\ UnregisterHolds

\* Nothing is in anybody's hands at first.
LEMMA InitApartInv == Init => ApartInv
<1> SUFFICES ASSUME Init PROVE ApartInv
  OBVIOUS
<1>1. \A t \in Threads : ~InHand(t) /\ pc[t] # "take"
  BY DEF Init, InHand
<1>2. (\A r \in Regs : hw[r] = 0) /\ \A s \in Sessions : ~Open(s)
  BY DEF Init, Open
<1> QED
  BY <1>1, <1>2 DEF ApartInv, HandsApart, RecordsApart, SessionsPlaced, UnregisterHolds, Unregistering

\* A step of t that moves no hardware and does not change what is listed.
Placid(t) ==
  /\ UNCHANGED <<devices, keyOf, made, hw, sess, tok>>
  /\ \A u \in Threads \ {t} : pc'[u] = pc[u] /\ rd'[u] = rd[u] /\ task'[u] = task[u]
  /\ pc[t] \notin {"store", "cancel", "close", "take"}
  /\ pc'[t] \notin {"open", "store", "cancel", "close"}
  /\ pc'[t] = "take" => task'[t] # "unregister"

\* Such a step changes nothing for the others.
LEMMA PlacidKeeps ==
  ASSUME SessionInv, ApartInv, NEW t \in Threads, Placid(t) PROVE ApartInv'
<1>1. \A r : Answered(r) => Answered(r)'
  BY DEF Answered, ListedNow, Unregistering, Placid
<1>2. \A u \in Threads : InHand(u)' => u # t /\ InHand(u) /\ rd'[u] = rd[u] /\ pc'[u] = pc[u]
  BY DEF InHand, Placid
<1>3. UNCHANGED <<made, keyOf, hw, sess, tok>>
  BY DEF Placid
<1>4. HandsApart'
  <2> SUFFICES ASSUME NEW u \in Threads, InHand(u)'
               PROVE  /\ rd'[u] \in 1..made'
                      /\ \A v \in Threads : InHand(v)' /\ keyOf'[rd'[v]] = keyOf'[rd'[u]] => v = u
                      /\ \A r \in 1..made' : keyOf'[r] = keyOf'[rd'[u]] => hw'[r] = 0
                      /\ pc'[u] \in {"open", "store"} => Answered(rd[u])'
    BY <1>2 DEF HandsApart
  <2>1. InHand(u) /\ rd'[u] = rd[u] /\ pc'[u] = pc[u]
    BY <1>2
  <2>2. \A v \in Threads : InHand(v)' => InHand(v) /\ rd'[v] = rd[v]
    BY <1>2
  <2>3. pc'[u] \in {"open", "store"} => Answered(rd[u])'
    <3>1. pc[u] \in {"open", "store"} => Answered(rd[u])
      BY <2>1 DEF ApartInv, HandsApart
    <3> QED
      BY <1>1, <2>1, <3>1 DEF Answered, ListedNow, Unregistering
  <2> QED
    BY <1>3, <2>1, <2>2, <2>3 DEF ApartInv, HandsApart
<1>5. RecordsApart'
  BY <1>1, <1>3 DEF ApartInv, RecordsApart
<1>6. SessionsPlaced'
  <2> SUFFICES ASSUME NEW s \in Sessions, Open(s)'
               PROVE  /\ sess'[s].reg \in 1..made'
                      /\ \/ hw'[sess'[s].reg] = s
                         \/ \E u \in Threads : tok'[u] = s /\ rd'[u] = sess'[s].reg
    BY DEF SessionsPlaced
  <2>1. Open(s) /\ s # 0
    BY <1>3 DEF Open, Sessions
  <2>2. \A u \in Threads : tok[u] = s => rd'[u] = rd[u]
    BY <2>1 DEF SessionInv, Holding, Placid
  <2> QED
    BY <1>3, <2>1, <2>2 DEF ApartInv, SessionsPlaced
<1>7. UnregisterHolds'
  BY <1>3 DEF ApartInv, UnregisterHolds, Unregistering, Placid
<1> QED
  BY <1>4, <1>5, <1>6, <1>7 DEF ApartInv

\* What a goroutine does by itself and moves no hardware.
LEMMA ContinuePlacid ==
  ASSUME TypeInv, NEW t \in Threads,
         Continue(t) \/ Answer(t), pc'[t] # "open",
         ~ (OpenSucceeds(t) \/ StoreHardware(t) \/ TakeHardware(t) \/ CancelHardware(t) \/ CloseHardware(t))
  PROVE  Placid(t)
<1> USE DEF Goto, Move
<1>t. /\ pc \in [Threads -> Steps] /\ task \in [Threads -> Tasks] /\ rd \in [Threads -> 0..MaxRegs]
      /\ DOMAIN queue = Threads /\ LocalAt(t)
  BY DEF TypeInv, TypeOK, ThreadTypes, LocalInv
<1>1. NextReload(t) => Placid(t)
  BY <1>t DEF NextReload, Placid, serverVars, recordVars, deviceVars, hwVars, localVars
<1>2. LockReload(t) => Placid(t)
  BY <1>t DEF LockReload, Placid, serverVars, recordVars, deviceVars, hwVars, localVars
<1>3. Rebuild(t) => Placid(t)
  BY <1>t DEF Rebuild, Placid, LocalAt, ReloadOnly, serverVars, recordVars, deviceVars, hwVars, localVars
<1>4. SwapItab(t) => Placid(t)
  BY <1>t DEF SwapItab, Placid, serverVars, recordVars, deviceVars, hwVars, localVars
<1>5. SwapData(t) => Placid(t)
  BY <1>t DEF SwapData, Placid, serverVars, recordVars, deviceVars, hwVars, localVars
<1>6. UnlockReload(t) => Placid(t)
  BY <1>t DEF UnlockReload, Placid, serverVars, recordVars, deviceVars, hwVars, localVars
<1>7. LoadSettings(t) => Placid(t)
  BY <1>t, AfterSteps DEF LoadSettings, Placid, serverVars, recordVars, deviceVars, hwVars, localVars
<1>8. ApplySettings(t) => Placid(t)
  BY <1>t, AfterSteps DEF ApplySettings, Placid, serverVars, recordVars, deviceVars, hwVars, localVars
<1>9. OpenFails(t) => Placid(t)
  BY <1>t, AfterSteps DEF OpenFails, Placid, serverVars, recordVars, deviceVars, hwVars, localVars
<1>10. Return(t) => Placid(t)
  BY <1>t DEF Return, Placid, serverVars, recordVars, deviceVars, hwVars, localVars
<1>11. ReadItab(t) => Placid(t)
  BY <1>t DEF ReadItab, Placid, serverVars, recordVars, deviceVars, hwVars, localVars
<1>12. ReadData(t) => Placid(t)
  BY <1>t DEF ReadData, Placid, serverVars, recordVars, deviceVars, hwVars, localVars
<1>13. Respond(t) => Placid(t)
  BY <1>t DEF Respond, Placid, serverVars, recordVars, deviceVars, hwVars, localVars
<1>14. CheckOpen(t) => Placid(t)
  BY <1>t, AfterSteps DEF CheckOpen, Placid, serverVars, recordVars, deviceVars, hwVars, localVars
<1> QED
  BY <1>1, <1>2, <1>3, <1>4, <1>5, <1>6, <1>7, <1>8, <1>9, <1>10, <1>11, <1>12, <1>13, <1>14 DEF Continue, Answer

\* A call that begins, but for the two that change what is listed.
LEMMA CallPlacid ==
  ASSUME TypeInv, NEW t \in Threads, NEW k \in Keys,
         SetReloader(t, k) \/ RegisterConfigurable(t, k) \/ Reload(t, k) \/ Request(t, k) \/ ReloadAll(t)
  PROVE  Placid(t)
<1> USE DEF Goto, Move
<1>t. /\ pc \in [Threads -> Steps] /\ task \in [Threads -> Tasks] /\ rd \in [Threads -> 0..MaxRegs]
  BY DEF TypeInv, TypeOK, ThreadTypes
<1>1. SetReloader(t, k) => Placid(t)
  BY <1>t DEF SetReloader, Placid, serverVars, recordVars, deviceVars, hwVars, localVars
<1>2. RegisterConfigurable(t, k) => Placid(t)
  BY <1>t DEF RegisterConfigurable, Placid, serverVars, recordVars, deviceVars, hwVars, localVars
<1>3. Reload(t, k) => Placid(t)
  BY <1>t DEF Reload, Placid, serverVars, recordVars, deviceVars, hwVars, localVars
<1>4. Request(t, k) => Placid(t)
  BY <1>t DEF Request, Placid, serverVars, recordVars, deviceVars, hwVars, localVars
<1>5. ReloadAll(t) => Placid(t)
  BY <1>t DEF ReloadAll, Placid, serverVars, recordVars, deviceVars, hwVars, localVars
<1> QED
  BY <1>1, <1>2, <1>3, <1>4, <1>5

\* Run's own steps move no hardware either: its loops do so in the steps above.
LEMMA RunPlacid ==
  ASSUME TypeInv, RunStep(Runner) \/ StopServing(Runner) PROVE Placid(Runner)
<1> USE DEF Goto, Move
<1>t. /\ pc \in [Threads -> Steps] /\ task \in [Threads -> Tasks] /\ rd \in [Threads -> 0..MaxRegs]
      /\ DOMAIN queue = Threads /\ Runner \in Threads
  BY DEF TypeInv, TypeOK, ThreadTypes, Threads
<1>1. Start(Runner) => Placid(Runner)
  BY <1>t DEF Start, Placid, serverVars, recordVars, deviceVars, hwVars, localVars
<1>2. Snapshot(Runner) => Placid(Runner)
  BY <1>t DEF Snapshot, Placid, serverVars, recordVars, deviceVars, hwVars, localVars
<1>3. NextRecord(Runner) => Placid(Runner)
  BY <1>t DEF NextRecord, Placid, serverVars, recordVars, deviceVars, hwVars, localVars
<1>4. LoopDone(Runner) => Placid(Runner)
  BY <1>t DEF LoopDone, Placid, serverVars, recordVars, deviceVars, hwVars, localVars
<1>5. Bind(Runner) => Placid(Runner)
  BY <1>t DEF Bind, Placid, serverVars, recordVars, deviceVars, hwVars, localVars
<1>6. Drained(Runner) => Placid(Runner)
  BY <1>t DEF Drained, Placid, serverVars, recordVars, deviceVars, hwVars, localVars
<1>7. StopServing(Runner) => Placid(Runner)
  BY <1>t DEF StopServing, Placid, serverVars, recordVars, deviceVars, hwVars, localVars
<1> QED
  BY <1>1, <1>2, <1>3, <1>4, <1>5, <1>6, <1>7 DEF RunStep

\* Only openHardwareFor's first section leads to Open.
LEMMA OnlyCheckOpens ==
  ASSUME TypeInv, NEW t \in Threads, Continue(t) \/ Answer(t), pc'[t] = "open"
  PROVE  CheckOpen(t)
<1> USE DEF Goto, Move
<1>t. pc \in [Threads -> Steps] /\ task \in [Threads -> Tasks]
  BY DEF TypeInv, TypeOK, ThreadTypes
<1>a. /\ AfterLoad(task[t]) # "open" /\ AfterOpen(task[t]) # "open" /\ AfterClose(task[t]) # "open"
  BY <1>t, AfterSteps
<1>1. ~ (NextReload(t) \/ LockReload(t) \/ Rebuild(t) \/ SwapItab(t) \/ SwapData(t) \/ UnlockReload(t))
  BY <1>t DEF NextReload, LockReload, Rebuild, SwapItab, SwapData, UnlockReload
<1>2. ~ (LoadSettings(t) \/ ApplySettings(t) \/ OpenFails(t) \/ OpenSucceeds(t) \/ StoreHardware(t))
  BY <1>t, <1>a DEF LoadSettings, ApplySettings, OpenFails, OpenSucceeds, StoreHardware
<1>3. ~ (TakeHardware(t) \/ CancelHardware(t) \/ CloseHardware(t) \/ Return(t) \/ Answer(t))
  BY <1>t, <1>a DEF TakeHardware, CancelHardware, CloseHardware, Return, Answer, ReadItab, ReadData, Respond
<1> QED
  BY <1>1, <1>2, <1>3 DEF Continue

\* A goroutine with hardware in hand goes on to its next step, and no record changes.
LEMMA HandsStay ==
  ASSUME ApartInv, NEW t \in Threads, InHand(t),
         UNCHANGED <<devices, keyOf, made, hw, rd, task>>,
         \A u \in Threads \ {t} : pc'[u] = pc[u],
         pc'[t] # "take", pc'[t] \in {"open", "store"} => pc[t] \in {"open", "store"}
  PROVE  HandsApart' /\ RecordsApart' /\ UnregisterHolds'
<1>1. \A r : Answered(r) => Answered(r)'
  BY DEF Answered, ListedNow, Unregistering, InHand
<1>2. \A u \in Threads : InHand(u)' => InHand(u)
  BY DEF InHand
<1>3. HandsApart'
  <2> SUFFICES ASSUME NEW u \in Threads, InHand(u)'
               PROVE  /\ rd'[u] \in 1..made'
                      /\ \A v \in Threads : InHand(v)' /\ keyOf'[rd'[v]] = keyOf'[rd'[u]] => v = u
                      /\ \A r \in 1..made' : keyOf'[r] = keyOf'[rd'[u]] => hw'[r] = 0
                      /\ pc'[u] \in {"open", "store"} => Answered(rd[u])'
    BY DEF HandsApart
  <2>1. InHand(u)
    BY <1>2
  <2>2. pc'[u] \in {"open", "store"} => Answered(rd[u])'
    <3>1. pc'[u] \in {"open", "store"} => pc[u] \in {"open", "store"}
      OBVIOUS
    <3>2. pc'[u] \in {"open", "store"} => Answered(rd[u])
      BY <2>1, <3>1 DEF ApartInv, HandsApart
    <3> QED
      BY <1>1, <3>2 DEF Answered, ListedNow, Unregistering
  <2> QED
    BY <1>2, <2>1, <2>2 DEF ApartInv, HandsApart
<1>4. RecordsApart'
  BY <1>1 DEF ApartInv, RecordsApart
<1>5. UnregisterHolds'
  BY DEF ApartInv, UnregisterHolds, Unregistering
<1> QED
  BY <1>3, <1>4, <1>5

\* Open succeeds: the new session is in the hands that were opening.
LEMMA OpenApart ==
  ASSUME TypeInv, SessionInv, ApartInv, NEW t \in Threads, OpenSucceeds(t) PROVE ApartInv'
<1> DEFINE s == opens + 1
<1>t. /\ pc \in [Threads -> Steps] /\ tok \in [Threads -> 0..MaxSessions] /\ opens \in 0..MaxSessions
      /\ sess \in [Sessions -> [reg : 0..MaxRegs, dev : Devs \union {NoDev},
                                st : {"none", "open", "cancelled", "closed"}, run : BOOLEAN]]
  BY DEF TypeInv, TypeOK, ThreadTypes, HardwareTypes
<1>1. /\ pc[t] = "open" /\ s \in Sessions /\ UNCHANGED <<devices, keyOf, made, hw, rd, task>>
      /\ tok' = [tok EXCEPT ![t] = s] /\ pc' = [pc EXCEPT ![t] = "store"]
      /\ sess'[s].reg = rd[t] /\ \A y \in Sessions : y # s => sess'[y] = sess[y]
  BY <1>t, BootIsARegistration DEF OpenSucceeds, Sessions, serverVars, recordVars, Move, Goto
<1> HIDE DEF s
<1>2. InHand(t) /\ tok[t] = 0 /\ rd[t] \in 1..made
  BY <1>1 DEF InHand, SessionInv, Holding, ApartInv, HandsApart
<1>3. HandsApart' /\ RecordsApart' /\ UnregisterHolds'
  BY <1>t, <1>1, <1>2, HandsStay
<1>4. SessionsPlaced'
  <2> SUFFICES ASSUME NEW z \in Sessions, Open(z)'
               PROVE  /\ sess'[z].reg \in 1..made'
                      /\ \/ hw'[sess'[z].reg] = z
                         \/ \E u \in Threads : tok'[u] = z /\ rd'[u] = sess'[z].reg
    BY DEF SessionsPlaced
  <2>1. sess'[s].reg = rd[t] /\ tok'[t] = s /\ \A y \in Sessions : y # s => sess'[y] = sess[y]
    BY <1>t, <1>1
  <2>2. CASE z = s
    BY <1>1, <1>2, <2>1, <2>2
  <2>3. CASE z # s
    <3>1. Open(z) /\ sess'[z] = sess[z] /\ z # 0
      BY <2>1, <2>3 DEF Open, Sessions
    <3>2. \A u \in Threads : tok[u] = z => tok'[u] = z
      BY <1>t, <1>1, <1>2, <3>1
    <3> QED
      BY <1>1, <3>1, <3>2 DEF ApartInv, SessionsPlaced
  <2> QED
    BY <2>2, <2>3
<1> QED
  BY <1>3, <1>4 DEF ApartInv

\* Cancel and Close: the session stays in the same hands until it is closed.
LEMMA CloseApart ==
  ASSUME TypeInv, SessionInv, ApartInv, NEW t \in Threads, CancelHardware(t) \/ CloseHardware(t)
  PROVE  ApartInv'
<1> USE DEF Move, Goto
<1>t. /\ pc \in [Threads -> Steps] /\ task \in [Threads -> Tasks] /\ tok \in [Threads -> 0..MaxSessions]
      /\ sess \in [Sessions -> [reg : 0..MaxRegs, dev : Devs \union {NoDev},
                                st : {"none", "open", "cancelled", "closed"}, run : BOOLEAN]]
  BY DEF TypeInv, TypeOK, ThreadTypes, HardwareTypes
<1>a. AfterClose(task[t]) \in {"next", "return", "swap"}
  BY <1>t, AfterSteps
<1>1. /\ UNCHANGED <<devices, keyOf, made, hw, rd, task>> /\ pc[t] \in {"cancel", "close"}
      /\ \A u \in Threads \ {t} : pc'[u] = pc[u] /\ tok'[u] = tok[u]
      /\ pc'[t] \notin {"take", "open", "store"}
  BY <1>t, <1>a DEF CancelHardware, CloseHardware, serverVars, recordVars, localVars
<1>2. tok[t] \in Sessions /\ sess[tok[t]].st \in {"open", "cancelled"}
  BY <1>t, <1>1 DEF SessionInv, Holding, Sessions, Open
<1>s. ASSUME NEW st, sess' = [sess EXCEPT ![tok[t]].st = st]
      PROVE  /\ sess'[tok[t]].st = st
             /\ \A z \in Sessions : sess'[z].reg = sess[z].reg /\ (z # tok[t] => sess'[z] = sess[z])
  BY <1>t, <1>2, <1>s
<1>3. /\ \A z \in Sessions : sess'[z].reg = sess[z].reg /\ (Open(z)' => Open(z))
      /\ tok'[t] = tok[t] \/ sess'[tok[t]].st = "closed"
  <2>1. CASE CancelHardware(t)
    <3>1. tok' = tok /\ sess' = [sess EXCEPT ![tok[t]].st = "cancelled"]
      BY <2>1 DEF CancelHardware, localVars
    <3> QED
      BY <1>2, <1>s, <3>1 DEF Open
  <2>2. CASE CloseHardware(t)
    <3>1. sess' = [sess EXCEPT ![tok[t]].st = "closed"]
      BY <2>2 DEF CloseHardware
    <3> QED
      BY <1>2, <1>s, <3>1 DEF Open
  <2> QED
    BY <2>1, <2>2
<1>4. HandsApart' /\ RecordsApart' /\ UnregisterHolds'
  BY <1>1, HandsStay DEF InHand
<1>5. SessionsPlaced'
  <2> SUFFICES ASSUME NEW z \in Sessions, Open(z)'
               PROVE  /\ sess'[z].reg \in 1..made'
                      /\ \/ hw'[sess'[z].reg] = z
                         \/ \E u \in Threads : tok'[u] = z /\ rd'[u] = sess'[z].reg
    BY DEF SessionsPlaced
  <2>1. Open(z) /\ sess'[z].reg = sess[z].reg
    BY <1>3
  <2>2. \A u \in Threads : tok[u] = z => tok'[u] = z
    BY <1>1, <1>3 DEF Open
  <2> QED
    BY <1>1, <2>1, <2>2 DEF ApartInv, SessionsPlaced
<1> QED
  BY <1>4, <1>5 DEF ApartInv

\* The session goes onto the record, which somebody answers for.
LEMMA StoreApart ==
  ASSUME TypeInv, SessionInv, ApartInv, NEW t \in Threads, StoreHardware(t) PROVE ApartInv'
<1>t. /\ pc \in [Threads -> Steps] /\ task \in [Threads -> Tasks] /\ tok \in [Threads -> 0..MaxSessions]
      /\ hw \in [Regs -> 0..MaxSessions] /\ made \in 0..MaxRegs
  BY DEF TypeInv, TypeOK, ThreadTypes, RecordTypes
<1>m. 1..made \subseteq Regs
  BY <1>t, BootIsARegistration DEF Regs
<1>a. AfterOpen(task[t]) \in {"next", "return", "unlock"}
  BY <1>t, AfterSteps
<1>1. /\ pc[t] = "store" /\ hw' = [hw EXCEPT ![rd[t]] = tok[t]] /\ tok' = [tok EXCEPT ![t] = 0]
      /\ pc' = [pc EXCEPT ![t] = AfterOpen(task[t])]
      /\ UNCHANGED <<devices, keyOf, made, rd, task, sess>>
  BY DEF StoreHardware, serverVars, hwVars, Goto
<1>2. InHand(t) /\ tok[t] # 0 /\ rd[t] \in 1..made /\ rd[t] \in Regs /\ Answered(rd[t])
  BY <1>m, <1>1 DEF InHand, SessionInv, Holding, ApartInv, HandsApart
<1>3. \A r \in Regs : hw'[r] = IF r = rd[t] THEN tok[t] ELSE hw[r]
  BY <1>t, <1>1, <1>2
<1>4. pc'[t] \notin {"open", "store", "cancel", "close", "take"} /\ \A u \in Threads \ {t} : pc'[u] = pc[u]
  BY <1>t, <1>a, <1>1
<1>5. \A r : Answered(r) => Answered(r)'
  BY <1>1, <1>4 DEF Answered, ListedNow, Unregistering
<1>6. \A u \in Threads : InHand(u)' => InHand(u) /\ u # t /\ keyOf[rd[u]] # keyOf[rd[t]]
  BY <1>2, <1>4 DEF InHand, ApartInv, HandsApart
<1>7. HandsApart'
  <2> SUFFICES ASSUME NEW u \in Threads, InHand(u)'
               PROVE  /\ rd'[u] \in 1..made'
                      /\ \A v \in Threads : InHand(v)' /\ keyOf'[rd'[v]] = keyOf'[rd'[u]] => v = u
                      /\ \A r \in 1..made' : keyOf'[r] = keyOf'[rd'[u]] => hw'[r] = 0
                      /\ pc'[u] \in {"open", "store"} => Answered(rd[u])'
    BY DEF HandsApart
  <2>1. InHand(u) /\ pc'[u] = pc[u] /\ keyOf[rd[u]] # keyOf[rd[t]]
    BY <1>4, <1>6
  <2>2. pc'[u] \in {"open", "store"} => Answered(rd[u])'
    <3>1. pc[u] \in {"open", "store"} => Answered(rd[u])
      BY <2>1 DEF ApartInv, HandsApart
    <3> QED
      BY <1>1, <1>5, <2>1, <3>1 DEF Answered, ListedNow, Unregistering
  <2>3. \A r \in 1..made : keyOf[r] = keyOf[rd[u]] => hw'[r] = 0
    BY <1>m, <1>3, <2>1 DEF ApartInv, HandsApart
  <2> QED
    BY <1>1, <1>6, <2>1, <2>2, <2>3 DEF ApartInv, HandsApart
<1>8. RecordsApart'
  <2> SUFFICES ASSUME NEW r \in Regs, hw'[r] # 0
               PROVE  /\ r \in 1..made' /\ Answered(r)'
                      /\ \A q \in 1..made' : hw'[q] # 0 /\ keyOf'[q] = keyOf'[r] => q = r
    BY DEF RecordsApart
  <2>1. \A q \in 1..made : keyOf[q] = keyOf[rd[t]] => hw[q] = 0
    BY <1>2 DEF ApartInv, HandsApart
  <2>2. CASE r = rd[t]
    BY <1>m, <1>1, <1>2, <1>3, <1>5, <2>1, <2>2
  <2>3. CASE r # rd[t]
    <3>1. hw[r] # 0
      BY <1>3, <2>3
    <3>2. /\ r \in 1..made /\ Answered(r)
          /\ \A q \in 1..made : hw[q] # 0 /\ keyOf[q] = keyOf[r] => q = r
      BY <3>1 DEF ApartInv, RecordsApart
    <3>3. keyOf[r] # keyOf[rd[t]]
      BY <2>1, <3>1, <3>2
    <3> QED
      BY <1>m, <1>1, <1>3, <1>5, <3>2, <3>3
  <2> QED
    BY <2>2, <2>3
<1>9. SessionsPlaced'
  <2> SUFFICES ASSUME NEW z \in Sessions, Open(z)'
               PROVE  /\ sess'[z].reg \in 1..made'
                      /\ \/ hw'[sess'[z].reg] = z
                         \/ \E u \in Threads : tok'[u] = z /\ rd'[u] = sess'[z].reg
    BY DEF SessionsPlaced
  <2>1. Open(z) /\ z # 0 /\ sess[z].reg \in 1..made /\ sess[z].reg \in Regs
    BY <1>m, <1>1 DEF Open, Sessions, ApartInv, SessionsPlaced
  <2>2. CASE hw[sess[z].reg] = z
    <3>1. sess[z].reg # rd[t]
      BY <1>2, <2>1, <2>2 DEF ApartInv, HandsApart
    <3> QED
      BY <1>1, <1>3, <2>1, <2>2, <3>1
  <2>3. ASSUME NEW u \in Threads, tok[u] = z, rd[u] = sess[z].reg
        PROVE  \/ hw'[sess'[z].reg] = z
               \/ \E v \in Threads : tok'[v] = z /\ rd'[v] = sess'[z].reg
    <3>1. CASE u = t
      BY <1>1, <1>3, <2>1, <2>3, <3>1
    <3>2. CASE u # t
      <4>1. tok'[u] = z
        BY <1>t, <1>1, <2>3, <3>2
      <4> QED
        BY <1>1, <2>3, <4>1
    <3> QED
      BY <3>1, <3>2
  <2> QED
    BY <1>1, <2>1, <2>2, <2>3 DEF ApartInv, SessionsPlaced
<1>10. UnregisterHolds'
  BY <1>1, <1>4 DEF ApartInv, UnregisterHolds, Unregistering
<1> QED
  BY <1>7, <1>8, <1>9, <1>10 DEF ApartInv

\* The session goes from the record into the hands that will close it.
LEMMA TakeApart ==
  ASSUME TypeInv, SessionInv, ApartInv, NEW t \in Threads, TakeHardware(t), ~TakesAcross(t)
  PROVE  ApartInv'
<1>t. /\ pc \in [Threads -> Steps] /\ task \in [Threads -> Tasks] /\ tok \in [Threads -> 0..MaxSessions]
      /\ hw \in [Regs -> 0..MaxSessions] /\ made \in 0..MaxRegs /\ LocalAt(t)
  BY DEF TypeInv, TypeOK, ThreadTypes, RecordTypes, LocalInv
<1>m. 1..made \subseteq Regs
  BY <1>t, BootIsARegistration DEF Regs
<1>a. AfterClose(task[t]) \in {"next", "return", "swap"}
  BY <1>t, AfterSteps
<1>1. /\ pc[t] = "take" /\ hw' = [hw EXCEPT ![rd[t]] = 0] /\ tok' = [tok EXCEPT ![t] = hw[rd[t]]]
      /\ pc' = [pc EXCEPT ![t] = IF hw[rd[t]] = 0 THEN AfterClose(task[t]) ELSE "cancel"]
      /\ UNCHANGED <<devices, keyOf, made, rd, task, sess>>
  BY DEF TakeHardware, serverVars, hwVars, Goto
<1>2. rd[t] \in Regs /\ tok[t] = 0 /\ ~InHand(t)
  BY <1>t, <1>1 DEF LocalAt, WithRecord, SessionInv, Holding, InHand
<1>3. \A r \in Regs : hw'[r] = IF r = rd[t] THEN 0 ELSE hw[r]
  BY <1>t, <1>1, <1>2
<1>4. /\ \A u \in Threads \ {t} : pc'[u] = pc[u] /\ tok'[u] = tok[u]
      /\ hw[rd[t]] = 0 => pc'[t] \in {"next", "return", "swap"}
      /\ hw[rd[t]] # 0 => pc'[t] = "cancel"
      /\ tok'[t] = hw[rd[t]]
  BY <1>t, <1>a, <1>1
<1>5. \A r : Answered(r) /\ (task[t] = "unregister" => r # rd[t]) => Answered(r)'
  BY <1>1, <1>4 DEF Answered, ListedNow, Unregistering
<1>6. \A u \in Threads : u # t /\ pc[u] \in {"open", "store"} /\ task[t] = "unregister" => rd[u] # rd[t]
  BY <1>1, <1>4 DEF TakesAcross
<1>7. HandsApart'
  <2> SUFFICES ASSUME NEW u \in Threads, InHand(u)'
               PROVE  /\ rd'[u] \in 1..made'
                      /\ \A v \in Threads : InHand(v)' /\ keyOf'[rd'[v]] = keyOf'[rd'[u]] => v = u
                      /\ \A r \in 1..made' : keyOf'[r] = keyOf'[rd'[u]] => hw'[r] = 0
                      /\ pc'[u] \in {"open", "store"} => Answered(rd[u])'
    BY DEF HandsApart
  <2>1. \A v \in Threads : InHand(v)' => IF v = t THEN hw[rd[t]] # 0 ELSE InHand(v)
    BY <1>4 DEF InHand
  <2>2. CASE u = t
    <3>1. hw[rd[t]] # 0 /\ pc'[t] = "cancel"
      BY <1>4, <2>1, <2>2
    <3>2. /\ rd[t] \in 1..made
          /\ \A q \in 1..made : hw[q] # 0 /\ keyOf[q] = keyOf[rd[t]] => q = rd[t]
      BY <1>2, <3>1 DEF ApartInv, RecordsApart
    <3>3. \A v \in Threads : InHand(v) => keyOf[rd[v]] # keyOf[rd[t]]
      BY <3>1, <3>2 DEF ApartInv, HandsApart
    <3>4. \A r \in 1..made : keyOf[r] = keyOf[rd[t]] => hw'[r] = 0
      BY <1>m, <1>3, <3>2
    <3> QED
      BY <1>1, <2>1, <2>2, <3>1, <3>2, <3>3, <3>4
  <2>3. CASE u # t
    <3>1. InHand(u) /\ pc'[u] = pc[u]
      BY <1>4, <2>1, <2>3
    <3>2. \A r \in 1..made : keyOf[r] = keyOf[rd[u]] => hw[r] = 0 /\ hw'[r] = 0
      BY <1>m, <1>3, <3>1 DEF ApartInv, HandsApart
    <3>3. \A v \in Threads : InHand(v)' /\ keyOf[rd[v]] = keyOf[rd[u]] => v = u
      <4> SUFFICES ASSUME NEW v \in Threads, InHand(v)', keyOf[rd[v]] = keyOf[rd[u]] PROVE v = u
        OBVIOUS
      <4>1. CASE v = t
        <5>1. hw[rd[t]] # 0
          BY <2>1, <4>1
        <5>2. rd[t] \in 1..made
          BY <1>2, <5>1 DEF ApartInv, RecordsApart
        <5> QED
          BY <3>2, <4>1, <5>1, <5>2
      <4>2. CASE v # t
        BY <2>1, <3>1, <4>2 DEF ApartInv, HandsApart
      <4> QED
        BY <4>1, <4>2
    <3>4. pc'[u] \in {"open", "store"} => Answered(rd[u])'
      <4>1. pc[u] \in {"open", "store"} => Answered(rd[u])
        BY <3>1 DEF ApartInv, HandsApart
      <4> QED
        BY <1>1, <1>5, <1>6, <2>3, <3>1, <4>1 DEF Answered, ListedNow, Unregistering
    <3> QED
      BY <1>1, <3>1, <3>2, <3>3, <3>4 DEF ApartInv, HandsApart
  <2> QED
    BY <2>2, <2>3
<1>8. RecordsApart'
  <2> SUFFICES ASSUME NEW r \in Regs, hw'[r] # 0
               PROVE  /\ r \in 1..made' /\ Answered(r)'
                      /\ \A q \in 1..made' : hw'[q] # 0 /\ keyOf'[q] = keyOf'[r] => q = r
    BY DEF RecordsApart
  <2>1. r # rd[t] /\ hw[r] # 0
    BY <1>3
  <2>2. /\ r \in 1..made /\ Answered(r)
        /\ \A q \in 1..made : hw[q] # 0 /\ keyOf[q] = keyOf[r] => q = r
    BY <2>1 DEF ApartInv, RecordsApart
  <2>3. \A q \in 1..made : hw'[q] # 0 => hw[q] # 0
    BY <1>m, <1>3
  <2> QED
    BY <1>1, <1>5, <2>1, <2>2, <2>3
<1>9. SessionsPlaced'
  <2> SUFFICES ASSUME NEW z \in Sessions, Open(z)'
               PROVE  /\ sess'[z].reg \in 1..made'
                      /\ \/ hw'[sess'[z].reg] = z
                         \/ \E u \in Threads : tok'[u] = z /\ rd'[u] = sess'[z].reg
    BY DEF SessionsPlaced
  <2>1. Open(z) /\ z # 0 /\ sess[z].reg \in 1..made /\ sess[z].reg \in Regs
    BY <1>m, <1>1 DEF Open, Sessions, ApartInv, SessionsPlaced
  <2>2. CASE hw[sess[z].reg] = z
    BY <1>1, <1>3, <1>4, <2>1, <2>2
  <2>3. ASSUME NEW u \in Threads, tok[u] = z, rd[u] = sess[z].reg
        PROVE  \E v \in Threads : tok'[v] = z /\ rd'[v] = sess'[z].reg
    <3>1. u # t
      BY <1>2, <2>1, <2>3
    <3> QED
      BY <1>1, <1>4, <2>3, <3>1
  <2> QED
    BY <1>1, <2>1, <2>2, <2>3 DEF ApartInv, SessionsPlaced
<1>10. UnregisterHolds'
  BY <1>1, <1>4 DEF ApartInv, UnregisterHolds, Unregistering
<1> QED
  BY <1>7, <1>8, <1>9, <1>10 DEF ApartInv

\* openHardwareFor found nothing on its record: then there is nothing at its address.
LEMMA CheckApart ==
  ASSUME TypeInv, SessionInv, ApartInv, RegistryInv,
         NEW t \in Threads, CheckOpen(t), pc'[t] = "open", ~OpensAcross(t)
  PROVE  ApartInv'
<1>t. /\ pc \in [Threads -> Steps] /\ task \in [Threads -> Tasks] /\ keyOf \in [Regs -> Keys]
      /\ devices \in [Keys -> 0..MaxRegs] /\ hw \in [Regs -> 0..MaxSessions]
      /\ made \in 0..MaxRegs /\ LocalAt(t)
  BY DEF TypeInv, TypeOK, ThreadTypes, RecordTypes, ServerTypes, LocalInv
<1>m. 1..made \subseteq Regs
  BY <1>t, BootIsARegistration DEF Regs
<1>1. /\ pc[t] = "check" /\ \A u \in Threads \ {t} : pc'[u] = pc[u]
      /\ UNCHANGED <<devices, keyOf, made, hw, rd, task, tok, sess>>
  BY <1>t DEF CheckOpen, serverVars, recordVars, hwVars, Goto
<1>2. hw[rd[t]] = 0 /\ rd[t] \in Regs /\ ListedNow(rd[t])
  <2>1. AfterOpen(task[t]) # "open"
    BY <1>t, AfterSteps
  <2> QED
    BY <1>t, <1>1, <2>1 DEF CheckOpen, Goto, LocalAt, WithRecord, OpensAcross
<1>3. \A u \in Threads \ {t} : InHand(u) \/ Unregistering(u, rd[u]) => keyOf[rd[u]] # keyOf[rd[t]]
  BY <1>1 DEF OpensAcross
<1>4. rd[t] \in 1..made
  <2>1. keyOf[rd[t]] \in Keys /\ devices[keyOf[rd[t]]] = rd[t] /\ rd[t] # 0
    BY <1>t, <1>2 DEF ListedNow, Regs
  <2>2. \E i \in DOMAIN order : order[i] = rd[t]
    BY <2>1 DEF RegistryInv, Listed
  <2> QED
    BY <2>2 DEF RegistryInv
<1>5. \A r \in 1..made : keyOf[r] = keyOf[rd[t]] => hw[r] = 0
  <2> SUFFICES ASSUME NEW r \in 1..made, keyOf[r] = keyOf[rd[t]], hw[r] # 0 PROVE FALSE
    OBVIOUS
  <2>1. Answered(r) /\ r \in Regs
    BY <1>m DEF ApartInv, RecordsApart
  <2>2. CASE ListedNow(r)
    BY <1>2, <2>2 DEF ListedNow
  <2>3. ASSUME NEW u \in Threads, Unregistering(u, r) PROVE FALSE
    <3>1. u # t /\ rd[u] = r
      BY <1>1, <2>3 DEF Unregistering
    <3> QED
      BY <1>3, <2>3, <3>1 DEF Unregistering
  <2> QED
    BY <2>1, <2>2, <2>3 DEF Answered
<1>6. \A r : Answered(r) => Answered(r)'
  BY <1>1 DEF Answered, ListedNow, Unregistering
<1>7. \A u \in Threads : InHand(u)' => u = t \/ (InHand(u) /\ keyOf[rd[u]] # keyOf[rd[t]])
  BY <1>1, <1>3 DEF InHand
<1>8. HandsApart'
  <2> SUFFICES ASSUME NEW u \in Threads, InHand(u)'
               PROVE  /\ rd'[u] \in 1..made'
                      /\ \A v \in Threads : InHand(v)' /\ keyOf'[rd'[v]] = keyOf'[rd'[u]] => v = u
                      /\ \A r \in 1..made' : keyOf'[r] = keyOf'[rd'[u]] => hw'[r] = 0
                      /\ pc'[u] \in {"open", "store"} => Answered(rd[u])'
    BY DEF HandsApart
  <2>1. CASE u = t
    <3>1. Answered(rd[t])'
      BY <1>1, <1>2 DEF Answered, ListedNow
    <3> QED
      BY <1>1, <1>4, <1>5, <1>7, <2>1, <3>1
  <2>2. CASE u # t
    <3>1. InHand(u) /\ keyOf[rd[u]] # keyOf[rd[t]] /\ pc'[u] = pc[u]
      BY <1>1, <1>7, <2>2
    <3>2. pc'[u] \in {"open", "store"} => Answered(rd[u])'
      <4>1. pc[u] \in {"open", "store"} => Answered(rd[u])
        BY <3>1 DEF ApartInv, HandsApart
      <4> QED
        BY <1>1, <1>6, <3>1, <4>1 DEF Answered, ListedNow, Unregistering
    <3> QED
      BY <1>1, <1>7, <3>1, <3>2 DEF ApartInv, HandsApart
  <2> QED
    BY <2>1, <2>2
<1>9. RecordsApart' /\ UnregisterHolds'
  BY <1>1, <1>6 DEF ApartInv, RecordsApart, UnregisterHolds, Unregistering
<1>10. SessionsPlaced'
  BY <1>1 DEF ApartInv, SessionsPlaced, Open
<1> QED
  BY <1>8, <1>9, <1>10 DEF ApartInv

\* A new record has no hardware, and its address was free.
LEMMA RegisterApart ==
  ASSUME TypeInv, SessionInv, ApartInv, NEW t \in Threads, NEW k \in Keys, NEW d \in Devs, Register(t, k, d)
  PROVE  ApartInv'
<1> DEFINE n == made + 1
<1>t. /\ pc \in [Threads -> Steps] /\ task \in [Threads -> Tasks] /\ rd \in [Threads -> 0..MaxRegs]
      /\ keyOf \in [Regs -> Keys] /\ devices \in [Keys -> 0..MaxRegs] /\ made \in 0..MaxRegs
  BY DEF TypeInv, TypeOK, ThreadTypes, RecordTypes, ServerTypes
<1>1. /\ pc[t] = "idle" /\ devices[k] = 0 /\ made < MaxRegs /\ made' = n
      /\ keyOf' = [keyOf EXCEPT ![n] = k] /\ devices' = [devices EXCEPT ![k] = n]
      /\ \A u \in Threads \ {t} : pc'[u] = pc[u] /\ rd'[u] = rd[u] /\ task'[u] = task[u]
      /\ pc'[t] \in {"return", "load"} /\ UNCHANGED <<hw, sess, tok>>
  BY <1>t DEF Register, Goto
<1>2. n \in Regs /\ n \notin 1..made /\ 1..made \subseteq 1..made' /\ 1..made \subseteq Regs
      /\ \A r \in 1..made' : r \in 1..made \/ r = n
  BY <1>t, <1>1, BootIsARegistration DEF Regs
<1> HIDE DEF n
<1>3. \A r \in 1..made : keyOf'[r] = keyOf[r] /\ r # 0
  BY <1>t, <1>1, <1>2
<1>4. \A u \in Threads : InHand(u)' => InHand(u) /\ u # t /\ rd[u] \in 1..made /\ rd'[u] = rd[u] /\ pc'[u] = pc[u]
  BY <1>1 DEF InHand, ApartInv, HandsApart
<1>5. hw[n] = 0
  BY <1>2 DEF ApartInv, RecordsApart
<1>6. ASSUME NEW r \in 1..made, Answered(r) PROVE Answered(r)'
  <2>1. CASE ListedNow(r)
    <3>1. keyOf[r] # k /\ keyOf[r] \in Keys
      BY <1>t, <1>1, <1>2, <1>3, <2>1 DEF ListedNow
    <3>2. devices'[keyOf'[r]] = r
      BY <1>t, <1>1, <1>3, <2>1, <3>1 DEF ListedNow
    <3> QED
      BY <3>2 DEF Answered, ListedNow
  <2>2. ASSUME NEW u \in Threads, Unregistering(u, r) PROVE Answered(r)'
    BY <1>1, <2>2 DEF Answered, Unregistering
  <2> QED
    BY <1>6, <2>1, <2>2 DEF Answered
<1>7. HandsApart'
  <2> SUFFICES ASSUME NEW u \in Threads, InHand(u)'
               PROVE  /\ rd'[u] \in 1..made'
                      /\ \A v \in Threads : InHand(v)' /\ keyOf'[rd'[v]] = keyOf'[rd'[u]] => v = u
                      /\ \A r \in 1..made' : keyOf'[r] = keyOf'[rd'[u]] => hw'[r] = 0
                      /\ pc'[u] \in {"open", "store"} => Answered(rd[u])'
    BY DEF HandsApart
  <2>1. /\ InHand(u) /\ rd[u] \in 1..made /\ rd'[u] = rd[u] /\ pc'[u] = pc[u]
        /\ keyOf'[rd'[u]] = keyOf[rd[u]]
    BY <1>3, <1>4
  <2>2. \A v \in Threads : InHand(v)' => InHand(v) /\ keyOf'[rd'[v]] = keyOf[rd[v]]
    BY <1>3, <1>4
  <2>3. \A r \in 1..made' : keyOf'[r] = keyOf'[rd'[u]] => hw'[r] = 0
    BY <1>1, <1>2, <1>3, <1>5, <2>1 DEF ApartInv, HandsApart
  <2>4. pc'[u] \in {"open", "store"} => Answered(rd[u])'
    <3>1. pc[u] \in {"open", "store"} => Answered(rd[u])
      BY <2>1 DEF ApartInv, HandsApart
    <3> QED
      BY <1>6, <2>1, <3>1 DEF Answered, ListedNow, Unregistering
  <2> QED
    BY <1>2, <2>1, <2>2, <2>3, <2>4 DEF ApartInv, HandsApart
<1>8. RecordsApart'
  <2> SUFFICES ASSUME NEW r \in Regs, hw'[r] # 0
               PROVE  /\ r \in 1..made' /\ Answered(r)'
                      /\ \A q \in 1..made' : hw'[q] # 0 /\ keyOf'[q] = keyOf'[r] => q = r
    BY DEF RecordsApart
  <2>1. /\ r \in 1..made /\ Answered(r)
        /\ \A q \in 1..made : hw[q] # 0 /\ keyOf[q] = keyOf[r] => q = r
    BY <1>1 DEF ApartInv, RecordsApart
  <2> QED
    BY <1>1, <1>2, <1>3, <1>5, <1>6, <2>1
<1>9. SessionsPlaced'
  <2> SUFFICES ASSUME NEW z \in Sessions, Open(z)'
               PROVE  /\ sess'[z].reg \in 1..made'
                      /\ \/ hw'[sess'[z].reg] = z
                         \/ \E u \in Threads : tok'[u] = z /\ rd'[u] = sess'[z].reg
    BY DEF SessionsPlaced
  <2>1. Open(z) /\ z # 0
    BY <1>1 DEF Open, Sessions
  <2>2. \A u \in Threads : tok[u] = z => u # t
    BY <1>1, <2>1 DEF SessionInv, Holding
  <2> QED
    BY <1>1, <1>2, <2>1, <2>2 DEF ApartInv, SessionsPlaced
<1>10. UnregisterHolds'
  BY <1>1, <1>2 DEF ApartInv, UnregisterHolds, Unregistering
<1> QED
  BY <1>7, <1>8, <1>9, <1>10 DEF ApartInv

\* The record leaves the indexes, and the Unregister answers for it from now on.
LEMMA UnregisterApart ==
  ASSUME TypeInv, SessionInv, ApartInv, RegistryInv, NEW t \in Threads, NEW k \in Keys, Unregister(t, k)
  PROVE  ApartInv'
<1>t. /\ pc \in [Threads -> Steps] /\ task \in [Threads -> Tasks] /\ rd \in [Threads -> 0..MaxRegs]
      /\ keyOf \in [Regs -> Keys] /\ devices \in [Keys -> 0..MaxRegs] /\ made \in 0..MaxRegs
  BY DEF TypeInv, TypeOK, ThreadTypes, RecordTypes, ServerTypes
<1>m. 1..made \subseteq Regs
  BY <1>t, BootIsARegistration DEF Regs
<1>1. /\ pc[t] = "idle" /\ devices[k] # 0 /\ devices' = [devices EXCEPT ![k] = 0]
      /\ rd' = [rd EXCEPT ![t] = devices[k]] /\ task' = [task EXCEPT ![t] = "unregister"]
      /\ pc' = [pc EXCEPT ![t] = "take"]
      /\ UNCHANGED <<keyOf, made, hw, sess, tok>>
  BY DEF Unregister, Goto, recordVars, hwVars
<1>2. /\ \A u \in Threads \ {t} : pc'[u] = pc[u] /\ rd'[u] = rd[u] /\ task'[u] = task[u]
      /\ pc'[t] = "take" /\ task'[t] = "unregister" /\ rd'[t] = devices[k]
  BY <1>t, <1>1
<1>3. devices[k] \in 1..made
  BY <1>1 DEF RegistryInv, Listed
<1>4. ASSUME NEW r \in 1..made, Answered(r) PROVE Answered(r)'
  <2>1. CASE r = devices[k]
    BY <1>1, <1>2, <2>1 DEF Answered, Unregistering
  <2>2. CASE r # devices[k] /\ ListedNow(r)
    <3>1. keyOf[r] \in Keys /\ keyOf[r] # k
      BY <1>t, <1>m, <2>2 DEF ListedNow
    <3> QED
      BY <1>t, <1>1, <2>2, <3>1 DEF Answered, ListedNow
  <2>3. ASSUME NEW u \in Threads, Unregistering(u, r) PROVE Answered(r)'
    BY <1>1, <1>2, <2>3 DEF Answered, Unregistering
  <2> QED
    BY <1>4, <2>1, <2>2, <2>3 DEF Answered
<1>5. \A u \in Threads : InHand(u)' => InHand(u) /\ u # t /\ rd'[u] = rd[u] /\ pc'[u] = pc[u]
  BY <1>t, <1>1, <1>2 DEF InHand
<1>6. HandsApart'
  <2> SUFFICES ASSUME NEW u \in Threads, InHand(u)'
               PROVE  /\ rd'[u] \in 1..made'
                      /\ \A v \in Threads : InHand(v)' /\ keyOf'[rd'[v]] = keyOf'[rd'[u]] => v = u
                      /\ \A r \in 1..made' : keyOf'[r] = keyOf'[rd'[u]] => hw'[r] = 0
                      /\ pc'[u] \in {"open", "store"} => Answered(rd[u])'
    BY DEF HandsApart
  <2>1. InHand(u) /\ rd'[u] = rd[u] /\ pc'[u] = pc[u] /\ rd[u] \in 1..made
    BY <1>5 DEF ApartInv, HandsApart
  <2>2. \A v \in Threads : InHand(v)' => InHand(v) /\ rd'[v] = rd[v]
    BY <1>5
  <2>3. pc'[u] \in {"open", "store"} => Answered(rd[u])'
    <3>1. pc[u] \in {"open", "store"} => Answered(rd[u])
      BY <2>1 DEF ApartInv, HandsApart
    <3> QED
      BY <1>4, <2>1, <3>1 DEF Answered, ListedNow, Unregistering
  <2> QED
    BY <1>1, <2>1, <2>2, <2>3 DEF ApartInv, HandsApart
<1>7. RecordsApart'
  BY <1>1, <1>4 DEF ApartInv, RecordsApart
<1>8. SessionsPlaced'
  <2> SUFFICES ASSUME NEW z \in Sessions, Open(z)'
               PROVE  /\ sess'[z].reg \in 1..made'
                      /\ \/ hw'[sess'[z].reg] = z
                         \/ \E u \in Threads : tok'[u] = z /\ rd'[u] = sess'[z].reg
    BY DEF SessionsPlaced
  <2>1. Open(z) /\ z # 0
    BY <1>1 DEF Open, Sessions
  <2>2. \A u \in Threads : tok[u] = z => u # t
    BY <1>1, <2>1 DEF SessionInv, Holding
  <2> QED
    BY <1>1, <1>2, <2>1, <2>2 DEF ApartInv, SessionsPlaced
<1>9. UnregisterHolds'
  BY <1>1, <1>2, <1>3, <1>t DEF ApartInv, UnregisterHolds, Unregistering
<1> QED
  BY <1>6, <1>7, <1>8, <1>9 DEF ApartInv

\* Every step that is not across another keeps it.
LEMMA NextApartInv ==
  ASSUME TypeInv, SessionInv, ApartInv, RegistryInv, [Next]_vars,
         \A t \in Threads : ~OpensAcross(t) /\ ~TakesAcross(t)
  PROVE  ApartInv'
<1>1. ASSUME NEW t \in Threads, Placid(t) PROVE ApartInv'
  BY <1>1, PlacidKeeps
<1>2. ASSUME NEW t \in Threads, Continue(t) \/ Answer(t) PROVE ApartInv'
  <2>1. CASE OpenSucceeds(t)
    BY <2>1, OpenApart
  <2>2. CASE StoreHardware(t)
    BY <2>2, StoreApart
  <2>3. CASE TakeHardware(t)
    BY <2>3, TakeApart
  <2>4. CASE CancelHardware(t) \/ CloseHardware(t)
    BY <2>4, CloseApart
  <2>5. CASE CheckOpen(t) /\ pc'[t] = "open"
    BY <2>5, CheckApart
  <2>6. CASE ~ (OpenSucceeds(t) \/ StoreHardware(t) \/ TakeHardware(t) \/ CancelHardware(t) \/ CloseHardware(t))
             /\ pc'[t] # "open"
    BY <1>1, <1>2, <2>6, ContinuePlacid
  <2>7. pc'[t] = "open" => CheckOpen(t)
    BY <1>2, OnlyCheckOpens
  <2> QED
    BY <2>1, <2>2, <2>3, <2>4, <2>5, <2>6, <2>7
<1>3. ASSUME NEW t \in Threads, HostCall(t) PROVE ApartInv'
  <2>1. ASSUME NEW k \in Keys,
               SetReloader(t, k) \/ RegisterConfigurable(t, k) \/ Reload(t, k) PROVE ApartInv'
    BY <1>1, <2>1, CallPlacid
  <2>2. ASSUME ReloadAll(t) PROVE ApartInv'
    <3>1. PICK k \in Keys : TRUE
      BY BootIsARegistration
    <3> QED
      BY <1>1, <2>2, <3>1, CallPlacid
  <2>3. ASSUME NEW k \in Keys, Unregister(t, k) PROVE ApartInv'
    BY <2>3, UnregisterApart
  <2>4. ASSUME NEW k \in Keys, NEW d \in Devs, Register(t, k, d) PROVE ApartInv'
    BY <2>4, RegisterApart
  <2> QED
    BY <1>3, <2>1, <2>2, <2>3, <2>4 DEF HostCall
<1>4. ASSUME NEW t \in Threads, NEW k \in Keys, Reload(t, k) \/ Request(t, k) PROVE ApartInv'
  BY <1>1, <1>4, CallPlacid
<1>5. CASE RunStep(Runner) \/ StopServing(Runner)
  BY <1>1, <1>5, RunPlacid DEF Threads
<1>6. CASE ContextsEnd \/ UNCHANGED vars
  <2>1. UNCHANGED <<devices, keyOf, made, hw, tok, pc, rd, task>>
    BY <1>6, ContextsEndOnly DEF vars, serverVars, recordVars, hwVars, localVars
  <2>5. \A z \in Sessions : sess'[z].reg = sess[z].reg /\ Open(z)' = Open(z)
    BY <1>6, ContextsEndOnly DEF vars, hwVars, Open
  <2>2. \A r : Answered(r)' = Answered(r)
    BY <2>1 DEF Answered, ListedNow, Unregistering
  <2>3. \A u : InHand(u)' = InHand(u)
    BY <2>1 DEF InHand
  <2>4. HandsApart'
    <3>1. \A u \in Threads : Answered(rd[u]) => Answered(rd[u])'
      BY <2>1, <2>2 DEF Answered, ListedNow, Unregistering
    <3> QED
      BY <2>1, <2>3, <3>1 DEF ApartInv, HandsApart
  <2> QED
    BY <2>1, <2>2, <2>4, <2>5 DEF ApartInv, RecordsApart, SessionsPlaced, UnregisterHolds, Unregistering
<1> QED
  BY <1>2, <1>3, <1>4, <1>5, <1>6 DEF Next, Threads, ContextsEnd

\* What it says of the hardware.
LEMMA ApartSays == ASSUME TypeInv, SessionInv, ApartInv PROVE OneOpenPerAddress /\ Findable
<1>1. OneOpenPerAddress
  <2> SUFFICES ASSUME NEW t \in Threads, pc[t] = "open"
               PROVE  /\ \A s \in Sessions : Open(s) => keyOf[sess[s].reg] # keyOf[rd[t]]
                      /\ \A u \in Threads \ {t} : pc[u] = "open" => keyOf[rd[u]] # keyOf[rd[t]]
    BY DEF OneOpenPerAddress
  <2>1. InHand(t) /\ tok[t] = 0
    BY DEF InHand, SessionInv, Holding
  <2>2. ASSUME NEW s \in Sessions, Open(s), keyOf[sess[s].reg] = keyOf[rd[t]] PROVE FALSE
    <3>1. s # 0 /\ sess[s].reg \in 1..made
      BY <2>2 DEF Sessions, ApartInv, SessionsPlaced
    <3>2. hw[sess[s].reg] = 0
      BY <2>1, <2>2, <3>1 DEF ApartInv, HandsApart
    <3>3. PICK u \in Threads : tok[u] = s /\ rd[u] = sess[s].reg
      BY <2>2, <3>1, <3>2 DEF ApartInv, SessionsPlaced
    <3>4. InHand(u)
      BY <3>1, <3>3 DEF InHand, SessionInv, Holding
    <3>5. u = t
      BY <2>1, <2>2, <3>3, <3>4 DEF ApartInv, HandsApart
    <3> QED
      BY <2>1, <3>1, <3>3, <3>5
  <2>3. ASSUME NEW u \in Threads \ {t}, pc[u] = "open", keyOf[rd[u]] = keyOf[rd[t]] PROVE FALSE
    BY <2>1, <2>3 DEF InHand, ApartInv, HandsApart
  <2> QED
    BY <2>2, <2>3
<1>2. Findable
  <2> SUFFICES ASSUME NEW s \in Sessions, Open(s), ~ \E t \in Threads : tok[t] = s
               PROVE  \/ \E k \in Keys : devices[k] # 0 /\ hw[devices[k]] = s
                      \/ \E r \in Regs, t \in Threads : Unregistering(t, r) /\ hw[r] = s
    BY DEF Findable
  <2> DEFINE r == sess[s].reg
  <2>1. hw[r] = s /\ s # 0 /\ r \in 1..made
    BY DEF ApartInv, SessionsPlaced, Sessions
  <2>2. made \in 0..MaxRegs /\ keyOf \in [Regs -> Keys]
    BY DEF TypeInv, TypeOK, RecordTypes
  <2>3. r \in Regs /\ r # 0
    BY <2>1, <2>2, BootIsARegistration DEF Regs
  <2> HIDE DEF r
  <2>4. Answered(r) /\ keyOf[r] \in Keys
    BY <2>1, <2>2, <2>3 DEF ApartInv, RecordsApart
  <2>5. CASE ListedNow(r)
    BY <2>1, <2>3, <2>4, <2>5 DEF ListedNow
  <2> QED
    BY <2>1, <2>3, <2>4, <2>5 DEF Answered
<1> QED
  BY <1>1, <1>2

\* Whatever the host registers, unregisters and reloads while the server runs:
\* as long as nobody opens hardware on a record that was unregistered or at an
\* address where another is between two sections, and no Unregister passes a
\* record that is being opened, hardware is released before its replacement
\* opens and everything open can be found (server.go, openHardwareFor and
\* closeHardwareFor, whose sections the lock does not join).
THEOREM HostsApart ==
  Spec /\ [][\A t \in Threads : ~OpensAcross(t) /\ ~TakesAcross(t)]_vars
    => []OneOpenPerAddress /\ []Findable
<1> DEFINE Inv == TypeInv /\ SessionInv /\ RegistryInv /\ ApartInv
           Apart == \A t \in Threads : ~OpensAcross(t) /\ ~TakesAcross(t)
<1>1. Inv /\ [Next]_vars /\ [Apart]_vars => Inv'
  <2> SUFFICES ASSUME Inv, [Next]_vars, [Apart]_vars PROVE Inv'
    OBVIOUS
  <2>1. TypeInv' /\ SessionInv' /\ RegistryInv'
    BY NextTypeInv, NextSessionInv, NextRegistryInv
  <2>2. Apart
    <3>1. CASE UNCHANGED vars
      BY <3>1 DEF OpensAcross, TakesAcross, vars
    <3> QED
      BY <3>1
  <2> QED
    BY <2>1, <2>2, NextApartInv
<1>2. Inv => OneOpenPerAddress /\ Findable
  BY ApartSays
<1>3. Init => Inv
  BY InitTypeInv, InitSessionInv, InitRegistryInv, InitApartInv
<1> QED
  BY <1>1, <1>2, <1>3, PTL DEF Spec
=============================================================================
