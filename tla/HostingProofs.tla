--------------------------- MODULE HostingProofs ----------------------------
(* Machine-checked facts about Hosting, for every set of goroutines, devices *)
(* and addresses.                                                            *)
EXTENDS Hosting, SequenceTheorems, TLAPS

\* The steps at which a goroutine works on the record it has in hand, and
\* those that only a Reload takes.
WithRecord == {"load", "apply", "check", "open", "store", "take", "cancel", "close",
               "lock", "rebuild", "swap", "swapped", "unlock", "readItab", "readData"}
ReloadOnly == {"lock", "rebuild", "swap", "swapped", "unlock"}

\* What a goroutine has in hand fits the step it is at: a record while it
\* works on one, and in a Reload the replacement until it is swapped in.
LocalAt(t) ==
  /\ pc[t] \in WithRecord => rd[t] \in Regs
  /\ pc[t] \in ReloadOnly => task[t] = "reload"
  /\ pc[t] \in {"swap", "swapped"} => obj[t] \in Devs
  /\ task[t] = "reload" /\ pc[t] \in {"take", "cancel", "close"} => obj[t] \in Devs

LocalInv == \A t \in Threads : LocalAt(t)

TypeInv == TypeOK /\ LocalInv

USE DEF Regs, Sessions

\* The replies of the three After tables are steps.
LEMMA AfterSteps ==
  ASSUME NEW k \in Tasks
  PROVE  /\ AfterLoad(k) \in {"next", "return", "check"}
         /\ AfterOpen(k) \in {"next", "return", "unlock"}
         /\ AfterClose(k) \in {"next", "return", "swap"}
         /\ AfterOpen(k) = "unlock" => k = "reload"
         /\ AfterClose(k) = "swap" => k = "reload"
BY DEF AfterLoad, AfterOpen, AfterClose, Tasks

\* A function on 1..n is a sequence (for Init's order and for Reverse).
LEMMA FunctionIsSeq ==
  ASSUME NEW S, NEW n \in Nat, NEW f \in [1..n -> S] PROVE f \in Seq(S)
BY SeqDef

\* closeHardware's backward walk is over a sequence of records.
LEMMA ReverseType ==
  ASSUME NEW s \in Seq(Regs) PROVE Reverse(s) \in Seq(Regs)
<1>1. Len(s) \in Nat /\ \A i \in 1..Len(s) : s[i] \in Regs
  BY LenProperties, ElementOfSeq
<1>2. Reverse(s) \in [1..Len(s) -> Regs]
  <2>1. \A i \in 1..Len(s) : s[(Len(s) - i) + 1] \in Regs
    BY <1>1
  <2>2. QED
    BY <2>1 DEF Reverse
<1>3. QED
  BY <1>1, <1>2, FunctionIsSeq

\* Unregister leaves the order a sequence of records.
LEMMA RemoveAtType ==
  ASSUME NEW s \in Seq(Regs), NEW i \in DOMAIN s PROVE RemoveAt(s, i) \in Seq(Regs)
<1>1. i \in 1..Len(s) /\ Len(s) \in Nat /\ \A j \in 1..Len(s) : s[j] \in Regs
  BY LenProperties, ElementOfSeq
<1>2. SubSeq(s, 1, i - 1) \in Seq(Regs)
  <2>1. i - 1 \in Int /\ \A j \in 1..(i - 1) : s[j] \in Regs
    BY <1>1
  <2>2. QED
    BY <2>1, SubSeqProperties
<1>3. SubSeq(s, i + 1, Len(s)) \in Seq(Regs)
  <2>1. i + 1 \in Int /\ \A j \in (i + 1)..Len(s) : s[j] \in Regs
    BY <1>1
  <2>2. QED
    BY <1>1, <2>1, SubSeqProperties
<1>4. QED
  BY <1>2, <1>3, ConcatProperties DEF RemoveAt

\* The server the host has set up has the types.
LEMMA InitTypeInv == Init => TypeInv
<1> SUFFICES ASSUME Init PROVE TypeInv
  OBVIOUS
<1> USE DEF Init
<1>1. PICK n \in 0..MaxRegs : BootKey \in [1..n -> Keys] /\ BootDev \in [1..n -> Devs \ Misfits]
  BY BootIsARegistration
<1>2. BootRegs = 1..n /\ Len(BootKey) = n /\ n \in Nat /\ 1..n \subseteq Regs
  BY <1>1, BootIsARegistration DEF BootRegs
<1>3. order \in Seq(Regs)
  <2>1. order \in [1..n -> Regs]
    BY <1>2
  <2>2. QED
    BY <1>2, <2>1, FunctionIsSeq
<1>4. devices \in [Keys -> 0..MaxRegs]
  <2>1. ASSUME NEW k \in Keys PROVE devices[k] \in 0..MaxRegs
    <3>1. CASE \E r \in BootRegs : BootKey[r] = k
      <4>1. (CHOOSE r \in BootRegs : BootKey[r] = k) \in BootRegs
        BY <3>1
      <4>2. QED
        BY <3>1, <4>1, <1>2, BootIsARegistration
    <3>2. CASE ~ \E r \in BootRegs : BootKey[r] = k
      BY <3>2, BootIsARegistration
    <3>3. QED
      BY <3>1, <3>2
  <2>2. QED
    BY <2>1
<1>5. data \in [Regs -> Devs \union {NoDev}] /\ \A r \in 1..made : data[r] # NoDev
  BY <1>1, <1>2, DevicesTyped
<1>6. itab \in [Regs -> Types \union {NoDev}]
  BY <1>5, DevicesTyped DEF ItabOf
<1>7. keyOf \in [Regs -> Keys]
  BY <1>1, <1>2, BootIsARegistration
<1>8. TypeOK
  <2>1. cfg \in [Regs -> Devs \union {NoDev}] /\ hw \in [Regs -> 0..MaxSessions]
        /\ made \in 0..MaxRegs /\ opens \in 0..MaxSessions
    BY <1>2, <1>5, BootIsARegistration
  <2>2. reloader \in [Regs -> BOOLEAN] /\ reloadMu \in [Regs -> Threads \union {NoThread}]
    OBVIOUS
  <2>3. used \subseteq Devs
    BY <1>1, <1>2
  <2>4. sess \in [Sessions -> [reg : 0..MaxRegs, dev : Devs \union {NoDev},
                              st : {"none", "open", "cancelled", "closed"}, run : BOOLEAN]]
    BY BootIsARegistration
  <2>5. pc \in [Threads -> Steps] /\ task \in [Threads -> Tasks]
    BY DEF Steps, Tasks
  <2>6. rd \in [Threads -> 0..MaxRegs] /\ tok \in [Threads -> 0..MaxSessions]
        /\ queue \in [Threads -> Seq(Regs)] /\ obj \in [Threads -> Devs \union {NoDev}]
    BY BootIsARegistration, EmptySeq
  <2>7. handle \in [Threads -> [itab : Types \union {NoDev}, data : Devs \union {NoDev}]]
    BY DEF NoHandle
  <2>8. QED
    BY <1>3, <1>4, <1>5, <1>6, <1>7, <2>1, <2>2, <2>3, <2>4, <2>5, <2>6, <2>7
    DEF TypeOK, ServerTypes, RecordTypes, HardwareTypes, ThreadTypes
<1>9. LocalInv
  BY DEF LocalInv, LocalAt, WithRecord, ReloadOnly
<1>10. QED
  BY <1>8, <1>9 DEF TypeInv
\* A step of t that leaves the other goroutines' variables alone.
Alone(t) ==
  \A u \in Threads \ {t} : pc'[u] = pc[u] /\ rd'[u] = rd[u] /\ task'[u] = task[u] /\ obj'[u] = obj[u]

\* A step of t alone keeps LocalInv if it leaves t well placed.
LEMMA LocalFrame ==
  ASSUME LocalInv, NEW t \in Threads, Alone(t), LocalAt(t)' PROVE LocalInv'
BY DEF LocalInv, LocalAt, Alone

\* A step that leaves a group of variables alone keeps the group's types.
LEMMA ServerFrame == ServerTypes /\ UNCHANGED <<serverVars, listening>> => ServerTypes'
BY DEF ServerTypes, serverVars

\* The same for the records ...
LEMMA RecordFrame == RecordTypes /\ UNCHANGED recordVars => RecordTypes'
BY DEF RecordTypes, recordVars

\* ... and for the sessions.
LEMMA HardwareFrame == HardwareTypes /\ UNCHANGED hwVars => HardwareTypes'
BY DEF HardwareTypes, hwVars

\* Every step keeps the types, and leaves each goroutine with what it needs.
LEMMA NextTypeInv == TypeInv /\ [Next]_vars => TypeInv'
<1> SUFFICES ASSUME ServerTypes, RecordTypes, HardwareTypes, ThreadTypes, LocalInv, [Next]_vars
             PROVE ServerTypes' /\ RecordTypes' /\ HardwareTypes' /\ ThreadTypes' /\ LocalInv'
  BY DEF TypeInv, TypeOK
<1> USE BootIsARegistration, DevicesTyped DEF Goto, Move
<1> DEFINE Goal == ServerTypes' /\ RecordTypes' /\ HardwareTypes' /\ ThreadTypes' /\ LocalInv'
<1> HIDE DEF Goal
<1>1. ASSUME NEW t \in Threads, NEW k \in Keys, Unregister(t, k) PROVE Goal
  <2>1. \A i \in DOMAIN order : RemoveAt(order, i) \in Seq(Regs)
    BY RemoveAtType DEF ThreadTypes, ServerTypes
  <2>2. RecordTypes' /\ HardwareTypes'
    BY <1>1, RecordFrame, HardwareFrame
    DEF Unregister, serverVars, recordVars, hwVars
  <2>3. ServerTypes'
    BY <1>1, <2>1 DEF Unregister, ServerTypes, RecordTypes, LocalInv, LocalAt, WithRecord, ReloadOnly, serverVars, recordVars, deviceVars, hwVars
  <2>4. ThreadTypes'
    BY <1>1, <2>1 DEF Unregister, ThreadTypes, ServerTypes, Steps, Tasks, localVars
  <2>5. Alone(t)
    BY <1>1 DEF Unregister, Alone, ThreadTypes, localVars
  <2>6. LocalAt(t)'
    BY <1>1, <2>1 DEF Unregister, ThreadTypes, ServerTypes, LocalInv, LocalAt, WithRecord, ReloadOnly, localVars
  <2>7. QED
    BY <2>1, <2>2, <2>3, <2>4, <2>5, <2>6, LocalFrame DEF Goal
<1>2. ASSUME NEW t \in Threads, NEW k \in Keys, SetReloader(t, k) PROVE Goal
  <2>1. ServerTypes' /\ HardwareTypes'
    BY <1>2, ServerFrame, HardwareFrame
    DEF SetReloader, serverVars, recordVars, hwVars
  <2>2. RecordTypes'
    BY <1>2 DEF SetReloader, RecordTypes, ServerTypes, ThreadTypes, LocalInv, LocalAt, WithRecord, ReloadOnly, serverVars, recordVars, deviceVars, hwVars
  <2>3. ThreadTypes'
    BY <1>2 DEF SetReloader, ThreadTypes, Steps, Tasks, localVars
  <2>4. Alone(t)
    BY <1>2 DEF SetReloader, Alone, ThreadTypes, localVars
  <2>5. LocalAt(t)'
    BY <1>2 DEF SetReloader, ThreadTypes, LocalInv, LocalAt, WithRecord, ReloadOnly, localVars
  <2>6. QED
    BY <2>1, <2>2, <2>3, <2>4, <2>5, LocalFrame DEF Goal
<1>3. ASSUME NEW t \in Threads, NEW k \in Keys, RegisterConfigurable(t, k) PROVE Goal
  <2>1. ServerTypes' /\ HardwareTypes'
    BY <1>3, ServerFrame, HardwareFrame
    DEF RegisterConfigurable, serverVars, recordVars, hwVars
  <2>2. RecordTypes'
    BY <1>3 DEF RegisterConfigurable, RecordTypes, ServerTypes, ThreadTypes, LocalInv, LocalAt, WithRecord, ReloadOnly, serverVars, recordVars, deviceVars, hwVars
  <2>3. ThreadTypes'
    BY <1>3 DEF RegisterConfigurable, ThreadTypes, ServerTypes, Steps, Tasks, localVars
  <2>4. Alone(t)
    BY <1>3 DEF RegisterConfigurable, Alone, ThreadTypes, localVars
  <2>5. LocalAt(t)'
    BY <1>3 DEF RegisterConfigurable, ThreadTypes, ServerTypes, LocalInv, LocalAt, WithRecord, ReloadOnly, localVars
  <2>6. QED
    BY <2>1, <2>2, <2>3, <2>4, <2>5, LocalFrame DEF Goal
<1>4. ASSUME NEW t \in Threads, NEW k \in Keys, Reload(t, k) PROVE Goal
  <2>1. ServerTypes' /\ RecordTypes' /\ HardwareTypes'
    BY <1>4, ServerFrame, RecordFrame, HardwareFrame
    DEF Reload, serverVars, recordVars, hwVars
  <2>2. ThreadTypes'
    BY <1>4 DEF Reload, ThreadTypes, ServerTypes, Steps, Tasks, localVars
  <2>3. Alone(t)
    BY <1>4 DEF Reload, Alone, ThreadTypes, localVars
  <2>4. LocalAt(t)'
    BY <1>4 DEF Reload, ThreadTypes, ServerTypes, LocalInv, LocalAt, WithRecord, ReloadOnly, localVars
  <2>5. QED
    BY <2>1, <2>2, <2>3, <2>4, LocalFrame DEF Goal
<1>5. ASSUME NEW t \in Threads, NEW k \in Keys, NEW d \in Devs, Register(t, k, d) PROVE Goal
  <2>1. ServerTypes'
    BY <1>5, AppendProperties DEF Register, ItabOf, ServerTypes, RecordTypes, LocalInv, LocalAt, WithRecord, ReloadOnly, serverVars, recordVars, deviceVars, hwVars
  <2>2. RecordTypes'
    BY <1>5, AppendProperties, SMTT(60) DEF Register, ItabOf, RecordTypes, ServerTypes, ThreadTypes, LocalInv, LocalAt, WithRecord, ReloadOnly, serverVars, recordVars, deviceVars, hwVars
  <2>3. HardwareTypes'
    BY <1>5, AppendProperties DEF Register, ItabOf, HardwareTypes, ThreadTypes, RecordTypes, LocalInv, LocalAt, WithRecord, ReloadOnly, serverVars, recordVars, deviceVars, hwVars
  <2>4. ThreadTypes'
    BY <1>5, AppendProperties DEF Register, ItabOf, ThreadTypes, RecordTypes, Steps, Tasks, localVars
  <2>5. Alone(t)
    BY <1>5 DEF Register, Alone, ThreadTypes, localVars
  <2>6. LocalAt(t)'
    BY <1>5, AppendProperties DEF Register, ItabOf, ThreadTypes, RecordTypes, LocalInv, LocalAt, WithRecord, ReloadOnly, localVars
  <2>7. QED
    BY <2>1, <2>2, <2>3, <2>4, <2>5, <2>6, LocalFrame DEF Goal
<1>6. ASSUME NEW t \in Threads, ReloadAll(t) PROVE Goal
  <2>1. ServerTypes' /\ RecordTypes' /\ HardwareTypes'
    BY <1>6, ServerFrame, RecordFrame, HardwareFrame
    DEF ReloadAll, serverVars, recordVars, hwVars
  <2>2. ThreadTypes'
    BY <1>6 DEF ReloadAll, ThreadTypes, ServerTypes, Steps, Tasks, localVars
  <2>3. Alone(t)
    BY <1>6 DEF ReloadAll, Alone, ThreadTypes, localVars
  <2>4. LocalAt(t)'
    BY <1>6 DEF ReloadAll, ThreadTypes, LocalInv, LocalAt, WithRecord, ReloadOnly, localVars
  <2>5. QED
    BY <2>1, <2>2, <2>3, <2>4, LocalFrame DEF Goal
<1>7. ASSUME NEW t \in Threads, NextReload(t) PROVE Goal
  <2>1. queue[t] # <<>> => Head(queue[t]) \in Regs /\ Tail(queue[t]) \in Seq(Regs)
    BY HeadTailProperties, ElementOfSeq, LenProperties DEF ThreadTypes, ServerTypes
  <2>2. ServerTypes' /\ RecordTypes' /\ HardwareTypes'
    BY <1>7, ServerFrame, RecordFrame, HardwareFrame
    DEF NextReload, serverVars, recordVars, hwVars
  <2>3. ThreadTypes'
    <3>1. CASE queue[t] = <<>>
      BY <1>7, <3>1 DEF NextReload, ThreadTypes, Steps
    <3>2. CASE queue[t] # <<>>
      <4>1. devices[keyOf[Head(queue[t])]] \in 0..MaxRegs
        BY <2>1, <3>2 DEF ServerTypes, RecordTypes
      <4>2. rd' \in [Threads -> 0..MaxRegs] /\ queue' \in [Threads -> Seq(Regs)]
        BY <1>7, <2>1, <3>2, <4>1 DEF NextReload, ThreadTypes
      <4>3. pc' \in [Threads -> Steps]
        <5>1. pc' = pc \/ pc' = [pc EXCEPT ![t] = "lock"]
          BY <1>7, <3>2 DEF NextReload
        <5>2. QED
          BY <5>1 DEF ThreadTypes, Steps
      <4>4. QED
        BY <1>7, <4>2, <4>3 DEF NextReload, ThreadTypes
    <3>3. QED
      BY <3>1, <3>2
  <2>4. Alone(t)
    BY <1>7 DEF NextReload, Alone, ThreadTypes, localVars
  <2>5. LocalAt(t)'
    <3>1. CASE pc'[t] = "lock"
      <4>1. queue[t] # <<>> /\ rd'[t] = devices[keyOf[Head(queue[t])]] /\ rd'[t] # 0 /\ task'[t] = "reload"
        BY <1>7, <3>1 DEF NextReload, ThreadTypes
      <4>2. rd'[t] \in Regs
        BY <2>1, <4>1 DEF ServerTypes, RecordTypes
      <4>3. QED
        BY <3>1, <4>1, <4>2 DEF LocalAt, WithRecord, ReloadOnly
    <3>2. CASE pc'[t] \in {"return", "next"}
      BY <3>2 DEF LocalAt, WithRecord, ReloadOnly
    <3>3. QED
      BY <1>7, <3>1, <3>2 DEF NextReload, ThreadTypes
  <2>6. QED
    BY <2>1, <2>2, <2>3, <2>4, <2>5, LocalFrame DEF Goal
<1>8. ASSUME NEW t \in Threads, LockReload(t) PROVE Goal
  <2>1. ServerTypes' /\ HardwareTypes'
    BY <1>8, ServerFrame, HardwareFrame
    DEF LockReload, serverVars, recordVars, hwVars
  <2>2. RecordTypes'
    BY <1>8 DEF LockReload, RecordTypes, ServerTypes, ThreadTypes, LocalInv, LocalAt, WithRecord, ReloadOnly, serverVars, recordVars, deviceVars, hwVars
  <2>3. ThreadTypes'
    BY <1>8 DEF LockReload, ThreadTypes, Steps, Tasks, localVars
  <2>4. Alone(t)
    BY <1>8 DEF LockReload, Alone, ThreadTypes, localVars
  <2>5. LocalAt(t)'
    BY <1>8 DEF LockReload, ThreadTypes, LocalInv, LocalAt, WithRecord, ReloadOnly, localVars
  <2>6. QED
    BY <2>1, <2>2, <2>3, <2>4, <2>5, LocalFrame DEF Goal
<1>9. ASSUME NEW t \in Threads, Rebuild(t) PROVE Goal
  <2>1. ServerTypes' /\ RecordTypes'
    BY <1>9, ServerFrame, RecordFrame
    DEF Rebuild, serverVars, recordVars, hwVars
  <2>2. HardwareTypes'
    BY <1>9 DEF Rebuild, HardwareTypes, ThreadTypes, RecordTypes, LocalInv, LocalAt, WithRecord, ReloadOnly, serverVars, recordVars, deviceVars, hwVars
  <2>3. ThreadTypes'
    <3>1. pc' \in [Threads -> Steps]
      <4>1. pc' = [pc EXCEPT ![t] = "unlock"] \/ pc' = [pc EXCEPT ![t] = "take"]
        BY <1>9 DEF Rebuild
      <4>2. QED
        BY <4>1 DEF ThreadTypes, Steps
    <3>2. obj' \in [Threads -> Devs \union {NoDev}]
      BY <1>9 DEF Rebuild, ThreadTypes
    <3>3. QED
      BY <1>9, <3>1, <3>2 DEF Rebuild, ThreadTypes
  <2>4. Alone(t)
    BY <1>9 DEF Rebuild, Alone, ThreadTypes, localVars
  <2>5. LocalAt(t)'
    BY <1>9 DEF Rebuild, ThreadTypes, LocalInv, LocalAt, WithRecord, ReloadOnly, localVars
  <2>6. QED
    BY <2>1, <2>2, <2>3, <2>4, <2>5, LocalFrame DEF Goal
<1>10. ASSUME NEW t \in Threads, SwapItab(t) PROVE Goal
  <2>1. HardwareTypes'
    BY <1>10, HardwareFrame
    DEF SwapItab, serverVars, recordVars, hwVars
  <2>2. ServerTypes'
    BY <1>10 DEF SwapItab, ItabOf, ServerTypes, RecordTypes, LocalInv, LocalAt, WithRecord, ReloadOnly, serverVars, recordVars, deviceVars, hwVars
  <2>3. RecordTypes'
    BY <1>10 DEF SwapItab, ItabOf, RecordTypes, ServerTypes, ThreadTypes, LocalInv, LocalAt, WithRecord, ReloadOnly, serverVars, recordVars, deviceVars, hwVars
  <2>4. ThreadTypes'
    BY <1>10 DEF SwapItab, ItabOf, ThreadTypes, Steps, Tasks, localVars
  <2>5. Alone(t)
    BY <1>10 DEF SwapItab, Alone, ThreadTypes, localVars
  <2>6. LocalAt(t)'
    BY <1>10 DEF SwapItab, ItabOf, ThreadTypes, LocalInv, LocalAt, WithRecord, ReloadOnly, localVars
  <2>7. QED
    BY <2>1, <2>2, <2>3, <2>4, <2>5, <2>6, LocalFrame DEF Goal
<1>11. ASSUME NEW t \in Threads, SwapData(t) PROVE Goal
  <2>1. HardwareTypes'
    BY <1>11, HardwareFrame
    DEF SwapData, serverVars, recordVars, hwVars
  <2>2. ServerTypes'
    BY <1>11 DEF SwapData, ServerTypes, RecordTypes, LocalInv, LocalAt, WithRecord, ReloadOnly, serverVars, recordVars, deviceVars, hwVars
  <2>3. RecordTypes'
    BY <1>11, SMTT(60) DEF SwapData, RecordTypes, ServerTypes, ThreadTypes, LocalInv, LocalAt, WithRecord, ReloadOnly, serverVars, recordVars, deviceVars, hwVars
  <2>4. ThreadTypes'
    BY <1>11 DEF SwapData, ThreadTypes, Steps, Tasks, localVars
  <2>5. Alone(t)
    BY <1>11 DEF SwapData, Alone, ThreadTypes, localVars
  <2>6. LocalAt(t)'
    BY <1>11 DEF SwapData, ThreadTypes, LocalInv, LocalAt, WithRecord, ReloadOnly, localVars
  <2>7. QED
    BY <2>1, <2>2, <2>3, <2>4, <2>5, <2>6, LocalFrame DEF Goal
<1>12. ASSUME NEW t \in Threads, UnlockReload(t) PROVE Goal
  <2>1. ServerTypes' /\ HardwareTypes'
    BY <1>12, ServerFrame, HardwareFrame
    DEF UnlockReload, serverVars, recordVars, hwVars
  <2>2. RecordTypes'
    BY <1>12 DEF UnlockReload, RecordTypes, ServerTypes, ThreadTypes, LocalInv, LocalAt, WithRecord, ReloadOnly, serverVars, recordVars, deviceVars, hwVars
  <2>3. ThreadTypes'
    BY <1>12 DEF UnlockReload, ThreadTypes, Steps, Tasks, localVars
  <2>4. Alone(t)
    BY <1>12 DEF UnlockReload, Alone, ThreadTypes, localVars
  <2>5. LocalAt(t)'
    BY <1>12 DEF UnlockReload, ThreadTypes, LocalInv, LocalAt, WithRecord, ReloadOnly, localVars
  <2>6. QED
    BY <2>1, <2>2, <2>3, <2>4, <2>5, LocalFrame DEF Goal
<1>13. ASSUME NEW t \in Threads, LoadSettings(t) PROVE Goal
  <2>1. AfterLoad(task[t]) \in {"next", "return", "check"}
    BY AfterSteps DEF ThreadTypes, ServerTypes
  <2>2. ServerTypes' /\ RecordTypes' /\ HardwareTypes'
    BY <1>13, ServerFrame, RecordFrame, HardwareFrame
    DEF LoadSettings, serverVars, recordVars, hwVars
  <2>3. ThreadTypes'
    BY <1>13, <2>1, ZenonT(100) DEF LoadSettings, FormOf, ThreadTypes, RecordTypes, LocalInv, LocalAt, WithRecord, Steps, Tasks, localVars
  <2>4. Alone(t)
    BY <1>13 DEF LoadSettings, Alone, ThreadTypes, localVars
  <2>5. LocalAt(t)'
    BY <1>13, <2>1 DEF LoadSettings, FormOf, ThreadTypes, LocalInv, LocalAt, WithRecord, ReloadOnly, localVars
  <2>6. QED
    BY <2>1, <2>2, <2>3, <2>4, <2>5, LocalFrame DEF Goal
<1>14. ASSUME NEW t \in Threads, ApplySettings(t) PROVE Goal
  <2>1. AfterLoad(task[t]) \in {"next", "return", "check"}
    BY AfterSteps DEF ThreadTypes, ServerTypes
  <2>2. ServerTypes' /\ RecordTypes'
    BY <1>14, ServerFrame, RecordFrame
    DEF ApplySettings, serverVars, recordVars, hwVars
  <2>3. HardwareTypes'
    <3>1. settings' \in [Devs -> {"unread", "default", "saved"}]
      <4>1. PICK outcome \in {"saved", "default"} :
              settings' = [settings EXCEPT ![obj[t]] = IF @ = "saved" THEN @ ELSE outcome]
        BY <1>14 DEF ApplySettings
      <4>2. settings \in [Devs -> {"unread", "default", "saved"}]
        BY DEF HardwareTypes
      <4>3. QED
        BY <4>1, <4>2
    <3>2. QED
      BY <1>14, <3>1 DEF ApplySettings, HardwareTypes
  <2>4. ThreadTypes'
    BY <1>14, <2>1 DEF ApplySettings, ThreadTypes, Steps, Tasks, localVars
  <2>5. Alone(t)
    BY <1>14 DEF ApplySettings, Alone, ThreadTypes, localVars
  <2>6. LocalAt(t)'
    BY <1>14, <2>1 DEF ApplySettings, ThreadTypes, LocalInv, LocalAt, WithRecord, ReloadOnly, localVars
  <2>7. QED
    BY <2>1, <2>2, <2>3, <2>4, <2>5, <2>6, LocalFrame DEF Goal
<1>15. ASSUME NEW t \in Threads, CheckOpen(t) PROVE Goal
  <2>1. AfterOpen(task[t]) \in {"next", "return", "unlock"} /\ (AfterOpen(task[t]) = "unlock" => task[t] = "reload")
    BY AfterSteps DEF ThreadTypes, ServerTypes
  <2>2. ServerTypes' /\ RecordTypes' /\ HardwareTypes'
    BY <1>15, ServerFrame, RecordFrame, HardwareFrame
    DEF CheckOpen, serverVars, recordVars, hwVars
  <2>3. ThreadTypes'
    BY <1>15, <2>1, ZenonT(100) DEF CheckOpen, ThreadTypes, RecordTypes, LocalInv, LocalAt, WithRecord, Steps, Tasks, localVars
  <2>4. Alone(t)
    BY <1>15 DEF CheckOpen, Alone, ThreadTypes, localVars
  <2>5. LocalAt(t)'
    BY <1>15, <2>1 DEF CheckOpen, ThreadTypes, LocalInv, LocalAt, WithRecord, ReloadOnly, localVars
  <2>6. QED
    BY <2>1, <2>2, <2>3, <2>4, <2>5, LocalFrame DEF Goal
<1>16. ASSUME NEW t \in Threads, OpenFails(t) PROVE Goal
  <2>1. AfterOpen(task[t]) \in {"next", "return", "unlock"} /\ (AfterOpen(task[t]) = "unlock" => task[t] = "reload")
    BY AfterSteps DEF ThreadTypes, ServerTypes
  <2>2. ServerTypes' /\ RecordTypes' /\ HardwareTypes'
    BY <1>16, ServerFrame, RecordFrame, HardwareFrame
    DEF OpenFails, serverVars, recordVars, hwVars
  <2>3. ThreadTypes'
    BY <1>16, <2>1 DEF OpenFails, ThreadTypes, Steps, Tasks, localVars
  <2>4. Alone(t)
    BY <1>16 DEF OpenFails, Alone, ThreadTypes, localVars
  <2>5. LocalAt(t)'
    BY <1>16, <2>1 DEF OpenFails, ThreadTypes, LocalInv, LocalAt, WithRecord, ReloadOnly, localVars
  <2>6. QED
    BY <2>1, <2>2, <2>3, <2>4, <2>5, LocalFrame DEF Goal
<1>17. ASSUME NEW t \in Threads, OpenSucceeds(t) PROVE Goal
  <2>1. ServerTypes' /\ RecordTypes'
    BY <1>17, ServerFrame, RecordFrame
    DEF OpenSucceeds, serverVars, recordVars, hwVars
  <2>2. HardwareTypes'
    BY <1>17 DEF OpenSucceeds, HardwareTypes, ThreadTypes, RecordTypes, LocalInv, LocalAt, WithRecord, ReloadOnly, serverVars, recordVars, deviceVars, hwVars
  <2>3. ThreadTypes'
    BY <1>17 DEF OpenSucceeds, ThreadTypes, HardwareTypes, Steps, Tasks, localVars
  <2>4. Alone(t)
    BY <1>17 DEF OpenSucceeds, Alone, ThreadTypes, localVars
  <2>5. LocalAt(t)'
    BY <1>17 DEF OpenSucceeds, ThreadTypes, LocalInv, LocalAt, WithRecord, ReloadOnly, localVars
  <2>6. QED
    BY <2>1, <2>2, <2>3, <2>4, <2>5, LocalFrame DEF Goal
<1>18. ASSUME NEW t \in Threads, StoreHardware(t) PROVE Goal
  <2>1. AfterOpen(task[t]) \in {"next", "return", "unlock"} /\ (AfterOpen(task[t]) = "unlock" => task[t] = "reload")
    BY AfterSteps DEF ThreadTypes, ServerTypes
  <2>2. ServerTypes' /\ HardwareTypes'
    BY <1>18, ServerFrame, HardwareFrame
    DEF StoreHardware, serverVars, recordVars, hwVars
  <2>3. RecordTypes'
    BY <1>18, <2>1 DEF StoreHardware, RecordTypes, ServerTypes, ThreadTypes, LocalInv, LocalAt, WithRecord, ReloadOnly, serverVars, recordVars, deviceVars, hwVars
  <2>4. ThreadTypes'
    BY <1>18, <2>1 DEF StoreHardware, ThreadTypes, Steps, Tasks, localVars
  <2>5. Alone(t)
    BY <1>18 DEF StoreHardware, Alone, ThreadTypes, localVars
  <2>6. LocalAt(t)'
    BY <1>18, <2>1 DEF StoreHardware, ThreadTypes, LocalInv, LocalAt, WithRecord, ReloadOnly, localVars
  <2>7. QED
    BY <2>1, <2>2, <2>3, <2>4, <2>5, <2>6, LocalFrame DEF Goal
<1>19. ASSUME NEW t \in Threads, TakeHardware(t) PROVE Goal
  <2>1. AfterClose(task[t]) \in {"next", "return", "swap"} /\ (AfterClose(task[t]) = "swap" => task[t] = "reload")
    BY AfterSteps DEF ThreadTypes, ServerTypes
  <2>2. ServerTypes' /\ HardwareTypes'
    BY <1>19, ServerFrame, HardwareFrame
    DEF TakeHardware, serverVars, recordVars, hwVars
  <2>3. RecordTypes'
    <3>1. hw' = [hw EXCEPT ![rd[t]] = 0] /\ UNCHANGED <<made, keyOf, deviceVars, reloader, reloadMu>>
      BY <1>19 DEF TakeHardware
    <3>2. hw' \in [Regs -> 0..MaxSessions]
      <4>1. hw \in [Regs -> 0..MaxSessions] /\ 0 \in 0..MaxSessions
        BY DEF RecordTypes
      <4>2. QED
        BY <3>1, <4>1
    <3>3. QED
      BY <3>1, <3>2 DEF RecordTypes, deviceVars
  <2>4. ThreadTypes'
    BY <1>19, <2>1 DEF TakeHardware, ThreadTypes, RecordTypes, LocalInv, LocalAt, WithRecord, Steps, Tasks, localVars
  <2>5. Alone(t)
    BY <1>19 DEF TakeHardware, Alone, ThreadTypes, localVars
  <2>6. LocalAt(t)'
    BY <1>19, <2>1 DEF TakeHardware, ThreadTypes, LocalInv, LocalAt, WithRecord, ReloadOnly, localVars
  <2>7. QED
    BY <2>1, <2>2, <2>3, <2>4, <2>5, <2>6, LocalFrame DEF Goal
<1>20. ASSUME NEW t \in Threads, CancelHardware(t) PROVE Goal
  <2>1. ServerTypes' /\ RecordTypes'
    BY <1>20, ServerFrame, RecordFrame
    DEF CancelHardware, serverVars, recordVars, hwVars
  <2>2. HardwareTypes'
    BY <1>20, ZenonT(100) DEF CancelHardware, HardwareTypes, ThreadTypes, RecordTypes, LocalInv, LocalAt, WithRecord, ReloadOnly, serverVars, recordVars, deviceVars, hwVars
  <2>3. ThreadTypes'
    BY <1>20 DEF CancelHardware, ThreadTypes, Steps, Tasks, localVars
  <2>4. Alone(t)
    BY <1>20 DEF CancelHardware, Alone, ThreadTypes, localVars
  <2>5. LocalAt(t)'
    BY <1>20 DEF CancelHardware, ThreadTypes, LocalInv, LocalAt, WithRecord, ReloadOnly, localVars
  <2>6. QED
    BY <2>1, <2>2, <2>3, <2>4, <2>5, LocalFrame DEF Goal
<1>21. ASSUME NEW t \in Threads, CloseHardware(t) PROVE Goal
  <2>1. AfterClose(task[t]) \in {"next", "return", "swap"} /\ (AfterClose(task[t]) = "swap" => task[t] = "reload")
    BY AfterSteps DEF ThreadTypes, ServerTypes
  <2>2. ServerTypes' /\ RecordTypes'
    BY <1>21, ServerFrame, RecordFrame
    DEF CloseHardware, serverVars, recordVars, hwVars
  <2>3. HardwareTypes'
    BY <1>21, <2>1, ZenonT(100) DEF CloseHardware, HardwareTypes, ThreadTypes, RecordTypes, LocalInv, LocalAt, WithRecord, ReloadOnly, serverVars, recordVars, deviceVars, hwVars
  <2>4. ThreadTypes'
    BY <1>21, <2>1 DEF CloseHardware, ThreadTypes, Steps, Tasks, localVars
  <2>5. Alone(t)
    BY <1>21 DEF CloseHardware, Alone, ThreadTypes, localVars
  <2>6. LocalAt(t)'
    BY <1>21, <2>1 DEF CloseHardware, ThreadTypes, LocalInv, LocalAt, WithRecord, ReloadOnly, localVars
  <2>7. QED
    BY <2>1, <2>2, <2>3, <2>4, <2>5, <2>6, LocalFrame DEF Goal
<1>22. ASSUME NEW t \in Threads, Return(t) PROVE Goal
  <2>1. ServerTypes' /\ RecordTypes' /\ HardwareTypes'
    BY <1>22, ServerFrame, RecordFrame, HardwareFrame
    DEF Return, serverVars, recordVars, hwVars
  <2>2. ThreadTypes'
    BY <1>22 DEF Return, NoHandle, ThreadTypes, Steps, Tasks, localVars
  <2>3. Alone(t)
    BY <1>22 DEF Return, Alone, ThreadTypes, localVars
  <2>4. LocalAt(t)'
    BY <1>22 DEF Return, NoHandle, ThreadTypes, LocalInv, LocalAt, WithRecord, ReloadOnly, localVars
  <2>5. QED
    BY <2>1, <2>2, <2>3, <2>4, LocalFrame DEF Goal
<1>23. ASSUME NEW t \in Threads, Start(t) PROVE Goal
  <2>1. RecordTypes' /\ HardwareTypes'
    BY <1>23, RecordFrame, HardwareFrame
    DEF Start, serverVars, recordVars, hwVars
  <2>2. ServerTypes'
    BY <1>23 DEF Start, ServerTypes, RecordTypes, LocalInv, LocalAt, WithRecord, ReloadOnly, serverVars, recordVars, deviceVars, hwVars
  <2>3. ThreadTypes'
    BY <1>23 DEF Start, ThreadTypes, Steps, Tasks, localVars
  <2>4. Alone(t)
    BY <1>23 DEF Start, Alone, ThreadTypes, localVars
  <2>5. LocalAt(t)'
    BY <1>23 DEF Start, ThreadTypes, LocalInv, LocalAt, WithRecord, ReloadOnly, localVars
  <2>6. QED
    BY <2>1, <2>2, <2>3, <2>4, <2>5, LocalFrame DEF Goal
<1>24. ASSUME NEW t \in Threads, Snapshot(t) PROVE Goal
  <2>1. order \in Seq(Regs) /\ Reverse(order) \in Seq(Regs)
    BY ReverseType DEF ThreadTypes, ServerTypes
  <2>2. ServerTypes' /\ RecordTypes' /\ HardwareTypes'
    BY <1>24, ServerFrame, RecordFrame, HardwareFrame
    DEF Snapshot, serverVars, recordVars, hwVars
  <2>3. ThreadTypes'
    BY <1>24, <2>1 DEF Snapshot, ThreadTypes, ServerTypes, Steps, Tasks, localVars
  <2>4. Alone(t)
    BY <1>24 DEF Snapshot, Alone, ThreadTypes, localVars
  <2>5. LocalAt(t)'
    BY <1>24, <2>1 DEF Snapshot, ThreadTypes, LocalInv, LocalAt, WithRecord, ReloadOnly, localVars
  <2>6. QED
    BY <2>1, <2>2, <2>3, <2>4, <2>5, LocalFrame DEF Goal
<1>25. ASSUME NEW t \in Threads, NextRecord(t) PROVE Goal
  <2>1. queue[t] # <<>> => Head(queue[t]) \in Regs /\ Tail(queue[t]) \in Seq(Regs)
    BY HeadTailProperties, ElementOfSeq, LenProperties DEF ThreadTypes, ServerTypes
  <2>2. ServerTypes' /\ RecordTypes' /\ HardwareTypes'
    BY <1>25, ServerFrame, RecordFrame, HardwareFrame
    DEF NextRecord, serverVars, recordVars, hwVars
  <2>3. ThreadTypes'
    BY <1>25, <2>1 DEF NextRecord, ThreadTypes, Steps, Tasks, localVars
  <2>4. Alone(t)
    BY <1>25 DEF NextRecord, Alone, ThreadTypes, localVars
  <2>5. LocalAt(t)'
    BY <1>25, <2>1 DEF NextRecord, ThreadTypes, LocalInv, LocalAt, WithRecord, ReloadOnly, localVars
  <2>6. QED
    BY <2>1, <2>2, <2>3, <2>4, <2>5, LocalFrame DEF Goal
<1>26. ASSUME NEW t \in Threads, LoopDone(t) PROVE Goal
  <2>1. ServerTypes' /\ RecordTypes' /\ HardwareTypes'
    BY <1>26, ServerFrame, RecordFrame, HardwareFrame
    DEF LoopDone, serverVars, recordVars, hwVars
  <2>2. ThreadTypes'
    BY <1>26 DEF LoopDone, ThreadTypes, Steps, Tasks, localVars
  <2>3. Alone(t)
    BY <1>26 DEF LoopDone, Alone, ThreadTypes, localVars
  <2>4. LocalAt(t)'
    BY <1>26 DEF LoopDone, ThreadTypes, LocalInv, LocalAt, WithRecord, ReloadOnly, localVars
  <2>5. QED
    BY <2>1, <2>2, <2>3, <2>4, LocalFrame DEF Goal
<1>27. ASSUME NEW t \in Threads, Bind(t) PROVE Goal
  <2>1. RecordTypes' /\ HardwareTypes'
    BY <1>27, RecordFrame, HardwareFrame
    DEF Bind, serverVars, recordVars, hwVars
  <2>2. ServerTypes'
    BY <1>27 DEF Bind, ServerTypes, RecordTypes, LocalInv, LocalAt, WithRecord, ReloadOnly, serverVars, recordVars, deviceVars, hwVars
  <2>3. ThreadTypes'
    BY <1>27 DEF Bind, ThreadTypes, Steps, Tasks, localVars
  <2>4. Alone(t)
    BY <1>27 DEF Bind, Alone, ThreadTypes, localVars
  <2>5. LocalAt(t)'
    BY <1>27 DEF Bind, ThreadTypes, LocalInv, LocalAt, WithRecord, ReloadOnly, localVars
  <2>6. QED
    BY <2>1, <2>2, <2>3, <2>4, <2>5, LocalFrame DEF Goal
<1>28. ASSUME NEW t \in Threads, StopServing(t) PROVE Goal
  <2>1. RecordTypes' /\ HardwareTypes'
    BY <1>28, RecordFrame, HardwareFrame
    DEF StopServing, serverVars, recordVars, hwVars
  <2>2. ServerTypes'
    BY <1>28 DEF StopServing, ServerTypes, RecordTypes, LocalInv, LocalAt, WithRecord, ReloadOnly, serverVars, recordVars, deviceVars, hwVars
  <2>3. ThreadTypes'
    BY <1>28 DEF StopServing, ThreadTypes, Steps, Tasks, localVars
  <2>4. Alone(t)
    BY <1>28 DEF StopServing, Alone, ThreadTypes, localVars
  <2>5. LocalAt(t)'
    BY <1>28 DEF StopServing, ThreadTypes, LocalInv, LocalAt, WithRecord, ReloadOnly, localVars
  <2>6. QED
    BY <2>1, <2>2, <2>3, <2>4, <2>5, LocalFrame DEF Goal
<1>29. ASSUME NEW t \in Threads, Drained(t) PROVE Goal
  <2>1. ServerTypes' /\ RecordTypes' /\ HardwareTypes'
    BY <1>29, ServerFrame, RecordFrame, HardwareFrame
    DEF Drained, serverVars, recordVars, hwVars
  <2>2. ThreadTypes'
    BY <1>29 DEF Drained, ThreadTypes, Steps, Tasks, localVars
  <2>3. Alone(t)
    BY <1>29 DEF Drained, Alone, ThreadTypes, localVars
  <2>4. LocalAt(t)'
    BY <1>29 DEF Drained, ThreadTypes, LocalInv, LocalAt, WithRecord, ReloadOnly, localVars
  <2>5. QED
    BY <2>1, <2>2, <2>3, <2>4, LocalFrame DEF Goal
<1>30. ASSUME NEW t \in Threads, NEW k \in Keys, Request(t, k) PROVE Goal
  <2>1. ServerTypes' /\ RecordTypes' /\ HardwareTypes'
    BY <1>30, ServerFrame, RecordFrame, HardwareFrame
    DEF Request, serverVars, recordVars, hwVars
  <2>2. ThreadTypes'
    BY <1>30 DEF Request, ThreadTypes, ServerTypes, Steps, Tasks, localVars
  <2>3. Alone(t)
    BY <1>30 DEF Request, Alone, ThreadTypes, localVars
  <2>4. LocalAt(t)'
    BY <1>30 DEF Request, ThreadTypes, ServerTypes, LocalInv, LocalAt, WithRecord, ReloadOnly, localVars
  <2>5. QED
    BY <2>1, <2>2, <2>3, <2>4, LocalFrame DEF Goal
<1>31. ASSUME NEW t \in Threads, ReadItab(t) PROVE Goal
  <2>1. ServerTypes' /\ RecordTypes' /\ HardwareTypes'
    BY <1>31, ServerFrame, RecordFrame, HardwareFrame
    DEF ReadItab, serverVars, recordVars, hwVars
  <2>2. ThreadTypes'
    <3>1. pc[t] = "readItab" /\ rd[t] \in Regs
      BY <1>31 DEF ReadItab, LocalInv, LocalAt, WithRecord
    <3>2. itab[rd[t]] \in Types \union {NoDev}
      BY <3>1 DEF RecordTypes
    <3>3. handle' \in [Threads -> [itab : Types \union {NoDev}, data : Devs \union {NoDev}]]
      BY <1>31, <3>2 DEF ReadItab, ThreadTypes
    <3>4. pc' \in [Threads -> Steps]
      BY <1>31 DEF ReadItab, ThreadTypes, Steps
    <3>5. QED
      BY <1>31, <3>3, <3>4 DEF ReadItab, ThreadTypes
  <2>3. Alone(t)
    BY <1>31 DEF ReadItab, Alone, ThreadTypes, localVars
  <2>4. LocalAt(t)'
    BY <1>31 DEF ReadItab, ThreadTypes, LocalInv, LocalAt, WithRecord, ReloadOnly, localVars
  <2>5. QED
    BY <2>1, <2>2, <2>3, <2>4, LocalFrame DEF Goal
<1>32. ASSUME NEW t \in Threads, ReadData(t) PROVE Goal
  <2>1. ServerTypes' /\ RecordTypes' /\ HardwareTypes'
    BY <1>32, ServerFrame, RecordFrame, HardwareFrame
    DEF ReadData, serverVars, recordVars, hwVars
  <2>2. ThreadTypes'
    <3>1. pc[t] = "readData" /\ rd[t] \in Regs
      BY <1>32 DEF ReadData, LocalInv, LocalAt, WithRecord
    <3>2. data[rd[t]] \in Devs \union {NoDev}
      BY <3>1 DEF RecordTypes
    <3>3. handle' \in [Threads -> [itab : Types \union {NoDev}, data : Devs \union {NoDev}]]
      BY <1>32, <3>2 DEF ReadData, ThreadTypes
    <3>4. pc' \in [Threads -> Steps]
      BY <1>32 DEF ReadData, ThreadTypes, Steps
    <3>5. QED
      BY <1>32, <3>3, <3>4 DEF ReadData, ThreadTypes
  <2>3. Alone(t)
    BY <1>32 DEF ReadData, Alone, ThreadTypes, localVars
  <2>4. LocalAt(t)'
    BY <1>32 DEF ReadData, ThreadTypes, LocalInv, LocalAt, WithRecord, ReloadOnly, localVars
  <2>5. QED
    BY <2>1, <2>2, <2>3, <2>4, LocalFrame DEF Goal
<1>33. ASSUME NEW t \in Threads, Respond(t) PROVE Goal
  <2>1. ServerTypes' /\ RecordTypes' /\ HardwareTypes'
    BY <1>33, ServerFrame, RecordFrame, HardwareFrame
    DEF Respond, serverVars, recordVars, hwVars
  <2>2. ThreadTypes'
    BY <1>33 DEF Respond, ThreadTypes, Steps, Tasks, localVars
  <2>3. Alone(t)
    BY <1>33 DEF Respond, Alone, ThreadTypes, localVars
  <2>4. LocalAt(t)'
    BY <1>33 DEF Respond, ThreadTypes, LocalInv, LocalAt, WithRecord, ReloadOnly, localVars
  <2>5. QED
    BY <2>1, <2>2, <2>3, <2>4, LocalFrame DEF Goal
<1>34. CASE CancelRun
  <2>1. sess' \in [Sessions -> [reg : 0..MaxRegs, dev : Devs \union {NoDev},
                               st : {"none", "open", "cancelled", "closed"}, run : BOOLEAN]]
    BY <1>34 DEF CancelRun, HardwareTypes
  <2>2. QED
    BY <1>34, <2>1 DEF CancelRun, Goal, serverVars, recordVars, hwVars, localVars, ServerTypes, RecordTypes, HardwareTypes, ThreadTypes, LocalInv, LocalAt
<1>37. ASSUME NEW s \in Sessions, CancelCaller(s) PROVE Goal
  <2>1. HardwareTypes'
    BY <1>37 DEF CancelCaller, HardwareTypes
  <2>2. QED
    BY <1>37, <2>1 DEF CancelCaller, Goal, serverVars, recordVars, hwVars, localVars, ServerTypes, RecordTypes, HardwareTypes, ThreadTypes, LocalInv, LocalAt
<1>35. CASE UNCHANGED vars
  BY <1>35 DEF vars, Goal, serverVars, recordVars, hwVars, localVars, ServerTypes, RecordTypes, HardwareTypes, ThreadTypes, LocalInv, LocalAt
<1>36. QED
  BY <1>1, <1>2, <1>3, <1>4, <1>5, <1>6, <1>7, <1>8, <1>9, <1>10, <1>11, <1>12, <1>13, <1>14, <1>15, <1>16, <1>17, <1>18, <1>19, <1>20, <1>21, <1>22, <1>23, <1>24, <1>25, <1>26, <1>27, <1>28, <1>29, <1>30, <1>31, <1>32, <1>33, <1>34, <1>35, <1>37
  DEF Next, HostCall, Continue, RunStep, Answer, Threads, Goal

\* The variables keep their types in every execution of the server, whatever
\* its host and its clients do.
THEOREM TypeCorrect == Spec => []TypeOK
<1>1. Init => TypeInv
  BY InitTypeInv
<1>2. TypeInv /\ [Next]_vars => TypeInv'
  BY NextTypeInv
<1>3. TypeInv => TypeOK
  BY DEF TypeInv
<1>4. QED
  BY <1>1, <1>2, <1>3, PTL DEF Spec

\* Steps that end contexts and do nothing else: what is open stays so.
ContextsEnd == CancelRun \/ \E s \in Sessions : CancelCaller(s)

\* All that they change is the state of a session's context, and Run's.
LEMMA ContextsEndOnly ==
  ASSUME TypeInv, ContextsEnd
  PROVE  /\ UNCHANGED <<devices, order, mu, recordVars, used, settings, opens, listening, pc, localVars>>
         /\ \A z \in Sessions : /\ sess'[z].reg = sess[z].reg /\ sess'[z].dev = sess[z].dev
                                /\ Open(z)' = Open(z)
<1>1. sess \in [Sessions -> [reg : 0..MaxRegs, dev : Devs \union {NoDev},
                            st : {"none", "open", "cancelled", "closed"}, run : BOOLEAN]]
  BY DEF TypeInv, TypeOK, HardwareTypes
<1>2. CASE CancelRun
  BY <1>1, <1>2 DEF CancelRun, Open
<1>3. ASSUME NEW s \in Sessions, CancelCaller(s)
      PROVE  /\ UNCHANGED <<devices, order, mu, recordVars, used, settings, opens, listening, pc, localVars>>
             /\ \A z \in Sessions : /\ sess'[z].reg = sess[z].reg /\ sess'[z].dev = sess[z].dev
                                    /\ Open(z)' = Open(z)
  BY <1>1, <1>3 DEF CancelCaller, Open, serverVars
<1>4. QED
  BY <1>2, <1>3 DEF ContextsEnd

-----------------------------------------------------------------------------
(* Sessions *)

\* The steps at which a goroutine holds a session.
Holding == {"store", "cancel", "close"}

\* Before Run there is no context to derive from.
ContextInv ==
  /\ \A t \in Threads : pc[t] = "start" => t = Runner /\ runCtx = "unset"
  /\ \A t \in Threads : base[t] => runCtx # "unset"
  /\ \A s \in Sessions : sess[s].run => runCtx # "unset"

\* No step leads to the start of Run.
LEMMA NeverStartsAgain ==
  ASSUME TypeInv, [Next]_vars, NEW u \in Threads, pc'[u] = "start" PROVE pc[u] = "start"
<1> USE DEF Goto, Move
<1>t. pc \in [Threads -> Steps] /\ task \in [Threads -> Tasks]
  BY DEF TypeInv, TypeOK, ThreadTypes
<1>a. \A t \in Threads : AfterLoad(task[t]) # "start" /\ AfterOpen(task[t]) # "start" /\ AfterClose(task[t]) # "start"
  BY DEF AfterLoad, AfterOpen, AfterClose
<1>1. CASE UNCHANGED pc
  BY <1>1
<1>2. ASSUME NEW t \in Threads, HostCall(t) PROVE pc[u] = "start"
  BY <1>2, <1>t DEF HostCall, Unregister, SetReloader, RegisterConfigurable, Reload, Register, ReloadAll
<1>3. ASSUME NEW t \in Threads, Continue(t) PROVE pc[u] = "start"
  BY <1>3, <1>t, <1>a DEF Continue, NextReload, LockReload, Rebuild, SwapItab, SwapData, UnlockReload,
     LoadSettings, ApplySettings, CheckOpen, OpenFails, OpenSucceeds, StoreHardware, TakeHardware,
     CancelHardware, CloseHardware, Return
<1>4. ASSUME NEW t \in Threads, RunStep(t) PROVE pc[u] = "start"
  BY <1>4, <1>t DEF RunStep, Start, Snapshot, NextRecord, LoopDone, Bind, Drained
<1>5. ASSUME NEW t \in Threads, NEW k \in Keys, Reload(t, k) \/ Request(t, k) PROVE pc[u] = "start"
  BY <1>5, <1>t DEF Reload, Request
<1>6. ASSUME NEW t \in Threads, Answer(t) \/ StopServing(t) PROVE pc[u] = "start"
  BY <1>6, <1>t DEF Answer, ReadItab, ReadData, Respond, StopServing
<1>7. QED
  BY <1>1, <1>2, <1>3, <1>4, <1>5, <1>6 DEF Next, Threads, CancelRun, CancelCaller, vars

\* Run's context is there from Start on, whatever it comes to later.
LEMMA NextContextInv == TypeInv /\ ContextInv /\ [Next]_vars => ContextInv'
<1> SUFFICES ASSUME TypeInv, ContextInv, [Next]_vars PROVE ContextInv'
  OBVIOUS
<1> USE BootIsARegistration DEF Goto, Move
<1>t. /\ pc \in [Threads -> Steps] /\ base \in [Threads -> BOOLEAN] /\ opens \in Nat
      /\ sess \in [Sessions -> [reg : 0..MaxRegs, dev : Devs \union {NoDev},
                                st : {"none", "open", "cancelled", "closed"}, run : BOOLEAN]]
  BY DEF TypeInv, TypeOK, ThreadTypes, HardwareTypes
<1>s. \A u \in Threads : pc'[u] = "start" => pc[u] = "start"
  BY NeverStartsAgain
<1>1. CASE Start(Runner)
  <2>1. runCtx' = "live" /\ UNCHANGED <<base, sess>> /\ pc' = [pc EXCEPT ![Runner] = "snapshot"]
    BY <1>1 DEF Start, hwVars
  <2>2. \A u \in Threads : pc'[u] # "start"
    BY <1>s, <1>t, <2>1 DEF ContextInv
  <2>3. QED
    BY <2>1, <2>2 DEF ContextInv
<1>2. CASE CancelRun
  <2>1. runCtx = "live" /\ runCtx' = "cancelled" /\ UNCHANGED <<base, pc>>
    BY <1>2 DEF CancelRun, localVars
  <2>2. QED
    BY <2>1 DEF ContextInv
<1>3. ASSUME NEW t \in Threads, CheckOpen(t) PROVE ContextInv'
  <2>1. UNCHANGED <<runCtx, sess>> /\ (base' = base \/ base' = [base EXCEPT ![t] = runCtx # "unset"])
    BY <1>3 DEF CheckOpen, serverVars, hwVars
  <2>2. QED
    BY <1>s, <1>t, <2>1 DEF ContextInv
<1>4. ASSUME NEW t \in Threads, OpenFails(t) PROVE ContextInv'
  <2>1. UNCHANGED <<runCtx, sess>> /\ base' = [base EXCEPT ![t] = FALSE]
    BY <1>4 DEF OpenFails, serverVars, hwVars
  <2>2. QED
    BY <1>s, <1>t, <2>1 DEF ContextInv
<1>5. ASSUME NEW t \in Threads, OpenSucceeds(t) PROVE ContextInv'
  <2>1. UNCHANGED runCtx /\ base' = [base EXCEPT ![t] = FALSE]
    BY <1>5 DEF OpenSucceeds, serverVars
  <2>2. \A s \in Sessions : sess'[s].run => sess[s].run \/ base[t]
    BY <1>5, <1>t DEF OpenSucceeds
  <2>3. QED
    BY <1>s, <1>t, <2>1, <2>2 DEF ContextInv
<1>6. CASE UNCHANGED <<runCtx, base>> /\ \A s \in Sessions : sess'[s].run = sess[s].run
  BY <1>6, <1>s DEF ContextInv
<1>7. ASSUME NEW t \in Threads, HostCall(t) PROVE UNCHANGED <<runCtx, base, sess>>
  BY <1>7 DEF HostCall, Unregister, SetReloader, RegisterConfigurable, Reload, Register, ReloadAll,
     serverVars, hwVars, localVars
<1>8. ASSUME NEW t \in Threads, Continue(t), ~CheckOpen(t), ~OpenFails(t), ~OpenSucceeds(t)
      PROVE  UNCHANGED <<runCtx, base>> /\ \A s \in Sessions : sess'[s].run = sess[s].run
  <2>1. CASE CancelHardware(t)
    BY <1>t, <2>1 DEF CancelHardware, serverVars, localVars
  <2>2. CASE CloseHardware(t)
    BY <1>t, <2>2 DEF CloseHardware, serverVars
  <2>3. QED
    BY <1>8, <2>1, <2>2 DEF Continue, NextReload, LockReload, Rebuild, SwapItab, SwapData, UnlockReload,
       LoadSettings, ApplySettings, StoreHardware, TakeHardware, Return, serverVars, hwVars, localVars
<1>9. ASSUME NEW t \in Threads, RunStep(t), ~Start(t) PROVE UNCHANGED <<runCtx, base, sess>>
  BY <1>9 DEF RunStep, Snapshot, NextRecord, LoopDone, Bind, Drained, serverVars, hwVars, localVars
<1>10. ASSUME NEW t \in Threads, NEW k \in Keys, Reload(t, k) \/ Request(t, k) PROVE UNCHANGED <<runCtx, base, sess>>
  BY <1>10 DEF Reload, Request, serverVars, hwVars, localVars
<1>11. ASSUME NEW t \in Threads, Answer(t) \/ StopServing(t) PROVE UNCHANGED <<runCtx, base, sess>>
  BY <1>11 DEF Answer, ReadItab, ReadData, Respond, StopServing, serverVars, hwVars, localVars
<1>12. ASSUME NEW s \in Sessions, CancelCaller(s)
       PROVE  UNCHANGED <<runCtx, base>> /\ \A z \in Sessions : sess'[z].run = sess[z].run
  BY <1>12, <1>t DEF CancelCaller, serverVars, localVars
<1>13. CASE UNCHANGED vars
  BY <1>6, <1>13 DEF vars, serverVars, hwVars, localVars
<1>14. QED
  BY <1>1, <1>2, <1>3, <1>4, <1>5, <1>6, <1>7, <1>8, <1>9, <1>10, <1>11, <1>12, <1>13 DEF Next, Threads

\* Not closed, and while Run's context lives not cancelled by it either.
Regulated(s) == Open(s) /\ (sess[s].run /\ runCtx = "live" => sess[s].st = "open")

\* A goroutine holds a session exactly at those steps, and the session is in
\* the state the next step needs; a record holds an open one.
SessionInv ==
  /\ \A s \in Sessions : s > opens => sess[s].st = "none"
  /\ ContextInv
  /\ RegulatedWhileRunning
  /\ \A t \in Threads :
       /\ pc[t] \in Holding <=> tok[t] # 0
       /\ tok[t] <= opens
       /\ pc[t] = "store" => Regulated(tok[t])
       /\ pc[t] = "cancel" => Open(tok[t])
       /\ pc[t] = "close" => sess[tok[t]].st = "cancelled"
  /\ SessionHeldOnce

\* Nothing is open before Run.
LEMMA InitSessionInv == Init => SessionInv
BY BootIsARegistration, ThreadsDiffer DEF Init, SessionInv, ContextInv, RegulatedWhileRunning, SessionHeldOnce, Holding

\* A step of t that neither has nor takes a session.
EmptyHanded(t) ==
  /\ \A u \in Threads \ {t} : pc'[u] = pc[u]
  /\ pc[t] \notin Holding /\ pc'[t] \notin Holding
  /\ UNCHANGED <<hw, sess, opens, tok, runCtx>>

\* Such a step keeps SessionInv.
LEMMA SessionFrame ==
  ASSUME SessionInv, ContextInv', NEW t \in Threads, EmptyHanded(t) PROVE SessionInv'
<1> USE DEF EmptyHanded, Holding
<1>1. RegulatedWhileRunning' /\ SessionHeldOnce'
  BY DEF SessionInv, RegulatedWhileRunning, SessionHeldOnce, Open
<1>2. \A u \in Threads : u # t => pc'[u] = pc[u]
  OBVIOUS
<1>3. QED
  BY <1>1, <1>2 DEF SessionInv, Regulated, Open

\* Every step keeps SessionInv; five of them move a session.
LEMMA NextSessionInv == TypeInv /\ SessionInv /\ [Next]_vars => SessionInv'
<1> SUFFICES ASSUME TypeInv, SessionInv, [Next]_vars PROVE SessionInv'
  OBVIOUS
<1> USE BootIsARegistration DEF Goto, Move
<1>c. ContextInv'
  BY NextContextInv DEF SessionInv
<1>t. /\ pc \in [Threads -> Steps] /\ task \in [Threads -> Tasks] /\ rd \in [Threads -> 0..MaxRegs]
      /\ tok \in [Threads -> 0..MaxSessions] /\ hw \in [Regs -> 0..MaxSessions]
      /\ opens \in 0..MaxSessions /\ DOMAIN sess = Sessions
      /\ sess \in [Sessions -> [reg : 0..MaxRegs, dev : Devs \union {NoDev},
                                st : {"none", "open", "cancelled", "closed"}, run : BOOLEAN]]
  BY DEF TypeInv, TypeOK, ThreadTypes, RecordTypes, HardwareTypes
<1>a. \A t \in Threads :
        /\ AfterLoad(task[t]) \notin Holding /\ AfterOpen(task[t]) \notin Holding
        /\ AfterClose(task[t]) \notin Holding
  <2>1. ASSUME NEW t \in Threads
        PROVE  /\ AfterLoad(task[t]) \in {"next", "return", "check"}
               /\ AfterOpen(task[t]) \in {"next", "return", "unlock"}
               /\ AfterClose(task[t]) \in {"next", "return", "swap"}
    <3>1. task[t] \in Tasks
      BY <1>t
    <3>2. QED
      BY <3>1, AfterSteps
  <2>2. QED
    BY <2>1 DEF Holding
<1>r. \A t \in Threads : pc[t] \in {"store", "take"} => rd[t] \in Regs
  BY DEF TypeInv, LocalInv, LocalAt, WithRecord
<1>1. ASSUME NEW t \in Threads, NEW k \in Keys, Unregister(t, k) PROVE SessionInv'
  BY <1>1, <1>t, <1>a, <1>c, SessionFrame
  DEF Unregister, EmptyHanded, Holding, serverVars, recordVars, hwVars, localVars
<1>2. ASSUME NEW t \in Threads, NEW k \in Keys, SetReloader(t, k) PROVE SessionInv'
  BY <1>2, <1>t, <1>a, <1>c, SessionFrame
  DEF SetReloader, EmptyHanded, Holding, serverVars, recordVars, hwVars, localVars
<1>3. ASSUME NEW t \in Threads, NEW k \in Keys, RegisterConfigurable(t, k) PROVE SessionInv'
  BY <1>3, <1>t, <1>a, <1>c, SessionFrame
  DEF RegisterConfigurable, EmptyHanded, Holding, serverVars, recordVars, hwVars, localVars
<1>4. ASSUME NEW t \in Threads, NEW k \in Keys, Reload(t, k) PROVE SessionInv'
  BY <1>4, <1>t, <1>a, <1>c, SessionFrame
  DEF Reload, EmptyHanded, Holding, serverVars, recordVars, hwVars, localVars
<1>5. ASSUME NEW t \in Threads, NEW k \in Keys, NEW d \in Devs, Register(t, k, d) PROVE SessionInv'
  BY <1>5, <1>t, <1>a, <1>c, SessionFrame
  DEF Register, EmptyHanded, Holding, serverVars, recordVars, hwVars, localVars
<1>6. ASSUME NEW t \in Threads, ReloadAll(t) PROVE SessionInv'
  BY <1>6, <1>t, <1>a, <1>c, SessionFrame
  DEF ReloadAll, EmptyHanded, Holding, serverVars, recordVars, hwVars, localVars
<1>7. ASSUME NEW t \in Threads, NextReload(t) PROVE SessionInv'
  BY <1>7, <1>t, <1>a, <1>c, SessionFrame
  DEF NextReload, EmptyHanded, Holding, serverVars, recordVars, hwVars, localVars
<1>8. ASSUME NEW t \in Threads, LockReload(t) PROVE SessionInv'
  BY <1>8, <1>t, <1>a, <1>c, SessionFrame
  DEF LockReload, EmptyHanded, Holding, serverVars, recordVars, hwVars, localVars
<1>9. ASSUME NEW t \in Threads, Rebuild(t) PROVE SessionInv'
  BY <1>9, <1>t, <1>a, <1>c, SessionFrame
  DEF Rebuild, EmptyHanded, Holding, serverVars, recordVars, hwVars, localVars
<1>10. ASSUME NEW t \in Threads, SwapItab(t) PROVE SessionInv'
  BY <1>10, <1>t, <1>a, <1>c, SessionFrame
  DEF SwapItab, EmptyHanded, Holding, serverVars, recordVars, hwVars, localVars
<1>11. ASSUME NEW t \in Threads, SwapData(t) PROVE SessionInv'
  BY <1>11, <1>t, <1>a, <1>c, SessionFrame
  DEF SwapData, EmptyHanded, Holding, serverVars, recordVars, hwVars, localVars
<1>12. ASSUME NEW t \in Threads, UnlockReload(t) PROVE SessionInv'
  BY <1>12, <1>t, <1>a, <1>c, SessionFrame
  DEF UnlockReload, EmptyHanded, Holding, serverVars, recordVars, hwVars, localVars
<1>13. ASSUME NEW t \in Threads, LoadSettings(t) PROVE SessionInv'
  BY <1>13, <1>t, <1>a, <1>c, SessionFrame
  DEF LoadSettings, EmptyHanded, Holding, serverVars, recordVars, hwVars, localVars
<1>14. ASSUME NEW t \in Threads, ApplySettings(t) PROVE SessionInv'
  BY <1>14, <1>t, <1>a, <1>c, SessionFrame
  DEF ApplySettings, EmptyHanded, Holding, serverVars, recordVars, hwVars, localVars
<1>15. ASSUME NEW t \in Threads, CheckOpen(t) PROVE SessionInv'
  BY <1>15, <1>t, <1>a, <1>c, SessionFrame
  DEF CheckOpen, EmptyHanded, Holding, serverVars, recordVars, hwVars, localVars
<1>16. ASSUME NEW t \in Threads, OpenFails(t) PROVE SessionInv'
  BY <1>16, <1>t, <1>a, <1>c, SessionFrame
  DEF OpenFails, EmptyHanded, Holding, serverVars, recordVars, hwVars, localVars
<1>17. ASSUME NEW t \in Threads, Return(t) PROVE SessionInv'
  BY <1>17, <1>t, <1>a, <1>c, SessionFrame
  DEF Return, EmptyHanded, Holding, serverVars, recordVars, hwVars, localVars
<1>18. ASSUME NEW t \in Threads, Start(t) PROVE SessionInv'
  <2>1. /\ runCtx = "unset" /\ \A s \in Sessions : sess[s].run = FALSE
        /\ UNCHANGED <<hw, sess, opens, tok>> /\ pc[t] \notin Holding
        /\ pc' = [pc EXCEPT ![t] = "snapshot"]
    BY <1>18, <1>t DEF Start, SessionInv, ContextInv, Holding, recordVars, hwVars
  <2>2. \A s \in Sessions : Open(s)' = Open(s) /\ (Open(s) => Regulated(s)')
    BY <2>1 DEF Open, Regulated
  <2>3. RegulatedWhileRunning'
    BY <1>t, <2>1, <2>2 DEF SessionInv, RegulatedWhileRunning, Regulated, Open
  <2>4. \A u \in Threads : pc'[u] \in Holding => pc'[u] = pc[u]
    BY <1>t, <2>1 DEF Holding
  <2>5. \A u \in Threads : pc[u] \in Holding => tok[u] \in Sessions
    BY <1>t DEF SessionInv
  <2>6. QED
    BY <1>c, <1>t, <2>1, <2>2, <2>3, <2>4, <2>5 DEF SessionInv, SessionHeldOnce, Regulated, Holding
<1>19. ASSUME NEW t \in Threads, Snapshot(t) PROVE SessionInv'
  BY <1>19, <1>t, <1>a, <1>c, SessionFrame
  DEF Snapshot, EmptyHanded, Holding, serverVars, recordVars, hwVars, localVars
<1>20. ASSUME NEW t \in Threads, NextRecord(t) PROVE SessionInv'
  BY <1>20, <1>t, <1>a, <1>c, SessionFrame
  DEF NextRecord, EmptyHanded, Holding, serverVars, recordVars, hwVars, localVars
<1>21. ASSUME NEW t \in Threads, LoopDone(t) PROVE SessionInv'
  BY <1>21, <1>t, <1>a, <1>c, SessionFrame
  DEF LoopDone, EmptyHanded, Holding, serverVars, recordVars, hwVars, localVars
<1>22. ASSUME NEW t \in Threads, Bind(t) PROVE SessionInv'
  BY <1>22, <1>t, <1>a, <1>c, SessionFrame
  DEF Bind, EmptyHanded, Holding, serverVars, recordVars, hwVars, localVars
<1>23. ASSUME NEW t \in Threads, StopServing(t) PROVE SessionInv'
  BY <1>23, <1>t, <1>a, <1>c, SessionFrame
  DEF StopServing, EmptyHanded, Holding, serverVars, recordVars, hwVars, localVars
<1>24. ASSUME NEW t \in Threads, Drained(t) PROVE SessionInv'
  BY <1>24, <1>t, <1>a, <1>c, SessionFrame
  DEF Drained, EmptyHanded, Holding, serverVars, recordVars, hwVars, localVars
<1>25. ASSUME NEW t \in Threads, NEW k \in Keys, Request(t, k) PROVE SessionInv'
  BY <1>25, <1>t, <1>a, <1>c, SessionFrame
  DEF Request, EmptyHanded, Holding, serverVars, recordVars, hwVars, localVars
<1>26. ASSUME NEW t \in Threads, ReadItab(t) PROVE SessionInv'
  BY <1>26, <1>t, <1>a, <1>c, SessionFrame
  DEF ReadItab, EmptyHanded, Holding, serverVars, recordVars, hwVars, localVars
<1>27. ASSUME NEW t \in Threads, ReadData(t) PROVE SessionInv'
  BY <1>27, <1>t, <1>a, <1>c, SessionFrame
  DEF ReadData, EmptyHanded, Holding, serverVars, recordVars, hwVars, localVars
<1>28. ASSUME NEW t \in Threads, Respond(t) PROVE SessionInv'
  BY <1>28, <1>t, <1>a, <1>c, SessionFrame
  DEF Respond, EmptyHanded, Holding, serverVars, recordVars, hwVars, localVars
<1>40. ASSUME NEW t \in Threads, OpenSucceeds(t) PROVE SessionInv'
  <2> DEFINE s == opens + 1
  <2>1. s \in Sessions /\ opens' = s /\ hw' = hw /\ sess[s].st = "none"
    BY <1>40, <1>t DEF OpenSucceeds, recordVars, SessionInv
  <2>2. tok' = [tok EXCEPT ![t] = s] /\ pc' = [pc EXCEPT ![t] = "store"] /\ pc[t] = "open"
    BY <1>40 DEF OpenSucceeds
  <2>3. /\ UNCHANGED runCtx /\ sess'[s].st \in {"open", "cancelled"}
        /\ sess'[s].run /\ runCtx = "live" => sess'[s].st = "open"
        /\ \A z \in Sessions : z # s => sess'[z] = sess[z]
    BY <1>40, <1>t, <2>1 DEF OpenSucceeds, serverVars
  <2>4. \A r \in Regs : hw[r] # s
    <3>1. opens \in Nat
      BY <1>t DEF TypeOK, HardwareTypes
    <3>2. ASSUME NEW r \in Regs PROVE hw[r] # s
      <4>1. hw[r] = 0 \/ hw[r] <= opens
        BY DEF SessionInv, RegulatedWhileRunning
      <4>2. QED
        BY <3>1, <4>1
    <3>3. QED
      BY <3>2
  <2>5. \A u \in Threads : tok[u] # s /\ tok[u] <= opens
    BY <1>t, <2>1 DEF SessionInv
  <2>6. RegulatedWhileRunning'
    BY <1>t, <2>1, <2>3, <2>4, SMTT(60) DEF SessionInv, RegulatedWhileRunning, Open
  <2>7. SessionHeldOnce'
    BY <1>t, <2>1, <2>2, <2>4, <2>5 DEF SessionInv, SessionHeldOnce
  <2>8. \A z \in Sessions : z > opens' => sess'[z].st = "none"
    <3>1. \A z \in Sessions : z > opens => sess[z].st = "none"
      BY DEF SessionInv
    <3>2. \A z \in Sessions : z > opens' => z > opens /\ z # s
      BY <1>t, <2>1
    <3>3. QED
      BY <3>1, <3>2, <2>3
  <2>9. ASSUME NEW u \in Threads
        PROVE  /\ pc'[u] \in Holding <=> tok'[u] # 0
               /\ tok'[u] <= opens'
               /\ pc'[u] = "store" => Regulated(tok[u])'
               /\ pc'[u] = "cancel" => Open(tok[u])'
               /\ pc'[u] = "close" => sess'[tok'[u]].st = "cancelled"
    <3>1. CASE u = t
      <4>1. pc'[u] = "store" /\ tok'[u] = s
        BY <3>1, <1>t, <2>2
      <4>2. QED
        BY <4>1, <1>t, <2>1, <2>3 DEF Holding, Regulated, Open
    <3>2. CASE u # t
      BY <3>2, <1>t, <2>1, <2>2, <2>3, <2>5, SMTT(60) DEF SessionInv, Holding, Regulated, Open
    <3>3. QED
      BY <3>1, <3>2
  <2>10. QED
    BY <1>c, <2>6, <2>7, <2>8, <2>9 DEF SessionInv
<1>41. ASSUME NEW t \in Threads, StoreHardware(t) PROVE SessionInv'
  <2>1. rd[t] \in Regs /\ tok[t] # 0 /\ tok[t] <= opens /\ Regulated(tok[t])
    BY <1>41, <1>r, <1>t DEF StoreHardware, SessionInv, Holding
  <2>2. hw' = [hw EXCEPT ![rd[t]] = tok[t]] /\ tok' = [tok EXCEPT ![t] = 0]
        /\ pc[t] = "store" /\ pc' = [pc EXCEPT ![t] = AfterOpen(task[t])] /\ UNCHANGED <<sess, opens, runCtx>>
    BY <1>41 DEF StoreHardware, hwVars, serverVars
  <2>3. RegulatedWhileRunning'
    BY <1>t, <2>1, <2>2 DEF SessionInv, RegulatedWhileRunning, Regulated, Open
  <2>4. SessionHeldOnce'
    BY <1>t, <2>1, <2>2 DEF SessionInv, SessionHeldOnce
  <2>5. ASSUME NEW u \in Threads
        PROVE  /\ pc'[u] \in Holding <=> tok'[u] # 0
               /\ tok'[u] <= opens'
               /\ pc'[u] = "store" => Regulated(tok[u])'
               /\ pc'[u] = "cancel" => Open(tok[u])'
               /\ pc'[u] = "close" => sess'[tok'[u]].st = "cancelled"
    <3>1. CASE u = t
      BY <3>1, <1>t, <1>a, <2>2 DEF Holding
    <3>2. CASE u # t
      BY <3>2, <1>t, <2>2 DEF SessionInv, Regulated, Open
    <3>3. QED
      BY <3>1, <3>2
  <2>6. QED
    BY <1>c, <2>2, <2>3, <2>4, <2>5 DEF SessionInv
<1>42. ASSUME NEW t \in Threads, TakeHardware(t) PROVE SessionInv'
  <2>1. rd[t] \in Regs /\ tok[t] = 0
    BY <1>42, <1>r, <1>t DEF TakeHardware, SessionInv, Holding
  <2>2. hw' = [hw EXCEPT ![rd[t]] = 0] /\ tok' = [tok EXCEPT ![t] = hw[rd[t]]]
        /\ pc' = [pc EXCEPT ![t] = IF hw[rd[t]] = 0 THEN AfterClose(task[t]) ELSE "cancel"]
        /\ UNCHANGED <<sess, opens, runCtx>>
    BY <1>42 DEF TakeHardware, hwVars, serverVars
  <2>3. RegulatedWhileRunning'
    BY <1>t, <2>1, <2>2 DEF SessionInv, RegulatedWhileRunning, Regulated, Open
  <2>4. SessionHeldOnce'
    BY <1>t, <2>1, <2>2 DEF SessionInv, SessionHeldOnce
  <2>5. ASSUME NEW u \in Threads
        PROVE  /\ pc'[u] \in Holding <=> tok'[u] # 0
               /\ tok'[u] <= opens'
               /\ pc'[u] = "store" => Regulated(tok[u])'
               /\ pc'[u] = "cancel" => Open(tok[u])'
               /\ pc'[u] = "close" => sess'[tok'[u]].st = "cancelled"
    <3>1. CASE u = t
      BY <3>1, <1>t, <1>a, <2>1, <2>2 DEF SessionInv, RegulatedWhileRunning, Holding, Open
    <3>2. CASE u # t
      BY <3>2, <1>t, <2>2 DEF SessionInv, Regulated, Open
    <3>3. QED
      BY <3>1, <3>2
  <2>6. QED
    BY <1>c, <2>2, <2>3, <2>4, <2>5 DEF SessionInv
<1>43. ASSUME NEW t \in Threads, CancelHardware(t) PROVE SessionInv'
  <2>1. /\ tok[t] \in Sessions /\ Open(tok[t]) /\ pc[t] = "cancel" /\ pc' = [pc EXCEPT ![t] = "close"]
        /\ sess' = [sess EXCEPT ![tok[t]].st = "cancelled"] /\ UNCHANGED <<hw, opens, tok, runCtx>>
    BY <1>43, <1>t DEF CancelHardware, SessionInv, Holding, serverVars, recordVars, localVars
  <2>2. \A z \in Sessions : z # tok[t] => sess'[z] = sess[z]
    BY <1>t, <2>1
  <2>3. (\A r \in Regs : hw[r] # tok[t]) /\ (\A u \in Threads : u # t => tok[u] # tok[t]) /\ tok[t] <= opens
    BY <1>t, <2>1 DEF SessionInv, SessionHeldOnce
  <2>4. QED
    BY <1>c, <1>t, <2>1, <2>2, <2>3 DEF SessionInv, RegulatedWhileRunning, SessionHeldOnce, Holding, Regulated, Open
<1>44. ASSUME NEW t \in Threads, CloseHardware(t) PROVE SessionInv'
  <2>1. /\ tok[t] \in Sessions /\ pc[t] = "close" /\ pc' = [pc EXCEPT ![t] = AfterClose(task[t])]
        /\ sess' = [sess EXCEPT ![tok[t]].st = "closed"] /\ tok' = [tok EXCEPT ![t] = 0]
        /\ UNCHANGED <<hw, opens, runCtx>>
    BY <1>44, <1>t DEF CloseHardware, SessionInv, Holding, serverVars, recordVars
  <2>2. \A z \in Sessions : z # tok[t] => sess'[z] = sess[z]
    BY <1>t, <2>1
  <2>3. (\A r \in Regs : hw[r] # tok[t]) /\ (\A u \in Threads : u # t => tok[u] # tok[t]) /\ tok[t] <= opens
    BY <1>t, <2>1 DEF SessionInv, SessionHeldOnce
  <2>4. QED
    BY <1>a, <1>c, <1>t, <2>1, <2>2, <2>3 DEF SessionInv, RegulatedWhileRunning, SessionHeldOnce, Holding, Regulated, Open
<1>45. CASE CancelRun
  <2>1. runCtx' = "cancelled" /\ UNCHANGED <<hw, opens, tok, pc>>
    BY <1>45 DEF CancelRun, recordVars, localVars
  <2>2. \A z \in Sessions : (sess'[z].st = "none") = (sess[z].st = "none") /\ Open(z)' = Open(z)
                           /\ (sess[z].st = "cancelled" => sess'[z].st = "cancelled")
    BY <1>45, <1>t DEF CancelRun, Open
  <2>3. QED
    BY <1>c, <1>t, <2>1, <2>2 DEF SessionInv, RegulatedWhileRunning, SessionHeldOnce, Holding, Regulated
<1>48. ASSUME NEW s \in Sessions, CancelCaller(s) PROVE SessionInv'
  <2>1. sess[s].st = "open" /\ ~sess[s].run /\ UNCHANGED <<hw, opens, tok, pc, runCtx>>
    BY <1>48 DEF CancelCaller, serverVars, recordVars, localVars
  <2>2. sess'[s].st = "cancelled" /\ sess'[s].run = sess[s].run /\ \A z \in Sessions : z # s => sess'[z] = sess[z]
    BY <1>48, <1>t DEF CancelCaller
  <2>3. \A z \in Sessions : (sess'[z].st = "none") = (sess[z].st = "none") /\ Open(z)' = Open(z)
                           /\ (sess[z].st = "cancelled" => sess'[z].st = "cancelled")
                           /\ (Regulated(z) => Regulated(z)')
    BY <2>1, <2>2 DEF Open, Regulated
  <2>4. RegulatedWhileRunning'
    <3>1. SUFFICES ASSUME NEW r \in Regs, hw[r] # 0
                   PROVE  hw[r] <= opens /\ Open(hw[r])' /\ Regulated(hw[r])'
      BY <2>1 DEF RegulatedWhileRunning, Regulated
    <3>2. hw[r] <= opens /\ Open(hw[r]) /\ Regulated(hw[r])
      BY <1>c, <3>1 DEF SessionInv, RegulatedWhileRunning, Regulated
    <3>3. hw[r] \in Sessions
      BY <1>t, <3>1
    <3>4. QED
      BY <2>1, <2>3, <3>2, <3>3 DEF Open, Regulated
  <2>5. ASSUME NEW u \in Threads
        PROVE  /\ pc[u] = "store" => Regulated(tok[u])'
               /\ pc[u] = "cancel" => Open(tok[u])'
               /\ pc[u] = "close" => sess'[tok[u]].st = "cancelled"
    <3>1. CASE pc[u] \in Holding
      <4>1. tok[u] \in Sessions /\ tok'[u] = tok[u]
        BY <1>t, <2>1, <3>1 DEF SessionInv
      <4>2. QED
        BY <2>1, <2>3, <4>1 DEF SessionInv, Regulated, Open
    <3>2. QED
      BY <3>1 DEF Holding
  <2>6. SessionHeldOnce' /\ \A z \in Sessions : z > opens' => sess'[z].st = "none"
    BY <2>1, <2>3 DEF SessionInv, SessionHeldOnce
  <2>7. QED
    BY <1>c, <2>1, <2>4, <2>5, <2>6 DEF SessionInv, Regulated, Open
<1>46. CASE UNCHANGED vars
  BY <1>46 DEF vars, SessionInv, ContextInv, RegulatedWhileRunning, SessionHeldOnce, serverVars, recordVars, hwVars, localVars, Regulated, Open
<1>47. QED
  BY <1>1, <1>2, <1>3, <1>4, <1>5, <1>6, <1>7, <1>8, <1>9, <1>10, <1>11, <1>12, <1>13, <1>14, <1>15, <1>16, <1>17, <1>18, <1>19, <1>20, <1>21, <1>22, <1>23, <1>24, <1>25, <1>26, <1>27, <1>28, <1>40, <1>41, <1>42, <1>43, <1>44, <1>45, <1>46, <1>48
  DEF Next, HostCall, Continue, RunStep, Answer, Threads

\* No two callers ever hold one session: Unregister, Reload and the end of
\* Run cannot close the same hardware twice.
THEOREM HeldOnce == Spec => []SessionHeldOnce
<1>1. Init => TypeInv /\ SessionInv
  BY InitTypeInv, InitSessionInv
<1>2. TypeInv /\ SessionInv /\ [Next]_vars => (TypeInv /\ SessionInv)'
  BY NextTypeInv, NextSessionInv
<1>3. SessionInv => SessionHeldOnce
  BY DEF SessionInv
<1>4. QED
  BY <1>1, <1>2, <1>3, PTL DEF Spec

\* In every execution, for any goroutines, devices and addresses: what a record
\* holds is open, and while Run's context lives no call that takes, cancels or
\* replaces hardware ends the context of hardware that a record still shows.
THEOREM RecordedRegulated == Spec => []RegulatedWhileRunning
<1>1. Init => TypeInv /\ SessionInv
  BY InitTypeInv, InitSessionInv
<1>2. TypeInv /\ SessionInv /\ [Next]_vars => (TypeInv /\ SessionInv)'
  BY NextTypeInv, NextSessionInv
<1>3. SessionInv => RegulatedWhileRunning
  BY DEF SessionInv
<1>4. QED
  BY <1>1, <1>2, <1>3, PTL DEF Spec

=============================================================================
