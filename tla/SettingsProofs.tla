---------------------------- MODULE SettingsProofs ----------------------------
(* What holds of Settings for all forms, files, entries and handlers: its    *)
(* types and locks, that pinned values stay out of the file, that the file   *)
(* holds only what was accepted, and that the form in use is what the file   *)
(* and the host's entry make it.                                             *)
EXTENDS Settings, TLAPS

Adapters == [raw : Entries, current : Configs]
Steps == {"idle", "apply", "persist", "save", "write", "rebuild", "swap", "load", "loaded"}

\* What a handler has in hand at each step.
InHand ==
  /\ adapters \in Seq(Adapters)
  /\ pc \in [Handlers -> Steps] /\ form \in [Handlers -> Nat]
  /\ sub \in [Handlers -> Contents] /\ data \in [Handlers -> Contents]
  /\ \A h \in Handlers :
       /\ pc[h] \in {"apply", "persist", "swap", "load", "loaded"} => form[h] \in DOMAIN adapters
       /\ pc[h] = "apply" => sub[h] \in Submissions
       /\ IF pc[h] = "idle" THEN form[h] = 0 ELSE Up

TypeInv == TypeOK /\ InHand

-----------------------------------------------------------------------------
(* The adapter *)

\* A file or an adapter holds values; a new adapter is one.
LEMMA AdapterTyped ==
  ASSUME NEW e \in Entries
  PROVE  Adapter(e) \in Adapters /\ Adapter(e).raw = e
BY Forms DEF Adapter, Adapters, Configs, Contents

\* What is merged into an adapter is a configuration.
LEMMA MergedTyped ==
  ASSUME NEW a \in Adapters, NEW v \in Contents, NEW ks \in SUBSET Fields,
         \A k \in ks : v[k] # Unset
  PROVE  Merged(a, v, ks) \in Configs
BY Forms DEF Merged, Adapters, Configs, Contents

\* The file's contents, if it parses.
LEMMA ParsedTyped ==
  ASSUME file \in Contents \union {Torn}
  PROVE  Parsed \in Contents
BY Forms DEF Parsed, Contents, Empty

\* Loading keeps an adapter an adapter, of the same entry.
LEMMA LoadedTyped ==
  ASSUME NEW a \in Adapters, NEW c \in Contents
  PROVE  Loaded(a, c) \in Adapters /\ Loaded(a, c).raw = a.raw
<1> DEFINE ks == {k \in Fields \ Locked(a) : c[k] # Unset}
<1>1. Merged(a, c, ks) \in Configs
  BY MergedTyped
<1>2. Loaded(a, c) \in {a, [a EXCEPT !.current = Merged(a, c, ks)]}
  BY DEF Loaded
<1> QED
  BY <1>1, <1>2 DEF Adapters

\* A sequence of adapters, one of them changed.
LEMMA AdaptersTyped ==
  ASSUME NEW s \in Seq(Adapters)
  PROVE  /\ DOMAIN s = 1..Len(s) /\ Len(s) \in Nat
         /\ \A i \in DOMAIN s : s[i] \in Adapters /\ AdapterOK(s[i])
<1>1. \A i \in DOMAIN s : s[i] \in Adapters
  OBVIOUS
<1> QED
  BY <1>1 DEF AdapterOK, Adapters

LEMMA AdaptersChanged ==
  ASSUME NEW s \in Seq(Adapters), NEW i \in DOMAIN s, NEW a \in Adapters
  PROVE  /\ [s EXCEPT ![i] = a] \in Seq(Adapters)
         /\ Len([s EXCEPT ![i] = a]) = Len(s)
         /\ DOMAIN [s EXCEPT ![i] = a] = DOMAIN s
<1> DEFINE z == [s EXCEPT ![i] = a]
<1>1. DOMAIN z = 1..Len(s) /\ Len(s) \in Nat
  BY AdaptersTyped
<1>2. \A j \in 1..Len(s) : z[j] \in Adapters
  BY AdaptersTyped
<1>3. z = [j \in 1..Len(s) |-> z[j]]
  BY <1>1
<1> QED
  BY <1>1, <1>2, <1>3, AdaptersTyped

-----------------------------------------------------------------------------
(* Types *)

\* Initially every handler is idle.
LEMMA TypeInit == Init => TypeInv
<1> SUFFICES ASSUME Init PROVE TypeInv
  OBVIOUS
<1>1. Empty \in Contents /\ adapters = <<>>
  BY DEF Init, Empty, Contents
<1>2. TypeOK
  BY <1>1, Forms DEF Init, TypeOK
<1>3. InHand
  BY <1>1 DEF Init, InHand, Steps
<1> QED
  BY <1>2, <1>3 DEF TypeInv

\* No action breaks the types or the locks.
LEMMA TypeNext == TypeInv /\ [Next]_vars => TypeInv'
<1> SUFFICES ASSUME TypeInv, [Next]_vars PROVE TypeInv'
  OBVIOUS
<1> USE Forms DEF TypeInv, TypeOK, InHand, Steps, Up
<1>0. Empty \in Contents /\ Submissions \subseteq Contents
  BY DEF Empty, Contents, Configs
<1>1. CASE Boot
  <2>1. Loaded(Adapter(entry), Parsed) \in Adapters
    BY AdapterTyped, ParsedTyped, LoadedTyped
  <2>2. adapters' \in Seq(Adapters) /\ Len(adapters') = 1 /\ serving' = 1
    BY <1>1, <2>1 DEF Boot
  <2>3. serving' \in DOMAIN adapters' /\ \A i \in DOMAIN adapters' : AdapterOK(adapters'[i])
    BY <2>2, AdaptersTyped
  <2>4. TypeOK'
    BY <1>1, <2>2, <2>3 DEF Boot, disk, calls
  <2>5. InHand'
    BY <1>1, <2>2 DEF Boot, disk, calls
  <2> QED BY <2>4, <2>5
<1>2. CASE Crash
  <2>1. adapters' = <<>> /\ adapters' \in Seq(Adapters)
    BY <1>2 DEF Crash
  <2> QED
    BY <1>0, <1>2, <2>1 DEF Crash, disk
<1>3. CASE EditConfig
  BY <1>3 DEF EditConfig, calls
<1>4. ASSUME NEW h \in Handlers, Submit(h) PROVE TypeInv'
  BY <1>0, <1>4 DEF Submit, Begins, Idle, Goto, disk
<1>5. ASSUME NEW h \in Handlers, ApplySettings(h) PROVE TypeInv'
  <2> DEFINE a == adapters[form[h]]
             ks == Fields \ Locked(a)
  <2>1. a \in Adapters /\ form[h] \in DOMAIN adapters
    BY <1>5 DEF ApplySettings
  <2>2. Merged(a, sub[h], ks) \in Configs
    <3>1. sub[h] \in Configs /\ sub[h] \in Contents
      BY <1>5 DEF ApplySettings
    <3>2. ks \in SUBSET Fields /\ \A k \in ks : sub[h][k] # Unset
      BY <3>1 DEF Configs
    <3> QED BY <2>1, <3>1, <3>2, MergedTyped
  <2>3. [a EXCEPT !.current = Merged(a, sub[h], ks)] \in Adapters
    BY <2>1, <2>2 DEF Adapters
  <2>4. /\ adapters' \in Seq(Adapters) /\ Len(adapters') = Len(adapters)
        /\ DOMAIN adapters' = DOMAIN adapters
    <3> DEFINE new == [a EXCEPT !.current = Merged(a, sub[h], ks)]
    <3>1. new \in Adapters /\ adapters' \in {adapters, [adapters EXCEPT ![form[h]] = new]}
      BY <1>5, <2>3 DEF ApplySettings
    <3>2. adapters \in Seq(Adapters)
      BY AdaptersTyped
    <3> HIDE DEF new, TypeInv, TypeOK, InHand
    <3>3. CASE adapters' = adapters
      BY <3>2, <3>3
    <3>4. CASE adapters' = [adapters EXCEPT ![form[h]] = new]
      BY <2>1, <3>1, <3>2, <3>4, AdaptersChanged
    <3> QED
      BY <3>1, <3>3, <3>4
  <2>5. \A i \in DOMAIN adapters' : AdapterOK(adapters'[i])
    BY <2>4, AdaptersTyped
  <2>6. TypeOK'
    BY <1>0, <1>5, <2>4, <2>5, ZenonT(100) DEF ApplySettings, Returns, Goto, disk
  <2>7. CASE Accepts(a, sub[h], ks)
    <3>1. pc[h] = "apply" /\ Goto(h, "persist") /\ UNCHANGED <<form, sub, data, serving>>
      BY <1>5, <2>7 DEF ApplySettings
    <3>2. InHand'
      BY <2>4, <3>1 DEF Goto
    <3> QED BY <2>6, <3>2
  <2>8. CASE ~Accepts(a, sub[h], ks)
    <3>1. pc[h] = "apply" /\ Returns(h) /\ UNCHANGED serving
      BY <1>5, <2>8 DEF ApplySettings
    <3>2. InHand'
      BY <1>0, <2>4, <3>1 DEF Returns, Goto
    <3> QED BY <2>6, <3>2
  <2> QED BY <2>7, <2>8
<1>6. ASSUME NEW h \in Handlers, Persist(h) PROVE TypeInv'
  <2>1. adapters[form[h]] \in Adapters
    BY <1>6 DEF Persist
  <2>2. PersistValues(adapters[form[h]]) \in Contents
    BY <2>1 DEF PersistValues, Adapters, Configs, Contents
  <2> QED
    BY <1>0, <1>6, <2>2 DEF Persist, Goto, disk
<1>7. ASSUME NEW h \in Handlers, Save(h) PROVE TypeInv'
  BY <1>7 DEF Save, Goto, disk
<1>8. ASSUME NEW h \in Handlers, Rename(h) PROVE TypeInv'
  BY <1>0, <1>8 DEF Rename, Ends, Returns, Goto
<1>9. ASSUME NEW h \in Handlers, SaveFails(h) PROVE TypeInv'
  BY <1>0, <1>9 DEF SaveFails, Ends, Returns, Goto, disk
<1>10. ASSUME NEW h \in Handlers, Reload(h) PROVE TypeInv'
  BY <1>10 DEF Reload, Begins, Idle, Goto, disk
<1>11. ASSUME NEW h \in Handlers, Rebuild(h) PROVE TypeInv'
  <2>1. CASE Returns(h) /\ reloading' = NoOne /\ UNCHANGED adapters
    BY <1>0, <1>11, <2>1 DEF Rebuild, Returns, Goto, disk
  <2>2. CASE Len(adapters) < MaxAdapters /\ adapters' = Append(adapters, Adapter(entry))
    <3>1. adapters' \in Seq(Adapters) /\ Len(adapters') = Len(adapters) + 1
      BY <2>2, AdapterTyped
    <3>2. \A i \in DOMAIN adapters' : AdapterOK(adapters'[i])
      BY <3>1, AdaptersTyped
    <3>3. /\ form' = [form EXCEPT ![h] = Len(adapters) + 1] /\ Goto(h, "swap")
          /\ UNCHANGED <<reloading, sub, data, entry, file, store, serving, alone, clean>>
      BY <1>11, <2>2, <3>1 DEF Rebuild, disk
    <3>4. pc[h] = "rebuild"
      BY <1>11 DEF Rebuild
    <3>5. InHand'
      BY <3>1, <3>3, <3>4 DEF Goto
    <3> QED
      BY <2>2, <3>1, <3>2, <3>3, <3>4, <3>5 DEF Goto
  <2> QED BY <1>11, <2>1, <2>2 DEF Rebuild
<1>12. ASSUME NEW h \in Handlers, Swap(h) PROVE TypeInv'
  BY <1>12 DEF Swap, Goto, disk
<1>13. ASSUME NEW h \in Handlers, Load(h) PROVE TypeInv'
  <2>1. Parsed \in Contents
    BY ParsedTyped
  <2> QED
    BY <1>13, <2>1 DEF Load, Goto, disk
<1>14. ASSUME NEW h \in Handlers, ApplyLoaded(h) PROVE TypeInv'
  <2>1. adapters[form[h]] \in Adapters /\ form[h] \in DOMAIN adapters
    BY <1>14 DEF ApplyLoaded
  <2>2. Loaded(adapters[form[h]], data[h]) \in Adapters
    BY <2>1, LoadedTyped
  <2>3. /\ adapters' \in Seq(Adapters) /\ Len(adapters') = Len(adapters)
        /\ DOMAIN adapters' = DOMAIN adapters
    BY <1>14, <2>1, <2>2, AdaptersChanged DEF ApplyLoaded
  <2>4. \A i \in DOMAIN adapters' : AdapterOK(adapters'[i])
    BY <2>3, AdaptersTyped
  <2>5. TypeOK'
    BY <1>0, <1>14, <2>3, <2>4 DEF ApplyLoaded, Ends, Returns, Goto, disk
  <2>6. InHand'
    BY <1>0, <1>14, <2>3 DEF ApplyLoaded, Ends, Returns, Goto, disk
  <2> QED BY <2>5, <2>6
<1>15. CASE UNCHANGED vars
  BY <1>15 DEF vars, disk, calls
<1> QED
  BY <1>1, <1>2, <1>3, <1>4, <1>5, <1>6, <1>7, <1>8, <1>9, <1>10, <1>11, <1>12, <1>13, <1>14, <1>15
     DEF Next

\* Types, and each lock is held exactly by the handler in its section.
THEOREM TypeCorrect == Spec => []TypeOK
<1>1. TypeInv => TypeOK
  BY DEF TypeInv
<1> QED
  BY <1>1, TypeInit, TypeNext, PTL DEF Spec

-----------------------------------------------------------------------------
(* Pinned values *)

\* No handler has a value in its hands that only the admin gives.
NoneInHand ==
  \A h \in Handlers, k \in Fields : sub[h][k] \notin AdminOnly(k) /\ data[h][k] \notin AdminOnly(k)

PinInv == PinsStayOut /\ NoneInHand

\* What is saved of an adapter whose foreign values are pinned has none.
LEMMA PersistDropsPins ==
  ASSUME NEW a \in Adapters,
         \A k \in Fields \ Pinned(a) : a.current[k] \notin AdminOnly(k)
  PROVE  \A k \in Fields : PersistValues(a)[k] \notin AdminOnly(k)
BY DEF PersistValues, AdminOnly

\* Nor is any merged into an adapter where there is none.
LEMMA LoadedStaysOut ==
  ASSUME NEW a \in Adapters, NEW c \in Contents,
         \A k \in Fields : c[k] \notin AdminOnly(k),
         \A k \in Fields \ Pinned(a) : a.current[k] \notin AdminOnly(k)
  PROVE  \A k \in Fields \ Pinned(Loaded(a, c)) : Loaded(a, c).current[k] \notin AdminOnly(k)
<1> DEFINE ks == {k \in Fields \ Locked(a) : c[k] # Unset}
           new == [a EXCEPT !.current = Merged(a, c, ks)]
<1>1. Loaded(a, c) \in {a, new}
  BY DEF Loaded
<1>2. new.raw = a.raw /\ new.current = Merged(a, c, ks)
  BY DEF Adapters
<1>3. \A k \in Fields \ Pinned(new) : new.current[k] \notin AdminOnly(k)
  BY <1>2 DEF Merged, Pinned
<1> QED
  BY <1>1, <1>3

\* A pin that no handler has in hand is not in the file either.
LEMMA PinInit == Init => PinInv
BY Forms DEF Init, PinInv, PinsStayOut, NoneInHand, AdminOnly, Empty

LEMMA PinNext == TypeInv /\ PinInv /\ [Next]_vars => PinInv'
<1> SUFFICES ASSUME TypeInv, PinInv, [Next]_vars PROVE PinInv'
  OBVIOUS
<1> USE Forms DEF PinInv, PinsStayOut, NoneInHand
<1>0. /\ \A k \in Fields : Empty[k] \notin AdminOnly(k)
      /\ \A v \in Submissions, k \in Fields : v[k] \notin AdminOnly(k)
      /\ \A k \in Fields : Parsed[k] \notin AdminOnly(k)
  BY DEF AdminOnly, Empty, Parsed
<1>01. /\ entry \in Entries /\ Parsed \in Contents /\ InHand
  BY ParsedTyped DEF TypeInv, TypeOK
<1>1. CASE Boot
  <2>1. Adapter(entry) \in Adapters
    BY <1>01, AdapterTyped
  <2>2. \A k \in Fields \ Pinned(Adapter(entry)) : Adapter(entry).current[k] \notin AdminOnly(k)
    BY DEF Adapter, Pinned, AdminOnly
  <2>3. \A k \in Fields \ Pinned(adapters'[1]) : adapters'[1].current[k] \notin AdminOnly(k)
    BY <1>0, <1>01, <1>1, <2>1, <2>2, LoadedStaysOut DEF Boot
  <2> QED
    BY <1>1, <2>3 DEF Boot, disk, calls
<1>2. CASE Crash
  BY <1>0, <1>2 DEF Crash, disk
<1>3. CASE EditConfig
  BY <1>3 DEF EditConfig, calls
<1>4. ASSUME NEW h \in Handlers, Submit(h) PROVE PinInv'
  BY <1>0, <1>01, <1>4 DEF Submit, disk, InHand
<1>5. ASSUME NEW h \in Handlers, ApplySettings(h) PROVE PinInv'
  <2> DEFINE a == adapters[form[h]]
             ks == Fields \ Locked(a)
             new == [a EXCEPT !.current = Merged(a, sub[h], ks)]
  <2>1. a \in Adapters /\ form[h] \in DOMAIN adapters
    BY <1>01, <1>5 DEF ApplySettings, InHand
  <2>2. new.raw = a.raw /\ new.current = Merged(a, sub[h], ks)
    BY <2>1 DEF Adapters
  <2>3. \A k \in Fields \ Pinned(new) : new.current[k] \notin AdminOnly(k)
    BY <2>1, <2>2 DEF Merged, Pinned
  <2>4. adapters' \in {adapters, [adapters EXCEPT ![form[h]] = new]}
    BY <1>5 DEF ApplySettings
  <2> HIDE DEF new
  <2>5. \A i \in DOMAIN adapters' : \A k \in Fields \ Pinned(adapters'[i]) :
          adapters'[i].current[k] \notin AdminOnly(k)
    BY <2>1, <2>3, <2>4
  <2> QED
    BY <1>0, <1>01, <1>5, <2>5 DEF ApplySettings, Returns, disk, InHand
<1>6. ASSUME NEW h \in Handlers, Persist(h) PROVE PinInv'
  <2>1. adapters[form[h]] \in Adapters /\ form[h] \in DOMAIN adapters
    BY <1>01, <1>6 DEF Persist, InHand
  <2>2. \A k \in Fields : PersistValues(adapters[form[h]])[k] \notin AdminOnly(k)
    BY <2>1, PersistDropsPins
  <2> QED
    BY <1>0, <1>01, <1>6, <2>2 DEF Persist, disk, InHand
<1>7. ASSUME NEW h \in Handlers, Save(h) PROVE PinInv'
  BY <1>7 DEF Save, disk
<1>8. ASSUME NEW h \in Handlers, Rename(h) PROVE PinInv'
  BY <1>0, <1>01, <1>8 DEF Rename, Ends, Returns, InHand
<1>9. ASSUME NEW h \in Handlers, SaveFails(h) PROVE PinInv'
  BY <1>0, <1>01, <1>9 DEF SaveFails, Ends, Returns, disk, InHand
<1>10. ASSUME NEW h \in Handlers, Reload(h) PROVE PinInv'
  BY <1>10 DEF Reload, disk
<1>11. ASSUME NEW h \in Handlers, Rebuild(h) PROVE PinInv'
  <2>1. adapters \in Seq(Adapters)
    BY <1>01 DEF InHand
  <2>2. \A k \in Fields \ Pinned(Adapter(entry)) : Adapter(entry).current[k] \notin AdminOnly(k)
    BY DEF Adapter, Pinned, AdminOnly
  <2>3. adapters' \in {adapters, Append(adapters, Adapter(entry))}
    BY <1>11 DEF Rebuild
  <2>4. \A i \in DOMAIN adapters' : \A k \in Fields \ Pinned(adapters'[i]) :
          adapters'[i].current[k] \notin AdminOnly(k)
    BY <2>1, <2>2, <2>3
  <2> QED
    BY <1>0, <1>01, <1>11, <2>4 DEF Rebuild, Returns, disk, InHand
<1>12. ASSUME NEW h \in Handlers, Swap(h) PROVE PinInv'
  BY <1>12 DEF Swap, disk
<1>13. ASSUME NEW h \in Handlers, Load(h) PROVE PinInv'
  BY <1>0, <1>01, <1>13 DEF Load, disk, InHand
<1>14. ASSUME NEW h \in Handlers, ApplyLoaded(h) PROVE PinInv'
  <2> DEFINE new == Loaded(adapters[form[h]], data[h])
  <2>1. adapters[form[h]] \in Adapters /\ form[h] \in DOMAIN adapters /\ data[h] \in Contents
    BY <1>01, <1>14 DEF ApplyLoaded, InHand
  <2>2. \A k \in Fields \ Pinned(new) : new.current[k] \notin AdminOnly(k)
    BY <2>1, LoadedStaysOut
  <2>3. adapters' = [adapters EXCEPT ![form[h]] = new]
    BY <1>14 DEF ApplyLoaded
  <2> HIDE DEF new
  <2>4. \A i \in DOMAIN adapters' : \A k \in Fields \ Pinned(adapters'[i]) :
          adapters'[i].current[k] \notin AdminOnly(k)
    BY <2>1, <2>2, <2>3
  <2> QED
    BY <1>0, <1>01, <1>14, <2>4 DEF ApplyLoaded, Ends, Returns, disk, InHand
<1>15. CASE UNCHANGED vars
  BY <1>15 DEF vars, disk, calls
<1> QED
  BY <1>1, <1>2, <1>3, <1>4, <1>5, <1>6, <1>7, <1>8, <1>9, <1>10, <1>11, <1>12, <1>13, <1>14, <1>15
     DEF Next

\* A value the host pinned is never saved and never resurfaces on the form.
THEOREM PinsNeverLeak == Spec => []PinsStayOut
<1>1. PinInv => PinsStayOut
  BY DEF PinInv
<1> QED
  BY <1>1, TypeInit, TypeNext, PinInit, PinNext, PTL DEF Spec

-----------------------------------------------------------------------------
(* What is saved *)

\* f, completed by some other values, is a configuration that is accepted.
PartOfAccepted(f) ==
  \E c \in Configs : Acceptable(c) /\ \A k \in Fields : f[k] # Unset => c[k] = f[k]

\* Between the device's acceptance and the file: the form holds an accepted
\* configuration, and then the handler a part of one.
AcceptInv ==
  /\ file # Torn /\ (file # Empty => PartOfAccepted(file))
  /\ \A h \in Handlers :
       /\ pc[h] = "persist" => Acceptable(adapters[form[h]].current)
       /\ pc[h] \in {"save", "write"} => PartOfAccepted(data[h])

\* Loading leaves an accepted configuration or puts another in its place.
LEMMA LoadedAccepted ==
  ASSUME NEW a \in Adapters, NEW c \in Contents, Acceptable(a.current)
  PROVE  Acceptable(Loaded(a, c).current)
<1> DEFINE ks == {k \in Fields \ Locked(a) : c[k] # Unset}
           new == [a EXCEPT !.current = Merged(a, c, ks)]
<1>1. new.current = Merged(a, c, ks)
  BY DEF Adapters
<1>2. CASE ks # {} /\ Accepts(a, c, ks)
  <2>1. Acceptable(Merged(a, c, ks))
    BY <1>2 DEF Accepts
  <2>2. Loaded(a, c) = new
    BY <1>2 DEF Loaded
  <2> HIDE DEF new
  <2> QED BY <1>1, <2>1, <2>2
<1>3. CASE ~(ks # {} /\ Accepts(a, c, ks))
  BY <1>3 DEF Loaded
<1> QED
  BY <1>2, <1>3

\* What is saved of an accepted configuration is a part of it.
LEMMA PersistIsPart ==
  ASSUME NEW a \in Adapters, Acceptable(a.current)
  PROVE  PartOfAccepted(PersistValues(a))
BY DEF PartOfAccepted, PersistValues, Adapters

\* A form changes from accepted to accepted, whoever else holds it.
LEMMA FormsStayAccepted ==
  ASSUME NEW h \in Handlers, NEW new \in Adapters,
         TypeInv, AcceptInv,
         form[h] \in DOMAIN adapters,
         adapters' = [adapters EXCEPT ![form[h]] = new],
         Acceptable(adapters[form[h]].current) => Acceptable(new.current)
  PROVE  \A u \in Handlers :
           pc[u] = "persist" => /\ form[u] \in DOMAIN adapters
                                /\ Acceptable(adapters'[form[u]].current)
<1> SUFFICES ASSUME NEW u \in Handlers, pc[u] = "persist"
    PROVE  form[u] \in DOMAIN adapters /\ Acceptable(adapters'[form[u]].current)
  OBVIOUS
<1>1. form[u] \in DOMAIN adapters /\ Acceptable(adapters[form[u]].current)
  BY DEF TypeInv, InHand, AcceptInv
<1>2. adapters'[form[u]] = IF form[u] = form[h] THEN new ELSE adapters[form[u]]
  BY <1>1 DEF TypeInv, InHand
<1> QED
  BY <1>1, <1>2

LEMMA AcceptInit == Init => AcceptInv
BY Forms DEF Init, AcceptInv, Empty, Contents

LEMMA AcceptNext == TypeInv /\ TypeInv' /\ AcceptInv /\ [Next]_vars => AcceptInv'
<1> SUFFICES ASSUME TypeInv, TypeInv', AcceptInv, [Next]_vars PROVE AcceptInv'
  OBVIOUS
<1>0. InHand /\ InHand' /\ Torn \notin Contents
  BY Forms DEF TypeInv
<1>1. CASE Boot
  <2>1. \A h \in Handlers : pc[h] = "idle"
    BY <1>0, <1>1 DEF Boot, InHand, Up
  <2> QED
    BY <1>1, <2>1 DEF AcceptInv, Boot, disk, calls
<1>2. CASE Crash
  BY <1>2 DEF AcceptInv, Crash, disk
<1>3. CASE EditConfig
  BY <1>3 DEF AcceptInv, EditConfig, calls
<1>4. ASSUME NEW h \in Handlers, Submit(h) PROVE AcceptInv'
  BY <1>0, <1>4 DEF AcceptInv, Submit, Goto, disk, InHand
<1>5. ASSUME NEW h \in Handlers, ApplySettings(h) PROVE AcceptInv'
  <2> DEFINE a == adapters[form[h]]
             ks == Fields \ Locked(a)
             new == [a EXCEPT !.current = Merged(a, sub[h], ks)]
  <2>1. a \in Adapters /\ form[h] \in DOMAIN adapters
    BY <1>0, <1>5 DEF ApplySettings, InHand
  <2>2. CASE Accepts(a, sub[h], ks)
    <3>1. new.current = Merged(a, sub[h], ks) /\ Acceptable(new.current)
      BY <2>1, <2>2 DEF Adapters, Accepts
    <3>2. /\ adapters' = [adapters EXCEPT ![form[h]] = new] /\ Goto(h, "persist")
          /\ UNCHANGED <<form, data, file>>
      BY <1>5, <2>2 DEF ApplySettings, disk
    <3>3. new \in Adapters
      <4>1. adapters'[form[h]] = new
        BY <2>1, <3>2
      <4>2. form[h] \in DOMAIN adapters'
        BY <2>1, <3>2
      <4>3. adapters' \in Seq(Adapters)
        BY <1>0 DEF InHand
      <4> HIDE DEF new
      <4> QED BY <4>1, <4>2, <4>3, AdaptersTyped
    <3> HIDE DEF new
    <3>4. \A u \in Handlers : pc[u] = "persist" => Acceptable(adapters'[form[u]].current)
      BY <2>1, <3>1, <3>2, <3>3, FormsStayAccepted
    <3>5. Acceptable(adapters'[form[h]].current)
      BY <2>1, <3>1, <3>2
    <3> QED
      BY <1>0, <3>2, <3>4, <3>5 DEF AcceptInv, Goto, InHand
  <2>3. CASE ~Accepts(a, sub[h], ks)
    <3>1. UNCHANGED <<adapters, file>> /\ Returns(h)
      BY <1>5, <2>3 DEF ApplySettings, disk
    <3> QED
      BY <1>0, <3>1 DEF AcceptInv, Returns, Goto, InHand
  <2> QED BY <2>2, <2>3
<1>6. ASSUME NEW h \in Handlers, Persist(h) PROVE AcceptInv'
  <2>1. adapters[form[h]] \in Adapters /\ Acceptable(adapters[form[h]].current)
    BY <1>0, <1>6 DEF Persist, InHand, AcceptInv
  <2>2. PartOfAccepted(PersistValues(adapters[form[h]]))
    BY <2>1, PersistIsPart
  <2> QED
    BY <1>0, <1>6, <2>2 DEF AcceptInv, Persist, Goto, disk, InHand
<1>7. ASSUME NEW h \in Handlers, Save(h) PROVE AcceptInv'
  BY <1>0, <1>7 DEF AcceptInv, Save, Goto, disk, InHand
<1>8. ASSUME NEW h \in Handlers, Rename(h) PROVE AcceptInv'
  <2>1. PartOfAccepted(data[h]) /\ data[h] # Torn
    BY <1>0, <1>8 DEF AcceptInv, Rename, InHand
  <2> QED
    BY <1>0, <1>8, <2>1 DEF AcceptInv, Rename, Ends, Returns, Goto, InHand
<1>9. ASSUME NEW h \in Handlers, SaveFails(h) PROVE AcceptInv'
  BY <1>0, <1>9 DEF AcceptInv, SaveFails, Ends, Returns, Goto, disk, InHand
<1>10. ASSUME NEW h \in Handlers, Reload(h) PROVE AcceptInv'
  BY <1>0, <1>10 DEF AcceptInv, Reload, Goto, disk, InHand
<1>11. ASSUME NEW h \in Handlers, Rebuild(h) PROVE AcceptInv'
  <2>1. CASE UNCHANGED adapters /\ Returns(h)
    BY <1>0, <1>11, <2>1 DEF AcceptInv, Rebuild, Returns, Goto, disk, InHand
  <2>2. CASE adapters' = Append(adapters, Adapter(entry)) /\ Goto(h, "swap")
             /\ form' = [form EXCEPT ![h] = Len(adapters) + 1] /\ UNCHANGED data
    <3>1. \A i \in DOMAIN adapters : adapters'[i] = adapters[i]
      BY <1>0, <2>2 DEF InHand
    <3>2. \A u \in Handlers \ {h} : pc'[u] = pc[u] /\ form'[u] = form[u] /\ data'[u] = data[u]
      BY <1>0, <2>2 DEF InHand, Goto
    <3>3. pc'[h] = "swap"
      BY <1>0, <2>2 DEF InHand, Goto
    <3> QED
      BY <1>0, <1>11, <3>1, <3>2, <3>3, SMTT(60) DEF AcceptInv, Rebuild, disk, InHand
  <2> QED BY <1>11, <2>1, <2>2 DEF Rebuild
<1>12. ASSUME NEW h \in Handlers, Swap(h) PROVE AcceptInv'
  BY <1>0, <1>12 DEF AcceptInv, Swap, Goto, disk, InHand
<1>13. ASSUME NEW h \in Handlers, Load(h) PROVE AcceptInv'
  BY <1>0, <1>13 DEF AcceptInv, Load, Goto, disk, InHand
<1>14. ASSUME NEW h \in Handlers, ApplyLoaded(h) PROVE AcceptInv'
  <2> DEFINE a == adapters[form[h]]
             new == Loaded(a, data[h])
  <2>1. a \in Adapters /\ form[h] \in DOMAIN adapters /\ data[h] \in Contents
    BY <1>0, <1>14 DEF ApplyLoaded, InHand
  <2>2. new \in Adapters /\ (Acceptable(a.current) => Acceptable(new.current))
    BY <2>1, LoadedTyped, LoadedAccepted
  <2>3. adapters' = [adapters EXCEPT ![form[h]] = new]
    BY <1>14 DEF ApplyLoaded
  <2> HIDE DEF new
  <2>4. \A u \in Handlers : pc[u] = "persist" => Acceptable(adapters'[form[u]].current)
    BY <2>1, <2>2, <2>3, FormsStayAccepted
  <2> QED
    BY <1>0, <1>14, <2>4 DEF AcceptInv, ApplyLoaded, Ends, Returns, Goto, disk, InHand
<1>15. CASE UNCHANGED vars
  BY <1>15 DEF AcceptInv, vars, disk, calls
<1> QED
  BY <1>1, <1>2, <1>3, <1>4, <1>5, <1>6, <1>7, <1>8, <1>9, <1>10, <1>11, <1>12, <1>13, <1>14, <1>15
     DEF Next

\* The file is whole, and a part of a configuration the device accepted.
THEOREM SavedWasAccepted == Spec => []AcceptedOnly
<1>1. AcceptInv => AcceptedOnly
  BY DEF AcceptInv, AcceptedOnly, PartOfAccepted
<1> QED
  BY <1>1, TypeInit, TypeNext, AcceptInit, AcceptNext, PTL DEF Spec
-----------------------------------------------------------------------------
(* The precedence of settings *)

\* What adapter a's configuration should be when the file holds c.
Prefer(a, c) ==
  [k \in Fields |-> IF a.raw[k] # Unset THEN a.raw[k]
                    ELSE IF k \notin StartFields /\ c[k] # Unset THEN c[k] ELSE Blank]

Agrees(a, c) == Acceptable(Prefer(a, c)) => a.current = Prefer(a, c)

\* The fields that are locked on the form are as they were built.
AsBuilt(a) == \A k \in Locked(a) : a.current[k] = Adapter(a.raw).current[k]

\* The steps of a call that has changed the form or the file, or is about to.
Changing == {"persist", "save", "write", "load", "loaded"}

\* What the handler in progress has in hand if no other call overlapped it.
OnItsWay(h) ==
  /\ pc[h] \in {"apply", "persist", "load", "loaded"} => form[h] = serving
  /\ pc[h] \in {"save", "write"} => data[h] = PersistValues(adapters[serving])
  /\ pc[h] \in {"swap", "load", "loaded"} => adapters[form[h]] = Adapter(adapters[form[h]].raw)
  /\ pc[h] = "loaded" => data[h] = Parsed

\* A handler that is alone finds what it left; when no call is changing anything,
\* form and file agree if the last that did was alone and saved.
PrecInv ==
  /\ \A i \in DOMAIN adapters : AsBuilt(adapters[i])
  /\ \A h \in Handlers : alone = h => OnItsWay(h) /\ \A u \in Handlers \ {h} : pc[u] = "idle"
  /\ Up /\ clean /\ (\A h \in Handlers : pc[h] \notin Changing) => Agrees(adapters[serving], Parsed)

\* A file's values are put into an adapter by those that the form does not lock.
LEMMA LoadedCases ==
  ASSUME NEW a \in Adapters, NEW c \in Contents,
         NEW ks, ks = {k \in Fields \ Locked(a) : c[k] # Unset}
  PROVE  /\ (ks # {} /\ Accepts(a, c, ks)) =>
               Loaded(a, c).raw = a.raw /\ Loaded(a, c).current = Merged(a, c, ks)
         /\ ~(ks # {} /\ Accepts(a, c, ks)) => Loaded(a, c) = a
<1> DEFINE new == [a EXCEPT !.current = Merged(a, c, ks)]
<1>1. new.raw = a.raw /\ new.current = Merged(a, c, ks)
  BY DEF Adapters
<1>2. Loaded(a, c) = IF ks # {} /\ Accepts(a, c, ks) THEN new ELSE a
  BY DEF Loaded
<1> HIDE DEF new
<1> QED
  BY <1>1, <1>2

\* Merging values of unlocked fields leaves the locked ones as they were built.
LEMMA MergedAsBuilt ==
  ASSUME NEW a \in Adapters, NEW v \in Contents, NEW ks \in SUBSET (Fields \ Locked(a)), AsBuilt(a),
         NEW b, b.raw = a.raw, b.current = Merged(a, v, ks)
  PROVE  AsBuilt(b)
<1>1. Locked(b) = Locked(a) /\ Locked(a) \subseteq Fields
  BY Forms DEF Locked, Pinned
<1>2. \A k \in Locked(a) : b.current[k] = a.current[k]
  BY <1>1 DEF Merged
<1> QED
  BY <1>1, <1>2 DEF AsBuilt

\* A new adapter is as built, and loading leaves an adapter as built.
LEMMA NewAsBuilt == ASSUME NEW e \in Entries PROVE AsBuilt(Adapter(e))
BY AdapterTyped DEF AsBuilt

LEMMA LoadedAsBuilt ==
  ASSUME NEW a \in Adapters, NEW c \in Contents, AsBuilt(a)
  PROVE  AsBuilt(Loaded(a, c))
<1> DEFINE ks == {k \in Fields \ Locked(a) : c[k] # Unset}
<1>1. ks \in SUBSET (Fields \ Locked(a))
  OBVIOUS
<1>2. CASE ks # {} /\ Accepts(a, c, ks)
  <2>1. Loaded(a, c).raw = a.raw /\ Loaded(a, c).current = Merged(a, c, ks)
    BY <1>2, LoadedCases
  <2> HIDE DEF ks
  <2> QED
    BY <1>1, <2>1, MergedAsBuilt
<1>3. CASE ~(ks # {} /\ Accepts(a, c, ks))
  BY <1>3, LoadedCases
<1> QED
  BY <1>2, <1>3

\* A device that has just been built and loaded agrees with the file: if what the
\* precedence asks for is acceptable, it was applied.
LEMMA LoadedAgrees ==
  ASSUME NEW e \in Entries, NEW c \in Contents
  PROVE  Agrees(Loaded(Adapter(e), c), c)
<1> DEFINE a == Adapter(e)
           ks == {k \in Fields \ Locked(a) : c[k] # Unset}
<1>1. a \in Adapters /\ a.raw = e /\ a.current = [k \in Fields |-> IF e[k] = Unset THEN Blank ELSE e[k]]
  BY AdapterTyped DEF Adapter
<1>2. Pinned(a) = {k \in Fields : e[k] # Unset} /\ Locked(a) = Pinned(a) \union StartFields
  BY <1>1 DEF Pinned, Locked
<1> HIDE DEF a
<1>3. Merged(a, c, ks) = Prefer(a, c)
  BY <1>1, <1>2 DEF Merged, Prefer
<1>4. ks = {} => a.current = Prefer(a, c)
  BY <1>1, <1>2 DEF Prefer
<1>5. Accepts(a, c, ks) <=> Acceptable(Prefer(a, c))
  BY <1>2, <1>3 DEF Accepts
<1>6. CASE ks # {} /\ Accepts(a, c, ks)
  <2>1. Loaded(a, c).raw = a.raw /\ Loaded(a, c).current = Prefer(a, c)
    BY <1>1, <1>3, <1>6, LoadedCases
  <2>2. Prefer(Loaded(a, c), c) = Prefer(a, c)
    BY <2>1 DEF Prefer
  <2> QED
    BY <2>1, <2>2 DEF Agrees, a
<1>7. CASE ~(ks # {} /\ Accepts(a, c, ks))
  <2>1. Loaded(a, c) = a
    BY <1>1, <1>7, LoadedCases
  <2> QED
    BY <1>4, <1>5, <1>7, <2>1 DEF Agrees, a
<1> QED
  BY <1>6, <1>7

\* What is saved of a form agrees with it.
LEMMA SavedAgrees ==
  ASSUME NEW a \in Adapters, AsBuilt(a)
  PROVE  Agrees(a, PersistValues(a))
<1>1. a.current \in [Fields -> Values]
  BY DEF Adapters, Configs
<1>2. ASSUME NEW k \in Fields PROVE Prefer(a, PersistValues(a))[k] = a.current[k]
  <2>1. CASE k \in Locked(a)
    <3>1. a.current[k] = IF a.raw[k] = Unset THEN Blank ELSE a.raw[k]
      BY <2>1 DEF AsBuilt, Adapter
    <3> QED
      BY <1>1, <2>1, <3>1 DEF Prefer, PersistValues, Locked, Pinned
  <2>2. CASE k \notin Locked(a)
    <3>1. k \notin Pinned(a) /\ k \notin StartFields /\ a.raw[k] = Unset
      BY <2>2 DEF Locked, Pinned
    <3>2. PersistValues(a)[k] = a.current[k] /\ a.current[k] # Unset
      BY <1>1, <3>1, Forms DEF PersistValues
    <3> QED
      BY <3>1, <3>2 DEF Prefer
  <2> QED
    BY <2>1, <2>2
<1>3. Prefer(a, PersistValues(a)) = a.current
  BY <1>1, <1>2 DEF Prefer
<1> QED
  BY <1>3 DEF Agrees

LEMMA PrecInit == Init => PrecInv
BY Forms DEF Init, PrecInv, Up, OnItsWay, Changing

\* Locked fields keep their values, whoever writes the form.
LEMMA BuiltNext ==
  ASSUME TypeInv, PrecInv, [Next]_vars
  PROVE  \A i \in DOMAIN adapters' : AsBuilt(adapters'[i])
<1> USE DEF PrecInv
<1>0. InHand /\ entry \in Entries /\ Parsed \in Contents /\ adapters \in Seq(Adapters)
  BY ParsedTyped DEF TypeInv, TypeOK, InHand
<1>1. CASE Boot
  <2>1. AsBuilt(Loaded(Adapter(entry), Parsed))
    BY <1>0, AdapterTyped, NewAsBuilt, LoadedAsBuilt
  <2> QED
    BY <1>1, <2>1 DEF Boot
<1>2. CASE Crash
  BY <1>2 DEF Crash
<1>3. ASSUME NEW h \in Handlers, ApplySettings(h) PROVE \A i \in DOMAIN adapters' : AsBuilt(adapters'[i])
  <2> DEFINE a == adapters[form[h]]
             ks == Fields \ Locked(a)
             new == [a EXCEPT !.current = Merged(a, sub[h], ks)]
  <2>1. a \in Adapters /\ form[h] \in DOMAIN adapters /\ AsBuilt(a) /\ sub[h] \in Contents
    BY <1>0, <1>3 DEF ApplySettings, InHand
  <2>2. new.raw = a.raw /\ new.current = Merged(a, sub[h], ks)
    BY <2>1 DEF Adapters
  <2>3. adapters' \in {adapters, [adapters EXCEPT ![form[h]] = new]}
    BY <1>3 DEF ApplySettings
  <2> HIDE DEF new, a
  <2>4. AsBuilt(new)
    BY <2>1, <2>2, MergedAsBuilt
  <2> QED
    BY <1>0, <2>1, <2>3, <2>4
<1>4. ASSUME NEW h \in Handlers, Rebuild(h) PROVE \A i \in DOMAIN adapters' : AsBuilt(adapters'[i])
  <2>1. adapters' \in {adapters, Append(adapters, Adapter(entry))}
    BY <1>4 DEF Rebuild
  <2>2. AsBuilt(Adapter(entry))
    BY <1>0, NewAsBuilt
  <2> QED
    BY <1>0, <2>1, <2>2
<1>5. ASSUME NEW h \in Handlers, ApplyLoaded(h) PROVE \A i \in DOMAIN adapters' : AsBuilt(adapters'[i])
  <2> DEFINE new == Loaded(adapters[form[h]], data[h])
  <2>1. /\ adapters[form[h]] \in Adapters /\ form[h] \in DOMAIN adapters
        /\ AsBuilt(adapters[form[h]]) /\ data[h] \in Contents
    BY <1>0, <1>5 DEF ApplyLoaded, InHand
  <2>2. adapters' = [adapters EXCEPT ![form[h]] = new]
    BY <1>5 DEF ApplyLoaded
  <2>3. AsBuilt(new)
    BY <2>1, LoadedAsBuilt
  <2> HIDE DEF new
  <2> QED
    BY <1>0, <2>1, <2>2, <2>3
<1>6. ASSUME NEW h \in Handlers,
             \/ Submit(h) \/ Persist(h) \/ Save(h) \/ Rename(h) \/ SaveFails(h)
             \/ Reload(h) \/ Swap(h) \/ Load(h)
      PROVE \A i \in DOMAIN adapters' : AsBuilt(adapters'[i])
  BY <1>6 DEF Submit, Persist, Save, Rename, SaveFails, Reload, Swap, Load
<1>7. CASE EditConfig \/ UNCHANGED vars
  BY <1>7 DEF EditConfig, vars
<1> QED
  BY <1>1, <1>2, <1>3, <1>4, <1>5, <1>6, <1>7 DEF Next

\* A call that nothing has overlapped finds the form and the file as it left them.
LEMMA AloneNext ==
  ASSUME TypeInv, PrecInv, [Next]_vars, NEW h \in Handlers, alone' = h
  PROVE  OnItsWay(h)' /\ \A u \in Handlers \ {h} : pc'[u] = "idle"
<1> USE Forms DEF PrecInv, OnItsWay, Changing
<1>0. /\ InHand /\ entry \in Entries /\ Parsed \in Contents /\ adapters \in Seq(Adapters)
      /\ serving \in DOMAIN adapters \union {0} /\ NoOne # h
  BY ParsedTyped DEF TypeInv, TypeOK, InHand
<1>1. CASE Boot
  <2>1. \A u \in Handlers : pc'[u] = "idle"
    BY <1>0, <1>1 DEF Boot, InHand, calls
  <2> QED
    BY <2>1
<1>2. CASE Crash
  BY <1>0, <1>2 DEF Crash
<1>3. CASE EditConfig \/ UNCHANGED vars
  <2>1. UNCHANGED <<file, adapters, serving, pc, form, data, alone>>
    BY <1>3 DEF EditConfig, vars, disk, calls
  <2> QED
    BY <2>1 DEF Parsed
<1>4. ASSUME NEW u \in Handlers, Submit(u) \/ Reload(u)
      PROVE  OnItsWay(h)' /\ \A v \in Handlers \ {h} : pc'[v] = "idle"
  <2>1. u = h /\ \A v \in Handlers : pc[v] = "idle"
    BY <1>0, <1>4 DEF Submit, Reload, Begins, Quiet, Idle
  <2>2. /\ pc' = [pc EXCEPT ![h] = "apply"] /\ form' = [form EXCEPT ![h] = serving] /\ serving' = serving
        \/ pc' = [pc EXCEPT ![h] = "rebuild"]
    BY <1>4, <2>1 DEF Submit, Reload, Goto
  <2> QED
    BY <1>0, <2>1, <2>2 DEF InHand
<1>5. ASSUME NEW u \in Handlers, pc[u] # "idle", alone' = alone
      PROVE  u = h
  BY <1>5
<1>6. ASSUME NEW u \in Handlers, pc[u] # "idle", alone' = alone, NEW s, pc' = [pc EXCEPT ![u] = s]
      PROVE  u = h /\ pc'[h] = s /\ \A v \in Handlers \ {h} : pc'[v] = "idle"
  BY <1>0, <1>5, <1>6 DEF InHand
<1>7. ASSUME NEW u \in Handlers, pc[u] # "idle", alone' = alone, Returns(u)
      PROVE  OnItsWay(h)' /\ \A v \in Handlers \ {h} : pc'[v] = "idle"
  <2>1. pc'[h] = "idle" /\ \A v \in Handlers \ {h} : pc'[v] = "idle"
    BY <1>6, <1>7 DEF Returns, Goto
  <2> QED
    BY <2>1
<1>8. ASSUME NEW u \in Handlers, ApplySettings(u)
      PROVE  OnItsWay(h)' /\ \A v \in Handlers \ {h} : pc'[v] = "idle"
  <2>1. pc[u] = "apply" /\ alone' = alone
    BY <1>8 DEF ApplySettings
  <2>2. CASE Returns(u)
    BY <1>7, <2>1, <2>2
  <2>3. CASE ~Returns(u)
    <3>1. /\ pc' = [pc EXCEPT ![u] = "persist"] /\ form' = form /\ serving' = serving
      BY <1>8, <2>3 DEF ApplySettings, Goto
    <3>2. u = h /\ pc'[h] = "persist" /\ \A v \in Handlers \ {h} : pc'[v] = "idle"
      BY <1>6, <2>1, <3>1
    <3> QED
      BY <2>1, <3>1, <3>2
  <2> QED
    BY <2>2, <2>3
<1>9. ASSUME NEW u \in Handlers, Persist(u)
      PROVE  OnItsWay(h)' /\ \A v \in Handlers \ {h} : pc'[v] = "idle"
  <2>1. pc[u] = "persist" /\ alone' = alone /\ pc' = [pc EXCEPT ![u] = "save"]
    BY <1>9 DEF Persist, Goto
  <2>2. u = h /\ pc'[h] = "save" /\ \A v \in Handlers \ {h} : pc'[v] = "idle"
    BY <1>6, <2>1
  <2>3. data'[h] = PersistValues(adapters[form[h]]) /\ form[h] = serving /\ UNCHANGED <<adapters, serving>>
    BY <1>0, <1>9, <2>1, <2>2 DEF Persist, InHand
  <2> QED
    BY <2>2, <2>3
<1>10. ASSUME NEW u \in Handlers, Save(u)
       PROVE  OnItsWay(h)' /\ \A v \in Handlers \ {h} : pc'[v] = "idle"
  <2>1. /\ pc[u] = "save" /\ alone' = alone /\ pc' = [pc EXCEPT ![u] = "write"]
        /\ UNCHANGED <<data, adapters, serving>>
    BY <1>10 DEF Save, Goto
  <2>2. u = h /\ pc'[h] = "write" /\ \A v \in Handlers \ {h} : pc'[v] = "idle"
    BY <1>6, <2>1
  <2> QED
    BY <2>1, <2>2
<1>11. ASSUME NEW u \in Handlers, Rename(u) \/ SaveFails(u)
       PROVE  OnItsWay(h)' /\ \A v \in Handlers \ {h} : pc'[v] = "idle"
  <2>1. pc[u] = "write" /\ alone' = alone /\ Returns(u)
    BY <1>11 DEF Rename, SaveFails, Ends
  <2> QED
    BY <1>7, <2>1
<1>12. ASSUME NEW u \in Handlers, Rebuild(u)
       PROVE  OnItsWay(h)' /\ \A v \in Handlers \ {h} : pc'[v] = "idle"
  <2>1. pc[u] = "rebuild" /\ alone' = alone
    BY <1>12 DEF Rebuild
  <2>2. CASE Returns(u)
    BY <1>7, <2>1, <2>2
  <2>3. CASE ~Returns(u)
    <3>1. /\ adapters' = Append(adapters, Adapter(entry)) /\ pc' = [pc EXCEPT ![u] = "swap"]
          /\ form' = [form EXCEPT ![u] = Len(adapters) + 1]
      BY <1>12, <2>3 DEF Rebuild, Goto
    <3>2. u = h /\ pc'[h] = "swap" /\ \A v \in Handlers \ {h} : pc'[v] = "idle"
      BY <1>6, <2>1, <3>1
    <3>3. form'[h] = Len(adapters) + 1
      BY <1>0, <3>1, <3>2 DEF InHand
    <3>4. adapters'[form'[h]] = Adapter(entry)
      BY <1>0, <3>1, <3>3
    <3>5. Adapter(entry).raw = entry
      BY <1>0, AdapterTyped
    <3> QED
      BY <3>2, <3>4, <3>5
  <2> QED
    BY <2>2, <2>3
<1>13. ASSUME NEW u \in Handlers, Swap(u)
       PROVE  OnItsWay(h)' /\ \A v \in Handlers \ {h} : pc'[v] = "idle"
  <2>1. /\ pc[u] = "swap" /\ alone' = alone /\ pc' = [pc EXCEPT ![u] = "load"]
        /\ UNCHANGED <<adapters, form>> /\ serving' = form[u]
    BY <1>13 DEF Swap, Goto
  <2>2. u = h /\ pc'[h] = "load" /\ \A v \in Handlers \ {h} : pc'[v] = "idle"
    BY <1>6, <2>1
  <2> QED
    BY <2>1, <2>2
<1>14. ASSUME NEW u \in Handlers, Load(u)
       PROVE  OnItsWay(h)' /\ \A v \in Handlers \ {h} : pc'[v] = "idle"
  <2>1. /\ pc[u] = "load" /\ alone' = alone /\ pc' = [pc EXCEPT ![u] = "loaded"]
        /\ UNCHANGED <<adapters, form, serving, file>> /\ data' = [data EXCEPT ![u] = Parsed]
    BY <1>14 DEF Load, Goto, disk
  <2>2. u = h /\ pc'[h] = "loaded" /\ \A v \in Handlers \ {h} : pc'[v] = "idle"
    BY <1>6, <2>1
  <2>3. data'[h] = Parsed /\ Parsed' = Parsed
    BY <1>0, <2>1, <2>2 DEF InHand, Parsed
  <2> QED
    BY <2>1, <2>2, <2>3
<1>15. ASSUME NEW u \in Handlers, ApplyLoaded(u)
       PROVE  OnItsWay(h)' /\ \A v \in Handlers \ {h} : pc'[v] = "idle"
  <2>1. pc[u] = "loaded" /\ alone' = alone /\ Returns(u)
    BY <1>15 DEF ApplyLoaded, Ends
  <2> QED
    BY <1>7, <2>1
<1> QED
  BY <1>1, <1>2, <1>3, <1>4, <1>8, <1>9, <1>10, <1>11, <1>12, <1>13, <1>14, <1>15 DEF Next

\* The call that ends saved what the form holds, or loaded what the file holds; a
\* call that changed nothing leaves both as they were.
LEMMA AgreesNext ==
  ASSUME TypeInv, PrecInv, [Next]_vars, Up', clean', \A h \in Handlers : pc'[h] \notin Changing
  PROVE  Agrees(adapters[serving], Parsed)'
<1> USE Forms
<1>0. /\ InHand /\ entry \in Entries /\ Parsed \in Contents /\ adapters \in Seq(Adapters)
      /\ serving \in DOMAIN adapters \union {0}
  BY ParsedTyped DEF TypeInv, TypeOK, InHand
<1>1. CASE Boot
  <2>1. adapters'[serving'] = Loaded(Adapter(entry), Parsed) /\ Parsed' = Parsed
    BY <1>1 DEF Boot, disk, Parsed
  <2> QED
    BY <1>0, <2>1, LoadedAgrees
<1>2. CASE Crash
  BY <1>2 DEF Crash, Up
<1>3. ASSUME UNCHANGED <<clean, serving, file>>, serving # 0 => adapters'[serving] = adapters[serving],
             \A h \in Handlers : pc[h] \notin Changing
      PROVE  Agrees(adapters[serving], Parsed)'
  BY <1>3 DEF PrecInv, Up, Parsed
<1>4. CASE EditConfig \/ UNCHANGED vars
  <2>1. UNCHANGED <<clean, serving, file, adapters, pc>>
    BY <1>4 DEF EditConfig, vars, disk, calls
  <2> QED
    BY <1>3, <2>1
<1>5. ASSUME NEW u \in Handlers, NEW s, pc' = [pc EXCEPT ![u] = s], pc[u] \notin Changing
      PROVE  s \notin Changing /\ \A h \in Handlers : pc[h] \notin Changing
  BY <1>0, <1>5 DEF InHand
<1>6. ASSUME NEW u \in Handlers, Submit(u) \/ Reload(u)
      PROVE  Agrees(adapters[serving], Parsed)'
  <2>1. pc[u] = "idle" /\ UNCHANGED <<clean, serving, file, adapters>>
    BY <1>6 DEF Submit, Reload, Begins, Idle, disk
  <2>2. \A h \in Handlers : pc[h] \notin Changing
    BY <1>5, <1>6, <2>1 DEF Submit, Reload, Goto, Changing
  <2> QED
    BY <1>3, <2>1, <2>2
<1>7. ASSUME NEW u \in Handlers, ApplySettings(u)
      PROVE  Agrees(adapters[serving], Parsed)'
  <2>1. pc[u] = "apply" /\ UNCHANGED <<clean, serving, file>>
    BY <1>7 DEF ApplySettings, disk
  <2>2. CASE Goto(u, "persist")
    BY <1>5, <2>1, <2>2 DEF Goto, Changing
  <2>3. CASE Returns(u) /\ UNCHANGED adapters
    BY <1>3, <1>5, <2>1, <2>3 DEF Returns, Goto, Changing
  <2> QED
    BY <1>7, <2>2, <2>3 DEF ApplySettings
<1>8. ASSUME NEW u \in Handlers, NEW s \in Changing, Goto(u, s) PROVE FALSE
  BY <1>0, <1>8 DEF Goto, InHand
<1>9. ASSUME NEW u \in Handlers, Persist(u) \/ Save(u) \/ Swap(u) \/ Load(u) PROVE FALSE
  BY <1>8, <1>9 DEF Persist, Save, Swap, Load, Changing
<1>10. ASSUME NEW u \in Handlers, Rename(u)
       PROVE  Agrees(adapters[serving], Parsed)'
  <2>1. alone = u /\ pc[u] = "write" /\ file' = data[u] /\ UNCHANGED <<adapters, serving>>
    BY <1>10 DEF Rename, Ends
  <2>2. data[u] = PersistValues(adapters[serving])
    BY <2>1 DEF PrecInv, OnItsWay
  <2>3. serving \in DOMAIN adapters
    BY <1>0, <2>1 DEF Up
  <2>4. data[u] \in Contents
    BY <1>0 DEF InHand
  <2>5. Parsed' = PersistValues(adapters[serving])
    BY <2>1, <2>2, <2>4 DEF Parsed
  <2>6. adapters[serving] \in Adapters /\ AsBuilt(adapters[serving])
    BY <1>0, <2>3 DEF PrecInv
  <2>7. Agrees(adapters[serving], PersistValues(adapters[serving]))
    BY <2>6, SavedAgrees
  <2> QED
    BY <2>1, <2>5, <2>7
<1>11. ASSUME NEW u \in Handlers, SaveFails(u) PROVE FALSE
  BY <1>11 DEF SaveFails, Ends
<1>12. ASSUME NEW u \in Handlers, Rebuild(u)
       PROVE  Agrees(adapters[serving], Parsed)'
  <2>1. pc[u] = "rebuild" /\ UNCHANGED <<clean, serving, file>>
    BY <1>12 DEF Rebuild, disk
  <2>2. adapters' \in {adapters, Append(adapters, Adapter(entry))}
    BY <1>12 DEF Rebuild
  <2>3. serving # 0 => adapters'[serving] = adapters[serving]
    BY <1>0, <2>2
  <2>4. \E s : pc' = [pc EXCEPT ![u] = s]
    BY <1>12 DEF Rebuild, Returns, Goto
  <2>5. \A h \in Handlers : pc[h] \notin Changing
    BY <1>5, <2>1, <2>4 DEF Changing
  <2> QED
    BY <1>3, <2>1, <2>3, <2>5
<1>13. ASSUME NEW u \in Handlers, ApplyLoaded(u)
       PROVE  Agrees(adapters[serving], Parsed)'
  <2>1. /\ alone = u /\ pc[u] = "loaded" /\ UNCHANGED <<serving, file>>
        /\ adapters' = [adapters EXCEPT ![form[u]] = Loaded(@, data[u])]
    BY <1>13 DEF ApplyLoaded, Ends, disk
  <2>2. /\ form[u] = serving /\ data[u] = Parsed
        /\ adapters[form[u]] = Adapter(adapters[form[u]].raw)
    BY <2>1 DEF PrecInv, OnItsWay
  <2>3. form[u] \in DOMAIN adapters /\ adapters[form[u]] \in Adapters
    BY <1>0, <2>1 DEF InHand
  <2>4. adapters'[serving] = Loaded(Adapter(adapters[serving].raw), Parsed) /\ adapters[serving].raw \in Entries
    BY <2>1, <2>2, <2>3 DEF Adapters
  <2>5. Parsed' = Parsed
    BY <2>1 DEF Parsed
  <2> QED
    BY <1>0, <2>1, <2>4, <2>5, LoadedAgrees
<1> QED
  BY <1>1, <1>2, <1>4, <1>6, <1>7, <1>9, <1>10, <1>11, <1>12, <1>13 DEF Next

LEMMA PrecNext == TypeInv /\ PrecInv /\ [Next]_vars => PrecInv'
<1> SUFFICES ASSUME TypeInv, PrecInv, [Next]_vars PROVE PrecInv'
  OBVIOUS
<1>1. \A i \in DOMAIN adapters' : AsBuilt(adapters'[i])
  BY BuiltNext
<1>2. \A h \in Handlers : alone' = h => OnItsWay(h)' /\ \A u \in Handlers \ {h} : pc'[u] = "idle"
  BY AloneNext
<1>3. Up' /\ clean' /\ (\A h \in Handlers : pc'[h] \notin Changing) => Agrees(adapters[serving], Parsed)'
  BY AgreesNext
<1> QED
  BY <1>1, <1>2, <1>3 DEF PrecInv

\* At rest the form in use is what the defaults, the saved values and the config
\* file make of it, in that order, if the last call that changed anything ran alone
\* and could save (loadSettingsFor, ApplySettings and PersistValues).
THEOREM PrecedenceKept == Spec => []Precedence
<1>1. PrecInv => Precedence
  <2> SUFFICES ASSUME PrecInv, Up, Quiet, clean, Acceptable(Preferred)
               PROVE  adapters[serving].current = Preferred
    BY DEF Precedence
  <2>1. Preferred = Prefer(adapters[serving], Parsed)
    BY DEF Preferred, Prefer
  <2>2. \A h \in Handlers : pc[h] \notin Changing
    BY DEF Quiet, Idle, Changing
  <2> QED
    BY <2>1, <2>2 DEF PrecInv, Agrees
<1> QED
  BY <1>1, TypeInit, TypeNext, PrecInit, PrecNext, PTL DEF Spec
=============================================================================
