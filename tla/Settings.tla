------------------------------ MODULE Settings ------------------------------
(***************************************************************************)
(* A device's settings: the setup form generated from its config struct    *)
(* (server/configadapter.go), the handler that applies and saves a         *)
(* submission (server/setup.go), the settings file                         *)
(* (server/settings_store.go), and the host that builds the device and its *)
(* form from a config file, at start and on every reload                   *)
(* (devicemain/devicemain.go).                                             *)
(*                                                                         *)
(* A submission is not one step: the handler picks the form, applies the   *)
(* values, reads them back and writes the file, each under a lock of its   *)
(* own.  Another submission, a reload, an edit of the config file or the   *)
(* end of the process may come between any two.                            *)
(*                                                                         *)
(* A value is a form string.  Parsing, bounds and options are one set of   *)
(* good values per field; what the device itself refuses is Refused.       *)
(***************************************************************************)
EXTENDS Integers, Sequences, SequencesExt

CONSTANTS
  Fields,        \* the config struct's settings, but for the common keys
  StartFields,   \* when=start: read-only on the form
  SecretFields,  \* secret: never shown
  Values, Blank, \* form strings; Blank is the zero value of a field
  Unset,         \* no value: the key is missing
  Torn,          \* a file cut short
  Good,          \* Good[k]: the values of k that pass its type, bounds and options
  Refused,       \* whole configurations the device's Reconfigure rejects
  Submissions,   \* what a browser posts, a value for every field
  Entries,       \* contents of the admin's config file and flags
  Handlers, NoOne,
  MaxAdapters    \* bound: forms built between two starts of the process

Configs  == [Fields -> Values]
Contents == [Fields -> Values \union {Unset}]
Empty    == [k \in Fields |-> Unset]

ASSUME Forms ==
  /\ StartFields \subseteq Fields /\ SecretFields \subseteq Fields
  /\ Blank \in Values /\ Unset \notin Values /\ Torn \notin Contents
  /\ Good \in [Fields -> SUBSET Values] /\ Refused \subseteq Configs
  /\ Submissions \subseteq Configs /\ Entries \subseteq Contents /\ Entries # {}
  /\ NoOne \notin Handlers /\ MaxAdapters \in Nat \ {0}

VARIABLES
  entry,      \* the config file as the admin left it
  file,       \* the settings file
  store,      \* FileStore.mu: the handler that is writing
  adapters,   \* StructConfigs built so far: the entry they were built from, current
  serving,    \* rd.cfg: the adapter in use; 0 while no process runs
  reloading,  \* rd.reloadMu
  pc,
  form,       \* the adapter a handler holds
  sub,        \* the values it was posted
  data,       \* what it will save, or has loaded
  alone,      \* history: the handler in progress, if no other overlapped it
  clean       \* history: the last call that changed form or file ran alone and saved

disk  == <<entry, file>>
calls == <<pc, form, sub, data>>
vars  == <<disk, store, adapters, serving, reloading, calls, alone, clean>>

-----------------------------------------------------------------------------
(* The adapter *)

\* NewStructConfig: values from the entry, zero values for the rest; every key
\* of the entry is pinned.
Adapter(raw) == [raw |-> raw, current |-> [k \in Fields |-> IF raw[k] = Unset THEN Blank ELSE raw[k]]]
Pinned(a) == {k \in Fields : a.raw[k] # Unset}

\* The fields FieldsFromStruct locks on the form.
Locked(a) == Pinned(a) \union StartFields

\* ApplyToStruct validates the whole configuration, then Reconfigure has its say.
Acceptable(c) == (\A k \in Fields : c[k] \in Good[k]) /\ c \notin Refused

\* The configuration ApplySettings makes of the values given for ks.
Merged(a, v, ks) == [k \in Fields |-> IF k \in ks \ Pinned(a) THEN v[k] ELSE a.current[k]]

Accepts(a, v, ks) ==
  /\ Acceptable(Merged(a, v, ks))
  /\ \A k \in ks \intersect StartFields : v[k] = a.current[k]

\* Seeded fault: host-pinned values are saved with the others.
PersistValues_KeepsPinned(a) == [k \in Fields |-> a.current[k]]

\* PersistValues: everything but the pinned keys.
PersistValues(a) == [k \in Fields |-> IF k \in Pinned(a) THEN Unset ELSE a.current[k]]

\* What loadSettingsFor makes of adapter a and file contents c: keys that the
\* form does not declare or locks are dropped, and all the rest if one is bad.
Loaded(a, c) ==
  LET ks == {k \in Fields \ Locked(a) : c[k] # Unset} IN
    IF ks # {} /\ Accepts(a, c, ks) THEN [a EXCEPT !.current = Merged(a, c, ks)] ELSE a

\* FileStore.Load: a file that does not parse loads nothing.
Parsed == IF file = Torn THEN Empty ELSE file

-----------------------------------------------------------------------------
(* Calls *)

Up == serving # 0
Goto(h, step) == pc' = [pc EXCEPT ![h] = step]
Idle(h) == pc[h] = "idle"
Quiet == \A h \in Handlers : Idle(h)

\* A call begins: it is alone if no other is in progress, and then no other is.
Begins(h) == Up /\ Idle(h) /\ alone' = IF Quiet THEN h ELSE NoOne

\* A call ends, and what it held goes.
Returns(h) ==
  /\ Goto(h, "idle") /\ form' = [form EXCEPT ![h] = 0]
  /\ sub' = [sub EXCEPT ![h] = Empty] /\ data' = [data EXCEPT ![h] = Empty]

\* It changed the form or the file.
Ends(h, ok) == Returns(h) /\ clean' = (ok /\ alone = h)

Init ==
  /\ entry \in Entries /\ file = Empty /\ store = NoOne
  /\ adapters = <<>> /\ serving = 0 /\ reloading = NoOne
  /\ pc = [h \in Handlers |-> "idle"] /\ form = [h \in Handlers |-> 0]
  /\ sub = [h \in Handlers |-> Empty] /\ data = [h \in Handlers |-> Empty]
  /\ alone = NoOne /\ clean = TRUE

\* The process starts: construct, then Run's loadSettings, before it serves.
Boot ==
  /\ ~Up
  /\ adapters' = <<Loaded(Adapter(entry), Parsed)>> /\ serving' = 1
  /\ clean' = TRUE
  /\ UNCHANGED <<disk, store, reloading, calls, alone>>

\* The process ends, in the middle of anything.
Crash ==
  /\ Up
  /\ adapters' = <<>> /\ serving' = 0
  /\ store' = NoOne /\ reloading' = NoOne /\ alone' = NoOne
  /\ pc' = [h \in Handlers |-> "idle"] /\ form' = [h \in Handlers |-> 0]
  /\ sub' = [h \in Handlers |-> Empty] /\ data' = [h \in Handlers |-> Empty]
  /\ UNCHANGED <<disk, clean>>

\* The admin edits the config file.
EditConfig ==
  /\ entry' \in Entries \ {entry}
  /\ UNCHANGED <<file, store, adapters, serving, reloading, calls, alone, clean>>

-----------------------------------------------------------------------------
(* A submission: renderDeviceSetup and applyForm *)

\* The handler takes the form in use; collectValues reads what was posted.
Submit(h) ==
  /\ Begins(h)
  /\ \E v \in Submissions : sub' = [sub EXCEPT ![h] = v]
  /\ form' = [form EXCEPT ![h] = serving]
  /\ Goto(h, "apply")
  /\ UNCHANGED <<disk, store, adapters, serving, reloading, data, clean>>

\* Seeded fault: values are committed and saved before the device accepts them.
ApplySettings_CommitsFirst(h) ==
  /\ pc[h] = "apply"
  /\ adapters' = [adapters EXCEPT ![form[h]].current =
                    Merged(adapters[form[h]], sub[h], Fields \ Locked(adapters[form[h]]))]
  /\ Goto(h, "persist")
  /\ UNCHANGED <<disk, store, serving, reloading, form, sub, data, alone, clean>>

\* collectValues leaves out the locked fields; a refusal changes nothing.
ApplySettings(h) ==
  LET a == adapters[form[h]]
      ks == Fields \ Locked(a) IN
  /\ pc[h] = "apply"
  /\ IF Accepts(a, sub[h], ks)
     THEN /\ adapters' = [adapters EXCEPT ![form[h]].current = Merged(a, sub[h], ks)]
          /\ Goto(h, "persist") /\ UNCHANGED <<form, sub, data>>
     ELSE UNCHANGED adapters /\ Returns(h)
  /\ UNCHANGED <<disk, store, serving, reloading, alone, clean>>

Persist(h) ==
  /\ pc[h] = "persist"
  /\ data' = [data EXCEPT ![h] = PersistValues(adapters[form[h]])]
  /\ sub' = [sub EXCEPT ![h] = Empty] /\ form' = [form EXCEPT ![h] = 0]
  /\ Goto(h, "save")
  /\ UNCHANGED <<disk, store, adapters, serving, reloading, alone, clean>>

\* Seeded fault: the settings file itself is opened for writing.
Save_InPlace(h) ==
  /\ pc[h] = "save" /\ store = NoOne /\ store' = h
  /\ file' = Torn
  /\ Goto(h, "write")
  /\ UNCHANGED <<entry, adapters, serving, reloading, form, sub, data, alone, clean>>

\* FileStore.Save locks the store and writes a temporary file, ...
Save(h) ==
  /\ pc[h] = "save" /\ store = NoOne /\ store' = h
  /\ Goto(h, "write")
  /\ UNCHANGED <<disk, adapters, serving, reloading, form, sub, data, alone, clean>>

\* ... which then replaces the settings file, ...
Rename(h) ==
  /\ pc[h] = "write"
  /\ file' = data[h] /\ store' = NoOne
  /\ Ends(h, TRUE)
  /\ UNCHANGED <<entry, adapters, serving, reloading, alone>>

\* Seeded fault: the error path leaves the store locked.
SaveFails_Locked(h) ==
  /\ pc[h] = "write"
  /\ Ends(h, FALSE)
  /\ UNCHANGED <<disk, store, adapters, serving, reloading, alone>>

\* ... or an error leaves the change applied and the file as it was.
SaveFails(h) ==
  /\ pc[h] = "write"
  /\ store' = NoOne
  /\ Ends(h, FALSE)
  /\ UNCHANGED <<disk, adapters, serving, reloading, alone>>

-----------------------------------------------------------------------------
(* A reload, from the setup page or a signal *)

Reload(h) ==
  /\ Begins(h)
  /\ reloading = NoOne /\ reloading' = h
  /\ Goto(h, "rebuild")
  /\ UNCHANGED <<disk, store, adapters, serving, form, sub, data, clean>>

\* The reloader reads the config file again and builds a device and its form;
\* an error leaves the old ones.
Rebuild(h) ==
  /\ pc[h] = "rebuild"
  /\ \/ /\ Len(adapters) < MaxAdapters
        /\ adapters' = Append(adapters, Adapter(entry))
        /\ form' = [form EXCEPT ![h] = Len(adapters) + 1]
        /\ Goto(h, "swap") /\ UNCHANGED <<reloading, sub, data>>
     \/ Returns(h) /\ reloading' = NoOne /\ UNCHANGED adapters
  /\ UNCHANGED <<disk, store, serving, alone, clean>>

Swap(h) ==
  /\ pc[h] = "swap"
  /\ serving' = form[h]
  /\ Goto(h, "load")
  /\ UNCHANGED <<disk, store, adapters, reloading, form, sub, data, alone, clean>>

\* loadSettingsFor reads the file under the store's lock ...
Load(h) ==
  /\ pc[h] = "load" /\ store = NoOne
  /\ data' = [data EXCEPT ![h] = Parsed]
  /\ Goto(h, "loaded")
  /\ UNCHANGED <<disk, store, adapters, serving, reloading, form, sub, alone, clean>>

\* Seeded fault: the new device keeps the config file's values.
ApplyLoaded_Forgets(h) ==
  /\ pc[h] = "loaded"
  /\ reloading' = NoOne
  /\ Ends(h, TRUE)
  /\ UNCHANGED <<disk, store, adapters, serving, alone>>

\* ... and applies it under the adapter's.
ApplyLoaded(h) ==
  /\ pc[h] = "loaded"
  /\ adapters' = [adapters EXCEPT ![form[h]] = Loaded(@, data[h])]
  /\ reloading' = NoOne
  /\ Ends(h, TRUE)
  /\ UNCHANGED <<disk, store, serving, alone>>

Next ==
  \/ Boot \/ Crash \/ EditConfig
  \/ \E h \in Handlers :
       \/ Submit(h) \/ ApplySettings(h) \/ Persist(h) \/ Save(h) \/ Rename(h) \/ SaveFails(h)
       \/ Reload(h) \/ Rebuild(h) \/ Swap(h) \/ Load(h) \/ ApplyLoaded(h)

Spec == Init /\ [][Next]_vars

-----------------------------------------------------------------------------
(* Properties *)

AdapterOK(a) == a.raw \in Entries /\ a.current \in Configs

\* Types, and each lock is held exactly by the handler in its section: a
\* failed save or reload never leaves the store or the device locked.
TypeOK ==
  /\ entry \in Entries /\ file \in Contents \union {Torn} /\ clean \in BOOLEAN
  /\ Len(adapters) <= MaxAdapters /\ \A i \in DOMAIN adapters : AdapterOK(adapters[i])
  /\ serving \in DOMAIN adapters \union {0}
  /\ alone \in Handlers \union {NoOne}
  /\ \A h \in Handlers :
       /\ pc[h] \in {"idle", "apply", "persist", "save", "write", "rebuild", "swap", "load", "loaded"}
       /\ form[h] \in DOMAIN adapters \union {0}
       /\ sub[h] \in Submissions \union {Empty} /\ data[h] \in Contents
       /\ store = h <=> pc[h] = "write"
       /\ reloading = h <=> pc[h] \in {"rebuild", "swap", "load", "loaded"}

\* Values that only the admin gives.
AdminOnly(k) == {e[k] : e \in Entries} \ ({v[k] : v \in Submissions} \union {Blank, Unset})

\* A value the host pinned lives in its config file alone: it is never saved,
\* and does not resurface when the host releases the pin.
PinsStayOut ==
  /\ file # Torn => \A k \in Fields : file[k] \notin AdminOnly(k)
  /\ \A i \in DOMAIN adapters : \A k \in Fields \ Pinned(adapters[i]) :
       adapters[i].current[k] \notin AdminOnly(k)

\* The settings file is whole, and what it holds, completed by some pinned
\* values, is one configuration that the tags and the device accept: no
\* refused value is saved, and no mixture of two submissions.
AcceptedOnly ==
  file # Empty => file # Torn /\ \E c \in Configs : Acceptable(c) /\
    \A k \in Fields : file[k] # Unset => c[k] = file[k]

\* "Settings precedence is defaults, then persisted values, then host overrides."
Preferred ==
  [k \in Fields |-> IF adapters[serving].raw[k] # Unset THEN adapters[serving].raw[k]
                    ELSE IF k \notin StartFields /\ Parsed[k] # Unset THEN Parsed[k] ELSE Blank]

\* At rest the form in use and the file agree by that precedence, after any
\* sequence of submissions, reloads, crashes and edits of the config file, if
\* the last call that changed anything overlapped no other and could save.
Precedence ==
  Up /\ Quiet /\ clean /\ Acceptable(Preferred) => adapters[serving].current = Preferred

\* A submission that leaves a secret untouched (it is posted blank, since the
\* form never shows it) does not clear it.
SecretKept ==
  [][\A h \in Handlers : pc[h] = "apply" /\ Up' => \A k \in SecretFields :
       sub[h][k] = Blank => adapters'[form[h]].current[k] = adapters[form[h]].current[k]]_<<pc, serving, adapters>>
=============================================================================
