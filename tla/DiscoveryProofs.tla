--------------------------- MODULE DiscoveryProofs ---------------------------
(***************************************************************************)
(* Proofs about Discovery, for any servers, hosts, ports, times to live    *)
(* and delays: types, that what a client finds was listening a bounded     *)
(* time ago, that a restarted server is announced only where it is, that a *)
(* server that is gone fades, and what alone drops one that is listed.     *)
(***************************************************************************)
EXTENDS Discovery, TLAPS

\* The constants, each by itself.
LEMMA ConstantsTyped ==
  /\ ProxyHost \in Hosts
  /\ TTL \in Nat /\ MaxDelay \in Nat /\ MaxNet \in Nat /\ Window \in Nat
  /\ Burst \in Nat /\ Refill \in Nat /\ Forever \in Nat
  /\ TTL > 0 /\ Burst > 0
BY DiscoveryAssumption DEF Forever

LEMMA AddressTyped ==
  ASSUME TypeOK, NEW s \in Servers
  PROVE  At(s) \in Addresses
BY DEF TypeOK, At, Addresses

\* A place that gets older is at most one tick older, and stays within its bound.
LEMMA OlderBounds ==
  ASSUME NEW most \in Nat, NEW n \in 0..most
  PROVE  Older(n, most) \in 0..most /\ Older(n, most) <= n + 1
BY DEF Older

LEMMA RefilledTyped ==
  ASSUME NEW n \in 0..Burst
  PROVE  Refilled(n) \in 0..Burst
BY ConstantsTyped DEF Refilled

LEMMA InitTyped == Init => TypeOK
<1> SUFFICES ASSUME Init PROVE TypeOK
  OBVIOUS
<1>1. gone \in [Addresses -> 0..Forever] /\ tokens \in [Servers -> 0..Burst]
  BY ConstantsTyped DEF Init
<1>2. window \in 0..Window
  BY ConstantsTyped DEF Init
<1>3. up \in [Servers -> BOOLEAN] /\ probing \in BOOLEAN
  BY Zenon DEF Init
<1>4. reg \in [Servers -> {"new", "on", "off"}] /\ due \in [Servers -> 0..1]
  BY DEF Init
<1> QED
  BY <1>1, <1>2, <1>3, <1>4 DEF Init, TypeOK

LEMMA StepTyped == TypeOK /\ [Next]_vars => TypeOK'
<1> SUFFICES ASSUME TypeOK, [Next]_vars PROVE TypeOK'
  OBVIOUS
<1> USE ConstantsTyped
<1>1. ASSUME NEW s \in Servers, NEW p \in Ports, Start(s, p) PROVE TypeOK'
  <2>1. /\ up' \in [Servers -> BOOLEAN] /\ port' \in [Servers -> Ports]
        /\ reg' \in [Servers -> {"new", "on", "off"}] /\ due' \in [Servers -> 0..1]
    BY <1>1 DEF TypeOK, Start
  <2>2. tokens' \in [Servers -> 0..Burst] /\ gone' \in [Addresses -> 0..Forever]
    <3>1. Burst \in 0..Burst /\ 0 \in 0..Forever
      OBVIOUS
    <3> QED
      BY <1>1, <3>1 DEF TypeOK, Start
  <2> QED
    BY <1>1, <2>1, <2>2 DEF TypeOK, Start, client
<1>2. ASSUME NEW s \in Servers, Stop(s) PROVE TypeOK'
  <2>1. up' \in [Servers -> BOOLEAN]
    BY <1>2 DEF TypeOK, Stop
  <2> QED
    BY <1>2, <2>1 DEF TypeOK, Stop, client
<1>3. ASSUME NEW s \in Servers, NEW ok \in BOOLEAN, Register(s, ok) PROVE TypeOK'
  BY <1>3 DEF TypeOK, Register, client
<1>4. ASSUME NEW s \in Servers, SendHeartbeats(s) PROVE TypeOK'
  <2>1. [from |-> s, host |-> home[s], port |-> port[s], age |-> 0] \in Heartbeats
    BY DEF TypeOK, Heartbeats
  <2> QED
    BY <1>4, <2>1 DEF TypeOK, SendHeartbeats, client
<1>5. ASSUME NEW s \in Servers, DiscoveryReply(s) PROVE TypeOK'
  <2>1. At(s) \in Addresses
    BY AddressTyped
  <2>2. tokens' \in [Servers -> 0..Burst] /\ replies' \subseteq Addresses
    <3>1. CASE mode[s] = "register" /\ reg[s] = "on" /\ tokens[s] > 0
      BY <1>5, <2>1, <3>1 DEF TypeOK, DiscoveryReply
    <3>2. CASE ~(mode[s] = "register" /\ reg[s] = "on" /\ tokens[s] > 0)
      BY <1>5, <3>2 DEF TypeOK, DiscoveryReply
    <3> QED
      BY <3>1, <3>2
  <2> QED
    BY <1>5, <2>2 DEF TypeOK, DiscoveryReply
<1>6. ASSUME NEW s \in Servers, DirectAnswer(s) PROVE TypeOK'
  BY <1>6, AddressTyped DEF TypeOK, DirectAnswer, servers
<1>7. ASSUME NEW h \in net, Lose(h) PROVE TypeOK'
  BY <1>7 DEF TypeOK, Lose, servers, client
<1>8. ASSUME NEW h \in net, NEW again \in BOOLEAN, Deliver(h, again) PROVE TypeOK'
  <2>1. [from |-> h.from, host |-> h.host, port |-> h.port, seen |-> 0] \in Registrations
    BY DEF TypeOK, Heartbeats, Registrations
  <2>2. entries' \subseteq Registrations
    BY <1>8, <2>1 DEF TypeOK, Deliver, Record
  <2>3. fresh' \subseteq Servers
    BY <1>8 DEF TypeOK, Deliver, Heartbeats
  <2> QED
    BY <1>8, <2>2, <2>3 DEF TypeOK, Deliver, servers, client
<1>9. ASSUME AnswerLocal PROVE TypeOK'
  <2>1. \A e \in Live(entries) : <<ProxyHost, e.port>> \in Addresses
    BY DEF TypeOK, Live, Registrations, Addresses
  <2> QED
    BY <1>9, <2>1 DEF TypeOK, AnswerLocal, Live, servers
<1>10. ASSUME RelayRemote PROVE TypeOK'
  <2>1. \A e \in Live(entries) : <<e.host, e.port>> \in Addresses
    BY DEF TypeOK, Live, Registrations, Addresses
  <2> QED
    BY <1>10, <2>1 DEF TypeOK, RelayRemote, Live, servers, client
<1>11. ASSUME NEW a \in relays, RelayLost(a) PROVE TypeOK'
  BY <1>11 DEF TypeOK, RelayLost, servers, client
<1>12. ASSUME ProxyRestart PROVE TypeOK'
  BY <1>12 DEF TypeOK, ProxyRestart, servers, client
<1>13. ASSUME Probe PROVE TypeOK'
  BY <1>13 DEF TypeOK, Probe, servers
<1>14. ASSUME NEW a \in replies, ReadResponse(a) PROVE TypeOK'
  BY <1>14 DEF TypeOK, ReadResponse, servers
<1>15. ASSUME CloseWindow PROVE TypeOK'
  <2>1. probing' \in BOOLEAN
    BY <1>15, Zenon DEF CloseWindow
  <2>2. window' \in 0..Window
    BY <1>15 DEF CloseWindow
  <2> QED
    BY <1>15, <2>1, <2>2 DEF TypeOK, CloseWindow, servers
<1>16. ASSUME Tick PROVE TypeOK'
  <2>1. net' \subseteq Heartbeats
    BY <1>16 DEF TypeOK, Tick, Heartbeats
  <2>2. entries' \subseteq Registrations
    <3>1. \A e \in entries : Older(e.seen, TTL + 1) \in 0..(TTL + 1)
      <4>1. TTL + 1 \in Nat /\ \A e \in entries : e.seen \in 0..(TTL + 1)
        BY DEF TypeOK, Registrations
      <4> QED
        BY <4>1, OlderBounds
    <3>2. \A e \in entries : [e EXCEPT !.seen = Older(@, TTL + 1)] \in Registrations
      BY <3>1 DEF TypeOK, Registrations
    <3> QED
      BY <1>16, <3>2 DEF Tick
  <2>3. due' \in [Servers -> 0..1]
    BY <1>16 DEF TypeOK, Tick
  <2>4. tokens' \in [Servers -> 0..Burst]
    BY <1>16, RefilledTyped DEF TypeOK, Tick
  <2>5. window' \in 0..Window
    BY <1>16 DEF TypeOK, Tick
  <2>6. gone' \in [Addresses -> 0..Forever]
    <3>1. \A a \in Addresses : Older(gone[a], Forever) \in 0..Forever
      BY OlderBounds DEF TypeOK
    <3> QED
      BY <1>16, <3>1 DEF Tick
  <2> QED
    BY <1>16, <2>1, <2>2, <2>3, <2>4, <2>5, <2>6 DEF TypeOK, Tick
<1>17. ASSUME UNCHANGED vars PROVE TypeOK'
  BY <1>17 DEF TypeOK, vars, servers, client
<1> QED
  BY <1>1, <1>2, <1>3, <1>4, <1>5, <1>6, <1>7, <1>8, <1>9, <1>10, <1>11, <1>12, <1>13,
     <1>14, <1>15, <1>16, <1>17 DEF Next

\* The variables of servers, proxy and client have the types the code gives
\* them: among them that a rateGate never holds more tokens than a burst.
THEOREM TypeCorrect == Spec => []TypeOK
<1>1. Spec => Init /\ [][Next]_vars
  BY DEF Spec
<1> QED
  BY <1>1, InitTyped, StepTyped, PTL

-----------------------------------------------------------------------------
(* RestartReplaces *)

\* Who is recorded where it is has no heartbeat under way from elsewhere, and,
\* with an identity, no registration elsewhere.
FreshInv ==
  /\ \A s \in fresh, h \in net : h.from = s => <<h.host, h.port>> = At(s)
  /\ RestartReplaces

LEMMA StepFresh == TypeOK /\ FreshInv /\ [Next]_vars => FreshInv'
<1> SUFFICES ASSUME TypeOK, FreshInv, [Next]_vars PROVE FreshInv'
  OBVIOUS
<1>1. ASSUME NEW s \in Servers, NEW p \in Ports, Start(s, p) PROVE FreshInv'
  <2>1. \A o \in fresh' : o \in fresh /\ At(o)' = At(o)
    BY <1>1 DEF Start, At, TypeOK
  <2> QED
    BY <1>1, <2>1 DEF Start, FreshInv, RestartReplaces
<1>2. ASSUME NEW s \in Servers, SendHeartbeats(s) PROVE FreshInv'
  <2>1. \A h \in net' : h \in net \/ (h.from = s /\ <<h.host, h.port>> = At(s))
    BY <1>2 DEF SendHeartbeats, At
  <2>2. UNCHANGED <<home, port, named, entries, fresh>>
    BY <1>2 DEF SendHeartbeats
  <2> QED
    BY <2>1, <2>2 DEF FreshInv, RestartReplaces, At
<1>3. ASSUME NEW h \in net, NEW again \in BOOLEAN, Deliver(h, again) PROVE FreshInv'
  <2> DEFINE new == [from |-> h.from, host |-> h.host, port |-> h.port, seen |-> 0]
  <2>1. /\ net' \subseteq net /\ UNCHANGED <<home, port, named>>
        /\ \A e \in entries' : e = new \/ (e \in entries /\ Key(e) # Key(new))
    BY <1>3 DEF Deliver, Record, servers
  <2>2. \A s \in fresh' : s \in fresh \/ (s = h.from /\ Outdated(s) = {})
    BY <1>3 DEF Deliver
  <2>3. \A s \in fresh', g \in net : g.from = s => <<g.host, g.port>> = At(s)
    BY <2>2 DEF FreshInv, Outdated
  <2>4. ASSUME NEW s \in named, s \in fresh', NEW e \in entries', e.from = s
        PROVE  <<e.host, e.port>> = At(s)
    <3>1. CASE e = new
      BY <2>3, <2>4, <3>1
    <3>2. CASE e \in entries /\ Key(e) # Key(new)
      <4>1. s # h.from
        BY <2>4, <3>2 DEF Key
      <4> QED
        BY <2>2, <2>4, <3>2, <4>1 DEF FreshInv, RestartReplaces
    <3> QED
      BY <2>1, <3>1, <3>2
  <2> QED
    BY <2>1, <2>3, <2>4 DEF FreshInv, RestartReplaces, At
<1>4. ASSUME Tick PROVE FreshInv'
  <2>1. /\ \A h \in net' : \E g \in net : h.from = g.from /\ h.host = g.host /\ h.port = g.port
        /\ \A e \in entries' : \E d \in entries : e.from = d.from /\ e.host = d.host /\ e.port = d.port
    BY <1>4 DEF Tick, TypeOK, Heartbeats, Registrations
  <2>2. UNCHANGED <<home, port, named, fresh>>
    BY <1>4 DEF Tick
  <2> QED
    BY <2>1, <2>2 DEF FreshInv, RestartReplaces, At
<1>5. CASE net' \subseteq net /\ entries' \subseteq entries /\ UNCHANGED <<home, port, named, fresh>>
  BY <1>5 DEF FreshInv, RestartReplaces, At
<1> QED
  BY <1>1, <1>2, <1>3, <1>4, <1>5 DEF Next, Stop, Register, DiscoveryReply, DirectAnswer, Lose, AnswerLocal,
     RelayRemote, Live, RelayLost, ProxyRestart, Probe, ReadResponse, CloseWindow, vars, servers

\* For any servers that share hosts and ports, and heartbeats lost, repeated and
\* out of order, wherever the proxy restarts: once a heartbeat of a server with
\* an identity is recorded while none is under way from where it was before, no
\* registration of it names another place until it starts again.
THEOREM RestartedOnce == Spec => []RestartReplaces
<1>1. Spec => Init /\ [][Next]_vars
  BY DEF Spec
<1>2. Init => FreshInv
  BY DEF Init, FreshInv, RestartReplaces
<1>3. FreshInv => RestartReplaces
  BY DEF FreshInv
<1> QED
  BY <1>1, <1>2, <1>3, InitTyped, StepTyped, StepFresh, PTL

-----------------------------------------------------------------------------
(* Reachable *)

\* Where a server listens, somebody listens now.
ListeningIsNow == \A s \in Servers : up[s] => gone[At(s)] = 0

\* Who sent a heartbeat listened there when it was sent.
HeartbeatsFresh == \A h \in net : gone[<<h.host, h.port>>] <= h.age

\* Who is registered listened no longer before it was than a heartbeat takes.
EntriesFresh == \A e \in entries : e.seen <= TTL => gone[<<e.host, e.port>>] <= e.seen + MaxDelay

\* Nothing is under way to a socket that is closed.
ClosedSocket ==
  ~probing => job = "idle" /\ relays = {} /\ asked = {} /\ replies = {} /\ found = {}

\* The longest a client's answer may be out of date.
OutOfDate(a) == IF a[1] = ProxyHost THEN TTL + MaxDelay + Window ELSE Window

\* What is left of the window is left of an answer's time too.
AnswersFresh == \A a \in found \union replies : gone[a] + window <= OutOfDate(a)

ReachInv ==
  /\ ListeningIsNow /\ HeartbeatsFresh /\ EntriesFresh /\ ClosedSocket /\ AnswersFresh

LEMMA AddressesTyped ==
  ASSUME TypeOK
  PROVE  /\ \A a \in Addresses : gone[a] \in Nat
         /\ \A s \in Servers : At(s) \in Addresses
         /\ \A h \in net : <<h.host, h.port>> \in Addresses /\ h.age \in Nat
         /\ \A e \in entries : <<e.host, e.port>> \in Addresses /\ e.seen \in Nat
         /\ \A a \in found \union replies : a \in Addresses
         /\ window \in Nat
BY AddressTyped, ConstantsTyped DEF TypeOK, Addresses, Heartbeats, Registrations

LEMMA OutOfDateTyped ==
  ASSUME NEW a
  PROVE  OutOfDate(a) \in Nat /\ Window <= OutOfDate(a)
BY ConstantsTyped DEF OutOfDate

\* A tick makes every place at most one tick older; no other step makes one older.
LEMMA TickGone ==
  ASSUME TypeOK, Tick, NEW a \in Addresses
  PROVE  gone'[a] \in Nat /\ gone'[a] <= gone[a] + 1
<1>1. Older(gone[a], Forever) \in Nat /\ Older(gone[a], Forever) <= gone[a] + 1
  BY OlderBounds, ConstantsTyped DEF TypeOK
<1>2. gone[a] \in Nat
  BY AddressesTyped
<1>3. gone'[a] = 0 \/ gone'[a] = Older(gone[a], Forever)
  BY Zenon DEF Tick
<1> QED
  BY <1>1, <1>2, <1>3

LEMMA GoneSteps ==
  ASSUME TypeOK, [Next]_vars
  PROVE  Tick \/ \A a \in Addresses : gone'[a] \in Nat /\ gone'[a] <= gone[a]
<1>1. CASE UNCHANGED gone
  BY <1>1, AddressesTyped
<1>2. CASE \E s \in Servers, p \in Ports : Start(s, p)
  BY <1>2, AddressesTyped DEF Start, TypeOK
<1> QED
  BY <1>1, <1>2 DEF Next, Stop, Register, SendHeartbeats, DiscoveryReply, DirectAnswer, Lose,
     Deliver, AnswerLocal, RelayRemote, RelayLost, ProxyRestart, Probe, ReadResponse,
     CloseWindow, vars

LEMMA StepListening == TypeOK /\ ListeningIsNow /\ [Next]_vars => ListeningIsNow'
<1> SUFFICES ASSUME TypeOK, ListeningIsNow, [Next]_vars PROVE ListeningIsNow'
  OBVIOUS
<1>1. ASSUME NEW s \in Servers, NEW p \in Ports, Start(s, p) PROVE ListeningIsNow'
  <2> SUFFICES ASSUME NEW o \in Servers, up'[o] PROVE gone'[At(o)'] = 0
    BY DEF ListeningIsNow
  <2>1. CASE o = s
    BY <1>1, <2>1 DEF Start, At, TypeOK, Addresses
  <2>2. CASE o # s
    <3>1. At(o)' = At(o) /\ up[o]
      BY <1>1, <2>2 DEF Start, At, TypeOK
    <3>2. gone'[At(o)] = gone[At(o)] \/ gone'[At(o)] = 0
      BY <1>1, AddressTyped DEF Start, TypeOK
    <3> QED
      BY <3>1, <3>2 DEF ListeningIsNow
  <2> QED
    BY <2>1, <2>2
<1>2. ASSUME NEW s \in Servers, Stop(s) PROVE ListeningIsNow'
  BY <1>2 DEF ListeningIsNow, Stop, At, TypeOK
<1>3. ASSUME Tick PROVE ListeningIsNow'
  BY <1>3, AddressTyped DEF Tick, ListeningIsNow, At
<1>4. CASE UNCHANGED <<home, up, port, gone>>
  BY <1>4 DEF ListeningIsNow, At
<1> QED
  BY <1>1, <1>2, <1>3, <1>4 DEF Next, Register, SendHeartbeats, DiscoveryReply, DirectAnswer, Lose,
     Deliver, AnswerLocal, RelayRemote, RelayLost, ProxyRestart, Probe, ReadResponse,
     CloseWindow, vars, servers

LEMMA StepHeartbeats ==
  TypeOK /\ ListeningIsNow /\ HeartbeatsFresh /\ [Next]_vars => HeartbeatsFresh'
<1> SUFFICES ASSUME TypeOK, ListeningIsNow, HeartbeatsFresh, [Next]_vars PROVE HeartbeatsFresh'
  OBVIOUS
<1>1. CASE \E s \in Servers : SendHeartbeats(s)
  <2>1. PICK s \in Servers : SendHeartbeats(s)
    BY <1>1
  <2>2. UNCHANGED gone /\ gone[<<home[s], port[s]>>] = 0
    BY <2>1 DEF SendHeartbeats, ListeningIsNow, At
  <2>3. ASSUME NEW h \in net' PROVE gone[<<h.host, h.port>>] <= h.age
    <3>1. CASE h \in net
      BY <3>1 DEF HeartbeatsFresh
    <3>2. CASE h = [from |-> s, host |-> home[s], port |-> port[s], age |-> 0]
      BY <3>2, <2>2
    <3> QED
      BY <2>1, <3>1, <3>2 DEF SendHeartbeats
  <2> QED
    BY <2>2, <2>3 DEF HeartbeatsFresh
<1>2. CASE Tick
  <2> SUFFICES ASSUME NEW h \in net PROVE gone'[<<h.host, h.port>>] <= h.age + 1
    BY <1>2 DEF Tick, HeartbeatsFresh, TypeOK, Heartbeats
  <2> QED
    BY <1>2, TickGone, AddressesTyped DEF HeartbeatsFresh
<1>3. CASE net' \subseteq net /\ ~Tick
  <2> SUFFICES ASSUME NEW h \in net PROVE gone'[<<h.host, h.port>>] <= h.age
    BY <1>3 DEF HeartbeatsFresh
  <2>1. gone[<<h.host, h.port>>] <= h.age
    BY DEF HeartbeatsFresh
  <2> QED
    BY <1>3, <2>1, GoneSteps, AddressesTyped
<1> QED
  BY <1>1, <1>2, <1>3 DEF Next, Start, Stop, Register, DiscoveryReply, DirectAnswer, Lose,
     Deliver, AnswerLocal, RelayRemote, RelayLost, ProxyRestart, Probe, ReadResponse,
     CloseWindow, vars

LEMMA StepEntries ==
  TypeOK /\ HeartbeatsFresh /\ EntriesFresh /\ [Next]_vars => EntriesFresh'
<1> SUFFICES ASSUME TypeOK, HeartbeatsFresh, EntriesFresh, [Next]_vars PROVE EntriesFresh'
  OBVIOUS
<1> USE ConstantsTyped
<1>1. CASE \E h \in net, again \in BOOLEAN : Deliver(h, again)
  <2>1. PICK h \in net, again \in BOOLEAN : Deliver(h, again)
    BY <1>1
  <2> DEFINE new == [from |-> h.from, host |-> h.host, port |-> h.port, seen |-> 0]
  <2>2. gone[<<h.host, h.port>>] <= 0 + MaxDelay
    BY AddressesTyped DEF HeartbeatsFresh, TypeOK, Heartbeats
  <2>3. \A e \in entries' : e = new \/ e \in entries
    BY <2>1 DEF Deliver, Record
  <2> QED
    BY <2>1, <2>2, <2>3 DEF Deliver, EntriesFresh
<1>2. CASE Tick
  <2> SUFFICES ASSUME NEW e \in entries, Older(e.seen, TTL + 1) <= TTL
               PROVE  gone'[<<e.host, e.port>>] <= Older(e.seen, TTL + 1) + MaxDelay
    BY <1>2 DEF Tick, EntriesFresh, TypeOK, Registrations
  <2>1. e.seen <= TTL /\ Older(e.seen, TTL + 1) = e.seen + 1
    <3>1. e.seen \in Nat
      BY AddressesTyped
    <3>2. e.seen < TTL + 1
      BY <3>1 DEF Older
    <3> QED
      BY <3>1, <3>2 DEF Older
  <2>2. gone[<<e.host, e.port>>] <= e.seen + MaxDelay
    BY <2>1 DEF EntriesFresh
  <2> QED
    BY <1>2, <2>1, <2>2, TickGone, AddressesTyped
<1>3. CASE entries' \subseteq entries /\ ~Tick
  <2> SUFFICES ASSUME NEW e \in entries, e.seen <= TTL
               PROVE  gone'[<<e.host, e.port>>] <= e.seen + MaxDelay
    BY <1>3 DEF EntriesFresh
  <2>1. gone[<<e.host, e.port>>] <= e.seen + MaxDelay
    BY DEF EntriesFresh
  <2> QED
    BY <1>3, <2>1, GoneSteps, AddressesTyped
<1> QED
  BY <1>1, <1>2, <1>3 DEF Next, Start, Stop, Register, SendHeartbeats, DiscoveryReply, DirectAnswer,
     Lose, AnswerLocal, RelayRemote, Live, RelayLost, ProxyRestart, Probe, ReadResponse,
     CloseWindow, vars

LEMMA StepClosed == TypeOK /\ ClosedSocket /\ [Next]_vars => ClosedSocket'
<1> SUFFICES ASSUME TypeOK, ClosedSocket, [Next]_vars, ~probing'
             PROVE  /\ job' = "idle" /\ relays' = {} /\ asked' = {}
                    /\ replies' = {} /\ found' = {}
  BY DEF ClosedSocket
<1>1. CASE CloseWindow
  BY <1>1 DEF CloseWindow
<1>2. CASE ~CloseWindow
  <2>1. ~Probe
    BY DEF Probe
  <2>2. UNCHANGED probing
    BY <1>2, <2>1 DEF Next, Start, Stop, Register, SendHeartbeats, DiscoveryReply, DirectAnswer, Lose,
       Deliver, AnswerLocal, RelayRemote, RelayLost, ProxyRestart, ReadResponse, Tick, vars, client
  <2>3. job = "idle" /\ relays = {} /\ asked = {} /\ replies = {} /\ found = {}
    BY <2>2 DEF ClosedSocket
  <2> QED
    BY <1>2, <2>1, <2>3 DEF Next, Start, Stop, Register, SendHeartbeats, DiscoveryReply, DirectAnswer,
       Lose, Deliver, AnswerLocal, RelayRemote, RelayLost, ProxyRestart, ReadResponse, Tick, vars, client
<1> QED
  BY <1>1, <1>2

LEMMA StepAnswers ==
  TypeOK /\ ReachInv /\ [Next]_vars => AnswersFresh'
<1> SUFFICES ASSUME TypeOK, ReachInv, [Next]_vars PROVE AnswersFresh'
  OBVIOUS
<1> USE ConstantsTyped
<1>1. window <= Window /\ window \in Nat
  BY DEF TypeOK
<1>2. \A a \in Addresses : gone[a] = 0 => gone[a] + window <= OutOfDate(a)
  BY <1>1, OutOfDateTyped
<1>3. CASE AnswerLocal
  <2>1. ASSUME NEW e \in Live(entries)
        PROVE  gone[<<ProxyHost, e.port>>] + window <= OutOfDate(<<ProxyHost, e.port>>)
               \/ ~IsLocal(e)
    <3>1. CASE IsLocal(e)
      <4>1. gone[<<ProxyHost, e.port>>] <= TTL + MaxDelay
        BY <2>1, <3>1, AddressesTyped DEF ReachInv, EntriesFresh, Live, IsLocal
      <4>2. OutOfDate(<<ProxyHost, e.port>>) = TTL + MaxDelay + Window
        BY DEF OutOfDate
      <4>3. gone[<<ProxyHost, e.port>>] \in Nat
        BY <2>1, <3>1, AddressesTyped DEF Live, IsLocal
      <4> QED
        BY <1>1, <4>1, <4>2, <4>3
    <3> QED
      BY <3>1
  <2> QED
    BY <1>3, <2>1 DEF AnswerLocal, ReachInv, AnswersFresh
<1>4. CASE \E s \in Servers : DiscoveryReply(s)
  <2>1. PICK s \in Servers : DiscoveryReply(s)
    BY <1>4
  <2>2. replies' \subseteq replies \union {At(s)} /\ UNCHANGED <<gone, window, found>>
    BY <2>1 DEF DiscoveryReply
  <2>3. gone[At(s)] + window <= OutOfDate(At(s))
    BY <1>2, <2>1, AddressTyped DEF DiscoveryReply, ReachInv, ListeningIsNow
  <2> QED
    BY <2>2, <2>3 DEF ReachInv, AnswersFresh
<1>5. CASE \E s \in Servers : DirectAnswer(s)
  <2>1. PICK s \in Servers : DirectAnswer(s)
    BY <1>5
  <2>2. /\ UNCHANGED <<gone, window, found>>
        /\ replies' = replies \/ (up[s] /\ replies' = replies \union {At(s)})
    BY <2>1 DEF DirectAnswer
  <2>3. up[s] => gone[At(s)] + window <= OutOfDate(At(s))
    BY <1>2, AddressTyped DEF ReachInv, ListeningIsNow
  <2> QED
    BY <2>2, <2>3 DEF ReachInv, AnswersFresh
<1>6. CASE Probe
  BY <1>6 DEF Probe, ReachInv, ClosedSocket, AnswersFresh
<1>7. CASE Tick
  <2>1. CASE ~probing
    BY <1>7, <2>1 DEF Tick, ReachInv, ClosedSocket, AnswersFresh
  <2>2. CASE probing
    <3> SUFFICES ASSUME NEW a \in found \union replies
                 PROVE  gone'[a] + window' <= OutOfDate(a)
      BY <1>7 DEF Tick, AnswersFresh, OutOfDate
    <3>1. a \in Addresses /\ gone[a] \in Nat
      BY AddressesTyped
    <3>2. gone'[a] \in Nat /\ gone'[a] <= gone[a] + 1
      BY <1>7, <3>1, TickGone
    <3>3. window' = window - 1
      BY <1>7, <2>2 DEF Tick
    <3>4. gone[a] + window <= OutOfDate(a)
      BY DEF ReachInv, AnswersFresh
    <3> QED
      BY <1>1, <3>1, <3>2, <3>3, <3>4, OutOfDateTyped
  <2> QED
    BY <2>1, <2>2
<1>8. CASE CloseWindow
  BY <1>8 DEF CloseWindow, AnswersFresh
<1>9. CASE ~Tick /\ UNCHANGED window /\ found' \union replies' \subseteq found \union replies
  <2> SUFFICES ASSUME NEW a \in found \union replies PROVE gone'[a] + window <= OutOfDate(a)
    BY <1>9 DEF AnswersFresh, OutOfDate
  <2>1. gone'[a] \in Nat /\ gone'[a] <= gone[a] /\ gone[a] \in Nat
    BY <1>9, GoneSteps, AddressesTyped
  <2>2. gone[a] + window <= OutOfDate(a)
    BY DEF ReachInv, AnswersFresh
  <2> QED
    BY <1>1, <2>1, <2>2, OutOfDateTyped
<1> QED
  BY <1>3, <1>4, <1>5, <1>6, <1>7, <1>8, <1>9 DEF Next, Start, Stop, Register, SendHeartbeats, Lose,
     Deliver, RelayRemote, RelayLost, ProxyRestart, ReadResponse, vars, client

\* For any servers, hosts and bounds, whatever datagrams are lost, delayed or
\* repeated, and wherever servers stop, restart or the proxy does: an address a
\* client finds was listening no longer ago than its window if the server
\* answered for itself, and than a registration lives if the proxy did.
THEOREM FoundIsReachable == Spec => []Reachable
<1>1. Spec => Init /\ [][Next]_vars
  BY DEF Spec
<1>2. Init => ReachInv
  BY DEF Init, ReachInv, ListeningIsNow, HeartbeatsFresh, EntriesFresh, ClosedSocket, AnswersFresh
<1>3. TypeOK /\ ReachInv /\ [Next]_vars => ReachInv'
  BY StepListening, StepHeartbeats, StepEntries, StepClosed, StepAnswers DEF ReachInv
<1>4. TypeOK /\ ReachInv => Reachable
  <2> SUFFICES ASSUME TypeOK, ReachInv, NEW a \in found \union replies
               PROVE  gone[a] <= OutOfDate(a)
    BY DEF Reachable, OutOfDate
  <2> QED
    BY AddressesTyped, OutOfDateTyped DEF ReachInv, AnswersFresh
<1> QED
  BY <1>1, <1>2, <1>3, <1>4, InitTyped, StepTyped, PTL

-----------------------------------------------------------------------------
(* What Converges rests on: who is forgotten, and who is not *)

\* All that is known of the server lives at most n more ticks: the heartbeats
\* still under way with the registrations they would be, and the registrations.
LivesAtMost(s, n) ==
  /\ \A h \in net : h.from = s => TTL + 1 + MaxDelay <= n + h.age
  /\ \A e \in entries : e.from = s /\ e.seen <= TTL => TTL + 1 <= n + e.seen

LEMMA AgesTyped ==
  ASSUME TypeOK
  PROVE  /\ \A h \in net : h.age \in Nat /\ h.age <= MaxDelay
         /\ \A e \in entries : e.seen \in Nat
BY ConstantsTyped DEF TypeOK, Heartbeats, Registrations

\* Nothing adds to it while the server is down, and every tick takes one away.
LEMMA FadeStep ==
  ASSUME TypeOK, [Next]_vars, NEW s \in Servers, ~up[s], NEW n \in Nat, LivesAtMost(s, n)
  PROVE  LivesAtMost(s, n)' /\ (Tick /\ n > 0 => LivesAtMost(s, n - 1)')
<1> USE ConstantsTyped
<1>0. /\ \A h \in net : h.age \in Nat /\ h.age <= MaxDelay
      /\ \A e \in entries : e.seen \in Nat
  BY AgesTyped
<1>1. ASSUME Tick PROVE LivesAtMost(s, n)' /\ (n > 0 => LivesAtMost(s, n - 1)')
  <2>1. \A h \in net' : \E g \in net : h.from = g.from /\ h.age = g.age + 1
    BY <1>1 DEF Tick, TypeOK, Heartbeats
  <2>2. \A e \in entries' : \E d \in entries : e.from = d.from /\ e.seen = Older(d.seen, TTL + 1)
    BY <1>1 DEF Tick, TypeOK, Registrations
  <2>3. ASSUME NEW h \in net', h.from = s
        PROVE  TTL + 1 + MaxDelay <= (n - 1) + h.age /\ h.age \in Nat
    <3>1. PICK g \in net : h.from = g.from /\ h.age = g.age + 1
      BY <2>1
    <3>2. TTL + 1 + MaxDelay <= n + g.age /\ g.age \in Nat
      BY <1>0, <2>3, <3>1 DEF LivesAtMost
    <3> QED
      BY <3>1, <3>2
  <2>4. ASSUME NEW e \in entries', e.from = s, e.seen <= TTL
        PROVE  TTL + 1 <= (n - 1) + e.seen /\ e.seen \in Nat
    <3>1. PICK d \in entries : e.from = d.from /\ e.seen = Older(d.seen, TTL + 1)
      BY <2>2
    <3>2. d.seen \in Nat
      BY <1>0
    <3>3. d.seen <= TTL /\ e.seen = d.seen + 1
      BY <2>4, <3>1, <3>2 DEF Older
    <3>4. TTL + 1 <= n + d.seen
      BY <2>4, <3>1, <3>3 DEF LivesAtMost
    <3> QED
      BY <3>2, <3>3, <3>4
  <2>5. LivesAtMost(s, n)'
    <3>1. \A h \in net' : h.from = s => TTL + 1 + MaxDelay <= n + h.age
      BY <2>3
    <3>2. \A e \in entries' : e.from = s /\ e.seen <= TTL => TTL + 1 <= n + e.seen
      BY <2>4
    <3> QED
      BY <3>1, <3>2 DEF LivesAtMost
  <2>6. LivesAtMost(s, n - 1)'
    BY <2>3, <2>4 DEF LivesAtMost
  <2> QED
    BY <2>5, <2>6
<1>2. ASSUME NEW h \in net, NEW again \in BOOLEAN, Deliver(h, again) PROVE LivesAtMost(s, n)'
  <2> DEFINE new == [from |-> h.from, host |-> h.host, port |-> h.port, seen |-> 0]
  <2>1. net' \subseteq net /\ \A e \in entries' : e = new \/ e \in entries
    BY <1>2 DEF Deliver, Record
  <2>2. new.from = s => TTL + 1 <= n + new.seen
    BY <1>0 DEF LivesAtMost
  <2> QED
    BY <2>1, <2>2 DEF LivesAtMost
<1>3. ASSUME NEW o \in Servers, SendHeartbeats(o) PROVE LivesAtMost(s, n)'
  <2>1. o # s
    BY <1>3 DEF SendHeartbeats
  <2>2. entries' = entries /\ \A h \in net' : h \in net \/ h.from = o
    BY <1>3 DEF SendHeartbeats
  <2> QED
    BY <2>1, <2>2 DEF LivesAtMost
<1>4. ASSUME net' \subseteq net, entries' \subseteq entries PROVE LivesAtMost(s, n)'
  BY <1>4 DEF LivesAtMost
<1>5. \/ Tick \/ (\E o \in Servers : SendHeartbeats(o))
      \/ \E h \in net, again \in BOOLEAN : Deliver(h, again)
      \/ ~Tick /\ net' \subseteq net /\ entries' \subseteq entries
  BY DEF Next, Start, Stop, Register, DiscoveryReply, DirectAnswer, Lose, AnswerLocal, RelayRemote,
     Live, RelayLost, ProxyRestart, Probe, ReadResponse, CloseWindow, Tick, vars
<1> QED
  BY <1>1, <1>2, <1>3, <1>4, <1>5

\* At any time, what is known of a server lives at most a delay and a
\* registration's life; while the server is down nothing adds to that, however
\* datagrams are repeated or late, and every tick of the clock takes one away;
\* when none is left, no live registration and no heartbeat of it is left.
THEOREM Forgotten ==
  Spec => /\ [](\A s \in Servers : /\ LivesAtMost(s, TTL + 1 + MaxDelay)
                                   /\ LivesAtMost(s, 0) => \A e \in Live(entries) \union net : e.from # s)
          /\ [][\A s \in Servers, n \in Nat : ~up[s] /\ LivesAtMost(s, n)
                  => LivesAtMost(s, n)' /\ (Tick /\ n > 0 => LivesAtMost(s, n - 1)')]_vars
<1> DEFINE Bounded == \A s \in Servers :
             /\ LivesAtMost(s, TTL + 1 + MaxDelay)
             /\ LivesAtMost(s, 0) => \A e \in Live(entries) \union net : e.from # s
           Fades == \A s \in Servers, n \in Nat : ~up[s] /\ LivesAtMost(s, n)
             => LivesAtMost(s, n)' /\ (Tick /\ n > 0 => LivesAtMost(s, n - 1)')
<1>1. Spec => Init /\ [][Next]_vars
  BY DEF Spec
<1>2. TypeOK => Bounded
  <2> SUFFICES ASSUME TypeOK, NEW s \in Servers
               PROVE  /\ LivesAtMost(s, TTL + 1 + MaxDelay)
                      /\ LivesAtMost(s, 0) => \A e \in Live(entries) \union net : e.from # s
    OBVIOUS
  <2>1. /\ \A h \in net : h.age \in Nat /\ h.age <= MaxDelay
        /\ \A e \in entries : e.seen \in Nat
    BY AgesTyped
  <2>2. LivesAtMost(s, TTL + 1 + MaxDelay)
    BY <2>1, ConstantsTyped DEF LivesAtMost
  <2>3. ASSUME LivesAtMost(s, 0), NEW h \in net PROVE h.from # s
    BY <2>1, <2>3, ConstantsTyped DEF LivesAtMost
  <2>4. ASSUME LivesAtMost(s, 0), NEW e \in Live(entries) PROVE e.from # s
    BY <2>1, <2>4, ConstantsTyped DEF LivesAtMost, Live
  <2> QED
    BY <2>2, <2>3, <2>4
<1>3. TypeOK /\ [Next]_vars => Fades
  BY FadeStep
<1> QED
  BY <1>1, <1>2, <1>3, InitTyped, StepTyped, PTL

\* The table has one registration of a server that has an identity.
OneRegistration ==
  \A d, e \in entries : d.from = e.from /\ e.from \in named => d = e

LEMMA StepOneRegistration == TypeOK /\ OneRegistration /\ [Next]_vars => OneRegistration'
<1> SUFFICES ASSUME TypeOK, OneRegistration, [Next]_vars PROVE OneRegistration'
  OBVIOUS
<1>1. CASE \E h \in net, again \in BOOLEAN : Deliver(h, again)
  <2>1. PICK h \in net : entries' = Record(h) /\ UNCHANGED named
    BY <1>1 DEF Deliver, servers
  <2> DEFINE new == [from |-> h.from, host |-> h.host, port |-> h.port, seen |-> 0]
  <2>2. \A o \in entries' : o = new \/ (o \in entries /\ Key(o) # Key(new))
    BY <2>1 DEF Record
  <2>3. \A o : o.from = new.from /\ new.from \in named => Key(o) = Key(new)
    BY DEF Key
  <2> QED
    BY <2>1, <2>2, <2>3 DEF OneRegistration
<1>2. CASE Tick
  <2>1. \A o \in entries' : \E e \in entries :
          o = [e EXCEPT !.seen = Older(@, TTL + 1)] /\ o.from = e.from
    BY <1>2 DEF Tick, TypeOK, Registrations
  <2> QED
    BY <1>2, <2>1 DEF OneRegistration, Tick
<1>3. CASE entries' \subseteq entries /\ UNCHANGED named
  BY <1>3 DEF OneRegistration
<1>4. \/ \E h \in net, again \in BOOLEAN : Deliver(h, again)
      \/ Tick
      \/ entries' \subseteq entries /\ UNCHANGED named
  <2>1. ASSUME NEW s \in Servers,
               (\E p \in Ports : Start(s, p)) \/ Stop(s) \/ (\E ok \in BOOLEAN : Register(s, ok))
               \/ SendHeartbeats(s) \/ DiscoveryReply(s) \/ DirectAnswer(s)
        PROVE  UNCHANGED <<entries, named>>
    BY <2>1 DEF Start, Stop, Register, SendHeartbeats, DiscoveryReply, DirectAnswer, servers
  <2>2. ASSUME \/ \E h \in net : Lose(h)
               \/ \E a \in relays : RelayLost(a)
               \/ \E a \in replies : ReadResponse(a)
               \/ Probe \/ CloseWindow \/ UNCHANGED vars
        PROVE  UNCHANGED <<entries, named>>
    BY <2>2 DEF Lose, RelayLost, ReadResponse, Probe, CloseWindow, vars, servers
  <2>3. ASSUME AnswerLocal \/ RelayRemote \/ ProxyRestart
        PROVE  entries' \subseteq entries /\ UNCHANGED named
    BY <2>3 DEF AnswerLocal, RelayRemote, ProxyRestart, Live, servers
  <2> QED
    BY <2>1, <2>2, <2>3 DEF Next
<1> QED
  BY <1>1, <1>2, <1>3, <1>4

\* A server with an identity that is listed stays so until it moves, its
\* registration has lived its time, the proxy loses its table, or a heartbeat
\* of a place it has left arrives late: no other server's heartbeat, reply, relay
\* or look at the table drops it.
THEOREM ListedStays ==
  Spec => [][\A s \in named : Listed(s) /\ ~Listed(s)' =>
               \/ ProxyRestart
               \/ \E p \in Ports : Start(s, p)
               \/ Tick /\ \A e \in entries : e.from = s => e.seen >= TTL
               \/ \E h \in net, again \in BOOLEAN :
                    Deliver(h, again) /\ h.from = s /\ <<h.host, h.port>> # At(s)]_vars
<1> DEFINE Drops(s) ==
      \/ ProxyRestart
      \/ \E p \in Ports : Start(s, p)
      \/ Tick /\ \A e \in entries : e.from = s => e.seen >= TTL
      \/ \E h \in net, again \in BOOLEAN : Deliver(h, again) /\ h.from = s /\ <<h.host, h.port>> # At(s)
<1>1. Spec => Init /\ [][Next]_vars
  BY DEF Spec
<1>2. Init => OneRegistration
  BY DEF Init, OneRegistration
<1>3. TypeOK /\ OneRegistration /\ [Next]_vars => [\A s \in named : Listed(s) /\ ~Listed(s)' => Drops(s)]_vars
  <2> SUFFICES ASSUME TypeOK, OneRegistration, [Next]_vars, NEW s \in named, Listed(s), ~Drops(s)
               PROVE  Listed(s)'
    OBVIOUS
  <2>1. PICK e \in entries : e.from = s /\ <<e.host, e.port>> = At(s) /\ e.seen <= TTL
    BY DEF Listed, Live
  <2>0. s \in Servers /\ TTL \in Nat /\ e.seen \in Nat
    BY AgesTyped, ConstantsTyped DEF TypeOK
  <2>2. At(s)' = At(s)
    <3>1. CASE \E o \in Servers, p \in Ports : Start(o, p)
      <4>1. PICK o \in Servers, p \in Ports : Start(o, p)
        BY <3>1
      <4>2. o # s
        BY <4>1
      <4> QED
        BY <2>0, <4>1, <4>2 DEF Start, At, TypeOK
    <3>2. CASE UNCHANGED <<home, port>>
      BY <3>2 DEF At
    <3> QED
      BY <3>1, <3>2 DEF Next, Stop, Register, SendHeartbeats, DiscoveryReply, DirectAnswer, Lose, Deliver,
         AnswerLocal, RelayRemote, RelayLost, ProxyRestart, Probe, ReadResponse, CloseWindow, Tick, vars, servers
  <2>3. ASSUME NEW d \in entries', d.from = s, <<d.host, d.port>> = At(s), d.seen <= TTL
        PROVE  Listed(s)'
    BY <2>2, <2>3 DEF Listed, Live
  <2>4. CASE Tick
    <3>1. e.seen < TTL
      BY <2>0, <2>1, <2>4 DEF OneRegistration
    <3> DEFINE d == [e EXCEPT !.seen = Older(e.seen, TTL + 1)]
    <3>2. Older(e.seen, TTL + 1) = e.seen + 1
      BY <2>0, <3>1 DEF Older
    <3>3. d \in entries'
      BY <2>4, Zenon DEF Tick
    <3>4. d.from = e.from /\ d.host = e.host /\ d.port = e.port /\ d.seen = e.seen + 1
      BY <3>2 DEF TypeOK, Registrations
    <3> HIDE DEF d
    <3>5. d.seen <= TTL
      BY <2>0, <3>1, <3>4
    <3> QED
      BY <2>1, <2>3, <3>3, <3>4, <3>5
  <2>5. ASSUME NEW h \in net, NEW again \in BOOLEAN, Deliver(h, again) PROVE Listed(s)'
    <3> DEFINE new == [from |-> h.from, host |-> h.host, port |-> h.port, seen |-> 0]
    <3>1. entries' = {new} \union {o \in entries : Key(o) # Key(new)}
      BY <2>5 DEF Deliver, Record
    <3>2. CASE h.from = s
      <4>1. <<h.host, h.port>> = At(s)
        BY <2>5, <3>2
      <4> QED
        BY <2>0, <2>3, <3>1, <3>2, <4>1
    <3>3. CASE h.from # s
      <4>1. Key(e) = <<s>>
        BY <2>1 DEF Key
      <4>2. Key(new) # <<s>>
        BY <3>3 DEF Key
      <4>3. e \in entries'
        BY <3>1, <4>1, <4>2
      <4> QED
        BY <2>1, <2>3, <4>3
    <3> QED
      BY <3>2, <3>3
  <2>6. CASE Live(entries) \subseteq entries'
    BY <2>1, <2>3, <2>6 DEF Live
  <2> QED
    BY <2>4, <2>5, <2>6 DEF Next, Start, Stop, Register, SendHeartbeats, DiscoveryReply, DirectAnswer, Lose,
       AnswerLocal, RelayRemote, RelayLost, ProxyRestart, Probe, ReadResponse, CloseWindow, Live, vars
<1> QED
  BY <1>1, <1>2, <1>3, InitTyped, StepTyped, StepOneRegistration, PTL
=============================================================================
