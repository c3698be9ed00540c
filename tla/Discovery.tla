------------------------------ MODULE Discovery ------------------------------
(***************************************************************************)
(* Discovery: servers that answer probes themselves (Direct) or send       *)
(* heartbeats to a discovery proxy (Register), the proxy's registrations   *)
(* with their TTL, the relay to servers on other hosts, and a client's     *)
(* probe (server/discovery.go, discovery_registry.go, discovery_relay.go,  *)
(* cmd/discover_proxy/main.go, client/discovery.go).                       *)
(*                                                                         *)
(* Datagrams are lost, duplicated, delayed and reordered.  A host has one  *)
(* address; a server hosts one device.  A tick is one heartbeat interval.  *)
(***************************************************************************)
EXTENDS Naturals, FiniteSets

CONSTANTS
  Servers,
  Hosts,
  ProxyHost,
  Ports,
  TTL,        \* intervals a registration lives
  MaxDelay,   \* bound: ticks a datagram may be under way
  MaxNet,     \* bound: heartbeats of a server under way
  Window,     \* ticks a client waits for replies
  Burst,      \* relay tokens of a server
  Refill      \* tokens it regains in a tick

ASSUME DiscoveryAssumption ==
  /\ ProxyHost \in Hosts
  /\ {TTL, MaxNet, Burst, Refill} \subseteq Nat \ {0} /\ {MaxDelay, Window} \subseteq Nat

VARIABLES
  mode,     \* server -> Discovery.Mode
  home,     \* server -> host
  named,    \* the servers whose device has a UniqueID or an instance name
  up, port, \* server -> whether it listens, and where it last did
  reg,      \* server -> how runRegisterDiscovery has come along
  due,      \* server -> ticks until its next heartbeat
  tokens,   \* server -> its rateGate
  net,      \* heartbeats under way
  entries,  \* Registrations.entries
  job,      \* what the proxy still has to do for the probe
  relays,   \* relay requests under way
  probing, window, asked, replies, found,  \* the client: its socket and what it heard
  gone,     \* history: address -> ticks since somebody listened there, at most Forever
  fresh     \* history: who was recorded where it is, with nothing left of where it was

servers == <<mode, home, named, up, port, reg, due, tokens>>
client == <<probing, window, asked, replies, found>>
vars == <<servers, net, entries, job, relays, client, gone, fresh>>

Addresses == Hosts \X Ports

\* An age past which nothing distinguishes.
Forever == TTL + MaxDelay + Window + 1

Heartbeats == [from : Servers, host : Hosts, port : Ports, age : 0..MaxDelay]

Registrations == [from : Servers, host : Hosts, port : Ports, seen : 0..(TTL + 1)]

At(s) == <<home[s], port[s]>>

Older(n, most) == IF n < most THEN n + 1 ELSE n

-----------------------------------------------------------------------------
(* Servers *)

Init ==
  /\ mode \in [Servers -> {"direct", "register"}]
  /\ home \in [Servers -> Hosts]
  /\ named \in SUBSET Servers
  /\ up = [s \in Servers |-> FALSE]
  /\ port \in [Servers -> Ports]
  /\ reg = [s \in Servers |-> "new"]
  /\ due = [s \in Servers |-> 0]
  /\ tokens = [s \in Servers |-> Burst]
  /\ net = {} /\ entries = {} /\ job = "idle" /\ relays = {}
  /\ probing = FALSE /\ window = 0 /\ asked = {} /\ replies = {} /\ found = {}
  /\ gone = [a \in Addresses |-> Forever] /\ fresh = {}

\* A server binds a port that is free on its host, perhaps not the one it had.
Start(s, p) ==
  /\ ~up[s]
  /\ ~\E o \in Servers : up[o] /\ At(o) = <<home[s], p>>
  /\ up' = [up EXCEPT ![s] = TRUE]
  /\ port' = [port EXCEPT ![s] = p]
  /\ reg' = [reg EXCEPT ![s] = "new"]
  /\ due' = [due EXCEPT ![s] = 0]
  /\ tokens' = [tokens EXCEPT ![s] = Burst]
  /\ gone' = [gone EXCEPT ![<<home[s], p>>] = 0]
  /\ fresh' = fresh \ {s}
  /\ UNCHANGED <<mode, home, named, net, entries, job, relays, client>>

\* It stops, or crashes: nobody is told.
Stop(s) ==
  /\ up[s]
  /\ up' = [up EXCEPT ![s] = FALSE]
  /\ UNCHANGED <<mode, home, named, port, reg, due, tokens, net, entries, job, relays, client, gone, fresh>>

\* The proxy's name is resolved once; when that fails, discovery is off.
Register(s, ok) ==
  /\ up[s] /\ mode[s] = "register" /\ reg[s] = "new"
  /\ reg' = [reg EXCEPT ![s] = IF ok THEN "on" ELSE "off"]
  /\ UNCHANGED <<mode, home, named, up, port, due, tokens, net, entries, job, relays, client, gone, fresh>>

SendHeartbeats(s) ==
  /\ up[s] /\ reg[s] = "on" /\ due[s] = 0
  /\ Cardinality({h \in net : h.from = s}) < MaxNet
  /\ net' = net \union {[from |-> s, host |-> home[s], port |-> port[s], age |-> 0]}
  /\ due' = [due EXCEPT ![s] = 1]
  /\ UNCHANGED <<mode, home, named, up, port, reg, tokens, entries, job, relays, client, gone, fresh>>

-----------------------------------------------------------------------------
(* The proxy's registrations *)

\* Seeded fault: registrations are kept by address.
Key_Address(e) == <<e.host, e.port>>

\* The device's identity, or, when it has none, its address.
Key(e) == IF e.from \in named THEN <<e.from>> ELSE <<e.host, e.port>>

Record(h) ==
  LET e == [from |-> h.from, host |-> h.host, port |-> h.port, seen |-> 0] IN
    {e} \union {o \in entries : Key(o) # Key(e)}

\* Heartbeats of a server, still under way, that name a place it has left.
Outdated(s) == {h \in net : h.from = s /\ <<h.host, h.port>> # At(s)}

\* A heartbeat arrives, and perhaps once more.
Deliver(h, again) ==
  /\ h \in net
  /\ entries' = Record(h)
  /\ net' = IF again THEN net ELSE net \ {h}
  /\ fresh' = IF Outdated(h.from) = {} THEN fresh \union {h.from} ELSE fresh
  /\ UNCHANGED <<servers, job, relays, client, gone>>

Lose(h) ==
  /\ h \in net
  /\ net' = net \ {h}
  /\ UNCHANGED <<servers, entries, job, relays, client, gone, fresh>>

\* Seeded fault: nothing expires.
Live_Keeps(es) == es

Live(es) == {e \in es : e.seen <= TTL}

IsLocal(e) == e.host = ProxyHost

\* A probe that reached the proxy: the local ports are answered ...
AnswerLocal ==
  /\ job = "ports"
  /\ job' = "relay"
  /\ entries' = Live(entries)
  /\ replies' = replies \union {<<ProxyHost, e.port>> : e \in {l \in Live(entries) : IsLocal(l)}}
  /\ UNCHANGED <<servers, net, relays, probing, window, asked, found, gone, fresh>>

\* ... and then, on a second look at the table, the others are asked to.
RelayRemote ==
  /\ job = "relay"
  /\ job' = "idle"
  /\ entries' = Live(entries)
  /\ relays' = relays \union {<<e.host, e.port>> : e \in {r \in Live(entries) : ~IsLocal(r)}}
  /\ UNCHANGED <<servers, net, client, gone, fresh>>

\* Seeded fault: an idle server saves up more than a burst.
Refilled_NoCap(n) == n + Refill

\* The refill that take() finds due.
Refilled(n) == IF n + Refill > Burst THEN Burst ELSE n + Refill

\* A server accepts a relay request once it knows its proxy, while tokens last,
\* and sends the reply from its own address.
DiscoveryReply(s) ==
  /\ At(s) \in relays /\ up[s]
  /\ relays' = relays \ {At(s)}
  /\ IF mode[s] = "register" /\ reg[s] = "on" /\ tokens[s] > 0
       THEN /\ tokens' = [tokens EXCEPT ![s] = @ - 1]
            /\ replies' = replies \union {At(s)}
       ELSE UNCHANGED <<tokens, replies>>
  /\ UNCHANGED <<mode, home, named, up, port, reg, due, net, entries, job, probing, window, asked,
                 found, gone, fresh>>

\* Nobody is there, or the request times out.
RelayLost(a) ==
  /\ a \in relays
  /\ relays' = relays \ {a}
  /\ UNCHANGED <<servers, net, entries, job, client, gone, fresh>>

\* The table is kept in memory only.
ProxyRestart ==
  /\ entries' = {} /\ job' = "idle" /\ relays' = {}
  /\ UNCHANGED <<servers, net, client, gone, fresh>>

-----------------------------------------------------------------------------
(* The client *)

\* The probe reaches the proxy, or does not, and some of the direct servers.
Probe ==
  /\ ~probing
  /\ probing' = TRUE /\ window' = Window /\ found' = {}
  /\ job' \in {"ports", "idle"}
  /\ asked' = {s \in Servers : up[s] /\ mode[s] = "direct"}
  /\ UNCHANGED <<servers, net, entries, relays, replies, gone, fresh>>

DirectAnswer(s) ==
  /\ s \in asked
  /\ asked' = asked \ {s}
  /\ replies' = IF up[s] THEN replies \union {At(s)} ELSE replies
  /\ UNCHANGED <<servers, net, entries, job, relays, probing, window, found, gone, fresh>>

ReadResponse(a) ==
  /\ a \in replies
  /\ replies' = replies \ {a}
  /\ found' = found \union {a}
  /\ UNCHANGED <<servers, net, entries, job, relays, probing, window, asked, gone, fresh>>

\* The deadline, or the caller's cancellation, closes the socket: what has not
\* been read is lost, and what is asked for now would be.
CloseWindow ==
  /\ probing
  /\ probing' = FALSE /\ window' = 0 /\ asked' = {} /\ replies' = {} /\ found' = {}
  /\ job' = "idle" /\ relays' = {}
  /\ UNCHANGED <<servers, net, entries, gone, fresh>>

-----------------------------------------------------------------------------
(* The clock: timers are on time, and no datagram is late beyond MaxDelay *)

Tick ==
  /\ \A h \in net : h.age < MaxDelay
  /\ \A s \in Servers : up[s] => ~(mode[s] = "register" /\ reg[s] = "new") /\ ~(reg[s] = "on" /\ due[s] = 0)
  /\ probing => window > 0
  /\ net' = {[h EXCEPT !.age = @ + 1] : h \in net}
  /\ entries' = {[e EXCEPT !.seen = Older(@, TTL + 1)] : e \in entries}
  /\ due' = [s \in Servers |-> IF up[s] /\ due[s] > 0 THEN due[s] - 1 ELSE due[s]]
  /\ tokens' = [s \in Servers |-> Refilled(tokens[s])]
  /\ window' = IF probing THEN window - 1 ELSE window
  /\ gone' = [a \in Addresses |-> IF \E s \in Servers : up[s] /\ At(s) = a THEN 0 ELSE Older(gone[a], Forever)]
  /\ UNCHANGED <<mode, home, named, up, port, reg, job, relays, probing, asked, replies, found, fresh>>

Next ==
  \/ \E s \in Servers :
       \/ \E p \in Ports : Start(s, p)
       \/ Stop(s) \/ \E ok \in BOOLEAN : Register(s, ok)
       \/ SendHeartbeats(s) \/ DiscoveryReply(s) \/ DirectAnswer(s)
  \/ \E h \in net : Lose(h) \/ \E again \in BOOLEAN : Deliver(h, again)
  \/ AnswerLocal \/ RelayRemote \/ (\E a \in relays : RelayLost(a)) \/ ProxyRestart
  \/ Probe \/ (\E a \in replies : ReadResponse(a)) \/ CloseWindow
  \/ Tick

\* A heartbeat of the server arrives for the last time.
DeliverFrom(s) == \E h \in net : h.from = s /\ Deliver(h, FALSE)

\* Goroutines and the clock get their turn, a client closes its socket, and the
\* network does not lose every heartbeat of a server, nor repeat one, for ever.
Fairness ==
  /\ WF_vars(Tick) /\ WF_vars(CloseWindow)
  /\ \A s \in Servers : /\ WF_vars(\E ok \in BOOLEAN : Register(s, ok)) /\ WF_vars(SendHeartbeats(s))
                        /\ SF_vars(DeliverFrom(s))
  /\ WF_vars(\E h \in net : h.age = MaxDelay /\ Lose(h))

Spec == Init /\ [][Next]_vars /\ Fairness

-----------------------------------------------------------------------------
(* Properties *)

\* Types of the variables; registrations and heartbeats are of real servers.
TypeOK ==
  /\ mode \in [Servers -> {"direct", "register"}] /\ home \in [Servers -> Hosts]
  /\ named \subseteq Servers
  /\ up \in [Servers -> BOOLEAN] /\ port \in [Servers -> Ports]
  /\ reg \in [Servers -> {"new", "on", "off"}] /\ due \in [Servers -> 0..1]
  /\ tokens \in [Servers -> 0..Burst]
  /\ net \subseteq Heartbeats /\ entries \subseteq Registrations
  /\ job \in {"idle", "ports", "relay"} /\ relays \subseteq Addresses
  /\ probing \in BOOLEAN /\ window \in 0..Window /\ asked \subseteq Servers
  /\ replies \subseteq Addresses /\ found \subseteq Addresses
  /\ gone \in [Addresses -> 0..Forever] /\ fresh \subseteq Servers

\* What a client finds was listening: when it answered, if the server answers
\* for itself, and no longer ago than a registration lives, if the proxy
\* answers for it.  No reply names a port on a host where nobody listened.
Reachable ==
  \A a \in found \union replies :
    gone[a] <= IF a[1] = ProxyHost THEN TTL + MaxDelay + Window ELSE Window

\* Once a heartbeat of a server with an identity is recorded while none is under
\* way from where it was before, the server is announced where it is and nowhere
\* else, until it starts again: whatever of the old place was registered before,
\* in whatever order, is gone and does not come back.  Until that heartbeat, an
\* older one that is late may well put the old place back
\* (server/discovery_registry.go, Record).
RestartReplaces ==
  \A s \in named \intersect fresh, e \in entries : e.from = s => <<e.host, e.port>> = At(s)

\* A live registration of the place where the server is.
Listed(s) == \E e \in Live(entries) : e.from = s /\ <<e.host, e.port>> = At(s)

\* A server that registers and stays up is listed again and again, however
\* many heartbeats are lost; one that stays down is forgotten for good.
Converges ==
  \A s \in Servers :
    /\ <>[](up[s] /\ reg[s] = "on") => []<>Listed(s)
    /\ <>[]~up[s] => <>[](\A e \in Live(entries) : e.from # s)
=============================================================================
