\* One server, on the proxy's host or on another, in either mode.
SPECIFICATION Spec
CONSTANTS
  Servers = {s1}
  Hosts = {near, far}
  ProxyHost = near
  Ports <- TwoPorts
  TTL = 2
  MaxDelay = 1
  MaxNet = 2
  Window = 1
  Burst = 1
  Refill = 1
INVARIANTS TypeOK Reachable RestartReplaces
PROPERTY Converges
