SPECIFICATION NetFairSpec
CONSTANTS
  Hosts = {ip, etc, n1, n2}
  Ips = {ip}
  HostsFile = {etc}
  IdSpace = 2
  MaxQueries = 3
  Replies = 2
  Conns = {c1}
  Scripts = {s1}
  NoHost = NoHost
INVARIANT NoDangling
INVARIANT UnderWay
INVARIANT RightPeer
PROPERTY Decided
PROPERTY OneResult
