\* Two servers one after the other and two clients; one thing goes wrong.
SPECIFICATION FairSpec
CONSTANTS
  Servers = {s1, s2}
  Clients = {c1, c2}
  Pairs = {"fifo", "posix_mq", "sysv_mq", "posix_shm", "sysv_shm", "unix_dgram",
           "unix_stream", "udp", "tcp", "broadcast", "multicast", "raw_udp", "raw_ip", "raw_eth"}
  MaxTroubles = 1
  None = None
INVARIANTS Greeting NothingLeft ServerReachable
PROPERTIES ExchangeCompletes
CHECK_DEADLOCK FALSE
