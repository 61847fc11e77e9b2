CONSTANTS
  Entries = {"http", "https", "connect", "bind", "tuntcp", "tunudp"}
  Rule <- MCRule
  Addrs <- MCAddrs
  NoRule = NoRule
  N = 3
  MaxConcurrency = 2
  MaxBytes = 2
SPECIFICATION FairSpec
INVARIANTS
  NothingLeftOpen
  WinnerStaysOpen
  BlockedIsNotDialled
  RepliesAreHonest
  TakenBytesArrive
  MonitorIsGone
PROPERTIES
  DialTerminates
  DropReleasesAll
CHECK_DEADLOCK FALSE
