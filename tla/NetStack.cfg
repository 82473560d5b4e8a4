CONSTANTS
  h1 = h1
  h2 = h2
  router = router
  far = far
  all = all
  a = a
  b = b
  c = c
  r = r
  none = none
  NoIp = none
  NoMac = none
  NoFrame = none
  broadcast_ipaddr = all
  broadcast_ethaddr = all
  Ip <- MCIp
  Mac <- MCMac
  Local <- MCLocal
  Router = router
  Configurations <- MCConfigurations
  oscTargetPort = 12345
  OscToOsc = FALSE
  RxFrame <- MCRxFrame
  Frame <- MCFrame
  SecurityTypes = {"none", "wpa", "other"}
  MgmtFifo = 0
  DataFifo = 1
  UIP_ARPTAB_SIZE = 2
  UIP_ARP_MAXAGE = 2
  TimeRange = 3
  Budget = 3
SPECIFICATION FairSpec
INVARIANTS NetTypeOK OneOutstanding StepKept StatusTrue TableTrue
PROPERTIES DriverSpec EveryMessageHeard RightAddress Connects Flows
CHECK_DEADLOCK FALSE
