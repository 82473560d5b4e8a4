CONSTANTS
  Ip = {h1}
  Mac = {a}
  NoIp = none
  NoMac = none
  broadcast_ipaddr = all
  broadcast_ethaddr = all
  UIP_ARPTAB_SIZE = 8
  UIP_ARP_MAXAGE = 120
  TimeRange = 256
SPECIFICATION Spec
INVARIANTS MaximumAge
