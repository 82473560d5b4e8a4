------------------------------- MODULE UipArp -------------------------------
(***************************************************************************)
(* The ARP table of uIP (uip_arp.c): which hardware address belongs to      *)
(* which address on the local network, and since when.  A table is a value; *)
(* each function of the code that changes it is an operator.                *)
(*                                                                          *)
(* The clock arptime is a uint8_t and so is the time of an entry; their     *)
(* difference is an int and is negative once the clock has wrapped.         *)
(***************************************************************************)
EXTENDS Integers

CONSTANTS
  UIP_ARPTAB_SIZE,  \* entries (8 in the firmware)
  UIP_ARP_MAXAGE,   \* ticks an entry may live (120 in the firmware)
  TimeRange,        \* values of a uint8_t (256 in the firmware)
  Ip, Mac,          \* addresses of hosts
  NoIp, NoMac,      \* all zeroes
  broadcast_ipaddr, broadcast_ethaddr  \* all ones

ASSUME ArpAssumption ==
  /\ UIP_ARPTAB_SIZE \in Nat \ {0}
  /\ UIP_ARP_MAXAGE \in Nat \ {0} /\ TimeRange \in Nat \ {0}
  /\ UIP_ARP_MAXAGE < TimeRange
  /\ {NoIp, broadcast_ipaddr} \cap Ip = {} /\ NoIp # broadcast_ipaddr
  /\ {NoMac, broadcast_ethaddr} \cap Mac = {} /\ NoMac # broadcast_ethaddr

Slot == 1..UIP_ARPTAB_SIZE
ArpTime == 0..(TimeRange - 1)
ArpEntry == [ipaddr : Ip \cup {NoIp}, ethaddr : Mac \cup {NoMac}, time : ArpTime]
ArpTable == [Slot -> ArpEntry]

\* The table of a program that has just started: static memory is zero.
EmptyTable == [s \in Slot |-> [ipaddr |-> NoIp, ethaddr |-> NoMac, time |-> 0]]

Holding(table, ip) == {s \in Slot : table[s].ipaddr = ip}
First(slots) == CHOOSE s \in slots : \A t \in slots : s <= t

\* uip_arp_update's search for the oldest entry: the first of those with the
\* largest age above zero, or the first slot if no age is above zero.
Age(table, now, s) == now - table[s].time
Oldest(table, now) ==
  LET largest == {s \in Slot : \A t \in Slot : Age(table, now, s) >= Age(table, now, t)}
  IN IF Age(table, now, First(largest)) > 0 THEN First(largest) ELSE First(Slot)

\* Mutant: the search for the entry to update stops at the first free one.
PlaceFreeFirst(table, now, ip) ==
  IF Holding(table, NoIp) # {} THEN First(Holding(table, NoIp))
  ELSE IF Holding(table, ip) # {} THEN First(Holding(table, ip))
  ELSE Oldest(table, now)

\* The slot that a mapping for ip is put into: its own, a free one, the oldest.
Place(table, now, ip) ==
  IF Holding(table, ip) # {} THEN First(Holding(table, ip))
  ELSE IF Holding(table, NoIp) # {} THEN First(Holding(table, NoIp))
  ELSE Oldest(table, now)

uip_arp_update(table, now, ip, mac) ==
  [table EXCEPT ![Place(table, now, ip)] = [ipaddr |-> ip, ethaddr |-> mac, time |-> now]]

\* Mutant: the clock is wider than a byte.
TickWide(now) == now + 1

Tick(now) == (now + 1) % TimeRange

\* uip_arp_timer, after it has advanced the clock to now.
uip_arp_timer(table, now) ==
  [s \in Slot |->
     IF table[s].ipaddr # NoIp /\ Age(table, now, s) >= UIP_ARP_MAXAGE
     THEN [table[s] EXCEPT !.ipaddr = NoIp] ELSE table[s]]

\* Where uip_arp_out sends what is meant for ip: NoMac when it has to ask.
Resolved(table, ip) ==
  IF Holding(table, ip) # {} THEN table[First(Holding(table, ip))].ethaddr ELSE NoMac
=============================================================================
