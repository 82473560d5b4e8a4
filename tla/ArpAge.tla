------------------------------- MODULE ArpAge -------------------------------
(***************************************************************************)
(* The ARP table and its clock by themselves: hosts announce themselves at  *)
(* any time, and uip_arp_timer runs every ten seconds (stack.c).  Small     *)
(* enough to be checked with the table, the clock and the age of the        *)
(* firmware.                                                                *)
(***************************************************************************)
EXTENDS UipArp

VARIABLES
  arp_table, arptime,
  lived     \* history: per slot, the ticks since its entry was last updated

vars == <<arp_table, arptime, lived>>

Init ==
  /\ arp_table = EmptyTable /\ arptime = 0
  /\ lived = [s \in Slot |-> 0]

\* uip_arp_arpin: a host announces itself.
Announced ==
  \E ip \in Ip, mac \in Mac :
    /\ arp_table' = uip_arp_update(arp_table, arptime, ip, mac)
    /\ lived' = [lived EXCEPT ![Place(arp_table, arptime, ip)] = 0]
    /\ UNCHANGED arptime

\* stack_process: arp_timer has expired.
TimerExpired ==
  /\ arptime' = Tick(arptime)
  /\ arp_table' = uip_arp_timer(arp_table, arptime')
  /\ lived' = [s \in Slot |-> IF arp_table'[s].ipaddr = NoIp THEN 0 ELSE lived[s] + 1]

Next == Announced \/ TimerExpired

Spec == Init /\ [][Next]_vars

\* No entry lives longer than UIP_ARP_MAXAGE without an update ("The maxium age of ARP
\* table entries", uipopt.h:388).
MaximumAge ==
  \A s \in Slot : arp_table[s].ipaddr # NoIp => lived[s] <= UIP_ARP_MAXAGE
=============================================================================
