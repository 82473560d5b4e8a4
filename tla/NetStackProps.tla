--------------------------- MODULE NetStackProps ----------------------------
(***************************************************************************)
(* What the stack and the main loop owe each other; what the driver owes     *)
(* them is in G2100Props.                                                   *)
(***************************************************************************)
EXTENDS NetStack, G2100Props

\* The ARP table has each address at most once, with the hardware address that it
\* announced last: no update goes to a second entry, no entry outlives its replacement.
TableTrue ==
  \A s \in Slot :
    arp_table[s].ipaddr # NoIp =>
      /\ arp_table[s].ethaddr = told[arp_table[s].ipaddr]
      /\ Holding(arp_table, arp_table[s].ipaddr) = {s}

\* Every packet for port 12344 that reaches the stack as it was received is handled, and
\* with its own sender's address, whoever sent before and whatever was sent between.
Hears ==
  StackReads /\ Holds("udp") /\ zg_buf.frame.dport = ListenPort =>
    heard' = [frame |-> zg_buf.frame, from |-> zg_buf.frame.ip]

EveryMessageHeard == [][Hears]_vars

\* A packet that leaves the stack has the hardware address which the next hop announced
\* last, or is a broadcast and is addressed as one; when the next hop's address is not
\* known the next hop, always on the local network, is asked.
Addressed ==
  given' # given /\ given' # NoFrame =>
    /\ given'.kind \in {"echo_reply", "reset", "udp"} =>
         LET hop == IF given'.ip \in Local THEN given'.ip ELSE Router
         IN IF given'.ip = broadcast_ipaddr THEN given'.mac = broadcast_ethaddr
            ELSE given'.mac = told[hop] /\ given'.mac # NoMac
    /\ given'.kind = "arp_request" => given'.ip \in Local

RightAddress == [][Addressed]_vars

\* The program connects, unless the chip refuses or the security type is unknown
\* (zg_drv_process then stays in DRV_STATE_SETUP_SECURITY).
Connects == <>(zg_conn_status = 1 \/ "refused" \in trouble \/ security_type = "other")

\* What waits to be sent is handed to the chip in the end.
Flows == tx_ready ~> ~ tx_ready
=============================================================================
