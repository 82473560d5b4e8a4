------------------------------ MODULE NetStack ------------------------------
(***************************************************************************)
(* WiFi as the firmware uses it: the main loop (WiShield.cpp), uIP's way     *)
(* between the driver and the UDP application (stack.c, uip.c, udpapp.cpp),  *)
(* the ARP table, and what the application answers.                          *)
(*                                                                          *)
(* The main loop connects, then calls stack_process and zg_drv_process in    *)
(* turn, then works on MIDI; there each MIDI message routed to OSC is a       *)
(* packet built in the same buffer and sent at once (sendMidiOSC).           *)
(***************************************************************************)
EXTENDS G2100, UipArp

CONSTANTS
  Local,        \* addresses on the local network
  Router,       \* the default router, uip_draddr
  Configurations,  \* pairs of a security type and an oscTargetIp; NoIp: none is set
  oscTargetPort,   \* the configured port (12345 by default)
  OscToOsc      \* fromOSC routes to OSC: each message goes back to its sender

Port == 0..65535  \* 0: any
Destination == Ip \cup {NoIp, broadcast_ipaddr}

ASSUME NetAssumption ==
  /\ Local \subseteq Ip /\ Router \in Local
  /\ Configurations \subseteq SecurityTypes \X Destination
  /\ OscToOsc \in BOOLEAN
  /\ oscTargetPort \in Port

ListenPort == 12344
OutPort == 1025       \* the first port uip_udp_new gives out
ReplyPort == 12345    \* where answers go

VARIABLES
  wifiInit,
  arp_table, arptime,
  udp_conn,     \* per UDP connection: the remote port and address it is bound to
  oscTargetIp, oscTargetSet,
  heard,        \* history: the message handleOSCMessage has just got, and from where
  given,        \* history: the frame given to the driver and not yet handed to the chip
  told          \* history: per address, the hardware address it last announced

stackVars == <<wifiInit, arp_table, arptime, udp_conn, oscTargetIp, oscTargetSet, heard, given, told>>
vars == <<g2100Vars, stackVars>>

-----------------------------------------------------------------------------
(* Frames. ip and mac are the other side's address, here and there.         *)

\* What may come: ARP for us, ICMP echo, UDP (which may be an OSC /ping), a TCP segment
\* that is no reset, and what uIP drops at once.
RxKinds == {"arp_request", "arp_reply", "echo", "udp", "tcp", "else"}

\* What we send.
AskFor(ip) == [kind |-> "arp_request", ip |-> ip, mac |-> NoMac]
Reply(ip, mac) == [kind |-> "arp_reply", ip |-> ip, mac |-> mac]
SelfArp == [kind |-> "self_arp", ip |-> NoIp, mac |-> NoMac]
Packet(kind, ip, mac) == [kind |-> kind, ip |-> ip, mac |-> mac]

AskFrames == [kind : {"arp_request"}, ip : Local, mac : {NoMac}]
ReplyFrames == [kind : {"arp_reply"}, ip : Ip, mac : Mac]
PacketFrames ==
  [kind : {"echo_reply", "reset", "udp"}, ip : Destination,
   mac : Mac \cup {broadcast_ethaddr}]
TxFrames == AskFrames \cup ReplyFrames \cup {SelfArp} \cup PacketFrames

ASSUME FrameAssumption ==
  /\ Frame = TxFrames
  /\ \A f \in RxFrame :
       /\ f.kind \in RxKinds /\ f.ip \in Ip /\ f.mac \in Mac
       /\ f.sport \in Port \ {0} /\ f.dport \in Port \ {0} /\ f.ping \in BOOLEAN

NotHeard == [frame |-> NoFrame, from |-> NoIp]

NetTypeOK ==
  /\ G2100TypeOK
  /\ wifiInit \in BOOLEAN
  /\ arp_table \in ArpTable /\ arptime \in ArpTime
  /\ udp_conn \in [{"out", "in"} -> [rport : Port, ripaddr : Destination]]
  /\ oscTargetIp \in Destination /\ oscTargetSet \in BOOLEAN
  /\ given \in Frame \cup {NoFrame}
  /\ told \in [Ip -> Mac \cup {NoMac}]

Unbound == [rport |-> 0, ripaddr |-> NoIp]

Init ==
  /\ G2100Init
  /\ wifiInit = FALSE
  /\ arp_table = EmptyTable /\ arptime = 0
  /\ udp_conn = [c \in {"out", "in"} |-> Unbound]
  /\ \E c \in Configurations : security_type = c[1] /\ oscTargetIp = c[2]
  /\ oscTargetSet = (oscTargetIp # NoIp)
  /\ heard = NotHeard
  /\ given = NoFrame
  /\ told = [ip \in Ip |-> NoMac]

-----------------------------------------------------------------------------
(* Sending                                                                  *)

\* Mutant: an address off the local network is looked for on it.
NextHopDirect(ip) == ip

\* Off the local network the router is asked.
NextHop(ip) == IF ip \in Local THEN ip ELSE Router

\* uip_arp_out: the packet, or in its place a request for the address. A broadcast
\* needs none.
uip_arp_out(kind, ip) ==
  LET mac == IF ip = broadcast_ipaddr THEN broadcast_ethaddr
             ELSE Resolved(arp_table, NextHop(ip))
  IN IF mac = NoMac THEN AskFor(NextHop(ip)) ELSE Packet(kind, ip, mac)

Give(f) == network_send(f) /\ given' = f
\* Mutant: a frame that waits is given up when nothing new is to be sent.
GiveUp == zg_buf' = Scrap /\ tx_ready' = FALSE /\ UNCHANGED given
GiveNothing == LeaveBuffer /\ UNCHANGED given

\* The part of the driver's state that the stack leaves alone.
DriverKept ==
  UNCHANGED <<zg_drv_state, zg_conn_status, security_type, intr_occured, intr_valid,
              cnf_pending, message, chip, trouble>>

-----------------------------------------------------------------------------
(* WiShield.cpp                                                             *)

\* continueInit before the connection is there: only the driver runs.
Connecting ==
  /\ pc = "loop" /\ ~ wifiInit /\ zg_conn_status # 1
  /\ pc' = "tx"
  /\ UNCHANGED <<stackVars, zg_buf, tx_ready, rx_ready>> /\ DriverKept /\ UNCHANGED budget

\* continueInit, then: stack_init.
stack_init ==
  /\ pc = "loop" /\ ~ wifiInit /\ zg_conn_status = 1
  /\ wifiInit' = TRUE
  /\ udp_conn' = [c \in {"out", "in"} |-> Unbound]
  /\ pc' = "midi"
  /\ UNCHANGED <<arp_table, arptime, oscTargetIp, oscTargetSet, heard, given, told,
                 zg_buf, tx_ready, rx_ready>> /\ DriverKept /\ UNCHANGED budget

-----------------------------------------------------------------------------
(* stack_process: one action for each way through it. Then the driver runs. *)

Stack == pc = "loop" /\ wifiInit /\ pc' = "tx" /\ DriverKept
StackReads == Stack /\ rx_ready /\ network_read /\ UNCHANGED budget

\* The buffer holds a received frame of a kind, as it was received.
Holds(kind) == zg_buf.holds = "rx" /\ zg_buf.frame.kind = kind

ArpRequestForUs ==
  LET f == zg_buf.frame IN
  /\ StackReads /\ Holds("arp_request")
  /\ arp_table' = uip_arp_update(arp_table, arptime, f.ip, f.mac)
  /\ told' = [told EXCEPT ![f.ip] = f.mac]
  /\ Give(Reply(f.ip, f.mac))
  /\ UNCHANGED <<wifiInit, arptime, udp_conn, oscTargetIp, oscTargetSet, heard>>

ArpReplyForUs ==
  LET f == zg_buf.frame IN
  /\ StackReads /\ Holds("arp_reply")
  /\ arp_table' = uip_arp_update(arp_table, arptime, f.ip, f.mac)
  /\ told' = [told EXCEPT ![f.ip] = f.mac]
  /\ GiveNothing
  /\ UNCHANGED <<wifiInit, arptime, udp_conn, oscTargetIp, oscTargetSet, heard>>

\* ICMP echo. (uip_arp_ipin, called first, is an empty macro.)
Echo ==
  LET f == zg_buf.frame IN
  /\ StackReads /\ Holds("echo")
  /\ Give(uip_arp_out("echo_reply", f.ip))
  /\ UNCHANGED <<wifiInit, arp_table, arptime, udp_conn, oscTargetIp, oscTargetSet, heard, told>>

\* The program neither listens for TCP nor connects: every segment is answered by a reset.
TcpReset ==
  LET f == zg_buf.frame IN
  /\ StackReads /\ Holds("tcp")
  /\ Give(uip_arp_out("reset", f.ip))
  /\ UNCHANGED <<wifiInit, arp_table, arptime, udp_conn, oscTargetIp, oscTargetSet, heard, told>>

\* The connections that a UDP packet belongs to.
Lport(c) == IF c = "in" THEN ListenPort ELSE OutPort
Takers(f) ==
  {c \in {"out", "in"} :
     /\ Lport(c) = f.dport
     /\ udp_conn[c].rport \in {0, f.sport}
     /\ udp_conn[c].ripaddr \in {NoIp, broadcast_ipaddr, f.ip}}

\* Mutant: parse_msg leaves the connection bound to the sender.
AfterParseBound(c, f) ==
  [udp_conn EXCEPT ![c] = [rport |-> f.sport, ripaddr |-> f.ip]]

\* parse_msg opens the connection to any sender again.
AfterParse(c, f) == [udp_conn EXCEPT ![c] = Unbound]

\* udp_input, parse_msg and handleOSCMessage: the message is handled; its sender becomes
\* the target of MIDI to OSC if none is configured; an answer goes back if it is a ping
\* or OSC is routed to OSC (bounceMessage). The sender is the address the connection is
\* bound to, and only a connection with no port is bound to the packet's.
UdpForUs ==
  LET f == zg_buf.frame IN
  /\ StackReads /\ Holds("udp")
  /\ \E c \in Takers(f) :
       LET from == IF udp_conn[c].rport = 0 THEN f.ip ELSE udp_conn[c].ripaddr IN
       /\ heard' = [frame |-> f, from |-> from]
       /\ oscTargetIp' = IF oscTargetSet THEN oscTargetIp ELSE from
       /\ IF f.ping \/ OscToOsc
          THEN /\ udp_conn' = [AfterParse(c, f) EXCEPT
                                 !["out"] = [rport |-> ReplyPort, ripaddr |-> from]]
               /\ Give(uip_arp_out("udp", from))
          ELSE udp_conn' = AfterParse(c, f) /\ GiveNothing
  /\ UNCHANGED <<wifiInit, arp_table, arptime, oscTargetSet, told>>

\* Anything else is dropped: another kind, a port nobody listens on, or a buffer that
\* something was written over after the frame was received.
StackDrops ==
  /\ StackReads
  /\ \/ zg_buf.holds # "rx"
     \/ Holds("else")
     \/ Holds("udp") /\ Takers(zg_buf.frame) = {}
  /\ GiveNothing
  /\ UNCHANGED <<wifiInit, arp_table, arptime, udp_conn, oscTargetIp, oscTargetSet, heard, told>>

\* Nothing received, and the periodic timer has not expired.
StackIdle ==
  /\ Stack /\ ~ rx_ready
  /\ GiveNothing
  /\ UNCHANGED <<rx_ready, stackVars, budget>>

\* The periodic timer has: the polls of the connections send nothing; when the third
\* timer has expired, too, our own address is announced; when the second has, the
\* table ages.
StackTimer ==
  /\ Stack /\ ~ rx_ready
  /\ Spend
  /\ Give(SelfArp) \/ GiveNothing
  /\ \/ UNCHANGED <<arptime, arp_table>>
     \/ /\ arptime' = Tick(arptime)
        /\ arp_table' = uip_arp_timer(arp_table, arptime')
  /\ UNCHANGED <<rx_ready, wifiInit, udp_conn, oscTargetIp, oscTargetSet, heard, told>>

stack_process ==
  \/ ArpRequestForUs \/ ArpReplyForUs \/ Echo \/ TcpReset \/ UdpForUs \/ StackDrops
  \/ StackIdle \/ StackTimer

-----------------------------------------------------------------------------
(* missinglink_midi_process                                                 *)

\* A MIDI message is routed to OSC: sendMidiOSC, sendAppBuffer, WiFi.sendUdp. (Not
\* before the stack is initialised: see the README.)
sendMidiOSC ==
  /\ pc = "midi" /\ wifiInit
  /\ Spend
  /\ udp_conn' = [udp_conn EXCEPT !["out"] = [rport |-> oscTargetPort, ripaddr |-> oscTargetIp]]
  /\ Give(uip_arp_out("udp", oscTargetIp))
  /\ pc' = "tx"
  /\ UNCHANGED <<wifiInit, arp_table, arptime, oscTargetIp, oscTargetSet, heard, told, rx_ready>>
  /\ DriverKept

MidiDone ==
  /\ pc = "midi" /\ pc' = "loop"
  /\ UNCHANGED <<stackVars, zg_buf, tx_ready, rx_ready>> /\ DriverKept /\ UNCHANGED budget

-----------------------------------------------------------------------------
Loop == Connecting \/ stack_init \/ stack_process \/ sendMidiOSC \/ MidiDone

Driver ==
  /\ zg_drv_process
  /\ heard' = NotHeard
  /\ given' = IF tx_ready' THEN given ELSE NoFrame
  /\ UNCHANGED <<wifiInit, arp_table, arptime, udp_conn, oscTargetIp, oscTargetSet, told>>
Isr == zg_isr /\ UNCHANGED stackVars
World == Chip /\ UNCHANGED stackVars

Next == Loop \/ Driver \/ Isr \/ World

Spec == Init /\ [][Next]_vars

\* The main loop runs for ever, the interrupt comes when its line is low and it is
\* not masked, and the chip answers what it is asked. Nothing makes the world send.
FairSpec ==
  /\ Spec
  /\ WF_vars(Loop \/ Driver) /\ WF_vars(Isr)
  /\ WF_vars((ChipTxDone \/ ChipConfirm) /\ UNCHANGED stackVars)

=============================================================================
