----------------------------- MODULE MCNetStack -----------------------------
(***************************************************************************)
(* A small instance: two hosts and the router on the local network, one     *)
(* host beyond it, a table of two entries; MIDI to OSC goes to whoever spoke *)
(* last, or everywhere.                                                     *)
(***************************************************************************)
EXTENDS NetStackProps

CONSTANTS h1, h2, router, far, all, a, b, c, r, none

MCIp == {h1, h2, router, far}
MCMac == {a, b, c, r}
MCLocal == {h1, h2, router}
MCConfigurations == {<<"wpa", none>>, <<"other", none>>, <<"none", all>>}

Rx(kind, ip, mac, sport, dport, ping) ==
  [kind |-> kind, ip |-> ip, mac |-> mac, sport |-> sport, dport |-> dport, ping |-> ping]

\* The first host announces itself with two hardware addresses, the second asks and
\* the router answers; a ping of either kind; a TCP segment; messages from near and far,
\* one of them to the port that is only for sending.
MCRxFrame ==
  { Rx("arp_reply", h1, a, 1, 1, FALSE), Rx("arp_request", h1, b, 1, 1, FALSE),
    Rx("arp_reply", h2, c, 1, 1, FALSE), Rx("arp_reply", router, r, 1, 1, FALSE),
    Rx("echo", h1, a, 1, 1, FALSE), Rx("udp", h1, a, 12345, 12344, TRUE),
    Rx("udp", far, r, 7, 12344, FALSE), Rx("udp", h1, a, 12345, 1025, FALSE),
    Rx("tcp", far, r, 2000, 80, FALSE), Rx("else", h2, c, 1, 1, FALSE) }

MCFrame == TxFrames
=============================================================================
