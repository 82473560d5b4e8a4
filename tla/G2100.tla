------------------------------- MODULE G2100 --------------------------------
(***************************************************************************)
(* The driver of the ZG2100 WiFi chip (g2100.c) and, as far as the driver   *)
(* can tell, the chip.                                                      *)
(*                                                                          *)
(* One buffer, zg_buf, serves all purposes: it holds the frame to send, is  *)
(* overwritten while it is sent (the SPI bus reads as it writes), takes     *)
(* every message of the chip and is where received frames are handed over.  *)
(* A frame that cannot be sent because the last one is not yet confirmed    *)
(* waits in it, too.                                                        *)
(*                                                                          *)
(* zg_drv_process is four steps (pc): send, fetch a message, look at it, do *)
(* the step of the connection that is due.  The interrupt only sets a flag  *)
(* and may come between any two; the chip works beside the program.         *)
(***************************************************************************)
EXTENDS Naturals, Sequences

CONSTANTS
  Frame, RxFrame,      \* frames the program sends; frames the chip receives
  NoFrame,             \* no frame
  SecurityTypes,       \* values of security_type it may be configured with
  MgmtFifo, DataFifo,  \* which of the chip's queues, 0 or 1, holds what
  Budget               \* bound: how often the world does something of its own accord

ASSUME G2100Assumption ==
  /\ NoFrame \notin Frame \cup RxFrame
  /\ SecurityTypes \subseteq {"none", "wep", "wpa", "other"}
  /\ {MgmtFifo, DataFifo} \subseteq {0, 1}
  /\ Budget \in Nat

VARIABLES
  zg_drv_state, zg_conn_status, security_type,
  intr_occured, intr_valid, tx_ready, rx_ready, cnf_pending,
  zg_buf,   \* [holds, frame]: what the buffer holds
  message,  \* the chip's message that this call of zg_drv_process read
  pc,       \* "tx", "isr", "msg", "state": in zg_drv_process; "loop", "midi": outside
  sending,  \* chip: it has a frame to send and has not confirmed it
  reqs,     \* chip: requests it has not confirmed
  assoc,    \* chip: associated with an access point
  fifo,     \* chip: its two queues of messages
  budget,   \* what is left of Budget
  trouble   \* history: whether the connection was ever "lost", a request ever "refused"

drv == <<zg_drv_state, zg_conn_status, security_type, intr_occured, intr_valid,
         tx_ready, rx_ready, cnf_pending, zg_buf, message>>
chip == <<sending, reqs, assoc, fifo>>
counts == <<budget, trouble>>
g2100Vars == <<drv, pc, chip, counts>>

-----------------------------------------------------------------------------
(* What the buffer holds: a frame of ours, one received and moved to its    *)
(* place, or scrap: a message, what the SPI bus returned while something    *)
(* was sent, or anything that nobody will read.                             *)

Ours(f) == [holds |-> "frame", frame |-> f]
Received(f) == [holds |-> "rx", frame |-> f]
Scrap == [holds |-> "scrap", frame |-> NoFrame]
Contents == {Ours(f) : f \in Frame} \cup {Received(f) : f \in RxFrame} \cup {Scrap}

Requests == {"GET_PARAM", "WEP_KEY", "CALC_PSK", "PMK_KEY", "CONNECT_MANAGE", "CONNECT"}

\* The chip's messages: type, subtype, and the frame or the result.
TxConfirm == [type |-> "TXDATA_CONFIRM", sub |-> "STD", ok |-> TRUE, frame |-> NoFrame]
RxIndicate(f) == [type |-> "RXDATA_INDICATE", sub |-> "STD", ok |-> TRUE, frame |-> f]
Confirm(r, ok) == [type |-> "MGMT_CONFIRM", sub |-> r, ok |-> ok, frame |-> NoFrame]
Indicate(s) == [type |-> "MGMT_INDICATE", sub |-> s, ok |-> TRUE, frame |-> NoFrame]
NoMessage == Indicate("none")
Losses == {"DISASSOC", "DEAUTH", "LOST"}  \* LOST: CONN_STATUS 1 or 5; BACK: 2 or 6
Messages == {TxConfirm} \cup {RxIndicate(f) : f \in RxFrame}
              \cup {Confirm(r, ok) : r \in Requests, ok \in BOOLEAN}
              \cup {Indicate(s) : s \in Losses \cup {"BACK"}}

G2100TypeOK ==
  /\ zg_drv_state \in {"INIT", "GET_MAC", "SETUP_SECURITY", "INSTALL_PSK",
                       "ENABLE_CONN_MANAGE", "START_CONN", "PROCESS_RX", "IDLE"}
  /\ zg_conn_status \in {0, 1} /\ security_type \in SecurityTypes
  /\ {intr_occured, intr_valid, tx_ready, rx_ready, cnf_pending, assoc, sending} \subseteq BOOLEAN
  /\ zg_buf \in Contents
  /\ message \in Messages \cup {NoMessage}
  /\ pc \in {"loop", "midi", "tx", "isr", "msg", "state"}
  /\ reqs \in Seq(Requests)
  /\ fifo \in [{0, 1} -> Seq(Messages)]
  /\ budget \in 0..Budget /\ trouble \subseteq {"lost", "refused"}

\* zg_init, and a chip that has just been reset.
G2100Init ==
  /\ zg_drv_state = "INIT" /\ zg_conn_status = 0 /\ security_type \in SecurityTypes
  /\ intr_occured = FALSE /\ intr_valid = FALSE
  /\ tx_ready = FALSE /\ rx_ready = FALSE /\ cnf_pending = FALSE
  /\ zg_buf = Scrap /\ message = NoMessage
  /\ pc = "loop"
  /\ sending = FALSE /\ reqs = <<>> /\ assoc = FALSE
  /\ fifo = [q \in {0, 1} |-> <<>>]
  /\ budget = Budget /\ trouble = {}

-----------------------------------------------------------------------------
(* The program's side of the driver                                         *)

\* network_send after something was built in the buffer: zg_set_buf and zg_set_tx_status.
network_send(f) == zg_buf' = Ours(f) /\ tx_ready' = TRUE

\* The buffer is left as it is: it may hold a frame that waits.
LeaveBuffer == zg_buf' = (IF tx_ready THEN zg_buf ELSE Scrap) /\ UNCHANGED tx_ready

\* network_read: zg_get_rx_status.
network_read == rx_ready' = FALSE

-----------------------------------------------------------------------------
(* zg_drv_process                                                           *)

\* Mutant: the next frame is sent without waiting for the confirm of the last.
DrvTxEager ==
  /\ pc = "tx"
  /\ IF tx_ready
     THEN /\ sending' = TRUE /\ zg_buf' = Scrap
          /\ tx_ready' = FALSE /\ cnf_pending' = TRUE
     ELSE UNCHANGED <<sending, zg_buf, tx_ready, cnf_pending>>
  /\ pc' = "isr"
  /\ UNCHANGED <<zg_drv_state, zg_conn_status, security_type, intr_occured, intr_valid,
                 rx_ready, message, reqs, assoc, fifo, counts>>

\* The frame goes out if the last one is confirmed (zg_send).
DrvTx ==
  /\ pc = "tx"
  /\ IF tx_ready /\ ~ cnf_pending
     THEN /\ sending' = TRUE /\ zg_buf' = Scrap
          /\ tx_ready' = FALSE /\ cnf_pending' = TRUE
     ELSE UNCHANGED <<sending, zg_buf, tx_ready, cnf_pending>>
  /\ pc' = "isr"
  /\ UNCHANGED <<zg_drv_state, zg_conn_status, security_type, intr_occured, intr_valid,
                 rx_ready, message, reqs, assoc, fifo, counts>>

\* The queue zg_process_isr reads: FIFO1 if it has a message, else FIFO0.
NextFifo == IF fifo[1] # <<>> THEN 1 ELSE 0

\* zg_process_isr: one message is read into the buffer, and the interrupt, which
\* zg_isr masked, is allowed again.
DrvIsr ==
  /\ pc = "isr"
  /\ IF intr_occured
     THEN /\ intr_occured' = FALSE
          /\ intr_valid' = TRUE
          /\ message' = Head(fifo[NextFifo])
          /\ zg_buf' = Scrap
          /\ fifo' = [fifo EXCEPT ![NextFifo] = Tail(@)]
     ELSE UNCHANGED <<intr_occured, intr_valid, message, zg_buf, fifo>>
  /\ pc' = "msg"
  /\ UNCHANGED <<zg_drv_state, zg_conn_status, security_type, tx_ready, rx_ready,
                 cnf_pending, sending, reqs, assoc, counts>>

\* Mutant: after the key is calculated it is not installed.
AfterConfirmSkips(r) ==
  CASE r = "GET_PARAM" -> "SETUP_SECURITY"
    [] r \in {"WEP_KEY", "PMK_KEY"} -> "ENABLE_CONN_MANAGE"
    [] r = "CONNECT_MANAGE" -> "START_CONN"
    [] OTHER -> zg_drv_state

\* What a confirmed request leads to.
AfterConfirm(r) ==
  CASE r = "GET_PARAM" -> "SETUP_SECURITY"
    [] r = "CALC_PSK" -> "INSTALL_PSK"
    [] r \in {"WEP_KEY", "PMK_KEY"} -> "ENABLE_CONN_MANAGE"
    [] r = "CONNECT_MANAGE" -> "START_CONN"
    [] OTHER -> zg_drv_state

\* Mutant: the confirm of a frame is not looked at.
OnTxConfirmNot ==
  /\ message.type = "TXDATA_CONFIRM"
  /\ UNCHANGED <<zg_drv_state, zg_conn_status, cnf_pending>>

OnTxConfirm ==
  /\ message.type = "TXDATA_CONFIRM"
  /\ cnf_pending' = FALSE
  /\ UNCHANGED <<zg_drv_state, zg_conn_status>>

OnMgmtConfirm ==
  /\ message.type = "MGMT_CONFIRM"
  /\ zg_drv_state' = IF message.ok THEN AfterConfirm(message.sub) ELSE zg_drv_state
  /\ zg_conn_status' = IF message.ok /\ message.sub = "CONNECT" THEN 1 ELSE zg_conn_status
  /\ UNCHANGED cnf_pending

OnRxIndicate ==
  /\ message.type = "RXDATA_INDICATE"
  /\ zg_drv_state' = "PROCESS_RX"
  /\ UNCHANGED <<zg_conn_status, cnf_pending>>

\* Mutant: CONN_STATUS is not looked at.
OnMgmtIndicateOnly ==
  /\ message.type = "MGMT_INDICATE"
  /\ zg_conn_status' = IF message.sub \in {"DISASSOC", "DEAUTH"} THEN 0 ELSE zg_conn_status
  /\ zg_drv_state' = IF message.sub \in {"DISASSOC", "DEAUTH"} THEN "START_CONN"
                     ELSE zg_drv_state
  /\ UNCHANGED cnf_pending

OnMgmtIndicate ==
  /\ message.type = "MGMT_INDICATE"
  /\ zg_conn_status' = IF message.sub = "BACK" THEN 1 ELSE 0
  /\ zg_drv_state' = IF message.sub \in {"DISASSOC", "DEAUTH"} THEN "START_CONN"
                     ELSE zg_drv_state
  /\ UNCHANGED cnf_pending

DrvMsg ==
  /\ pc = "msg"
  /\ IF intr_valid
     THEN OnTxConfirm \/ OnMgmtConfirm \/ OnRxIndicate \/ OnMgmtIndicate
     ELSE UNCHANGED <<zg_drv_state, zg_conn_status, cnf_pending>>
  /\ intr_valid' = FALSE
  /\ pc' = "state"
  /\ UNCHANGED <<security_type, intr_occured, tx_ready, rx_ready, zg_buf, message,
                 chip, counts>>

\* A request is built in the buffer and written to the chip; one that comes while
\* another is in progress is refused at once (ZG_RESULT_REQ_IN_PROGRESS).
Request(r) ==
  /\ zg_drv_state' = "IDLE"
  /\ zg_buf' = Scrap
  /\ IF reqs = <<>>
     THEN reqs' = <<r>> /\ UNCHANGED fifo
     ELSE fifo' = [fifo EXCEPT ![MgmtFifo] = Append(@, Confirm(r, FALSE))] /\ UNCHANGED reqs
  /\ UNCHANGED rx_ready

Step(from, to) ==
  /\ zg_drv_state = from /\ zg_drv_state' = to
  /\ UNCHANGED <<zg_buf, rx_ready, reqs, fifo>>

StateGetMac == zg_drv_state = "GET_MAC" /\ Request("GET_PARAM")

StateSecurity ==
  /\ zg_drv_state = "SETUP_SECURITY"
  /\ CASE security_type = "none" -> Step("SETUP_SECURITY", "ENABLE_CONN_MANAGE")
       [] security_type = "wep" -> Request("WEP_KEY")
       [] security_type = "wpa" -> Request("CALC_PSK")
       [] OTHER -> Step("SETUP_SECURITY", "SETUP_SECURITY")

StateInstallPsk == zg_drv_state = "INSTALL_PSK" /\ Request("PMK_KEY")
StateConnManage == zg_drv_state = "ENABLE_CONN_MANAGE" /\ Request("CONNECT_MANAGE")
StateConnect == zg_drv_state = "START_CONN" /\ Request("CONNECT")

\* zg_recv: the received frame is moved to its place in the buffer.
StateRx ==
  /\ zg_drv_state = "PROCESS_RX"
  /\ zg_buf' = Received(message.frame)
  /\ rx_ready' = TRUE
  /\ zg_drv_state' = "IDLE"
  /\ UNCHANGED <<reqs, fifo>>

\* The last step. Both callers, WiFi.run and WiFi.sendUdp, are followed by MIDI.
DrvState ==
  /\ pc = "state"
  /\ \/ Step("INIT", "GET_MAC")
     \/ Step("IDLE", "IDLE")
     \/ StateGetMac
     \/ StateSecurity
     \/ StateInstallPsk
     \/ StateConnManage
     \/ StateConnect
     \/ StateRx
  /\ pc' = "midi"
  /\ message' = NoMessage
  /\ UNCHANGED <<zg_conn_status, security_type, intr_occured, intr_valid, tx_ready,
                 cnf_pending, sending, assoc, counts>>

zg_drv_process == DrvTx \/ DrvIsr \/ DrvMsg \/ DrvState

\* The interrupt line is low while the chip has a message; zg_isr masks it.
zg_isr ==
  /\ ~ intr_occured
  /\ fifo[0] # <<>> \/ fifo[1] # <<>>
  /\ intr_occured' = TRUE
  /\ UNCHANGED <<zg_drv_state, zg_conn_status, security_type, intr_valid, tx_ready,
                 rx_ready, cnf_pending, zg_buf, message, pc, chip, counts>>

-----------------------------------------------------------------------------
(* The chip                                                                 *)

Spend == budget > 0 /\ budget' = budget - 1
Tell(q, m) == fifo' = [fifo EXCEPT ![q] = Append(@, m)]

\* A frame has been sent, or given up.
ChipTxDone ==
  /\ sending
  /\ sending' = FALSE
  /\ Tell(DataFifo, TxConfirm)
  /\ UNCHANGED <<drv, pc, reqs, assoc, counts>>

ChipConfirm ==
  /\ reqs # <<>>
  /\ reqs' = <<>>
  /\ Tell(MgmtFifo, Confirm(Head(reqs), TRUE))
  /\ assoc' = (assoc \/ Head(reqs) = "CONNECT")
  /\ UNCHANGED <<drv, pc, sending, counts>>

ChipRefuse ==
  /\ reqs # <<>>
  /\ Spend /\ trouble' = trouble \cup {"refused"}
  /\ reqs' = <<>>
  /\ Tell(MgmtFifo, Confirm(Head(reqs), FALSE))
  /\ UNCHANGED <<drv, pc, sending, assoc>>

ChipReceive ==
  /\ assoc
  /\ Spend
  /\ \E f \in RxFrame : Tell(DataFifo, RxIndicate(f))
  /\ UNCHANGED <<drv, pc, sending, reqs, assoc, trouble>>

ChipLost ==
  /\ assoc
  /\ Spend /\ trouble' = trouble \cup {"lost"}
  /\ assoc' = FALSE
  /\ \E s \in Losses : Tell(MgmtFifo, Indicate(s))
  /\ UNCHANGED <<drv, pc, sending, reqs>>

\* The connection manager of the chip has reconnected by itself.
ChipBack ==
  /\ ~ assoc /\ "lost" \in trouble
  /\ assoc' = TRUE
  /\ Tell(MgmtFifo, Indicate("BACK"))
  /\ UNCHANGED <<drv, pc, sending, reqs, counts>>

Chip == ChipTxDone \/ ChipConfirm \/ ChipRefuse \/ ChipReceive \/ ChipLost \/ ChipBack

-----------------------------------------------------------------------------
(* The driver with a program that may do anything the driver's interface    *)
(* allows: between two calls of zg_drv_process it takes the received frame   *)
(* or not, and gives a frame or not.                                        *)

Host ==
  /\ pc \in {"loop", "midi"} /\ pc' \in {"loop", "midi", "tx"}
  /\ UNCHANGED <<zg_drv_state, zg_conn_status, security_type, intr_occured, intr_valid,
                 cnf_pending, message, chip, trouble>>
  /\ budget' \in 0..budget
  /\ rx_ready' \in {rx_ready, FALSE}
  /\ \/ UNCHANGED <<zg_buf, tx_ready>>
     \/ ~ rx_ready' /\ LeaveBuffer
     \/ \E f \in Frame : network_send(f)

DriverNext == zg_drv_process \/ zg_isr \/ Chip \/ Host

DriverSpec == G2100Init /\ [][DriverNext]_g2100Vars
=============================================================================
