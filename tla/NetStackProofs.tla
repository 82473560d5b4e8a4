--------------------------- MODULE NetStackProofs ---------------------------
(***************************************************************************)
(* First the driver and the chip, with any program that keeps to the        *)
(* driver's interface: types, and three properties of the messages between   *)
(* them. Then the stack and the main loop: types, that they are a program    *)
(* of that kind, and who is heard and addressed.                             *)
(***************************************************************************)
EXTENDS NetStackProps, SequenceTheorems, FiniteSetTheorems, TLAPS

-----------------------------------------------------------------------------
(* The messages on their way to the driver                                  *)

Queues == fifo \in [{0, 1} -> Seq(Messages)]

\* The message that was fetched, if one was, is as it was; and the queues are, too.
MessageKept == intr_valid' = intr_valid /\ (intr_valid => message' = message)
LineKept == fifo' = fifo /\ MessageKept

\* What a message is, by its type.
LEMMA MessageKinds ==
  ASSUME NEW m \in Messages
  PROVE  /\ m.type \in {"TXDATA_CONFIRM", "RXDATA_INDICATE", "MGMT_CONFIRM", "MGMT_INDICATE"}
         /\ m.type = "TXDATA_CONFIRM" <=> m = TxConfirm
         /\ m.type = "RXDATA_INDICATE" => m.frame \in RxFrame
         /\ m.type = "MGMT_CONFIRM" => m.sub \in Requests /\ m.ok \in BOOLEAN
         /\ m.type = "MGMT_INDICATE" => m.sub \in Losses \cup {"BACK"}
<1>1. CASE m = TxConfirm
  BY <1>1 DEF TxConfirm
<1>2. CASE \E f \in RxFrame : m = RxIndicate(f)
  BY <1>2 DEF RxIndicate, TxConfirm
<1>3. CASE \E r \in Requests, ok \in BOOLEAN : m = Confirm(r, ok)
  BY <1>3 DEF Confirm, TxConfirm
<1>4. CASE \E s \in Losses \cup {"BACK"} : m = Indicate(s)
  BY <1>4 DEF Indicate, TxConfirm
<1> QED BY <1>1, <1>2, <1>3, <1>4 DEF Messages

\* What Append and Tail do to the messages of a queue.
LEMMA AppendElements ==
  ASSUME NEW s \in Seq(Messages), NEW m \in Messages
  PROVE  Elements(Append(s, m)) = Elements(s) \cup {m}
<1> DEFINE t == Append(s, m)
<1>1. /\ Len(s) \in Nat /\ Len(t) = Len(s) + 1 /\ t[Len(s) + 1] = m
      /\ \A i \in 1..Len(s) : t[i] = s[i]
  BY AppendProperties, LenProperties
<1> HIDE DEF t
<1>2. Elements(t) = {t[i] : i \in 1..Len(s)} \cup {t[Len(s) + 1]}
  BY <1>1 DEF Elements
<1>3. {t[i] : i \in 1..Len(s)} = Elements(s)
  BY <1>1 DEF Elements
<1> QED BY <1>1, <1>2, <1>3 DEF t

LEMMA TailElements ==
  ASSUME NEW s \in Seq(Messages), s # <<>>
  PROVE  Elements(s) = {Head(s)} \cup Elements(Tail(s))
<1> DEFINE t == Tail(s)
<1>1. /\ Len(s) \in Nat \ {0} /\ Len(t) = Len(s) - 1 /\ s[1] = Head(s)
      /\ \A i \in 1..Len(t) : t[i] = s[i + 1]
  BY HeadTailProperties, EmptySeq
<1> HIDE DEF t
<1>2. ASSUME NEW i \in 1..Len(s)
      PROVE  s[i] \in {Head(s)} \cup Elements(t)
  <2>1. CASE i = 1
    BY <1>1, <2>1
  <2>2. CASE i # 1
    <3>1. i - 1 \in 1..Len(t) /\ t[i - 1] = s[i]
      BY <1>1, <2>2
    <3> QED BY <3>1 DEF Elements
  <2> QED BY <2>1, <2>2
<1>3. ASSUME NEW i \in 1..Len(t)
      PROVE  t[i] \in Elements(s)
  BY <1>1 DEF Elements
<1>4. Head(s) \in Elements(s)
  BY <1>1 DEF Elements
<1> QED BY <1>2, <1>3, <1>4 DEF Elements, t

\* A message that the chip tells joins the line.
LEMMA TellLine ==
  ASSUME Queues, NEW q \in {0, 1}, NEW m \in Messages, Tell(q, m), MessageKept
  PROVE  /\ Queues'
         /\ Pending' = Pending \cup {m}
         /\ \A type : Single(type) /\ (m.type # type \/ PendingOf(type) = {}) => Single(type)'
<1>1. fifo' = [fifo EXCEPT ![q] = Append(fifo[q], m)] /\ fifo[q] \in Seq(Messages)
  BY DEF Tell, Queues
<1>2. Append(fifo[q], m) \in Seq(Messages)
  BY <1>1, AppendProperties
<1>3. Queues'
  BY <1>1, <1>2 DEF Queues
<1>4. Elements(fifo'[q]) = Elements(fifo[q]) \cup {m}
  BY <1>1, AppendElements DEF Queues
<1>5. \A p \in {0, 1} : p # q => fifo'[p] = fifo[p]
  BY <1>1 DEF Queues
<1>6. Pending' = Pending \cup {m}
  <2>1. Pending' = Elements(fifo'[0]) \cup Elements(fifo'[1])
                     \cup (IF intr_valid THEN {message} ELSE {})
    BY DEF Pending, Elements, MessageKept
  <2> QED BY <1>4, <1>5, <2>1 DEF Pending
<1>7. ASSUME NEW type, Single(type), m.type # type \/ PendingOf(type) = {}
      PROVE  Single(type)'
  <2>1. \A p \in {0, 1} : Len(fifo[p]) \in Nat
    BY LenProperties DEF Queues
  <2>2. /\ Len(fifo'[q]) = Len(fifo[q]) + 1 /\ fifo'[q][Len(fifo[q]) + 1] = m
        /\ \A i \in 1..Len(fifo[q]) : fifo'[q][i] = fifo[q][i]
    BY <1>1, AppendProperties DEF Queues
  <2>3. \A p \in {0, 1} : \A i \in 1..Len(fifo'[p]) :
          fifo'[p][i].type = type =>
            \/ i \in 1..Len(fifo[p]) /\ fifo'[p][i] = fifo[p][i]
            \/ p = q /\ i = Len(fifo[q]) + 1 /\ m.type = type
    BY <1>5, <2>1, <2>2
  <2>4. CASE m.type # type
    <3>1. \A p \in {0, 1} : \A i \in 1..Len(fifo'[p]) :
            fifo'[p][i].type = type => i \in 1..Len(fifo[p]) /\ fifo[p][i].type = type
      BY <2>3, <2>4
    <3>2. intr_valid' /\ message'.type = type => intr_valid /\ message.type = type
      BY DEF MessageKept
    <3>3. ASSUME NEW p1 \in {0, 1}, NEW p2 \in {0, 1},
                 NEW i \in 1..Len(fifo'[p1]), NEW j \in 1..Len(fifo'[p2]),
                 fifo'[p1][i].type = type, fifo'[p2][j].type = type
          PROVE  p1 = p2 /\ i = j
      <4>1. /\ i \in 1..Len(fifo[p1]) /\ fifo[p1][i].type = type
            /\ j \in 1..Len(fifo[p2]) /\ fifo[p2][j].type = type
        BY <3>1, <3>3
      <4> QED BY <1>7, <4>1 DEF Single
    <3>4. ASSUME intr_valid' /\ message'.type = type,
                 NEW p \in {0, 1}, NEW i \in 1..Len(fifo'[p])
          PROVE  fifo'[p][i].type # type
      <4>1. intr_valid /\ message.type = type
        BY <3>2, <3>4
      <4>2. \A k \in 1..Len(fifo[p]) : fifo[p][k].type # type
        BY <1>7, <4>1 DEF Single
      <4> QED BY <3>1, <3>4, <4>2
    <3> QED BY <3>3, <3>4 DEF Single
  <2>5. CASE PendingOf(type) = {}
    <3>1. \A p \in {0, 1} : \A i \in 1..Len(fifo[p]) : fifo[p][i] \in Pending
      BY DEF Pending, Elements
    <3>2. /\ \A p \in {0, 1} : \A i \in 1..Len(fifo[p]) : fifo[p][i].type # type
          /\ ~ (intr_valid /\ message.type = type)
      BY <2>5, <3>1 DEF PendingOf, Pending
    <3>3. \A p \in {0, 1} : \A i \in 1..Len(fifo'[p]) :
            fifo'[p][i].type = type => p = q /\ i = Len(fifo[q]) + 1
      BY <2>3, <3>2
    <3> QED BY <3>2, <3>3 DEF Single, MessageKept
  <2> QED BY <1>7, <2>4, <2>5
<1> QED BY <1>3, <1>6, <1>7

\* A message that the interrupt handler fetches stays on the line.
LEMMA FetchLine ==
  ASSUME Queues, fifo[0] # <<>> \/ fifo[1] # <<>>, intr_occured, ~ intr_valid, DrvIsr
  PROVE  /\ Queues'
         /\ Pending' = Pending
         /\ message' \in Messages
         /\ \A type : Single(type) => Single(type)'
<1> DEFINE q == NextFifo
<1>1. q \in {0, 1} /\ fifo[q] # <<>> /\ fifo[q] \in Seq(Messages)
  BY DEF NextFifo, Queues
<1> HIDE DEF q
<1>2. /\ fifo' = [fifo EXCEPT ![q] = Tail(fifo[q])]
      /\ message' = Head(fifo[q]) /\ intr_valid' = TRUE
  BY DEF DrvIsr, q
<1>3. Tail(fifo[q]) \in Seq(Messages) /\ Head(fifo[q]) \in Messages
  BY <1>1, HeadTailProperties
<1>4. Queues'
  BY <1>1, <1>2, <1>3 DEF Queues
<1>5. Elements(fifo[q]) = {message'} \cup Elements(fifo'[q])
  BY <1>1, <1>2, TailElements DEF Queues
<1>6. \A p \in {0, 1} : p # q => fifo'[p] = fifo[p]
  BY <1>2 DEF Queues
<1>7. Pending' = Elements(fifo'[0]) \cup Elements(fifo'[1]) \cup {message'}
  BY <1>2 DEF Pending, Elements
<1>8. Pending = Elements(fifo[0]) \cup Elements(fifo[1])
  BY DEF Pending
<1>9. Pending' = Pending
  BY <1>1, <1>5, <1>6, <1>7, <1>8
<1>10. ASSUME NEW type, Single(type)
       PROVE  Single(type)'
  <2>1. \A p \in {0, 1} : Len(fifo[p]) \in Nat
    BY LenProperties DEF Queues
  <2>2. /\ Len(fifo[q]) # 0 /\ Len(fifo'[q]) = Len(fifo[q]) - 1 /\ fifo[q][1] = message'
        /\ \A i \in 1..Len(fifo'[q]) : fifo'[q][i] = fifo[q][i + 1]
    BY <1>1, <1>2, HeadTailProperties, EmptySeq DEF Queues
  <2>3. \A i \in 1..Len(fifo'[q]) : i + 1 \in 1..Len(fifo[q]) /\ i + 1 # 1 /\ i \in Nat
    BY <1>1, <2>1, <2>2
  <2>4. 1 \in 1..Len(fifo[q])
    BY <1>1, <2>1, <2>2
  <2>5. ASSUME NEW p1 \in {0, 1}, NEW p2 \in {0, 1},
               NEW i \in 1..Len(fifo'[p1]), NEW j \in 1..Len(fifo'[p2]),
               fifo'[p1][i].type = type, fifo'[p2][j].type = type
        PROVE  p1 = p2 /\ i = j
    <3> DEFINE at(p, k) == IF p = q THEN k + 1 ELSE k
    <3>1. \A p \in {0, 1} : \A k \in 1..Len(fifo'[p]) :
            at(p, k) \in 1..Len(fifo[p]) /\ fifo[p][at(p, k)] = fifo'[p][k]
      BY <1>6, <2>2, <2>3
    <3>2. p1 = p2 /\ at(p1, i) = at(p2, j)
      <4>1. at(p1, i) \in 1..Len(fifo[p1]) /\ at(p2, j) \in 1..Len(fifo[p2])
        BY <3>1
      <4>2. fifo[p1][at(p1, i)].type = type /\ fifo[p2][at(p2, j)].type = type
        BY <2>5, <3>1
      <4> HIDE DEF at
      <4> QED BY <1>10, <4>1, <4>2 DEF Single
    <3>3. i \in Int /\ j \in Int
      OBVIOUS
    <3> QED BY <3>2, <3>3
  <2>6. ASSUME message'.type = type, NEW p \in {0, 1}, NEW i \in 1..Len(fifo'[p])
        PROVE  fifo'[p][i].type # type
    <3>1. CASE p = q
      <4>1. i + 1 \in 1..Len(fifo[q]) /\ i + 1 # 1 /\ fifo'[q][i] = fifo[q][i + 1]
        BY <2>2, <2>3, <2>6, <3>1
      <4>2. fifo[q][1].type = type
        BY <2>2, <2>6
      <4>3. fifo[q][i + 1].type = type => 1 = i + 1
        BY <1>1, <1>10, <2>4, <4>1, <4>2 DEF Single
      <4> QED BY <3>1, <4>1, <4>3
    <3>2. CASE p # q
      <4>1. i \in 1..Len(fifo[p]) /\ fifo'[p][i] = fifo[p][i]
        BY <1>6, <2>6, <3>2
      <4>2. fifo[q][1].type = type
        BY <2>2, <2>6
      <4>3. fifo[p][i].type = type => p = q
        BY <1>1, <1>10, <2>4, <4>1, <4>2 DEF Single
      <4> QED BY <3>2, <4>1, <4>3
    <3> QED BY <3>1, <3>2
  <2> QED BY <2>5, <2>6 DEF Single
<1> QED BY <1>2, <1>3, <1>4, <1>9, <1>10

\* A message that the driver has taken notice of leaves the line, and if it was the only one
\* of its type, none of this type is left.
LEMMA NoticeLine ==
  ASSUME Queues, intr_valid, UNCHANGED <<fifo, message>>, intr_valid' = FALSE
  PROVE  /\ Queues'
         /\ Pending' \subseteq Pending
         /\ Pending \subseteq Pending' \cup {message}
         /\ message \in Pending
         /\ \A type : Single(type) => Single(type)'
         /\ \A type : Single(type) /\ message.type = type => PendingOf(type)' = {}
<1>1. Pending' = Elements(fifo[0]) \cup Elements(fifo[1])
  BY DEF Pending, Elements
<1>2. Pending = Elements(fifo[0]) \cup Elements(fifo[1]) \cup {message}
  BY DEF Pending
<1>3. \A type : Single(type) => Single(type)'
  BY DEF Single
<1>4. \A type : Single(type) /\ message.type = type => PendingOf(type)' = {}
  BY <1>1 DEF Single, PendingOf, Elements
<1>5. Queues'
  BY DEF Queues
<1> QED BY <1>1, <1>2, <1>3, <1>4, <1>5

LEMMA KeepLine ==
  ASSUME LineKept
  PROVE  Pending' = Pending /\ (Queues => Queues') /\ \A type : Single(type) => Single(type)'
BY DEF LineKept, MessageKept, Pending, Elements, Queues, Single

-----------------------------------------------------------------------------
(* Types                                                                    *)

\* The types, and where the messages that the driver's steps look at come from.
DriverTypes ==
  /\ G2100TypeOK
  /\ intr_occured => fifo[0] # <<>> \/ fifo[1] # <<>>
  /\ intr_valid => pc = "msg" /\ message \in Messages
  /\ zg_drv_state = "PROCESS_RX" =>
       pc = "state" /\ message \in Messages /\ message.type = "RXDATA_INDICATE"

\* What the steps of the chip tell are messages, for one of its two queues.
LEMMA ChipMessages ==
  /\ MgmtFifo \in {0, 1} /\ DataFifo \in {0, 1}
  /\ TxConfirm \in Messages
  /\ \A f \in RxFrame : RxIndicate(f) \in Messages
  /\ \A r \in Requests, ok \in BOOLEAN : Confirm(r, ok) \in Messages
  /\ \A s \in Losses \cup {"BACK"} : Indicate(s) \in Messages
BY G2100Assumption DEF Messages

\* The types hold at the start.
LEMMA TypesInit == G2100Init => DriverTypes
<1> SUFFICES ASSUME G2100Init
             PROVE  DriverTypes
  OBVIOUS
<1>1. reqs \in Seq(Requests) /\ fifo \in [{0, 1} -> Seq(Messages)]
  BY EmptySeq DEF G2100Init
<1> QED BY <1>1, G2100Assumption DEF G2100Init, DriverTypes, G2100TypeOK, Contents

\* No step of the program, the driver or the chip leaves the types.
LEMMA TypesStep ==
  ASSUME DriverTypes, [DriverNext]_g2100Vars
  PROVE  DriverTypes'
<1> USE G2100Assumption
<1>1. Queues
  BY DEF DriverTypes, G2100TypeOK, Queues
<1>2. CASE Host
  <2>1. zg_buf' \in Contents /\ tx_ready' \in BOOLEAN
    BY <1>2 DEF Host, LeaveBuffer, network_send, DriverTypes, G2100TypeOK, Contents
  <2>2. budget' \in 0..Budget
    BY <1>2 DEF Host, DriverTypes, G2100TypeOK
  <2>3. rx_ready' \in BOOLEAN /\ pc' \in {"tx", "loop", "midi"}
    BY <1>2 DEF Host, DriverTypes, G2100TypeOK
  <2>4. ~ intr_valid /\ zg_drv_state # "PROCESS_RX"
    BY <1>2 DEF Host, DriverTypes
  <2>5. /\ UNCHANGED <<zg_drv_state, zg_conn_status, security_type, intr_occured, intr_valid>>
        /\ UNCHANGED <<cnf_pending, message, sending, reqs, assoc, fifo, trouble>>
    BY <1>2 DEF Host, chip
  <2>6. G2100TypeOK'
    BY <2>1, <2>2, <2>3, <2>5 DEF DriverTypes, G2100TypeOK
  <2> QED BY <2>4, <2>5, <2>6 DEF DriverTypes
<1>3. CASE DrvTx
  <2>1. zg_buf' \in Contents
    BY <1>3 DEF DrvTx, DriverTypes, G2100TypeOK, Contents
  <2> QED BY <1>3, <2>1 DEF DrvTx, DriverTypes, G2100TypeOK, counts
<1>4. CASE DrvIsr
  <2>1. zg_buf' \in Contents
    BY <1>4 DEF DrvIsr, DriverTypes, G2100TypeOK, Contents
  <2>2. CASE intr_occured
    <3>1. Queues' /\ message' \in Messages
      BY <1>1, <1>4, <2>2, FetchLine DEF DriverTypes, DrvIsr
    <3> QED BY <1>4, <2>1, <2>2, <3>1 DEF DrvIsr, DriverTypes, G2100TypeOK, Queues, counts
  <2>3. CASE ~ intr_occured
    BY <1>4, <2>1, <2>3 DEF DrvIsr, DriverTypes, G2100TypeOK, counts
  <2> QED BY <2>2, <2>3
<1>5. CASE DrvMsg
  <2>1. /\ zg_drv_state' \in {"INIT", "GET_MAC", "SETUP_SECURITY", "INSTALL_PSK",
                              "ENABLE_CONN_MANAGE", "START_CONN", "PROCESS_RX", "IDLE"}
        /\ zg_conn_status' \in {0, 1}
        /\ cnf_pending' \in BOOLEAN
        /\ zg_drv_state' = "PROCESS_RX" =>
             message \in Messages /\ message.type = "RXDATA_INDICATE"
    <3>1. CASE intr_valid
      BY <1>5, <3>1 DEF DrvMsg, OnTxConfirm, OnMgmtConfirm, OnRxIndicate, OnMgmtIndicate,
         AfterConfirm, DriverTypes, G2100TypeOK
    <3>2. CASE ~ intr_valid
      BY <1>5, <3>2 DEF DrvMsg, DriverTypes, G2100TypeOK
    <3> QED BY <3>1, <3>2
  <2> QED BY <1>5, <2>1 DEF DrvMsg, DriverTypes, G2100TypeOK, chip, counts
<1>6. CASE DrvState
  <2>1. /\ zg_drv_state' \in {"INIT", "GET_MAC", "SETUP_SECURITY", "INSTALL_PSK",
                              "ENABLE_CONN_MANAGE", "START_CONN", "IDLE"}
        /\ zg_buf' \in Contents /\ rx_ready' \in BOOLEAN
        /\ reqs' \in Seq(Requests) /\ Queues'
        /\ \A q \in {0, 1} : fifo[q] # <<>> => fifo'[q] # <<>>
    <3>1. ASSUME NEW r \in Requests, Request(r)
          PROVE  /\ zg_drv_state' = "IDLE" /\ zg_buf' \in Contents /\ rx_ready' \in BOOLEAN
                 /\ reqs' \in Seq(Requests) /\ Queues'
                 /\ \A q \in {0, 1} : fifo[q] # <<>> => fifo'[q] # <<>>
      <4>1. zg_drv_state' = "IDLE" /\ zg_buf' \in Contents /\ rx_ready' \in BOOLEAN
        BY <3>1 DEF Request, Contents, DriverTypes, G2100TypeOK
      <4>2. CASE reqs = <<>>
        <5>1. reqs' = <<r>> /\ fifo' = fifo
          BY <3>1, <4>2 DEF Request
        <5>2. <<r>> \in Seq(Requests)
          OBVIOUS
        <5> QED BY <1>1, <4>1, <5>1, <5>2 DEF Queues
      <4>3. CASE reqs # <<>>
        <5>1. Confirm(r, FALSE) \in Messages /\ MgmtFifo \in {0, 1}
          BY ChipMessages
        <5>2. fifo' = [fifo EXCEPT ![MgmtFifo] = Append(fifo[MgmtFifo], Confirm(r, FALSE))]
          BY <3>1, <4>3 DEF Request
        <5>3. /\ Append(fifo[MgmtFifo], Confirm(r, FALSE)) \in Seq(Messages)
              /\ Append(fifo[MgmtFifo], Confirm(r, FALSE)) # <<>>
          <6>1. \A q \in {0, 1}, m \in Messages :
                  Append(fifo[q], m) \in Seq(Messages) /\ Append(fifo[q], m) # <<>>
            BY <1>1, AppendProperties DEF Queues
          <6> QED BY <5>1, <6>1
        <5>4. reqs' \in Seq(Requests)
          BY <3>1, <4>3 DEF Request, DriverTypes, G2100TypeOK
        <5>5. Queues' /\ \A q \in {0, 1} : fifo[q] # <<>> => fifo'[q] # <<>>
          BY <1>1, <5>1, <5>2, <5>3 DEF Queues
        <5> QED BY <4>1, <5>4, <5>5
      <4> QED BY <4>1, <4>2, <4>3
    <3>3. CASE Step("INIT", "GET_MAC") \/ Step("IDLE", "IDLE")
      BY <1>1, <3>3 DEF Step, Queues, DriverTypes, G2100TypeOK
    <3>4. CASE StateGetMac \/ StateInstallPsk \/ StateConnManage \/ StateConnect
      BY <3>1, <3>4 DEF StateGetMac, StateInstallPsk, StateConnManage, StateConnect, Requests
    <3>5. CASE StateSecurity
      <4>1. \/ Step("SETUP_SECURITY", "ENABLE_CONN_MANAGE")
            \/ Step("SETUP_SECURITY", "SETUP_SECURITY")
            \/ Request("WEP_KEY") \/ Request("CALC_PSK")
        BY <3>5 DEF StateSecurity
      <4>2. CASE Request("WEP_KEY") \/ Request("CALC_PSK")
        BY <3>1, <4>2 DEF Requests
      <4> QED BY <1>1, <4>1, <4>2 DEF Step, Queues, DriverTypes, G2100TypeOK
    <3>6. CASE StateRx
      <4>1. message.frame \in RxFrame
        BY <3>6, MessageKinds DEF StateRx, DriverTypes
      <4> QED BY <1>1, <3>6, <4>1 DEF StateRx, Queues, DriverTypes, G2100TypeOK, Contents
    <3> QED BY <1>6, <3>3, <3>4, <3>5, <3>6 DEF DrvState
  <2>2. /\ pc = "state" /\ pc' = "midi" /\ message' = NoMessage
        /\ UNCHANGED <<zg_conn_status, security_type, intr_occured, intr_valid, tx_ready,
                       cnf_pending, sending, assoc, budget, trouble>>
    BY <1>6 DEF DrvState, counts
  <2>3. G2100TypeOK'
    BY <2>1, <2>2 DEF DriverTypes, G2100TypeOK, Queues
  <2> QED BY <2>1, <2>2, <2>3 DEF DriverTypes
<1>7. CASE zg_isr
  BY <1>7 DEF zg_isr, DriverTypes, G2100TypeOK, chip, counts
<1>8. ASSUME NEW q \in {0, 1}, NEW m \in Messages, Tell(q, m),
             UNCHANGED <<drv, pc>>,
             sending' \in BOOLEAN, assoc' \in BOOLEAN, reqs' \in Seq(Requests),
             budget' \in 0..Budget, trouble' \subseteq {"lost", "refused"}
      PROVE  DriverTypes'
  <2>1. Queues'
    BY <1>1, <1>8, TellLine DEF drv, MessageKept
  <2>2. \A p \in {0, 1} : fifo[p] # <<>> => fifo'[p] # <<>>
    <3>1. Append(fifo[q], m) # <<>>
      BY <1>1, AppendProperties DEF Queues
    <3> QED BY <1>1, <1>8, <3>1 DEF Tell, Queues
  <2> QED BY <1>8, <2>1, <2>2 DEF drv, DriverTypes, G2100TypeOK, Queues
<1>9. Spend => budget' \in 0..Budget
  BY DEF Spend, DriverTypes, G2100TypeOK
<1>10. CASE ChipTxDone
  BY <1>8, <1>10, ChipMessages DEF ChipTxDone, counts, DriverTypes, G2100TypeOK
<1>11. CASE ChipConfirm \/ ChipRefuse
  <2>1. Head(reqs) \in Requests /\ <<>> \in Seq(Requests)
    BY <1>11, HeadTailProperties, EmptySeq DEF ChipConfirm, ChipRefuse, DriverTypes, G2100TypeOK
  <2>2. Confirm(Head(reqs), TRUE) \in Messages /\ Confirm(Head(reqs), FALSE) \in Messages
    BY <2>1, ChipMessages
  <2>3. CASE ChipConfirm
    BY <1>8, <2>1, <2>2, <2>3, ChipMessages
       DEF ChipConfirm, counts, DriverTypes, G2100TypeOK
  <2>4. CASE ChipRefuse
    BY <1>8, <1>9, <2>1, <2>2, <2>4, ChipMessages DEF ChipRefuse, DriverTypes, G2100TypeOK
  <2> QED BY <1>11, <2>3, <2>4
<1>12. CASE ChipReceive
  BY <1>8, <1>9, <1>12, ChipMessages DEF ChipReceive, DriverTypes, G2100TypeOK
<1>13. CASE ChipLost
  BY <1>8, <1>9, <1>13, ChipMessages DEF ChipLost, DriverTypes, G2100TypeOK
<1>14. CASE ChipBack
  BY <1>8, <1>14, ChipMessages DEF ChipBack, counts, DriverTypes, G2100TypeOK
<1>15. CASE UNCHANGED g2100Vars
  BY <1>15 DEF g2100Vars, drv, chip, counts, DriverTypes, G2100TypeOK
<1> QED
  BY <1>2, <1>3, <1>4, <1>5, <1>6, <1>7, <1>10, <1>11, <1>12, <1>13, <1>14, <1>15
     DEF DriverNext, zg_drv_process, Chip

\* The types, for every program: what each of the theorems below starts from.
LEMMA DriverTypesCorrect == DriverSpec => []DriverTypes
<1>1. DriverTypes /\ [DriverNext]_g2100Vars => DriverTypes'
  BY TypesStep
<1> QED BY <1>1, TypesInit, PTL DEF DriverSpec

-----------------------------------------------------------------------------
(* One frame outstanding                                                    *)

\* The last step of zg_drv_process tells the chip nothing, or makes it refuse a request.
LEMMA StateLine ==
  ASSUME DriverTypes, DrvState
  PROVE  \/ LineKept
         \/ /\ \E r \in Requests : Tell(MgmtFifo, Confirm(r, FALSE))
            /\ MessageKept /\ reqs # <<>> /\ zg_drv_state # "IDLE"
<1>1. MessageKept
  BY DEF DriverTypes, DrvState, MessageKept
<1>2. ASSUME NEW r \in Requests, Request(r), zg_drv_state # "IDLE"
      PROVE  \/ fifo' = fifo
             \/ Tell(MgmtFifo, Confirm(r, FALSE)) /\ reqs # <<>>
  BY <1>2 DEF Request, Tell
<1>3. CASE StateGetMac \/ StateInstallPsk \/ StateConnManage \/ StateConnect
  BY <1>1, <1>2, <1>3
     DEF StateGetMac, StateInstallPsk, StateConnManage, StateConnect, Requests, LineKept
<1>4. CASE StateSecurity
  <2>1. \/ Step("SETUP_SECURITY", "ENABLE_CONN_MANAGE")
        \/ Step("SETUP_SECURITY", "SETUP_SECURITY")
        \/ Request("WEP_KEY") \/ Request("CALC_PSK")
    BY <1>4 DEF StateSecurity
  <2>2. zg_drv_state # "IDLE"
    BY <1>4 DEF StateSecurity
  <2>3. CASE Request("WEP_KEY") \/ Request("CALC_PSK")
    BY <1>1, <1>2, <2>2, <2>3 DEF Requests, LineKept
  <2> QED BY <1>1, <2>1, <2>3 DEF Step, LineKept
<1>5. CASE StateRx \/ Step("INIT", "GET_MAC") \/ Step("IDLE", "IDLE")
  BY <1>1, <1>5 DEF StateRx, Step, LineKept
<1> QED BY <1>3, <1>4, <1>5 DEF DrvState

LEMMA OutstandingInit == G2100Init => OneOutstanding
<1> SUFFICES ASSUME G2100Init
             PROVE  OneOutstanding
  OBVIOUS
<1>1. ~ sending /\ ~ cnf_pending /\ ~ intr_valid /\ fifo = [q \in {0, 1} |-> <<>>]
  BY DEF G2100Init
<1>2. fifo[0] = <<>> /\ fifo[1] = <<>> /\ Len(<<>>) = 0
  BY <1>1
<1>3. Pending = {}
  BY <1>1, <1>2 DEF Pending, Elements
<1>4. Single("TXDATA_CONFIRM")
  BY <1>1, <1>2 DEF Single
<1> QED BY <1>1, <1>3, <1>4 DEF OneOutstanding, PendingOf

LEMMA OutstandingStep ==
  ASSUME DriverTypes, OneOutstanding, [DriverNext]_g2100Vars
  PROVE  OneOutstanding'
<1>1. Queues
  BY DEF DriverTypes, G2100TypeOK, Queues
<1>2. ASSUME Pending' = Pending, Single("TXDATA_CONFIRM")',
             UNCHANGED <<cnf_pending, sending>>
      PROVE  OneOutstanding'
  BY <1>2 DEF OneOutstanding, PendingOf
<1>3. ASSUME LineKept, UNCHANGED <<cnf_pending, sending>>
      PROVE  OneOutstanding'
  BY <1>2, <1>3, KeepLine DEF OneOutstanding
<1>4. ASSUME NEW q \in {0, 1}, NEW m \in Messages, m.type # "TXDATA_CONFIRM",
             Tell(q, m), MessageKept, UNCHANGED <<cnf_pending, sending>>
      PROVE  OneOutstanding'
  <2>1. Pending' = Pending \cup {m} /\ Single("TXDATA_CONFIRM")'
    BY <1>1, <1>4, TellLine DEF OneOutstanding
  <2> QED BY <1>4, <2>1 DEF OneOutstanding, PendingOf
<1>5. CASE Host \/ zg_isr \/ UNCHANGED g2100Vars
  BY <1>3, <1>5 DEF Host, zg_isr, chip, g2100Vars, drv, LineKept, MessageKept
<1>6. CASE DrvTx
  <2>1. LineKept /\ Pending' = Pending /\ Single("TXDATA_CONFIRM")'
    BY <1>6, KeepLine DEF DrvTx, LineKept, MessageKept, OneOutstanding
  <2>2. \/ UNCHANGED <<cnf_pending, sending>>
        \/ ~ cnf_pending /\ cnf_pending' = TRUE /\ sending' = TRUE
    BY <1>6 DEF DrvTx
  <2> QED BY <2>1, <2>2 DEF OneOutstanding, PendingOf
<1>7. CASE DrvIsr
  <2>1. CASE intr_occured
    BY <1>1, <1>2, <1>7, <2>1, FetchLine DEF DrvIsr, DriverTypes, OneOutstanding
  <2>2. CASE ~ intr_occured
    BY <1>3, <1>7, <2>2 DEF DrvIsr, LineKept, MessageKept
  <2> QED BY <2>1, <2>2
<1>8. CASE DrvMsg
  <2>1. CASE ~ intr_valid
    <3>1. intr_valid = FALSE
      BY <2>1 DEF DriverTypes, G2100TypeOK
    <3> QED BY <1>3, <1>8, <2>1, <3>1 DEF DrvMsg, chip, LineKept, MessageKept
  <2>2. CASE intr_valid
    <3>1. /\ UNCHANGED <<fifo, message, sending>> /\ intr_valid' = FALSE
          /\ cnf_pending' = IF message.type = "TXDATA_CONFIRM" THEN FALSE ELSE cnf_pending
      BY <1>8, <2>2 DEF DrvMsg, OnTxConfirm, OnMgmtConfirm, OnRxIndicate, OnMgmtIndicate, chip
    <3>2. /\ Pending' \subseteq Pending /\ Pending \subseteq Pending' \cup {message}
          /\ message \in Pending /\ Single("TXDATA_CONFIRM")'
          /\ \A type : Single(type) /\ message.type = type => PendingOf(type)' = {}
      BY <1>1, <2>2, <3>1, NoticeLine DEF OneOutstanding
    <3>3. CASE message.type = "TXDATA_CONFIRM"
      BY <3>1, <3>2, <3>3 DEF OneOutstanding, PendingOf
    <3>4. CASE message.type # "TXDATA_CONFIRM"
      <4>1. PendingOf("TXDATA_CONFIRM")' = PendingOf("TXDATA_CONFIRM")
        BY <3>2, <3>4 DEF PendingOf
      <4> QED BY <3>1, <3>2, <3>4, <4>1 DEF OneOutstanding
    <3> QED BY <3>3, <3>4
  <2> QED BY <2>1, <2>2
<1>9. CASE DrvState
  <2>1. UNCHANGED <<cnf_pending, sending>>
    BY <1>9 DEF DrvState
  <2>2. CASE LineKept
    BY <1>3, <2>1, <2>2
  <2>3. CASE MessageKept /\ \E r \in Requests : Tell(MgmtFifo, Confirm(r, FALSE))
    <3>1. \A r \in Requests : Confirm(r, FALSE) \in Messages
                              /\ Confirm(r, FALSE).type # "TXDATA_CONFIRM"
      BY ChipMessages DEF Confirm
    <3> QED BY <1>4, <2>1, <2>3, <3>1, ChipMessages
  <2> QED BY <1>9, <2>2, <2>3, StateLine
<1>10. CASE ChipTxDone
  <2>1. Tell(DataFifo, TxConfirm) /\ MessageKept /\ sending /\ sending' = FALSE
        /\ cnf_pending' = cnf_pending
    BY <1>10 DEF ChipTxDone, drv, MessageKept
  <2>2. PendingOf("TXDATA_CONFIRM") = {} /\ cnf_pending
    BY <2>1 DEF OneOutstanding
  <2>3. TxConfirm \in Pending' /\ Single("TXDATA_CONFIRM")'
    BY <1>1, <2>1, <2>2, ChipMessages, TellLine DEF OneOutstanding
  <2>4. TxConfirm \in PendingOf("TXDATA_CONFIRM")'
    BY <2>3 DEF PendingOf, TxConfirm
  <2> QED BY <2>1, <2>2, <2>3, <2>4 DEF OneOutstanding
<1>11. CASE ChipConfirm \/ ChipRefuse
  <2>1. Head(reqs) \in Requests
    BY <1>11, HeadTailProperties DEF ChipConfirm, ChipRefuse, DriverTypes, G2100TypeOK
  <2>2. \A ok \in BOOLEAN : /\ Confirm(Head(reqs), ok) \in Messages
                            /\ Confirm(Head(reqs), ok).type # "TXDATA_CONFIRM"
    BY <2>1, ChipMessages DEF Confirm
  <2>3. \E ok \in BOOLEAN : Tell(MgmtFifo, Confirm(Head(reqs), ok))
    BY <1>11 DEF ChipConfirm, ChipRefuse
  <2>4. MessageKept /\ UNCHANGED <<cnf_pending, sending>>
    BY <1>11 DEF ChipConfirm, ChipRefuse, drv, MessageKept
  <2> QED BY <1>4, <2>2, <2>3, <2>4, ChipMessages
<1>12. CASE ChipReceive \/ ChipLost \/ ChipBack
  <2>1. \E q \in {0, 1}, m \in Messages : m.type # "TXDATA_CONFIRM" /\ Tell(q, m)
    BY <1>12, ChipMessages DEF ChipReceive, ChipLost, ChipBack, RxIndicate, Indicate
  <2>2. MessageKept /\ UNCHANGED <<cnf_pending, sending>>
    BY <1>12 DEF ChipReceive, ChipLost, ChipBack, drv, MessageKept
  <2> QED BY <1>4, <2>1, <2>2
<1> QED
  BY <1>5, <1>6, <1>7, <1>8, <1>9, <1>10, <1>11, <1>12
     DEF DriverNext, zg_drv_process, Chip

\* Whatever the program does with the driver's interface, the driver waits for a confirm
\* exactly while one is due, and a frame is never at the chip while a confirm is on its way.
THEOREM DriverOutstanding == DriverSpec => []OneOutstanding
<1>1. DriverTypes /\ OneOutstanding /\ [DriverNext]_g2100Vars => OneOutstanding'
  BY OutstandingStep
<1> QED BY <1>1, OutstandingInit, DriverTypesCorrect, PTL DEF DriverSpec

-----------------------------------------------------------------------------
(* The connection's status                                                  *)

\* The messages that say whether the chip is associated, and what they say.
Speaks(m) ==
  \/ m.type = "MGMT_INDICATE"
  \/ m.type = "MGMT_CONFIRM" /\ m.sub = "CONNECT" /\ m.ok
Says(m) == m.type = "MGMT_CONFIRM" \/ m.sub = "BACK"

Mgmt == fifo[MgmtFifo]
Spoken == {k \in 1..Len(Mgmt) : Speaks(Mgmt[k])}

\* What the driver knows once it has looked at the message it fetched.
Known == IF intr_valid /\ Speaks(message) THEN Says(message) ELSE zg_conn_status = 1

\* The last message that speaks says what is so, and if none is on its way the driver
\* knows it.
Status ==
  /\ \A k \in Spoken : (\A j \in Spoken : j <= k) => (assoc <=> Says(Mgmt[k]))
  /\ Spoken = {} => (assoc <=> Known)
  /\ \A q \in {0, 1} \ {MgmtFifo} : \A k \in 1..Len(fifo[q]) : ~ Speaks(fifo[q][k])

LEMMA StatusInit == G2100Init => Status
<1> SUFFICES ASSUME G2100Init
             PROVE  Status
  OBVIOUS
<1>1. /\ ~ assoc /\ zg_conn_status = 0 /\ ~ intr_valid
      /\ fifo[0] = <<>> /\ fifo[1] = <<>> /\ Len(<<>>) = 0
  BY DEF G2100Init
<1>2. Spoken = {}
  BY <1>1, ChipMessages DEF Spoken, Mgmt
<1> QED BY <1>1, <1>2 DEF Status, Known

\* A message that says nothing of the kind changes nothing.
LEMMA TellSilent ==
  ASSUME Queues, Status, NEW q \in {0, 1}, NEW m \in Messages, ~ Speaks(m), Tell(q, m),
         MessageKept, UNCHANGED <<assoc, zg_conn_status>>
  PROVE  Status'
<1>1. \A p \in {0, 1} : Len(fifo[p]) \in Nat
  BY LenProperties DEF Queues
<1>2. /\ Len(fifo'[q]) = Len(fifo[q]) + 1 /\ fifo'[q][Len(fifo[q]) + 1] = m
      /\ \A i \in 1..Len(fifo[q]) : fifo'[q][i] = fifo[q][i]
      /\ \A p \in {0, 1} : p # q => fifo'[p] = fifo[p]
  BY AppendProperties DEF Queues, Tell
<1>3. MgmtFifo \in {0, 1}
  BY ChipMessages
<1>4. \A p \in {0, 1} : \A i : 
        (i \in 1..Len(fifo'[p]) /\ Speaks(fifo'[p][i]))
          <=> (i \in 1..Len(fifo[p]) /\ Speaks(fifo[p][i]))
  <2> HIDE DEF Speaks
  <2> QED BY <1>1, <1>2
<1>5. Spoken' = Spoken
  BY <1>3, <1>4 DEF Spoken, Mgmt, Speaks
<1>6. \A i \in Spoken : Mgmt'[i] = Mgmt[i]
  BY <1>2, <1>3 DEF Spoken, Mgmt
<1>7. Known' <=> Known
  BY DEF Known, MessageKept, Speaks, Says
<1>8. \A p \in {0, 1} \ {MgmtFifo} : \A k \in 1..Len(fifo'[p]) : ~ Speaks(fifo'[p][k])
  BY <1>4 DEF Status
<1> QED BY <1>5, <1>6, <1>7, <1>8 DEF Status, Says, Speaks

\* A message that speaks and says what is so from now on keeps Status.
LEMMA TellSpoken ==
  ASSUME Queues, Status, NEW m \in Messages, Speaks(m), Tell(MgmtFifo, m),
         assoc' <=> Says(m)
  PROVE  Status'
<1>1. MgmtFifo \in {0, 1} /\ Mgmt \in Seq(Messages)
  BY ChipMessages DEF Queues, Mgmt
<1>2. Mgmt' = Append(Mgmt, m) /\ \A p \in {0, 1} : p # MgmtFifo => fifo'[p] = fifo[p]
  BY <1>1 DEF Queues, Mgmt, Tell
<1>3. Len(Mgmt) \in Nat /\ Len(Mgmt') = Len(Mgmt) + 1 /\ Mgmt'[Len(Mgmt) + 1] = m
  BY <1>1, <1>2, AppendProperties, LenProperties
<1>4. Len(Mgmt) + 1 \in Spoken' /\ \A k \in Spoken' : k \in 1..(Len(Mgmt) + 1)
  BY <1>3 DEF Spoken, Speaks
<1>5. ASSUME NEW k \in Spoken', \A j \in Spoken' : j <= k
      PROVE  assoc' <=> Says(Mgmt'[k])
  <2>1. k = Len(Mgmt) + 1
    BY <1>3, <1>4, <1>5
  <2> QED BY <1>3, <2>1 DEF Says
<1> QED BY <1>2, <1>4, <1>5 DEF Status, Says, Speaks

\* A message that is fetched is the next one.
LEMMA FetchStatus ==
  ASSUME DriverTypes, Status, intr_occured, ~ intr_valid, DrvIsr
  PROVE  Status'
<1> DEFINE q == NextFifo
<1>1. q \in {0, 1} /\ fifo[q] # <<>> /\ fifo[q] \in Seq(Messages)
  BY DEF NextFifo, DriverTypes, G2100TypeOK
<1> HIDE DEF q
<1>2. /\ fifo' = [fifo EXCEPT ![q] = Tail(fifo[q])]
      /\ message' = Head(fifo[q]) /\ intr_valid' = TRUE
      /\ UNCHANGED <<assoc, zg_conn_status>>
  BY DEF DrvIsr, q
<1>3. \A p \in {0, 1} : Len(fifo[p]) \in Nat
  BY LenProperties DEF DriverTypes, G2100TypeOK
<1>4. /\ Len(fifo[q]) # 0 /\ Len(fifo'[q]) = Len(fifo[q]) - 1 /\ fifo[q][1] = message'
      /\ \A i \in 1..Len(fifo'[q]) : fifo'[q][i] = fifo[q][i + 1]
      /\ \A p \in {0, 1} : p # q => fifo'[p] = fifo[p]
  BY <1>1, <1>2, HeadTailProperties, EmptySeq DEF DriverTypes, G2100TypeOK
<1>5. \A i \in 1..Len(fifo'[q]) : i + 1 \in 1..Len(fifo[q]) /\ i \in Nat
  BY <1>1, <1>3, <1>4
<1>6. \A p \in {0, 1} \ {MgmtFifo} : \A k \in 1..Len(fifo'[p]) : ~ Speaks(fifo'[p][k])
  BY <1>4, <1>5 DEF Status
<1>7. 1 \in 1..Len(fifo[q])
  BY <1>1, <1>3, <1>4
<1>8. CASE q # MgmtFifo
  <2>1. Mgmt' = Mgmt /\ Spoken' = Spoken
    BY <1>4, <1>8, ChipMessages DEF Mgmt, Spoken, Speaks
  <2>2. ~ Speaks(message')
    BY <1>1, <1>4, <1>7, <1>8 DEF Status
  <2>3. Known' <=> Known
    BY <1>2, <2>2 DEF Known, Speaks
  <2> QED BY <1>2, <1>6, <2>1, <2>3 DEF Status, Says, Speaks
<1>9. CASE q = MgmtFifo
  <2>1. \A k : k \in Spoken' => k + 1 \in Spoken /\ Mgmt'[k] = Mgmt[k + 1] /\ k \in Nat
    BY <1>4, <1>5, <1>9 DEF Mgmt, Spoken, Speaks
  <2>2. \A k \in Spoken : k \in Nat /\ (k = 1 \/ k - 1 \in Spoken')
    <3> SUFFICES ASSUME NEW k \in Spoken, k # 1
                 PROVE  k \in Nat /\ k - 1 \in Spoken'
      BY DEF Spoken
    <3>1. k \in 1..Len(fifo[q]) /\ k - 1 \in 1..Len(fifo'[q])
      BY <1>1, <1>3, <1>4, <1>9 DEF Spoken, Mgmt
    <3>2. fifo'[q][k - 1] = fifo[q][k]
      BY <1>4, <3>1
    <3> QED BY <1>9, <3>1, <3>2 DEF Spoken, Mgmt, Speaks
  <2>3. ASSUME NEW k \in Spoken', \A j \in Spoken' : j <= k
        PROVE  assoc' <=> Says(Mgmt'[k])
    <3>1. k \in Nat /\ k + 1 \in Spoken /\ \A j \in Spoken : j <= k + 1
      BY <2>1, <2>2, <2>3
    <3> QED BY <1>2, <2>1, <3>1 DEF Status, Says
  <2>4. ASSUME Spoken' = {}
        PROVE  assoc' <=> Known'
    <3>1. CASE Speaks(message')
      <4>1. 1 \in Spoken /\ Mgmt[1] = message' /\ \A j \in Spoken : j <= 1
        <5>1. 1 \in Spoken /\ Mgmt[1] = message'
          BY <1>4, <1>7, <1>9, <3>1 DEF Spoken, Mgmt
        <5>2. \A j \in Spoken : j = 1
          BY <2>2, <2>4
        <5> QED BY <5>1, <5>2
      <4>2. assoc <=> Says(message')
        BY <4>1 DEF Status
      <4>3. Known' <=> Says(message')
        BY <1>2, <3>1 DEF Known, Speaks, Says
      <4> QED BY <1>2, <4>2, <4>3
    <3>2. CASE ~ Speaks(message')
      <4>1. Mgmt[1] = message' /\ Spoken = {}
        BY <1>4, <1>9, <2>2, <2>4, <3>2 DEF Spoken, Mgmt
      <4> QED BY <1>2, <3>2, <4>1 DEF Status, Known, Speaks
    <3> QED BY <3>1, <3>2
  <2> QED BY <1>6, <2>3, <2>4 DEF Status
<1> QED BY <1>8, <1>9

LEMMA StatusStep ==
  ASSUME DriverTypes, Status, [DriverNext]_g2100Vars
  PROVE  Status'
<1>1. Queues
  BY DEF DriverTypes, G2100TypeOK, Queues
<1>2. ASSUME LineKept, UNCHANGED <<assoc, zg_conn_status>>
      PROVE  Status'
  <2>1. Known' <=> Known
    BY <1>2 DEF Known, LineKept, MessageKept, Speaks, Says
  <2>2. Spoken' = Spoken /\ Mgmt' = Mgmt
    BY <1>2 DEF Spoken, Mgmt, LineKept, Speaks
  <2> QED BY <1>2, <2>1, <2>2 DEF Status, LineKept, Speaks, Says
<1>3. CASE Host \/ DrvTx \/ zg_isr \/ UNCHANGED g2100Vars
  BY <1>2, <1>3 DEF Host, DrvTx, zg_isr, chip, g2100Vars, drv, LineKept, MessageKept
<1>4. CASE DrvIsr
  <2>1. CASE intr_occured
    BY <1>4, <2>1, FetchStatus DEF DriverTypes, DrvIsr
  <2>2. CASE ~ intr_occured
    BY <1>2, <1>4, <2>2 DEF DrvIsr, LineKept, MessageKept
  <2> QED BY <2>1, <2>2
<1>5. CASE DrvMsg
  <2>1. CASE ~ intr_valid
    <3>1. intr_valid = FALSE
      BY <2>1 DEF DriverTypes, G2100TypeOK
    <3> QED BY <1>2, <1>5, <2>1, <3>1 DEF DrvMsg, chip, LineKept, MessageKept
  <2>2. CASE intr_valid
    <3>1. message \in Messages /\ UNCHANGED <<fifo, assoc>> /\ intr_valid' = FALSE
      BY <1>5, <2>2 DEF DrvMsg, chip, DriverTypes
    <3>2. IF Speaks(message) THEN zg_conn_status' = 1 <=> Says(message)
          ELSE zg_conn_status' = zg_conn_status
      <4>1. OnTxConfirm \/ OnMgmtConfirm \/ OnRxIndicate \/ OnMgmtIndicate
        BY <1>5, <2>2 DEF DrvMsg
      <4>2. CASE OnTxConfirm \/ OnRxIndicate
        BY <4>2 DEF OnTxConfirm, OnRxIndicate, Speaks
      <4>3. CASE OnMgmtConfirm
        <5>1. message.ok \in BOOLEAN
          BY <3>1, <4>3, MessageKinds DEF OnMgmtConfirm
        <5> QED BY <4>3, <5>1 DEF OnMgmtConfirm, Speaks, Says
      <4>4. CASE OnMgmtIndicate
        BY <4>4 DEF OnMgmtIndicate, Speaks, Says
      <4> QED BY <4>1, <4>2, <4>3, <4>4
    <3>3. Known' <=> Known
      BY <2>2, <3>1, <3>2 DEF Known
    <3>4. Spoken' = Spoken /\ Mgmt' = Mgmt
      BY <3>1 DEF Spoken, Mgmt, Speaks
    <3> QED BY <3>1, <3>3, <3>4 DEF Status, Speaks, Says
  <2> QED BY <2>1, <2>2
<1>6. CASE DrvState
  <2>1. UNCHANGED <<assoc, zg_conn_status>>
    BY <1>6 DEF DrvState
  <2>2. CASE LineKept
    BY <1>2, <2>1, <2>2
  <2>3. CASE MessageKept /\ \E r \in Requests : Tell(MgmtFifo, Confirm(r, FALSE))
    <3>1. \A r \in Requests : Confirm(r, FALSE) \in Messages /\ ~ Speaks(Confirm(r, FALSE))
      BY ChipMessages DEF Confirm, Speaks
    <3> QED BY <1>1, <2>1, <2>3, <3>1, ChipMessages, TellSilent
  <2> QED BY <1>6, <2>2, <2>3, StateLine
<1>7. CASE Chip
  <2>1. MessageKept /\ UNCHANGED zg_conn_status
    BY <1>7 DEF Chip, ChipTxDone, ChipConfirm, ChipRefuse, ChipReceive, ChipLost, ChipBack,
       drv, MessageKept
  <2>2. CASE ChipTxDone
    BY <1>1, <2>1, <2>2, ChipMessages, TellSilent DEF ChipTxDone, TxConfirm, Speaks
  <2>3. CASE ChipConfirm \/ ChipRefuse
    <3>1. Head(reqs) \in Requests
      BY <2>3, HeadTailProperties DEF ChipConfirm, ChipRefuse, DriverTypes, G2100TypeOK
    <3> DEFINE yes == Confirm(Head(reqs), TRUE)
               no == Confirm(Head(reqs), FALSE)
    <3>2. /\ yes \in Messages /\ no \in Messages /\ ~ Speaks(no)
          /\ Speaks(yes) <=> Head(reqs) = "CONNECT"
          /\ Says(yes)
      BY <3>1, ChipMessages DEF Confirm, Speaks, Says
    <3>3. CASE ChipRefuse
      BY <1>1, <2>1, <3>2, <3>3, ChipMessages, TellSilent DEF ChipRefuse
    <3>4. CASE ChipConfirm /\ Head(reqs) = "CONNECT"
      BY <1>1, <3>2, <3>4, TellSpoken DEF ChipConfirm
    <3>5. CASE ChipConfirm /\ Head(reqs) # "CONNECT"
      <4>1. Tell(MgmtFifo, yes) /\ assoc' = assoc
        BY <3>5 DEF ChipConfirm, DriverTypes, G2100TypeOK
      <4> HIDE DEF yes
      <4> QED BY <1>1, <2>1, <3>2, <3>5, <4>1, ChipMessages, TellSilent
    <3> QED BY <2>3, <3>3, <3>4, <3>5
  <2>4. CASE ChipReceive
    <3>1. \A f \in RxFrame : RxIndicate(f) \in Messages /\ ~ Speaks(RxIndicate(f))
      BY ChipMessages DEF RxIndicate, Speaks
    <3> QED BY <1>1, <2>1, <2>4, <3>1, ChipMessages, TellSilent DEF ChipReceive
  <2>5. CASE ChipLost
    <3>1. \A s \in Losses : /\ Indicate(s) \in Messages /\ Speaks(Indicate(s))
                            /\ ~ Says(Indicate(s))
      <4>1. \A s \in Losses : Indicate(s) \in Messages
        BY ChipMessages
      <4>2. \A s \in Losses : Indicate(s).type = "MGMT_INDICATE" /\ Indicate(s).sub # "BACK"
        BY DEF Indicate, Losses
      <4> QED BY <4>1, <4>2 DEF Speaks, Says
    <3> QED BY <1>1, <2>5, <3>1, TellSpoken DEF ChipLost
  <2>6. CASE ChipBack
    <3>1. /\ Indicate("BACK") \in Messages /\ Speaks(Indicate("BACK"))
          /\ Says(Indicate("BACK"))
      <4>1. Indicate("BACK") \in Messages
        BY ChipMessages
      <4>2. Indicate("BACK").type = "MGMT_INDICATE" /\ Indicate("BACK").sub = "BACK"
        BY DEF Indicate
      <4> QED BY <4>1, <4>2 DEF Speaks, Says
    <3> QED BY <1>1, <2>6, <3>1, TellSpoken DEF ChipBack
  <2> QED BY <1>7, <2>2, <2>3, <2>4, <2>5, <2>6 DEF Chip
<1> QED BY <1>3, <1>4, <1>5, <1>6, <1>7 DEF DriverNext, zg_drv_process

\* The driver's idea of the connection is the chip's, once it has seen all messages about it.
THEOREM DriverStatus == DriverSpec => []StatusTrue
<1>1. DriverTypes /\ Status /\ [DriverNext]_g2100Vars => Status'
  BY StatusStep
<1>2. ASSUME DriverTypes, Status
      PROVE  StatusTrue
  <2> SUFFICES ASSUME PendingOf("MGMT_CONFIRM") \cup PendingOf("MGMT_INDICATE") = {}
               PROVE  zg_conn_status = 1 <=> assoc
    BY DEF StatusTrue
  <2>1. \A m \in Pending : ~ Speaks(m)
    BY DEF PendingOf, Speaks
  <2>2. \A k \in 1..Len(Mgmt) : Mgmt[k] \in Pending
    BY ChipMessages DEF Mgmt, Pending, Elements
  <2>3. Spoken = {}
    BY <2>1, <2>2 DEF Spoken
  <2>4. intr_valid => message \in Pending
    BY DEF Pending
  <2>5. Known <=> zg_conn_status = 1
    BY <2>1, <2>4 DEF Known
  <2> QED BY <1>2, <2>3, <2>5 DEF Status
<1> QED BY <1>1, <1>2, StatusInit, DriverTypesCorrect, PTL DEF DriverSpec

-----------------------------------------------------------------------------
(* The steps of the connection                                              *)

\* As long as nothing was refused or lost: no message reports trouble; before the chip is
\* associated exactly one place holds the next step, and after it none but the last confirm.
Quiet ==
  /\ Single("MGMT_CONFIRM")
  /\ PendingOf("MGMT_INDICATE") = {}
  /\ \A m \in PendingOf("MGMT_CONFIRM") : m.ok /\ (m.sub = "CONNECT" <=> assoc)
  /\ ~ assoc => /\ Places = 1 /\ zg_drv_state # "PROCESS_RX"
                /\ PendingOf("RXDATA_INDICATE") = {}
  /\ assoc => reqs = <<>> /\ zg_drv_state \in {"IDLE", "PROCESS_RX"}
Smooth == trouble = {} => Quiet

\* Whether each place holds the step.
LEMMA OnePlace ==
  Places = 1 <=>
    \/ zg_drv_state # "IDLE" /\ reqs = <<>> /\ PendingOf("MGMT_CONFIRM") = {}
    \/ zg_drv_state = "IDLE" /\ reqs # <<>> /\ PendingOf("MGMT_CONFIRM") = {}
    \/ zg_drv_state = "IDLE" /\ reqs = <<>> /\ PendingOf("MGMT_CONFIRM") # {}
BY DEF Places

LEMMA SmoothInit == G2100Init => Smooth
<1> SUFFICES ASSUME G2100Init
             PROVE  Smooth
  OBVIOUS
<1>1. /\ ~ assoc /\ ~ intr_valid /\ reqs = <<>> /\ zg_drv_state = "INIT"
      /\ fifo[0] = <<>> /\ fifo[1] = <<>> /\ Len(<<>>) = 0
  BY DEF G2100Init
<1>2. Pending = {}
  BY <1>1 DEF Pending, Elements
<1>3. \A type : PendingOf(type) = {} /\ Single(type)
  BY <1>1, <1>2 DEF PendingOf, Single
<1>4. Places = 1
  BY <1>1, <1>3, OnePlace
<1> QED BY <1>1, <1>3, <1>4 DEF Smooth, Quiet

LEMMA SmoothStep ==
  ASSUME DriverTypes, Smooth, [DriverNext]_g2100Vars
  PROVE  Smooth'
<1>1. Queues
  BY DEF DriverTypes, G2100TypeOK, Queues
<1>2. SUFFICES ASSUME trouble' = {}
               PROVE  Quiet'
  BY DEF Smooth
<1>3. trouble = {}
  BY <1>2 DEF DriverNext, g2100Vars, counts, Host, zg_drv_process, DrvTx, DrvIsr, DrvMsg, DrvState,
     zg_isr, Chip, ChipTxDone, ChipConfirm, ChipRefuse, ChipReceive, ChipLost, ChipBack
<1>4. Quiet
  BY <1>3 DEF Smooth
<1>5. ASSUME Pending' = Pending, Single("MGMT_CONFIRM")',
             UNCHANGED <<assoc, reqs, zg_drv_state>>
      PROVE  Quiet'
  BY <1>4, <1>5 DEF Quiet, PendingOf, Places
<1>6. ASSUME LineKept, UNCHANGED <<assoc, reqs, zg_drv_state>>
      PROVE  Quiet'
  BY <1>4, <1>5, <1>6, KeepLine DEF Quiet
<1>7. CASE Host \/ DrvTx \/ zg_isr \/ UNCHANGED g2100Vars
  BY <1>6, <1>7 DEF Host, DrvTx, zg_isr, chip, g2100Vars, drv, LineKept, MessageKept
<1>8. CASE DrvIsr
  <2>1. CASE intr_occured
    BY <1>1, <1>4, <1>5, <1>8, <2>1, FetchLine DEF DrvIsr, DriverTypes, Quiet
  <2>2. CASE ~ intr_occured
    BY <1>6, <1>8, <2>2 DEF DrvIsr, LineKept, MessageKept
  <2> QED BY <2>1, <2>2
<1>9. CASE DrvMsg
  <2>1. CASE ~ intr_valid
    <3>1. intr_valid = FALSE
      BY <2>1 DEF DriverTypes, G2100TypeOK
    <3> QED BY <1>6, <1>9, <2>1, <3>1 DEF DrvMsg, chip, LineKept, MessageKept
  <2>2. CASE intr_valid
    <3>1. /\ message \in Messages /\ UNCHANGED <<fifo, message, assoc, reqs>>
          /\ intr_valid' = FALSE
      BY <1>9, <2>2 DEF DrvMsg, chip, DriverTypes
    <3>2. /\ Pending' \subseteq Pending /\ Pending \subseteq Pending' \cup {message}
          /\ message \in Pending /\ Single("MGMT_CONFIRM")'
          /\ \A type : Single(type) /\ message.type = type => PendingOf(type)' = {}
      BY <1>1, <1>4, <2>2, <3>1, NoticeLine DEF Quiet
    <3>3. \A type : PendingOf(type)' \subseteq PendingOf(type)
      BY <3>2 DEF PendingOf
    <3>4. message \in PendingOf(message.type)
      BY <3>2 DEF PendingOf
    <3>5. OnTxConfirm \/ OnMgmtConfirm \/ OnRxIndicate
      BY <1>4, <1>9, <2>2, <3>4 DEF DrvMsg, OnMgmtIndicate, Quiet
    <3>6. CASE OnTxConfirm \/ OnRxIndicate
      <4>1. PendingOf("MGMT_CONFIRM")' = PendingOf("MGMT_CONFIRM")
        BY <3>2, <3>6 DEF PendingOf, OnTxConfirm, OnRxIndicate
      <4>2. \/ zg_drv_state' = zg_drv_state
            \/ assoc /\ zg_drv_state' = "PROCESS_RX"
        BY <1>4, <3>4, <3>6 DEF OnTxConfirm, OnRxIndicate, Quiet
      <4> QED BY <1>4, <3>1, <3>2, <3>3, <4>1, <4>2 DEF Quiet, Places
    <3>7. CASE OnMgmtConfirm
      <4>1. /\ message.type = "MGMT_CONFIRM" /\ message \in PendingOf("MGMT_CONFIRM")
            /\ message.ok /\ (message.sub = "CONNECT" <=> assoc) /\ message.sub \in Requests
        BY <1>4, <3>1, <3>4, <3>7, MessageKinds DEF OnMgmtConfirm, Quiet
      <4>2. PendingOf("MGMT_CONFIRM")' = {}
        BY <1>4, <3>2, <4>1 DEF Quiet
      <4>3. zg_drv_state' = AfterConfirm(message.sub)
        BY <3>7, <4>1 DEF OnMgmtConfirm
      <4>4. CASE assoc
        <5>1. zg_drv_state' = zg_drv_state
          BY <4>1, <4>3, <4>4 DEF AfterConfirm
        <5> QED BY <1>4, <3>1, <3>2, <3>3, <4>2, <4>4, <5>1 DEF Quiet
      <4>5. CASE ~ assoc
        <5>1. zg_drv_state' \notin {"IDLE", "PROCESS_RX"}
          BY <4>1, <4>3, <4>5 DEF AfterConfirm, Requests
        <5>2. reqs = <<>>
          BY <1>4, <4>1, <4>5, OnePlace DEF Quiet
        <5>3. Places' = 1
          BY <3>1, <4>2, <5>1, <5>2 DEF Places
        <5> QED BY <1>4, <3>1, <3>2, <3>3, <4>2, <4>5, <5>1, <5>3 DEF Quiet
      <4> QED BY <4>4, <4>5
    <3> QED BY <3>5, <3>6, <3>7
  <2> QED BY <2>1, <2>2
<1>10. CASE DrvState
  <2>1. assoc' = assoc
    BY <1>10 DEF DrvState
  <2>2. CASE zg_drv_state \in {"IDLE", "PROCESS_RX"}
    <3>1. LineKept
      BY <1>1, <1>4, <1>10, <2>2, StateLine, OnePlace DEF Quiet
    <3>2. reqs' = reqs /\ zg_drv_state' = "IDLE"
      BY <1>10, <2>2 DEF DrvState, Step, StateGetMac, StateSecurity, StateInstallPsk,
         StateConnManage, StateConnect, StateRx
    <3>3. Pending' = Pending /\ Single("MGMT_CONFIRM")'
      BY <1>4, <3>1, KeepLine DEF Quiet
    <3>4. assoc \/ zg_drv_state = "IDLE"
      BY <1>4, <2>2 DEF Quiet
    <3> QED BY <1>4, <2>1, <3>2, <3>3, <3>4 DEF Quiet, PendingOf, Places
  <2>3. CASE zg_drv_state \notin {"IDLE", "PROCESS_RX"}
    <3>1. ~ assoc /\ reqs = <<>> /\ PendingOf("MGMT_CONFIRM") = {}
      BY <1>4, <2>3, OnePlace DEF Quiet
    <3>2. LineKept
      BY <1>10, <3>1, StateLine
    <3>3. Pending' = Pending /\ Single("MGMT_CONFIRM")'
      BY <1>4, <3>2, KeepLine DEF Quiet
    <3>4. \A type : PendingOf(type)' = PendingOf(type)
      BY <3>3 DEF PendingOf
    <3>5. \/ zg_drv_state' = "IDLE" /\ reqs' # <<>>
          \/ zg_drv_state' \notin {"IDLE", "PROCESS_RX"} /\ reqs' = reqs
      <4>1. \A r : Request(r) => zg_drv_state' = "IDLE" /\ reqs' # <<>>
        <5>1. \A r : <<r>> # <<>>
          OBVIOUS
        <5> QED BY <3>1, <5>1 DEF Request
      <4>2. CASE StateSecurity
        BY <4>1, <4>2 DEF StateSecurity, Step
      <4> QED BY <1>10, <2>3, <4>1, <4>2 DEF DrvState, Step, StateGetMac, StateInstallPsk,
           StateConnManage, StateConnect, StateRx
    <3>6. Places' = 1 /\ zg_drv_state' # "PROCESS_RX"
      BY <3>1, <3>4, <3>5 DEF Places
    <3> QED BY <1>4, <2>1, <3>1, <3>3, <3>4, <3>6 DEF Quiet
  <2> QED BY <2>2, <2>3
<1>11. CASE ChipTxDone \/ ChipReceive
  <2>1. MessageKept /\ UNCHANGED <<zg_drv_state, reqs, assoc>>
    BY <1>11 DEF ChipTxDone, ChipReceive, drv, MessageKept
  <2>2. PICK m \in Messages :
          /\ Tell(DataFifo, m)
          /\ \/ m.type = "TXDATA_CONFIRM"
             \/ assoc /\ m.type = "RXDATA_INDICATE"
    BY <1>11, ChipMessages DEF ChipTxDone, ChipReceive, TxConfirm, RxIndicate
  <2>3. Pending' = Pending \cup {m} /\ Single("MGMT_CONFIRM")'
    BY <1>1, <1>4, <2>1, <2>2, ChipMessages, TellLine DEF Quiet
  <2>4. \A type : type # m.type => PendingOf(type)' = PendingOf(type)
    BY <2>3 DEF PendingOf
  <2> QED BY <1>4, <2>1, <2>2, <2>3, <2>4 DEF Quiet, Places
<1>12. CASE ChipConfirm
  <2> DEFINE m == Confirm(Head(reqs), TRUE)
  <2>1. MessageKept /\ zg_drv_state' = zg_drv_state /\ reqs' = <<>> /\ reqs # <<>>
    BY <1>12 DEF ChipConfirm, drv, MessageKept
  <2>2. ~ assoc /\ zg_drv_state = "IDLE" /\ PendingOf("MGMT_CONFIRM") = {}
    BY <1>4, <2>1, OnePlace DEF Quiet
  <2>3. Head(reqs) \in Requests
    BY <2>1, HeadTailProperties DEF DriverTypes, G2100TypeOK
  <2>4. /\ m \in Messages /\ m.type = "MGMT_CONFIRM" /\ m.sub = Head(reqs) /\ m.ok
        /\ Tell(MgmtFifo, m) /\ (assoc' <=> Head(reqs) = "CONNECT")
    BY <1>12, <2>2, <2>3, ChipMessages DEF ChipConfirm, Confirm
  <2> HIDE DEF m
  <2>5. Pending' = Pending \cup {m} /\ Single("MGMT_CONFIRM")'
    BY <1>1, <1>4, <2>1, <2>2, <2>4, ChipMessages, TellLine DEF Quiet
  <2>6. /\ PendingOf("MGMT_CONFIRM")' = {m}
        /\ \A type : type # "MGMT_CONFIRM" => PendingOf(type)' = PendingOf(type)
    BY <2>2, <2>4, <2>5 DEF PendingOf
  <2>7. Places' = 1
    BY <2>1, <2>2, <2>6 DEF Places
  <2> QED BY <1>4, <2>1, <2>2, <2>4, <2>5, <2>6, <2>7 DEF Quiet
<1>13. CASE ChipRefuse \/ ChipLost \/ ChipBack
  BY <1>2, <1>3, <1>13 DEF ChipRefuse, ChipLost, ChipBack
<1> QED
  BY <1>7, <1>8, <1>9, <1>10, <1>11, <1>12, <1>13 DEF DriverNext, zg_drv_process, Chip

\* Until the chip is associated, and as long as it refuses nothing, the next step of the
\* connection is always in exactly one place.
THEOREM DriverStepKept == DriverSpec => []StepKept
<1>1. DriverTypes /\ Smooth /\ [DriverNext]_g2100Vars => Smooth'
  BY SmoothStep
<1>2. Smooth => StepKept
  BY DEF Smooth, Quiet, StepKept
<1> QED BY <1>1, <1>2, SmoothInit, DriverTypesCorrect, PTL DEF DriverSpec

-----------------------------------------------------------------------------
(* The ARP table stays a table, whatever its size, and its searches find a  *)
(* slot of it.                                                              *)

\* A set of natural numbers with an element has a least one: of its initial segments,
\* which are finite, one contains no other.
LEMMA LeastElement ==
  ASSUME NEW S \in SUBSET Nat, S # {}
  PROVE  \E s \in S : \A t \in S : s <= t
<1> DEFINE below(s) == {t \in S : t < s}
           T == {below(s) : s \in S}
<1>1. ASSUME NEW s \in S
      PROVE  below(s) \in FiniteSubsetsOf(S)
  <2>1. IsFiniteSet(0..s)
    BY FS_Interval
  <2>2. \A t \in Nat : t < s => t \in 0..s
    BY s \in Nat
  <2>4. below(s) \subseteq 0..s
    BY <2>2
  <2>3. IsFiniteSet(below(s))
    BY <2>1, <2>4, FS_Subset
  <2> QED BY <2>3 DEF FiniteSubsetsOf
<1>2. T \subseteq FiniteSubsetsOf(S) /\ T # {}
  BY <1>1
<1>3. PICK B \in T : \A C \in T : ~ (<<C, B>> \in StrictSubsetOrdering(S))
  <2> HIDE DEF T
  <2> QED BY <1>2, FS_StrictSubsetOrderingWellFounded, WFMin
<1>4. PICK s \in S : B = below(s)
  OBVIOUS
<1>5. ASSUME NEW t \in S, t < s
      PROVE  FALSE
  <2>0. /\ s \in Nat /\ t \in Nat /\ ~ (t < t)
        /\ \A u \in Nat : u < t => u < s
    BY <1>5
  <2>1. below(t) \subseteq below(s) /\ t \in below(s) /\ t \notin below(t)
    BY <1>5, <2>0
  <2>2. <<below(t), B>> \in StrictSubsetOrdering(S)
    BY <1>4, <2>1 DEF StrictSubsetOrdering
  <2> QED BY <1>3, <2>2
<1>6. \A t \in S : s <= t
  BY <1>5
<1> QED BY <1>6

\* First finds a slot of any set that has one.
LEMMA FirstType ==
  ASSUME NEW S \in SUBSET Slot, S # {}
  PROVE  First(S) \in S
<1>1. S \in SUBSET Nat
  BY ArpAssumption DEF Slot
<1>2. \E s \in S : \A t \in S : s <= t
  BY <1>1, LeastElement
<1> QED BY <1>2 DEF First

\* What an entry's age can be: less than a round of the clock, either way.
LEMMA AgeType ==
  ASSUME NEW table \in ArpTable, NEW now \in ArpTime, NEW s \in Slot
  PROVE  Age(table, now, s) \in Int /\ TimeRange - Age(table, now, s) \in Nat
<1>1. table[s].time \in ArpTime
  BY DEF ArpTable, ArpEntry
<1> QED BY <1>1, ArpAssumption DEF Age, ArpTime

\* There is an oldest entry, and the search for it finds a slot.
LEMMA OldestType ==
  ASSUME NEW table \in ArpTable, NEW now \in ArpTime
  PROVE  Oldest(table, now) \in Slot
<1> DEFINE young(s) == TimeRange - Age(table, now, s)
           youths == {young(s) : s \in Slot}
           largest == {s \in Slot : \A t \in Slot : Age(table, now, s) >= Age(table, now, t)}
<1>1. youths \in SUBSET Nat /\ youths # {}
  <2>1. \A s \in Slot : young(s) \in Nat
    BY AgeType
  <2>2. 1 \in Slot
    BY ArpAssumption DEF Slot
  <2> QED BY <2>1, <2>2
<1>2. PICK y \in youths : \A z \in youths : y <= z
  <2> HIDE DEF youths
  <2> QED BY <1>1, LeastElement
<1>3. PICK s \in Slot : y = young(s)
  OBVIOUS
<1>4. ASSUME NEW t \in Slot
      PROVE  Age(table, now, s) >= Age(table, now, t)
  <2>1. young(s) <= young(t)
    BY <1>2, <1>3
  <2>2. Age(table, now, s) \in Int /\ Age(table, now, t) \in Int /\ TimeRange \in Int
    BY AgeType, ArpAssumption
  <2> QED BY <2>1, <2>2
<1>5. largest # {} /\ largest \in SUBSET Slot
  BY <1>4
<1>6. Slot # {}
  BY <1>3
<1>7. First(largest) \in Slot /\ First(Slot) \in Slot
  <2> HIDE DEF largest
  <2> QED BY <1>5, <1>6, FirstType
<1> QED BY <1>7 DEF Oldest

\* A mapping is put into its own slot if it has one, and into some slot in any case.
LEMMA PlaceType ==
  ASSUME NEW table \in ArpTable, NEW now \in ArpTime, NEW ip
  PROVE  /\ Place(table, now, ip) \in Slot
         /\ Holding(table, ip) # {} => Place(table, now, ip) \in Holding(table, ip)
<1>1. \A i : Holding(table, i) \in SUBSET Slot
  BY DEF Holding
<1>2. \A i : Holding(table, i) # {} => First(Holding(table, i)) \in Holding(table, i)
  BY <1>1, FirstType
<1>3. Oldest(table, now) \in Slot
  BY OldestType
<1> QED BY <1>1, <1>2, <1>3 DEF Place

\* What is looked up is an address in the table, if there is one.
LEMMA ResolvedType ==
  ASSUME NEW table \in ArpTable, NEW ip
  PROVE  /\ Resolved(table, ip) \in Mac \cup {NoMac}
         /\ Resolved(table, ip) # NoMac =>
              \E s \in Holding(table, ip) : Resolved(table, ip) = table[s].ethaddr
<1>1. Holding(table, ip) \in SUBSET Slot
  BY DEF Holding
<1>2. \A s \in Slot : table[s].ethaddr \in Mac \cup {NoMac}
  BY DEF ArpTable, ArpEntry
<1>3. CASE Holding(table, ip) = {}
  BY <1>3 DEF Resolved
<1>4. CASE Holding(table, ip) # {}
  <2>1. First(Holding(table, ip)) \in Holding(table, ip)
    BY <1>1, <1>4, FirstType
  <2> QED BY <1>1, <1>2, <1>4, <2>1 DEF Resolved
<1> QED BY <1>3, <1>4

\* The clock stays a byte.
LEMMA TickType ==
  ASSUME NEW now \in ArpTime
  PROVE  Tick(now) \in ArpTime
<1>1. Tick(now) = IF now + 1 = TimeRange THEN 0 ELSE now + 1
  BY ArpAssumption, SMTT(30) DEF Tick, ArpTime
<1> QED BY <1>1, ArpAssumption DEF ArpTime

\* uip_arp_init, uip_arp_update and uip_arp_timer leave a table.
LEMMA TableType ==
  /\ EmptyTable \in ArpTable
  /\ \A table \in ArpTable, now \in ArpTime, ip \in Ip, mac \in Mac :
       uip_arp_update(table, now, ip, mac) \in ArpTable
  /\ \A table \in ArpTable, now \in ArpTime : uip_arp_timer(table, now) \in ArpTable
<1>1. EmptyTable \in ArpTable
  BY ArpAssumption DEF EmptyTable, ArpTable, ArpEntry, ArpTime
<1>2. ASSUME NEW table \in ArpTable, NEW now \in ArpTime, NEW ip \in Ip, NEW mac \in Mac
      PROVE  uip_arp_update(table, now, ip, mac) \in ArpTable
  BY DEF uip_arp_update, ArpTable, ArpEntry
<1>3. ASSUME NEW table \in ArpTable, NEW now \in ArpTime
      PROVE  uip_arp_timer(table, now) \in ArpTable
  BY DEF uip_arp_timer, ArpTable, ArpEntry
<1> QED BY <1>1, <1>2, <1>3

-----------------------------------------------------------------------------
(* Types, and the driver's interface                                        *)

StackTypes ==
  /\ wifiInit \in BOOLEAN
  /\ arp_table \in ArpTable /\ arptime \in ArpTime
  /\ udp_conn \in [{"out", "in"} -> [rport : Port, ripaddr : Destination]]
  /\ oscTargetIp \in Destination /\ oscTargetSet \in BOOLEAN
  /\ given \in Frame \cup {NoFrame}
  /\ told \in [Ip -> Mac \cup {NoMac}]

NetInv == DriverTypes /\ StackTypes

\* The packets, the requests and the announcement that the stack makes are frames.
LEMMA NextHopLocal ==
  ASSUME NEW ip
  PROVE  NextHop(ip) \in Local /\ NextHop(ip) \in Ip
BY NetAssumption DEF NextHop

LEMMA PortTypes ==
  /\ 0 \in Port /\ ListenPort \in Port /\ ReplyPort \in Port /\ oscTargetPort \in Port
  /\ NoIp \in Destination
<1>1. 0 \in Port /\ ListenPort \in Port /\ ReplyPort \in Port
  BY DEF Port, ListenPort, ReplyPort
<1>2. oscTargetPort \in Port
  BY NetAssumption
<1>3. NoIp \in Destination
  BY DEF Destination
<1> QED BY <1>1, <1>2, <1>3

LEMMA FrameSets ==
  AskFrames \cup ReplyFrames \cup {SelfArp} \cup PacketFrames = Frame
BY FrameAssumption, Zenon DEF TxFrames

LEMMA OutType ==
  ASSUME StackTypes, NEW kind \in {"echo_reply", "reset", "udp"}, NEW ip \in Destination
  PROVE  uip_arp_out(kind, ip) \in Frame
<1> DEFINE hop == NextHop(ip)
           mac == IF ip = broadcast_ipaddr THEN broadcast_ethaddr
                  ELSE Resolved(arp_table, hop)
<1>1. hop \in Local
  BY NextHopLocal
<1>2. arp_table \in ArpTable
  BY DEF StackTypes
<1>3. mac \in Mac \cup {NoMac, broadcast_ethaddr}
  BY <1>2, ResolvedType
<1>4. CASE mac = NoMac
  <2>1. AskFor(hop) \in AskFrames
    <3> HIDE DEF hop
    <3> QED BY <1>1 DEF AskFor, AskFrames
  <2>2. uip_arp_out(kind, ip) = AskFor(hop)
    BY <1>4 DEF uip_arp_out
  <2> QED BY <2>1, <2>2, FrameSets
<1>5. CASE mac # NoMac
  <2>1. Packet(kind, ip, mac) \in PacketFrames
    <3> HIDE DEF mac
    <3> QED BY <1>3, <1>5 DEF Packet, PacketFrames
  <2>2. uip_arp_out(kind, ip) = Packet(kind, ip, mac)
    BY <1>5 DEF uip_arp_out
  <2> QED BY <2>1, <2>2, FrameSets
<1> QED BY <1>4, <1>5

LEMMA OtherFrames ==
  /\ SelfArp \in Frame
  /\ \A ip \in Ip, mac \in Mac : Reply(ip, mac) \in Frame
<1>1. \A ip \in Ip, mac \in Mac : Reply(ip, mac) \in ReplyFrames
  BY DEF Reply, ReplyFrames
<1> QED BY <1>1, FrameSets

\* A frame that the stack reads is one the chip received.
LEMMA HeldType ==
  ASSUME DriverTypes, NEW kind, Holds(kind)
  PROVE  LET f == zg_buf.frame
         IN f \in RxFrame /\ f.ip \in Ip /\ f.mac \in Mac
<1>1. zg_buf \in Contents /\ zg_buf.holds = "rx"
  BY DEF DriverTypes, G2100TypeOK, Holds
<1>2. zg_buf.frame \in RxFrame
  BY <1>1 DEF Contents, Ours, Received, Scrap
<1> QED BY <1>2, FrameAssumption

\* What the main loop does with the stack's state keeps its types, and what it does with
\* the driver's is what the driver's interface allows.
LEMMA LoopStep ==
  ASSUME NetInv, Loop
  PROVE  Host /\ StackTypes'
<1>1. ASSUME DriverKept, pc \in {"loop", "midi"}, pc' \in {"loop", "midi", "tx"},
             rx_ready' \in {rx_ready, FALSE}, budget' = budget \/ Spend,
             \/ UNCHANGED <<zg_buf, tx_ready>>
             \/ ~ rx_ready' /\ LeaveBuffer
             \/ \E f \in Frame : network_send(f)
      PROVE  Host
  <2>1. budget' \in 0..budget
    BY <1>1 DEF Spend, NetInv, DriverTypes, G2100TypeOK
  <2> QED BY <1>1, <2>1 DEF Host, DriverKept
<1>2. CASE Connecting \/ stack_init \/ MidiDone
  <2>1. Host
    BY <1>1, <1>2 DEF Connecting, stack_init, MidiDone
  <2>2. /\ wifiInit' \in BOOLEAN
        /\ udp_conn' \in {udp_conn, [c \in {"out", "in"} |-> Unbound]}
        /\ UNCHANGED <<arp_table, arptime, oscTargetIp, oscTargetSet, given, told>>
    BY <1>2 DEF Connecting, stack_init, MidiDone, stackVars, NetInv, StackTypes
  <2>3. Unbound \in [rport : Port, ripaddr : Destination]
    BY PortTypes DEF Unbound
  <2>4. StackTypes'
    BY <2>2, <2>3 DEF NetInv, StackTypes
  <2> QED BY <2>1, <2>4
<1>3. ASSUME StackReads, GiveNothing \/ \E f \in Frame : Give(f)
      PROVE  Host /\ given' \in Frame \cup {NoFrame}
  <2>1. given' \in Frame \cup {NoFrame}
    BY <1>3 DEF Give, GiveNothing, NetInv, StackTypes
  <2>2. \/ ~ rx_ready' /\ LeaveBuffer
        \/ \E f \in Frame : network_send(f)
    BY <1>3 DEF StackReads, network_read, Give, GiveNothing
  <2>3. DriverKept /\ pc = "loop" /\ pc' = "tx" /\ rx_ready' = FALSE /\ budget' = budget
    BY <1>3 DEF StackReads, Stack, network_read
  <2> QED BY <1>1, <2>1, <2>2, <2>3
<1>4. CASE ArpRequestForUs \/ ArpReplyForUs
  <2> DEFINE f == zg_buf.frame
  <2>1. f.ip \in Ip /\ f.mac \in Mac
    BY <1>4, HeldType DEF ArpRequestForUs, ArpReplyForUs, NetInv
  <2>2. StackReads /\ (GiveNothing \/ \E g \in Frame : Give(g))
    BY <1>4, <2>1, OtherFrames DEF ArpRequestForUs, ArpReplyForUs
  <2>3. /\ arp_table' = uip_arp_update(arp_table, arptime, f.ip, f.mac)
        /\ told' = [told EXCEPT ![f.ip] = f.mac]
        /\ UNCHANGED <<wifiInit, arptime, udp_conn, oscTargetIp, oscTargetSet>>
    BY <1>4 DEF ArpRequestForUs, ArpReplyForUs
  <2> HIDE DEF f
  <2>4. arp_table' \in ArpTable
    BY <2>1, <2>3, TableType DEF NetInv, StackTypes
  <2> QED BY <1>3, <2>1, <2>2, <2>3, <2>4 DEF NetInv, StackTypes
<1>5. CASE Echo \/ TcpReset \/ StackDrops
  <2>1. StackReads /\ (GiveNothing \/ \E g \in Frame : Give(g))
    <3>1. CASE Echo \/ TcpReset
      <4>1. zg_buf.frame.ip \in Destination
        BY <3>1, HeldType DEF Echo, TcpReset, NetInv, Destination
      <4> QED BY <3>1, <4>1, OutType DEF Echo, TcpReset, NetInv
    <3>2. CASE StackDrops
      BY <3>2 DEF StackDrops
    <3> QED BY <1>5, <3>1, <3>2
  <2>2. UNCHANGED <<wifiInit, arp_table, arptime, udp_conn, oscTargetIp, oscTargetSet, told>>
    BY <1>5 DEF Echo, TcpReset, StackDrops
  <2> QED BY <1>3, <2>1, <2>2 DEF NetInv, StackTypes
<1>6. CASE UdpForUs
  <2> DEFINE f == zg_buf.frame
             from(c) == IF udp_conn[c].rport = 0 THEN f.ip ELSE udp_conn[c].ripaddr
  <2>1. f.ip \in Ip
    BY <1>6, HeldType DEF UdpForUs, NetInv
  <2>2. PICK c \in Takers(f) :
          /\ oscTargetIp' = IF oscTargetSet THEN oscTargetIp ELSE from(c)
          /\ IF f.ping \/ OscToOsc
             THEN /\ udp_conn' = [AfterParse(c, f) EXCEPT
                                    !["out"] = [rport |-> ReplyPort, ripaddr |-> from(c)]]
                  /\ Give(uip_arp_out("udp", from(c)))
             ELSE udp_conn' = AfterParse(c, f) /\ GiveNothing
    BY <1>6 DEF UdpForUs
  <2> HIDE DEF f
  <2>3. c \in {"out", "in"}
    BY <2>2 DEF Takers
  <2>4. from(c) \in Destination
    BY <2>1, <2>3 DEF NetInv, StackTypes, Destination
  <2> HIDE DEF from
  <2>5. AfterParse(c, f) \in [{"out", "in"} -> [rport : Port, ripaddr : Destination]]
    BY <2>3, PortTypes DEF AfterParse, Unbound, NetInv, StackTypes
  <2>6. udp_conn' \in [{"out", "in"} -> [rport : Port, ripaddr : Destination]]
    BY <2>2, <2>4, <2>5, PortTypes
  <2>7. oscTargetIp' \in Destination
    BY <2>2, <2>4 DEF NetInv, StackTypes
  <2>8. GiveNothing \/ \E g \in Frame : Give(g)
    BY <2>2, <2>4, OutType DEF NetInv
  <2>9. StackReads /\ UNCHANGED <<wifiInit, arp_table, arptime, oscTargetSet, told>>
    BY <1>6 DEF UdpForUs
  <2> QED BY <1>3, <2>6, <2>7, <2>8, <2>9 DEF NetInv, StackTypes
<1>7. CASE StackIdle \/ StackTimer
  <2>1. rx_ready = FALSE /\ rx_ready' = FALSE
    BY <1>7 DEF StackIdle, StackTimer, NetInv, DriverTypes, G2100TypeOK
  <2>2. GiveNothing \/ Give(SelfArp)
    BY <1>7 DEF StackIdle, StackTimer
  <2>3. Host
    <3>1. LeaveBuffer \/ \E g \in Frame : network_send(g)
      BY <2>2, OtherFrames DEF GiveNothing, Give
    <3> QED BY <1>1, <1>7, <2>1, <3>1 DEF StackIdle, StackTimer, Stack
  <2>4. given' \in Frame \cup {NoFrame}
    BY <2>2, OtherFrames DEF GiveNothing, Give, NetInv, StackTypes
  <2>5. arptime' \in ArpTime /\ arp_table' \in ArpTable
    BY <1>7, TickType, TableType DEF StackIdle, StackTimer, stackVars, NetInv, StackTypes
  <2> QED
    BY <1>7, <2>3, <2>4, <2>5 DEF StackIdle, StackTimer, stackVars, NetInv, StackTypes
<1>8. CASE sendMidiOSC
  <2>1. uip_arp_out("udp", oscTargetIp) \in Frame
    BY OutType DEF NetInv, StackTypes
  <2>2. Host
    <3>1. \E g \in Frame : network_send(g)
      BY <1>8, <2>1 DEF sendMidiOSC, Give
    <3> QED BY <1>1, <1>8, <3>1 DEF sendMidiOSC
  <2>3. udp_conn' \in [{"out", "in"} -> [rport : Port, ripaddr : Destination]]
    BY <1>8, PortTypes DEF sendMidiOSC, NetInv, StackTypes
  <2> QED BY <1>8, <2>1, <2>2, <2>3 DEF sendMidiOSC, Give, NetInv, StackTypes
<1> QED
  BY <1>2, <1>4, <1>5, <1>6, <1>7, <1>8 DEF Loop, stack_process

\* Every step of the firmware is a step of the driver with some program.
LEMMA NetStep ==
  ASSUME NetInv, [Next]_vars
  PROVE  NetInv' /\ [DriverNext]_g2100Vars
<1>1. CASE Loop
  <2>1. DriverNext /\ StackTypes'
    BY <1>1, LoopStep DEF DriverNext
  <2> QED BY <2>1, TypesStep DEF NetInv
<1>2. CASE Driver \/ Isr \/ World \/ UNCHANGED vars
  <2>1. [DriverNext]_g2100Vars
    BY <1>2 DEF Driver, Isr, World, vars, DriverNext
  <2>2. StackTypes'
    BY <1>2 DEF Driver, Isr, World, vars, stackVars, NetInv, StackTypes
  <2> QED BY <2>1, <2>2, TypesStep DEF NetInv
<1> QED BY <1>1, <1>2 DEF Next

LEMMA NetInit == Init => NetInv
<1> SUFFICES ASSUME Init
             PROVE  NetInv
  OBVIOUS
<1>1. DriverTypes
  BY TypesInit DEF Init
<1>2. arp_table \in ArpTable /\ arptime \in ArpTime
  BY ArpAssumption, TableType DEF Init, ArpTime
<1>3. StackTypes
  BY <1>2, NetAssumption, PortTypes DEF Init, StackTypes, Unbound
<1> QED BY <1>1, <1>3 DEF NetInv

LEMMA NetInvCorrect == Spec => []NetInv
<1>1. NetInv /\ [Next]_vars => NetInv'
  BY NetStep
<1> QED BY <1>1, NetInit, PTL DEF Spec

\* Every variable of the driver, the chip and the stack keeps its range, for every number
\* of hosts, size of the ARP table, set of frames and configuration.
THEOREM NetTypesCorrect == Spec => []NetTypeOK
<1>1. NetInv => NetTypeOK
  BY DEF NetInv, StackTypes, DriverTypes, NetTypeOK
<1> QED BY <1>1, NetInvCorrect, PTL

\* WiShield.cpp, stack.c and udpapp.cpp use the driver as its interface allows.
THEOREM Refinement == Spec => DriverSpec
<1>1. Init => G2100Init
  BY DEF Init
<1>2. NetInv /\ [Next]_vars => [DriverNext]_g2100Vars
  BY NetStep
<1> QED BY <1>1, <1>2, NetInvCorrect, PTL DEF Spec, DriverSpec

\* What holds of the driver with any program holds of it in the firmware.
THEOREM OutstandingCorrect == Spec => []OneOutstanding
BY Refinement, DriverOutstanding, PTL

THEOREM StatusCorrect == Spec => []StatusTrue
BY Refinement, DriverStatus, PTL

THEOREM StepKeptCorrect == Spec => []StepKept
BY Refinement, DriverStepKept, PTL

-----------------------------------------------------------------------------
(* The ARP table                                                            *)

LEMMA TableInit == Init => TableTrue
BY DEF Init, TableTrue, EmptyTable

\* An update replaces the entry for its address, or an entry that is the only one for
\* another; the timer only makes entries free.
LEMMA TableStep ==
  ASSUME NetInv, TableTrue, [Next]_vars
  PROVE  TableTrue'
<1> USE ArpAssumption
<1>1. arp_table \in ArpTable /\ arptime \in ArpTime /\ told \in [Ip -> Mac \cup {NoMac}]
  BY DEF NetInv, StackTypes
<1>2. CASE UNCHANGED <<arp_table, told>>
  BY <1>2 DEF TableTrue, Holding
<1>3. CASE ArpRequestForUs \/ ArpReplyForUs
  <2> DEFINE ip == zg_buf.frame.ip
             mac == zg_buf.frame.mac
             p == Place(arp_table, arptime, ip)
  <2>1. ip \in Ip /\ mac \in Mac
    BY <1>3, HeldType DEF ArpRequestForUs, ArpReplyForUs, NetInv
  <2>2. /\ arp_table' = [arp_table EXCEPT ![p] = [ipaddr |-> ip, ethaddr |-> mac,
                                                 time |-> arptime]]
        /\ told' = [told EXCEPT ![ip] = mac]
    BY <1>3 DEF ArpRequestForUs, ArpReplyForUs, uip_arp_update
  <2>3. p \in Slot /\ (Holding(arp_table, ip) # {} => p \in Holding(arp_table, ip))
    BY <1>1, PlaceType
  <2> HIDE DEF ip, mac, p
  <2>4. ip # NoIp
    BY <2>1
  <2>5. \A s \in Slot : arp_table[s].ipaddr = ip => s = p
    <3> SUFFICES ASSUME NEW s \in Slot, arp_table[s].ipaddr = ip
                 PROVE  s = p
      OBVIOUS
    <3>1. Holding(arp_table, ip) = {s}
      BY <2>4 DEF TableTrue
    <3> QED BY <2>3, <3>1
  <2>6. /\ arp_table'[p].ipaddr = ip /\ arp_table'[p].ethaddr = mac
        /\ \A s \in Slot : s # p => arp_table'[s] = arp_table[s]
    BY <1>1, <2>2, <2>3 DEF ArpTable
  <2>7. /\ told'[ip] = mac
        /\ \A i \in Ip : i # ip => told'[i] = told[i]
    BY <1>1, <2>1, <2>2
  <2>8. \A s \in Slot : arp_table[s].ipaddr \in Ip \cup {NoIp}
    BY <1>1 DEF ArpTable, ArpEntry
  <2>9. ASSUME NEW s \in Slot, arp_table'[s].ipaddr # NoIp
        PROVE  /\ arp_table'[s].ethaddr = told'[arp_table'[s].ipaddr]
               /\ Holding(arp_table', arp_table'[s].ipaddr) = {s}
    <3>1. CASE s = p
      BY <2>3, <2>5, <2>6, <2>7, <3>1 DEF Holding
    <3>2. CASE s # p
      <4>1. arp_table'[s] = arp_table[s] /\ arp_table[s].ipaddr # ip
        BY <2>5, <2>6, <3>2
      <4>2. told'[arp_table[s].ipaddr] = told[arp_table[s].ipaddr]
        BY <2>7, <2>8, <2>9, <4>1
      <4>3. /\ arp_table[s].ethaddr = told[arp_table[s].ipaddr]
            /\ Holding(arp_table, arp_table[s].ipaddr) = {s}
        BY <2>9, <4>1 DEF TableTrue
      <4>4. Holding(arp_table', arp_table[s].ipaddr) = {s}
        BY <2>6, <4>1, <4>3 DEF Holding
      <4> QED BY <4>1, <4>2, <4>3, <4>4
    <3> QED BY <3>1, <3>2
  <2> QED BY <2>9 DEF TableTrue, Holding
<1>4. CASE StackTimer
  <2>1. told' = told
    BY <1>4 DEF StackTimer
  <2>2. \/ arp_table' = arp_table
        \/ arp_table' = uip_arp_timer(arp_table, arptime')
    BY <1>4 DEF StackTimer
  <2>3. CASE arp_table' = uip_arp_timer(arp_table, arptime')
    <3>1. \A s \in Slot : arp_table'[s].ipaddr # NoIp => arp_table'[s] = arp_table[s]
      BY <1>1, <2>3 DEF uip_arp_timer, ArpTable, ArpEntry
    <3>2. ASSUME NEW s \in Slot, arp_table'[s].ipaddr # NoIp
          PROVE  /\ arp_table'[s].ethaddr = told'[arp_table'[s].ipaddr]
                 /\ Holding(arp_table', arp_table'[s].ipaddr) = {s}
      <4>1. /\ arp_table'[s] = arp_table[s]
            /\ arp_table[s].ethaddr = told[arp_table[s].ipaddr]
            /\ Holding(arp_table, arp_table[s].ipaddr) = {s}
        BY <3>1, <3>2 DEF TableTrue
      <4>2. Holding(arp_table', arp_table[s].ipaddr) = {s}
        BY <3>1, <3>2, <4>1 DEF Holding
      <4> QED BY <2>1, <4>1, <4>2
    <3> QED BY <3>2 DEF TableTrue, Holding
  <2> QED BY <1>2, <2>1, <2>2, <2>3
<1>5. CASE Connecting \/ stack_init \/ Echo \/ TcpReset \/ UdpForUs \/ StackDrops \/ StackIdle
             \/ sendMidiOSC \/ MidiDone \/ Driver \/ Isr \/ World \/ UNCHANGED vars
  BY <1>2, <1>5 DEF Connecting, stack_init, Echo, TcpReset, UdpForUs, StackDrops, StackIdle,
     sendMidiOSC, MidiDone, Driver, Isr, World, vars, stackVars
<1> QED BY <1>3, <1>4, <1>5 DEF Next, Loop, stack_process

\* Each address is in the table at most once, with the hardware address it announced last.
THEOREM TableCorrect == Spec => []TableTrue
<1>1. NetInv /\ TableTrue /\ [Next]_vars => TableTrue'
  BY TableStep
<1> QED BY <1>1, TableInit, NetInvCorrect, PTL DEF Spec

\* A packet that is given to the driver has the address of its next hop.
THEOREM AddressCorrect == Spec => RightAddress
<1>1. ASSUME NetInv, TableTrue, [Next]_vars
      PROVE  [Addressed]_vars
  <2>1. ASSUME NEW kind \in {"echo_reply", "reset", "udp"}, NEW ip,
               given' = uip_arp_out(kind, ip), told' = told
        PROVE  Addressed
    <3>0. CASE ip = broadcast_ipaddr
      <4>1. given' = Packet(kind, ip, broadcast_ethaddr)
        BY <2>1, <3>0, ArpAssumption DEF uip_arp_out
      <4> QED BY <2>1, <3>0, <4>1 DEF Addressed, Packet
    <3> SUFFICES ASSUME ip # broadcast_ipaddr
                 PROVE  Addressed
      BY <3>0
    <3> DEFINE hop == NextHop(ip)
               mac == Resolved(arp_table, hop)
    <3>1. hop \in Local
      BY NextHopLocal
    <3>2. CASE mac = NoMac
      BY <2>1, <3>1, <3>2 DEF Addressed, uip_arp_out, AskFor
    <3>3. CASE mac # NoMac
      <4>1. given' = Packet(kind, ip, mac)
        BY <2>1, <3>3 DEF uip_arp_out
      <4>2. PICK s \in Holding(arp_table, hop) : mac = arp_table[s].ethaddr
        <5>1. arp_table \in ArpTable
          BY <1>1 DEF NetInv, StackTypes
        <5> QED BY <3>3, <5>1, ResolvedType
      <4>3. hop = IF ip \in Local THEN ip ELSE Router
        BY DEF NextHop
      <4> HIDE DEF hop, mac
      <4>4. mac = told[hop]
        <5>1. s \in Slot /\ arp_table[s].ipaddr = hop
          BY <4>2 DEF Holding
        <5>2. hop # NoIp
          BY <3>1, ArpAssumption, NetAssumption
        <5> QED BY <1>1, <4>2, <5>1, <5>2 DEF TableTrue
      <4> QED BY <2>1, <3>3, <4>1, <4>3, <4>4 DEF Addressed, Packet
    <3> QED BY <3>2, <3>3
  <2>2. ASSUME \/ given' = given \/ given' = NoFrame \/ given' = SelfArp
               \/ \E ip, mac : given' = Reply(ip, mac)
        PROVE  Addressed
    BY <2>2 DEF Addressed, SelfArp, Reply
  <2>3. CASE ArpRequestForUs \/ ArpReplyForUs
    BY <2>2, <2>3 DEF ArpRequestForUs, ArpReplyForUs, Give, GiveNothing
  <2>4. CASE Echo \/ TcpReset \/ sendMidiOSC
    BY <2>1, <2>4 DEF Echo, TcpReset, sendMidiOSC, Give
  <2>5. CASE UdpForUs
    BY <2>1, <2>2, <2>5 DEF UdpForUs, Give, GiveNothing
  <2>6. CASE StackDrops \/ StackIdle \/ StackTimer
    BY <2>2, <2>6 DEF StackDrops, StackIdle, StackTimer, Give, GiveNothing
  <2>7. CASE Connecting \/ stack_init \/ MidiDone \/ Driver \/ Isr \/ World
    BY <2>2, <2>7 DEF Connecting, stack_init, MidiDone, Driver, Isr, World, stackVars
  <2> QED BY <1>1, <2>3, <2>4, <2>5, <2>6, <2>7 DEF Next, Loop, stack_process
<1> QED BY <1>1, NetInvCorrect, TableCorrect, PTL DEF Spec, RightAddress

-----------------------------------------------------------------------------
(* Who is heard                                                             *)

\* The connection that listens is open to any sender whenever the stack runs.
Open == udp_conn["in"] = Unbound

LEMMA OpenStep ==
  ASSUME NetInv, Open, [Next]_vars
  PROVE  Open'
<1>1. udp_conn \in [{"out", "in"} -> [rport : Port, ripaddr : Destination]]
  BY DEF NetInv, StackTypes
<1>2. CASE UdpForUs
  <2>1. PICK c \in Takers(zg_buf.frame) :
          \E x : udp_conn' \in {[AfterParse(c, zg_buf.frame) EXCEPT !["out"] = x],
                               AfterParse(c, zg_buf.frame)}
    BY <1>2 DEF UdpForUs
  <2>2. c \in {"out", "in"}
    BY DEF Takers
  <2> QED BY <1>1, <2>1, <2>2 DEF AfterParse, Open
<1>3. CASE sendMidiOSC
  BY <1>1, <1>3 DEF sendMidiOSC, Open
<1>4. CASE stack_init
  BY <1>4 DEF stack_init, Open
<1>5. CASE Connecting \/ Echo \/ TcpReset \/ ArpRequestForUs \/ ArpReplyForUs \/ StackDrops
             \/ StackIdle \/ StackTimer \/ MidiDone \/ Driver \/ Isr \/ World \/ UNCHANGED vars
  BY <1>5 DEF Connecting, Echo, TcpReset, ArpRequestForUs, ArpReplyForUs, StackDrops, StackIdle,
     StackTimer, MidiDone, Driver, Isr, World, vars, stackVars, Open
<1> QED BY <1>2, <1>3, <1>4, <1>5 DEF Next, Loop, stack_process

\* No message for the firmware's port is missed, and each has its own sender.
THEOREM HeardCorrect == Spec => EveryMessageHeard
<1>1. NetInv /\ Open /\ [Next]_vars => Open'
  BY OpenStep
<1>2. Init => Open
  BY DEF Init, Open
<1>3. ASSUME NetInv, Open, [Next]_vars
      PROVE  [Hears]_vars
  <2> SUFFICES ASSUME Next, StackReads, Holds("udp"), zg_buf.frame.dport = ListenPort
               PROVE  heard' = [frame |-> zg_buf.frame, from |-> zg_buf.frame.ip]
    BY <1>3 DEF Hears
  <2> DEFINE f == zg_buf.frame
  <2>1. "in" \in Takers(f)
    BY <1>3 DEF Takers, Lport, Open, Unbound
  <2>2. \A c \in Takers(f) : c = "in"
    BY DEF Takers, Lport, ListenPort, OutPort
  <2>3. pc = "loop" /\ pc' = "tx" /\ wifiInit /\ rx_ready /\ rx_ready' = FALSE
        /\ zg_buf.holds = "rx" /\ f.kind = "udp"
    BY DEF StackReads, Stack, network_read, Holds
  <2>4. UdpForUs
    BY <2>1, <2>3 DEF Next, Loop, stack_process, Connecting, stack_init, MidiDone, sendMidiOSC,
       ArpRequestForUs, ArpReplyForUs, Echo, TcpReset, StackDrops, StackIdle, StackTimer, Holds,
       Driver, zg_drv_process, DrvTx, DrvIsr, DrvMsg, DrvState,
       Isr, zg_isr, World, Chip, ChipTxDone, ChipConfirm, ChipRefuse, ChipReceive, ChipLost,
       ChipBack
  <2>5. PICK c \in Takers(f) :
          heard' = [frame |-> f,
                    from |-> IF udp_conn[c].rport = 0 THEN f.ip ELSE udp_conn[c].ripaddr]
    BY <2>4 DEF UdpForUs
  <2> QED BY <1>3, <2>2, <2>5 DEF Open, Unbound
<1> QED BY <1>1, <1>2, <1>3, NetInvCorrect, PTL DEF Spec, EveryMessageHeard
=============================================================================
