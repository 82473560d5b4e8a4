----------------------------- MODULE G2100Props -----------------------------
(***************************************************************************)
(* What the driver and the chip owe each other, whatever program uses them. *)
(***************************************************************************)
EXTENDS G2100

Elements(s) == {s[i] : i \in 1..Len(s)}

\* The chip's messages that the driver has not taken notice of.
Pending == Elements(fifo[0]) \cup Elements(fifo[1]) \cup (IF intr_valid THEN {message} ELSE {})
PendingOf(type) == {m \in Pending : m.type = type}

\* At most one message of a type is on its way.
Single(type) ==
  /\ \A q1, q2 \in {0, 1} : \A i \in 1..Len(fifo[q1]), j \in 1..Len(fifo[q2]) :
       fifo[q1][i].type = type /\ fifo[q2][j].type = type => q1 = q2 /\ i = j
  /\ intr_valid /\ message.type = type =>
       \A q \in {0, 1} : \A i \in 1..Len(fifo[q]) : fifo[q][i].type # type

\* A frame that was given away is in one place: at the chip, or in the one confirm on its
\* way back; and the driver waits exactly then. It never gives the chip a second frame, and
\* never waits for nothing.
OneOutstanding ==
  /\ cnf_pending <=> sending \/ PendingOf("TXDATA_CONFIRM") # {}
  /\ sending => PendingOf("TXDATA_CONFIRM") = {}
  /\ Single("TXDATA_CONFIRM")

\* The connection is made in steps, and until it is there the next step is always
\* somewhere, and in one place only: due in zg_drv_state, with the chip, or in a confirm.
Places ==
  (IF zg_drv_state # "IDLE" THEN 1 ELSE 0)
    + (IF reqs # <<>> THEN 1 ELSE 0)
    + (IF PendingOf("MGMT_CONFIRM") # {} THEN 1 ELSE 0)

StepKept == zg_conn_status = 0 /\ ~ assoc /\ trouble = {} => Places = 1

\* zg_conn_status, which continueInit waits for, is what the chip's state is, once the
\* driver has seen the messages about it: also when a loss, the chip's own reconnection and
\* the driver's new request (g2100.c:440) overlap.
StatusTrue ==
  PendingOf("MGMT_CONFIRM") \cup PendingOf("MGMT_INDICATE") = {} =>
    (zg_conn_status = 1 <=> assoc)
=============================================================================
