------------------------------- MODULE I2cBus -------------------------------
(***************************************************************************)
(* A transfer on the I2C bus, as tdUI does one for every character on the  *)
(* display and every reading of the compass: i2cMasterTransmitTimeout      *)
(* fills the driver structure, starts the hardware and suspends the        *)
(* thread; the TWI interrupt takes the transfer from one byte to the next  *)
(* and resumes the thread at its end.                                      *)
(*                                                                         *)
(* The hardware is what TWCR was told to do last, and how that may end.    *)
(* The bus has one master, so the default case of the handler is left out. *)
(***************************************************************************)
EXTENDS Integers

CONSTANTS
  Transfers,   \* the pairs of bytes to write and to read
  MaxRead      \* the size of the caller's read buffer

ASSUME TransfersAssumption ==
  /\ MaxRead \in Nat
  /\ \A o \in Transfers : o.tx \in Nat \ {0} /\ o.rx \in 0..MaxRead

VARIABLES
  driver,    \* i2cp->state
  op,        \* txbytes and rxbytes
  txidx, rxidx,
  errors,    \* i2cp->errors
  rxbuf,     \* the bytes in the caller's buffer that this transfer has read
  waiting,   \* i2cp->thread refers to the thread
  msg,       \* what the transfer ended in
  locked,    \* i2cp->mutex is held
  twi,       \* what the hardware is doing; sla_w, sla_r: it sends the address
  taken,     \* history: bytes of this transfer that the device acknowledged
  dead       \* a device holds the clock line: nothing ends any more

bvars == <<driver, op, txidx, rxidx, errors, rxbuf, waiting, msg, locked, twi,
           taken, dead>>

Flags == {"ACK_FAILURE", "ARBITRATION_LOST", "BUS_ERROR"}

-----------------------------------------------------------------------------
\* Slips that the properties below must notice.
ErrorWithoutStop(f) ==
  /\ twi # "off"
  /\ errors' = errors \cup {f}
  /\ waiting' = FALSE /\ msg' = "RESET"
  /\ UNCHANGED <<driver, op, txidx, rxidx, rxbuf, locked, twi, taken, dead>>
ErrorWithoutWakeup(f) ==
  /\ twi # "off"
  /\ errors' = errors \cup {f}
  /\ twi' = "off"
  /\ UNCHANGED <<driver, op, txidx, rxidx, rxbuf, waiting, msg, locked, taken, dead>>
EndAtLastByteSent == txidx + 1 >= op.tx

-----------------------------------------------------------------------------
\* mI2Cio up to the suspension: i2cAcquireBus, i2cMasterTransmitTimeout and
\* i2c_lld_master_transmit_timeout.  The caller's timeout is not passed on.
Transmit(o) ==
  /\ driver = "READY" /\ ~locked
  /\ locked' = TRUE
  /\ driver' = "ACTIVE_TX"
  /\ op' = o
  /\ txidx' = 0 /\ rxidx' = 0
  /\ errors' = {}
  /\ rxbuf' = {} /\ taken' = 0
  /\ twi' = "start"
  /\ waiting' = TRUE
  /\ UNCHANGED <<msg, dead>>

\* The thread runs again: the rest of i2cMasterTransmitTimeout, i2cReleaseBus.
\* The message is never MSG_TIMEOUT.
Finish ==
  /\ driver = "ACTIVE_TX" /\ ~waiting
  /\ driver' = "READY"
  /\ locked' = FALSE
  /\ UNCHANGED <<op, txidx, rxidx, errors, rxbuf, waiting, msg, twi, taken, dead>>

\* _i2c_wakeup_isr and _i2c_wakeup_error_isr: nothing, if nobody waits.
Wakeup(m) ==
  /\ waiting' = FALSE
  /\ msg' = IF waiting THEN m ELSE msg

-----------------------------------------------------------------------------
\* TWI_vect, one action for each status.  TWI_START, TWI_REPEAT_START: the
\* address, for reading once everything is written.
StartSent ==
  /\ twi = "start"
  /\ twi' = IF txidx = op.tx THEN "sla_r" ELSE "sla_w"
  /\ UNCHANGED <<driver, op, txidx, rxidx, errors, rxbuf, waiting, msg, locked, taken, dead>>

\* TWI_MASTER_TX_ADDR_ACK, TWI_MASTER_TX_DATA_ACK: the next byte, a repeated
\* start to read, or the end.
AllSent == txidx >= op.tx
WriteAcked ==
  /\ twi \in {"sla_w", "write"}
  /\ taken' = taken + (IF twi = "write" THEN 1 ELSE 0)
  /\ \/ /\ ~AllSent
        /\ txidx' = txidx + 1
        /\ twi' = "write"
        /\ UNCHANGED <<waiting, msg>>
     \/ /\ AllSent /\ op.rx > 0
        /\ twi' = "start"
        /\ UNCHANGED <<txidx, waiting, msg>>
     \/ /\ AllSent /\ op.rx = 0
        /\ twi' = "off"
        /\ Wakeup("OK")
        /\ UNCHANGED txidx
  /\ UNCHANGED <<driver, op, rxidx, errors, rxbuf, locked, dead>>

\* The last byte is read without an acknowledgement.
ReadFrom(i) == IF i = op.rx - 1 THEN "read_last" ELSE "read"

\* TWI_MASTER_RX_ADDR_ACK.
ReadAddressAcked ==
  /\ twi = "sla_r"
  /\ twi' = ReadFrom(rxidx)
  /\ UNCHANGED <<driver, op, txidx, rxidx, errors, rxbuf, waiting, msg, locked, taken, dead>>

\* TWI_MASTER_RX_DATA_ACK.
ByteRead ==
  /\ twi = "read"
  /\ rxbuf' = rxbuf \cup {rxidx}
  /\ rxidx' = rxidx + 1
  /\ twi' = ReadFrom(rxidx + 1)
  /\ UNCHANGED <<driver, op, txidx, errors, waiting, msg, locked, taken, dead>>

\* TWI_MASTER_RX_DATA_NACK: the end of a good read.  The case has no break: it
\* goes on into those of a missing acknowledgement, and the second wakeup
\* finds nobody.
LastByteRead ==
  /\ twi = "read_last"
  /\ rxbuf' = rxbuf \cup {rxidx}
  /\ twi' = "off"
  /\ Wakeup("OK")
  /\ errors' = errors \cup {"ACK_FAILURE"}
  /\ UNCHANGED <<driver, op, txidx, rxidx, locked, taken, dead>>

\* The remaining cases: the flag, a stop and the wakeup with MSG_RESET.
Fail(f) ==
  /\ twi # "off"
  /\ f = "ACK_FAILURE" => twi \in {"sla_w", "write", "sla_r"}
  /\ errors' = errors \cup {f}
  /\ twi' = "off"
  /\ Wakeup("RESET")
  /\ UNCHANGED <<driver, op, txidx, rxidx, rxbuf, locked, taken, dead>>

TwiInterrupt ==
  /\ ~dead
  /\ \/ StartSent \/ WriteAcked \/ ReadAddressAcked \/ ByteRead \/ LastByteRead
     \/ \E f \in Flags : Fail(f)

\* A device stretches the clock for ever, in the middle of a transfer.
Die ==
  /\ ~dead /\ twi # "off"
  /\ dead' = TRUE
  /\ UNCHANGED <<driver, op, txidx, rxidx, errors, rxbuf, waiting, msg, locked, twi, taken>>

BusInit ==
  /\ driver = "READY"
  /\ op = [tx |-> 1, rx |-> 0]
  /\ txidx = 0 /\ rxidx = 0
  /\ errors = {} /\ rxbuf = {} /\ taken = 0
  /\ waiting = FALSE /\ msg = "RESET" /\ locked = FALSE
  /\ twi = "off" /\ dead = FALSE

BusNext ==
  \/ \E o \in Transfers : Transmit(o)
  \/ Finish
  \/ TwiInterrupt
  \/ Die

BusSpec == BusInit /\ [][BusNext]_bvars

-----------------------------------------------------------------------------
BusTypeOK ==
  /\ driver \in {"READY", "ACTIVE_TX"}
  /\ op.tx \in Nat \ {0} /\ op.rx \in 0..MaxRead
  /\ txidx \in 0..op.tx /\ rxidx \in 0..op.rx
  /\ errors \subseteq Flags
  /\ rxbuf \subseteq 0..(MaxRead - 1)
  /\ taken \in Nat
  /\ waiting \in BOOLEAN /\ locked \in BOOLEAN /\ dead \in BOOLEAN
  /\ msg \in {"OK", "RESET"}
  /\ twi \in {"off", "start", "sla_w", "write", "sla_r", "read", "read_last"}

\* A transfer that returned MSG_OK was carried out: the device took every byte
\* and every byte of the buffer was read, and no more.
OkMeansDone ==
  driver = "ACTIVE_TX" /\ ~waiting /\ msg = "OK" =>
    taken = op.tx /\ rxbuf = 0..(op.rx - 1)

\* The hardware works exactly while the thread waits for it: nobody waits for
\* an interrupt that will not come because of the driver, and no interrupt
\* writes to the caller's buffer once the call has returned.
BusyIffWaited ==
  /\ waiting <=> twi # "off"
  /\ driver = "READY" => ~waiting /\ ~locked
=============================================================================
