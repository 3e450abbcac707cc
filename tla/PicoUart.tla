------------------------------ MODULE PicoUart ------------------------------
(***************************************************************************)
(* Class PicoUart: the main program writes and reads, the UART's interrupt *)
(* handler moves bytes between two rings and the peripheral's FIFOs.  Each *)
(* ring is the queue that RingBuffer implements.  The handler interrupts   *)
(* the main program anywhere while the NVIC lets it, and runs to its end.  *)
(* Bytes are numbered in the order they are written, or arrive.            *)
(*                                                                         *)
(* The peripheral (external, a PL011): its transmit interrupt becomes      *)
(* pending when the transmit FIFO drains down to its trigger level, not    *)
(* whenever the level is low, and stops pending when the FIFO is filled    *)
(* past that level; its receive interrupt is pending while bytes wait,     *)
(* since a timeout covers the ones below the receive trigger.              *)
(***************************************************************************)
EXTENDS Integers, Sequences

CONSTANTS
  Capacity,  \* what a ring holds: one less than its size
  Fifo,      \* depth of the peripheral's FIFOs: 32
  Trigger,   \* transmit trigger level: 4
  MaxWrite,  \* longest buffer handed to write()
  MaxOut,    \* bound on the bytes written
  MaxIn      \* bound on the bytes that arrive

ASSUME UartAssumption ==
  /\ Capacity \in Nat \ {0}
  /\ Fifo \in Nat \ {0}
  /\ Trigger \in 0..(Fifo - 1)
  /\ MaxWrite \in Nat /\ MaxOut \in Nat /\ MaxIn \in Nat

VARIABLES
  tx, rx,      \* the rings
  pc,          \* where the main program is in write()
  left,        \* size - count in write()
  isr,         \* where the interrupt handler is: "none" when not running
  nvic,        \* the UART's interrupt is enabled in the NVIC
  txim,        \* the transmit interrupt is enabled in the UART (IMSC.TXIM)
  ris,         \* the transmit interrupt is pending (RIS.TXRIS)
  hwTx, hwRx,  \* the peripheral's FIFOs
  written,     \* bytes write() has put in the ring
  sent,        \* the byte sent last
  arrived,     \* bytes that came in
  taken,       \* the byte read() or flush() took last
  overrun      \* a full FIFO or a full ring has dropped a byte

mainVars == <<pc, left>>
txVars   == <<tx, hwTx, txim, ris, written, sent>>
rxVars   == <<rx, hwRx, arrived, taken, overrun>>
uartVars == <<mainVars, isr, nvic, txVars, rxVars>>

\* The constructor: receive interrupts only, then the NVIC.
UartInit ==
  /\ tx = <<>> /\ rx = <<>> /\ hwTx = <<>> /\ hwRx = <<>>
  /\ pc = "idle" /\ left = 0 /\ isr = "none"
  /\ nvic = TRUE /\ txim = FALSE /\ ris = FALSE
  /\ written = 0 /\ sent = 0 /\ arrived = 0 /\ taken = 0
  /\ overrun = FALSE

Main(l) == isr = "none" /\ pc = l

----------------------------------------------------------------------------
(* write() *)

Write(n) ==
  /\ Main("idle") /\ written + n <= MaxOut
  /\ pc' = "fill" /\ left' = n
  /\ UNCHANGED <<isr, nvic, txVars, rxVars>>

FillByte ==
  /\ Main("fill") /\ left > 0 /\ Len(tx) < Capacity
  /\ tx' = Append(tx, written + 1) /\ written' = written + 1
  /\ left' = left - 1
  /\ UNCHANGED <<pc, isr, nvic, hwTx, txim, ris, sent, rxVars>>

FillDone ==
  /\ Main("fill") /\ (left = 0 \/ Len(tx) = Capacity)
  /\ pc' = "mask" /\ left' = 0
  /\ UNCHANGED <<isr, nvic, txVars, rxVars>>

Mask ==
  /\ Main("mask")
  /\ nvic' = FALSE
  /\ pc' = "check"
  /\ UNCHANGED <<left, isr, txVars, rxVars>>

\* The transmit interrupt is on: its handler will take the bytes.
LeaveToHandler ==
  /\ Main("check") /\ txim
  /\ pc' = "unmask"
  /\ UNCHANGED <<left, isr, nvic, txVars, rxVars>>

\* It is off: turn it on and run uart_irq_tx() to fill the FIFO.
KickUnfilled ==
  /\ Main("check") /\ ~txim
  /\ txim' = TRUE
  /\ pc' = "unmask"
  /\ UNCHANGED <<left, isr, nvic, tx, hwTx, ris, written, sent, rxVars>>
Kick ==
  /\ Main("check") /\ ~txim
  /\ txim' = TRUE
  /\ pc' = "kick"
  /\ UNCHANGED <<left, isr, nvic, tx, hwTx, ris, written, sent, rxVars>>

Unmask ==
  /\ Main("unmask")
  /\ nvic' = TRUE
  /\ pc' = "idle"
  /\ UNCHANGED <<left, isr, txVars, rxVars>>

----------------------------------------------------------------------------
(* uart_irq_tx(), which the handler and write() both call *)

InIrqTx == isr = "tx" \/ Main("kick")

Writable == Len(hwTx) < Fifo

Push ==
  /\ InIrqTx /\ tx # <<>> /\ Writable
  /\ hwTx' = Append(hwTx, Head(tx))
  /\ tx' = Tail(tx)
  /\ ris' = (ris /\ Len(hwTx) + 1 <= Trigger)
  /\ UNCHANGED <<mainVars, isr, nvic, txim, written, sent, rxVars>>

\* The loop ends; an empty ring turns the interrupt off.
IrqTxReturn ==
  /\ isr' = "none"
  /\ pc' = IF isr = "none" THEN "unmask" ELSE pc
  /\ UNCHANGED <<left, nvic, tx, hwTx, ris, written, sent, rxVars>>

IrqTxEnd ==
  /\ InIrqTx /\ ~(tx # <<>> /\ Writable)
  /\ txim' = (txim /\ tx # <<>>)
  /\ IrqTxReturn

----------------------------------------------------------------------------
(* The interrupt handler, and uart_irq_rx() *)

\* The UART asks for its handler.
Raised == (txim /\ ris) \/ hwRx # <<>>

\* The handler starts while the UART asks for it, or once more for a request
\* that the NVIC has latched and that is gone by now.
IrqEnter ==
  /\ nvic /\ isr = "none"
  /\ isr' = "rx"
  /\ UNCHANGED <<mainVars, nvic, txVars, rxVars>>

IrqRxByte ==
  /\ isr = "rx" /\ hwRx # <<>>
  /\ rx' = IF Len(rx) < Capacity THEN Append(rx, Head(hwRx)) ELSE rx
  /\ overrun' = (overrun \/ Len(rx) >= Capacity)
  /\ hwRx' = Tail(hwRx)
  /\ UNCHANGED <<mainVars, isr, nvic, txVars, arrived, taken>>

IrqRxEnd ==
  /\ isr = "rx" /\ hwRx = <<>>
  /\ isr' = "tx"
  /\ UNCHANGED <<mainVars, nvic, txVars, rxVars>>

----------------------------------------------------------------------------
(* read() and flush(), byte by byte, and the peripheral *)

TakeByte ==
  /\ Main("idle") /\ rx # <<>>
  /\ taken' = Head(rx) /\ rx' = Tail(rx)
  /\ UNCHANGED <<mainVars, isr, nvic, txVars, hwRx, arrived, overrun>>

HwSend ==
  /\ hwTx # <<>>
  /\ sent' = Head(hwTx) /\ hwTx' = Tail(hwTx)
  /\ ris' = (ris \/ Len(hwTx) = Trigger + 1)
  /\ UNCHANGED <<mainVars, isr, nvic, tx, txim, written, rxVars>>

HwReceive ==
  /\ arrived < MaxIn
  /\ arrived' = arrived + 1
  /\ hwRx' = IF Len(hwRx) < Fifo THEN Append(hwRx, arrived + 1) ELSE hwRx
  /\ overrun' = (overrun \/ Len(hwRx) = Fifo)
  /\ UNCHANGED <<mainVars, isr, nvic, txVars, rx, taken>>

----------------------------------------------------------------------------

WriteStep ==
  FillByte \/ FillDone \/ Mask \/ LeaveToHandler \/ Kick \/ Unmask

IrqStep == IrqRxByte \/ IrqRxEnd

UartNext ==
  \/ \E n \in 0..MaxWrite : Write(n)
  \/ WriteStep
  \/ Push \/ IrqTxEnd
  \/ IrqEnter \/ IrqStep
  \/ TakeByte
  \/ HwSend \/ HwReceive

UartSafety == UartInit /\ [][UartNext]_uartVars

\* The processor keeps executing the handler or else the main program, the
\* peripheral keeps sending, and a request that stands is served although
\* write() masks it for a while over and over: the processor takes it at the
\* first instruction that it may interrupt.
UartSpec ==
  /\ UartSafety
  /\ WF_uartVars(WriteStep) /\ WF_uartVars(Push \/ IrqTxEnd)
  /\ WF_uartVars(IrqStep)
  /\ SF_uartVars(Raised /\ IrqEnter)
  /\ WF_uartVars(HwSend)

----------------------------------------------------------------------------
(* Correctness *)

\* Types, and the two ends of every queue: no ring or FIFO is overfilled.
UartTypeOK ==
  /\ tx \in Seq(Nat) /\ Len(tx) <= Capacity
  /\ rx \in Seq(Nat) /\ Len(rx) <= Capacity
  /\ hwTx \in Seq(Nat) /\ Len(hwTx) <= Fifo
  /\ hwRx \in Seq(Nat) /\ Len(hwRx) <= Fifo
  /\ pc \in {"idle", "fill", "mask", "check", "kick", "unmask"}
  /\ left \in 0..MaxWrite
  /\ isr \in {"none", "rx", "tx"}
  /\ nvic \in BOOLEAN /\ txim \in BOOLEAN /\ ris \in BOOLEAN
  /\ written \in Nat /\ sent \in Nat
  /\ arrived \in Nat /\ taken \in Nat /\ overrun \in BOOLEAN

\* uart_irq_tx() is never entered by the handler while write() is in it: the
\* transmit ring has one consumer at a time, as RingBuffer requires.
OneConsumer == pc \in {"check", "kick", "unmask"} => isr = "none"

\* Every byte write() accepted and the line has not carried yet is in the
\* FIFO or in the ring, once, in the order it was written.
TxInOrder ==
  /\ Len(hwTx) + Len(tx) = written - sent
  /\ \A i \in 1..Len(hwTx) : hwTx[i] = sent + i
  /\ \A i \in 1..Len(tx) : tx[i] = sent + Len(hwTx) + i

\* No lost wake-up: when nobody is at work on the transmitter, bytes left in
\* the ring have an interrupt that is enabled and is pending or will be.
NoLostWakeup ==
  Main("idle") /\ tx # <<>> => txim /\ (ris \/ Len(hwTx) > Trigger)

\* As long as nothing overflowed, what waits to be read is exactly what came
\* in since the byte that was read last.
RxInOrder ==
  ~overrun =>
    /\ Len(rx) + Len(hwRx) = arrived - taken
    /\ \A i \in 1..Len(rx) : rx[i] = taken + i
    /\ \A i \in 1..Len(hwRx) : hwRx[i] = taken + Len(rx) + i

\* The driver as its callers see it: bytes complete and in order both ways,
\* one consumer of the transmit ring at a time, and nothing left waiting.
UartSafe ==
  UartTypeOK /\ OneConsumer /\ TxInOrder /\ RxInOrder /\ NoLostWakeup

\* Why no wake-up is lost.  write() looks at TXIM and calls uart_irq_tx() with
\* the handler shut out; outside uart_irq_tx() an enabled interrupt is pending
\* or will be; and a disabled one means an empty ring, except inside write().
Masked ==
  /\ nvic = (pc \notin {"check", "kick", "unmask"})
  /\ ~nvic => isr = "none"

Armed == txim /\ pc # "kick" /\ isr # "tx" => ris \/ Len(hwTx) > Trigger

Covered ==
  /\ pc \in {"idle", "unmask"} => txim \/ tx = <<>>
  /\ pc = "kick" => txim

UartInv == UartTypeOK /\ TxInOrder /\ RxInOrder /\ Masked /\ Armed /\ Covered

\* Every byte write() accepted is sent in the end, without another call.
TxDrains == \A k \in 1..MaxOut : written >= k ~> sent >= k
=============================================================================
