----------------------------- MODULE MCDevices -----------------------------
(***************************************************************************)
(* The drivers, each by itself: unit says which of them a behaviour is     *)
(* about, the others stay as they started.                                 *)
(*   ring     a ring of four slots, so that both indices wrap              *)
(*   uart     a FIFO smaller than a write, a ring smaller still            *)
(*   switch   one button and the shaft; the timer wraps once               *)
(*   eeprom   a mode and targets of one and three digits; power fails      *)
(*   sensor   registers of one bit                                         *)
(***************************************************************************)
EXTENDS RingBuffer, PicoUart, PicoSW, Eeprom, Sensors

VARIABLE unit

MCModes == {<<"0">>, <<"1">>}
MCTargets == {<<"0">>, <<"1", "0", "0">>}

DevicesInit ==
  /\ unit \in {"ring", "uart", "switch", "eeprom", "sensor"}
  /\ RingInit /\ UartInit /\ SwInit /\ EepromInit /\ SensorInit

RestOf(u) ==
  /\ UNCHANGED unit
  /\ u # "ring" => UNCHANGED ringVars
  /\ u # "uart" => UNCHANGED uartVars
  /\ u # "switch" => UNCHANGED swVars
  /\ u # "eeprom" => UNCHANGED eepromVars
  /\ u # "sensor" => UNCHANGED sensorVars

DevicesNext ==
  \/ unit = "ring" /\ RingNext /\ RestOf("ring")
  \/ unit = "uart" /\ UartNext /\ RestOf("uart")
  \/ unit = "switch" /\ SwNext /\ RestOf("switch")
  \/ unit = "eeprom" /\ EepromNext /\ RestOf("eeprom")
  \/ unit = "sensor" /\ SensorNext /\ RestOf("sensor")

devicesVars ==
  <<unit, ringVars, uartVars, swVars, eepromVars, sensorVars>>

\* The fairness of UartSpec, SwFairSpec and EepromFairSpec.
DevicesSpec ==
  /\ DevicesInit /\ [][DevicesNext]_devicesVars
  /\ WF_uartVars(unit = "uart" /\ WriteStep)
  /\ WF_uartVars(unit = "uart" /\ (Push \/ IrqTxEnd))
  /\ WF_uartVars(unit = "uart" /\ IrqStep)
  /\ SF_uartVars(unit = "uart" /\ Raised /\ IrqEnter)
  /\ WF_uartVars(unit = "uart" /\ HwSend)
  /\ WF_swVars(unit = "switch" /\ MainSteps)
  /\ \A p \in Pins : WF_swVars(unit = "switch" /\ interruptHandler(p))
  /\ WF_eepromVars(unit = "eeprom" /\ Calls)
  /\ WF_eepromVars(unit = "eeprom" /\ CycleEnds)

(* A handler that saves returns, and so do the reads at start: no call     *)
(* waits for ever for an EEPROM that ends its write cycles.                *)
SavesEnd == unit = "eeprom" /\ todo # <<>> ~> todo = <<>>

(* Nothing in the drivers waits for ever: every accepted byte is sent,     *)
(* every button event is taken, every save and every read ends.            *)
DevicesProgress == TxDrains /\ EventsTaken /\ SavesEnd
=============================================================================
