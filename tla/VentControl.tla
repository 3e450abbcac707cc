---------------------------- MODULE VentControl ----------------------------
(***************************************************************************)
(* The ventilation half of class State, with the fan driver MIO12V, the    *)
(* pressure sensor SDP600 and the settings registers of the EEPROM.        *)
(*                                                                         *)
(* Every operator below that mentions primed variables is one handler of   *)
(* State, run to completion: the firmware is single threaded, and the only *)
(* calls that reach State from elsewhere (the MQTT callback and the fan's  *)
(* observer call) are made from inside another handler.  Controller.tla    *)
(* puts the handlers in the order of main()'s loop.                        *)
(*                                                                         *)
(* CO2, temperature, humidity and mCurrentPressure are read, shown and     *)
(* published but decide nothing, so they are left out; so are the pixels.  *)
(***************************************************************************)
EXTENDS CInts

CONSTANTS
  FAN_MAX,              \* 1000: full speed, in tenths of a percent
  FAN_STEP,             \* 10: one detent of the knob in manual mode
  FAN_SCALE,            \* 10: register units per percent
  PRES_MAX,             \* 125 Pa: the largest target the knob can reach
  MIN_PRESSURE_TARGET,  \* 5 Pa: at or below it automatic mode stops the fan
  FAN_GAIN,             \* 4: register units per Pa of deviation
  SENSOR_SCALE,         \* 240: SDP600 counts per Pa
  RawPressures,         \* the counts SDP600::update may leave, those of a failed
                        \* I2C transaction (the command byte 0xF1) included
  Uninit,               \* what uninitialised target members may hold
  BusOutcomes           \* the outcomes of a Modbus transaction: TRUE is success

ASSUME VentAssumption ==
  /\ FAN_MAX \in Nat \ {0} /\ FAN_MAX < HALF
  /\ FAN_STEP \in Nat \ {0} /\ FAN_SCALE \in Nat \ {0}
  /\ MIN_PRESSURE_TARGET \in Nat
  /\ PRES_MAX \in Nat /\ MIN_PRESSURE_TARGET < PRES_MAX /\ PRES_MAX < HALF
  /\ FAN_GAIN \in Nat \ {0} /\ SENSOR_SCALE \in Nat \ {0}
  /\ \A raw \in RawPressures, t \in 0..PRES_MAX :
       t - CDiv(raw, SENSOR_SCALE) \in INT16
  /\ RawPressures \subseteq INT16
  /\ Uninit \subseteq UINT16
  /\ BusOutcomes \subseteq BOOLEAN /\ TRUE \in BusOutcomes

VARIABLES
  mMode_auto,        \* State: TRUE when the box regulates the pressure itself
  mTargetFanSpeed, mInputFanSpeed, mCurrentFanSpeed,
  mTargetPressure, mInputPressure,
  fanDue,            \* State: time_reached(mFanAdjustmentTimeout_ms)
  mFanSpeed,         \* MIO12V: the speed the driver believes it has set
  fanReg,            \* the speed register inside the MIO12V device
  written,           \* history: the driver's latest access to it succeeded
  mPressure,         \* SDP600: the last reading, in counts
  eMode,             \* EEPROM_REG_MODE: "1", "0" or never written
  eTarPres, eTarFan, \* EEPROM_REG_TAR_PRES, EEPROM_REG_TAR_FAN
  mMQTTEnabled,      \* MQTTHandler: there is a client to publish through
  status             \* the last status message handed to the MQTT client

targetVars == <<mTargetFanSpeed, mInputFanSpeed, mTargetPressure, mInputPressure>>
fanVars == <<mFanSpeed, fanReg, written>>
settingsVars == <<eMode, eTarPres, eTarFan>>
ventVars == <<mMode_auto, targetVars, mCurrentFanSpeed, fanDue, fanVars, mPressure,
              settingsVars, mMQTTEnabled, status>>

Blank == "blank"
NoStatus == [auto |-> FALSE, setpoint |-> 0, speed |-> -1]  \* nothing sent yet

\* The values of the C++ types.
VentTypeOK ==
  /\ mMode_auto \in BOOLEAN
  /\ mTargetFanSpeed \in UINT16 /\ mInputFanSpeed \in UINT16
  /\ mCurrentFanSpeed \in UINT16
  /\ mTargetPressure \in INT16 /\ mInputPressure \in INT16
  /\ fanDue \in BOOLEAN
  /\ mFanSpeed \in UINT16 /\ fanReg \in UINT16 /\ written \in BOOLEAN
  /\ mPressure \in INT16
  /\ eMode \in {"0", "1", Blank} /\ eTarPres \in INT16 /\ eTarFan \in UINT16
  /\ mMQTTEnabled \in BOOLEAN
  /\ status \in [auto : BOOLEAN, setpoint : Int, speed : Int]

----------------------------------------------------------------------------
(* Observers and helpers *)

\* Pascals from the sensor's counts.
Pascal(raw) == CDiv(raw, SENSOR_SCALE)

\* State::fetchValues, at the end of every State::update.
FetchValues == mCurrentFanSpeed' = mFanSpeed'

\* Class StatusMessage, without the readings.
StatusMessage(speed, setpoint, auto) == [auto |-> auto, setpoint |-> setpoint, speed |-> speed]

\* MQTTHandler::send: without a connection a status is dropped.
Send(message) == status' = IF mMQTTEnabled THEN message ELSE status

\* State::updateMQTT, given the values State holds at that moment.
Publish(auto, tarPres, tarFan, speed) ==
  Send(StatusMessage(speed \div FAN_SCALE,
                     IF auto THEN tarPres ELSE tarFan \div FAN_SCALE,
                     auto))

\* SDP600::update.
ReadPressure(raw) == raw \in RawPressures /\ mPressure' = raw

\* What OLED_VentStatus highlights: an input that differs from its target.
PressureEdited == mTargetPressure # mInputPressure
FanSpeedEdited == mTargetFanSpeed # mInputFanSpeed

\* MIO12V::setFanSpeed's limits.
ClampFanUnsigned(speed) == IF speed > FAN_MAX THEN FAN_MAX ELSE speed
ClampFan(speed) ==
  IF speed < 0 \/ speed > FAN_MAX
  THEN IF speed < FAN_MAX THEN 0 ELSE FAN_MAX
  ELSE speed

\* MIO12V::setFanSpeed: a fan at rest is first kicked to full speed.  Modbus
\* errors are not looked at, so either register write may silently be lost;
\* written is what an error check of the second would have seen.
\* The caller adds the observer call, State::update.
SetFanSpeedKickLast(speed) ==
  /\ mFanSpeed' = ClampFan(speed)
  /\ \E kickOk, setOk \in BusOutcomes :
       /\ fanReg' = IF mFanSpeed = 0 /\ kickOk THEN FAN_MAX
                    ELSE IF setOk THEN ClampFan(speed) ELSE fanReg
       /\ written' = setOk
SetFanSpeed(speed) ==
  /\ mFanSpeed' = ClampFan(speed)
  /\ \E kickOk, setOk \in BusOutcomes :
       /\ fanReg' = IF setOk THEN ClampFan(speed)
                    ELSE IF mFanSpeed = 0 /\ kickOk THEN FAN_MAX
                    ELSE fanReg
       /\ written' = setOk

----------------------------------------------------------------------------
(* Start-up *)

\* sstr >> mMode_auto: anything but a number reads as false.
ParseMode(reg) == reg = "1"

\* The range check on a target restored from the EEPROM.
InRangeUnchecked(x, max) == x
InRangeOrZero(x, max) == IF x < 0 \/ x > max THEN 0 ELSE x

\* MIO12V::MIO12V reads the speed register over Modbus; a failed read gives 0.
\* The fan device may or may not have lost power together with the box.
FanBoot(reg) ==
  /\ \E fanOn \in BOOLEAN : fanReg' = IF fanOn THEN reg ELSE 0
  /\ \E readOk \in BusOutcomes :
       /\ mFanSpeed' = IF readOk THEN fanReg' ELSE 0
       /\ written' = readOk

\* FanBoot, then State::State.  Extracting the mode leaves eofbit (or failbit)
\* set in sstr, and sstr.str() does not clear it, so both later extractions
\* fail and leave the uninitialised members as they were.
VentBoot(reg) ==
  /\ FanBoot(reg)
  /\ mMode_auto' = ParseMode(eMode)
  /\ \E f \in Uninit : mTargetFanSpeed' = InRangeOrZero(f, FAN_MAX)
  /\ \E p \in Uninit : mTargetPressure' = InRangeOrZero(Int16(p), PRES_MAX)
  /\ mInputFanSpeed' = mTargetFanSpeed'
  /\ mInputPressure' = mTargetPressure'
  /\ mCurrentFanSpeed' = 0 /\ mPressure' = 0
  /\ fanDue' = TRUE
  /\ mMQTTEnabled' = FALSE /\ status' = NoStatus
  /\ UNCHANGED settingsVars

----------------------------------------------------------------------------
(* Handlers *)

\* The once-a-second part of main()'s loop: the sensors, then State::updateMQTT
\* with the values of the previous round, then State::update.
PassiveUpdate ==
  /\ \E raw \in RawPressures : ReadPressure(raw)
  /\ Publish(mMode_auto, mTargetPressure, mTargetFanSpeed, mCurrentFanSpeed)
  /\ UNCHANGED fanVars
  /\ FetchValues
  /\ UNCHANGED <<mMode_auto, targetVars, fanDue, settingsVars, mMQTTEnabled>>

\* State::update(SettingsMessage): both inputs follow the targets.
ApplySettingsKeepInput(auto, setpoint) ==
  /\ mMode_auto' = auto
  /\ mTargetPressure' = IF auto THEN Int16(setpoint) ELSE mTargetPressure
  /\ mTargetFanSpeed' = IF auto THEN mTargetFanSpeed
                        ELSE UInt16(UInt16(setpoint) * FAN_SCALE)
  /\ UNCHANGED <<mInputPressure, mInputFanSpeed>>
ApplySettings(auto, setpoint) ==
  /\ mMode_auto' = auto
  /\ mTargetPressure' = IF auto THEN Int16(setpoint) ELSE mTargetPressure
  /\ mTargetFanSpeed' = IF auto THEN mTargetFanSpeed
                        ELSE UInt16(UInt16(setpoint) * FAN_SCALE)
  /\ mInputPressure' = mTargetPressure'
  /\ mInputFanSpeed' = mTargetFanSpeed'

\* EEPROM writes of a whole settings message.
SaveSettingsNoMode ==
  /\ eTarPres' = mTargetPressure'
  /\ eTarFan' = mTargetFanSpeed'
  /\ UNCHANGED eMode
SaveSettings ==
  /\ eMode' = IF mMode_auto' THEN "1" ELSE "0"
  /\ eTarPres' = mTargetPressure'
  /\ eTarFan' = mTargetFanSpeed'

UpdateSettingsPublishFirst(auto, setpoint) ==
  /\ ApplySettings(auto, setpoint)
  /\ SaveSettings
  /\ UNCHANGED <<fanVars, mPressure, fanDue, mMQTTEnabled>>
  /\ Publish(auto, mTargetPressure', mTargetFanSpeed', mCurrentFanSpeed)
  /\ FetchValues
UpdateSettings(auto, setpoint) ==
  /\ ApplySettings(auto, setpoint)
  /\ SaveSettings
  /\ UNCHANGED <<fanVars, mPressure, fanDue, mMQTTEnabled>>
  /\ FetchValues
  /\ Publish(auto, mTargetPressure', mTargetFanSpeed', mCurrentFanSpeed')

\* State::toggleMode on the ventilation screen: the manual target is the speed
\* the fan runs at, and an edit in progress is dropped.
VentToggleKeepTarget ==
  /\ mMode_auto' = ~mMode_auto
  /\ mInputPressure' = mTargetPressure
  /\ mInputFanSpeed' = mTargetFanSpeed
  /\ eMode' = IF mMode_auto' THEN "1" ELSE "0"
  /\ UNCHANGED <<mTargetPressure, mTargetFanSpeed, eTarPres, eTarFan>>
VentToggle ==
  /\ mMode_auto' = ~mMode_auto
  /\ mInputPressure' = mTargetPressure
  /\ mInputFanSpeed' = mCurrentFanSpeed
  /\ mTargetFanSpeed' = mCurrentFanSpeed
  /\ eMode' = IF mMode_auto' THEN "1" ELSE "0"
  /\ eTarFan' = mTargetFanSpeed'
  /\ UNCHANGED <<mTargetPressure, eTarPres>>

\* State::setTarget on the ventilation screen: commit the edit and save it.
VentSetTargetUnsaved ==
  /\ IF mMode_auto
     THEN /\ mTargetPressure' = mInputPressure
          /\ UNCHANGED mTargetFanSpeed
     ELSE /\ mTargetFanSpeed' = mInputFanSpeed
          /\ UNCHANGED mTargetPressure
  /\ UNCHANGED <<mMode_auto, mInputPressure, mInputFanSpeed, settingsVars>>
VentSetTarget ==
  /\ \/ /\ mMode_auto
        /\ mTargetPressure' = mInputPressure
        /\ eTarPres' = mInputPressure
        /\ UNCHANGED <<mTargetFanSpeed, eTarFan>>
     \/ /\ ~mMode_auto
        /\ mTargetFanSpeed' = mInputFanSpeed
        /\ eTarFan' = mInputFanSpeed
        /\ UNCHANGED <<mTargetPressure, eTarPres>>
  /\ UNCHANGED <<mMode_auto, mInputPressure, mInputFanSpeed, eMode>>

\* State::backspace on the ventilation screen: drop the edit.
VentBackspace ==
  /\ \/ /\ mMode_auto
        /\ mInputPressure' = mTargetPressure
        /\ UNCHANGED mInputFanSpeed
     \/ /\ ~mMode_auto
        /\ mInputFanSpeed' = mTargetFanSpeed
        /\ UNCHANGED mInputPressure
  /\ UNCHANGED <<mMode_auto, mTargetFanSpeed, mTargetPressure, settingsVars>>

\* State::adjustInputFanSpeed and State::adjustInputPressure.
Bounded(x, max) == IF x <= 0 THEN 0 ELSE IF x < max THEN x ELSE max

\* State::clockwise (dir = 1) and State::counter_clockwise (dir = -1).
VentTurn(dir) ==
  /\ \/ /\ mMode_auto
        /\ mInputPressure' = Bounded(mInputPressure + dir, PRES_MAX)
        /\ UNCHANGED mInputFanSpeed
     \/ /\ ~mMode_auto
        /\ mInputFanSpeed' = Bounded(mInputFanSpeed + dir * FAN_STEP, FAN_MAX)
        /\ UNCHANGED mInputPressure
  /\ UNCHANGED <<mMode_auto, mTargetFanSpeed, mTargetPressure, settingsVars>>

\* What every button handler leaves alone, and the State::update it ends with.
HandlerEnd ==
  /\ UNCHANGED <<fanVars, mPressure, fanDue, mMQTTEnabled, status>>
  /\ FetchValues

\* State::adjustFan in automatic mode above the minimum: an integral step on
\* a fresh reading, at most one per FAN_ADJUSTMENT_LATENCY_MS.
Deviation(raw) == Int16(mTargetPressure - Pascal(raw))

DeviationSwapped(raw) == Int16(Pascal(raw) - mTargetPressure)

RegulateSwapped ==
  /\ fanDue
  /\ \E raw \in RawPressures :
       /\ ReadPressure(raw)
       /\ SetFanSpeed(mCurrentFanSpeed + DeviationSwapped(raw) * FAN_GAIN)
       /\ fanDue' = FALSE
       /\ FetchValues
Regulate ==
  /\ fanDue
  /\ \E raw \in RawPressures :
       /\ ReadPressure(raw)
       /\ \/ /\ Deviation(raw) = 0
             /\ UNCHANGED <<fanVars, fanDue, mCurrentFanSpeed>>
          \/ /\ Deviation(raw) # 0
             /\ SetFanSpeed(mCurrentFanSpeed + Deviation(raw) * FAN_GAIN)
             /\ fanDue' = FALSE
             /\ FetchValues

\* State::adjustFan in automatic mode at or below the minimum.
StopFan ==
  /\ mFanSpeed # 0
  /\ SetFanSpeed(0)
  /\ fanDue' = FALSE
  /\ UNCHANGED mPressure
  /\ FetchValues

\* State::adjustFan in manual mode.
DriveFanOnlyUp ==
  /\ mTargetFanSpeed # mFanSpeed
  /\ IF mTargetFanSpeed > mFanSpeed
     THEN SetFanSpeed(mTargetFanSpeed) ELSE UNCHANGED fanVars
  /\ UNCHANGED <<fanDue, mPressure>>
  /\ FetchValues
DriveFan ==
  /\ mTargetFanSpeed # mFanSpeed
  /\ SetFanSpeed(mTargetFanSpeed)
  /\ UNCHANGED <<fanDue, mPressure>>
  /\ FetchValues

KeepFan == UNCHANGED <<fanVars, fanDue, mPressure, mCurrentFanSpeed>>

AdjustFan ==
  /\ \/ mMode_auto /\ mTargetPressure > MIN_PRESSURE_TARGET /\ Regulate
     \/ mMode_auto /\ mTargetPressure > MIN_PRESSURE_TARGET /\ ~fanDue /\ KeepFan
     \/ mMode_auto /\ mTargetPressure <= MIN_PRESSURE_TARGET /\ StopFan
     \/ mMode_auto /\ mTargetPressure <= MIN_PRESSURE_TARGET /\ mFanSpeed = 0 /\ KeepFan
     \/ ~mMode_auto /\ DriveFan
     \/ ~mMode_auto /\ mTargetFanSpeed = mFanSpeed /\ KeepFan
  /\ UNCHANGED <<mMode_auto, targetVars, settingsVars, mMQTTEnabled, status>>
=============================================================================
