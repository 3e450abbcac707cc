-------------------------- MODULE ControllerProofs ---------------------------
(***************************************************************************)
(* Theorems about Controller, for every word size, fan and pressure range, *)
(* sensor, set of payloads and bus behaviour the assumptions allow.        *)
(***************************************************************************)
EXTENDS Controller, TLAPS

----------------------------------------------------------------------------
(* The C++ conversions *)

\* A cast to uint16_t gives a value of that type.
LEMMA UInt16Type == ASSUME NEW x \in Int PROVE UInt16(x) \in UINT16
BY HalfAssumption DEF UInt16, UINT16, WORD

\* A cast to int16_t gives a value of that type.
LEMMA Int16Type == ASSUME NEW x \in Int PROVE Int16(x) \in INT16
<1>1. (x + HALF) % WORD \in 0..(WORD - 1)
  BY HalfAssumption DEF WORD
<1> QED
  BY <1>1, HalfAssumption DEF Int16, INT16, WORD

\* Division towards zero is defined on the integers.
LEMMA CDivType == ASSUME NEW x \in Int, NEW d \in Nat \ {0} PROVE CDiv(x, d) \in Int
BY DEF CDiv

\* Casting a value that an int16_t can hold does not change it.
LEMMA Int16Id == ASSUME NEW x \in INT16 PROVE Int16(x) = x
<1>1. x \in Int /\ x + HALF \in 0..(WORD - 1)
  BY HalfAssumption DEF INT16, WORD
<1>2. (x + HALF) % WORD = x + HALF
  BY <1>1, HalfAssumption DEF WORD
<1> QED
  BY <1>1, <1>2, HalfAssumption DEF Int16

\* Limits of the driver and of the knob.
LEMMA ClampFanType == ASSUME NEW x \in Int PROVE ClampFan(x) \in 0..FAN_MAX
BY VentAssumption DEF ClampFan

----------------------------------------------------------------------------
(* Type correctness *)

\* The fan driver's setFanSpeed keeps the types of its two variables.
LEMMA SetFanSpeedType ==
  ASSUME VentTypeOK, NEW x \in Int, SetFanSpeed(x)
  PROVE  /\ mFanSpeed' \in 0..FAN_MAX
         /\ fanReg' = fanReg \/ fanReg' \in 0..FAN_MAX
         /\ written' \in BOOLEAN
BY ClampFanType, VentAssumption DEF SetFanSpeed

\* A fan speed within its limits fits a uint16_t.
LEMMA FanSpeedIsUInt16 == 0..FAN_MAX \subseteq UINT16
BY VentAssumption, HalfAssumption DEF UINT16, WORD

\* Pressures the knob can set fit an int16_t.
LEMMA PressureIsInt16 == 0..PRES_MAX \subseteq INT16
BY VentAssumption, HalfAssumption DEF INT16

\* Zero is a value of both types.
LEMMA ZeroType == 0 \in UINT16 /\ 0 \in INT16
BY HalfAssumption DEF UINT16, INT16, WORD

\* The knob's limits.
LEMMA BoundedType == ASSUME NEW x \in Int, NEW max \in Nat PROVE Bounded(x, max) \in 0..max
BY DEF Bounded

\* The constructor's range check.
LEMMA InRangeType ==
  ASSUME NEW x \in Int, NEW max \in Nat PROVE InRangeOrZero(x, max) \in 0..max
BY DEF InRangeOrZero

\* Publishing keeps the type of the last status.
LEMMA PublishType ==
  ASSUME VentTypeOK, NEW auto \in BOOLEAN, NEW p \in Int, NEW f \in Int, NEW s \in Int,
         Publish(auto, p, f, s)
  PROVE  status' \in [auto : BOOLEAN, setpoint : Int, speed : Int]
<1>1. f \div FAN_SCALE \in Int /\ s \div FAN_SCALE \in Int
  BY VentAssumption
<1> QED
  BY <1>1 DEF Publish, Send, StatusMessage, VentTypeOK

\* The ventilation handlers keep their types.
LEMMA ScreenHandlersType ==
  ASSUME VentTypeOK, HandlerEnd,
         VentToggle \/ VentSetTarget \/ VentBackspace \/ VentTurn(1) \/ VentTurn(-1)
           \/ UNCHANGED <<mMode_auto, targetVars, settingsVars>>
  PROVE  VentTypeOK'
<1> USE DEF HandlerEnd, FetchValues, fanVars, VentTypeOK
<1>1. CASE VentToggle
  BY <1>1 DEF VentToggle
<1>2. CASE VentSetTarget
  BY <1>2 DEF VentSetTarget
<1>3. CASE VentBackspace
  BY <1>3 DEF VentBackspace, settingsVars
<1>4. ASSUME NEW dir \in {1, -1}, VentTurn(dir) PROVE VentTypeOK'
  <2>1. mInputPressure + dir \in Int /\ mInputFanSpeed + dir * FAN_STEP \in Int
    BY VentAssumption, HalfAssumption DEF INT16, UINT16, WORD
  <2>2. /\ Bounded(mInputPressure + dir, PRES_MAX) \in INT16
        /\ Bounded(mInputFanSpeed + dir * FAN_STEP, FAN_MAX) \in UINT16
    BY <2>1, BoundedType, FanSpeedIsUInt16, PressureIsInt16, VentAssumption
  <2> QED
    BY <1>4, <2>2 DEF VentTurn, settingsVars
<1>5. CASE UNCHANGED <<mMode_auto, targetVars, settingsVars>>
  BY <1>5 DEF targetVars, settingsVars
<1> QED
  BY <1>1, <1>2, <1>3, <1>4, <1>5

\* adjustFan keeps its types.
LEMMA AdjustFanType == ASSUME VentTypeOK, AdjustFan PROVE VentTypeOK'
<1>1. UNCHANGED <<mMode_auto, targetVars, settingsVars, mMQTTEnabled, status>>
  BY DEF AdjustFan
<1>2. ASSUME NEW x \in Int, SetFanSpeed(x) PROVE mFanSpeed' \in UINT16 /\ fanReg' \in UINT16 /\ written' \in BOOLEAN
  BY <1>2, SetFanSpeedType, FanSpeedIsUInt16 DEF VentTypeOK
<1>3. CASE Regulate
  <2>1. PICK raw \in RawPressures :
          /\ mPressure' = raw
          /\ \/ UNCHANGED <<fanVars, fanDue, mCurrentFanSpeed>>
             \/ /\ SetFanSpeed(mCurrentFanSpeed + Deviation(raw) * FAN_GAIN)
                /\ fanDue' = FALSE /\ FetchValues
    BY <1>3 DEF Regulate, ReadPressure
  <2>2. Pascal(raw) \in Int
    BY CDivType, VentAssumption DEF Pascal, INT16
  <2>3. Deviation(raw) \in Int
    BY <2>2, Int16Type, HalfAssumption DEF Deviation, VentTypeOK, INT16
  <2>4. mCurrentFanSpeed + Deviation(raw) * FAN_GAIN \in Int
    BY <2>3, VentAssumption, HalfAssumption DEF VentTypeOK, UINT16, WORD
  <2> QED
    BY <1>1, <1>2, <2>1, <2>4, VentAssumption
       DEF VentTypeOK, FetchValues, fanVars, targetVars, settingsVars
<1>4. CASE StopFan
  <2>1. SetFanSpeed(0)
    BY <1>4 DEF StopFan
  <2>2. mFanSpeed' \in UINT16 /\ fanReg' \in UINT16 /\ written' \in BOOLEAN
    BY <1>2, <2>1
  <2> QED
    BY <1>1, <1>4, <2>2 DEF StopFan, VentTypeOK, FetchValues, targetVars, settingsVars
<1>5. CASE DriveFan
  <2>1. mTargetFanSpeed \in Int
    BY HalfAssumption DEF VentTypeOK, UINT16, WORD
  <2> QED
    BY <1>1, <1>2, <1>5, <2>1
       DEF DriveFan, VentTypeOK, FetchValues, targetVars, settingsVars
<1>6. CASE KeepFan
  BY <1>1, <1>6 DEF KeepFan, VentTypeOK, fanVars, targetVars, settingsVars
<1> QED
  BY <1>3, <1>4, <1>5, <1>6 DEF AdjustFan

\* The once-a-second update keeps its types.
LEMMA PassiveUpdateType == ASSUME VentTypeOK, PassiveUpdate PROVE VentTypeOK'
<1>1. mPressure' \in INT16
  BY VentAssumption DEF PassiveUpdate, ReadPressure
<1>2. status' \in [auto : BOOLEAN, setpoint : Int, speed : Int]
  <2>1. mTargetPressure \in Int /\ mTargetFanSpeed \in Int /\ mCurrentFanSpeed \in Int
    BY HalfAssumption DEF VentTypeOK, INT16, UINT16, WORD
  <2> QED
    BY <2>1, PublishType DEF PassiveUpdate, VentTypeOK
<1> QED
  BY <1>1, <1>2
     DEF PassiveUpdate, VentTypeOK, FetchValues, fanVars, targetVars, settingsVars

\* A settings message keeps its types, whatever setpoint it carries.
LEMMA UpdateSettingsType ==
  ASSUME VentTypeOK, NEW auto \in BOOLEAN, NEW setpoint \in Int,
         UpdateSettings(auto, setpoint)
  PROVE  VentTypeOK'
<1>1. Int16(setpoint) \in INT16 /\ UInt16(UInt16(setpoint) * FAN_SCALE) \in UINT16
  <2>1. UInt16(setpoint) \in Int
    BY UInt16Type, HalfAssumption DEF UINT16, WORD
  <2>2. UInt16(setpoint) * FAN_SCALE \in Int
    BY <2>1, VentAssumption
  <2> QED
    BY <2>2, UInt16Type, Int16Type
<1>2. /\ mMode_auto' = auto
      /\ mTargetPressure' \in INT16 /\ mInputPressure' \in INT16
      /\ mTargetFanSpeed' \in UINT16 /\ mInputFanSpeed' \in UINT16
  BY <1>1 DEF UpdateSettings, ApplySettings, VentTypeOK
<1>3. mCurrentFanSpeed' \in UINT16
  BY DEF UpdateSettings, FetchValues, fanVars, VentTypeOK
<1>4. status' \in [auto : BOOLEAN, setpoint : Int, speed : Int]
  <2>1. mTargetPressure' \in Int /\ mTargetFanSpeed' \in Int /\ mCurrentFanSpeed' \in Int
    BY <1>2, <1>3, HalfAssumption DEF INT16, UINT16, WORD
  <2> QED
    BY <2>1, PublishType DEF UpdateSettings
<1> QED
  BY <1>2, <1>3, <1>4 DEF UpdateSettings, SaveSettings, VentTypeOK, fanVars

\* The constructors establish the types, whatever the members held before.
LEMMA VentBootType == ASSUME VentTypeOK, VentBoot(fanReg) PROVE VentTypeOK'
<1>1. fanReg' \in UINT16 /\ mFanSpeed' \in UINT16 /\ written' \in BOOLEAN
  BY ZeroType, VentAssumption DEF VentBoot, FanBoot, VentTypeOK
<1>2. mTargetFanSpeed' \in UINT16
  <2>1. \A f \in Uninit : f \in Int
    BY VentAssumption, HalfAssumption DEF UINT16, WORD
  <2>2. \A f \in Uninit : InRangeOrZero(f, FAN_MAX) \in 0..FAN_MAX
    BY <2>1, InRangeType, VentAssumption
  <2> QED
    BY <2>2, FanSpeedIsUInt16 DEF VentBoot
<1>3. mTargetPressure' \in INT16
  <2>1. \A p \in Uninit : Int16(p) \in Int
    BY Int16Type, VentAssumption, HalfAssumption DEF UINT16, INT16, WORD
  <2>2. \A p \in Uninit : InRangeOrZero(Int16(p), PRES_MAX) \in 0..PRES_MAX
    BY <2>1, InRangeType, VentAssumption
  <2> QED
    BY <2>2, PressureIsInt16 DEF VentBoot
<1>4. mMode_auto' \in BOOLEAN /\ status' \in [auto : BOOLEAN, setpoint : Int, speed : Int]
  <2>1. NoStatus \in [auto : BOOLEAN, setpoint : Int, speed : Int]
    BY DEF NoStatus
  <2>2. mMode_auto' = ParseMode(eMode) /\ ParseMode(eMode) \in BOOLEAN
    BY DEF VentBoot, ParseMode
  <2> QED
    BY <2>1, <2>2 DEF VentBoot
<1> QED
  BY <1>1, <1>2, <1>3, <1>4, ZeroType DEF VentBoot, VentTypeOK, settingsVars

\* The character wheel stays among the printable characters.
LEMMA WheelType ==
  ASSUME NEW c \in 33..126 PROVE CharAfter(c) \in 33..126 /\ CharBefore(c) \in 33..126
BY DEF CharAfter, CharBefore

\* The network screen's handlers keep their types.
LEMMA NetworkScreenType ==
  ASSUME ScreenTypeOK,
         \/ ScreenToggle \/ ScreenNextLine \/ ScreenSubmit \/ ScreenType
         \/ ScreenErase \/ ScreenBack \/ ScreenTurn(1) \/ ScreenTurn(-1) \/ ScreenBoot
  PROVE  ScreenTypeOK'
<1> USE DEF ScreenTypeOK, Stages
<1>1. NoText \in [Stages -> 0..MaxText]
  BY ScreenAssumption DEF NoText
<1>2. CASE ScreenToggle
  <2>1. text' \in [Stages -> 0..MaxText]
    BY <1>1, <1>2 DEF ScreenToggle
  <2>2. mInputChar' \in 33..126
    BY <1>2 DEF ScreenToggle
  <2>3. mStatusScreen' \in BOOLEAN /\ mMQTT_input_stage' \in Stages
    BY <1>2 DEF ScreenToggle
  <2> QED
    BY <2>1, <2>2, <2>3
<1>3. CASE ScreenNextLine \/ ScreenSubmit
  BY <1>3 DEF ScreenNextLine, ScreenSubmit
<1>4. CASE ScreenType
  BY <1>4, ScreenAssumption DEF ScreenType
<1>5. CASE ScreenErase
  BY <1>5, ScreenAssumption DEF ScreenErase
<1>6. CASE ScreenBack
  BY <1>6 DEF ScreenBack
<1>7. CASE ScreenTurn(1) \/ ScreenTurn(-1)
  BY <1>7, WheelType DEF ScreenTurn
<1>8. CASE ScreenBoot
  <2>1. text' \in [Stages -> 0..MaxText]
    BY <1>1, <1>8 DEF ScreenBoot
  <2>2. mInputChar' \in 33..126
    BY <1>8 DEF ScreenBoot
  <2>3. mStatusScreen' \in BOOLEAN /\ mMQTT_input_stage' \in Stages
    BY <1>8 DEF ScreenBoot
  <2> QED
    BY <2>1, <2>2, <2>3
<1> QED
  BY <1>2, <1>3, <1>4, <1>5, <1>6, <1>7, <1>8

\* The initial states have the right types.
LEMMA InitType == ASSUME Init PROVE TypeOK
<1>1. fanReg \in UINT16 /\ mFanSpeed \in UINT16 /\ written \in BOOLEAN
  BY FanSpeedIsUInt16 DEF Init
<1>2. mTargetFanSpeed \in UINT16
  <2>1. \A f \in Uninit : f \in Int
    BY VentAssumption, HalfAssumption DEF UINT16, WORD
  <2>2. \A f \in Uninit : InRangeOrZero(f, FAN_MAX) \in 0..FAN_MAX
    BY <2>1, InRangeType, VentAssumption
  <2> QED
    BY <2>2, FanSpeedIsUInt16 DEF Init
<1>3. mTargetPressure \in INT16
  <2>1. \A p \in Uninit : Int16(p) \in Int
    BY Int16Type, VentAssumption, HalfAssumption DEF UINT16, INT16, WORD
  <2>2. \A p \in Uninit : InRangeOrZero(Int16(p), PRES_MAX) \in 0..PRES_MAX
    BY <2>1, InRangeType, VentAssumption
  <2> QED
    BY <2>2, PressureIsInt16 DEF Init
<1>4. mMode_auto \in BOOLEAN /\ status \in [auto : BOOLEAN, setpoint : Int, speed : Int]
  <2>1. NoStatus \in [auto : BOOLEAN, setpoint : Int, speed : Int]
    BY DEF NoStatus
  <2>2. mMode_auto = ParseMode(eMode) /\ ParseMode(eMode) \in BOOLEAN
    BY DEF Init, ParseMode
  <2> QED
    BY <2>1, <2>2 DEF Init
<1>5. VentTypeOK
  BY <1>1, <1>2, <1>3, <1>4, ZeroType DEF Init, VentTypeOK
<1>6. ScreenTypeOK
  <2>1. NoText \in [Stages -> 0..MaxText]
    BY ScreenAssumption DEF NoText
  <2>2. text \in [Stages -> 0..MaxText] /\ mInputChar \in 33..126
    BY <2>1 DEF Init, ScreenInit
  <2>3. mStatusScreen \in BOOLEAN /\ mMQTT_input_stage \in Stages
    BY DEF Init, ScreenInit, Stages
  <2> QED
    BY <2>2, <2>3 DEF ScreenTypeOK
<1>7. eNet \in Nets /\ mNet \in Nets
  <2>1. NoText \in Nets
    BY DEF NoText, Nets
  <2> QED
    BY <2>1, NetAssumption DEF Init
<1> QED
  BY <1>5, <1>6, <1>7 DEF Init, TypeOK, Booting

\* What the parser makes of a payload is a mode and an integer.
LEMMA ParseType ==
  ASSUME NEW p \in Payloads, NEW sm \in ParsePayload(p)
  PROVE  sm.auto \in BOOLEAN /\ sm.setpoint \in Int
<1> DEFINE X == {0} \union {q.setpoint : q \in Payloads}
<1>1. \E m \in BOOLEAN, x \in X : sm = Settings(m, x)
  <2>1. \A q \in Payloads : (q.auto = "true") \in BOOLEAN
    OBVIOUS
  <2> QED
    BY <2>1, Zenon DEF ParsePayload
<1>2. PICK m \in BOOLEAN, x \in X : sm = Settings(m, x)
  BY <1>1
<1>3. \A q \in Payloads : q.setpoint \in Int
  BY NetAssumption DEF PayloadType
<1>4. x \in Int
  BY <1>3
<1>5. sm.auto = m /\ sm.setpoint = x
  BY <1>2, Zenon DEF Settings
<1> QED
  BY <1>4, <1>5

\* Variables that do not change keep their types.
LEMMA VentTypeKept == ASSUME VentTypeOK, UNCHANGED ventVars PROVE VentTypeOK'
BY DEF VentTypeOK, ventVars, targetVars, fanVars, settingsVars

\* The same of the network screen.
LEMMA ScreenTypeKept == ASSUME ScreenTypeOK, UNCHANGED screenVars PROVE ScreenTypeOK'
BY DEF ScreenTypeOK, screenVars

\* Connecting changes one variable of the ventilation.
LEMMA ConnectType ==
  ASSUME TypeOK, NEW net \in Nets, NEW back \in {"passive", "events"},
         NEW failed \in Loop \union Booting, TryConnect(net, back, failed)
  PROVE  /\ mMQTTEnabled' \in BOOLEAN
         /\ pc' \in Loop \union Booting \union {"subscribe", "halted"}
         /\ ret' \in {"passive", "events"}
         /\ passiveDue' \in BOOLEAN
         /\ eNet' \in Nets /\ mNet' \in Nets
BY NetAssumption DEF TryConnect, TypeOK

\* Every step keeps the types.
LEMMA NextType == ASSUME TypeOK, [Next]_vars PROVE TypeOK'
<1> USE DEF TypeOK
<1>t. NoText \in Nets
  BY DEF NoText, Nets
<1>1. CASE ConnectSaved
  <2>1. VentTypeOK'
    BY <1>1, ConnectType
       DEF ConnectSaved, ventOnly, VentTypeOK, targetVars, fanVars, settingsVars, Booting
  <2> QED
    BY <1>1, <2>1, ConnectType, ScreenTypeKept DEF ConnectSaved, Booting
<1>2. CASE ConnectDefault
  <2>1. VentTypeOK'
    BY <1>2, ConnectType, NetAssumption
       DEF ConnectDefault, ventOnly, VentTypeOK, targetVars, fanVars, settingsVars, Loop
  <2> QED
    BY <1>2, <2>1, ConnectType, ScreenTypeKept, NetAssumption DEF ConnectDefault, Loop
<1>3. CASE SubscribeDone
  <2>1. VentTypeOK'
    BY <1>3, ScreenHandlersType, VentTypeKept DEF SubscribeDone
  <2>2. pc' \in Loop
    BY <1>3 DEF SubscribeDone, Loop
  <2> QED
    BY <1>3, <1>t, <2>1, <2>2, ScreenTypeKept DEF SubscribeDone
<1>4. CASE Passive
  <2>1. VentTypeOK'
    BY <1>4, PassiveUpdateType, VentTypeKept DEF Passive
  <2> QED
    BY <1>4, <2>1, ScreenTypeKept DEF Passive, Loop
<1>5. CASE KeepAliveDone \/ EventsDone
  BY <1>5, VentTypeKept, ScreenTypeKept DEF KeepAliveDone, EventsDone, Loop
<1>6. CASE Adjust
  BY <1>6, AdjustFanType, ScreenTypeKept DEF Adjust, Loop
<1>7. ASSUME NEW p \in Payloads, SettingsMessage(p) PROVE TypeOK'
  <2>1. VentTypeOK'
    BY <1>7, ParseType, UpdateSettingsType DEF SettingsMessage
  <2> QED
    BY <1>7, <2>1, ScreenTypeKept DEF SettingsMessage
<1>8. CASE clockwise \/ counter_clockwise
  BY <1>8, ScreenHandlersType, NetworkScreenType, ScreenTypeKept
     DEF clockwise, counter_clockwise, OnVentScreen, OnNetworkScreen
<1>9. CASE setTarget \/ toggleScreen
  BY <1>9, ScreenHandlersType, NetworkScreenType, ScreenTypeKept
     DEF setTarget, toggleScreen, OnVentScreen, OnNetworkScreen
<1>10. CASE toggleMode
  <2>1. CASE OnVentScreen(VentToggle) \/ OnNetworkScreen(ScreenNextLine)
    BY <2>1, ScreenHandlersType, NetworkScreenType, ScreenTypeKept
       DEF OnVentScreen, OnNetworkScreen
  <2>2. CASE ~(OnVentScreen(VentToggle) \/ OnNetworkScreen(ScreenNextLine))
    <3>1. [text EXCEPT !["brokerIP"] = BROKER_IP_LEN] \in Nets
      <4>1. text \in [Stages -> Nat]
        BY ScreenAssumption DEF ScreenTypeOK
      <4> QED
        BY <4>1, NetAssumption DEF Nets
    <3>2. TryConnect([text EXCEPT !["brokerIP"] = BROKER_IP_LEN], "events", "events")
      BY <1>10, <2>2 DEF toggleMode
    <3>3. ScreenTypeOK'
      BY <1>10, <2>2, NetworkScreenType DEF toggleMode
    <3>4. mCurrentFanSpeed' \in UINT16
      BY <1>10, <2>2 DEF toggleMode, FetchValues, fanVars, VentTypeOK
    <3>5. VentTypeOK'
      BY <1>10, <2>2, <3>1, <3>2, <3>4, ConnectType
         DEF toggleMode, VentTypeOK, targetVars, fanVars, settingsVars, Loop
    <3> QED
      BY <3>1, <3>2, <3>3, <3>5, ConnectType DEF Loop
  <2> QED
    BY <2>1, <2>2
<1>11. CASE backspace
  <2>1. CASE OnVentScreen(VentBackspace) \/ OnNetworkScreen(ScreenErase)
               \/ OnNetworkScreen(ScreenBack)
    BY <2>1, ScreenHandlersType, NetworkScreenType, ScreenTypeKept
       DEF OnVentScreen, OnNetworkScreen
  <2> QED
    BY <1>11, <2>1, VentTypeKept, ScreenTypeKept DEF backspace
<1>12. CASE FanTimeout
  BY <1>12, ScreenTypeKept
     DEF FanTimeout, VentTypeOK, targetVars, fanVars, settingsVars
<1>13. CASE PassiveTimeout
  BY <1>13, VentTypeKept, ScreenTypeKept DEF PassiveTimeout
<1>14. CASE PowerCycle
  BY <1>14, <1>t, VentBootType, NetworkScreenType DEF PowerCycle, Booting
<1>15. CASE UNCHANGED vars
  BY <1>15, VentTypeKept, ScreenTypeKept DEF vars
<1> QED
  BY <1>1, <1>2, <1>3, <1>4, <1>5, <1>6, <1>7, <1>8, <1>9, <1>10, <1>11, <1>12, <1>13,
     <1>14, <1>15 DEF Next, Step, Environment

\* Type correctness: no handler, remote message or restart takes a variable
\* out of its C++ type.
THEOREM TypeCorrect == Spec => []TypeOK
BY InitType, NextType, PTL DEF Spec

----------------------------------------------------------------------------
(* Safety *)

\* The four conjuncts about the fan and the set values, without pc.
VentInv == OneEdit /\ FanWithinLimits /\ RegisterAgrees /\ ModeDurable

\* A call of setFanSpeed leaves register and belief within the limits, and
\* equal when no Modbus transaction fails.
LEMMA SetFanSpeedSafe ==
  ASSUME TypeOK, VentInv, NEW x \in Int, SetFanSpeed(x)
  PROVE  FanWithinLimits' /\ RegisterAgrees'
<1>1. FanWithinLimits'
  BY SetFanSpeedType DEF TypeOK, VentInv, FanWithinLimits
<1>2. RegisterAgrees'
  BY DEF SetFanSpeed, RegisterAgrees
<1> QED
  BY <1>1, <1>2

\* The button handlers on the ventilation screen.
LEMMA ScreenHandlersSafe ==
  ASSUME TypeOK, VentInv, HandlerEnd,
         VentToggle \/ VentSetTarget \/ VentBackspace \/ VentTurn(1) \/ VentTurn(-1)
           \/ UNCHANGED <<mMode_auto, targetVars, settingsVars>>
  PROVE  VentInv' /\ mCurrentFanSpeed' = mFanSpeed'
<1>1. mCurrentFanSpeed' = mFanSpeed' /\ UNCHANGED <<mFanSpeed, fanReg, written>>
  BY DEF HandlerEnd, FetchValues, fanVars
<1>2. FanWithinLimits' /\ RegisterAgrees'
  BY <1>1 DEF VentInv, FanWithinLimits, RegisterAgrees
<1>3. OneEdit' /\ ModeDurable'
  <2> USE DEF VentInv, OneEdit, PressureEdited, FanSpeedEdited,
          ModeDurable, ParseMode, TypeOK, VentTypeOK
  <2>1. CASE VentToggle
    BY <2>1 DEF VentToggle
  <2>2. CASE VentSetTarget
    BY <2>2 DEF VentSetTarget
  <2>3. CASE VentBackspace
    BY <2>3 DEF VentBackspace, settingsVars
  <2>4. CASE VentTurn(1) \/ VentTurn(-1)
    BY <2>4 DEF VentTurn, settingsVars
  <2>5. CASE UNCHANGED <<mMode_auto, targetVars, settingsVars>>
    BY <2>5 DEF targetVars, settingsVars
  <2> QED
    BY <2>1, <2>2, <2>3, <2>4, <2>5
<1> QED
  BY <1>1, <1>2, <1>3 DEF VentInv

\* adjustFan; it ends with an exact mCurrentFanSpeed if it began with one.
LEMMA AdjustFanSafe ==
  ASSUME TypeOK, VentInv, AdjustFan, mCurrentFanSpeed = mFanSpeed
  PROVE  VentInv' /\ mCurrentFanSpeed' = mFanSpeed'
<1>1. OneEdit' /\ ModeDurable'
  BY DEF AdjustFan, VentInv, OneEdit, PressureEdited, FanSpeedEdited, ModeDurable, targetVars, settingsVars
<1>2. mCurrentFanSpeed' = mFanSpeed'
  BY DEF AdjustFan, Regulate, StopFan, DriveFan, KeepFan, FetchValues, fanVars
<1>3. UNCHANGED fanVars \/ \E x \in Int : SetFanSpeed(x)
  <2>1. mCurrentFanSpeed \in Int /\ mTargetFanSpeed \in Int /\ mTargetPressure \in Int
    BY HalfAssumption DEF TypeOK, VentTypeOK, UINT16, INT16, WORD
  <2>2. \A raw \in RawPressures : mCurrentFanSpeed + Deviation(raw) * FAN_GAIN \in Int
    <3> TAKE raw \in RawPressures
    <3>1. Pascal(raw) \in Int
      BY CDivType, VentAssumption DEF Pascal, INT16
    <3>2. Deviation(raw) \in Int
      BY <2>1, <3>1, Int16Type, HalfAssumption DEF Deviation, INT16
    <3> QED
      BY <2>1, <3>2, VentAssumption
  <2>3. CASE Regulate
    BY <2>2, <2>3 DEF Regulate, ReadPressure
  <2>4. CASE StopFan \/ DriveFan \/ KeepFan
    BY <2>1, <2>4 DEF StopFan, DriveFan, KeepFan
  <2> QED
    BY <2>3, <2>4 DEF AdjustFan
<1>4. FanWithinLimits' /\ RegisterAgrees'
  BY <1>3, SetFanSpeedSafe DEF VentInv, FanWithinLimits, RegisterAgrees, fanVars
<1> QED
  BY <1>1, <1>2, <1>4 DEF VentInv

\* A settings message.
LEMMA UpdateSettingsSafe ==
  ASSUME TypeOK, VentInv, NEW auto \in BOOLEAN, NEW setpoint \in Int,
         UpdateSettings(auto, setpoint)
  PROVE  VentInv' /\ mCurrentFanSpeed' = mFanSpeed'
<1>1. FanWithinLimits' /\ RegisterAgrees' /\ mCurrentFanSpeed' = mFanSpeed'
  BY DEF UpdateSettings, VentInv, FanWithinLimits, RegisterAgrees, FetchValues, fanVars
<1>2. OneEdit'
  BY DEF UpdateSettings, ApplySettings, OneEdit, PressureEdited, FanSpeedEdited
<1>3. ModeDurable'
  BY DEF UpdateSettings, ApplySettings, SaveSettings, ModeDurable, ParseMode
<1> QED
  BY <1>1, <1>2, <1>3 DEF VentInv

\* The constructors, from whatever the EEPROM and the fan hold.
LEMMA VentBootSafe ==
  ASSUME TypeOK, VentInv, VentBoot(fanReg)
  PROVE  VentInv'
<1>1. FanWithinLimits'
  BY VentAssumption DEF VentBoot, FanBoot, VentInv, FanWithinLimits
<1>2. RegisterAgrees'
  BY DEF VentBoot, FanBoot, RegisterAgrees
<1>3. OneEdit' /\ ModeDurable'
  BY DEF VentBoot, OneEdit, PressureEdited, FanSpeedEdited, ModeDurable, settingsVars
<1> QED
  BY <1>1, <1>2, <1>3 DEF VentInv

\* Steps that leave the ventilation alone, but for the two flags VentInv does
\* not mention.
LEMMA VentInvKept ==
  ASSUME VentInv,
         UNCHANGED <<mMode_auto, targetVars, mCurrentFanSpeed, fanVars, settingsVars>>
  PROVE  VentInv' /\ UNCHANGED <<mCurrentFanSpeed, mFanSpeed>>
BY DEF VentInv, OneEdit, PressureEdited, FanSpeedEdited, FanWithinLimits, RegisterAgrees, ModeDurable,
       targetVars, fanVars, settingsVars

\* A box that has just been switched on satisfies the invariant.
LEMMA InitSafe == ASSUME Init PROVE ControllerInv
<1>1. TypeOK
  BY InitType
<1>2. FanMirror /\ FirstPassUpdates
  BY DEF Init, FanMirror, FirstPassUpdates
<1>3. OneEdit /\ FanWithinLimits /\ RegisterAgrees /\ ModeDurable
  BY DEF Init, OneEdit, PressureEdited, FanSpeedEdited, FanWithinLimits, RegisterAgrees, ModeDurable
<1> QED
  BY <1>1, <1>2, <1>3 DEF ControllerInv

\* Every step keeps the invariant: one case per action, and in each the fan
\* and the set values (VentInv), then the two conjuncts about pc.
LEMMA NextSafe == ASSUME ControllerInv, [Next]_vars PROVE ControllerInv'
<1>t. TypeOK /\ TypeOK' /\ VentInv
  BY NextType DEF ControllerInv, VentInv
<1>m. FanMirror /\ FirstPassUpdates
  BY DEF ControllerInv
<1>s. SUFFICES VentInv' /\ FanMirror' /\ FirstPassUpdates'
  BY <1>t DEF ControllerInv, VentInv
<1>1. CASE ConnectSaved \/ ConnectDefault
  <2>1. VentInv' /\ UNCHANGED <<mCurrentFanSpeed, mFanSpeed>>
    BY <1>1, <1>t, VentInvKept DEF ConnectSaved, ConnectDefault, ventOnly, targetVars,
       fanVars, settingsVars
  <2>2. passiveDue /\ UNCHANGED passiveDue /\ ret' = "passive"
        /\ pc' \in {"subscribe", "bootDefault", "passive"}
    BY <1>1, <1>m DEF ConnectSaved, ConnectDefault, TryConnect, FirstPassUpdates, Booting
  <2> QED
    BY <2>1, <2>2 DEF FanMirror, FirstPassUpdates
<1>2. CASE SubscribeDone
  <2>1. VentInv' /\ (ret = "events" => mCurrentFanSpeed' = mFanSpeed')
    BY <1>2, <1>t, ScreenHandlersSafe, VentInvKept DEF SubscribeDone, ventVars
  <2>2. ret = "passive" => passiveDue
    BY <1>2, <1>m DEF SubscribeDone, FirstPassUpdates
  <2> QED
    BY <1>2, <1>t, <2>1, <2>2
       DEF SubscribeDone, FanMirror, FirstPassUpdates, TypeOK, Booting
<1>3. CASE Passive
  <2>1. CASE passiveDue /\ PassiveUpdate
    <3>1. mCurrentFanSpeed' = mFanSpeed' /\ UNCHANGED <<mFanSpeed, fanReg, written>>
      BY <2>1 DEF PassiveUpdate, FetchValues, fanVars
    <3>2. VentInv'
      BY <1>t, <2>1, <3>1 DEF PassiveUpdate, VentInv, OneEdit, PressureEdited, FanSpeedEdited, FanWithinLimits,
         RegisterAgrees, ModeDurable, targetVars, settingsVars
    <3> QED
      BY <1>3, <3>1, <3>2 DEF Passive, FanMirror, FirstPassUpdates, Booting
  <2>2. CASE ~passiveDue /\ UNCHANGED ventVars
    BY <1>3, <1>t, <1>m, <2>2, VentInvKept
       DEF Passive, FanMirror, FirstPassUpdates, Booting, ventVars
  <2> QED
    BY <1>3, <2>1, <2>2 DEF Passive
<1>4. CASE KeepAliveDone \/ EventsDone
  <2>1. VentInv' /\ UNCHANGED <<mCurrentFanSpeed, mFanSpeed>>
    BY <1>4, <1>t, VentInvKept DEF KeepAliveDone, EventsDone, ventVars
  <2> QED
    BY <1>4, <1>m, <2>1
       DEF KeepAliveDone, EventsDone, FanMirror, FirstPassUpdates, Booting
<1>5. CASE Adjust
  <2>1. VentInv' /\ mCurrentFanSpeed' = mFanSpeed'
    BY <1>5, <1>t, <1>m, AdjustFanSafe DEF Adjust, FanMirror
  <2> QED
    BY <1>5, <2>1 DEF Adjust, FanMirror, FirstPassUpdates, Booting
<1>6. ASSUME NEW p \in Payloads, SettingsMessage(p)
      PROVE  VentInv' /\ FanMirror' /\ FirstPassUpdates'
  <2>1. VentInv' /\ mCurrentFanSpeed' = mFanSpeed'
    BY <1>6, <1>t, ParseType, UpdateSettingsSafe DEF SettingsMessage
  <2> QED
    BY <1>6, <1>m, <2>1 DEF SettingsMessage, FanMirror, FirstPassUpdates, Booting
<1>7. CASE clockwise \/ counter_clockwise \/ setTarget \/ toggleScreen
  <2>1. VentInv' /\ mCurrentFanSpeed' = mFanSpeed'
    BY <1>7, <1>t, ScreenHandlersSafe DEF clockwise, counter_clockwise, setTarget,
       toggleScreen, OnVentScreen, OnNetworkScreen
  <2>2. pc' = "events"
    BY <1>7 DEF clockwise, counter_clockwise, setTarget, toggleScreen,
       OnVentScreen, OnNetworkScreen
  <2> QED
    BY <2>1, <2>2 DEF FanMirror, FirstPassUpdates, Booting
<1>8. CASE toggleMode
  <2>1. CASE OnVentScreen(VentToggle) \/ OnNetworkScreen(ScreenNextLine)
    <3>1. VentInv' /\ mCurrentFanSpeed' = mFanSpeed'
      BY <2>1, <1>t, ScreenHandlersSafe DEF OnVentScreen, OnNetworkScreen
    <3> QED
      BY <2>1, <3>1 DEF OnVentScreen, OnNetworkScreen, FanMirror, FirstPassUpdates, Booting
  <2>2. CASE ~(OnVentScreen(VentToggle) \/ OnNetworkScreen(ScreenNextLine))
    <3>1. UNCHANGED <<mMode_auto, targetVars, fanVars, settingsVars>>
      BY <1>8, <2>2 DEF toggleMode
    <3>2. mCurrentFanSpeed' = mFanSpeed'
      BY <1>8, <1>m, <2>2 DEF toggleMode, FetchValues, fanVars, FanMirror
    <3>3. VentInv'
      BY <1>t, <3>1 DEF VentInv, OneEdit, PressureEdited, FanSpeedEdited, FanWithinLimits, RegisterAgrees, ModeDurable,
         targetVars, fanVars, settingsVars
    <3>4. ret' = "events" /\ pc' \in {"subscribe", "events"}
      BY <1>8, <2>2 DEF toggleMode, TryConnect
    <3> QED
      BY <3>2, <3>3, <3>4 DEF FanMirror, FirstPassUpdates, Booting
  <2> QED
    BY <2>1, <2>2
<1>9. CASE backspace
  <2>1. CASE OnVentScreen(VentBackspace) \/ OnNetworkScreen(ScreenErase)
               \/ OnNetworkScreen(ScreenBack)
    <3>1. VentInv' /\ mCurrentFanSpeed' = mFanSpeed'
      BY <2>1, <1>t, ScreenHandlersSafe DEF OnVentScreen, OnNetworkScreen
    <3> QED
      BY <2>1, <3>1 DEF OnVentScreen, OnNetworkScreen, FanMirror, FirstPassUpdates, Booting
  <2>2. CASE pc' = "halted" /\ UNCHANGED ventVars
    BY <2>2, <1>t, VentInvKept DEF ventVars, FanMirror, FirstPassUpdates, Booting
  <2> QED
    BY <1>9, <2>1, <2>2 DEF backspace
<1>10. CASE FanTimeout \/ PassiveTimeout
  <2>1. VentInv' /\ UNCHANGED <<mCurrentFanSpeed, mFanSpeed>>
    BY <1>10, <1>t, VentInvKept DEF FanTimeout, PassiveTimeout, ventVars
  <2> QED
    BY <1>10, <1>m, <2>1
       DEF FanTimeout, PassiveTimeout, FanMirror, FirstPassUpdates, Booting
<1>11. CASE PowerCycle
  BY <1>11, <1>t, VentBootSafe DEF PowerCycle, FanMirror, FirstPassUpdates, Booting
<1>12. CASE UNCHANGED vars
  BY <1>12, <1>t, <1>m, VentInvKept
     DEF vars, ventVars, targetVars, fanVars, settingsVars, FanMirror, FirstPassUpdates, Booting
<1> QED
  BY <1>1, <1>2, <1>3, <1>4, <1>5, <1>6, <1>7, <1>8, <1>9, <1>10, <1>11, <1>12
     DEF Next, Step, Environment

\* The invariant holds in every reachable state.
LEMMA Invariance == Spec => []ControllerInv
BY InitSafe, NextSafe, PTL DEF Spec

\* toggleMode and adjustFan always work with the driver's actual speed.
THEOREM MirrorExact == Spec => []FanMirror
<1>1. ControllerInv => FanMirror
  BY DEF ControllerInv
<1> QED
  BY <1>1, Invariance, PTL

\* At most one of the two inputs is being edited, so the display shows it.
THEOREM SingleEdit == Spec => []OneEdit
<1>1. ControllerInv => OneEdit
  BY DEF ControllerInv
<1> QED
  BY <1>1, Invariance, PTL

\* The fan's register never leaves the device's range, whatever setpoint the
\* broker sends and whichever Modbus writes are lost, and it holds what the
\* driver believes unless the driver's latest access to it was lost.
THEOREM FanAlwaysObeys == Spec => []FanObeys
<1>1. ControllerInv => FanObeys
  BY DEF ControllerInv, FanObeys
<1> QED
  BY <1>1, Invariance, PTL

\* A loss of power between two handlers never changes the mode.
THEOREM ModeSurvives == Spec => []ModeDurable
<1>1. ControllerInv => ModeDurable
  BY DEF ControllerInv
<1> QED
  BY <1>1, Invariance, PTL

----------------------------------------------------------------------------
(* What a step may never do *)

\* Steps of Next that change the mode without leaving pc = "events" are those
\* of toggleMode on the ventilation screen.
LEMMA ModeChangeIsToggle ==
  ASSUME Next, pc = "events", pc' = "events", mMode_auto' # mMode_auto
  PROVE  VentToggle
<1>1. CASE Step
  BY <1>1 DEF Step, ConnectSaved, ConnectDefault, SubscribeDone, Passive, KeepAliveDone,
     EventsDone, Adjust
<1>2. CASE Environment
  <2>1. ASSUME NEW p \in Payloads, SettingsMessage(p) PROVE FALSE
    BY <2>1 DEF SettingsMessage
  <2>2. CASE clockwise \/ counter_clockwise
    BY <2>2 DEF clockwise, counter_clockwise, OnVentScreen, OnNetworkScreen, VentTurn
  <2>3. CASE setTarget \/ toggleScreen
    BY <2>3 DEF setTarget, toggleScreen, OnVentScreen, OnNetworkScreen, VentSetTarget
  <2>4. CASE toggleMode
    BY <2>4 DEF toggleMode, OnVentScreen, OnNetworkScreen
  <2>5. CASE backspace
    BY <2>5 DEF backspace, OnVentScreen, OnNetworkScreen, VentBackspace
  <2>6. CASE FanTimeout \/ PassiveTimeout \/ PowerCycle
    BY <2>6 DEF FanTimeout, PassiveTimeout, PowerCycle, ventVars
  <2> QED
    BY <1>2, <2>1, <2>2, <2>3, <2>4, <2>5, <2>6 DEF Environment
<1> QED
  BY <1>1, <1>2 DEF Next

\* Switching the mode with the button never moves the fan.
THEOREM ToggleIsBumpless == Spec => BumplessToggle
<1>1. ASSUME ControllerInv, [Next]_vars PROVE [BumplessStep]_vars
  <2>1. CASE Next
    <3>1. SUFFICES ASSUME pc = "events", pc' = "events", mMode_auto' # mMode_auto
                   PROVE  mTargetFanSpeed' = mFanSpeed /\ mInputFanSpeed' = mFanSpeed
      BY DEF BumplessStep
    <3>2. VentToggle
      BY <2>1, <3>1, ModeChangeIsToggle
    <3>3. mCurrentFanSpeed = mFanSpeed
      BY <1>1, <3>1 DEF ControllerInv, FanMirror
    <3> QED
      BY <3>2, <3>3 DEF VentToggle
  <2>2. CASE UNCHANGED vars
    BY <2>2
  <2> QED
    BY <1>1, <2>1, <2>2
<1> QED
  BY <1>1, Invariance, PTL DEF Spec, BumplessToggle

\* The correction has the sign of the deviation.
LEMMA CorrectionSign ==
  ASSUME NEW d \in Int, NEW g \in Nat \ {0}
  PROVE  (d >= 0 => d * g >= 0) /\ (d <= 0 => d * g <= 0) /\ d * g \in Int
OBVIOUS

\* setFanSpeed's limits respect the order of its argument and a legal speed.
LEMMA ClampMonotone ==
  ASSUME NEW x \in Int, NEW s \in 0..FAN_MAX
  PROVE  (x >= s => ClampFan(x) >= s) /\ (x <= s => ClampFan(x) <= s)
BY VentAssumption DEF ClampFan

\* adjustFan in automatic mode follows the reading it has just taken.
LEMMA RegulateFollows ==
  ASSUME ControllerInv, Regulate, pc = "adjust", mTargetPressure \in 0..PRES_MAX
  PROVE  /\ Pascal(mPressure') >= mTargetPressure => mFanSpeed' <= mFanSpeed
         /\ Pascal(mPressure') <= mTargetPressure => mFanSpeed' >= mFanSpeed
<1>1. PICK raw \in RawPressures :
        /\ mPressure' = raw
        /\ \/ UNCHANGED fanVars
           \/ SetFanSpeed(mCurrentFanSpeed + Deviation(raw) * FAN_GAIN)
  BY DEF Regulate, ReadPressure
<1>2. Pascal(raw) \in Int
  BY CDivType, VentAssumption DEF Pascal, INT16
<1>3. mCurrentFanSpeed = mFanSpeed /\ mFanSpeed \in 0..FAN_MAX
  BY DEF ControllerInv, FanMirror, FanWithinLimits
<1>4. Deviation(raw) = mTargetPressure - Pascal(raw)
  <2>1. mTargetPressure - Pascal(raw) \in INT16
    BY VentAssumption DEF Pascal
  <2> QED
    BY <2>1, Int16Id DEF Deviation
<1>5. CASE UNCHANGED fanVars
  BY <1>3, <1>5, VentAssumption DEF fanVars
<1>6. CASE SetFanSpeed(mCurrentFanSpeed + Deviation(raw) * FAN_GAIN)
  <2> DEFINE d == mTargetPressure - Pascal(raw)
             x == mFanSpeed + d * FAN_GAIN
  <2>1. d \in Int /\ FAN_GAIN \in Nat \ {0}
    BY <1>2, VentAssumption
  <2>2. (d >= 0 => d * FAN_GAIN >= 0) /\ (d <= 0 => d * FAN_GAIN <= 0) /\ d * FAN_GAIN \in Int
    BY <2>1, CorrectionSign
  <2>3. mFanSpeed' = ClampFan(x)
    BY <1>3, <1>4, <1>6 DEF SetFanSpeed
  <2>4. x \in Int /\ (d >= 0 => x >= mFanSpeed) /\ (d <= 0 => x <= mFanSpeed)
    <3> HIDE DEF d
    <3> QED
      BY <1>3, <2>1, <2>2, VentAssumption
  <2>5. (d >= 0 => mFanSpeed' >= mFanSpeed) /\ (d <= 0 => mFanSpeed' <= mFanSpeed)
    <3> HIDE DEF d, x
    <3> QED
      BY <1>3, <2>3, <2>4, ClampMonotone
  <2> QED
    BY <1>1, <1>2, <2>5
<1> QED
  BY <1>1, <1>5, <1>6

\* The fan never moves against the pressure just read, nor before its time.
THEOREM FanFollowsPressure == Spec => FollowsPressure
<1>1. ASSUME ControllerInv, [Next]_vars PROVE [FollowsStep]_vars
  <2>1. CASE Next
    <3>1. SUFFICES ASSUME Regulating
                   PROVE  /\ Pascal(mPressure') >= mTargetPressure => mFanSpeed' <= mFanSpeed
                          /\ Pascal(mPressure') <= mTargetPressure => mFanSpeed' >= mFanSpeed
                          /\ ~fanDue => mFanSpeed' = mFanSpeed
      BY DEF FollowsStep
    <3>2. AdjustFan
      <4>1. CASE Step
        BY <3>1, <4>1 DEF Regulating, Step, ConnectSaved, ConnectDefault, SubscribeDone,
           Passive, KeepAliveDone, EventsDone, Adjust
      <4>2. CASE Environment
        BY <3>1, <4>2 DEF Regulating, Environment, SettingsMessage, clockwise,
           counter_clockwise, setTarget, toggleMode, backspace, toggleScreen, OnVentScreen,
           OnNetworkScreen, FanTimeout, PassiveTimeout, PowerCycle
      <4> QED
        BY <2>1, <4>1, <4>2 DEF Next
    <3>3. mTargetPressure \in 0..PRES_MAX /\ mFanSpeed \in 0..FAN_MAX
      BY <1>1, <3>1, VentAssumption, HalfAssumption DEF Regulating, ControllerInv, TypeOK,
         VentTypeOK, INT16, FanWithinLimits
    <3>4. Regulate \/ (~fanDue /\ KeepFan)
      BY <3>1, <3>2, <3>3, VentAssumption DEF AdjustFan, Regulating
    <3>5. CASE Regulate
      BY <1>1, <3>1, <3>3, <3>5, RegulateFollows DEF Regulating, Regulate
    <3>6. CASE ~fanDue /\ KeepFan
      BY <3>3, <3>6, VentAssumption DEF KeepFan, fanVars
    <3> QED
      BY <3>4, <3>5, <3>6
  <2>2. CASE UNCHANGED vars
    BY <2>2
  <2> QED
    BY <1>1, <2>1, <2>2
<1> QED
  BY <1>1, Invariance, PTL DEF Spec, FollowsPressure

\* A settings message is answered by a status that tells the state it led to.
THEOREM SettingsGetAnswer == Spec => SettingsAnswered
<1>1. ASSUME ControllerInv, [Next]_vars PROVE [AnswerStep]_vars
  <2>1. CASE Next
    <3>1. SUFFICES ASSUME SettingsChanged PROVE status' = CurrentStatus'
      BY DEF AnswerStep
    <3>2. PICK p \in Payloads : SettingsMessage(p)
      <4>1. CASE Step
        BY <1>1, <3>1, <4>1 DEF SettingsChanged, Step, ConnectSaved, ConnectDefault, SubscribeDone,
           Passive, KeepAliveDone, EventsDone, Adjust, TypeOK, ControllerInv
      <4>2. CASE Environment
        BY <3>1, <4>2 DEF SettingsChanged, Environment, clockwise,
           counter_clockwise, setTarget, toggleMode, backspace, toggleScreen, OnVentScreen,
           OnNetworkScreen, FanTimeout, PassiveTimeout, PowerCycle, ventVars
      <4> QED
        BY <2>1, <4>1, <4>2 DEF Next
    <3>3. PICK sm \in ParsePayload(p) : UpdateSettings(sm.auto, sm.setpoint)
      BY <3>2 DEF SettingsMessage
    <3>4. mMQTTEnabled /\ mMode_auto' = sm.auto /\ mCurrentFanSpeed' = mFanSpeed'
      BY <3>2, <3>3 DEF SettingsMessage, UpdateSettings, ApplySettings, FetchValues
    <3> QED
      BY <3>3, <3>4 DEF UpdateSettings, Publish, Send, StatusMessage, CurrentStatus
  <2>2. CASE UNCHANGED vars
    BY <2>2
  <2> QED
    BY <1>1, <2>1, <2>2
<1> QED
  BY <1>1, Invariance, PTL DEF Spec, SettingsAnswered

\* No handler leaves a changed target out of the EEPROM.
THEOREM TargetsAreSaved == Spec => TargetsSaved
<1>1. ASSUME [Next]_vars PROVE [TargetsSavedStep]_vars
  <2> USE DEF TargetsSavedStep
  <2>1. CASE Step
    BY <2>1 DEF Step, ConnectSaved, ConnectDefault, SubscribeDone, Passive, PassiveUpdate,
       KeepAliveDone, EventsDone, Adjust, AdjustFan, ventVars, ventOnly, targetVars
  <2>2. ASSUME NEW p \in Payloads, SettingsMessage(p) PROVE TargetsSavedStep
    BY <2>2 DEF SettingsMessage, UpdateSettings, SaveSettings
  <2>3. CASE clockwise \/ counter_clockwise
    BY <2>3 DEF clockwise, counter_clockwise, OnVentScreen, OnNetworkScreen, VentTurn, targetVars
  <2>4. CASE setTarget
    BY <2>4 DEF setTarget, OnVentScreen, OnNetworkScreen, VentSetTarget, targetVars
  <2>5. CASE toggleMode
    BY <2>5 DEF toggleMode, OnVentScreen, OnNetworkScreen, VentToggle, targetVars
  <2>6. CASE backspace \/ toggleScreen
    BY <2>6 DEF backspace, toggleScreen, OnVentScreen, OnNetworkScreen, VentBackspace,
       targetVars, ventVars
  <2>7. CASE FanTimeout \/ PassiveTimeout \/ PowerCycle
    BY <2>7 DEF FanTimeout, PassiveTimeout, PowerCycle, targetVars, ventVars
  <2>8. CASE UNCHANGED vars
    BY <2>8
  <2> QED
    BY <1>1, <2>1, <2>2, <2>3, <2>4, <2>5, <2>6, <2>7, <2>8 DEF Next, Environment
<1> QED
  BY <1>1, PTL DEF Spec, TargetsSaved

-----------------------------------------------------------------------------
(***************************************************************************)
(* What the user sets: the values a box without a network can be brought   *)
(* to, the password on the network screen and the wheel of characters.     *)
(* LocalInv and NoHiddenPassword are inductive beside ControllerInv.       *)
(***************************************************************************)
\* Without a network the four values stay in the ranges of the knob: the mode
\* button copies mCurrentFanSpeed into the target, so it is in range as well,
\* and no message arrives.
LocalInv ==
  /\ LocalValuesLegal
  /\ mCurrentFanSpeed \in 0..FAN_MAX
  /\ LinkOutcomes = {FALSE} => mMQTTEnabled = FALSE

\* The handlers of the ventilation screen keep the four values in range.
LEMMA HandlersLegal ==
  ASSUME TypeOK, LocalInv, FanWithinLimits, HandlerEnd,
         VentToggle \/ VentSetTarget \/ VentBackspace \/ VentTurn(1) \/ VentTurn(-1)
           \/ UNCHANGED <<mMode_auto, targetVars, settingsVars>>
  PROVE  LocalInv'
<1>1. mCurrentFanSpeed' \in 0..FAN_MAX /\ UNCHANGED mMQTTEnabled
  BY DEF HandlerEnd, FetchValues, fanVars, FanWithinLimits
<1>2. \A x \in Int, max \in Nat : Bounded(x, max) \in 0..max
  BY DEF Bounded
<1>3. LocalValuesLegal'
  <2> SUFFICES ASSUME LinkOutcomes = {FALSE} PROVE LocalValuesLegal'
    BY DEF LocalValuesLegal
  <2> USE DEF LocalInv, LocalValuesLegal
  <2>1. CASE VentToggle
    BY <2>1 DEF VentToggle
  <2>2. CASE VentSetTarget
    BY <2>2 DEF VentSetTarget
  <2>3. CASE VentBackspace
    BY <2>3 DEF VentBackspace
  <2>4. ASSUME NEW dir \in {1, -1}, VentTurn(dir) PROVE LocalValuesLegal'
    <3>1. mInputPressure + dir \in Int /\ mInputFanSpeed + dir * FAN_STEP \in Int
      BY VentAssumption
    <3> QED
      BY <1>2, <2>4, <3>1, VentAssumption DEF VentTurn
  <2>5. CASE UNCHANGED <<mMode_auto, targetVars, settingsVars>>
    BY <2>5 DEF targetVars
  <2> QED
    BY <2>1, <2>2, <2>3, <2>4, <2>5
<1> QED
  BY <1>1, <1>3 DEF LocalInv

\* Steps that leave the four values and the flag alone.
LEMMA LocalKept ==
  ASSUME LocalInv, UNCHANGED targetVars, mCurrentFanSpeed' \in 0..FAN_MAX,
         LinkOutcomes = {FALSE} => mMQTTEnabled' = FALSE
  PROVE  LocalInv'
BY DEF LocalInv, LocalValuesLegal, targetVars

\* The constructors check what they found in memory.
LEMMA BootLegal ==
  /\ \A f \in Uninit : InRangeOrZero(f, FAN_MAX) \in 0..FAN_MAX
  /\ \A p \in Uninit : InRangeOrZero(Int16(p), PRES_MAX) \in 0..PRES_MAX
<1>1. \A f \in Uninit : f \in Int
  BY VentAssumption, HalfAssumption DEF UINT16, WORD
<1>2. \A p \in Uninit : Int16(p) \in Int
  BY Int16Type, VentAssumption, HalfAssumption DEF UINT16, INT16, WORD
<1> QED
  BY <1>1, <1>2, InRangeType, VentAssumption

\* A box that has just been switched on.
LEMMA InitLocal == ASSUME Init PROVE LocalInv
<1>1. mTargetFanSpeed \in 0..FAN_MAX /\ mInputFanSpeed = mTargetFanSpeed
  BY BootLegal DEF Init
<1>2. mTargetPressure \in 0..PRES_MAX /\ mInputPressure = mTargetPressure
  BY BootLegal DEF Init
<1>3. mCurrentFanSpeed \in 0..FAN_MAX /\ mMQTTEnabled = FALSE
  BY VentAssumption DEF Init
<1> QED
  BY <1>1, <1>2, <1>3 DEF LocalInv, LocalValuesLegal

\* Connecting never enables the client of a box without a network.
LEMMA NoLink ==
  ASSUME NEW net, NEW back, NEW failed, TryConnect(net, back, failed),
         LinkOutcomes = {FALSE}
  PROVE  mMQTTEnabled' = FALSE
BY DEF TryConnect

\* One case per action.
LEMMA NextLocal ==
  ASSUME ControllerInv, ControllerInv', LocalInv, [Next]_vars PROVE LocalInv'
<1>t. TypeOK /\ FanWithinLimits /\ FanWithinLimits' /\ FanMirror /\ FanMirror'
  BY DEF ControllerInv
<1>1. CASE ConnectSaved \/ ConnectDefault
  BY <1>1, NoLink, LocalKept
     DEF ConnectSaved, ConnectDefault, ventOnly, LocalInv
<1>2. CASE SubscribeDone
  <2>1. CASE ret = "events"
    BY <1>2, <1>t, <2>1, HandlersLegal DEF SubscribeDone
  <2>2. CASE ret # "events"
    BY <1>2, <2>2, LocalKept DEF SubscribeDone, ventVars, LocalInv
  <2> QED
    BY <2>1, <2>2
<1>3. CASE Passive
  <2>1. CASE passiveDue /\ PassiveUpdate
    <3>1. mCurrentFanSpeed' \in 0..FAN_MAX
      BY <1>t, <2>1 DEF PassiveUpdate, FetchValues, FanWithinLimits
    <3> QED
      BY <2>1, <3>1, LocalKept DEF PassiveUpdate, LocalInv
  <2>2. CASE UNCHANGED ventVars
    BY <2>2, LocalKept DEF ventVars, LocalInv
  <2> QED
    BY <1>3, <2>1, <2>2 DEF Passive
<1>4. CASE KeepAliveDone \/ EventsDone
  BY <1>4, LocalKept DEF KeepAliveDone, EventsDone, ventVars, LocalInv
<1>5. CASE Adjust
  <2>1. mCurrentFanSpeed = mFanSpeed
    BY <1>5, <1>t DEF Adjust, FanMirror
  <2>2. mCurrentFanSpeed' = mFanSpeed'
    BY <1>5, <2>1 DEF Adjust, AdjustFan, Regulate, StopFan, DriveFan, KeepFan, FetchValues,
       fanVars
  <2> QED
    BY <1>5, <1>t, <2>2, LocalKept DEF Adjust, AdjustFan, LocalInv, FanWithinLimits
<1>6. ASSUME NEW p \in Payloads, SettingsMessage(p) PROVE LocalInv'
  <2>1. mMQTTEnabled /\ UNCHANGED mMQTTEnabled /\ mCurrentFanSpeed' = mFanSpeed'
    BY <1>6 DEF SettingsMessage, UpdateSettings, FetchValues
  <2> QED
    BY <1>t, <2>1 DEF LocalInv, LocalValuesLegal, FanWithinLimits
<1>7. CASE clockwise \/ counter_clockwise \/ setTarget \/ toggleScreen
  BY <1>7, <1>t, HandlersLegal DEF clockwise, counter_clockwise, setTarget,
     toggleScreen, OnVentScreen, OnNetworkScreen
<1>8. CASE toggleMode
  <2>1. CASE OnVentScreen(VentToggle) \/ OnNetworkScreen(ScreenNextLine)
    BY <2>1, <1>t, HandlersLegal DEF OnVentScreen, OnNetworkScreen
  <2>2. CASE ~(OnVentScreen(VentToggle) \/ OnNetworkScreen(ScreenNextLine))
    <3>1. UNCHANGED targetVars
          /\ TryConnect([text EXCEPT !["brokerIP"] = BROKER_IP_LEN], "events", "events")
      BY <1>8, <2>2 DEF toggleMode
    <3>2. mCurrentFanSpeed' \in 0..FAN_MAX
      BY <1>8, <1>t, <2>2 DEF toggleMode, FetchValues, LocalInv, FanWithinLimits
    <3> QED
      BY <3>1, <3>2, NoLink, LocalKept
  <2> QED
    BY <2>1, <2>2
<1>9. CASE backspace
  <2>1. CASE OnVentScreen(VentBackspace) \/ OnNetworkScreen(ScreenErase)
               \/ OnNetworkScreen(ScreenBack)
    BY <2>1, <1>t, HandlersLegal DEF OnVentScreen, OnNetworkScreen
  <2>2. CASE UNCHANGED ventVars
    BY <2>2, LocalKept DEF ventVars, LocalInv
  <2> QED
    BY <1>9, <2>1, <2>2 DEF backspace
<1>10. CASE FanTimeout \/ PassiveTimeout
  BY <1>10, LocalKept DEF FanTimeout, PassiveTimeout, ventVars, LocalInv
<1>11. CASE PowerCycle
  <2>1. mTargetFanSpeed' \in 0..FAN_MAX /\ mInputFanSpeed' = mTargetFanSpeed'
    BY <1>11, BootLegal DEF PowerCycle, VentBoot
  <2>2. mTargetPressure' \in 0..PRES_MAX /\ mInputPressure' = mTargetPressure'
    BY <1>11, BootLegal DEF PowerCycle, VentBoot
  <2>3. mCurrentFanSpeed' \in 0..FAN_MAX /\ mMQTTEnabled' = FALSE
    BY <1>11, VentAssumption DEF PowerCycle, VentBoot
  <2> QED
    BY <2>1, <2>2, <2>3 DEF LocalInv, LocalValuesLegal
<1>12. CASE UNCHANGED vars
  BY <1>12, LocalKept DEF vars, ventVars, LocalInv
<1> QED
  BY <1>1, <1>2, <1>3, <1>4, <1>5, <1>6, <1>7, <1>8, <1>9, <1>10, <1>11, <1>12
     DEF Next, Step, Environment

\* A box without a network cannot be brought out of the ranges the knob has,
\* by any sequence of buttons, restarts and lost Modbus writes.
THEOREM LocalValuesStayLegal == Spec => []LocalValuesLegal
<1>1. LocalInv => LocalValuesLegal
  BY DEF LocalInv
<1>2. Init => LocalInv
  BY InitLocal
<1>3. ControllerInv /\ ControllerInv' /\ LocalInv /\ [Next]_vars => LocalInv'
  BY NextLocal
<1> QED
  BY <1>1, <1>2, <1>3, Invariance, PTL DEF Spec

----------------------------------------------------------------------------
\* The handlers of the network screen: the line of the name is entered only
\* with an empty password.
LEMMA ScreenHidesNothing ==
  ASSUME ScreenTypeOK, NoHiddenPassword,
         \/ ScreenToggle \/ ScreenNextLine \/ ScreenSubmit \/ ScreenType
         \/ ScreenErase \/ ScreenBack \/ ScreenTurn(1) \/ ScreenTurn(-1)
         \/ ScreenBoot \/ UNCHANGED screenVars
  PROVE  NoHiddenPassword'
<1> USE DEF NoHiddenPassword, ScreenTypeOK, Stages
<1>1. CASE ScreenToggle \/ ScreenBoot
  BY <1>1 DEF ScreenToggle, ScreenBoot, NoText
<1>2. CASE ScreenNextLine \/ ScreenSubmit
  BY <1>2 DEF ScreenNextLine, ScreenSubmit
<1>3. CASE ScreenType \/ ScreenErase
  BY <1>3 DEF ScreenType, ScreenErase
<1>4. CASE ScreenBack
  BY <1>4, ScreenAssumption DEF ScreenBack, Erasable
<1>5. CASE ScreenTurn(1) \/ ScreenTurn(-1)
  BY <1>5 DEF ScreenTurn
<1>6. CASE UNCHANGED screenVars
  BY <1>6 DEF screenVars
<1> QED
  BY <1>1, <1>2, <1>3, <1>4, <1>5, <1>6

\* Every step of the box is one of those handlers, or leaves the screen alone.
LEMMA NextHidesNothing ==
  ASSUME TypeOK, NoHiddenPassword, [Next]_vars PROVE NoHiddenPassword'
<1>t. ScreenTypeOK
  BY DEF TypeOK
<1>1. CASE Step \/ UNCHANGED vars
  BY <1>1, <1>t, ScreenHidesNothing
     DEF vars, Step, ConnectSaved, ConnectDefault, SubscribeDone, Passive,
         KeepAliveDone, EventsDone, Adjust
<1>2. ASSUME NEW p \in Payloads, SettingsMessage(p) PROVE NoHiddenPassword'
  BY <1>2, <1>t, ScreenHidesNothing DEF SettingsMessage
<1>3. CASE clockwise \/ counter_clockwise \/ setTarget \/ toggleScreen
  BY <1>3, <1>t, ScreenHidesNothing
     DEF clockwise, counter_clockwise, setTarget, toggleScreen, OnVentScreen,
         OnNetworkScreen
<1>4. CASE toggleMode \/ backspace
  BY <1>4, <1>t, ScreenHidesNothing
     DEF toggleMode, backspace, OnVentScreen, OnNetworkScreen
<1>5. CASE FanTimeout \/ PassiveTimeout \/ PowerCycle
  BY <1>5, <1>t, ScreenHidesNothing
     DEF FanTimeout, PassiveTimeout, PowerCycle
<1> QED
  BY <1>1, <1>2, <1>3, <1>4, <1>5 DEF Next, Environment

\* Whatever is typed, erased, left and opened again, and wherever the box is
\* restarted: no password is kept that the screen does not show.
THEOREM PasswordNeverHidden == Spec => []NoHiddenPassword
<1>1. Init => NoHiddenPassword
  BY DEF Init, ScreenInit, NoText, Stages, NoHiddenPassword
<1>2. TypeOK /\ NoHiddenPassword /\ [Next]_vars => NoHiddenPassword'
  BY NextHidesNothing
<1> QED
  BY <1>1, <1>2, TypeCorrect, PTL DEF Spec

\* Both directions of the knob take each other back on the wheel's 94
\* characters, at the six places where it jumps too.
THEOREM WheelIsReversible == WheelReversible
BY DEF WheelReversible, CharAfter, CharBefore

==============================================================================
