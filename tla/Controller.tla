----------------------------- MODULE Controller -----------------------------
(***************************************************************************)
(* The firmware's main(): start-up, the endless loop and the order in      *)
(* which it calls the handlers of VentControl and NetworkScreen, the MQTT  *)
(* callback that runs inside two of those calls, and loss of power.        *)
(*                                                                         *)
(* pc is the place in main().  The loop is                                 *)
(*    passive -> keepAlive -> events -> adjust -> passive                  *)
(* and connecting (at boot or from the network screen) goes through        *)
(* "subscribe", where the client waits for the SUBACK and may already      *)
(* deliver settings messages.                                              *)
(***************************************************************************)
EXTENDS VentControl, NetworkScreen

CONSTANTS
  Payloads,     \* the settings payloads the broker may send
  DEFAULT_NET,  \* lengths of the default network name, password and address
  BROKER_IP_LEN,\* length of the address the network screen connects to
  LinkOutcomes  \* the outcomes of MQTTHandler::connect: TRUE is success

VARIABLES
  pc,           \* where main() is
  ret,          \* where ConnectMQTT returns to
  passiveDue,   \* time_reached(passiveUpdateInterval)
  eNet,         \* EEPROM network registers, as lengths
  mNet          \* MQTTHandler::mNetworkID, mNetworkPW, mBrokerIP, as lengths

vars == <<ventVars, screenVars, pc, ret, passiveDue, eNet, mNet>>

\* A payload: whether it has the blanks the parser looks for, the word in the
\* place of the mode, and the setpoint (0 also for what is not a number: a
\* failed extraction stores 0).
PayloadType == [spaced : BOOLEAN, auto : {"true", "false", "junk"}, setpoint : Int]

Loop == {"passive", "keepAlive", "events", "adjust"}
Booting == {"bootSaved", "bootDefault"}
Nets == [Stages -> Nat]

ASSUME NetAssumption ==
  /\ DEFAULT_NET \in Nets /\ BROKER_IP_LEN \in Nat
  /\ \A p \in Payloads : p \in PayloadType
  /\ LinkOutcomes \subseteq BOOLEAN /\ LinkOutcomes # {}

----------------------------------------------------------------------------
(* The MQTT callback *)

\* Class SettingsMessage.
Settings(auto, setpoint) == [auto |-> auto, setpoint |-> setpoint]

\* messageHandler's stream extractions.  Without a blank the first ignore()
\* runs to the end, which leaves the initial mode and setpoint.  The copied
\* payload is not terminated, so bytes left by an earlier call may follow it:
\* they may end the stream with a word that is no boolean, or supply the mode
\* and the setpoint of an earlier message.  A word that is no boolean stores
\* false and fails the stream.
ParsePayload(p) ==
  CASE ~p.spaced -> {Settings(m, 0) : m \in BOOLEAN} \union
                    {Settings(q.auto = "true", q.setpoint) :
                       q \in {r \in Payloads : r.spaced /\ r.auto # "junk"}}
    [] p.spaced /\ p.auto = "junk" -> {Settings(FALSE, 0)}
    [] OTHER -> {Settings(p.auto = "true", p.setpoint)}

\* messageHandler, MQTTHandler::notifyObservers and State::update(sm), called
\* from Client::yield in keepAlive and from Client::subscribe in connect.
SettingsMessage(p) ==
  /\ pc \in {"keepAlive", "subscribe"}
  /\ mMQTTEnabled
  /\ \E sm \in ParsePayload(p) : UpdateSettings(sm.auto, sm.setpoint)
  /\ UNCHANGED <<screenVars, pc, ret, passiveDue, eNet, mNet>>

----------------------------------------------------------------------------
(* Connecting *)

\* MQTTHandler::connect up to the subscription; ConnectMQTT is told to return
\* to back on success and goes to failed otherwise.
TryConnect(net, back, failed) ==
  /\ mNet' = net
  /\ \E ok \in LinkOutcomes :
       /\ mMQTTEnabled' = ok
       /\ pc' = IF ok THEN "subscribe" ELSE failed
       /\ ret' = back
  /\ UNCHANGED <<passiveDue, eNet>>

ventOnly == <<mMode_auto, targetVars, mCurrentFanSpeed, fanDue, fanVars, mPressure,
              settingsVars, status>>

ConnectSaved ==
  /\ pc = "bootSaved"
  /\ TryConnect(eNet, "passive", "bootDefault")
  /\ UNCHANGED <<ventOnly, screenVars>>

ConnectDefault ==
  /\ pc = "bootDefault"
  /\ TryConnect(DEFAULT_NET, "passive", "passive")
  /\ UNCHANGED <<ventOnly, screenVars>>

\* The rest of ConnectMQTT.  Its strings were moved into connect(), so what it
\* saves is empty.  From the network screen toggleMode still calls update.
SubscribeDone ==
  /\ pc = "subscribe"
  /\ pc' = ret
  /\ eNet' = NoText
  /\ \/ /\ ret = "events"
        /\ HandlerEnd
        /\ UNCHANGED <<mMode_auto, targetVars, settingsVars>>
     \/ /\ ret # "events"
        /\ UNCHANGED ventVars
  /\ UNCHANGED <<screenVars, ret, passiveDue, mNet>>

----------------------------------------------------------------------------
(* The loop *)

PassiveNeverDue ==
  /\ pc = "passive"
  /\ pc' = "keepAlive"
  /\ UNCHANGED <<ventVars, passiveDue, screenVars, ret, eNet, mNet>>
Passive ==
  /\ pc = "passive"
  /\ pc' = "keepAlive"
  /\ \/ passiveDue /\ PassiveUpdate /\ passiveDue' = FALSE
     \/ ~passiveDue /\ UNCHANGED <<ventVars, passiveDue>>
  /\ UNCHANGED <<screenVars, ret, eNet, mNet>>

KeepAliveDone ==
  /\ pc = "keepAlive"
  /\ pc' = "events"
  /\ UNCHANGED <<ventVars, screenVars, ret, passiveDue, eNet, mNet>>

\* A button handler that touches only one of the two screens.
OnVentScreen(handler) ==
  /\ pc = "events" /\ ~mStatusScreen
  /\ handler
  /\ HandlerEnd
  /\ UNCHANGED <<screenVars, pc, ret, passiveDue, eNet, mNet>>

OnNetworkScreen(handler) ==
  /\ pc = "events" /\ mStatusScreen
  /\ handler
  /\ HandlerEnd
  /\ UNCHANGED <<mMode_auto, targetVars, settingsVars, pc, ret, passiveDue, eNet, mNet>>

clockwise == OnVentScreen(VentTurn(1)) \/ OnNetworkScreen(ScreenTurn(1))

counter_clockwise == OnVentScreen(VentTurn(-1)) \/ OnNetworkScreen(ScreenTurn(-1))

setTarget == OnVentScreen(VentSetTarget) \/ OnNetworkScreen(ScreenType)

toggleMode ==
  \/ OnVentScreen(VentToggle)
  \/ OnNetworkScreen(ScreenNextLine)
  \/ /\ pc = "events" /\ mStatusScreen
     /\ ScreenSubmit
     /\ TryConnect([text EXCEPT !["brokerIP"] = BROKER_IP_LEN], "events", "events")
     /\ UNCHANGED <<fanVars, mPressure>>
     /\ \/ mMQTTEnabled' /\ UNCHANGED mCurrentFanSpeed
        \/ ~mMQTTEnabled' /\ FetchValues
     /\ UNCHANGED <<mMode_auto, targetVars, fanDue, settingsVars, status>>

backspace ==
  \/ OnVentScreen(VentBackspace)
  \/ OnNetworkScreen(ScreenErase)
  \/ OnNetworkScreen(ScreenBack)
  \/ /\ pc = "events" /\ mStatusScreen
     /\ PopsEmptyString
     /\ pc' = "halted"
     /\ UNCHANGED <<ventVars, screenVars, ret, passiveDue, eNet, mNet>>

toggleScreen ==
  /\ pc = "events"
  /\ ScreenToggle
  /\ HandlerEnd
  /\ UNCHANGED <<mMode_auto, targetVars, settingsVars, pc, ret, passiveDue, eNet, mNet>>

EventsDone ==
  /\ pc = "events"
  /\ pc' = "adjust"
  /\ UNCHANGED <<ventVars, screenVars, ret, passiveDue, eNet, mNet>>

Adjust ==
  /\ pc = "adjust"
  /\ pc' = "passive"
  /\ AdjustFan
  /\ UNCHANGED <<screenVars, ret, passiveDue, eNet, mNet>>

----------------------------------------------------------------------------
(* Time and power *)

\* Five seconds after the last adjustment, a second after the last update.
FanTimeout ==
  /\ ~fanDue
  /\ fanDue' = TRUE
  /\ UNCHANGED <<mMode_auto, targetVars, mCurrentFanSpeed, fanVars, mPressure, settingsVars,
                 mMQTTEnabled, status, screenVars, pc, ret, passiveDue, eNet, mNet>>

PassiveTimeout ==
  /\ ~passiveDue
  /\ passiveDue' = TRUE
  /\ UNCHANGED <<ventVars, screenVars, pc, ret, eNet, mNet>>

\* Power is lost and comes back, or the box is reset: RAM is built anew from
\* the EEPROM and from the fan's register.
PowerCycle ==
  /\ VentBoot(fanReg)
  /\ ScreenBoot
  /\ pc' = "bootSaved" /\ ret' = "passive" /\ passiveDue' = TRUE
  /\ mNet' = NoText
  /\ UNCHANGED eNet

\* A box switched on for the first time by this firmware, with a fan at any
\* legal speed and an EEPROM that is blank or was written before.
Init ==
  /\ fanReg \in 0..FAN_MAX
  /\ mFanSpeed = fanReg /\ written = TRUE
  /\ eMode \in {"0", "1", Blank} /\ eTarPres = 0 /\ eTarFan = 0
  /\ mMode_auto = ParseMode(eMode)
  /\ \E f \in Uninit : mTargetFanSpeed = InRangeOrZero(f, FAN_MAX)
  /\ \E p \in Uninit : mTargetPressure = InRangeOrZero(Int16(p), PRES_MAX)
  /\ mInputFanSpeed = mTargetFanSpeed
  /\ mInputPressure = mTargetPressure
  /\ mCurrentFanSpeed = 0 /\ mPressure = 0
  /\ fanDue = TRUE /\ passiveDue = TRUE
  /\ mMQTTEnabled = FALSE /\ status = NoStatus
  /\ ScreenInit
  /\ pc = "bootSaved" /\ ret = "passive"
  /\ eNet \in {NoText, DEFAULT_NET}
  /\ mNet = NoText

Step ==
  \/ ConnectSaved \/ ConnectDefault \/ SubscribeDone
  \/ Passive \/ KeepAliveDone \/ EventsDone \/ Adjust

Environment ==
  \/ \E p \in Payloads : SettingsMessage(p)
  \/ clockwise \/ counter_clockwise \/ setTarget
  \/ toggleMode \/ backspace \/ toggleScreen
  \/ FanTimeout \/ PassiveTimeout
  \/ PowerCycle

Next == Step \/ Environment

Spec == Init /\ [][Next]_vars

\* The processor keeps executing, every call the loop makes returns, and the
\* timers run.
Fairness == WF_vars(Step) /\ WF_vars(FanTimeout) /\ WF_vars(PassiveTimeout)

FairSpec == Spec /\ Fairness

----------------------------------------------------------------------------
(* Correctness *)

\* Every variable keeps to the range of its C++ type, the strings to the
\* lengths a user can type and pc to the places of main().
TypeOK ==
  /\ VentTypeOK /\ ScreenTypeOK
  /\ pc \in Loop \union Booting \union {"subscribe", "halted"}
  /\ ret \in {"passive", "events"}
  /\ passiveDue \in BOOLEAN
  /\ eNet \in Nets /\ mNet \in Nets

\* State acts on mCurrentFanSpeed (toggleMode takes it as the manual target,
\* adjustFan adds the correction to it), a copy of the driver's mFanSpeed that
\* only update() refreshes.  Wherever a handler may use the copy it is exact,
\* also when a settings message was handled while connecting at start-up.
FanMirror ==
  \/ pc \in {"keepAlive", "events", "adjust"}
  \/ pc = "subscribe" /\ ret = "events"
  \/ pc = "passive" /\ ~passiveDue
  => mCurrentFanSpeed = mFanSpeed

\* The loop's first pass after start-up runs the once-a-second update, which
\* makes mCurrentFanSpeed exact, before any handler reads it: however long
\* connecting takes, and whatever arrives meanwhile, its timer stays due.
FirstPassUpdates ==
  pc \in Booting \/ (pc = "subscribe" /\ ret = "passive") => passiveDue

\* OLED_VentStatus highlights the pressure edit or else the fan edit, and draws
\* an edited line in the background's colour: were both inputs edited at once
\* the fan line would vanish.  Only the current mode's input ever differs from
\* its target, through every toggle, knob turn, remote message and restart.
OneEdit ==
  /\ mMode_auto => ~FanSpeedEdited
  /\ ~mMode_auto => ~PressureEdited

\* The fan's register and the driver's belief about it stay between stop and
\* full speed.
FanWithinLimits == fanReg \in 0..FAN_MAX /\ mFanSpeed \in 0..FAN_MAX

\* The register holds what the driver believes whenever the driver's latest
\* access to it succeeded.
RegisterAgrees == written => fanReg = mFanSpeed

\* Whatever the broker asks for, whatever wraps on the way and whichever
\* Modbus writes are lost, the fan stays between stop and full speed; and only
\* a lost second write, or a start-up whose reading of the register fails,
\* leaves it at another speed than the driver's, that of the kick included: the
\* next write or start-up reading that gets through puts it right.
FanObeys == FanWithinLimits /\ RegisterAgrees

\* A box that never gets a network keeps all four set values in the ranges the
\* knob allows, although the constructor starts from uninitialised members.
LocalValuesLegal ==
  LinkOutcomes = {FALSE} =>
    /\ mTargetFanSpeed \in 0..FAN_MAX /\ mInputFanSpeed \in 0..FAN_MAX
    /\ mTargetPressure \in 0..PRES_MAX /\ mInputPressure \in 0..PRES_MAX

\* The mode survives a loss of power at any moment between two handlers: the
\* EEPROM always holds the mode in force.
ModeDurable == mMode_auto = ParseMode(eMode)

\* The inductive invariant behind the theorems of ControllerProofs.
ControllerInv ==
  /\ TypeOK /\ FanMirror /\ FirstPassUpdates
  /\ OneEdit /\ FanWithinLimits /\ RegisterAgrees /\ ModeDurable

TargetsSavedStep ==
  pc' # "bootSaved" =>
    /\ mTargetPressure' # mTargetPressure => eTarPres' = mTargetPressure'
    /\ mTargetFanSpeed' # mTargetFanSpeed => eTarFan' = mTargetFanSpeed'

\* Every change of a target, from the knob or from the broker, is in the
\* EEPROM when the handler that made it ends; only start-up may differ.
TargetsSaved == [][TargetsSavedStep]_vars

BumplessStep ==
  pc = "events" /\ pc' = "events" /\ mMode_auto' # mMode_auto
    => mTargetFanSpeed' = mFanSpeed /\ mInputFanSpeed' = mFanSpeed

\* Switching the mode with the button is bumpless: the manual target becomes
\* the speed the fan driver is at, so the switch itself moves no fan.
BumplessToggle == [][BumplessStep]_vars

Regulating ==
  /\ pc = "adjust" /\ pc' = "passive" /\ mMode_auto
  /\ mTargetPressure > MIN_PRESSURE_TARGET /\ mTargetPressure <= PRES_MAX

FollowsStep ==
  Regulating =>
    /\ Pascal(mPressure') >= mTargetPressure => mFanSpeed' <= mFanSpeed
    /\ Pascal(mPressure') <= mTargetPressure => mFanSpeed' >= mFanSpeed
    /\ ~fanDue => mFanSpeed' = mFanSpeed

\* With a target the knob can set, adjustFan never moves the fan against the
\* reading it has just taken (no faster when the pressure is at or above the
\* target, no slower when it is at or below it), and not at all before its
\* five seconds are over.
FollowsPressure == [][FollowsStep]_vars

CurrentStatus ==
  [auto |-> mMode_auto,
   setpoint |-> IF mMode_auto THEN mTargetPressure ELSE mTargetFanSpeed \div FAN_SCALE,
   speed |-> mFanSpeed \div FAN_SCALE]

\* A step of the MQTT callback, the only one that changes the mode or a target
\* without leaving these two places.
SettingsChanged ==
  /\ pc \in {"keepAlive", "subscribe"} /\ pc' = pc
  /\ mMode_auto' # mMode_auto \/ targetVars' # targetVars

AnswerStep == SettingsChanged => status' = CurrentStatus'

\* A settings message is answered at once by a status that tells the mode in
\* force, its target and the fan driver's speed, also when the message comes
\* while the subscription is still being made.
SettingsAnswered == [][AnswerStep]_vars

----------------------------------------------------------------------------
(* Progress *)

Down == pc \in Booting \union {"subscribe", "halted"}

\* The fan itself turns at this speed, unless the latest write was lost: that
\* one nobody looks at, and with the speed believed right nobody repeats it.
FanAt(speed) == mFanSpeed = speed /\ (fanReg = speed \/ ~written)

\* In manual mode the fan gets to the target, limited to its range, unless the
\* mode changes or the box goes down.
ManualSpeedReached ==
  pc \in Loop /\ ~mMode_auto
    ~> FanAt(ClampFan(mTargetFanSpeed)) \/ mMode_auto \/ Down

\* In automatic mode a target at or below the minimum stops the fan, unless
\* the target or the mode changes or the box goes down.
FanStops ==
  pc \in Loop /\ mMode_auto /\ mTargetPressure <= MIN_PRESSURE_TARGET
    ~> FanAt(0) \/ ~mMode_auto \/ mTargetPressure > MIN_PRESSURE_TARGET \/ Down

\* A pressure that stays too low under a target of the knob drives the fan to
\* full speed and keeps it there, whatever else the user does meanwhile.
FullSpeedWhenLow ==
  <>[](/\ pc \in Loop /\ mMode_auto
       /\ mTargetPressure > MIN_PRESSURE_TARGET /\ mTargetPressure <= PRES_MAX
       /\ Pascal(mPressure) < mTargetPressure)
    => <>[](FanAt(FAN_MAX))

\* The fan gets to where the mode in force wants it, through restarts, edits
\* and settings messages; a fan that does not is one whose latest write, or
\* reading at start-up, was lost.
FanGetsThere == ManualSpeedReached /\ FanStops /\ FullSpeedWhenLow

\* Every mode is handed to the MQTT client: once connected, the last status
\* given to publish() comes to tell the mode in force, unless the mode changes
\* again or the box goes down.  That is all State and MQTTHandler see to: when
\* the session is lost publish() fails, its result is ignored, and the status
\* goes no further.
ModeHandedOver ==
  \A m \in BOOLEAN :
    pc \in Loop /\ mMQTTEnabled /\ mMode_auto = m
      ~> \/ status # NoStatus /\ status.auto = m
         \/ mMode_auto # m \/ ~mMQTTEnabled \/ Down

----------------------------------------------------------------------------
(* What comments in the source say *)

\* main() means to connect to "the saved network settings": once connected,
\* the EEPROM holds the settings of the network in use.
SavedNetwork == mMQTTEnabled /\ pc \in Loop => eNet = mNet
=============================================================================
