--------------------------- MODULE NetworkScreen ---------------------------
(***************************************************************************)
(* The network half of class State: the screen on which the user enters a  *)
(* network name, a password and a broker address with the knob.            *)
(*                                                                         *)
(* The code looks only at the lengths of the three strings, so a string is *)
(* its length here; the character under the knob is its ASCII code.        *)
(***************************************************************************)
EXTENDS Integers

CONSTANTS
  MaxText,    \* bound: the longest line a user types in the model
  WheelStops  \* bound: the characters from which the knob is turned on

Stages == {"networkID", "networkPW", "brokerIP"}

ASSUME ScreenAssumption == MaxText \in Nat

VARIABLES
  mStatusScreen,      \* TRUE while the network screen is shown
  mMQTT_input_stage,  \* the line being typed
  text,               \* lengths of mNetworkID, mNetworkPW and mBrokerIP
  mInputChar          \* the character under the knob

screenVars == <<mStatusScreen, mMQTT_input_stage, text, mInputChar>>

NoText == [s \in Stages |-> 0]

ScreenTypeOK ==
  /\ mStatusScreen \in BOOLEAN /\ mMQTT_input_stage \in Stages
  /\ text \in [Stages -> 0..MaxText]
  /\ mInputChar \in 33..126

ScreenInit ==
  /\ mStatusScreen = FALSE
  /\ mMQTT_input_stage = "networkID"
  /\ text = NoText
  /\ mInputChar = 48

ScreenBoot ==
  /\ mStatusScreen' = FALSE
  /\ mMQTT_input_stage' = "networkID"
  /\ text' = NoText
  /\ mInputChar' = 48

----------------------------------------------------------------------------
(* The character wheel: 0-9 A-Z a-z ! to / : to @ [ to ` { to ~ *)

CharAfter(c) ==
  CASE c = 57  -> 65      \* '9' -> 'A'
    [] c = 90  -> 97      \* 'Z' -> 'a'
    [] c = 122 -> 33      \* 'z' -> '!'
    [] c = 47  -> 58      \* '/' -> ':'
    [] c = 64  -> 91      \* '@' -> '['
    [] c = 96  -> 123     \* '`' -> '{'
    [] c = 126 -> 126     \* '~' is the end
    [] OTHER   -> c + 1

CharBefore(c) ==
  CASE c = 48  -> 48      \* '0' is the end
    [] c = 65  -> 57      \* 'A' -> '9'
    [] c = 97  -> 90      \* 'a' -> 'Z'
    [] c = 33  -> 122     \* '!' -> 'z'
    [] c = 58  -> 47      \* ':' -> '/'
    [] c = 91  -> 64      \* '[' -> '@'
    [] c = 123 -> 96      \* '{' -> '`'
    [] OTHER   -> c - 1

----------------------------------------------------------------------------
(* Handlers, each without the State::update it ends with *)

\* State::toggleScreen: entering the screen forgets what was typed before.
ScreenToggleKeepsPW ==
  /\ mStatusScreen' = ~mStatusScreen
  /\ text' = [NoText EXCEPT !["networkPW"] = text["networkPW"]]
  /\ mInputChar' = 48
  /\ mMQTT_input_stage' = "networkID"
ScreenToggle ==
  \/ /\ mStatusScreen
     /\ mStatusScreen' = FALSE
     /\ UNCHANGED <<mMQTT_input_stage, text, mInputChar>>
  \/ /\ ~mStatusScreen
     /\ mStatusScreen' = TRUE
     /\ text' = NoText
     /\ mInputChar' = 48
     /\ mMQTT_input_stage' = "networkID"

\* State::toggleMode before the last line: go to the next one.
ScreenNextLine ==
  /\ mMQTT_input_stage # "brokerIP"
  /\ mMQTT_input_stage' = IF mMQTT_input_stage = "networkID"
                          THEN "networkPW" ELSE "brokerIP"
  /\ UNCHANGED <<mStatusScreen, text, mInputChar>>

\* State::toggleMode on the last line: leave the screen and connect.
ScreenSubmit ==
  /\ mMQTT_input_stage = "brokerIP"
  /\ mStatusScreen' = FALSE
  /\ UNCHANGED <<mMQTT_input_stage, text, mInputChar>>

\* State::setTarget: append the character under the knob.
ScreenType ==
  /\ text[mMQTT_input_stage] < MaxText
  /\ text' = [text EXCEPT ![mMQTT_input_stage] = @ + 1]
  /\ UNCHANGED <<mStatusScreen, mMQTT_input_stage, mInputChar>>

\* State::backspace: erase a character, or go back from an empty line.  The
\* last line looks at the length of mNetworkID instead of mBrokerIP.
Erasable(stage) == text[IF stage = "brokerIP" THEN "networkID" ELSE stage] > 0

\* pop_back() on an empty std::string: its length wraps, and the State::update
\* that follows copies it, which exhausts the heap and panics.
PopsEmptyString ==
  Erasable(mMQTT_input_stage) /\ text[mMQTT_input_stage] = 0

ScreenErase ==
  /\ Erasable(mMQTT_input_stage)
  /\ text[mMQTT_input_stage] > 0
  /\ text' = [text EXCEPT ![mMQTT_input_stage] = @ - 1]
  /\ UNCHANGED <<mStatusScreen, mMQTT_input_stage, mInputChar>>

ScreenBack ==
  /\ ~Erasable(mMQTT_input_stage)
  /\ \/ /\ mMQTT_input_stage = "networkID"
        /\ mStatusScreen' = FALSE
        /\ UNCHANGED mMQTT_input_stage
     \/ /\ mMQTT_input_stage = "networkPW"
        /\ mMQTT_input_stage' = "networkID"
        /\ UNCHANGED mStatusScreen
     \/ /\ mMQTT_input_stage = "brokerIP"
        /\ mMQTT_input_stage' = "networkPW"
        /\ UNCHANGED mStatusScreen
  /\ UNCHANGED <<text, mInputChar>>

\* State::clockwise (dir = 1) and State::counter_clockwise (dir = -1).
ScreenTurn(dir) ==
  /\ mInputChar \in WheelStops
  /\ mInputChar' = IF dir = 1 THEN CharAfter(mInputChar) ELSE CharBefore(mInputChar)
  /\ UNCHANGED <<mStatusScreen, mMQTT_input_stage, text>>

----------------------------------------------------------------------------
\* A password is never kept under a screen that no longer shows it: on the
\* network name's line the password is empty, so what toggleMode later submits
\* was typed since the screen was opened.
NoHiddenPassword == mMQTT_input_stage = "networkID" => text["networkPW"] = 0

\* The knob's character wheel has no one-way step: clockwise and
\* counter_clockwise undo each other on every character, except at the ends.
WheelReversible ==
  \A c \in 33..126 : /\ c # 126 => CharBefore(CharAfter(c)) = c
                     /\ c # 48 => CharAfter(CharBefore(c)) = c
=============================================================================
