# A TLA+ model of The Box

The Box is the firmware of a ventilation controller on a Raspberry Pi Pico W.
It keeps the pressure in a duct at a target (automatic mode) or a fan at a set
speed (manual mode), shows both on a small display, takes input from a knob and
three buttons, keeps its settings in an EEPROM, and talks MQTT to a broker that
may change mode and target. This directory holds TLA+ modules that model it, the
TLC configurations that check them, and proofs that TLAPS checks.

## 1. The system

### Parts, state, operations

| Part | Source | State | Operations | What makes it correct |
|---|---|---|---|---|
| Ventilation control | `misc/State.cpp` | mode; target, input and current fan speed; target and input pressure; adjustment timer | knob, set, mode and back buttons; settings message; `update`, `adjustFan`, `updateMQTT` | one edit at a time; bumpless mode switch; the fan follows the pressure; settings saved and answered |
| Network screen | `misc/State.cpp` | screen flag, input line, three strings, character under the knob | same buttons, other meaning | nothing hidden is submitted; no key sequence stops the box |
| Main loop | `main.cpp` | place in the loop, one-second timer | boot, connect, passive update, keep-alive, button drain, adjust | cached values are fresh when used; progress |
| Fan driver | `modbus/MIO12V.cpp` | believed speed; the device's register | `setFanSpeed` | register within limits and equal to the belief |
| Pressure sensor | `sensors/SDP600.cpp` | last reading | `update` | - |
| MQTT handler | `mqtt/MQTTHandler.cpp` | client enabled, network settings, stack and client objects | `connect`, `send`, `keepAlive`, callback | a change is reported; the saved network is the one that worked |
| EEPROM | `i2c/Eeprom.cpp` | six registers | `read`, `write` | holds what is in force, after a power loss too |
| UART driver | `uart/PicoUart.cpp` | two rings, interrupt masks, hardware FIFOs | `read`, `write`, `flush`, interrupt handler | bytes complete, in order, never left waiting |
| Ring buffer | `uart/RingBuffer.cpp` | head, tail, slots | `put`, `get` | a queue, without a lock |
| Buttons | `misc/PicoSW.cpp` | event queue, time of the last release | GPIO interrupt, `getEvent` | no event lost, repeated or out of order; a bounce is not a press |
| Modbus client | `modbus/ModbusClient.cpp`, `ModbusRegister.cpp`, `nanomodbus.c` | message in progress, transaction id | every client function, every server handler | an answer belongs to its request; a listener stays in step |
| Sensors | `sensors/GMP252.cpp`, `HMP60.cpp` | two readings of two halves | `update` | no bit of an old reading |
| IP stack adapter | `mqtt/IPStack.cpp` | control block, receive buffer | lwIP callbacks, `read`, `write`, `disconnect` | a byte stream; no freed block used |
| MQTT client, C++ | `paho.mqtt.embedded-c/MQTTClient` (vendored) | session, handlers, kept message, keep-alive timers | `connect`, `subscribe`, `publish`, `yield` | acknowledged means received; a lost session is noticed |
| MQTT client, C | `paho.mqtt.embedded-c/MQTTClient-C` (vendored, not used by the firmware) | the same, a mutex | the same calls, and `MQTTRun` in a thread | calls and task do not take each other's packets |
| MQTT packets | `paho.mqtt.embedded-c/MQTTPacket` (vendored) | the non-blocking reader's place | serializers, deserializers, two readers | what is written is read back; buffers are never overrun |
| Display, I2C set-up | `display/`, `i2c/` | pixels | | output only |

### How they interact

Everything but two interrupt handlers runs on one thread. `main()` builds the
objects, connects, and then repeats: once a second read the sensors, publish a
status and refresh `State` (`passive`); let the MQTT client work (`keepAlive`);
handle queued button events (`events`); adjust the fan (`adjust`). `State` is
called back in two places: by the fan driver at the end of `setFanSpeed`, and by
the MQTT client, through `messageHandler`, inside `yield` and inside `subscribe`.
Modbus, and so the fan, is reached through the UART driver, whose rings are
shared with the UART interrupt handler. Buttons come through a queue filled by
the GPIO interrupt handler.

### What is hard

* A settings message can arrive in the middle of an edit, or while the box is
  still connecting, before the loop has refreshed anything.
* `State` acts on copies of the driver's speed.
* Setpoints wrap at 16 bits; speeds are computed signed and stored unsigned.
* Power fails between handlers; some members start uninitialised.
* Modbus and I2C errors are ignored, so writes are lost silently.
* The UART's rings and transmit interrupt are handled from two contexts, and so
  is the queue of button events.
* An EEPROM write goes on after the call that started it.
* A Modbus answer names neither its request nor its register, and may be late.
* lwIP calls back while the client polls, and frees the control block by itself.
* The MQTT clients wait in calls that also handle whatever else comes in.
* A wrong length test and a use of moved-from strings (see section 5).

`PROJECT.json` lists these hazards at their lines, with the properties that
cover them.

## 2. The modules

| Module | Models | Uses |
|---|---|---|
| `CInts` | casts to `int16_t`, `uint16_t` and C++ division, for a word of 2 * `HALF` values | |
| `VentControl` | ventilation half of `State`, `MIO12V`, `SDP600`, the settings registers of the EEPROM | `CInts` |
| `NetworkScreen` | network half of `State` | |
| `Controller` | `main()`: boot, loop, callback, timers, power loss; the composition | `VentControl`, `NetworkScreen` |
| `ByteQueue` | abstract: a bounded first-in first-out queue | |
| `RingBuffer` | `put` and `get` at the grain of single memory accesses | refines `ByteQueue` |
| `PicoUart` | read, write, flush, interrupt handler, NVIC mask, PL011 FIFOs | each ring is a queue, by the refinement |
| `Eeprom` | class `Eeprom`, the device, the saves of every handler, power loss | |
| `PicoSW` | contacts, GPIO interrupt, event queue, `getEvent` | |
| `Sensors` | `GMP252`, `HMP60` and `ModbusRegister` | |
| `Nmbs`, `NmbsCrc` | the messages of nanomodbus: what is sent, judged, answered and accepted; its CRC | |
| `NmbsBus` | a client and servers of nanomodbus on a line that loses, alters and delays bytes | `Nmbs` |
| `BoundedStream` | abstract: a byte stream that loses what does not fit | |
| `IpReceive` | the receive buffer of `IPStack` | refines `BoundedStream` |
| `MqttSession` | `MQTTHandler` and the connection of `IPStack`: who owns what, when | |
| `MqttWire` | packet types, header byte, integers, remaining length | |
| `MqttBroker` | external: network connection and broker | `MqttWire` |
| `MqttClient` | the C++ client, cycle by cycle | `MqttBroker` |
| `MqttTask` | the C client with its background task and mutex | `MqttBroker` |
| `MqttTopic` | the wildcard matcher, loop pass by loop pass | |
| `MqttPacket` | all serializers and deserializers | `MqttWire` |
| `MqttReader`, `MqttBlocking` | `MQTTPacket_readnb` and `MQTTPacket_read` | `MqttWire` |
| `ControllerProofs` | theorems of the controller and its screens | `Controller` |
| `DeviceProofs` | theorems of the drivers | `RingBuffer`, `PicoUart`, `PicoSW`, `Eeprom`, `Sensors` |
| `TransportProofs` | theorems of the way of a packet into the box | `IpReceive`, `MqttSession`, `MqttReader`, `MqttBlocking`, `MqttTopic` |
| `MqttProofs` | types, tables, keep-alive and subscriptions of the C++ client | `MqttClient` |
| `MqttPublishProofs` | `publish()` and its acknowledgements | `MqttProofs` |
| `MqttDeliverProofs` | messages of the broker, handed on once, and before they are forgotten | `MqttProofs` |
| `NmbsProofs` | calls that agree, and a line in order | `NmbsBus` |
| `TaskProofs` | theorems of the C client and its two threads | `MqttTask` |
| `MCController` | payloads and networks for the controller | `Controller` |
| `MCDevices` | ring, UART, buttons, EEPROM and sensors, one `unit` at a time | those modules |
| `MCTransport` | receive buffer, session, readers, codec and matcher, one `unit` at a time | those modules |
| `MCNmbs`, `MCMqtt`, `MCTask` | the set-ups and uses their runs choose from | `NmbsBus`, `MqttClient`, `MqttTask` |

The modules meet at these interfaces. `PicoUart`'s receive queue is the line of
`NmbsBus`; the outcomes of a register access there (answered, failed, taken from
an earlier answer) are `BusOutcomes` in `VentControl` and the four kinds of
transaction in `Sensors`. `Eeprom` takes the saves apart that are one step of a
handler in `Controller`. `PicoSW` delivers the button events that `Controller`
takes from anywhere in any order. `MqttSession` is between `Controller`, for
which `connect` succeeds or fails and messages come, and `MqttClient`, whose
calls are one step of it.

Where one question needs several instances (lines, sessions, builds), the
initial state chooses one: `setup` in `NmbsBus`, `use` in `MqttClient` and
`MqttTask`, `unit` in `MCDevices` and `MCTransport`. They never change
afterwards, and each is a small record of bounds and choices in its MC module.

### Correspondence

Variables carry the names of the C++ members. In `Controller`, `pc` is the place
in `main()`: `bootSaved`, `bootDefault` and `subscribe` belong to connecting,
the other four to the loop; `halted` is the lock-up described in section 5. A
handler is one action, with the `update()` it ends with: nothing else runs on
that thread, and interrupt handlers touch none of this state. The exception is
connecting, which is split at `subscribe` because settings messages can be
delivered there. Timers are Booleans (`fanDue`, `passiveDue`) that become true
at any moment after they were restarted. A button event of any kind may come
whenever the loop drains its queue, in any number. A Modbus write may fail
(`BusOutcomes`), each of the two of `setFanSpeed()` for itself; `fanReg` is the
register, `mFanSpeed` what the driver believes, and `written`, a history variable,
tells whether the driver's latest access to the register got through; a failed read gives 0; a pressure reading is any of
`RawPressures`. At power loss RAM is rebuilt from the EEPROM and from the fan's
register, and the fan may or may not have lost power too.

Abstracted: a string is its length; a payload is whether it has its blanks, its
mode word and its setpoint; a status message is its mode, setpoint and speed.
The unterminated copy of a payload is modelled by the outcomes it can have on
the parser. Uninitialised members may hold any of `Uninit`. Display contents,
CO2, humidity and temperature decide nothing and are left out.

In `Eeprom` a call of `write` or `read` is three steps: set the address, poll
until the device acknowledges, transfer. The device accepts nothing while its
write cycle lasts. Memory is bytes; `Restore` and the `Save...` lists are the
calls of `State` and `main()` in their order. A power loss may come between any
two steps, and a page whose cycle is cut is assumed to be the old or the new one;
tearing inside a page is not modelled.

In `PicoSW` an edge is first an edge of a contact, then a bit in the GPIO block,
then an event: two edges of a pin before the routine runs become one event with
both bits, and B is read when the routine runs. `getEvent` is split at its three
calls of the queue. `time_us_32()` wraps at `TimerWrap`; `at`, `n`, `dir` and `late`
in an event are history for the properties.

In `NmbsBus` a node reads its message in the `recv()` calls of the code, and
bytes a call does not take stay for the next one. Servers hear each other's
requests and answers, as on an RS-485 line. Data are bytes, the CRC is the
code's (checked in `MCNmbs` against its loop and a known message).

In `MqttClient` a call that waits is a sequence of `cycle()`s, broker and
network acting in between; `MqttTask` adds the second thread at the grain of the
mutex. A packet is a record with its type, id and message; a packet that is no
packet has the reserved type. `MqttPacket` works on bytes.

In `MqttSession` a control block is the number of the stack that made it,
`alive` those lwIP has not freed. The topic filter of the subscription is
"stale" as soon as `mMQTTSubscribe` returns, since the client keeps a pointer
into its by-value parameter, and a stale filter matches or does not.

In `RingBuffer`, `put` is `PutBegin` (compute and test), `PutStore`,
`PutPublish`; `get` is `GetRead`, `GetAdvance`. The members are not `volatile`
or atomic, but the store of a byte may alias `head`, so the compiler keeps the
order, and the single-core M0+ reorders nothing an interrupt could see. The
model lets the two sides interleave freely, which includes the interleavings of
an interrupt handler on either side.

In `PicoUart`, `pc` is the place in `write()`, `isr` the place in the handler.
`Push` and `IrqTxEnd` are `uart_irq_tx()`, for either caller. `IrqEnter` needs
only the NVIC: it includes the extra run for a request that was latched and has
gone. The peripheral is external: its transmit interrupt is set by the level
falling to the trigger, which is why `write()` has to fill the FIFO first.

## 3. What TLC checks

| Run | Question | Properties |
|---|---|---|
| `controller_local` | a box without network on a lossy bus, with restarts | `TypeOK`, `LocalValuesLegal`, `BumplessToggle`, `FollowsPressure` |
| `controller_remote` | a connected box on a lossy bus: every kind of settings message against edits, reconnects and restarts | `FanMirror`, `OneEdit`, `FanObeys`, `ModeDurable`, `TargetsSaved`, `SettingsAnswered` |
| `controller_screen` | the network screen in the loop, with reconnects | `NoHiddenPassword` |
| `controller_progress` | does the fan get where it is sent, on a lossy bus, and is every mode handed to the client? | `FanGetsThere`, `ModeHandedOver` |
| `devices` | the drivers against interrupts, bounces, power losses and failing reads | `ImplementsQueue`, `UartSafe`, `ReportsHold`, `SavesHold`, `ReadingIsFresh`, `DevicesProgress` |
| `modbus` | a line with faults; two servers that hear each other; TCP whose transaction ids wrap; every function at its limits | `ResultsAreReal`, `LineInOrder`, `TcpIsFresh`, `CallsAgree` |
| `modbus_returns` | does every call return, under two faults? | `CallsReturn` |
| `transport` | what lies between the MQTT client and the wire | `ImplementsStream`, `SessionSafe`, `ReaderSafe`, `ReturnedIsWhole`, `CodecSafe`, `MatchIsMeaning`, `TransportProgress` |
| `mqtt` | the C++ client: publishing, QoS 2 both ways, subscriptions, over connections that break | `AckedWasReceived`, `NothingKeptIsLost`, `QoS2AtMostOnce`, `AckedWasDelivered`, `TablesAgree` |
| `mqtt_alive` | its keep-alive against a broker that is late or dead | `PingHasItsInterval`, `MqttProgress` |
| `task` | the C client: calls of a thread against `MQTTRun` | `TaskSafe`, `TaskProgress` |
| `controller_saved_network` | violated: the finding of section 5 | `SavedNetwork` |

What the properties say, those first that are conjunctions of named parts:

* `UartSafe`: only one of `write()` and the handler is ever inside
  `uart_irq_tx()` (`OneConsumer`); bytes leave and come complete and in order
  (`TxInOrder`, `RxInOrder`); a quiet UART with bytes in its ring has an
  interrupt that will fetch them (`NoLostWakeup`).
* `ReportsHold`: a press or turn that is reported came no earlier than the delay
  after the remembered release, wherever the timer wrapped (`DebounceHolds`); a
  button is not reported twice within the delay, but for bounces that merge into
  one event (`PressesApart`); a turn has the direction of the shaft unless the
  shaft moved on before the routine read B (`DirectionHolds`); events are taken
  once and in order (`EventsInOrder`).
* `SavesHold`: at any moment the device holds the result of all writes so far or
  of all but the latest (`PrefixSaved`), and a read returns what was written
  last (`ReadsBack`).
* `ResultsAreReal`: what a call returns, a value or an exception, was sent byte
  for byte by the addressed server in answer to that function, though perhaps to
  an earlier call (`AnswersWereSent`), and a write that succeeded was done
  (`WritesWereDone`). `LineInOrder`: on a line without faults every result is of
  this request (`CalmIsFresh`), no byte is left when nobody speaks
  (`CalmLineIsClean`), and a broadcast gets no answer but a refusal
  (`BroadcastsUnanswered`).
* `TcpIsFresh`: over TCP an accepted answer is of this very call, however late
  others are. `CallsAgree`: a request the client is willing to send is one the
  server accepts.
* `SessionSafe`: MQTT is enabled only with a client on an existing stack that
  has a control block (`EnabledHasStack`), lwIP holds no other control block and
  a failed `connect` leaves nothing (`NothingLeaks`), every message is handled
  once (`MessagesHandledOnce`).
* `ReaderSafe`: nothing is written behind the buffer (`WritesInside`), what is
  returned is the packet that was sent (`WholePackets`), and the reader starts
  every packet at its first byte (`InStep`). Nothing is said of a reader after an
  error: the model stops there, while the code starts again in the middle of the
  stream. `ReturnedIsWhole` is the same for the blocking reader.
* `CodecSafe`: what is written fits the buffer, and a buffer is refused only up to
  the size of the packet; the three serializers that look at less than the packet
  (CONNACK, SUBACK, UNSUBACK) write their fixed header too many and no more
  (`RoomIsJudged`). A remaining length comes back out of its bytes and is given
  enough room, also where a byte is added (`LengthIsKept`). What was written is read
  back, and exactly the packets named in `Refusable` are refused (`RoundTrip`). What
  a deserializer reads to its end lies in the packet; the payload of a PUBLISH is
  what topic and id leave, which is -1 or -2 if the packet ends inside or before its
  id (`AcceptedIsInside`). A SUBSCRIBE fills no more members of the caller's array than
  it has, a SUBACK one more, an UNSUBSCRIBE as many as the packet brings
  (`MembersAreCounted`). These exceptions are what the code does; a fourth
  serializer, a wider overrun or a longer count would break the property.
* `MatchIsMeaning`: the matcher decides as a filter means, level by level, for filters
  that are well formed; what the pointers do on others is not tried.
* `TablesAgree`: a subscription that succeeded has its handler, and tables and
  ids stay within their limits. `TaskSafe`: the task takes no packet that a call
  of the other thread waits for (`AckNotStolen`), and until the broker has taken
  CONNECT, on every connection, only CONNECT, DISCONNECT and the task's pings are
  sent; no ping goes before CONNECT as long as the interval is 0
  (`ConnectComesFirst`). `MQTTClientInit()` leaves the interval as the memory had
  it, so with the client on a stack (`samples/FreeRTOS/MQTTEcho.c:28`) one may; the
  use `stale` of `MCTask` has such an interval, and there one does.
* `FanObeys`: whatever is asked for and whichever writes are lost, the fan's register
  and the driver's belief stay between 0 and `FAN_MAX` (`FanWithinLimits`), and they
  agree unless the driver's latest access failed (`RegisterAgrees`). So a fan is left
  at the full speed of the kick only by a lost second write.
* `ModeHandedOver`: once connected, the last status given to `publish()` comes to tell
  the mode in force. It is the hand-over to the client and no more: when the session is
  lost `mMQTTEnabled` stays true, every `publish()` fails and its result is ignored
  (`MQTTHandler.cpp:108-125`), so that the broker learns nothing.
* `FanGetsThere`: in manual mode the fan reaches the target; it stops when the
  target says so; it is at full speed at last when the pressure stays low. "There" is
  the driver's speed and the register, unless the latest write was lost (`FanAt`).
* `DevicesProgress`, `TransportProgress`, `MqttProgress`, `TaskProgress`: every
  accepted byte is sent, every event taken, every save ended, every `connect`
  and every call ended, every packet of a stream returned, and a dead peer is
  noticed. `MqttProgress` is about the client, not about `MQTTHandler`, which does not
  react; and `TaskProgress` does not tell a session that the C client closes too early
  from a dead peer.
* `FanMirror`: where the loop acts on it, `State`'s copy is the driver's speed.
  `OneEdit`: only the input of the mode in force is being edited. `ModeDurable`,
  `TargetsSaved`: between handlers the EEPROM holds what is in force.
  `SettingsAnswered`: a settings message is followed at once by a status that
  tells the new state.
* `AckedWasReceived`: `publish` succeeds at QoS 1 and 2 only if the broker has
  the message. `NothingKeptIsLost`: a message kept for re-sending is sent again.
  `QoS2AtMostOnce`: a QoS 2 message reaches the application at most once.
  `AckedWasDelivered`: in clean sessions, whatever was acknowledged did reach it. In a
  kept one it need not: with its table of ids full the client acknowledges a QoS 2
  message without handing it on (`MQTTClient.h:615-629`).
* `PingHasItsInterval`: the C++ client gives a session up only after the peer
  has had a whole keep-alive interval to answer a ping.

Deadlock is checked in the controller's runs and in `devices`: a halted box can
still be reset, and a device may always be called. In the other runs the bounds
on calls, faults and packets stop the system, so it is not.

### Bounds

The word has 16 values instead of 65536, so that negative setpoints, wrapping
products and out-of-range targets all occur within a few values; `FAN_MAX`,
`PRES_MAX`, the steps and the gain keep the order the build's values have (a
minimum target above 0 and below the largest, a knob step that overshoots the
maximum, counts finer than a pascal). Pressure readings lie below, at and above
the targets and, in `controller_remote`, include a negative one, as a failed I2C
read leaves. Payloads cover both modes, setpoints that are negative, legal and
too large, a payload without blanks and one with a word that is no mode.
The setpoints of `controller_remote` are 2, a legal pressure that as a speed is beyond
`FAN_MAX`, and 9, a negative number in this word whose product wraps to `FAN_MAX`; the
bus loses either write of `setFanSpeed()` and the reading at start-up.
`controller_progress` has the smallest word of each kind (`PRES_MAX` = 1, one setpoint,
a knob step of full speed, payloads that are well formed): progress needs a target that
stops the fan, one that does not, and a register access that fails.
`MaxText` bounds typed lines; one character is enough since the code looks only
at whether a line is empty. The ring has four slots: empty, partly filled, full,
and both indices wrap. The UART's ring and FIFO hold two bytes and a write up to
four, so both fill up within one call; six bytes out and four in let every
interleaving of kick, drain and refill happen twice.

The EEPROM has pages of 6 bytes and an address byte of 24 values, so that, as in
the device, the mode is in the last page with high byte 0 and the targets are in
the first with high byte 1; targets have one and three digits, a shorter one
over a longer one included; `MaxLosses` = 1: the power fails once, at any step
of a save or of the reads after an earlier one. `MaxEdges` = 3 edges make a press
and its bounce, or two edges that merge and a third; `TimerWrap` lets the timer
wrap once within `MaxTime`. A Modbus line has one fault of any kind (two in
`modbus_returns`) in up to three calls, which is what it takes for an answer to
be late, to meet the next request, and its rest the one after; transaction ids
start at 65534 and wrap; limits are tried at, below and above every quantity.
The receive buffer holds three bytes, segments and reads up to four. Three
connections let a session fail, recover and fail again with something left from
the first. The MQTT clients have up to three connections, three calls and two
faults, packet ids that wrap at 2 or 3, tables of one entry; the C client also
starts with an interval of 2 left in its memory. Packets are built with remaining
lengths around 127/128 and 16383/16384; for the readers and the coding of lengths,
`LengthEdges` adds those around 2097151/2097152 and the limit. Buffers are from three
bytes too small to two larger than the packet, the caller's arrays have two members
(`MaxCount`), a SUBSCRIBE up to three and a SUBACK up to 126. Filters have up to four
characters, names up to five.

### Fairness

`FairSpec`: weak fairness on the loop's own steps and on the two timers. The
loop has no wait without a time limit except the EEPROM's ready poll (see the
hazards), so the processor keeps going round; time passes. Nothing is assumed of
the user, the broker or the power supply.

`UartSpec`: weak fairness on the steps of `write()`, of the handler and of the
transmitter, and strong fairness on entering the handler while it is requested,
because `write()` may mask it over and over, and the processor takes a pending
interrupt at the first instruction where it is enabled. `SwFairSpec`: `main()`
loops and a pending GPIO interrupt is served. `EepromFairSpec`: the calls go on
and a write cycle ends, which the device does within 5 ms. `DevicesSpec` and
`TransportSpec` repeat the fairness of their parts for the `unit` in question.

`SessionFairSpec`: a step of `connect` is taken at last, since joining the
Wi-Fi, CONNECT and SUBSCRIBE have time-outs. `ReaderFairSpec`: the caller calls
again while bytes are there. `TopicSpec`: the loop runs. `BusSpec`: the client's
step or its time-out; the servers and the line owe nothing. `MqttFairSpec`: the
client's `cycle()`, the end of a call's time, the clock, and that the
application calls `yield()`. `TaskFairSpec`: the same for the C client, and
strong fairness for a thread that waits for the mutex, which the other thread
releases and takes again: what a scheduler without starvation gives.

## 4. What is proved

All theorems hold for every value of the constants that satisfies the named
assumptions (`HalfAssumption`, `VentAssumption`, `ScreenAssumption`,
`NetAssumption`, `RingAssumption`, `UartAssumption`, `EepromAssumption`,
`SwAssumption`, `ReceiveAssumption`, `SessionAssumption`, `ReaderAssumption`,
`BlockingAssumption`, `TopicAssumption`, `MqttAssumption`, `TaskAssumption`,
`BusAssumption`), which TLC evaluates in its runs. What they ask of the code's
own constants: six pages have addresses of two bytes and a setting fits its page
(`Eeprom.h`: 64-byte pages, strings of at most 61 bytes), the debounce delay is
shorter than the timer's wrap (100 ms against 71 minutes), no GPIO of a button is
one of the rotary encoder's. Bounds of the models such as `MaxEdges`, `MaxLosses` or
the number of calls are any natural number.

`ControllerProofs` (of `Spec`): `TypeCorrect`, `MirrorExact`, `SingleEdit`,
`FanAlwaysObeys`, `ModeSurvives` (invariants), `ToggleIsBumpless`,
`FanFollowsPressure`, `SettingsGetAnswer`, `TargetsAreSaved` (action
properties). The inductive invariant is `ControllerInv`. `FanMirror` is not
inductive by itself: after boot the copy is 0 whatever the driver read, and only
the once-a-second part of the first pass repairs it; `FirstPassUpdates` says
that its timer is still due then, whatever came during connecting. The action
properties use `FanMirror` (what `toggleMode` copies and `adjustFan` adds to is
the driver's speed) and the arithmetic lemmas on casts and clamping.

Of the settings: `LocalValuesStayLegal`, `PasswordNeverHidden` and
`WheelIsReversible` (the character wheel, a fact without state). What an edit
starts from is the current speed, so `LocalInv` adds that this copy is in range;
and since a message may bring any setpoint, the property speaks of a box that
never gets a network, and `LocalInv` says that MQTT is never enabled then.
`NoHiddenPassword` is inductive together with the type invariant.

`DeviceProofs`, the ring (of `RingSpec`): `SlotsAreOwned` and `RingIsQueue`, the
refinement of `ByteQueue` by `Contents`, the slots from tail to head. `RingInv` (types and
`SlotsOwned`) is inductive; publishing is then shown to append, releasing to
remove the head, storing to be invisible.

`DeviceProofs`, the UART (of `UartSpec`): `SingleConsumer`, `TransmitsInOrder`,
`ReceivesInOrder`, `NoWakeupIsLost`, together `UartIsSafe`. `NoLostWakeup`
speaks of a quiet UART only; `UartInv` adds why it becomes true: the handler is
shut out while `write()` handles TXIM (`Masked`), outside `uart_irq_tx()` an
enabled interrupt is pending or will be (`Armed`), and outside `write()` a
disabled one means an empty ring (`Covered`).

`TransportProofs`, the buffer (of `ReceiveSpec`): `IndicesAlwaysAgree` and `ReceiveIsStream`,
the refinement of `BoundedStream` by `Waiting`, the `count` bytes from the read
index on. `ReceiveInv` says that the write index is `count` places behind the
read index, round the buffer; `Fold` takes the place of the remainder, which
needs one subtraction only, and the copy of a segment and of a read that wraps
are shown to append and to remove byte by byte.

`TransportProofs`, the session (of `SessionSpec`): `SessionIsSafe`. The property speaks mostly
of the time between calls; `ConnectPlaces` says what exists already at each place of
`connect()`: which stack, which client, which control block.

`TransportProofs`, the reader (of `ReaderSpec`): `ReaderWritesInside`, `ReaderWholePackets`,
`ReaderInStep`, together `ReaderIsSafe`, for every buffer of at least five bytes
and every stream. `WholePackets` speaks of returned packets only; `ReaderInv`
follows one through its states: nothing taken (`AtStart`), some bytes of its
length taken and their value in `rem_len` (`InLength`), as many bytes missing as
`rem_len` says (`InBody`).

`TransportProofs`, the blocking reader (of `BlockingSpec`): `BlockingReturnsWhole`.
`DecodeWhole` says that the bytes of a length that came whole give the length
back, for each of the four sizes; the rest is the arithmetic of the buffer.

`TransportProofs`, the topic filters (of `TopicSpec`): `MatchesAsMeant`, for topics
of every length. `Matches` says what a filter means level by level; the code sees
one character at a time. While its loop runs, both pointers are in the same level,
all levels before match, and in this level the filter has had no wildcard yet, or
"+" or "#" right before its pointer (`Paired`). Wherever the loop stops, `LevelGoesOn`
finds the ends of the two levels, and the four ways in which the pointers may be at
or before them decide what the filter means. `FiltersAreFilters` is the hypothesis:
wildcards only as whole levels, "#" only as the last, no terminator inside.
The code does not check it: for a filter such as "a+" it goes by characters, where
the meaning of a level is not defined. `MCFilters` are such filters.

`DeviceProofs`, the sensors (of `SensorSpec`): `SensorsAreFresh`. The property
speaks of a finished `update()`; `SensorInv` says the same of the registers read
so far (`ReadBefore`), and that the half about to be or-ed into is clear.

`DeviceProofs`, the EEPROM (of `EepromSpec`): `SettingsSurvive`. `EepromInv`
relates the bytes of the device to the strings: `Holds` says that every register
has its string with the NUL behind it in its own page (`StandsAt`). While a write
cycle lasts the device holds the table from before the latest `write()`, once it
is over the table after it (`DeviceHolds`); and a transfer finds the device ready
and the two address bytes set for the call it serves (`CallUnderWay`). A page
write then changes one register and leaves the other pages alone.

`DeviceProofs`, the buttons (of `SwSpec`): `ReportsAreTrue`. The conjuncts of
`SwInv` follow an edge from the contact to `main()`: `Counted` (no more events
than edges), `Queued` (numbered without a gap, in the order of time, each stamped
with the timer), `Past` (what `getEvent` remembers is not later than what is
queued), `Knob` and `Turns` (a turn and the phase it ends in), `Contacts` (falls
and rises of a contact alternate through queue, pending bits and level, so that
a press reported twice would need a rise in between). `TimerDifference` is the
arithmetic: a difference of two readings of the wrapping timer is never larger
than the time between them, so the delay is never taken for granted too early.

`MqttProofs`, the keep-alive (of `MqttSpec`): `PingsAreFair`. The client's functions are
operators on its state; for each a lemma says what it keeps (`Good`, that is
types, `TablesFit` and `PingFits`, and the parts that it does not touch), and the
actions follow from them. `PingFits`: the ticks that a ping has waited and the
ticks that its timer has left are at least an interval. `TypeInv` adds types for
the ghosts and is needed by all that follows.

`MqttProofs`, the subscriptions (of `MqttSpec`): `TablesAreRight`. In a clean session a
subscription without a handler would need a SUBACK or UNSUBACK taken for another
call's. `SubFits` therefore speaks of the packets on the wire: at most one of
SUBSCRIBE and SUBACK is under way, and only while `subscribe()` waits for it;
`unsubscribe` likewise; a CONNECT on its way is followed by nothing that the new
session could mistake; handlers are only taken away by a call that has a SUBACK
or UNSUBACK in its hand. The lemmas on `Lacks` and `Once` (a queue of packets has
none, or at most one, of a kind) carry this through sends, acknowledgements and
losses. The theorem has one hypothesis, `AcksAreAwaited`: QoS 2 is only published
by the build that waits for its acknowledgements. Without it the property fails
(see the observations on `connect()` in section 5); the box publishes with QoS 0.

`MqttPublishProofs` (of `MqttSpec`): `AckedIsReceived` and `KeptIsNotLost`. The
client compares no packet ids, so that SUCCESS is true only if the packet that
ends a wait is the call's own. `PubInv` follows the packets that can end a
`publish()` (`UpTokens`, `DownTokens`): while a call waits, or `connect()` has
sent an unfinished one again, there is at most one of them on the wire, and it
says where the call is (`UpMeans`, `DownMeans`): a PUBLISH carries the call's
message, a PUBREL or an acknowledgement means that the broker has it. At other
times there is none. `KeptFits` says that what a kept session owes is in
`pubbuf` or received. `TakenFits` bounds the table of QoS 2 ids the broker
holds: an id in it belongs to the message in flight, for otherwise a new message
under that id would be taken for a duplicate. Lemmas say for each function of
the client and of the broker what it keeps of `PubInv`.

The two theorems have one hypothesis, `OneKindOfSession`: a use of the QoS 2 build
that publishes with QoS 2 always, or never, asks for a clean session. With both
mixed `PubInv` is false: a clean CONNECT that is lost clears the client and not
the broker, which goes on holding the id of a message the client has forgotten.
65535 messages later the id is used again, and the broker acknowledges a message
that it drops as a duplicate. The uses the runs choose from satisfy the
hypothesis, and so does the box, which asks for no QoS above 0.

`MqttDeliverProofs` (of `MqttSpec`): `HandedOnOnce`. The property counts what the
application was handed; `DelInv` says why nothing is handed on again. A publish
of the broker that waits is on its way, or its acknowledgement is, or neither,
and each of the two at most once (`InTransit`): so the broker, which takes an
acknowledgement for the publish with its id, takes it for the right one. A
message is on its way once, in the publish that waits; one that was handed on is
not on its way again, unless its id is in the client's table of incoming QoS 2
ids (`SeenFits`). `Opened` keeps the packets of two connections apart.

The theorem has one hypothesis, `SentOnce`: QoS 1 comes in clean sessions only,
where the broker repeats nothing, and QoS 2 in clean sessions or, in the QoS 2
build, in sessions that are all kept. Outside it the property is false. QoS 1
promises no more in a kept session; without the QoS 2 build `cycle()` hands on
every copy of a QoS 2 publish; and with both kinds of session mixed a clean
CONNECT that is lost clears the client's table and not the broker's session.

`MqttDeliverProofs` (of `MqttSpec`): `ForgottenWasHandedOn`. `waitfor()` and `cycle()`
acknowledge a message whether a handler got it or not, and the broker then forgets
it. `HearInv` says why one did. In a session that can still be read, a message on
its way has its handler, or comes behind the SUBACK that `subscribe()` waits for
and that installs it, and nothing of a topic comes behind its UNSUBACK (`Hears`).
Without a session a call goes on only until CONNECT is answered, when no message
has come yet, or when the stream can no longer be read (`Calm`). An id in the table
of incoming QoS 2 ids is that of a publish the broker still waits for, so that no
new message is taken for a repeated one (`Filed`); with two ids the table is never
full. `Handed` is the property, with the messages whose acknowledgement is under
way. The proof needs `SubInv` and `DelInv`: one answer at a time, one copy at a time.

Its hypotheses are `AcksAreAwaited` and `Heeds` for every use: either the sessions
are clean, the client yields in sessions only, and for QoS 2 it is built for it and
has room for the two ids the broker uses; or nothing is there to be acknowledged;
or no clean session begins, and then the property, which is about clean sessions,
speaks of the start only. The uses the runs choose from satisfy them. Outside them
the property is false: a client that calls `yield()` after `closeSession()` has
cleared its handlers goes on acknowledging what comes, and a session that was kept
leaves the broker messages for topics a clean one does not know.

`TaskProofs` (of `TaskSpec`): `ThreadsAreApart` and `TaskIsSafe`. As for the C++
client, a lemma for each function says what it keeps of the state it is given
(`Good`), and `TaskInv` follows step by step. `Locked` makes `stolen` impossible:
the mutex is the application's exactly while a call waits, and the task's exactly
while it is inside `cycle()`. `ConnectComesFirst` needs to know what may be under
way before the broker has taken CONNECT (`Opening`): towards the broker only
CONNECT, DISCONNECT and pings, towards the client only the
refusal, so that no CONNACK makes a session. Pings may be in front of CONNECT when
the interval left by the memory or by the connection before is not 0; where it is 0
(`IntervalIsZero`), no ping is due while nothing was sent. The theorem has no
hypothesis about the memory: it covers a client in static storage and one on a stack.

`NmbsProofs` (of `BusSpec`): `CallsAlwaysAgree` and `LineStaysInOrder`, for every
set of calls, of servers and of callbacks, RTU and TCP. The invariants speak of
the time between two calls; the proof has to follow every byte in between. It goes
in three steps.
1. The bytes. What each client function sends has the length that its header, its
   function code and its counts announce (`HasShape`), is judged
   `NMBS_ERROR_NONE` by the handler, and is answered with what `Accept` takes
   (`GoodRequest`, one lemma for each function: at the limits of its arguments
   this is where client and server have to agree to the byte).
2. One node, one message. `Points` are the states in which a node that reads a
   message and nothing else stands before one of its `recv()` calls; `Advance`
   says that each leads to another one or, at the end of the message, to what the
   node does with it. For a server that listens to others, a request is ignored
   and the answer to it then read as one, and both end where the message ends
   (`HearsRequest`, `HearsAnswer`).
3. The line. Nodes are not in step: while the client goes on, a server may have
   read nothing of what it heard. `Lags` says that a server comes, by steps that
   send nothing, from where it is to a known point when it reads what has arrived;
   whatever is put behind, it comes to the point after that (`AppendBehind`).
   `InOrder` is then a protocol of five states: `Quiet` between two calls,
   `Asked` (the request is under way, behind broadcasts), `Heard` (every node has
   it or lags behind it), `Replied` (the answer of the one server that was asked
   is under way), `Reading`.

`BusInv` is the types of the line with `calm => InOrder`. A time-out may strike at
any time before a message has arrived whole, and ends `calm`: whoever gave up too
early finds the rest of the message later. The hypotheses are `CrcIsWord` (`nmbs_crc_calc()` returns a `uint16_t`; what it
returns does not matter here) and `RightUse`, of the calls and the servers:
* a call is made by one of the library's functions, and the servers have the
  callback it needs; the caller of `nmbs_send_raw_pdu()` knows the answer's length;
* callbacks do not return an exception themselves, and do not fail in a broadcast;
* function 23 is neither broadcast nor, on RTU, used beside a server it is not
  meant for: outside this the property is false, since a server that listens takes
  its answer for one to function 16;
* one server on TCP; `InitTid` has two bytes, and `MaxCalls` one, since a ghost
  makes the number of a call the value that is read.

All set-ups of `AllSetups` are such uses, and so are the calls of the box, which
reads and writes registers of servers that have them. `LineTypes` needs no calm:
whatever the line loses, alters or delays, each node is between two `recv()` calls
and holds bytes, and nothing but refusals answers a broadcast.

Only model-checked, and why:
* all liveness: there is no backend for fairness and ENABLED;
* `ResultsAreReal` and `TcpIsFresh`: they speak of a line with faults, and are true
  of the set-ups and not of all others. A node that has lost its place goes on with
  the bytes that come, and nothing but the check sum (none on TCP) tells a message
  from the middle of another one; that this does not happen with the messages of a
  set-up is what the runs show;
* the packet codec, whose result for every packet would need induction over data.

## 5. Findings

`SavedNetwork` is violated: `State::ConnectMQTT` moves its strings into
`MQTTHandler::connect` and then writes the moved-from strings to the EEPROM, so
a successful connection erases the saved network (`State.cpp:193-200`), which
`main.cpp:70-71` means to try at the next start.

### Observations

Met while translating; the models behave the same way, and no property claims
otherwise.

The controller
* On the broker line `backspace` tests the length of the network name
  (`State.cpp:371`) and can call `pop_back()` on an empty string. The model goes
  to `halted`. The comment at `State.cpp:293-294` hard codes the address because
  entering one "hard locks the system".
* The constructor of `State` reads three registers through one `istringstream`
  without clearing its state, so the saved targets are never restored
  (`State.cpp:22-32`); the model starts them from `Uninit`.

* A lost second write of `setFanSpeed()` leaves a fan that was standing at the full
  speed of the kick, and a driver that believes otherwise, until the next write; and
  with a target equal to that belief no write follows.
* After a lost session nothing connects again: `mMQTTEnabled` stays true and the
  results of `publish()` are ignored (`MQTTHandler.cpp:108-125`).

Drivers
* A bounce so fast that its edges merge into one event can give a second report;
  a press within the delay modulo 2^32 microseconds of the last one is dropped.
* The `std::queue` of button events is changed by an interrupt while `main()`
  may be inside it; the model has its calls as steps and nothing below.
* A blank EEPROM has no NUL, so `read()` runs on; a time-out of the I2C bus ends
  the wait for the device as an acknowledgement does.

IP stack and session
* `tcp_client_err` leaves `tcp_pcb` pointing to a block lwIP has freed
  (`IPStack.cpp:158`); `write()` and `disconnect()` use it until the next
  `connect`.
* CONNECT is written while TCP is still opening (`MQTTHandler.cpp:32`).
* Bytes that do not fit the receive buffer are acknowledged to the peer and
  lost; the count of dropped bytes starts uninitialised.

nanomodbus
* The client never empties its receive buffer before a request: on RTU a late
  answer with the right function is taken for the next one's, and all later ones
  shift. A wrong answer between other nodes is not flushed
  (`nanomodbus.c:1569`).
* Exceptions are sent to broadcasts; function 23 is misread when it is meant for
  another node; the length in the TCP header is one short for file records.

MQTT clients
* C++, the default build: with a QoS 2 publish in flight, `connect()` resends it,
  whose `waitfor` in this build does not exist, and returns SUCCESS without
  having seen a CONNACK; answers of the old session then meet the new one's
  calls.
* C++, with QoS 2: a clean `connect` that fails has already dropped the message
  in flight, while the broker's kept session still holds its packet id as
  received; a later publish under the same id is acknowledged as a repetition
  and never delivered.
* C++: a call can return a positive value or 0 after the session was lost; the
  id of an acknowledgement is not compared, and the default build does not wait
  for QoS 2 acknowledgements; `pubrel` is never true, so an unfinished QoS 2
  message is sent as PUBLISH again; `sessionPresent` is ignored; a clean
  `connect` keeps the ids and handlers of the old session; packets are served
  and pings sent after the session was closed; `+` and `#` do not match an empty
  level, and `a/#` does not match `a`.
* C++, in a kept QoS 2 session: with the table of incoming ids full, a message is
  acknowledged and not handed on (`MQTTClient.h:615-629`).
* C: the timer that made a ping due also judges its answer (`MQTTClient.c:222`);
  `sendPacket` passes the whole length again after a partial write;
  `keepAliveInterval` is uninitialised before `MQTTConnect`, and kept from one
  connection to the next, so that `MQTTRun()` may send a ping before CONNECT; `MQTTYield` and
  `MQTTSetMessageHandler` take no mutex, and handlers run with it held; QoS 2
  messages that come twice are delivered twice.

Packet codec
* Deserializers return 1, success, for a remaining length below 2
  (`MQTTDeserializePublish.c:95`): when they give up they return the number of bytes of
  the length, which is also 1 for a short PUBLISH with a cut topic or an UNSUBSCRIBE
  with a cut filter. CONNECT and SUBSCRIBE return an error.
* A PUBLISH that ends before the end of its packet id is accepted, with a payload
  length of -1 or -2.
* Three serializers compare the buffer with too
  small a number (`MQTTConnectServer.c:127`); a SUBACK stores one more than
  `maxcount` (`MQTTSubscribeClient.c:123`) and UNSUBSCRIBE ignores it;
  `MQTTPacket_read` ignores a failed length (`MQTTPacket.c:303`).
* `checkVersion` accepts a prefix of the protocol name; empty user names and
  passwords are refused; strings of 65536 bytes or more wrap.

## 6. Not modelled

Display, framebuffer and fonts, and the set-up of the I2C buses: output and
configuration without state that decides anything. `MQTTFormat.c` (text for
logs), Paho's ports to other platforms, its samples and tests: not part of the
firmware. The wording of messages, the conversion of sensor words to floating
point, the inside of `std::queue`, and a page of the EEPROM torn by a power loss
are below the models.

## 7. Plan

Done: the controller, all drivers with state, Modbus, the connection and both
MQTT clients with the packets they exchange; proofs for all of them but the packet
codec, and of every safety property that the runs check but three (section 4).

Next, in this order:

1. `TcpIsFresh` for the messages of single registers, which is what the box sends.
2. The ring inside the UART: `PicoUart` over `RingBuffer` instead of a queue.
