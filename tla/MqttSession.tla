---------------------------- MODULE MqttSession ----------------------------
(***************************************************************************)
(* Class MQTTHandler and the connection of class IPStack below it: who     *)
(* owns the Wi-Fi stack, the TCP control block and the client, from the    *)
(* first connect() through lost connections to the next one.  lwIP's       *)
(* callbacks run only while the handler polls, inside a call that reads.   *)
(***************************************************************************)
EXTENDS Integers, FiniteSets

CONSTANTS
  MaxStacks,    \* how often connect() is called
  MaxMessages   \* how many messages arrive on one connection

ASSUME SessionAssumption == MaxStacks \in Nat /\ MaxMessages \in Nat

VARIABLES
  pc,           \* what MQTTHandler::connect is doing, or "idle"
  retry,        \* its counter of attempts
  made,         \* IPStack objects made so far
  mIPStack,     \* the stack object, 0 for nullptr
  linkup, tcp_pcb, connected,       \* its members; control block 0 is NULL
  alive,        \* the control blocks lwIP has not freed
  mMQTTClient,  \* the stack object the client refers to, 0 for nullptr
  isconnected, subFilter, attached, \* its members: a subscription's topic
                                    \* filter, the default handler
  mMQTTEnabled,
  arrived, handled                  \* messages, and calls of messageHandler

stackVars == <<made, mIPStack, linkup>>
tcpVars == <<tcp_pcb, connected, alive>>
clientVars == <<mMQTTClient, isconnected, subFilter, attached>>
countVars == <<arrived, handled>>
sessionVars == <<pc, retry, stackVars, tcpVars, clientVars, mMQTTEnabled,
                 countVars>>

\* Client::closeSession() with cleansession set, as connect() asks for.
closeSession == isconnected' = FALSE /\ subFilter' = "none"

SessionInit ==
  /\ pc = "idle" /\ retry = 0 /\ made = 0 /\ mIPStack = 0 /\ linkup = FALSE
  /\ tcp_pcb = 0 /\ connected = FALSE /\ alive = {}
  /\ mMQTTClient = 0 /\ isconnected = FALSE /\ subFilter = "none"
  /\ attached = FALSE /\ mMQTTEnabled = FALSE /\ arrived = 0 /\ handled = 0

-----------------------------------------------------------------------------
(* MQTTHandler::connect *)

\* IPStack::disconnect() on the stack, which the handler then lets go.
DropStackOnly == mIPStack' = 0 /\ UNCHANGED tcpVars
DropStack ==
  /\ mIPStack' = 0
  /\ alive' = alive \ {tcp_pcb} /\ tcp_pcb' = 0 /\ connected' = FALSE

\* What is left of an earlier connection goes, the new stack joins the Wi-Fi.
Disable == mMQTTEnabled' = FALSE
ConnectBegin ==
  /\ pc = "idle" /\ made < MaxStacks
  /\ Disable
  /\ mMQTTClient' = IF mMQTTEnabled THEN 0 ELSE mMQTTClient
  /\ alive' = alive \ {tcp_pcb} /\ tcp_pcb' = 0 /\ connected' = FALSE
  /\ made' = made + 1 /\ mIPStack' = made + 1 /\ linkup' \in BOOLEAN
  /\ isconnected' = FALSE /\ subFilter' = "none" /\ attached' = FALSE
  /\ arrived' = 0 /\ handled' = 0
  /\ pc' = "wifi" /\ retry' = 0

Retry ==
  /\ pc = "wifi" /\ ~linkup /\ retry + 1 < 3
  /\ retry' = retry + 1 /\ linkup' \in BOOLEAN
  /\ UNCHANGED <<pc, made, mIPStack, tcpVars, clientVars, mMQTTEnabled,
                 countVars>>

\* "Wifi network unavailable": the end of every connect() that fails.
Fail ==
  /\ DropStack /\ pc' = "idle" /\ UNCHANGED <<made, linkup, countVars>>

NoWifi ==
  /\ pc = "wifi" /\ ~linkup /\ retry + 1 >= 3
  /\ Fail /\ retry' = retry + 1 /\ UNCHANGED <<clientVars, mMQTTEnabled>>

NewClient ==
  /\ pc = "wifi" /\ linkup
  /\ mMQTTClient' = mIPStack /\ pc' = "tcp"
  /\ UNCHANGED <<retry, stackVars, tcpVars, isconnected, subFilter, attached,
                 mMQTTEnabled, countVars>>

\* IPStack::connect() fails for want of an address or of memory, or because of
\* tcp_connect(), whose control block the end of connect() closes ...
TcpFails ==
  /\ pc = "tcp"
  /\ mMQTTEnabled' = FALSE /\ Fail /\ UNCHANGED <<retry, clientVars>>
\* ... or the connection is under way, and the client's CONNECT is written.
Attach == attached' = TRUE
TcpOpens ==
  /\ pc = "tcp"
  /\ tcp_pcb' = mIPStack /\ alive' = alive \cup {mIPStack} /\ Attach
  /\ pc' = "mqtt"
  /\ UNCHANGED <<retry, stackVars, connected, mMQTTClient, isconnected, subFilter,
                 mMQTTEnabled, countVars>>

\* The CONNACK: mMQTTEnabled is set before the SUBSCRIBE is written.
Accepted ==
  /\ pc = "mqtt" /\ connected
  /\ isconnected' = TRUE /\ mMQTTEnabled' = TRUE /\ pc' = "subscribe"
  /\ UNCHANGED <<retry, stackVars, tcpVars, mMQTTClient, subFilter, attached,
                 countVars>>
Refused ==
  /\ pc = "mqtt"
  /\ Fail /\ closeSession /\ mMQTTEnabled' = FALSE
  /\ UNCHANGED <<retry, mMQTTClient, attached>>

\* mMQTTSubscribe() has a copy of the topic, which ends with the call while
\* the client keeps the pointer; connect() succeeds whatever it returns.
Subscribed ==
  /\ pc = "subscribe" /\ pc' = "idle"
  /\ \/ subFilter' = "stale" /\ UNCHANGED isconnected
     \/ closeSession
     \/ UNCHANGED <<isconnected, subFilter>>     \* refused: 0x80
  /\ UNCHANGED <<retry, stackVars, tcpVars, mMQTTClient, attached,
                 mMQTTEnabled, countVars>>

-----------------------------------------------------------------------------
(* MQTTHandler::keepAlive and send, and what comes in while they read *)

Polling == pc \in {"mqtt", "subscribe"} \/ (pc = "idle" /\ mMQTTEnabled)

\* yield() pings on, session or not; a ping that fails or is not answered
\* closes the session, which mMQTTEnabled does not follow.
keepAlive ==
  /\ pc = "idle" /\ mMQTTEnabled
  /\ closeSession \/ UNCHANGED <<isconnected, subFilter>>
  /\ UNCHANGED <<pc, retry, stackVars, tcpVars, mMQTTClient, attached,
                 mMQTTEnabled, countVars>>

\* publish() gives up before it writes when the session is closed.
send ==
  /\ pc = "idle" /\ mMQTTEnabled /\ isconnected
  /\ closeSession \/ UNCHANGED <<isconnected, subFilter>>
  /\ UNCHANGED <<pc, retry, stackVars, tcpVars, mMQTTClient, attached,
                 mMQTTEnabled, countVars>>

\* deliverMessage(): a filter that is gone may read as anything.  The handler
\* publishes the new status.
Message ==
  /\ pc # "mqtt" /\ Polling /\ isconnected /\ arrived < MaxMessages
  /\ arrived' = arrived + 1
  /\ \E match \in (IF subFilter = "stale" THEN BOOLEAN ELSE {FALSE}) :
       handled' = handled + (IF match \/ attached THEN 1 ELSE 0)
  /\ UNCHANGED <<pc, retry, stackVars, tcpVars, clientVars, mMQTTEnabled>>

tcp_client_connected ==
  /\ Polling /\ tcp_pcb \in alive /\ ~connected /\ connected' = TRUE
  /\ UNCHANGED <<pc, retry, stackVars, tcp_pcb, alive, clientVars,
                 mMQTTEnabled, countVars>>

\* The connection is reset or has timed out: lwIP frees the control block and
\* then calls tcp_client_err(), which does nothing.
tcp_client_err ==
  /\ Polling /\ tcp_pcb \in alive /\ alive' = alive \ {tcp_pcb}
  /\ UNCHANGED <<pc, retry, stackVars, tcp_pcb, connected, clientVars,
                 mMQTTEnabled, countVars>>

Connecting ==
  \/ Retry \/ NoWifi \/ NewClient \/ TcpFails \/ TcpOpens
  \/ Accepted \/ Refused \/ Subscribed
SessionNext ==
  \/ ConnectBegin \/ Connecting \/ keepAlive \/ send
  \/ Message \/ tcp_client_connected \/ tcp_client_err
SessionSpec == SessionInit /\ [][SessionNext]_sessionVars
\* Joining the Wi-Fi, CONNECT and SUBSCRIBE all have a time-out.
SessionFairSpec == SessionSpec /\ WF_sessionVars(Connecting)

-----------------------------------------------------------------------------
\* The values the members can have.
SessionTypeOK ==
  /\ pc \in {"idle", "wifi", "tcp", "mqtt", "subscribe"} /\ retry \in 0..3
  /\ made \in 0..MaxStacks /\ mIPStack \in {0, made}
  /\ tcp_pcb \in 0..made /\ alive \subseteq 1..made
  /\ mMQTTClient \in 0..made /\ subFilter \in {"none", "stale"}
  /\ {linkup, connected, isconnected, attached, mMQTTEnabled}
       \subseteq BOOLEAN
  /\ arrived \in 0..MaxMessages /\ handled \in 0..MaxMessages

(* Whenever keepAlive() and send() may use the client, it refers to the    *)
(* stack that exists, and that stack has a control block: a client left    *)
(* over from a connection that failed refers to a destroyed stack.         *)
EnabledHasStack ==
  mMQTTEnabled => mIPStack # 0 /\ mMQTTClient = mIPStack /\ tcp_pcb # 0

(* lwIP holds no control block that no stack knows of, and a connect()     *)
(* that failed leaves neither a stack nor a control block.                 *)
NothingLeaks ==
  /\ alive \subseteq {tcp_pcb}
  /\ pc = "idle" /\ ~mMQTTEnabled => mIPStack = 0 /\ alive = {}

(* Every settings message reaches messageHandler once, although the topic  *)
(* filter of the subscription is a pointer to a string that is gone: the   *)
(* default handler is the same function.                                   *)
MessagesHandledOnce == handled = arrived

(* What connect() replaces or gives up is used by nobody and kept by       *)
(* nobody, and no message falls between the old and the new.               *)
SessionSafe ==
  SessionTypeOK /\ EnabledHasStack /\ NothingLeaks /\ MessagesHandledOnce

(* connect() returns, however often the Wi-Fi, the broker or the           *)
(* subscription fail.                                                      *)
ConnectReturns == pc # "idle" ~> pc = "idle"
=============================================================================
