---------------------------- MODULE NetworkLink ----------------------------
(***************************************************************************)
(* The controller's way to the broker: WifiManager, NtpService and         *)
(* MqttService as Network::update() runs them, the reconfiguration that    *)
(* NetworkRuntime pushes into them, and ModuleSlotPublisher, which keeps   *)
(* the retained status of a slot on the broker.  The publisher treats      *)
(* every slot alike; one is modelled.                                      *)
(*                                                                         *)
(* Time: whether a wait is over is free in every pass; the retry delays    *)
(* keep their values, in units of the initial delay.  The broker gets what *)
(* the client accepts.                                                     *)
(***************************************************************************)
EXTENDS Integers

CONSTANTS
  Prefixes,       \* the device ids the console may set
  Statuses,       \* what the module host may show of the slot
  MaxRetryDelay,  \* maxRetryDelayMs
  DelayModulus    \* 2^32

InitialDelay == 1

ASSUME LinkAssumption ==
  /\ MaxRetryDelay \in Nat \ {0} /\ DelayModulus \in Nat
  /\ MaxRetryDelay < DelayModulus

VARIABLES
  wifi,       \* WifiManager: state, delay
  link,       \* the station: "Off", "Trying" after begin(), "Up"
  ntp,        \* NtpService and whether the system clock is set
  mqtt,       \* MqttService: state, delay
  session,    \* the client: "None", or the prefix it subscribed under
  broker,     \* whether a broker host is configured and stored
  prefix,     \* the device id, stored and, once begun, of MqttTopicLayout
  fresh,      \* the layout has a generation the publisher has not seen
  note,       \* _published of the slot, Nothing without _publishedOk
  status,     \* the public snapshot of the slot
  retained,   \* what the broker holds for the slot under each prefix
  calm        \* no more outages, refusals or commands

vars == <<wifi, link, ntp, mqtt, session, broker, prefix, fresh, note, status, retained, calm>>

wifiVars == <<wifi, link>>
mqttVars == <<mqtt, session>>
slotVars == <<fresh, note, status, retained>>

-----------------------------------------------------------------------------
(* Backoff of both services                                                *)

\* Faulty variant: the delay grows past its maximum.
DoubledUnbounded(delay) == (2 * delay) % DelayModulus

Doubled(delay) ==
  LET twice == (2 * delay) % DelayModulus
  IN  IF twice < delay \/ twice > MaxRetryDelay THEN MaxRetryDelay ELSE twice

\* _scheduleRetry
ScheduleRetry(service) == [state |-> "Backoff", delay |-> Doubled(service.delay)]

-----------------------------------------------------------------------------
(* WifiManager                                                             *)

WifiStates == {"Idle", "Connecting", "Connected", "Backoff"}

\* update(); waited: the connect timeout, or the retry delay, is over.
WifiUpdate(waited) ==
  CASE wifi.state = "Connecting" /\ link = "Up" ->
         /\ wifi' = [state |-> "Connected", delay |-> InitialDelay]
         /\ UNCHANGED link
    [] \/ wifi.state = "Connecting" /\ link # "Up" /\ waited
       \/ wifi.state = "Connected" /\ link # "Up" ->
         wifi' = ScheduleRetry(wifi) /\ link' = "Off"
    [] wifi.state = "Backoff" /\ waited ->
         wifi' = [wifi EXCEPT !.state = "Connecting"] /\ link' = "Trying"
    [] OTHER -> UNCHANGED wifiVars

\* reconfigure() and begin(): the station is left and tried anew.
WifiRestart ==
  /\ wifi' = [state |-> "Connecting", delay |-> InitialDelay]
  /\ link' = "Trying"

-----------------------------------------------------------------------------
(* NtpService                                                              *)

\* update(): configuring the adapter again changes no state here.
NtpUpdate ==
  ntp' = IF ntp.state = "Idle" THEN ntp
         ELSE [ntp EXCEPT !.state = IF ntp.set THEN "Synchronized" ELSE "WaitingForSync"]

-----------------------------------------------------------------------------
(* MqttService                                                             *)

MqttStates == {"Idle", "Unconfigured", "WaitingForNetwork", "Connected", "Backoff"}

\* The end of update() when the client is connected.
ConnectedOnly(subscribed) ==
  IF subscribed
  THEN mqtt' = [state |-> "Connected", delay |-> InitialDelay] /\ session' = prefix
  ELSE mqtt' = ScheduleRetry(mqtt) /\ session' = "None"

\* update(ready): the client connects or not, takes the subscriptions or not.
MqttUpdate(ready, waited, connects, subscribed) ==
  CASE mqtt.state = "Idle" -> UNCHANGED mqttVars
    [] mqtt.state # "Idle" /\ ~broker ->
         mqtt' = [mqtt EXCEPT !.state = "Unconfigured"] /\ session' = "None"
    [] mqtt.state # "Idle" /\ broker /\ ~ready ->
         mqtt' = [mqtt EXCEPT !.state = "WaitingForNetwork"] /\ session' = "None"
    [] broker /\ ready /\ mqtt.state = "Connected" /\ session = "None" ->
         mqtt' = ScheduleRetry(mqtt) /\ UNCHANGED session
    [] \/ broker /\ ready /\ mqtt.state = "Connected" /\ session # "None"
       \/ broker /\ ready /\ mqtt.state = "Backoff" /\ ~waited ->
         UNCHANGED mqttVars
    [] OTHER ->
         IF connects THEN ConnectedOnly(subscribed)
         ELSE mqtt' = ScheduleRetry(mqtt) /\ UNCHANGED session

\* Faulty variant: the connection is kept.
MqttRestartKept(host) ==
  /\ mqtt' = IF mqtt.state = "Connected" THEN mqtt
             ELSE [state |-> IF host THEN "WaitingForNetwork" ELSE "Unconfigured",
                   delay |-> InitialDelay]
  /\ UNCHANGED session

\* Faulty variant: reconfigure() without the begin() that follows it.
MqttRestartIdle(host) ==
  /\ mqtt' = [state |-> "Idle", delay |-> InitialDelay]
  /\ session' = "None"

\* setBroker(), reconfigure() and begin(); host: a broker host is set.
MqttRestart(host) ==
  /\ mqtt' = [state |-> IF host THEN "WaitingForNetwork" ELSE "Unconfigured",
              delay |-> InitialDelay]
  /\ session' = "None"

-----------------------------------------------------------------------------
(* One pass of Network::update()                                           *)

\* A client only connects over a link that is up.
Update(waits, connects, subscribed) ==
  /\ connects => link = "Up"
  /\ calm => (connects = (link = "Up")) /\ subscribed
  /\ WifiUpdate("Wifi" \in waits)
  /\ NtpUpdate
  /\ MqttUpdate(wifi'.state = "Connected", "Mqtt" \in waits, connects, subscribed)
  /\ UNCHANGED <<broker, prefix, slotVars, calm>>

\* Network::begin() takes broker and prefix from the stored configuration; the
\* layout has a new generation when the stored id is not the default.
Begin ==
  /\ wifi.state = "Idle"
  /\ WifiRestart
  /\ MqttRestart(broker)
  /\ ntp' = [ntp EXCEPT !.state = "WaitingForSync"]
  /\ fresh' \in BOOLEAN
  /\ UNCHANGED <<broker, prefix, note, status, retained, calm>>

\* NetworkRuntime::apply of Wi-Fi fields: Wi-Fi restarts, MQTT does not.
ApplyWifi ==
  /\ ~calm /\ wifi.state # "Idle"
  /\ WifiRestart
  /\ UNCHANGED <<ntp, mqttVars, broker, prefix, slotVars, calm>>

\* NetworkRuntime::apply of MQTT fields, the prefix and the host among them; the
\* layout has a new generation when the device id differs.
ApplyMqtt(p, host) ==
  /\ ~calm /\ wifi.state # "Idle"
  /\ MqttRestart(host)
  /\ broker' = host /\ prefix' = p
  /\ fresh' = (fresh \/ p # prefix)
  /\ UNCHANGED <<wifiVars, ntp, note, status, retained, calm>>

-----------------------------------------------------------------------------
(* ModuleSlotPublisher                                                     *)

Nothing == << >>

\* _syncTopicGeneration
Synced == IF fresh THEN Nothing ELSE note

\* writeSlotStatusBody: what is printed of the snapshot.
Body(s) ==
  CASE s.state \in {"Online", "Unsupported"} -> <<s.state, s.type, s.address>>
    [] s.state = "Fault" -> <<s.state, s.fault>>
    [] OTHER -> <<s.state>>

\* MqttService::publish is accepted.
Accepts == mqtt.state = "Connected" /\ session # "None"

\* Faulty variant: the text is noted whether or not it was accepted.
NotedAlways(accepted) == TRUE

\* _publishIfChanged notes what was accepted.
Noted(accepted) == accepted

\* update(); takes: the client takes the publish.
Publish(takes) ==
  /\ calm => takes
  /\ LET due == Synced # Body(status)
         accepted == due /\ Accepts /\ takes
     IN  /\ note' = IF due /\ Noted(accepted) THEN Body(status) ELSE Synced
         /\ retained' = IF accepted THEN [retained EXCEPT ![prefix] = Body(status)] ELSE retained
  /\ fresh' = FALSE
  /\ UNCHANGED <<wifiVars, ntp, mqttVars, broker, prefix, status, calm>>

-----------------------------------------------------------------------------
(* The environment                                                         *)

StationComesUp ==
  /\ link = "Trying"
  /\ link' = "Up"
  /\ UNCHANGED <<wifi, ntp, mqttVars, broker, prefix, slotVars, calm>>

LinkLost ==
  /\ ~calm /\ link = "Up"
  /\ link' = "Trying"
  /\ UNCHANGED <<wifi, ntp, mqttVars, broker, prefix, slotVars, calm>>

\* The broker or the network below ends the connection.
SessionLost ==
  /\ ~calm /\ session # "None"
  /\ session' = "None"
  /\ UNCHANGED <<wifiVars, ntp, mqtt, broker, prefix, slotVars, calm>>

ClockSet ==
  /\ ntp.state # "Idle" /\ ~ntp.set
  /\ ntp' = [ntp EXCEPT !.set = TRUE]
  /\ UNCHANGED <<wifiVars, mqttVars, broker, prefix, slotVars, calm>>

StatusChanges ==
  /\ ~calm
  /\ \E s \in Statuses \ {status} : status' = s
  /\ UNCHANGED <<wifiVars, ntp, mqttVars, broker, prefix, fresh, note, retained, calm>>

\* The controller reboots: the broker keeps what it holds, a new publisher has
\* noted nothing, and the slot is empty.
ControllerReset ==
  /\ ~calm
  /\ wifi' = [state |-> "Idle", delay |-> InitialDelay] /\ link' = "Off"
  /\ mqtt' = [state |-> "Idle", delay |-> InitialDelay] /\ session' = "None"
  /\ ntp' = [state |-> "Idle", set |-> FALSE]
  /\ fresh' = FALSE /\ note' = Nothing
  /\ \E s \in Statuses : s.state = "Empty" /\ status' = s
  /\ UNCHANGED <<broker, prefix, retained, calm>>

CalmDown ==
  /\ ~calm
  /\ calm' = TRUE
  /\ UNCHANGED <<wifiVars, ntp, mqttVars, broker, prefix, slotVars>>

-----------------------------------------------------------------------------
Init ==
  /\ wifi = [state |-> "Idle", delay |-> InitialDelay] /\ link = "Off"
  /\ ntp = [state |-> "Idle", set |-> FALSE]
  /\ mqtt = [state |-> "Idle", delay |-> InitialDelay] /\ session = "None"
  /\ broker \in BOOLEAN /\ prefix \in Prefixes
  /\ fresh = FALSE /\ note = Nothing
  /\ status \in {s \in Statuses : s.state = "Empty"}
  /\ retained = [p \in Prefixes |-> Nothing]
  /\ calm = FALSE

Waits == SUBSET {"Wifi", "Mqtt"}

Next ==
  \/ \E waits \in Waits, connects, subscribed \in BOOLEAN : Update(waits, connects, subscribed)
  \/ \E takes \in BOOLEAN : Publish(takes)
  \/ \E p \in Prefixes, host \in BOOLEAN : ApplyMqtt(p, host)
  \/ Begin \/ ApplyWifi
  \/ StationComesUp \/ LinkLost \/ SessionLost \/ ClockSet
  \/ StatusChanges \/ ControllerReset \/ CalmDown

\* The loop runs for ever, and there are passes in which both waits are over
\* (the connect timeout is the exception: once the network is calm, the station
\* comes up before it passes).
Pass ==
  /\ calm
  /\ \E waits \in Waits, connects, subscribed \in BOOLEAN :
       /\ "Mqtt" \in waits /\ ("Wifi" \in waits <=> wifi.state = "Backoff")
       /\ Update(waits, connects, subscribed)

FairSpec ==
  /\ Init /\ [][Next]_vars
  /\ SF_vars(Pass) /\ WF_vars(calm /\ Publish(TRUE)) /\ SF_vars(calm /\ StationComesUp)
  /\ WF_vars(calm /\ ClockSet)
  /\ WF_vars(Begin)

-----------------------------------------------------------------------------
(* Correctness                                                             *)

Bodies == {Body(s) : s \in Statuses}
Delays == InitialDelay .. MaxRetryDelay

\* LinkTypeOK: every variable stays in its type; no retry delay leaves its
\* bounds, and a service that is connected starts the next outage with the
\* initial delay (_scheduleRetry of both services).
LinkTypeOK ==
  /\ wifi \in [state : WifiStates, delay : Delays]
  /\ link \in {"Off", "Trying", "Up"}
  /\ ntp \in [state : {"Idle", "WaitingForSync", "Synchronized"}, set : BOOLEAN]
  /\ mqtt \in [state : MqttStates, delay : Delays]
  /\ wifi.state = "Connected" => wifi.delay = InitialDelay
  /\ mqtt.state = "Connected" => mqtt.delay = InitialDelay
  /\ session \in Prefixes \cup {"None"}
  /\ broker \in BOOLEAN /\ prefix \in Prefixes
  /\ fresh \in BOOLEAN /\ note \in Bodies \cup {Nothing}
  /\ status \in Statuses
  /\ retained \in [Prefixes -> Bodies \cup {Nothing}]
  /\ calm \in BOOLEAN

\* SubscribedToCurrent: while the service publishes, the client is subscribed
\* under the device id of the topics it publishes to: commands on another
\* prefix are ignored, also when the prefix changed during a connection
\* (reconfigure, _subscribeConfiguredTopics).
SubscribedToCurrent == Accepts => session = prefix

\* NoteIsRetained: what the publisher takes for published is what the broker
\* holds under the present device id, whatever was refused, lost or renamed.
NoteIsRetained == ~fresh /\ note # Nothing => retained[prefix] = note

\* LinkRestored: once the network is calm and a broker is configured, the
\* service connects and stays connected, from whatever state the outages, the
\* refusals and the reconfigurations left the two services in.
LinkRestored == calm /\ broker ~> [](wifi.state = "Connected" /\ mqtt.state = "Connected")

\* StatusReachesBroker: the broker ends up with the present status of the slot,
\* under the present device id.
StatusReachesBroker == calm ~> [](broker => retained[prefix] = Body(status))
=============================================================================
