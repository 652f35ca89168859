-------------------------- MODULE NetworkLinkProofs --------------------------
(***************************************************************************)
(* For every set of device ids and every retry limit: the delays keep their *)
(* bounds, the client is subscribed under the device id it publishes with,  *)
(* and what the publisher noted is what the broker holds.                   *)
(***************************************************************************)
EXTENDS NetworkLink, TLAPS

-----------------------------------------------------------------------------
(* The backoff                                                             *)

Service(states) == [state : states, delay : Delays]

LEMMA DoubledIsBounded ==
  ASSUME NEW delay \in Delays
  PROVE  Doubled(delay) \in Delays
  <1> DEFINE twice == (2 * delay) % DelayModulus
  <1>1. delay \in Nat /\ 1 <= delay /\ MaxRetryDelay \in Nat /\ 1 <= MaxRetryDelay
    BY LinkAssumption DEF Delays, InitialDelay
  <1>2. twice \in Int
    BY <1>1, LinkAssumption
  <1>3. Doubled(delay) = IF twice < delay \/ twice > MaxRetryDelay THEN MaxRetryDelay
                                                                   ELSE twice
    BY DEF Doubled
  <1> HIDE DEF twice
  <1> QED
    BY <1>1, <1>2, <1>3 DEF Delays, InitialDelay

LEMMA RetryIsTyped ==
  ASSUME NEW states, "Backoff" \in states, NEW service \in Service(states)
  PROVE  /\ ScheduleRetry(service) \in Service(states)
         /\ ScheduleRetry(service).state = "Backoff"
  BY DoubledIsBounded DEF Service, ScheduleRetry

-----------------------------------------------------------------------------
(* Types                                                                   *)

WifiOK ==
  /\ wifi \in Service(WifiStates)
  /\ wifi.state = "Connected" => wifi.delay = InitialDelay
  /\ link \in {"Off", "Trying", "Up"}

MqttOK ==
  /\ mqtt \in Service(MqttStates)
  /\ mqtt.state = "Connected" => mqtt.delay = InitialDelay
  /\ session \in Prefixes \cup {"None"}

NtpOK == ntp \in [state : {"Idle", "WaitingForSync", "Synchronized"}, set : BOOLEAN]

SlotOK ==
  /\ broker \in BOOLEAN /\ prefix \in Prefixes
  /\ fresh \in BOOLEAN /\ note \in Bodies \cup {Nothing}
  /\ status \in Statuses
  /\ retained \in [Prefixes -> Bodies \cup {Nothing}]
  /\ calm \in BOOLEAN

Parts == WifiOK /\ MqttOK /\ NtpOK /\ SlotOK

LEMMA PartsAreTheType == Parts <=> LinkTypeOK
  BY DEF Parts, LinkTypeOK, WifiOK, MqttOK, NtpOK, SlotOK, Service

LEMMA InitialIsDelay == InitialDelay \in Delays
  BY LinkAssumption DEF Delays, InitialDelay

LEMMA InitParts == Init => Parts
  <1> SUFFICES ASSUME Init PROVE Parts
    OBVIOUS
  <1>1. WifiOK
    BY InitialIsDelay DEF Init, WifiOK, Service, WifiStates
  <1>2. MqttOK
    BY InitialIsDelay DEF Init, MqttOK, Service, MqttStates
  <1>3. NtpOK
    BY DEF Init, NtpOK
  <1>4. SlotOK
    BY DEF Init, SlotOK
  <1> QED
    BY <1>1, <1>2, <1>3, <1>4 DEF Parts

LEMMA WifiUpdateOK ==
  ASSUME WifiOK, NEW waited \in BOOLEAN, WifiUpdate(waited)
  PROVE  WifiOK'
  <1> USE DEF WifiOK
  <1>1. CASE wifi.state = "Connecting" /\ link = "Up"
    BY <1>1, InitialIsDelay DEF WifiUpdate, Service, WifiStates
  <1>2. CASE \/ wifi.state = "Connecting" /\ link # "Up" /\ waited
             \/ wifi.state = "Connected" /\ link # "Up"
    <2>1. wifi' = ScheduleRetry(wifi) /\ link' = "Off"
      BY <1>2 DEF WifiUpdate
    <2> QED
      BY <2>1, RetryIsTyped DEF WifiStates
  <1>3. CASE wifi.state = "Backoff" /\ waited
    BY <1>3 DEF WifiUpdate, Service, WifiStates
  <1>4. CASE /\ ~(wifi.state = "Connecting" /\ link = "Up")
             /\ ~(\/ wifi.state = "Connecting" /\ link # "Up" /\ waited
                  \/ wifi.state = "Connected" /\ link # "Up")
             /\ ~(wifi.state = "Backoff" /\ waited)
    BY <1>4 DEF WifiUpdate, wifiVars
  <1> QED
    BY <1>1, <1>2, <1>3, <1>4

LEMMA ConnectedOnlyOK ==
  ASSUME MqttOK, prefix \in Prefixes, NEW subscribed \in BOOLEAN, ConnectedOnly(subscribed)
  PROVE  MqttOK'
  <1>1. ScheduleRetry(mqtt) \in Service(MqttStates) /\ ScheduleRetry(mqtt).state = "Backoff"
    BY RetryIsTyped DEF MqttOK, MqttStates
  <1> QED
    BY <1>1, InitialIsDelay DEF MqttOK, ConnectedOnly, Service, MqttStates

LEMMA MqttUpdateOK ==
  ASSUME MqttOK, SlotOK, NEW ready \in BOOLEAN, NEW waited \in BOOLEAN,
         NEW connects \in BOOLEAN, NEW subscribed \in BOOLEAN,
         MqttUpdate(ready, waited, connects, subscribed)
  PROVE  MqttOK'
  <1>1. ScheduleRetry(mqtt) \in Service(MqttStates) /\ ScheduleRetry(mqtt).state = "Backoff"
    BY RetryIsTyped DEF MqttOK, MqttStates
  <1>2. /\ mqtt \in Service(MqttStates) /\ session \in Prefixes \cup {"None"}
        /\ mqtt.state = "Connected" => mqtt.delay = InitialDelay
    BY DEF MqttOK
  <1>3. CASE mqtt' = ScheduleRetry(mqtt) /\ UNCHANGED session
    BY <1>1, <1>2, <1>3 DEF MqttOK
  <1>4. CASE UNCHANGED mqttVars
    BY <1>2, <1>4 DEF MqttOK, mqttVars
  <1>5. CASE /\ mqtt' \in {[mqtt EXCEPT !.state = "Unconfigured"],
                           [mqtt EXCEPT !.state = "WaitingForNetwork"]}
             /\ session' = "None"
    BY <1>2, <1>5 DEF MqttOK, Service, MqttStates
  <1>6. CASE ConnectedOnly(subscribed)
    BY <1>6, ConnectedOnlyOK DEF SlotOK
  <1> QED
    BY <1>3, <1>4, <1>5, <1>6 DEF MqttUpdate

LEMMA UpdateOK ==
  ASSUME Parts, NEW waits \in Waits, NEW connects \in BOOLEAN, NEW subscribed \in BOOLEAN,
         Update(waits, connects, subscribed)
  PROVE  Parts'
  <1>1. WifiOK'
    <2>1. WifiUpdate("Wifi" \in waits) /\ ("Wifi" \in waits) \in BOOLEAN
      BY DEF Update
    <2> QED
      BY <2>1, WifiUpdateOK DEF Parts
  <1>2. MqttOK'
    <2>1. /\ MqttUpdate(wifi'.state = "Connected", "Mqtt" \in waits, connects, subscribed)
          /\ (wifi'.state = "Connected") \in BOOLEAN /\ ("Mqtt" \in waits) \in BOOLEAN
      BY DEF Update
    <2> QED
      BY <2>1, MqttUpdateOK DEF Parts
  <1>3. NtpOK'
    BY DEF Parts, Update, NtpUpdate, NtpOK
  <1>4. SlotOK'
    BY DEF Parts, Update, SlotOK, slotVars
  <1> QED
    BY <1>1, <1>2, <1>3, <1>4 DEF Parts

LEMMA RestartsOK ==
  /\ WifiRestart => WifiOK'
  /\ \A host \in BOOLEAN : MqttRestart(host) => MqttOK'
  BY InitialIsDelay
  DEF WifiRestart, MqttRestart, WifiOK, MqttOK, Service, WifiStates, MqttStates

LEMMA PublishOK ==
  ASSUME Parts, NEW takes \in BOOLEAN, Publish(takes)
  PROVE  Parts'
  <1>1. Body(status) \in Bodies
    BY DEF Parts, SlotOK, Bodies
  <1>2. Synced \in Bodies \cup {Nothing}
    BY DEF Parts, SlotOK, Synced
  <1>3. note' \in Bodies \cup {Nothing} /\ fresh' = FALSE
    BY <1>1, <1>2 DEF Publish
  <1>4. retained' \in [Prefixes -> Bodies \cup {Nothing}]
    BY <1>1 DEF Publish, Parts, SlotOK
  <1>5. UNCHANGED <<wifi, link, ntp, mqtt, session, broker, prefix, status, calm>>
    BY DEF Publish, wifiVars, mqttVars
  <1> QED
    BY <1>3, <1>4, <1>5 DEF Parts, WifiOK, MqttOK, NtpOK, SlotOK

LEMMA PartsNext ==
  ASSUME Parts, [Next]_vars
  PROVE  Parts'
  <1>1. CASE \E waits \in Waits, connects, subscribed \in BOOLEAN :
               Update(waits, connects, subscribed)
    BY <1>1, UpdateOK
  <1>2. CASE \E takes \in BOOLEAN : Publish(takes)
    BY <1>2, PublishOK
  <1>3. CASE \E p \in Prefixes, host \in BOOLEAN : ApplyMqtt(p, host)
    <2> PICK p \in Prefixes, host \in BOOLEAN : ApplyMqtt(p, host)
      BY <1>3
    <2>1. MqttOK'
      BY RestartsOK DEF ApplyMqtt
    <2>2. fresh' \in BOOLEAN
      BY DEF ApplyMqtt
    <2> QED
      BY <2>1, <2>2 DEF ApplyMqtt, Parts, WifiOK, NtpOK, SlotOK, wifiVars
  <1>4. CASE Begin
    <2>1. WifiOK' /\ MqttOK'
      BY <1>4, RestartsOK DEF Begin, Parts, SlotOK
    <2> QED
      BY <1>4, <2>1 DEF Begin, Parts, NtpOK, SlotOK
  <1>5. CASE ApplyWifi
    <2>1. WifiOK'
      BY <1>5, RestartsOK DEF ApplyWifi
    <2> QED
      BY <1>5, <2>1 DEF ApplyWifi, Parts, MqttOK, NtpOK, SlotOK, mqttVars, slotVars
  <1>6. CASE StationComesUp \/ LinkLost \/ SessionLost \/ ClockSet
    BY <1>6 DEF StationComesUp, LinkLost, SessionLost, ClockSet, Parts, WifiOK, MqttOK,
                NtpOK, SlotOK, wifiVars, mqttVars, slotVars
  <1>7. CASE StatusChanges \/ CalmDown \/ UNCHANGED vars
    BY <1>7 DEF StatusChanges, CalmDown, vars, Parts, WifiOK, MqttOK, NtpOK, SlotOK,
                wifiVars, mqttVars, slotVars
  <1>8. CASE ControllerReset
    BY <1>8, InitialIsDelay
    DEF ControllerReset, Parts, WifiOK, MqttOK, NtpOK, SlotOK, Service, WifiStates, MqttStates
  <1> QED
    BY <1>1, <1>2, <1>3, <1>4, <1>5, <1>6, <1>7, <1>8 DEF Next

Spec == Init /\ [][Next]_vars

\* Every retry delay of both services stays between the initial and the longest
\* delay, and starts anew after a connection.
THEOREM DelaysAreBounded == Spec => []LinkTypeOK
  <1>1. Parts /\ [Next]_vars => Parts'
    BY PartsNext
  <1> QED
    BY InitParts, <1>1, PartsAreTheType, PTL DEF Spec

-----------------------------------------------------------------------------
(* What the broker sees                                                    *)

\* A connection is subscribed under the present device id: every step that
\* changes the id ends it.
THEOREM PublishesWhereItListens == Spec => []SubscribedToCurrent
  <1>1. Init => SubscribedToCurrent
    BY DEF Init, SubscribedToCurrent, Accepts
  <1>2. SubscribedToCurrent /\ [Next]_vars => SubscribedToCurrent'
    <2> SUFFICES ASSUME SubscribedToCurrent, [Next]_vars
                 PROVE  SubscribedToCurrent'
      OBVIOUS
    <2> USE DEF SubscribedToCurrent, Accepts
    <2>1. ASSUME NEW waits \in Waits, NEW connects \in BOOLEAN, NEW subscribed \in BOOLEAN,
                 Update(waits, connects, subscribed)
          PROVE  SubscribedToCurrent'
      <3>1. prefix' = prefix
        BY <2>1 DEF Update
      <3>2. MqttUpdate(wifi'.state = "Connected", "Mqtt" \in waits, connects, subscribed)
        BY <2>1 DEF Update
      <3>3. \/ UNCHANGED mqttVars
            \/ session' = "None"
            \/ mqtt' = ScheduleRetry(mqtt)
            \/ session' = prefix
        BY <3>2 DEF MqttUpdate, ConnectedOnly
      <3> QED
        BY <3>1, <3>3 DEF mqttVars, ScheduleRetry
    <2>2. CASE \/ \E takes \in BOOLEAN : Publish(takes)
               \/ ApplyWifi \/ StationComesUp \/ LinkLost \/ ClockSet
               \/ StatusChanges \/ CalmDown \/ UNCHANGED vars
      BY <2>2 DEF Publish, ApplyWifi, StationComesUp, LinkLost, ClockSet, StatusChanges,
                  CalmDown, vars, mqttVars
    <2>3. CASE \/ \E p \in Prefixes, host \in BOOLEAN : ApplyMqtt(p, host)
               \/ Begin \/ SessionLost \/ ControllerReset
      BY <2>3 DEF ApplyMqtt, Begin, SessionLost, ControllerReset, MqttRestart
    <2> QED
      BY <2>1, <2>2, <2>3 DEF Next
  <1> QED
    BY <1>1, <1>2, PTL DEF Spec

\* A generation is only new once the network has begun.
IdleIsSeen == wifi.state = "Idle" => ~fresh

NoteInv == Parts /\ NoteIsRetained /\ IdleIsSeen

LEMMA IdleNext ==
  ASSUME Parts, IdleIsSeen, [Next]_vars
  PROVE  IdleIsSeen'
  <1> USE DEF IdleIsSeen
  <1>1. ASSUME NEW waits \in Waits, NEW connects \in BOOLEAN, NEW subscribed \in BOOLEAN,
               Update(waits, connects, subscribed)
        PROVE  IdleIsSeen'
    <2>1. WifiUpdate("Wifi" \in waits) /\ fresh' = fresh
      BY <1>1 DEF Update, slotVars
    <2>2. wifi \in Service(WifiStates)
      BY DEF Parts, WifiOK
    <2>3. wifi' = wifi \/ wifi'.state # "Idle"
      BY <2>1, <2>2 DEF WifiUpdate, ScheduleRetry, wifiVars, Service
    <2> QED
      BY <2>1, <2>3
  <1>2. CASE \E takes \in BOOLEAN : Publish(takes)
    BY <1>2 DEF Publish
  <1>3. CASE Begin \/ ApplyWifi
    BY <1>3 DEF Begin, ApplyWifi, WifiRestart
  <1>4. CASE \E p \in Prefixes, host \in BOOLEAN : ApplyMqtt(p, host)
    BY <1>4 DEF ApplyMqtt, wifiVars
  <1>5. CASE ControllerReset
    BY <1>5 DEF ControllerReset
  <1>6. CASE \/ StationComesUp \/ LinkLost \/ SessionLost \/ ClockSet
             \/ StatusChanges \/ CalmDown \/ UNCHANGED vars
    BY <1>6 DEF StationComesUp, LinkLost, SessionLost, ClockSet, StatusChanges,
                CalmDown, vars, wifiVars, slotVars
  <1> QED
    BY <1>1, <1>2, <1>3, <1>4, <1>5, <1>6 DEF Next

\* The publisher never takes for published what the broker does not hold under
\* the present device id.
THEOREM NotesAreRetained == Spec => []NoteIsRetained
  <1>1. Init => NoteInv
    BY InitParts DEF Init, NoteInv, NoteIsRetained, IdleIsSeen
  <1>2. NoteInv /\ [Next]_vars => NoteInv'
    <2> SUFFICES ASSUME Parts, NoteIsRetained, IdleIsSeen, [Next]_vars
                 PROVE  NoteIsRetained'
      BY PartsNext, IdleNext DEF NoteInv
    <2>1. ASSUME NEW takes \in BOOLEAN, Publish(takes)
          PROVE  NoteIsRetained'
      <3>1. prefix \in Prefixes /\ retained \in [Prefixes -> Bodies \cup {Nothing}]
        BY DEF Parts, SlotOK
      <3> DEFINE due == Synced # Body(status)
                 accepted == due /\ Accepts /\ takes
      <3>2. /\ note' = IF due /\ accepted THEN Body(status) ELSE Synced
            /\ retained' = IF accepted THEN [retained EXCEPT ![prefix] = Body(status)]
                                       ELSE retained
            /\ prefix' = prefix
        BY <2>1 DEF Publish, Noted
      <3>3. Synced # Nothing => retained[prefix] = Synced
        BY DEF Synced, NoteIsRetained
      <3> HIDE DEF due
      <3>4. CASE accepted
        BY <3>1, <3>2, <3>4 DEF NoteIsRetained
      <3>5. CASE ~accepted
        BY <3>2, <3>3, <3>5 DEF NoteIsRetained
      <3> QED
        BY <3>4, <3>5
    <2>2. CASE \E p \in Prefixes, host \in BOOLEAN : ApplyMqtt(p, host)
      BY <2>2 DEF ApplyMqtt, NoteIsRetained
    <2>3. CASE Begin
      BY <2>3 DEF Begin, NoteIsRetained, IdleIsSeen
    <2>4. CASE ControllerReset
      BY <2>4 DEF ControllerReset, NoteIsRetained
    <2>5. CASE \/ \E waits \in Waits, connects, subscribed \in BOOLEAN :
                    Update(waits, connects, subscribed)
               \/ ApplyWifi \/ StationComesUp \/ LinkLost \/ SessionLost \/ ClockSet
               \/ StatusChanges \/ CalmDown \/ UNCHANGED vars
      BY <2>5 DEF Update, ApplyWifi, StationComesUp, LinkLost, SessionLost, ClockSet,
                  StatusChanges, CalmDown, vars, slotVars, NoteIsRetained
    <2> QED
      BY <2>1, <2>2, <2>3, <2>4, <2>5 DEF Next
  <1>3. NoteInv => NoteIsRetained
    BY DEF NoteInv
  <1> QED
    BY <1>1, <1>2, <1>3, PTL DEF Spec

=============================================================================
