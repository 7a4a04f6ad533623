-------------------------------- MODULE Mqtt --------------------------------
(***************************************************************************)
(* mqtt.c and webhook.c: the two ways an image leaves the device, the      *)
(* event handler of the MQTT client, and push_start and push_stop, which   *)
(* the network modules call when the link comes and goes.                  *)
(***************************************************************************)
EXTENDS Push

CONSTANTS
  PushMode,  \* "mqtt" or "webhook"
  Qos        \* mqtt.qos

ASSUME MqttAssumption == PushMode \in {"mqtt", "webhook"} /\ Qos \in 0..2

VARIABLES
  client,        \* g_MQ.client and the state the broker sees it in
  isConnected,   \* g_MQ.isConnected
  publishedBit,  \* MQTT_PUBLISHED_BIT
  inflight,      \* images published and not acknowledged
  delivered,     \* history: images the server has received
  link           \* the station, HaLow or PPP link below push_start

mqttVars == <<client, isConnected, publishedBit, inflight, delivered>>

-----------------------------------------------------------------------------
(* MQTT_EVENT_CONNECTED: subscribe to the onboarding topic. *)
MqttConnected ==
  /\ client = "connecting"
  /\ client' = "connected"
  /\ isConnected' = TRUE
  /\ UNCHANGED <<publishedBit, inflight, delivered, deviceVars, cameraVars, storageVars, pushVars>>

(* MQTT_EVENT_SUBSCRIBED: the stored files and the push task may start. *)
MqttSubscribed ==
  /\ client = "connected"
  /\ client' = "subscribed"
  /\ UploadStart
  /\ PushReady
  /\ UNCHANGED <<isConnected, publishedBit, inflight, delivered, pushNode, deviceVars,
                 cameraVars, flashVars, mutex, recVars, upFile, unread>>

(* The connection is gone: some of what was in flight had arrived. *)
LoseConnection ==
  /\ isConnected' = FALSE
  /\ inflight' = {}
  /\ \E arrived \in SUBSET inflight : delivered' = delivered \cup arrived
  /\ UNCHANGED publishedBit

(* MQTT_EVENT_DISCONNECTED, after which the client does not reconnect *)
(* (disable_auto_reconnect).                                          *)
MqttDisconnected ==
  /\ \/ client = "connecting"
     \/ client \in {"connected", "subscribed"} /\ "disconnect" \in Faults
  /\ client' = "down"
  /\ LoseConnection
  /\ UploadStop
  /\ PushExit
  /\ UNCHANGED <<pushNode, deviceVars, cameraVars, flashVars, mutex, recVars, upFile, unread>>

(* MQTT_EVENT_PUBLISHED: the event says which message was acknowledged, *)
(* the bit does not.                                                    *)
MqttPublished ==
  /\ client \in {"connected", "subscribed"}
  /\ \E i \in inflight :
       /\ inflight' = inflight \ {i}
       /\ delivered' = delivered \cup {i}
  /\ pushPc' = IF pushPc = "puback" THEN "success" ELSE pushPc
  /\ publishedBit' = (pushPc # "puback")
  /\ UNCHANGED <<client, isConnected, pushNode, deviceVars, cameraVars, storageVars>>

MqttEvent == MqttConnected \/ MqttSubscribed \/ MqttDisconnected \/ MqttPublished

-----------------------------------------------------------------------------
(* push_task with a node to publish: mqtt_publish_node or webhook_publish. *)

(* Mutant of PublishFails: push_task ignores the result. *)
PublishFailsUnnoticed ==
  /\ pushPc = "publish"
  /\ PushMode = "webhook" \/ ~isConnected \/ "publish" \in Faults
  /\ pushPc' = "success"
  /\ UNCHANGED <<mqttVars, pushNode, deviceVars, cameraVars, storageVars>>

PublishFails ==
  /\ pushPc = "publish"
  /\ PushMode = "webhook" \/ ~isConnected \/ "publish" \in Faults
  /\ pushPc' = "store"
  /\ \/ UNCHANGED delivered
     \/ /\ PushMode = "webhook"  \* received, but the answer is lost or not 2xx
        /\ link = "up" \/ "link_drop" \in Faults
        /\ delivered' = delivered \cup {pushNode.img}
  /\ UNCHANGED <<client, isConnected, publishedBit, inflight, pushNode,
                 deviceVars, cameraVars, storageVars>>

WebhookPublish ==
  /\ pushPc = "publish"
  /\ PushMode = "webhook"
  /\ link = "up"
  /\ delivered' = delivered \cup {pushNode.img}
  /\ pushPc' = "success"
  /\ UNCHANGED <<client, isConnected, publishedBit, inflight, pushNode,
                 deviceVars, cameraVars, storageVars>>

(* QoS 0: half a second, then success, whatever became of the message. *)
MqttPublishQos0 ==
  /\ pushPc = "publish"
  /\ PushMode = "mqtt" /\ Qos = 0 /\ isConnected
  /\ \/ delivered' = delivered \cup {pushNode.img}
     \/ "publish" \in Faults /\ UNCHANGED delivered
  /\ pushPc' = "success"
  /\ UNCHANGED <<client, isConnected, publishedBit, inflight, pushNode,
                 deviceVars, cameraVars, storageVars>>

(* QoS 1 and 2: publish, then wait for MQTT_PUBLISHED_BIT.  The bit is not *)
(* cleared before, so one that is already set ends the wait at once.       *)
MqttPublish ==
  /\ pushPc = "publish"
  /\ PushMode = "mqtt" /\ Qos # 0 /\ isConnected
  /\ inflight' = inflight \cup {pushNode.img}
  /\ pushPc' = IF publishedBit THEN "success" ELSE "puback"
  /\ publishedBit' = FALSE
  /\ UNCHANGED <<client, isConnected, delivered, pushNode, deviceVars, cameraVars, storageVars>>

(* Mutant of PublishTimeout: no answer counts as published. *)
PublishTimeoutIsOk ==
  /\ pushPc = "puback"
  /\ pushNode.img \notin inflight \/ "late_ack" \in Faults
  /\ pushPc' = "success"
  /\ UNCHANGED <<pushNode, mqttVars, deviceVars, cameraVars, storageVars>>

(* MQTT_PUBLISHED_TIMEOUT_MS, on a connection that is gone or too slow. *)
PublishTimeout ==
  /\ pushPc = "puback"
  /\ pushNode.img \notin inflight \/ "late_ack" \in Faults
  /\ pushPc' = "store"
  /\ UNCHANGED <<pushNode, mqttVars, deviceVars, cameraVars, storageVars>>

PushStep ==
  \/ (PushReadyTimeout \/ PushReceive \/ PushStore \/ PushSuccess) /\ UNCHANGED mqttVars
  \/ PublishFails \/ WebhookPublish \/ MqttPublishQos0 \/ MqttPublish \/ PublishTimeout

-----------------------------------------------------------------------------
(* mqtt_start does nothing while there is a client. *)
PushStart ==
  \/ /\ PushMode = "webhook"
     /\ UploadStart
     /\ PushReady
     /\ UNCHANGED mqttVars
  \/ /\ PushMode = "mqtt"
     /\ client' = IF client = "none" THEN "connecting" ELSE client
     /\ UNCHANGED <<isConnected, publishedBit, inflight, delivered, pushPc, storageBits, upPc>>

(* mqtt_esp_stop: the DISCONNECTED event of a live connection is handled *)
(* before the client is destroyed, or not at all.                        *)
PushStop ==
  /\ PushExit
  /\ \/ PushMode = "webhook" /\ UploadStop /\ UNCHANGED mqttVars
     \/ /\ PushMode = "mqtt"
        /\ client = "none"
        /\ UNCHANGED <<mqttVars, storageBits, upPc>>
     \/ /\ PushMode = "mqtt"
        /\ client # "none"
        /\ client' = "none"
        /\ LoseConnection
        /\ UploadStop \/ UNCHANGED <<storageBits, upPc>>

-----------------------------------------------------------------------------
MqttInit ==
  /\ client = "none"
  /\ isConnected = FALSE
  /\ publishedBit = FALSE
  /\ inflight = {}
  /\ delivered = {}
  /\ link = "off"

MqttPowerOff ==
  /\ client' = "none"
  /\ isConnected' = FALSE
  /\ publishedBit' = FALSE
  /\ inflight' = {}
  /\ \E arrived \in SUBSET inflight : delivered' = delivered \cup arrived

MqttTypeOK ==
  /\ client \in {"none", "connecting", "connected", "subscribed", "down"}
  /\ isConnected \in BOOLEAN
  /\ publishedBit \in BOOLEAN
  /\ inflight \subseteq Images
  /\ delivered \subseteq Images
  /\ link \in {"off", "down", "up"}
=============================================================================
