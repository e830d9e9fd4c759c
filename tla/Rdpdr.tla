-------------------------------- MODULE Rdpdr --------------------------------
(***************************************************************************)
(* The RDPDR channel client of rdpdr.rs: the negotiation with the server   *)
(* (announce, capabilities, client id confirm), the list of active device  *)
(* ids, and the routing of device replies and IRPs to the smart card or to *)
(* the shared drive, behind the allow_directory_sharing gate.              *)
(*                                                                         *)
(* The server's PDUs arrive on a FIFO channel; the browser may announce a  *)
(* shared drive (write_client_device_list_announce) at any time. What the  *)
(* drive does with an IRP is the subject of DirClient; here an IRP is only *)
(* routed.                                                                 *)
(***************************************************************************)
EXTENDS Integers, Sequences, SequencesExt

CONSTANTS
  SCARD_DEVICE_ID,        \* the smart card's device id (consts.rs)
  DriveIds,               \* device ids the browser gives shared drives
  SharingConfigs,         \* the values dir::Config.allow_directory_sharing may take
  MaxRounds,              \* bound on announce/confirm rounds the server runs
  EarlyDriveAnnounce      \* whether a drive may be announced before CLIENTID_CONFIRM

ASSUME SCARD_DEVICE_ID \notin DriveIds
ASSUME SharingConfigs \subseteq BOOLEAN /\ SharingConfigs # {} /\ EarlyDriveAnnounce \in BOOLEAN
ASSUME MaxRounds \in Nat \ {0}

VARIABLES
  allowDirectorySharing, \* Client.dir.allow_directory_sharing, fixed at connect
  activeDeviceIds,  \* Client.active_device_ids
  toClient,         \* server PDUs not yet read by the client
  toServer,         \* client PDUs not yet read by the server
  alive,            \* FALSE once a handler returned an error
  \* the server's view
  rounds,           \* SERVER_ANNOUNCE rounds started
  phase,            \* where the server is in the negotiation round
  announced,        \* device ids the server has read in device list announces
  replied,          \* device ids the server has answered
  driveCapability,  \* whether the client's capability response offered drives
  \* the browser
  drivesShared,     \* drive ids the browser has announced
  \* history
  routed,           \* set of [dev, what, to]: where each reply or IRP went
  rogue             \* the server sent a drive IRP though the client offered no drive capability

vars == <<allowDirectorySharing, rogue, activeDeviceIds, toClient, toServer, alive, rounds, phase, announced, replied,
          driveCapability, drivesShared, routed>>

Devices == {SCARD_DEVICE_ID} \cup DriveIds
Majors == {"DEVICE_CONTROL", "CREATE"}
\* PDUs with the printer component, and a core packet id the client does not
\* implement (the server sends USER_LOGGEDON after login)
Ignored == {"PRN", "USER_LOGGEDON"}

Pdus ==
       [type: {"ANNOUNCE", "CAPABILITY", "CLIENTID_CONFIRM"}]
  \cup [type: {"DEVICE_REPLY"}, dev: Devices, ok: BOOLEAN]
  \cup [type: {"IOREQUEST"}, dev: Devices, major: Majors]
  \cup [type: Ignored]

-----------------------------------------------------------------------------
(* Client helpers.                                                         *)

\* push_active_device_id: a duplicate is an error.
PushActiveDeviceIdOk(ids, d) == d \notin Range(ids)

\* get_scard_device_id: the first active id ("we always push it first").
HasScardDeviceId(ids) == ids # <<>>
\* A slip: the last pushed id taken.
GetScardDeviceIdLast(ids) == ids[Len(ids)]
GetScardDeviceId(ids) == ids[1]

Fail ==
  /\ alive' = FALSE
  /\ UNCHANGED <<activeDeviceIds, toServer, rounds, phase, announced, replied,
                 driveCapability, drivesShared, routed>>

Route(dev, what, to) == routed' = routed \cup {[dev |-> dev, what |-> what, to |-> to]}

\* add_headers_and_chunkify: the RDPDR shared header (component CORE and
\* the packet id) in front of the body. Chunking is vchan's and the channel
\* is FIFO, so a PDU is one element of toServer.
AddHeadersAndChunkify(packetId, body) == <<[type |-> packetId, body |-> body]>>

Write(pdus) == toServer' = toServer \o pdus

\* ClientCoreCapabilityResponse::new_response: the general and smart card
\* capability sets, and the drive set when directory sharing is allowed.
NewResponse(allow) == {"GENERAL", "SMARTCARD"} \cup (IF allow THEN {"DRIVE"} ELSE {})

\* ClientDeviceListAnnounceRequest::new_smartcard, new_drive, new_empty.
NewSmartcard(id) == <<[type |-> "SMARTCARD", id |-> id]>>
NewDrive(id) == <<[type |-> "FILESYSTEM", id |-> id]>>
NewEmpty == <<>>

\* handle_server_announce: the announce reply (sent under the packet id
\* CLIENTID_CONFIRM, as MS-RDPEFS 2.2.2.3 has it) and the client name.
HandleServerAnnounce ==
  Write(AddHeadersAndChunkify("CLIENTID_CONFIRM", "reply")
        \o AddHeadersAndChunkify("CLIENT_NAME", "name"))

\* handle_server_capability
HandleServerCapability ==
  Write(AddHeadersAndChunkify("CLIENT_CAPABILITY", NewResponse(allowDirectorySharing)))

\* Slips: the smart card pushed on every confirm, through the duplicate
\* check or around it; or pushed but the empty list sent.
HandleClientIdConfirmEveryTime ==
  IF PushActiveDeviceIdOk(activeDeviceIds, SCARD_DEVICE_ID)
  THEN /\ activeDeviceIds' = Append(activeDeviceIds, SCARD_DEVICE_ID)
       /\ Write(AddHeadersAndChunkify("DEVICELIST_ANNOUNCE", NewSmartcard(SCARD_DEVICE_ID)))
       /\ UNCHANGED alive
  ELSE /\ alive' = FALSE
       /\ UNCHANGED <<activeDeviceIds, toServer>>
HandleClientIdConfirmUnchecked ==
  /\ activeDeviceIds' = Append(activeDeviceIds, SCARD_DEVICE_ID)
  /\ Write(AddHeadersAndChunkify("DEVICELIST_ANNOUNCE", NewSmartcard(SCARD_DEVICE_ID)))
  /\ UNCHANGED alive
HandleClientIdConfirmEmptyList ==
  /\ IF SCARD_DEVICE_ID \notin Range(activeDeviceIds)
     THEN activeDeviceIds' = Append(activeDeviceIds, SCARD_DEVICE_ID)
     ELSE UNCHANGED activeDeviceIds
  /\ Write(AddHeadersAndChunkify("DEVICELIST_ANNOUNCE", NewEmpty))
  /\ UNCHANGED alive

\* handle_client_id_confirm: announce the smart card once, an empty list after.
HandleClientIdConfirm ==
  /\ IF SCARD_DEVICE_ID \notin Range(activeDeviceIds)
     THEN /\ activeDeviceIds' = Append(activeDeviceIds, SCARD_DEVICE_ID)
          /\ Write(AddHeadersAndChunkify("DEVICELIST_ANNOUNCE", NewSmartcard(SCARD_DEVICE_ID)))
     ELSE /\ Write(AddHeadersAndChunkify("DEVICELIST_ANNOUNCE", NewEmpty))
          /\ UNCHANGED activeDeviceIds
  /\ UNCHANGED alive

\* handle_device_reply: unknown ids are an error; the first active id goes
\* to the smart card, any other to the drive (a TDP acknowledge).
HandleDeviceReply(pdu) ==
  IF pdu.dev \notin Range(activeDeviceIds) THEN Fail
  ELSE /\ Route(pdu.dev, "reply",
                IF pdu.dev # GetScardDeviceId(activeDeviceIds) THEN "dir" ELSE "scard")
       /\ UNCHANGED <<activeDeviceIds, toServer, alive>>

\* A slip: drive IRPs accepted without the allow_directory_sharing check.
HandleDeviceIoRequestUngated(pdu) ==
  IF ~HasScardDeviceId(activeDeviceIds) THEN Fail
  ELSE /\ Route(pdu.dev, pdu.major,
                IF pdu.major = "DEVICE_CONTROL" /\ pdu.dev = GetScardDeviceId(activeDeviceIds)
                THEN "scard" ELSE "dir")
       /\ UNCHANGED <<activeDeviceIds, toServer, alive>>

\* handle_device_io_request and process_irp_device_control: drive IRPs are
\* refused unless sharing is allowed; DEVICE_CONTROL goes to the smart card
\* when its device id is the first active id. What the smart card or the
\* drive then writes back is not modelled here (DirClient has the drive's).
HandleDeviceIoRequest(pdu) ==
  IF pdu.major # "DEVICE_CONTROL" /\ ~allowDirectorySharing THEN Fail
  ELSE IF pdu.major = "DEVICE_CONTROL" /\ ~HasScardDeviceId(activeDeviceIds) THEN Fail
  ELSE LET toScard == pdu.major = "DEVICE_CONTROL"
                      /\ pdu.dev = GetScardDeviceId(activeDeviceIds)
       IN IF ~toScard /\ ~allowDirectorySharing THEN Fail
          ELSE /\ Route(pdu.dev, pdu.major, IF toScard THEN "scard" ELSE "dir")
               /\ UNCHANGED <<activeDeviceIds, toServer, alive>>

-----------------------------------------------------------------------------
(* read_and_reply: one PDU from the server, dispatched on its packet id.   *)

ReadAndReply ==
  /\ alive
  /\ toClient # <<>>
  /\ toClient' = Tail(toClient)
  /\ UNCHANGED <<allowDirectorySharing, rogue, rounds, phase, announced, replied, driveCapability, drivesShared>>
  /\ LET pdu == Head(toClient) IN
     \/ /\ pdu.type = "ANNOUNCE"
        /\ HandleServerAnnounce
        /\ UNCHANGED <<activeDeviceIds, alive, routed>>
     \/ /\ pdu.type = "CAPABILITY"
        /\ HandleServerCapability
        /\ UNCHANGED <<activeDeviceIds, alive, routed>>
     \/ /\ pdu.type = "CLIENTID_CONFIRM"
        /\ HandleClientIdConfirm
        /\ UNCHANGED routed
     \/ pdu.type = "DEVICE_REPLY" /\ HandleDeviceReply(pdu)
     \/ pdu.type = "IOREQUEST" /\ HandleDeviceIoRequest(pdu)
     \* the RDPDR_CTYP_PRN early return, and the catch-all arm: no reply
     \/ pdu.type \in Ignored /\ UNCHANGED <<activeDeviceIds, toServer, alive, routed>>

\* write_client_device_list_announce, called for the browser's
\* SharedDirectoryAnnounce: push the id, then write the announce.
WriteClientDeviceListAnnounce ==
  /\ alive
  /\ \E d \in DriveIds \ drivesShared :
       /\ EarlyDriveAnnounce \/ SCARD_DEVICE_ID \in Range(activeDeviceIds)
       /\ drivesShared' = drivesShared \cup {d}
       /\ IF PushActiveDeviceIdOk(activeDeviceIds, d)
          THEN /\ activeDeviceIds' = Append(activeDeviceIds, d)
               /\ Write(AddHeadersAndChunkify("DEVICELIST_ANNOUNCE", NewDrive(d)))
               /\ UNCHANGED alive
          ELSE /\ alive' = FALSE
               /\ UNCHANGED <<activeDeviceIds, toServer>>
  /\ UNCHANGED <<allowDirectorySharing, rogue, toClient, rounds, phase, announced, replied, driveCapability, routed>>

-----------------------------------------------------------------------------
(* The server: MS-RDPEFS negotiation rounds (the second one after login).  *)
(* A round sends SERVER_ANNOUNCE, waits for the client name, then sends    *)
(* the capability request and the client id confirm.  The server reads    *)
(* the client's PDUs in order, replies to each device it reads in a device *)
(* list announce, and sends IRPs on accepted devices: only DEVICE_CONTROL  *)
(* on the smart card, anything on a drive, whether or not drives were      *)
(* offered.                                                                *)

NextPhase == [ANNOUNCE |-> "WAIT_NAME", CAPABILITY |-> "CLIENTID_CONFIRM",
              CLIENTID_CONFIRM |-> "DONE"]

\* a bound on PDUs in flight, so that the channel stays finite
MaxInFlight == 2

Send(pdu) ==
  /\ Len(toClient) < MaxInFlight
  /\ toClient' = Append(toClient, pdu)

ServerNegotiates ==
  /\ alive
  /\ \/ /\ phase \in {"ANNOUNCE", "CAPABILITY", "CLIENTID_CONFIRM"}
        /\ Send([type |-> phase])
        /\ phase' = NextPhase[phase]
        /\ UNCHANGED rounds
     \/ /\ phase = "DONE" /\ rounds < MaxRounds
        /\ Send([type |-> "ANNOUNCE"])
        /\ phase' = "WAIT_NAME"
        /\ rounds' = rounds + 1
  /\ UNCHANGED <<allowDirectorySharing, rogue, activeDeviceIds, toServer, alive, announced, replied, driveCapability,
                 drivesShared, routed>>

\* The server reads the client's next PDU.
ServerReceives ==
  /\ alive /\ toServer # <<>>
  /\ toServer' = Tail(toServer)
  /\ LET pdu == Head(toServer) IN
     /\ phase' = IF pdu.type = "CLIENT_NAME" /\ phase = "WAIT_NAME" THEN "CAPABILITY" ELSE phase
     /\ driveCapability' = IF pdu.type = "CLIENT_CAPABILITY" THEN "DRIVE" \in pdu.body
                           ELSE driveCapability
     /\ announced' = IF pdu.type = "DEVICELIST_ANNOUNCE"
                     THEN announced \cup {pdu.body[i].id : i \in DOMAIN pdu.body}
                     ELSE announced
  /\ UNCHANGED <<allowDirectorySharing, rogue, activeDeviceIds, toClient, alive, rounds, replied, drivesShared, routed>>

ServerRepliesToDevice ==
  /\ alive
  /\ \E d \in announced \ DOMAIN replied, ok \in BOOLEAN :
       /\ Send([type |-> "DEVICE_REPLY", dev |-> d, ok |-> ok])
       /\ replied' = (d :> ok) @@ replied
  /\ UNCHANGED <<allowDirectorySharing, rogue, activeDeviceIds, toServer, alive, rounds, phase, announced, driveCapability,
                 drivesShared, routed>>

ServerSendsIrp ==
  /\ alive
  /\ \E d \in DOMAIN replied, major \in Majors :
       /\ replied[d]
       /\ d = SCARD_DEVICE_ID => major = "DEVICE_CONTROL"
       /\ Send([type |-> "IOREQUEST", dev |-> d, major |-> major])
       /\ rogue' = (rogue \/ (d # SCARD_DEVICE_ID /\ ~driveCapability))
  /\ UNCHANGED <<allowDirectorySharing, activeDeviceIds, toServer, alive, rounds, phase, announced, replied,
                 driveCapability, drivesShared, routed>>

\* PDUs the client ignores, at any time.
ServerSendsIgnored ==
  /\ alive
  /\ \E t \in Ignored : Send([type |-> t])
  /\ UNCHANGED <<allowDirectorySharing, rogue, activeDeviceIds, toServer, alive, rounds, phase,
                 announced, replied, driveCapability, drivesShared, routed>>

ServerSteps ==
  ServerNegotiates \/ ServerReceives \/ ServerRepliesToDevice \/ ServerSendsIrp \/ ServerSendsIgnored

\* Nothing left that anyone can do: the bounded session is over.
Idle ==
  /\ ~ENABLED (ServerSteps \/ ReadAndReply \/ WriteClientDeviceListAnnounce)
  /\ UNCHANGED vars

Init ==
  /\ allowDirectorySharing \in SharingConfigs
  /\ activeDeviceIds = <<>>
  /\ toClient = <<>>
  /\ toServer = <<>>
  /\ alive = TRUE
  /\ rounds = 1
  /\ phase = "ANNOUNCE"
  /\ announced = {}
  /\ replied = <<>>
  /\ driveCapability = FALSE
  /\ drivesShared = {}
  /\ routed = {}
  /\ rogue = FALSE

Next == ServerSteps \/ ReadAndReply \/ WriteClientDeviceListAnnounce \/ Idle

\* The session task reads every PDU that arrives (weak fairness). The
\* server is assumed to follow MS-RDPEFS: it reads what the client writes,
\* goes on with the negotiation and answers every device announce. Its
\* channel to the client has room only now and then (the IRPs it may keep
\* sending compete for it), so those two steps are strongly fair.
Spec ==
  /\ Init /\ [][Next]_vars
  /\ WF_vars(ReadAndReply) /\ WF_vars(ServerReceives)
  /\ SF_vars(ServerNegotiates) /\ SF_vars(ServerRepliesToDevice)

-----------------------------------------------------------------------------
(* Properties.                                                             *)

TypeOK ==
  /\ activeDeviceIds \in Seq(Devices) /\ IsInjective(activeDeviceIds)
  /\ \A i \in 1 .. Len(toClient) : toClient[i] \in Pdus
  /\ \A i \in 1 .. Len(toServer) :
       toServer[i].type \in {"CLIENTID_CONFIRM", "CLIENT_NAME", "CLIENT_CAPABILITY",
                             "DEVICELIST_ANNOUNCE"}
  /\ alive \in BOOLEAN /\ rogue \in BOOLEAN /\ allowDirectorySharing \in SharingConfigs
  /\ announced \subseteq Devices /\ DOMAIN replied \subseteq Devices
  /\ routed \subseteq [dev: Devices, what: {"reply"} \cup Majors, to: {"scard", "dir"}]

\* Device replies and IRPs for the smart card's id, and only those, reach
\* the smart card client: get_scard_device_id's "first active id" is the
\* smart card whatever order the confirm and the browser's announcements
\* come in.
ScardRouting == \A h \in routed : h.to = "scard" <=> h.dev = SCARD_DEVICE_ID

\* A server that follows the protocol, sending drive IRPs only when the
\* client's capability response offered drives, never makes the client end
\* the session: a second CLIENTID_CONFIRM after login, device replies and
\* IRPs are all handled without error.
SessionSurvives == rogue \/ alive

\* With directory sharing not allowed, no IRP, whatever the server sends,
\* reaches the drive client (the checks in handle_device_io_request and
\* process_irp_device_control).
DriveGate == ~allowDirectorySharing => \A h \in routed : h.what # "reply" => h.to = "scard"

\* Every device the client pushes on its active list (the smart card at the
\* client id confirm, a drive when the browser shares it) is announced to
\* the server and eventually acknowledged, unless the session ends: the
\* announce PDUs of handle_client_id_confirm and
\* write_client_device_list_announce are never lost or left unsent.
DevicesEventuallyAcknowledged ==
  \A d \in Devices : [](d \in Range(activeDeviceIds) => <>(~alive \/ d \in DOMAIN replied))

====
