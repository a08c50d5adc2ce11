--------------------------- MODULE ServiceRecords ---------------------------
(***************************************************************************)
(* The service records of the crate: sequences of attributes, an id and a  *)
(* data element each, as attributes() lists them.                          *)
(***************************************************************************)
EXTENDS DataElements

Attribute(id, value) == [id |-> id, value |-> value]

\* Attribute ids, protocols, service classes and PSMs (sdp/ids.rs, l2cap/mod.rs).
RECORD_HANDLE == 0
CLASS_ID_LIST == 1
PROTOCOL_DESCRIPTOR_LIST == 4
BROWSE_GROUP_LIST == 5
PROFILE_DESCRIPTOR_LIST == 9
SUPPORTED_FEATURES == 785

L2CAP == Uuid(256)
AVCTP == Uuid(23)
AVDTP == Uuid(25)
PUBLIC_BROWSE_ROOT == Uuid(4098)
AUDIO_SINK == Uuid(4363)
AUDIO_DISTRIBUTION == Uuid(4365)
REMOTE_CONTROL == Uuid(4366)
REMOTE_CONTROL_CONTROLLER == Uuid(4367)
REMOTE_CONTROL_TARGET == Uuid(4364)

Pair(uuid, number) == Sequence(<<uuid, UInt(2, number)>>)

\* What every record of the crate has: a service over one protocol over L2CAP.
Over(handle, classes, protocol, psm, protocolVersion, profile, profileVersion) ==
    << Attribute(RECORD_HANDLE, UInt(4, handle)),
       Attribute(BROWSE_GROUP_LIST, Sequence(<<PUBLIC_BROWSE_ROOT>>)),
       Attribute(CLASS_ID_LIST, Sequence(classes)),
       Attribute(PROTOCOL_DESCRIPTOR_LIST,
                 Sequence(<<Pair(L2CAP, psm), Pair(protocol, protocolVersion)>>)),
       Attribute(PROFILE_DESCRIPTOR_LIST, Sequence(<<Pair(profile, profileVersion)>>)) >>

A2dpSink(handle) ==
    Over(handle, <<AUDIO_SINK>>, AVDTP, 25, 259, AUDIO_DISTRIBUTION, 259)

AvrcpController(handle) ==
    Over(handle, <<REMOTE_CONTROL, REMOTE_CONTROL_CONTROLLER>>, AVCTP, 23, 260,
         REMOTE_CONTROL, 262)
      \o <<Attribute(SUPPORTED_FEATURES, UInt(2, 1))>>

AvrcpTarget(handle) ==
    Over(handle, <<REMOTE_CONTROL_TARGET>>, AVCTP, 23, 260, REMOTE_CONTROL, 262)
      \o <<Attribute(SUPPORTED_FEATURES, UInt(2, 2))>>
=============================================================================
