--------------------------- MODULE MCAvrcpSession ---------------------------
(* A small instance: a button pressed and released, and pressed once more  *)
(* by another task; two status calls with the same PDU; a registration.    *)
EXTENDS AvrcpSession

CONSTANTS press, release, again, title, artist, track

MCCalls == {press, release, again, title, artist, track}
MCKind == [c \in MCCalls |-> CASE c \in {press, release, again} -> "pass"
                               [] c = track -> "register"
                               [] OTHER -> "status"]
MCPdu == [c \in MCCalls |-> IF MCKind[c] = "status" THEN "attributes" ELSE None]
MCFrame == [c \in MCCalls |-> CASE c \in {press, again} -> "pressed"
                                [] c = release -> "released"
                                [] OTHER -> None]
MCAfter == [c \in MCCalls |-> IF c = release THEN press ELSE None]
MCPeerCommands == {<<"query", None>>, <<"register", None>>, <<"press", 0>>, <<"press", 1>>,
                   <<"setvolume", 0>>, <<"setvolume", MaxVolume + 1>>, <<"overlong", 1>>}
=============================================================================
