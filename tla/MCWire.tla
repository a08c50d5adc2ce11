------------------------------- MODULE MCWire -------------------------------
(***************************************************************************)
(* What goes over the wire in other words than it was said: the codecs,    *)
(* ACL packets and the assemblers, the SDP server and the firmware loader. *)
(* They share nothing, so a behaviour is about one of them, the subject,   *)
(* and the variables of the others stay as they are.                       *)
(***************************************************************************)
EXTENDS MCAclTransfer, ServiceRecords, SdpServer, Reassembly, RealtekFirmware, TLC

VARIABLES
    subject,        \* what the behaviour is about
    sample          \* the values to encode

-----------------------------------------------------------------------------
(* Codecs: samples at the boundaries of every length and range.            *)

Options == INSTANCE ConfigOptions
Avc == INSTANCE AvcFrames
Caps == INSTANCE Capabilities

Numbers16 == {Nil, UInt(1, 255), UInt(2, 65535), UInt(4, 9), UInt(8, 1), UInt(16, 3),
              SInt(1, -1), SInt(4, -1), SInt(16, -1), Bool(0), Bool(1),
              Uuid(257), Uuid(65535), Uuid(65536), ForeignUuid(9)}
Lengths == {0, 1, 252, 253, 254, 255, 256, 257, 65531, 65532, 65533, 65535, 65536}
Leaves == Numbers16 \union {Text(n) : n \in Lengths} \union {Url(0), Url(256)}
Elements ==
    Leaves \union {Sequence(<<>>), Alternative(<<>>)}
      \union {Sequence(<<e>>) : e \in Leaves}
      \union {Sequence(<<Alternative(<<e, Nil>>), Uuid(1), Text(2)>>) : e \in Leaves}
Cuts(e) == {n \in (0 .. 6) \union {ByteSize(e) - k : k \in 1 .. 3} : 0 <= n /\ n < ByteSize(e)}

OptionSamples ==
    UNION {{Options!Option(name, v) :
               v \in {0, 1, 2, 3, 4, 48, 16383, 16384, 65535} \intersect Options!ValuesOf(name)}
           : name \in Options!Names}
      \union {Options!Unknown(t) : t \in {128, 255}}

Subunits == {Avc!Subunit(type, id) : type \in {"Panel", "Unit"}, id \in 0 .. 514}

CodecSamples ==
    UNION {{Caps!MediaCodec(Caps!Audio(c), IF c = 0 THEN 4 ELSE n) : n \in {0, 4, 253}}
           : c \in Caps!AudioCodecs}
      \union {Caps!MediaCodec(Caps!Video(1), 3), Caps!MediaCodec(Caps!Multimedia(2), 3)}
      \union {Caps!MediaTransport}
      \union {Caps!Generic(c, n) : c \in {"Reporting", "Recovery", "DelayReporting"}, n \in {0, 2, 255}}

CodecInit ==
    \/ \E e \in Elements : \E n \in Cuts(e) : sample = [element |-> e, cut |-> n]
    \/ \E a \in OptionSamples, b \in OptionSamples, hint \in {128, 255}, length \in {0, 2, 255} :
           sample = [options |-> <<a, b>>, hint |-> hint, length |-> length]
    \/ \E s \in Subunits : Avc!IsSubunit(s) /\ sample = [subunit |-> s]
    \/ \E c \in CodecSamples : sample = [capability |-> c]

CodecOff == sample = [off |-> TRUE]

-----------------------------------------------------------------------------
(* SDP: the records of the example, and requests whose lists take one or   *)
(* several pieces, are refused, or are searches.                           *)

RecordHandles == <<65537, 65538, 65539>>
Records == (65537 :> A2dpSink(65537)) @@ (65538 :> AvrcpController(65538))
             @@ (65539 :> AvrcpTarget(65539))
AllIds == Sequence(<<UInt(4, 65535)>>)
Request(kind, pattern, handle, max, ids) ==
    [kind |-> kind, pattern |-> pattern, handle |-> handle, max |-> max, ids |-> ids]
Requests ==
    [one |-> Request("Attribute", Nil, 65537, 45, AllIds),
     classes |-> Request("SearchAttribute", Sequence(<<L2CAP>>), 0, 128,
                         Sequence(<<UInt(2, 1), UInt(4, (4 * 65536) + 9)>>)),
     empty |-> Request("SearchAttribute", Sequence(<<Uuid(4356)>>), 0, 7, AllIds),
     wrong |-> Request("SearchAttribute", Sequence(<<UInt(2, 3)>>), 0, 128, AllIds),
     unknown |-> Request("Attribute", Nil, 5, 100, AllIds),
     handles |-> Request("Search", Sequence(<<AVCTP>>), 0, 5, Nil),
     nothing |-> Request("Search", Nil, 0, 5, Nil)]

Sdp == INSTANCE SdpAnswers WITH Handles <- RecordHandles
ASSUME SdpRecords == Sdp!RecordsValid

MCAnswers == Sdp!WholeAnswers
MCLists == Sdp!ListRequests
MCSearches == Sdp!SearchRequests
MCMaximum == Sdp!MaxBytes

-----------------------------------------------------------------------------
(* Firmware: a chip for every row and some for none, files that are there  *)
(* or not, and patches that end within a fragment or with one.             *)

MCFileSets == {{"firmware", "config"}, {"firmware"}, {"config"}}

Says(lmp, hci, version, type) ==
    {[lmp |-> lmp, hci |-> hci, version |-> version, type |-> type, rom |-> rom] : rom \in 0 .. 1}
MCChips ==
    UNION {Says(lmp, hci, version, 3) :
               lmp \in {4608, 34563, 34595, 34849, 34657, 34850, 34898, 34897},
               hci \in {3, 10, 11, 12, 13, 135}, version \in {40, 41, 42, 51, 52, 53}}
Project == <<[opcode |-> 3, length |-> 2], [opcode |-> 0, length |-> 1]>>
Patch(name, id, length) == [name |-> name, chip |-> id, length |-> length]
File(signature, length, instructions, patches) ==
    [signature |-> signature, extension |-> TRUE, length |-> length,
     instructions |-> instructions, patches |-> patches]
MCFirmwares ==
    {File("Realtech", 50, Project, <<Patch("p", 1, 8), Patch("q", 2, 13), Patch("r", 2, 9)>>),
     File("RTBTCore", 50, Project, <<Patch("p", 2, 10)>>),
     File("Realtech", 50, <<[opcode |-> 255, length |-> 1]>> \o Project, <<>>),
     File("none", 16, <<>>, <<>>), File("none", 7, <<>>, <<>>)}

-----------------------------------------------------------------------------
(* The part that a behaviour is not about stays in one initial state.      *)

SdpOff == SdpInit
AssemblyOff == protocol = "avctp" /\ AssemblyInit
LoaderOff ==
    /\ chip = [lmp |-> 0, hci |-> 0, version |-> 0, type |-> 0, rom |-> 0]
    /\ files = {} /\ firmware = File("none", 0, <<>>, <<>>)
    /\ pc = "find" /\ row = NoRow /\ payload = <<>> /\ received = <<>> /\ memory = <<>>

Init ==
    \/ subject = "codecs" /\ CodecInit /\ TransferInit /\ SdpOff /\ AssemblyOff /\ LoaderOff
    \/ subject = "transfer" /\ CodecOff /\ TransferInit /\ SdpOff /\ AssemblyOff /\ LoaderOff
    \/ subject = "sdp" /\ CodecOff /\ TransferInit /\ SdpInit /\ AssemblyOff /\ LoaderOff
    \/ subject = "assemblers" /\ CodecOff /\ TransferInit /\ SdpOff /\ AssemblyInit /\ LoaderOff
    \/ subject = "firmware" /\ CodecOff /\ TransferInit /\ SdpOff /\ AssemblyOff /\ LoaderInit

Transfer(action) ==
    /\ subject = "transfer" /\ action
    /\ UNCHANGED <<subject, sample, sdpVars, assemblyVars, loaderVars>>

Next ==
    \/ Transfer(TransferNext)
    \/ /\ subject = "sdp" /\ SdpNext
       /\ UNCHANGED <<subject, sample, transferVars, assemblyVars, loaderVars>>
    \/ /\ subject = "assemblers" /\ AssemblyNext
       /\ UNCHANGED <<subject, sample, transferVars, sdpVars, loaderVars>>
    \/ /\ subject = "firmware" /\ LoaderNext
       /\ UNCHANGED <<subject, sample, transferVars, sdpVars, assemblyVars>>

vars == <<subject, sample, transferVars, sdpVars, assemblyVars, loaderVars>>

\* The fairness of FairTransfer.
Spec ==
    /\ Init /\ [][Next]_vars
    /\ \A t \in Tasks : WF_vars(Transfer(SendChunk(t) /\ sent[t] # 0))
    /\ WF_vars(Transfer(PushPacket))

-----------------------------------------------------------------------------
\* What is encoded is decoded again, with lengths that agree, and no part of it
\* is taken for the whole: data elements, configuration options, subunit
\* addresses and capabilities (the encodings under sdp/data_element/,
\* l2cap/configuration.rs, avc/mod.rs and avdtp/capabilities.rs).
RoundTrips ==
    /\ "element" \in DOMAIN sample =>
           ElementRoundTrips(sample.element) /\ PrefixRefused(sample.element, sample.cut)
    /\ "options" \in DOMAIN sample =>
           Options!OptionsRoundTrip(sample.options, sample.hint, sample.length)
    /\ "subunit" \in DOMAIN sample =>
           Avc!SubunitRoundTrips(sample.subunit) /\ Avc!UnitRoundTrips(sample.subunit)
    /\ "capability" \in DOMAIN sample => Caps!CapabilityRoundTrips(sample.capability)
=============================================================================
