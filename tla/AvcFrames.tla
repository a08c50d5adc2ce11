------------------------------ MODULE AvcFrames ------------------------------
(***************************************************************************)
(* The address of an AV/C subunit (avc/mod.rs): a type of five bits and an *)
(* id of three, which two extension bytes raise to 514.  5 says that an    *)
(* extension follows, 6 is reserved, 7 belongs to the unit itself.         *)
(***************************************************************************)
EXTENDS Integers, Sequences, FiniteSetsExt

Unit == "Unit"
Extended == "Extended"

Subunit(type, id) == [type |-> type, id |-> id]

\* What the assertions of write_to_buffer let pass.  The id of a unit is 7, or
\* the subtraction of the header's id underflows.
IsSubunit(s) ==
    /\ s.type # Extended
    /\ s.id \in (0 .. 514) \ {5, 6}
    /\ s.type = Unit => s.id >= 7

(* Mutant: the second extension byte is the rest itself. *)
ExtensionBytes_FromZero(rest) ==
    LET first == Min({rest, 255})
    IN  IF rest = 0 THEN <<>>
        ELSE IF first = 255 THEN <<first, (rest - first) % 256>> ELSE <<first>>

\* What is left of the id: a byte, and another, counted from 1, if that is full.
ExtensionBytes(rest) ==
    LET first == Min({rest, 255})
    IN  IF rest = 0 THEN <<>>
        ELSE IF first = 255 THEN <<first, ((rest - first) % 256) + 1>> ELSE <<first>>

HeaderId(s) == IF s.type = Unit THEN 7 ELSE Min({s.id, 5})

WriteSubunit(s) ==
    <<Subunit(s.type, HeaderId(s))>> \o ExtensionBytes(s.id - HeaderId(s))

Invalid == Subunit("invalid", 0)

ReadSubunit(bytes) ==
    LET header == bytes[1]
        Id(extension) == Subunit(header.type, 5 + extension)
    IN  CASE header.type = Extended \/ header.id = 6 -> Invalid
          [] header.id # 5 /\ header.id # 6 -> header
          [] header.id = 5 /\ (Len(bytes) < 2 \/ (Len(bytes) > 1 /\ bytes[2] = 0)) -> Invalid
          [] header.id = 5 /\ Len(bytes) > 1 /\ bytes[2] \in 1 .. 254 -> Id(bytes[2])
          [] header.id = 5 /\ Len(bytes) = 2 /\ bytes[2] = 255 -> Invalid
          [] header.id = 5 /\ Len(bytes) > 2 /\ bytes[2] = 255 -> Id(bytes[3] - 1 + bytes[2])

-----------------------------------------------------------------------------
\* Every address that can be written is read back, up to the largest, and each
\* byte of it is one; without its last byte it is refused.
SubunitRoundTrips(s) ==
    LET bytes == WriteSubunit(s)
    IN  s.type # Unit =>
            /\ ReadSubunit(bytes) = s
            /\ \A i \in 2 .. Len(bytes) : bytes[i] \in 0 .. 255
            /\ Len(bytes) > 1 =>
                   ReadSubunit(SubSeq(bytes, 1, Len(bytes) - 1)) = Invalid

\* The unit itself is read back if it has the id it is always written with.
UnitRoundTrips(s) ==
    s.type = Unit /\ s.id = 7 => ReadSubunit(WriteSubunit(s)) = s
=============================================================================
