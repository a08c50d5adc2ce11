--------------------------- MODULE RealtekFirmware ---------------------------
(***************************************************************************)
(* Loading the firmware of a Realtek controller (firmware/realtek/): the   *)
(* driver row is found by what the chip says of itself, the files are      *)
(* fetched and parsed, and the patch for the chip's ROM version is sent to *)
(* it in fragments, with the number of each and a mark on the last.  Any   *)
(* call of the chip may fail, which ends the attempt.  Versions are        *)
(* integers: 51 is V5_1.                                                   *)
(***************************************************************************)
EXTENDS Integers, SequencesExt

CONSTANTS
    Chips,              \* what chips say: lmp, hci, version, type, and their rom
    FileSets,           \* which of the files "firmware" and "config" are there
    Firmwares,          \* contents of the firmware file: signature, length,
                        \* instructions (from the end) and patches (chip, length)
    ConfigLength,       \* bytes of the config file
    FragmentLength,     \* 252 in the code
    Indices             \* fragment numbers before they start again (0x80)

\* What a chip says are numbers.  Of a file the lengths are numbers, and a patch
\* has the four bytes that are replaced by the version of the file: from_bytes
\* cuts them off and panics without them.
ASSUME ChipsAssumption ==
    Chips \subseteq [lmp : Nat, hci : Nat, version : Nat, type : Nat, rom : Nat]
ASSUME FirmwaresAssumption ==
    \A f \in Firmwares :
        /\ f.length \in Nat
        /\ f.patches \in Seq([name : STRING, chip : Nat, length : Nat])
        /\ \A i \in DOMAIN f.patches : f.patches[i].length >= 4
ASSUME FragmentsAssumption ==
    ConfigLength \in Nat /\ FragmentLength \in Nat \ {0} /\ Indices \in Nat \ {0}

VARIABLES
    chip, files, firmware,  \* what this run starts with
    pc,                 \* where try_load_firmware is
    row,                \* the driver row that was found
    payload,            \* bytes to download
    received,           \* fragments the chip has acknowledged: number and end mark
    memory              \* their bytes, one fragment after the other

loaderVars == <<chip, files, firmware, pc, row, payload, received, memory>>

-----------------------------------------------------------------------------
(* DRIVER_INFOS, in its order.                                             *)

LMP_8723A == 4608
LMP_8703B == 34563
LMP_8723B == 34595
LMP_8821A == 34849
LMP_8761A == 34657
LMP_8822B == 34850
LMP_8852A == 34898
LMP_8851B == 34897

\* A row that is matched by LMP subversion, HCI subversion and version, and bus.
ByVersion(lmp, hci, version, bus, needed, rom, name) ==
    [lmp |-> lmp, hci |-> {hci}, version |-> {version}, type |-> 0 .. 15,
     bus |-> bus, needed |-> needed, rom |-> rom, name |-> name]

\* One that is matched by LMP subversion, chip type and bus.
ByType(lmp, type, bus, name) ==
    [lmp |-> lmp, hci |-> 0 .. 65535, version |-> 10 .. 54, type |-> {type},
     bus |-> bus, needed |-> TRUE, rom |-> TRUE, name |-> name]

Rows8723 ==
    << ByVersion(LMP_8723A, 11, 40, "Usb", FALSE, FALSE, "8723a"),
       ByVersion(LMP_8723B, 11, 40, "Uart", TRUE, TRUE, "8723bs"),
       ByVersion(LMP_8723B, 11, 40, "Usb", FALSE, TRUE, "8723b"),
       ByType(LMP_8703B, 3, "Uart", "8723cs_cg"),
       ByType(LMP_8703B, 4, "Uart", "8723cs_vf"),
       ByType(LMP_8703B, 5, "Uart", "8723cs_xx"),
       ByVersion(LMP_8723B, 13, 42, "Usb", TRUE, TRUE, "8723d"),
       ByVersion(LMP_8723B, 13, 42, "Uart", TRUE, TRUE, "8723ds") >>

Rows8821And8761 ==
    << ByVersion(LMP_8821A, 10, 40, "Usb", FALSE, TRUE, "8821a"),
       ByVersion(LMP_8821A, 12, 42, "Usb", FALSE, TRUE, "8821c"),
       ByVersion(LMP_8821A, 12, 42, "Uart", TRUE, TRUE, "8821cs"),
       ByVersion(LMP_8761A, 10, 40, "Usb", FALSE, TRUE, "8761a"),
       ByVersion(LMP_8761A, 11, 51, "Uart", FALSE, TRUE, "8761b"),
       ByVersion(LMP_8761A, 11, 51, "Usb", FALSE, TRUE, "8761bu") >>

Rows8822And885x ==
    << ByVersion(LMP_8822B, 12, 42, "Uart", TRUE, TRUE, "8822cs"),
       ByVersion(LMP_8822B, 12, 51, "Uart", TRUE, TRUE, "8822cs"),
       ByVersion(LMP_8822B, 12, 51, "Usb", FALSE, TRUE, "8822cu"),
       ByVersion(LMP_8822B, 11, 41, "Usb", TRUE, TRUE, "8822b"),
       ByVersion(LMP_8852A, 10, 52, "Usb", FALSE, TRUE, "8852au"),
       ByVersion(LMP_8852A, 11, 52, "Uart", TRUE, TRUE, "8852bs"),
       ByVersion(LMP_8852A, 11, 52, "Usb", FALSE, TRUE, "8852bu"),
       ByVersion(LMP_8852A, 12, 53, "Usb", FALSE, TRUE, "8852cu"),
       ByVersion(LMP_8851B, 11, 53, "Usb", FALSE, TRUE, "8851bu"),
       ByVersion(LMP_8852A, 135, 53, "Usb", FALSE, TRUE, "8852btu") >>

DriverInfos == Rows8723 \o Rows8821And8761 \o Rows8822And885x

(* Mutant: the bus is not compared. *)
RowMatches_AnyBus(r, c, bus) ==
    c.lmp = r.lmp /\ c.hci \in r.hci /\ c.version \in r.version /\ c.type \in r.type

RowMatches(r, c, bus) ==
    /\ c.lmp = r.lmp /\ c.hci \in r.hci /\ c.version \in r.version /\ c.type \in r.type
    /\ r.bus = bus

\* find_chip_info: an 8822B of revision 3 is taken for a V5_3 chip without
\* asking it; only an 8703B has a type.
ChipInfo ==
    IF chip.lmp = LMP_8822B /\ chip.hci = 3 THEN [chip EXCEPT !.version = 53, !.type = 0]
    ELSE IF chip.lmp = LMP_8703B THEN [chip EXCEPT !.type = @ % 16]
    ELSE [chip EXCEPT !.type = 0]

\* The loader always asks for the USB bus, and takes the first row that matches.
MatchingRows == {i \in DOMAIN DriverInfos : RowMatches(DriverInfos[i], ChipInfo, "Usb")}
First(places) == CHOOSE i \in places : \A j \in places : i <= j

-----------------------------------------------------------------------------
(* Firmware::from_bytes                                                    *)

\* The instructions at the end of the file are read backwards up to the one that
\* holds the project id, an end mark, or one without a length.
EndsScan(i) == i.opcode = 255 \/ i.length = 0 \/ (i.opcode = 0 /\ i.length = 1)

HasProjectId(f) ==
    \E n \in DOMAIN f.instructions :
        /\ f.instructions[n] = [opcode |-> 0, length |-> 1]
        /\ \A m \in 1 .. n - 1 : ~EndsScan(f.instructions[m])

IsFirmware(f) == f.signature \in {"Realtech", "RTBTCore"} /\ f.extension /\ HasProjectId(f)

\* A patch's last four bytes are replaced by the version of the file.
PatchBytes(p) ==
    [i \in 1 .. p.length |-> IF i > p.length - 4 THEN <<"version", 0>> ELSE <<p.name, i>>]

ConfigBytes == [i \in 1 .. ConfigLength |-> <<"config", i>>]
RawBytes(f) == [i \in 1 .. f.length |-> <<"raw", i>>]

RomVersion == IF row.rom THEN chip.rom ELSE 0
PatchesFor(version) == {i \in DOMAIN firmware.patches : firmware.patches[i].chip = version + 1}

-----------------------------------------------------------------------------
NoRow == [name |-> "none"]

LoaderInit ==
    /\ chip \in Chips /\ files \in FileSets /\ firmware \in Firmwares
    /\ pc = "find" /\ row = NoRow /\ payload = <<>> /\ received = <<>> /\ memory = <<>>

Unmoved == UNCHANGED <<chip, files, firmware>>

\* find_chip_info is tried twice, with the same outcome: drop_firmware is not
\* called.
FindDriver ==
    /\ pc = "find"
    /\ IF MatchingRows # {} THEN row' = DriverInfos[First(MatchingRows)] /\ pc' = "fetch"
                            ELSE row' = NoRow /\ pc' = "failed"
    /\ UNCHANGED <<payload, received, memory>> /\ Unmoved

\* A config file that is named must be there, needed or not.
HasConfig == row.name # "8723a"

FetchFiles ==
    /\ pc = "fetch"
    /\ pc' = IF "firmware" \in files /\ (HasConfig => "config" \in files)
             THEN "parse" ELSE "failed"
    /\ UNCHANGED <<row, payload, received, memory>> /\ Unmoved

\* download_for_rtl8723a: the file as it is.
ParseRaw ==
    /\ pc = "parse" /\ row.lmp = LMP_8723A
    /\ IF firmware.length >= 8 /\ firmware.signature # "Realtech"
       THEN payload' = RawBytes(firmware) /\ pc' = "download"
       ELSE pc' = "failed" /\ UNCHANGED payload
    /\ UNCHANGED <<row, received, memory>> /\ Unmoved

\* download_for_rtl8723b: the patch for the ROM version, and the config.
ParsePatches ==
    /\ pc = "parse" /\ row.lmp # LMP_8723A
    /\ IF IsFirmware(firmware) /\ PatchesFor(RomVersion) # {}
       THEN /\ payload' = PatchBytes(firmware.patches[First(PatchesFor(RomVersion))])
                             \o ConfigBytes
            /\ pc' = "download"
       ELSE pc' = "failed" /\ UNCHANGED payload
    /\ UNCHANGED <<row, received, memory>> /\ Unmoved

(* Mutant: a last fragment that is full is not marked. *)
IsLast_Strict(n) == (n + 1) * FragmentLength > Len(payload)

IsLast(n) == (n + 1) * FragmentLength >= Len(payload)

\* download_firmware: fragment n.  Its number starts again at 0: the branch that
\* would add 1 after the wrap compares a number that is already masked.
Fragment(n) ==
    LET end == (n + 1) * FragmentLength
    IN  SubSeq(payload, n * FragmentLength + 1, IF end < Len(payload) THEN end ELSE Len(payload))

Download ==
    /\ pc = "download"
    /\ LET n == Len(received)
       IN  IF n * FragmentLength < Len(payload)
           THEN /\ received' = Append(received, [number |-> n % Indices, last |-> IsLast(n)])
                /\ memory' = memory \o Fragment(n)
                /\ UNCHANGED pc
           ELSE pc' = "loaded" /\ UNCHANGED <<received, memory>>
    /\ UNCHANGED <<row, payload>> /\ Unmoved

\* A call of the chip fails: reading a register or the ROM version, or a
\* fragment, which the chip then does not have.
CallFails ==
    /\ pc \in {"find", "parse", "download"}
    /\ pc = "parse" => row.rom
    /\ pc' = "failed"
    /\ UNCHANGED <<row, payload, received, memory>> /\ Unmoved

LoaderNext == FindDriver \/ FetchFiles \/ ParseRaw \/ ParsePatches \/ Download \/ CallFails

LoaderSpec == LoaderInit /\ [][LoaderNext]_loaderVars

-----------------------------------------------------------------------------
(* Properties.                                                             *)

\* No chip matches two rows, so the order of the table decides nothing and no
\* row is hidden behind another; and the row is one for this bus.
RowUnambiguous ==
    /\ \A i, j \in MatchingRows : i = j
    /\ row # NoRow => row.bus = "Usb"

\* The chip has the fragments of its own patch and the config in order, each
\* with its number as long as there is one for each; the last is marked, and no
\* other, so that a chip is never told that it has everything when it has not,
\* nor left waiting when loading succeeded.
DownloadInOrder ==
    /\ IsPrefix(memory, payload)
    /\ \A i \in DOMAIN received :
           /\ i <= Indices => received[i].number = i - 1
           /\ received[i].last <=> i = Len(received) /\ memory = payload
    /\ pc = "loaded" => memory = payload /\ memory # <<>>

FirmwareLoads == RowUnambiguous /\ DownloadInOrder

\* What the comment in download_firmware says of the numbers: 1 is added when they
\* start again, as the Linux driver does (firmware/realtek/mod.rs:115-121).
WrapAddsOne == Indices + 1 \in DOMAIN received => received[Indices + 1].number = 1
=============================================================================
