----------------------------- MODULE Reassembly -----------------------------
(***************************************************************************)
(* The three assemblers that put a fragmented message together again:      *)
(* AVDTP signals (avdtp/packets.rs), AVCTP messages (avctp/packets.rs) and *)
(* AVRCP commands (avrcp/packets.rs).  All know single, start, continue    *)
(* and end packets; AVDTP and AVCTP announce in the start packet how many  *)
(* follow, AVRCP does not.                                                 *)
(*                                                                         *)
(* A peer sends one message after the other, may abandon one halfway, and  *)
(* a packet may be lost (the L2CAP PDU that carries it, see AclTransfer).  *)
(* The tag of a message stands for what a continuation must agree on: the  *)
(* label and type (AVDTP), also the profile (AVCTP), the PDU id (AVRCP).   *)
(***************************************************************************)
EXTENDS Integers, Sequences

CONSTANTS
    Tags,           \* tags of messages
    DefaultTag,     \* the tag a reset AVDTP assembler has: label 0, a command
    Sizes,          \* packets a message takes
    MaxCount,       \* largest value of AVDTP's packet_count (255 in the code)
    MaxMessages     \* bound: messages the peer begins

\* The start packet announces the size in a byte, as it is counted (AVRCP does
\* not, but a command of a u16 of bytes takes fewer packets than that), and a
\* tag is told from that of an assembler which has none.
ASSUME SizesAssumption == MaxCount \in Nat /\ Sizes \subseteq 1 .. MaxCount
ASSUME TagsAssumption == DefaultTag \in Tags /\ "none" \notin Tags

VARIABLES
    protocol,       \* which assembler this is
    assembler,      \* its state
    out,            \* what it returned for the last packet: at most one message
    number,         \* messages begun by the peer
    message,        \* the peer's message: tag, size and its next packet
    complete,       \* history: no packet of it was lost so far
    clean,          \* history: it follows a fragmented one that was returned
    broken,         \* history: tags of messages abandoned or with a loss
    panicked        \* packet_count overflowed in a build that checks

assemblyVars == <<protocol, assembler, out, number, message, complete, clean, broken, panicked>>

Protocols == {"avdtp", "avctp", "avrcp"}

\* The tag of the message in progress, its data, the packets announced and those
\* counted.
Empty == [tag |-> IF protocol = "avdtp" THEN DefaultTag ELSE "none", data |-> <<>>,
          total |-> 0, packets |-> 0]

\* A packet taken: the assembler's new state and the message it returns, if any.
Result(state, messages) == [state |-> state, messages |-> messages]
Returns(tag, data) == <<[tag |-> tag, data |-> data]>>

IsFirst(p) == p.type \in {"Single", "Start"}

-----------------------------------------------------------------------------
(* SignalMessageAssembler::process_msg                                     *)

(* Mutant: the number of packets is not compared at the end. *)
SignalEnd_Uncounted(a, p) ==
    IF a.tag # p.tag THEN Result(a, <<>>)
    ELSE Result(Empty, Returns(a.tag, a.data \o p.data))

SignalEnd(a, p) ==
    IF a.tag # p.tag THEN Result(a, <<>>)
    ELSE Result(Empty, IF a.packets = a.total THEN Returns(a.tag, a.data \o p.data)
                       ELSE <<>>)

SignalContinue(a, p) ==
    IF a.tag # p.tag THEN Result(a, <<>>)
    ELSE Result(IF a.packets < a.total THEN [a EXCEPT !.data = @ \o p.data] ELSE Empty, <<>>)

\* Every packet is counted before anything else; an incomplete message is
\* cleared by the next start, and its count with it, this packet's included.
Signal(before, p) ==
    LET counted == [before EXCEPT !.packets = (@ + 1) % (MaxCount + 1)]
        a == IF IsFirst(p) /\ before.data # <<>> THEN Empty ELSE counted
    IN  CASE p.type = "Single" -> Result(a, Returns(p.tag, p.data))
          [] p.type = "Start" -> Result([a EXCEPT !.tag = p.tag, !.total = p.total,
                                                  !.data = @ \o p.data], <<>>)
          [] p.type = "Continue" -> SignalContinue(a, p)
          [] p.type = "End" -> SignalEnd(a, p)

-----------------------------------------------------------------------------
(* MessageAssembler::process_msg: any error resets it.                     *)

AvctpMessage(before, p) ==
    LET a == [before EXCEPT !.packets = @ + 1, !.data = @ \o p.data]
        valid == before.tag = p.tag /\ a.packets <= a.total
    IN  CASE p.type = "Single" -> Result(Empty, Returns(p.tag, p.data))
          [] p.type = "Start" -> Result([tag |-> p.tag, data |-> p.data,
                                         total |-> p.total, packets |-> 1], <<>>)
          [] p.type = "Continue" -> Result(IF valid THEN a ELSE Empty, <<>>)
          [] p.type = "End" ->
                Result(Empty, IF valid /\ a.packets = a.total THEN Returns(a.tag, a.data)
                              ELSE <<>>)

-----------------------------------------------------------------------------
(* CommandAssembler::process_msg: an error leaves it as it is.             *)

Command(before, p) ==
    LET a == [before EXCEPT !.data = @ \o p.data]
    IN  CASE p.type = "Single" -> Result(Empty, Returns(p.tag, p.data))
          [] p.type = "Start" -> Result([Empty EXCEPT !.tag = p.tag, !.data = p.data], <<>>)
          [] ~IsFirst(p) /\ before.tag # p.tag -> Result(before, <<>>)
          [] p.type = "Continue" /\ before.tag = p.tag -> Result(a, <<>>)
          [] p.type = "End" /\ before.tag = p.tag -> Result(Empty, Returns(a.tag, a.data))

-----------------------------------------------------------------------------
(* The peer, which fragments as send_signal and fragment_command do.       *)

(* Mutant: the last packet is marked one too late. *)
PacketType_LateEnd(i, size) ==
    CASE size = 1 -> "Single"
      [] size > 1 /\ i = 1 -> "Start"
      [] i > 1 -> "Continue"

PacketType(i, size) ==
    CASE size = 1 -> "Single"
      [] size > 1 /\ i = 1 -> "Start"
      [] 1 < i /\ i < size -> "Continue"
      [] size > 1 /\ i = size -> "End"

NextPacket ==
    [type |-> PacketType(message.next, message.size), tag |-> message.tag,
     total |-> message.size, data |-> <<<<number, message.next>>>>]

AllData(n, size) == [i \in 1 .. size |-> <<n, i>>]

ThisMessage == Returns(message.tag, AllData(number, message.size))

Done == message.next > message.size

AssemblyInit ==
    /\ protocol \in Protocols
    /\ assembler = Empty
    /\ out = <<>>
    /\ number = 0
    /\ message = [tag |-> "none", size |-> 0, next |-> 1]
    /\ complete = TRUE
    /\ clean = TRUE
    /\ broken = {}
    /\ panicked = FALSE

\* The next message, the one before being finished or abandoned.
Begin ==
    /\ ~panicked /\ number < MaxMessages
    /\ number > 0 => message.next > 1
    /\ \E tag \in Tags, size \in Sizes :
           message' = [tag |-> tag, size |-> size, next |-> 1]
    /\ number' = number + 1
    /\ clean' = (number = 0 \/ (message.size > 1 /\ out = ThisMessage))
    /\ broken' = broken \union (IF complete /\ Done THEN {} ELSE {message.tag})
    /\ complete' = TRUE
    /\ out' = <<>>
    /\ UNCHANGED <<protocol, assembler, panicked>>

Receive ==
    /\ ~panicked /\ ~Done
    /\ LET r == CASE protocol = "avdtp" -> Signal(assembler, NextPacket)
                  [] protocol = "avctp" -> AvctpMessage(assembler, NextPacket)
                  [] protocol = "avrcp" -> Command(assembler, NextPacket)
       IN  assembler' = r.state /\ out' = r.messages
    /\ message' = [message EXCEPT !.next = @ + 1]
    /\ UNCHANGED <<protocol, number, complete, clean, broken, panicked>>

\* packet_count is a u8: a build with overflow checks panics where a release
\* build wraps around, and the session ends.
Overflow ==
    /\ ~panicked /\ ~Done
    /\ protocol = "avdtp" /\ assembler.packets = MaxCount
    /\ panicked' = TRUE
    /\ UNCHANGED <<protocol, assembler, out, number, message, complete, clean, broken>>

Lose ==
    /\ ~panicked /\ ~Done
    /\ complete' = FALSE
    /\ message' = [message EXCEPT !.next = @ + 1]
    /\ out' = <<>>
    /\ UNCHANGED <<protocol, assembler, number, clean, broken, panicked>>

AssemblyNext == Begin \/ Receive \/ Overflow \/ Lose

AssemblySpec == AssemblyInit /\ [][AssemblyNext]_assemblyVars

-----------------------------------------------------------------------------
(* Properties.                                                             *)

\* What an assembler returns is the message the peer has just sent, whole: not
\* one with a hole and not one spliced from two.  It is deceived only by a loss:
\* AVRCP, which does not count, by any; AVCTP only if an earlier message with
\* the same tag was broken off too, so that the counts add up; and AVDTP only
\* after anything but a fragmented message that was returned, which leaves its
\* count wrong.
NothingSpliced ==
    out # <<>> => \/ out = ThisMessage /\ complete /\ Done
                  \/ /\ ~complete
                     /\ \/ protocol = "avrcp"
                        \/ protocol = "avctp" /\ message.tag \in broken
                        \/ protocol = "avdtp" /\ ~clean

\* And a message none of whose packets was lost is returned with its last one,
\* whatever was abandoned or lost before it: by AVCTP and AVRCP always, by
\* AVDTP if it is a single packet, or the first, or follows a fragmented one
\* that was returned.  (After a single packet, an abandoned or a refused
\* message packet_count is off, and a fragmented signal is refused.)
WholeReturned ==
    Done /\ number > 0 /\ complete
      /\ (protocol = "avdtp" /\ message.size > 1 => clean) =>
        out = ThisMessage

AssembledIsSent == NothingSpliced /\ WholeReturned
=============================================================================
