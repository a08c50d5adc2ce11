----------------------------- MODULE Wire_proof -----------------------------
(***************************************************************************)
(* What is put together from pieces is the whole: a message from its       *)
(* packets (Reassembly), an answer of the SDP server from its parts        *)
(* (SdpServer), the firmware in the chip from its fragments                *)
(* (RealtekFirmware); for messages, answers and files of any size and      *)
(* number.  And an address, a capability or an option is read back as it   *)
(* was written.                                                            *)
(***************************************************************************)
EXTENDS Reassembly, SdpServer, RealtekFirmware, SequenceTheorems, WellFoundedInduction, TLAPS

(***************************************************************************)
(* Messages.  The invariant says what an assembler has of a message while  *)
(* it comes in: all that was sent, if nothing was lost; fewer packets      *)
(* counted than sent, if something was, so that the count cannot come out  *)
(* right; and between two messages nothing that a continuation of the next *)
(* could be added to.                                                      *)
(***************************************************************************)
\* A packet's place in the message that it belongs to.
Parts == Nat \X Nat

Assemblers == [tag : Tags \union {"none"}, data : Seq(Parts), total : Nat, packets : Nat]

AssemblyTypes ==
    /\ protocol \in Protocols
    /\ number \in Nat
    /\ message \in [tag : Tags \union {"none"}, size : Nat, next : Nat \ {0}]
    /\ message.next <= message.size + 1
    /\ number > 0 => message.tag \in Tags /\ message.size \in Sizes
    /\ number = 0 => message.size = 0
    /\ assembler \in Assemblers
    /\ protocol = "avdtp" => assembler.packets <= MaxCount
    /\ complete \in BOOLEAN /\ clean \in BOOLEAN

Inside == 1 < message.next /\ message.next <= message.size

\* The assembler has what was sent of the message so far.
HasParts ==
    /\ assembler.tag = message.tag
    /\ assembler.data = AllData(number, message.next - 1)

\* It has dropped the message, or missed its start, and cannot be brought to
\* return anything before the next one.
IsDropped ==
    /\ assembler.data = <<>> /\ assembler.total = 0
    /\ assembler.tag = message.tag => assembler.packets = 0

\* Nothing of the message was lost so far.
WholeSoFar ==
    Inside /\ complete =>
        /\ protocol = "avctp" => /\ HasParts /\ assembler.total = message.size
                                 /\ assembler.packets = message.next - 1
        /\ protocol = "avrcp" => HasParts
        /\ protocol = "avdtp" =>
             \/ /\ HasParts /\ assembler.total = message.size
                /\ clean => assembler.packets = message.next - 1
             \/ ~clean /\ IsDropped

\* Something was: fewer packets were counted than sent, and the count cannot
\* catch up.
CountBehind ==
    message.next > 1 /\ message.next <= message.size /\ ~complete =>
        /\ protocol = "avctp" /\ message.tag \notin broken /\ assembler.tag = message.tag =>
             assembler.total = message.size /\ assembler.packets < message.next - 1
        /\ protocol = "avdtp" /\ clean =>
             \/ /\ assembler.tag = message.tag /\ assembler.total = message.size
                /\ assembler.packets < message.next - 1
             \/ IsDropped

\* Between two messages.
Between ==
    /\ message.next = 1 => complete
    /\ protocol = "avctp" =>
         /\ assembler.tag \in broken \union {"none", message.tag}
         /\ number > 0 /\ message.next = 1 => assembler.tag \in broken \union {"none"}
         /\ Done /\ complete => assembler = Empty
    /\ protocol = "avdtp" =>
         /\ number = 0 => assembler = Empty
         /\ message.next = 1 /\ clean => assembler = Empty
         /\ out # <<>> /\ message.size > 1 => assembler = Empty

OutInv == out # <<>> => Done /\ number > 0

AssemblyInv ==
    AssemblyTypes /\ WholeSoFar /\ CountBehind /\ Between /\ OutInv /\ NothingSpliced /\ WholeReturned

-----------------------------------------------------------------------------
(* Messages.                                                               *)

(* The parts of a message are a sequence, one part longer with each packet. *)
LEMMA AllDataGrows ==
  ASSUME NEW n \in Nat, NEW k \in Nat
  PROVE  /\ AllData(n, k) \in Seq(Parts)
         /\ Len(AllData(n, k)) = k
         /\ AllData(n, k) \o <<<<n, k + 1>>>> = AllData(n, k + 1)
<1>1. AllData(n, k) \in Seq(Parts) /\ Len(AllData(n, k)) = k
  BY DEF AllData, Parts
<1>2. <<<<n, k + 1>>>> \in Seq(Parts) /\ Len(<<<<n, k + 1>>>>) = 1
  BY DEF Parts
<1>3. AllData(n, k + 1) \in Seq(Parts) /\ Len(AllData(n, k + 1)) = k + 1
  BY DEF AllData, Parts
<1>4. AllData(n, k) \o <<<<n, k + 1>>>> \in Seq(Parts)
  BY <1>1, <1>2
<1>5. Len(AllData(n, k) \o <<<<n, k + 1>>>>) = k + 1
  BY <1>1, <1>2
<1>6. ASSUME NEW i \in 1 .. k + 1
      PROVE  (AllData(n, k) \o <<<<n, k + 1>>>>)[i] = AllData(n, k + 1)[i]
  BY <1>1, <1>2 DEF AllData
<1>7. AllData(n, k) \o <<<<n, k + 1>>>> = AllData(n, k + 1)
  BY <1>3, <1>4, <1>5, <1>6, SeqEqual
<1> QED BY <1>1, <1>7

LEMMA LastPart ==
  ASSUME NEW n \in Nat, NEW k \in Nat \ {0}
  PROVE  AllData(n, k - 1) \o <<<<n, k>>>> = AllData(n, k)
<1>1. PICK m \in Nat : m = k - 1 /\ m + 1 = k
  OBVIOUS
<1>2. AllData(n, m) \o <<<<n, m + 1>>>> = AllData(n, m + 1)
  BY AllDataGrows
<1> QED BY <1>1, <1>2

(* The first packet alone. *)
LEMMA FirstPart ==
  ASSUME NEW n \in Nat
  PROVE  <<<<n, 1>>>> = AllData(n, 1) /\ <<<<n, 1>>>> \in Seq(Parts) /\ <<<<n, 1>>>> # <<>>
BY DEF AllData, Parts

(* Packets of a message are marked by their place. *)
LEMMA PacketTypes ==
  ASSUME NEW size \in Nat, NEW i \in Nat \ {0}, i <= size
  PROVE  /\ i = 1 /\ size = 1 => PacketType(i, size) = "Single"
         /\ i = 1 /\ size > 1 => PacketType(i, size) = "Start"
         /\ 1 < i /\ i < size => PacketType(i, size) = "Continue"
         /\ 1 < i /\ i = size => PacketType(i, size) = "End"
BY DEF PacketType

(* What a packet is, while there is one to send. *)
LEMMA PacketSent ==
  ASSUME AssemblyTypes, ~Done
  PROVE  /\ number \in Nat \ {0} /\ MaxCount \in Nat
         /\ message.tag \in Tags /\ message.tag # "none"
         /\ message.size \in 1 .. MaxCount
         /\ message.next \in 1 .. message.size
         /\ NextPacket.tag = message.tag /\ NextPacket.total = message.size
         /\ NextPacket.data = <<<<number, message.next>>>>
         /\ NextPacket.data \in Seq(Parts)
         /\ NextPacket.type = PacketType(message.next, message.size)
<1>1. message.size \in Nat /\ message.next \in Nat \ {0} /\ number \in Nat
  BY DEF AssemblyTypes
<1>2. message.next <= message.size
  BY <1>1 DEF Done
<1>3. number > 0
  BY <1>1, <1>2 DEF AssemblyTypes
<1>4. message.tag \in Tags /\ message.size \in Sizes
  BY <1>3 DEF AssemblyTypes
<1>5. message.size \in 1 .. MaxCount /\ MaxCount \in Nat /\ message.tag # "none"
  BY <1>4, SizesAssumption, TagsAssumption
<1>6. <<<<number, message.next>>>> \in Seq(Parts)
  BY <1>1 DEF Parts
<1> QED BY <1>1, <1>2, <1>3, <1>4, <1>5, <1>6 DEF NextPacket

-----------------------------------------------------------------------------
(* What each assembler does with a packet.                                 *)

LEMMA EmptyAssembler ==
  /\ Empty \in Assemblers
  /\ Empty.data = <<>> /\ Empty.total = 0 /\ Empty.packets = 0
  /\ protocol # "avdtp" => Empty.tag = "none"
<1>1. <<>> \in Seq(Parts)
  OBVIOUS
<1> QED BY <1>1, TagsAssumption DEF Empty, Assemblers

LEMMA AssemblerUpdated ==
  ASSUME NEW a \in Assemblers, NEW m \in Nat, NEW d \in Seq(Parts),
         NEW b, b = [a EXCEPT !.packets = m, !.data = d]
  PROVE  /\ b \in Assemblers /\ b.tag = a.tag /\ b.total = a.total
         /\ b.packets = m /\ b.data = d
BY DEF Assemblers

(* The count of AVDTP after one more packet. *)
Counted(n) == (n + 1) % (MaxCount + 1)

LEMMA CountedInRange ==
  ASSUME NEW n \in Nat, n <= MaxCount, MaxCount \in Nat \ {0}
  PROVE  /\ Counted(n) \in Nat /\ Counted(n) <= MaxCount
         /\ n < MaxCount => Counted(n) = n + 1
<1>1. CASE n < MaxCount
  <2>1. (n + 1) % (MaxCount + 1) = n + 1
    BY <1>1
  <2> QED BY <1>1, <2>1 DEF Counted
<1>2. CASE n = MaxCount
  <2>1. (n + 1) % (MaxCount + 1) = 0
    BY <1>2
  <2> QED BY <1>2, <2>1 DEF Counted
<1> QED BY <1>1, <1>2

(* What AVDTP makes of packet p in state a: the state and the messages of r. *)
SignalStarted(a, p, r) ==
  /\ r.state \in Assemblers /\ r.state.packets <= MaxCount
  /\ p.type = "Single" => r.messages = Returns(p.tag, p.data)
  /\ p.type = "Start" =>
       /\ r.messages = <<>> /\ r.state.data = p.data
       /\ r.state.tag = p.tag /\ r.state.total = p.total
       /\ a = Empty => r.state.packets = 1

SignalContinued(a, p, r) ==
  /\ r.state \in Assemblers /\ r.state.packets <= MaxCount /\ r.messages = <<>>
  /\ a.tag # p.tag => r.state = [a EXCEPT !.packets = Counted(@)]
  /\ a.tag = p.tag /\ Counted(a.packets) < a.total =>
       r.state = [a EXCEPT !.packets = Counted(@), !.data = @ \o p.data]
  /\ a.tag = p.tag /\ ~(Counted(a.packets) < a.total) => r.state = Empty

SignalEnded(a, p, r) ==
  /\ r.state \in Assemblers /\ r.state.packets <= MaxCount
  /\ r.messages # <<>> <=> a.tag = p.tag /\ Counted(a.packets) = a.total
  /\ r.messages # <<>> =>
       r.messages = Returns(p.tag, a.data \o p.data) /\ r.state = Empty

LEMMA SignalFirst ==
  ASSUME NEW a \in Assemblers, a.packets <= MaxCount, MaxCount \in Nat \ {0},
         NEW p, p.tag \in Tags, p.data \in Seq(Parts), p.total \in Nat,
         NEW r, r = Signal(a, p), p.type \in {"Single", "Start"}
  PROVE  SignalStarted(a, p, r)
<1> DEFINE counted == [a EXCEPT !.packets = (@ + 1) % (MaxCount + 1)]
           b == IF a.data # <<>> THEN Empty ELSE counted
<1>1. counted \in Assemblers /\ counted.packets <= MaxCount /\ counted.data = a.data
        /\ counted.packets = Counted(a.packets)
  BY CountedInRange DEF Assemblers, Counted
<1>2. b \in Assemblers /\ b.packets <= MaxCount /\ b.data = <<>>
  BY <1>1, EmptyAssembler
<1>3. a = Empty => b.packets = 1
  BY <1>1, EmptyAssembler, CountedInRange
<1> HIDE DEF counted
<1>4. CASE p.type = "Single"
  <2>1. r = Result(b, Returns(p.tag, p.data))
    BY <1>4 DEF Signal, IsFirst, counted
  <2> QED BY <1>2, <1>4, <2>1 DEF Result, SignalStarted
<1>5. CASE p.type = "Start"
  <2>1. r = Result([b EXCEPT !.tag = p.tag, !.total = p.total, !.data = @ \o p.data], <<>>)
    BY <1>5 DEF Signal, IsFirst, counted
  <2> HIDE DEF b
  <2>2. b.data \o p.data = p.data
    BY <1>2
  <2>3. PICK c : c = [b EXCEPT !.tag = p.tag, !.total = p.total, !.data = @ \o p.data]
    OBVIOUS
  <2>4. /\ c \in Assemblers /\ c.tag = p.tag /\ c.total = p.total
        /\ c.data = p.data /\ c.packets = b.packets
    BY <1>2, <2>2, <2>3 DEF Assemblers
  <2>5. r.state = c /\ r.messages = <<>>
    BY <2>1, <2>3 DEF Result
  <2> QED BY <1>2, <1>3, <1>5, <2>4, <2>5 DEF SignalStarted
<1> QED BY <1>4, <1>5

LEMMA SignalContinues ==
  ASSUME NEW a \in Assemblers, a.packets <= MaxCount, MaxCount \in Nat \ {0},
         NEW p, p.tag \in Tags, p.data \in Seq(Parts), p.type = "Continue",
         NEW r, r = Signal(a, p)
  PROVE  SignalContinued(a, p, r)
<1> DEFINE counted == [a EXCEPT !.packets = (@ + 1) % (MaxCount + 1)]
<1>1. /\ counted \in Assemblers /\ counted.packets <= MaxCount
      /\ counted.data = a.data /\ counted.tag = a.tag /\ counted.total = a.total
      /\ counted.packets = Counted(a.packets)
      /\ counted = [a EXCEPT !.packets = Counted(@)]
  BY CountedInRange DEF Assemblers, Counted
<1>2. r = SignalContinue(counted, p)
  BY DEF Signal, IsFirst
<1>3. a.data \o p.data \in Seq(Parts)
  BY DEF Assemblers
<1> HIDE DEF counted
<1>4. CASE a.tag # p.tag
  <2>1. r = Result(counted, <<>>)
    BY <1>1, <1>2, <1>4 DEF SignalContinue
  <2>2. r.state = counted /\ r.messages = <<>>
    BY <2>1 DEF Result
  <2> QED BY <1>1, <1>4, <2>2 DEF SignalContinued
<1>5. CASE a.tag = p.tag /\ Counted(a.packets) < a.total
  <2>1. r = Result([counted EXCEPT !.data = @ \o p.data], <<>>)
    BY <1>1, <1>2, <1>5 DEF SignalContinue
  <2>2. [counted EXCEPT !.data = @ \o p.data] = [a EXCEPT !.packets = Counted(@), !.data = @ \o p.data]
    BY <1>1 DEF Assemblers
  <2>3. PICK c : c = [counted EXCEPT !.data = @ \o p.data]
    OBVIOUS
  <2>4. c \in Assemblers /\ c.packets <= MaxCount
    BY <1>1, <1>3, <2>3 DEF Assemblers
  <2>5. r.state = c /\ r.messages = <<>>
    BY <2>1, <2>3 DEF Result
  <2> QED BY <1>5, <2>2, <2>3, <2>4, <2>5 DEF SignalContinued
<1>6. CASE a.tag = p.tag /\ ~(Counted(a.packets) < a.total)
  <2>1. r = Result(Empty, <<>>)
    BY <1>1, <1>2, <1>6 DEF SignalContinue
  <2> QED BY <1>6, <2>1, EmptyAssembler DEF Result, SignalContinued
<1> QED BY <1>4, <1>5, <1>6

LEMMA SignalEnds ==
  ASSUME NEW a \in Assemblers, a.packets <= MaxCount, MaxCount \in Nat \ {0},
         NEW p, p.tag \in Tags, p.data \in Seq(Parts), p.type = "End",
         NEW r, r = Signal(a, p)
  PROVE  SignalEnded(a, p, r)
<1> DEFINE counted == [a EXCEPT !.packets = (@ + 1) % (MaxCount + 1)]
<1>1. /\ counted \in Assemblers /\ counted.packets <= MaxCount
      /\ counted.data = a.data /\ counted.tag = a.tag /\ counted.total = a.total
      /\ counted.packets = Counted(a.packets)
  BY CountedInRange DEF Assemblers, Counted
<1>2. r = SignalEnd(counted, p)
  BY DEF Signal, IsFirst
<1> HIDE DEF counted
<1>3. Returns(p.tag, a.data \o p.data) # <<>>
  BY DEF Returns
<1>4. CASE a.tag # p.tag
  BY <1>1, <1>2, <1>4 DEF SignalEnd, Result, SignalEnded
<1>5. CASE a.tag = p.tag
  BY <1>1, <1>2, <1>3, <1>5, EmptyAssembler DEF SignalEnd, Result, SignalEnded
<1> QED BY <1>4, <1>5

(* What AVCTP makes of packet p in state a: the state and the messages of r. *)
MessageTaken(a, p, r) ==
  /\ p.type = "Single" => r.state = Empty /\ r.messages = Returns(p.tag, p.data)
  /\ p.type = "Start" =>
       /\ r.messages = <<>>
       /\ r.state = [tag |-> p.tag, data |-> p.data, total |-> p.total, packets |-> 1]
  /\ p.type = "Continue" =>
       /\ r.messages = <<>>
       /\ a.tag = p.tag /\ a.packets + 1 <= a.total =>
            r.state = [a EXCEPT !.packets = @ + 1, !.data = @ \o p.data]
       /\ ~(a.tag = p.tag /\ a.packets + 1 <= a.total) => r.state = Empty
  /\ p.type = "End" =>
       /\ r.state = Empty
       /\ r.messages # <<>> <=> a.tag = p.tag /\ a.packets + 1 = a.total
       /\ r.messages # <<>> => r.messages = Returns(p.tag, a.data \o p.data)

LEMMA MessageTakes ==
  ASSUME NEW a \in Assemblers, NEW p, NEW r, r = AvctpMessage(a, p)
  PROVE  MessageTaken(a, p, r)
<1> DEFINE b == [a EXCEPT !.packets = @ + 1, !.data = @ \o p.data]
<1>1. b.tag = a.tag /\ b.packets = a.packets + 1 /\ b.data = a.data \o p.data /\ b.total = a.total
  BY DEF Assemblers
<1>2. a.packets \in Nat /\ a.total \in Nat
  BY DEF Assemblers
<1>3. Returns(p.tag, a.data \o p.data) # <<>>
  BY DEF Returns
<1>4. CASE p.type = "Single"
  <2>1. r = Result(Empty, Returns(p.tag, p.data))
    BY <1>4 DEF AvctpMessage
  <2> QED BY <1>4, <2>1 DEF Result, MessageTaken
<1>5. CASE p.type = "Start"
  <2>1. r = Result([tag |-> p.tag, data |-> p.data, total |-> p.total, packets |-> 1], <<>>)
    BY <1>5 DEF AvctpMessage
  <2> QED BY <1>5, <2>1 DEF Result, MessageTaken
<1>6. CASE p.type = "Continue"
  <2>1. r = Result(IF a.tag = p.tag /\ b.packets <= b.total THEN b ELSE Empty, <<>>)
    BY <1>6 DEF AvctpMessage
  <2>2. r.state = (IF a.tag = p.tag /\ b.packets <= b.total THEN b ELSE Empty) /\ r.messages = <<>>
    BY <2>1 DEF Result
  <2> QED BY <1>1, <1>6, <2>2 DEF MessageTaken
<1>7. CASE p.type = "End"
  <2>1. r = Result(Empty, IF (a.tag = p.tag /\ b.packets <= b.total) /\ b.packets = b.total
                          THEN Returns(b.tag, b.data) ELSE <<>>)
    BY <1>7 DEF AvctpMessage
  <2> HIDE DEF b
  <2>2. r.state = Empty
    BY <2>1 DEF Result
  <2>3. r.messages = (IF a.tag = p.tag /\ a.packets + 1 = a.total
                      THEN Returns(p.tag, a.data \o p.data) ELSE <<>>)
    BY <1>1, <1>2, <2>1 DEF Result
  <2> QED BY <1>3, <1>7, <2>2, <2>3 DEF MessageTaken
<1> QED BY <1>4, <1>5, <1>6, <1>7 DEF MessageTaken

(* And AVRCP. *)
CommandTaken(a, p, r) ==
  /\ p.type = "Single" => r.state = Empty /\ r.messages = Returns(p.tag, p.data)
  /\ p.type = "Start" =>
       /\ r.messages = <<>>
       /\ r.state = [Empty EXCEPT !.tag = p.tag, !.data = p.data]
  /\ p.type \in {"Continue", "End"} /\ a.tag # p.tag => r.state = a /\ r.messages = <<>>
  /\ p.type = "Continue" /\ a.tag = p.tag =>
       r.state = [a EXCEPT !.data = @ \o p.data] /\ r.messages = <<>>
  /\ p.type = "End" /\ a.tag = p.tag =>
       r.state = Empty /\ r.messages = Returns(p.tag, a.data \o p.data)

LEMMA CommandTakes ==
  ASSUME NEW a \in Assemblers, NEW p, NEW r, r = Command(a, p)
  PROVE  CommandTaken(a, p, r)
<1> DEFINE b == [a EXCEPT !.data = @ \o p.data]
<1>1. b.tag = a.tag /\ b.data = a.data \o p.data
  BY DEF Assemblers
<1>2. CASE p.type = "Single"
  <2>1. r = Result(Empty, Returns(p.tag, p.data))
    BY <1>2 DEF Command, IsFirst
  <2> QED BY <1>2, <2>1 DEF Result, CommandTaken
<1>3. CASE p.type = "Start"
  <2>1. r = Result([Empty EXCEPT !.tag = p.tag, !.data = p.data], <<>>)
    BY <1>3 DEF Command, IsFirst
  <2> QED BY <1>3, <2>1 DEF Result, CommandTaken
<1>4. CASE p.type \in {"Continue", "End"} /\ a.tag # p.tag
  <2>1. r = Result(a, <<>>)
    BY <1>4 DEF Command, IsFirst
  <2>2. r.state = a /\ r.messages = <<>>
    BY <2>1 DEF Result
  <2> QED BY <1>4, <2>2 DEF CommandTaken
<1>5. CASE p.type = "Continue" /\ a.tag = p.tag
  <2>1. r = Result(b, <<>>)
    BY <1>5 DEF Command, IsFirst
  <2> QED BY <1>5, <2>1 DEF Result, CommandTaken
<1>6. CASE p.type = "End" /\ a.tag = p.tag
  <2>1. r = Result(Empty, Returns(b.tag, b.data))
    BY <1>6 DEF Command, IsFirst
  <2> HIDE DEF b
  <2> QED BY <1>1, <1>6, <2>1 DEF Result, CommandTaken
<1> QED BY <1>2, <1>3, <1>4, <1>5, <1>6 DEF CommandTaken

(* What a step that takes a packet leaves alone. *)
LEMMA ReceiveFrame ==
  ASSUME AssemblyTypes, Receive
  PROVE  /\ ~Done
         /\ message' \in [tag : Tags \union {"none"}, size : Nat, next : Nat \ {0}]
         /\ message'.tag = message.tag /\ message'.size = message.size
         /\ message'.next = message.next + 1
         /\ UNCHANGED <<protocol, number, complete, clean, broken, panicked>>
         /\ Empty' = Empty /\ ThisMessage' = ThisMessage
         /\ Done' <=> message.next = message.size
<1>1. /\ ~Done /\ message' = [message EXCEPT !.next = @ + 1]
      /\ UNCHANGED <<protocol, number, complete, clean, broken, panicked>>
  BY DEF Receive
<1>2. /\ message \in [tag : Tags \union {"none"}, size : Nat, next : Nat \ {0}]
      /\ message.next <= message.size
  BY <1>1, PacketSent DEF AssemblyTypes
<1>3. /\ message' \in [tag : Tags \union {"none"}, size : Nat, next : Nat \ {0}]
      /\ message'.tag = message.tag /\ message'.size = message.size
      /\ message'.next = message.next + 1
  BY <1>1, <1>2
<1>4. Empty' = Empty /\ ThisMessage' = ThisMessage
  BY <1>1, <1>3 DEF Empty, ThisMessage, AllData, Returns
<1>5. Done' <=> message.next = message.size
  BY <1>2, <1>3 DEF Done
<1> QED BY <1>1, <1>3, <1>4, <1>5

-----------------------------------------------------------------------------
(* AVCTP.                                                                  *)

(* What is to be shown of the state after a packet. *)
LEMMA AvctpSuffices ==
  ASSUME AssemblyInv, Receive, protocol = "avctp",
         assembler' \in Assemblers,
         complete /\ message.next < message.size =>
           /\ assembler'.tag = message.tag /\ assembler'.total = message.size
           /\ assembler'.data = AllData(number, message.next)
           /\ assembler'.packets = message.next,
         ~complete /\ message.next < message.size /\ message.tag \notin broken
           /\ assembler'.tag = message.tag =>
             assembler'.total = message.size /\ assembler'.packets < message.next,
         assembler'.tag \in broken \union {"none", message.tag},
         complete /\ message.next = message.size =>
           assembler' = Empty /\ out' = ThisMessage,
         out' # <<>> => /\ message.next = message.size
                        /\ ~complete => message.tag \in broken
  PROVE  AssemblyInv'
<1>1. AssemblyTypes /\ Between
  BY DEF AssemblyInv
<1>2. /\ ~Done
      /\ message' \in [tag : Tags \union {"none"}, size : Nat, next : Nat \ {0}]
      /\ message'.tag = message.tag /\ message'.size = message.size
      /\ message'.next = message.next + 1
      /\ protocol' = "avctp" /\ number' = number /\ complete' = complete
      /\ clean' = clean /\ broken' = broken
      /\ Empty' = Empty /\ ThisMessage' = ThisMessage
      /\ Done' <=> message.next = message.size
  BY <1>1, ReceiveFrame
<1>3. /\ number \in Nat \ {0} /\ message.tag \in Tags /\ message.size \in Nat
      /\ message.next \in Nat \ {0} /\ message.next <= message.size
      /\ message.size \in Sizes
  BY <1>1, <1>2, PacketSent DEF AssemblyTypes
<1>4. AssemblyTypes'
  BY <1>1, <1>2, <1>3 DEF AssemblyTypes
<1>5. Inside' => message.next < message.size
  BY <1>2, <1>3 DEF Inside
<1>6. message'.next - 1 = message.next
  BY <1>2, <1>3
<1>7. WholeSoFar'
  BY <1>2, <1>5, <1>6 DEF WholeSoFar, HasParts
<1>8. CountBehind'
  BY <1>2, <1>3, <1>6 DEF CountBehind
<1>9. Between'
  BY <1>2, <1>3 DEF Between
<1>10. OutInv'
  BY <1>2, <1>3 DEF OutInv
<1>11. NothingSpliced'
  BY <1>2 DEF NothingSpliced
<1>12. WholeReturned'
  BY <1>2 DEF WholeReturned
<1> QED BY <1>4, <1>7, <1>8, <1>9, <1>10, <1>11, <1>12 DEF AssemblyInv

LEMMA AvctpReceives ==
  ASSUME AssemblyInv, Receive, protocol = "avctp"
  PROVE  AssemblyInv'
<1>1. AssemblyTypes /\ Between /\ WholeSoFar /\ CountBehind /\ ~Done
  BY ReceiveFrame DEF AssemblyInv
<1>2. PICK p, r, a, n, k, z, t :
        /\ p = NextPacket /\ a = assembler /\ r = AvctpMessage(a, p)
        /\ n = number /\ k = message.next /\ z = message.size /\ t = message.tag
        /\ assembler' = r.state /\ out' = r.messages
  BY DEF Receive
<1>3. /\ a \in Assemblers /\ n \in Nat \ {0} /\ z \in Nat /\ k \in 1 .. z
      /\ t \in Tags /\ t # "none"
      /\ p.tag = t /\ p.total = z /\ p.data = <<<<n, k>>>> /\ p.data \in Seq(Parts)
      /\ p.type = PacketType(k, z)
      /\ r = AvctpMessage(a, p)
  BY <1>1, <1>2, PacketSent DEF AssemblyTypes
<1>4. Empty \in Assemblers /\ Empty.tag = "none"
  BY EmptyAssembler
<1>5. ThisMessage = Returns(t, AllData(n, z)) /\ ThisMessage # <<>>
  BY <1>2 DEF ThisMessage, Returns
<1>9. MessageTaken(a, p, r)
  BY <1>3, MessageTakes
<1>6. CASE k = 1 /\ z = 1
  <2>1. p.type = "Single"
    BY <1>3, <1>6, PacketTypes
  <2>2. assembler' = Empty /\ out' = Returns(t, <<<<n, 1>>>>)
    BY <1>2, <1>3, <1>6, <1>9, <2>1 DEF MessageTaken
  <2>3. out' = ThisMessage
    BY <1>3, <1>5, <1>6, <2>2, FirstPart
  <2>4. complete
    BY <1>1, <1>2, <1>6 DEF Between
  <2> QED BY <1>2, <1>4, <1>6, <2>2, <2>3, <2>4, AvctpSuffices
<1>7. CASE k = 1 /\ z > 1
  <2>1. p.type = "Start"
    BY <1>3, <1>7, PacketTypes
  <2>2. assembler' = [tag |-> t, data |-> <<<<n, 1>>>>, total |-> z, packets |-> 1] /\ out' = <<>>
    BY <1>2, <1>3, <1>7, <1>9, <2>1 DEF MessageTaken
  <2>3. complete
    BY <1>1, <1>2, <1>7 DEF Between
  <2>4. <<<<n, 1>>>> = AllData(n, 1) /\ <<<<n, 1>>>> \in Seq(Parts)
    BY <1>3, FirstPart
  <2>5. /\ assembler' \in Assemblers /\ assembler'.tag = t /\ assembler'.total = z
        /\ assembler'.data = AllData(n, k) /\ assembler'.packets = k
    BY <1>3, <1>7, <2>2, <2>4 DEF Assemblers
  <2> QED BY <1>2, <1>3, <1>7, <2>2, <2>3, <2>5, AvctpSuffices
<1>8. CASE 1 < k
  <2>1. /\ complete => /\ a.tag = t /\ a.data = AllData(n, k - 1)
                       /\ a.total = z /\ a.packets = k - 1
        /\ ~complete /\ t \notin broken /\ a.tag = t => a.total = z /\ a.packets < k - 1
        /\ a.tag \in broken \union {"none", t}
    BY <1>1, <1>2, <1>3, <1>8 DEF WholeSoFar, CountBehind, Between, Inside, HasParts
  <2>2. a.packets \in Nat /\ a.total \in Nat /\ a.data \in Seq(Parts) /\ a.tag \in Tags \union {"none"}
    BY <1>3 DEF Assemblers
  <2>3. ASSUME complete PROVE a.data \o p.data = AllData(n, k)
    <3>1. k \in Nat \ {0} /\ n \in Nat
      BY <1>3
    <3>2. AllData(n, k - 1) \o <<<<n, k>>>> = AllData(n, k)
      BY <3>1, LastPart
    <3> QED BY <1>3, <2>1, <2>3, <3>2
  <2>4. CASE k < z
    <3>1. p.type = "Continue"
      BY <1>3, <1>8, <2>4, PacketTypes
    <3>2. /\ out' = <<>>
          /\ a.tag = t /\ a.packets + 1 <= a.total =>
               assembler' = [a EXCEPT !.packets = @ + 1, !.data = @ \o p.data]
          /\ ~(a.tag = t /\ a.packets + 1 <= a.total) => assembler' = Empty
      BY <1>2, <1>3, <1>9, <3>1 DEF MessageTaken
    <3>3. CASE a.tag = t /\ a.packets + 1 <= a.total
      <4>0. PICK b : b = assembler' /\ b = [a EXCEPT !.packets = @ + 1, !.data = @ \o p.data]
        BY <3>2, <3>3
      <4>9. a.data \o p.data \in Seq(Parts)
        BY <1>3, <2>2
      <4>1. /\ b \in Assemblers /\ b.tag = t /\ b.total = a.total
            /\ b.data = a.data \o p.data /\ b.packets = a.packets + 1
        <5>1. PICK d, m : d = a.data \o p.data /\ m = a.packets + 1
          OBVIOUS
        <5>2. a \in Assemblers /\ d \in Seq(Parts) /\ m \in Nat /\ a.tag = t
          BY <1>3, <2>2, <3>3, <4>9, <5>1
        <5>3. b = [a EXCEPT !.packets = m, !.data = d]
          BY <4>0, <5>1
        <5>4. b \in Assemblers /\ b.tag = a.tag /\ b.total = a.total /\ b.packets = m /\ b.data = d
          BY <5>2, <5>3 DEF Assemblers
        <5> QED BY <5>1, <5>2, <5>4
      <4>2. ASSUME complete PROVE b.data = AllData(n, k) /\ b.packets = k /\ b.total = z
        <5>1. a.total = z /\ a.packets = k - 1 /\ a.data \o p.data = AllData(n, k)
          BY <2>1, <2>3, <4>2
        <5>2. a.packets + 1 = k
          BY <1>3, <5>1
        <5> QED BY <4>1, <5>1, <5>2
      <4>3. ~complete /\ t \notin broken => b.total = z /\ b.packets < k
        BY <1>3, <2>1, <2>2, <3>3, <4>1
      <4>4. /\ assembler' \in Assemblers /\ assembler'.tag = message.tag /\ out' = <<>>
            /\ message.next < message.size
        BY <1>2, <2>4, <3>2, <4>0, <4>1
      <4>5. complete => /\ assembler'.total = message.size
                        /\ assembler'.data = AllData(number, message.next)
                        /\ assembler'.packets = message.next
        BY <1>2, <4>0, <4>2
      <4>6. ~complete /\ message.tag \notin broken =>
              assembler'.total = message.size /\ assembler'.packets < message.next
        BY <1>2, <4>0, <4>3
      <4>7. message.next # message.size
        BY <1>2, <1>3, <2>4
      <4> QED BY <4>4, <4>5, <4>6, <4>7, AvctpSuffices
    <3>4. CASE ~(a.tag = t /\ a.packets + 1 <= a.total)
      <4>1. assembler' = Empty /\ out' = <<>>
        BY <3>2, <3>4
      <4>2. ~complete
        BY <1>3, <2>1, <2>4, <3>4
      <4> QED BY <1>2, <1>3, <1>4, <2>4, <4>1, <4>2, AvctpSuffices
    <3> QED BY <3>3, <3>4
  <2>5. CASE k = z
    <3>1. p.type = "End"
      BY <1>3, <1>8, <2>5, PacketTypes
    <3>2. /\ assembler' = Empty
          /\ out' # <<>> <=> a.tag = t /\ a.packets + 1 = a.total
          /\ out' # <<>> => out' = Returns(t, a.data \o p.data)
      BY <1>2, <1>3, <1>9, <3>1 DEF MessageTaken
    <3>3. ASSUME complete PROVE out' = ThisMessage
      <4>1. a.tag = t /\ a.total = z /\ a.packets = k - 1 /\ a.data \o p.data = AllData(n, k)
        BY <2>1, <2>3, <3>3
      <4>2. a.packets + 1 = a.total
        BY <1>3, <2>5, <4>1
      <4> QED BY <1>5, <2>5, <3>2, <4>1, <4>2
    <3>4. ~complete /\ out' # <<>> => t \in broken
      BY <1>3, <2>1, <2>2, <2>5, <3>2
    <3> QED BY <1>2, <1>3, <1>4, <2>5, <3>2, <3>3, <3>4, AvctpSuffices
  <2> QED BY <1>3, <2>4, <2>5
<1> QED BY <1>3, <1>6, <1>7, <1>8

-----------------------------------------------------------------------------
(* AVRCP.                                                                  *)

LEMMA AvrcpSuffices ==
  ASSUME AssemblyInv, Receive, protocol = "avrcp",
         assembler' \in Assemblers,
         complete /\ message.next < message.size =>
           assembler'.tag = message.tag /\ assembler'.data = AllData(number, message.next),
         complete /\ message.next = message.size => out' = ThisMessage,
         out' # <<>> => message.next = message.size
  PROVE  AssemblyInv'
<1>1. AssemblyTypes /\ Between
  BY DEF AssemblyInv
<1>2. /\ ~Done
      /\ message' \in [tag : Tags \union {"none"}, size : Nat, next : Nat \ {0}]
      /\ message'.tag = message.tag /\ message'.size = message.size
      /\ message'.next = message.next + 1
      /\ protocol' = "avrcp" /\ number' = number /\ complete' = complete
      /\ clean' = clean /\ broken' = broken
      /\ Empty' = Empty /\ ThisMessage' = ThisMessage
      /\ Done' <=> message.next = message.size
  BY <1>1, ReceiveFrame
<1>3. /\ number \in Nat \ {0} /\ message.tag \in Tags /\ message.size \in Nat
      /\ message.next \in Nat \ {0} /\ message.next <= message.size
      /\ message.size \in Sizes
  BY <1>1, <1>2, PacketSent DEF AssemblyTypes
<1>4. AssemblyTypes'
  BY <1>1, <1>2, <1>3 DEF AssemblyTypes
<1>5. Inside' => message.next < message.size
  BY <1>2, <1>3 DEF Inside
<1>6. message'.next - 1 = message.next
  BY <1>2, <1>3
<1>7. WholeSoFar'
  BY <1>2, <1>5, <1>6 DEF WholeSoFar, HasParts
<1>8. CountBehind'
  BY <1>2 DEF CountBehind
<1>9. Between'
  BY <1>2, <1>3 DEF Between
<1>10. OutInv'
  BY <1>2, <1>3 DEF OutInv
<1>11. NothingSpliced'
  BY <1>2 DEF NothingSpliced
<1>12. WholeReturned'
  BY <1>2 DEF WholeReturned
<1> QED BY <1>4, <1>7, <1>8, <1>9, <1>10, <1>11, <1>12 DEF AssemblyInv

LEMMA AvrcpReceives ==
  ASSUME AssemblyInv, Receive, protocol = "avrcp"
  PROVE  AssemblyInv'
<1>1. AssemblyTypes /\ Between /\ WholeSoFar /\ ~Done
  BY ReceiveFrame DEF AssemblyInv
<1>2. PICK p, r, a, n, k, z, t :
        /\ p = NextPacket /\ a = assembler /\ r = Command(a, p)
        /\ n = number /\ k = message.next /\ z = message.size /\ t = message.tag
        /\ assembler' = r.state /\ out' = r.messages
  BY DEF Receive
<1>3. /\ a \in Assemblers /\ n \in Nat \ {0} /\ z \in Nat /\ k \in 1 .. z
      /\ t \in Tags
      /\ p.tag = t /\ p.data = <<<<n, k>>>> /\ p.data \in Seq(Parts)
      /\ p.type = PacketType(k, z)
      /\ r = Command(a, p)
  BY <1>1, <1>2, PacketSent DEF AssemblyTypes
<1>4. Empty \in Assemblers
  BY EmptyAssembler
<1>5. ThisMessage = Returns(t, AllData(n, z))
  BY <1>2 DEF ThisMessage
<1>6. CommandTaken(a, p, r)
  BY <1>3, CommandTakes
<1>7. CASE k = 1 /\ z = 1
  <2>1. p.type = "Single"
    BY <1>3, <1>7, PacketTypes
  <2>2. assembler' = Empty /\ out' = Returns(t, <<<<n, 1>>>>)
    BY <1>2, <1>3, <1>6, <1>7, <2>1 DEF CommandTaken
  <2>3. out' = ThisMessage
    BY <1>3, <1>5, <1>7, <2>2, FirstPart
  <2> QED BY <1>2, <1>4, <1>7, <2>2, <2>3, AvrcpSuffices
<1>8. CASE k = 1 /\ z > 1
  <2>1. p.type = "Start"
    BY <1>3, <1>8, PacketTypes
  <2>2. assembler' = [Empty EXCEPT !.tag = t, !.data = <<<<n, 1>>>>] /\ out' = <<>>
    BY <1>2, <1>3, <1>6, <1>8, <2>1 DEF CommandTaken
  <2>3. <<<<n, 1>>>> = AllData(n, 1) /\ <<<<n, 1>>>> \in Seq(Parts)
    BY <1>3, FirstPart
  <2>4. assembler' \in Assemblers /\ assembler'.tag = t /\ assembler'.data = AllData(n, k)
    BY <1>3, <1>4, <1>8, <2>2, <2>3 DEF Assemblers
  <2> QED BY <1>2, <1>3, <1>8, <2>2, <2>4, AvrcpSuffices
<1>9. CASE 1 < k
  <2>1. complete => a.tag = t /\ a.data = AllData(n, k - 1)
    BY <1>1, <1>2, <1>3, <1>9 DEF WholeSoFar, Inside, HasParts
  <2>2. ASSUME complete PROVE a.data \o p.data = AllData(n, k)
    <3>1. k \in Nat \ {0} /\ n \in Nat
      BY <1>3
    <3>2. AllData(n, k - 1) \o <<<<n, k>>>> = AllData(n, k)
      BY <3>1, LastPart
    <3> QED BY <1>3, <2>1, <2>2, <3>2
  <2>3. a.data \o p.data \in Seq(Parts)
    BY <1>3 DEF Assemblers
  <2>4. CASE k < z
    <3>1. p.type = "Continue"
      BY <1>3, <1>9, <2>4, PacketTypes
    <3>2. CASE a.tag = t
      <4>1. out' = <<>> /\ assembler' = [a EXCEPT !.data = @ \o p.data]
        BY <1>2, <1>3, <1>6, <3>1, <3>2 DEF CommandTaken
      <4>2. /\ assembler' \in Assemblers /\ assembler'.tag = t
            /\ assembler'.data = a.data \o p.data
        BY <1>3, <2>3, <3>2, <4>1 DEF Assemblers
      <4>3. complete => /\ assembler'.tag = message.tag
                        /\ assembler'.data = AllData(number, message.next)
        BY <1>2, <2>2, <4>2
      <4>4. message.next # message.size
        BY <1>2, <1>3, <2>4
      <4> QED BY <4>1, <4>2, <4>3, <4>4, AvrcpSuffices
    <3>3. CASE a.tag # t
      <4>1. out' = <<>> /\ assembler' = a
        BY <1>2, <1>3, <1>6, <3>1, <3>3 DEF CommandTaken
      <4> QED BY <1>2, <1>3, <2>1, <2>4, <3>3, <4>1, AvrcpSuffices
    <3> QED BY <3>2, <3>3
  <2>5. CASE k = z
    <3>1. p.type = "End"
      BY <1>3, <1>9, <2>5, PacketTypes
    <3>2. CASE a.tag = t
      <4>1. assembler' = Empty /\ out' = Returns(t, a.data \o p.data)
        BY <1>2, <1>3, <1>6, <3>1, <3>2 DEF CommandTaken
      <4>2. complete => out' = ThisMessage
        BY <1>5, <2>2, <2>5, <4>1
      <4>3. message.next = message.size /\ ~(message.next < message.size)
        BY <1>2, <1>3, <2>5
      <4> QED BY <1>4, <4>1, <4>2, <4>3, AvrcpSuffices
    <3>3. CASE a.tag # t
      <4>1. out' = <<>> /\ assembler' = a
        BY <1>2, <1>3, <1>6, <3>1, <3>3 DEF CommandTaken
      <4> QED BY <1>2, <1>3, <2>1, <2>5, <3>3, <4>1, AvrcpSuffices
    <3> QED BY <3>2, <3>3
  <2> QED BY <1>3, <2>4, <2>5
<1> QED BY <1>3, <1>7, <1>8, <1>9

-----------------------------------------------------------------------------
(* AVDTP.                                                                  *)

LEMMA AvdtpSuffices ==
  ASSUME AssemblyInv, Receive, protocol = "avdtp",
         assembler' \in Assemblers, assembler'.packets <= MaxCount,
         complete /\ message.next < message.size =>
           \/ /\ assembler'.tag = message.tag /\ assembler'.total = message.size
              /\ assembler'.data = AllData(number, message.next)
              /\ clean => assembler'.packets = message.next
           \/ ~clean /\ IsDropped',
         ~complete /\ clean /\ message.next < message.size =>
           \/ /\ assembler'.tag = message.tag /\ assembler'.total = message.size
              /\ assembler'.packets < message.next
           \/ IsDropped',
         complete /\ message.next = message.size /\ (message.size > 1 => clean) =>
           out' = ThisMessage,
         out' # <<>> => /\ message.next = message.size
                        /\ complete => out' = ThisMessage
                        /\ ~complete => ~clean
                        /\ message.size > 1 => assembler' = Empty
  PROVE  AssemblyInv'
<1>1. AssemblyTypes /\ Between
  BY DEF AssemblyInv
<1>2. /\ ~Done
      /\ message' \in [tag : Tags \union {"none"}, size : Nat, next : Nat \ {0}]
      /\ message'.tag = message.tag /\ message'.size = message.size
      /\ message'.next = message.next + 1
      /\ protocol' = "avdtp" /\ number' = number /\ complete' = complete
      /\ clean' = clean /\ broken' = broken
      /\ Empty' = Empty /\ ThisMessage' = ThisMessage
      /\ Done' <=> message.next = message.size
  BY <1>1, ReceiveFrame
<1>3. /\ number \in Nat \ {0} /\ message.tag \in Tags /\ message.size \in Nat
      /\ message.next \in Nat \ {0} /\ message.next <= message.size
      /\ message.size \in Sizes
  BY <1>1, <1>2, PacketSent DEF AssemblyTypes
<1>4. AssemblyTypes'
  BY <1>1, <1>2, <1>3 DEF AssemblyTypes
<1>5. message'.next <= message'.size => message.next < message.size
  BY <1>2, <1>3
<1>6. message'.next - 1 = message.next
  BY <1>2, <1>3
<1>7. WholeSoFar'
  BY <1>2, <1>5, <1>6 DEF WholeSoFar, HasParts, Inside
<1>8. CountBehind'
  BY <1>2, <1>5, <1>6 DEF CountBehind
<1>9. Between'
  BY <1>2, <1>3 DEF Between
<1>10. OutInv'
  BY <1>2, <1>3 DEF OutInv
<1>11. NothingSpliced'
  BY <1>2 DEF NothingSpliced
<1>12. WholeReturned'
  BY <1>2 DEF WholeReturned
<1> QED BY <1>4, <1>7, <1>8, <1>9, <1>10, <1>11, <1>12 DEF AssemblyInv

(* A message that was dropped stays so. *)
LEMMA DroppedStays ==
  ASSUME NEW a \in Assemblers, a.packets <= MaxCount, MaxCount \in Nat \ {0},
         NEW p, p.tag \in Tags, p.data \in Seq(Parts), p.type \in {"Continue", "End"},
         NEW r, r = Signal(a, p),
         a.data = <<>>, a.total = 0, a.tag = p.tag => a.packets = 0
  PROVE  /\ r.messages = <<>>
         /\ p.type = "Continue" =>
              /\ r.state.data = <<>> /\ r.state.total = 0
              /\ r.state.tag = p.tag => r.state.packets = 0
<1>1. Counted(a.packets) \in Nat /\ a.packets \in Nat
  BY CountedInRange DEF Assemblers
<1>2. a.tag = p.tag => Counted(a.packets) = 1
  BY CountedInRange
<1>5. /\ p.type = "Continue" => SignalContinued(a, p, r)
      /\ p.type = "End" => SignalEnded(a, p, r)
  BY SignalContinues, SignalEnds
<1>3. CASE p.type = "Continue"
  <2>1. CASE a.tag = p.tag
    <3>1. ~(Counted(a.packets) < a.total)
      BY <1>1
    <3>2. r.state = Empty /\ r.messages = <<>>
      BY <1>3, <1>5, <2>1, <3>1 DEF SignalContinued
    <3> QED BY <3>2, <1>3, EmptyAssembler
  <2>2. CASE a.tag # p.tag
    <3>1. r.state = [a EXCEPT !.packets = Counted(@)] /\ r.messages = <<>>
      BY <1>3, <1>5, <2>2 DEF SignalContinued
    <3>2. r.state.data = a.data /\ r.state.total = a.total /\ r.state.tag = a.tag
      BY <3>1 DEF Assemblers
    <3> QED BY <2>2, <3>1, <3>2
  <2> QED BY <2>1, <2>2
<1>4. CASE p.type = "End"
  <2>1. ~(a.tag = p.tag /\ Counted(a.packets) = a.total)
    BY <1>2
  <2>2. r.messages = <<>>
    BY <1>4, <1>5, <2>1 DEF SignalEnded
  <2> QED BY <1>4, <2>2
<1> QED BY <1>3, <1>4

LEMMA AvdtpReceives ==
  ASSUME AssemblyInv, Receive, protocol = "avdtp"
  PROVE  AssemblyInv'
<1>1. AssemblyTypes /\ Between /\ WholeSoFar /\ CountBehind /\ ~Done
  BY ReceiveFrame DEF AssemblyInv
<1>2. PICK p, r, a, n, k, z, t :
        /\ p = NextPacket /\ a = assembler /\ r = Signal(a, p)
        /\ n = number /\ k = message.next /\ z = message.size /\ t = message.tag
        /\ assembler' = r.state /\ out' = r.messages
  BY DEF Receive
<1>3. /\ a \in Assemblers /\ n \in Nat \ {0} /\ z \in Nat /\ k \in 1 .. z
      /\ t \in Tags /\ z <= MaxCount /\ MaxCount \in Nat \ {0} /\ a.packets <= MaxCount
      /\ p.tag = t /\ p.total = z /\ p.data = <<<<n, k>>>> /\ p.data \in Seq(Parts)
      /\ p.type = PacketType(k, z)
      /\ r = Signal(a, p)
  BY <1>1, <1>2, PacketSent DEF AssemblyTypes
<1>4. /\ a.packets \in Nat /\ a.total \in Nat /\ a.data \in Seq(Parts)
      /\ Counted(a.packets) \in Nat
      /\ a.packets < MaxCount => Counted(a.packets) = a.packets + 1
  BY <1>3, CountedInRange DEF Assemblers
<1>5. ThisMessage = Returns(t, AllData(n, z))
  BY <1>2 DEF ThisMessage
<1>6. k = 1 => complete
  BY <1>1, <1>2 DEF Between
<1>10. /\ p.type \in {"Single", "Start"} => SignalStarted(a, p, r)
       /\ p.type = "Continue" => SignalContinued(a, p, r)
       /\ p.type = "End" => SignalEnded(a, p, r)
  BY <1>3, SignalFirst, SignalContinues, SignalEnds
<1>7. CASE k = 1 /\ z = 1
  <2>1. p.type = "Single"
    BY <1>3, <1>7, PacketTypes
  <2>2. /\ assembler' \in Assemblers /\ assembler'.packets <= MaxCount
        /\ out' = Returns(t, <<<<n, 1>>>>)
    BY <1>2, <1>3, <1>7, <2>1, <1>10 DEF SignalStarted
  <2>3. out' = ThisMessage
    BY <1>3, <1>5, <1>7, <2>2, FirstPart
  <2> QED BY <1>2, <1>6, <1>7, <2>2, <2>3, AvdtpSuffices
<1>8. CASE k = 1 /\ z > 1
  <2>1. p.type = "Start"
    BY <1>3, <1>8, PacketTypes
  <2>2. /\ assembler' \in Assemblers /\ assembler'.packets <= MaxCount /\ out' = <<>>
        /\ assembler'.data = <<<<n, 1>>>> /\ assembler'.tag = t /\ assembler'.total = z
        /\ a = Empty => assembler'.packets = 1
    BY <1>2, <1>3, <1>8, <2>1, <1>10 DEF SignalStarted
  <2>3. clean => a = Empty
    BY <1>1, <1>2, <1>8 DEF Between
  <2>4. <<<<n, 1>>>> = AllData(n, 1)
    BY <1>3, FirstPart
  <2>5. /\ assembler'.tag = message.tag /\ assembler'.total = message.size
        /\ assembler'.data = AllData(number, message.next)
        /\ clean => assembler'.packets = message.next
    BY <1>2, <1>8, <2>2, <2>3, <2>4
  <2>6. complete /\ message.next # message.size
    BY <1>2, <1>3, <1>6, <1>8
  <2> QED BY <2>2, <2>5, <2>6, AvdtpSuffices
<1>9. CASE 1 < k
  <2>1. CASE a.data = <<>> /\ a.total = 0 /\ (a.tag = t => a.packets = 0)
             /\ (complete => ~clean)
    <3>1. p.type \in {"Continue", "End"}
      BY <1>3, <1>9, PacketTypes
    <3>2. /\ r.messages = <<>>
          /\ p.type = "Continue" =>
               /\ r.state.data = <<>> /\ r.state.total = 0
               /\ r.state.tag = p.tag => r.state.packets = 0
      BY <1>3, <2>1, <3>1, DroppedStays
    <3>3. assembler' \in Assemblers /\ assembler'.packets <= MaxCount
      BY <1>2, <1>3, <3>1, <1>10 DEF SignalContinued, SignalEnded
    <3>4. message'.tag = t
      BY <1>1, <1>2, ReceiveFrame
    <3>5. CASE k < z
      <4>1. p.type = "Continue"
        BY <1>3, <1>9, <3>5, PacketTypes
      <4>2. IsDropped'
        BY <1>2, <1>3, <3>2, <3>4, <4>1 DEF IsDropped
      <4>3. out' = <<>> /\ message.next # message.size
        BY <1>2, <1>3, <3>2, <3>5
      <4> QED BY <2>1, <3>3, <4>2, <4>3, AvdtpSuffices
    <3>6. CASE k = z
      <4>1. out' = <<>> /\ ~(message.next < message.size) /\ message.size > 1
        BY <1>2, <1>3, <1>9, <3>2, <3>6
      <4> QED BY <2>1, <3>3, <4>1, AvdtpSuffices
    <3> QED BY <1>3, <3>5, <3>6
  <2>2. CASE complete /\ a.tag = t /\ a.data = AllData(n, k - 1) /\ a.total = z
             /\ (clean => a.packets = k - 1)
    <3>1. a.data \o p.data = AllData(n, k)
      BY <1>3, <1>9, <2>2, LastPart
    <3>2. clean => Counted(a.packets) = k
      BY <1>3, <1>4, <2>2
    <3>3. CASE k < z
      <4>1. p.type = "Continue"
        BY <1>3, <1>9, <3>3, PacketTypes
      <4>2. assembler' \in Assemblers /\ assembler'.packets <= MaxCount /\ out' = <<>>
        BY <1>2, <1>3, <4>1, <1>10 DEF SignalContinued
      <4>3. message.next # message.size
        BY <1>2, <1>3, <3>3
      <4>4. CASE Counted(a.packets) < a.total
        <5>1. PICK c, d : c = Counted(a.packets) /\ d = a.data \o p.data
          OBVIOUS
        <5>2. r.state = [a EXCEPT !.packets = c, !.data = d]
          BY <1>3, <2>2, <4>1, <4>4, <5>1, <1>10 DEF SignalContinued
        <5>3. /\ assembler'.tag = a.tag /\ assembler'.total = a.total
              /\ assembler'.data = d /\ assembler'.packets = c
          BY <1>2, <1>3, <5>2 DEF Assemblers
        <5>4. /\ assembler'.tag = message.tag /\ assembler'.total = message.size
              /\ assembler'.data = AllData(number, message.next)
              /\ clean => assembler'.packets = message.next
          BY <1>2, <2>2, <3>1, <3>2, <5>1, <5>3
        <5> QED BY <2>2, <4>2, <4>3, <5>4, AvdtpSuffices
      <4>5. CASE ~(Counted(a.packets) < a.total)
        <5>1. assembler' = Empty
          BY <1>2, <1>3, <2>2, <4>1, <4>5, <1>10 DEF SignalContinued
        <5>2. IsDropped'
          BY <5>1, EmptyAssembler DEF IsDropped
        <5>3. ~clean
          BY <1>3, <2>2, <3>2, <3>3, <4>5
        <5> QED BY <2>2, <4>2, <4>3, <5>2, <5>3, AvdtpSuffices
      <4> QED BY <4>4, <4>5
    <3>4. CASE k = z
      <4>1. p.type = "End"
        BY <1>3, <1>9, <3>4, PacketTypes
      <4>2. /\ assembler' \in Assemblers /\ assembler'.packets <= MaxCount
            /\ out' # <<>> <=> a.tag = p.tag /\ Counted(a.packets) = a.total
            /\ out' # <<>> => out' = Returns(t, a.data \o p.data) /\ assembler' = Empty
        BY <1>2, <1>3, <4>1, <1>10 DEF SignalEnded
      <4>3. out' # <<>> => out' = ThisMessage
        BY <1>5, <3>1, <3>4, <4>2
      <4>4. clean => out' = ThisMessage
        BY <1>3, <2>2, <3>2, <3>4, <4>2, <4>3
      <4>5. message.next = message.size /\ ~(message.next < message.size) /\ message.size > 1
        BY <1>2, <1>3, <1>9, <3>4
      <4> QED BY <2>2, <4>2, <4>3, <4>4, <4>5, AvdtpSuffices
    <3> QED BY <1>3, <3>3, <3>4
  <2>3. CASE ~complete /\ clean /\ a.tag = t /\ a.total = z /\ a.packets < k - 1
    <3>1. Counted(a.packets) = a.packets + 1 /\ Counted(a.packets) < k
      BY <1>3, <1>4, <2>3
    <3>2. CASE k < z
      <4>1. p.type = "Continue"
        BY <1>3, <1>9, <3>2, PacketTypes
      <4>2. assembler' \in Assemblers /\ assembler'.packets <= MaxCount /\ out' = <<>>
        BY <1>2, <1>3, <4>1, <1>10 DEF SignalContinued
      <4>3. Counted(a.packets) < a.total
        BY <1>3, <1>4, <2>3, <3>1, <3>2
      <4>4. PICK c, d : c = Counted(a.packets) /\ d = a.data \o p.data
        OBVIOUS
      <4>5. r.state = [a EXCEPT !.packets = c, !.data = d]
        BY <1>3, <2>3, <4>1, <4>3, <4>4, <1>10 DEF SignalContinued
      <4>6. assembler'.tag = a.tag /\ assembler'.total = a.total /\ assembler'.packets = c
        BY <1>2, <1>3, <4>5 DEF Assemblers
      <4>7. /\ assembler'.tag = message.tag /\ assembler'.total = message.size
            /\ assembler'.packets < message.next /\ message.next # message.size
        BY <1>2, <1>3, <2>3, <3>1, <3>2, <4>4, <4>6
      <4> QED BY <2>3, <4>2, <4>7, AvdtpSuffices
    <3>3. CASE k = z
      <4>1. p.type = "End"
        BY <1>3, <1>9, <3>3, PacketTypes
      <4>2. Counted(a.packets) # a.total
        BY <1>3, <1>4, <2>3, <3>1, <3>3
      <4>3. assembler' \in Assemblers /\ assembler'.packets <= MaxCount /\ out' = <<>>
        BY <1>2, <1>3, <4>1, <4>2, <1>10 DEF SignalEnded
      <4>4. ~(message.next < message.size)
        BY <1>2, <1>3, <3>3
      <4> QED BY <2>3, <4>3, <4>4, AvdtpSuffices
    <3> QED BY <1>3, <3>2, <3>3
  <2>4. CASE ~complete /\ ~clean
    <3>1. p.type \in {"Continue", "End"}
      BY <1>3, <1>9, PacketTypes
    <3>2. /\ assembler' \in Assemblers /\ assembler'.packets <= MaxCount
          /\ out' # <<>> => p.type = "End" /\ assembler' = Empty
      BY <1>2, <1>3, <3>1, <1>10 DEF SignalContinued, SignalEnded
    <3>3. out' # <<>> => message.next = message.size
      BY <1>2, <1>3, <1>9, <3>2, PacketTypes
    <3> QED BY <2>4, <3>2, <3>3, AvdtpSuffices
  <2>5. complete => \/ /\ a.tag = t /\ a.data = AllData(n, k - 1) /\ a.total = z
                       /\ clean => a.packets = k - 1
                    \/ ~clean /\ a.data = <<>> /\ a.total = 0 /\ (a.tag = t => a.packets = 0)
    BY <1>1, <1>2, <1>3, <1>9 DEF WholeSoFar, Inside, HasParts, IsDropped
  <2>6. ASSUME ~complete, clean
        PROVE  \/ a.tag = t /\ a.total = z /\ a.packets < k - 1
               \/ a.data = <<>> /\ a.total = 0 /\ (a.tag = t => a.packets = 0)
    <3>1. message.next > 1 /\ message.next <= message.size /\ protocol = "avdtp"
      BY <1>2, <1>3, <1>9
    <3>2. \/ /\ assembler.tag = message.tag /\ assembler.total = message.size
             /\ assembler.packets < message.next - 1
          \/ IsDropped
      BY <1>1, <2>6, <3>1 DEF CountBehind
    <3> QED BY <1>2, <3>2 DEF IsDropped
  <2> QED BY <2>1, <2>2, <2>3, <2>4, <2>5, <2>6
<1> QED BY <1>3, <1>7, <1>8, <1>9

-----------------------------------------------------------------------------
(* The peer and what is lost.                                              *)

LEMMA InvBegins ==
  ASSUME AssemblyInv, Begin
  PROVE  AssemblyInv'
<1>1. AssemblyTypes /\ Between /\ OutInv
  BY DEF AssemblyInv
<1>2. PICK tag \in Tags, size \in Sizes : message' = [tag |-> tag, size |-> size, next |-> 1]
  BY DEF Begin
<1>3. /\ message'.tag = tag /\ message'.size = size /\ message'.next = 1
      /\ message' \in [tag : Tags \union {"none"}, size : Nat, next : Nat \ {0}]
      /\ size \in Nat /\ 1 <= size
  BY <1>2, SizesAssumption
<1>4. /\ number' = number + 1 /\ complete' = TRUE /\ out' = <<>>
      /\ protocol' = protocol /\ assembler' = assembler
      /\ clean' = (number = 0 \/ (message.size > 1 /\ out = ThisMessage))
      /\ broken' = broken \union (IF complete /\ Done THEN {} ELSE {message.tag})
      /\ Empty' = Empty
  BY DEF Begin, Empty
<1>5. number \in Nat /\ number' \in Nat /\ number' > 0
  BY <1>1, <1>4 DEF AssemblyTypes
<1>6. ~Done'
  BY <1>3 DEF Done
<1>7. AssemblyTypes'
  BY <1>1, <1>2, <1>3, <1>4, <1>5 DEF AssemblyTypes
<1>8. WholeSoFar' /\ CountBehind'
  BY <1>3 DEF WholeSoFar, CountBehind, Inside
<1>9. OutInv' /\ NothingSpliced' /\ WholeReturned'
  BY <1>4, <1>6 DEF OutInv, NothingSpliced, WholeReturned
<1>10. ASSUME protocol = "avctp"
       PROVE  assembler.tag \in broken' \union {"none"}
  <2>1. assembler.tag \in broken \union {"none", message.tag}
    BY <1>1, <1>10 DEF Between
  <2>2. CASE complete /\ Done
    <3>1. assembler = Empty
      BY <1>1, <1>10, <2>2 DEF Between
    <3> QED BY <1>10, <3>1, EmptyAssembler
  <2>3. CASE ~(complete /\ Done)
    BY <1>4, <2>1, <2>3
  <2> QED BY <2>2, <2>3
<1>11. ASSUME protocol = "avdtp", clean'
       PROVE  assembler = Empty
  <2>1. CASE number = 0
    BY <1>1, <1>11, <2>1 DEF Between
  <2>2. CASE message.size > 1 /\ out = ThisMessage
    <3>1. out # <<>>
      BY <2>2 DEF ThisMessage, Returns
    <3> QED BY <1>1, <1>11, <2>2, <3>1 DEF Between
  <2> QED BY <1>4, <1>11, <2>1, <2>2
<1>12. Between'
  BY <1>3, <1>4, <1>5, <1>6, <1>10, <1>11 DEF Between
<1> QED BY <1>7, <1>8, <1>9, <1>12 DEF AssemblyInv

LEMMA InvLoses ==
  ASSUME AssemblyInv, Lose
  PROVE  AssemblyInv'
<1>1. AssemblyTypes /\ Between /\ WholeSoFar /\ CountBehind /\ ~Done
  BY DEF AssemblyInv, Lose
<1>2. /\ complete' = FALSE /\ out' = <<>>
      /\ message' = [message EXCEPT !.next = @ + 1]
      /\ protocol' = protocol /\ assembler' = assembler /\ number' = number
      /\ clean' = clean /\ broken' = broken /\ Empty' = Empty
  BY DEF Lose, Empty
<1>3. /\ number \in Nat \ {0} /\ message.tag \in Tags
      /\ message.size \in Nat /\ message.next \in 1 .. message.size
  BY <1>1, PacketSent
<1>4. /\ message' \in [tag : Tags \union {"none"}, size : Nat, next : Nat \ {0}]
      /\ message'.tag = message.tag /\ message'.size = message.size
      /\ message'.next = message.next + 1
  BY <1>1, <1>2 DEF AssemblyTypes
<1>5. AssemblyTypes'
  <2>1. message'.next <= message'.size + 1 /\ number' > 0 /\ number' # 0
    BY <1>2, <1>3, <1>4
  <2>2. complete' \in BOOLEAN /\ clean' \in BOOLEAN
    BY <1>1, <1>2 DEF AssemblyTypes
  <2> QED BY <1>1, <1>2, <1>4, <2>1, <2>2 DEF AssemblyTypes
<1>6. WholeSoFar' /\ OutInv' /\ NothingSpliced' /\ WholeReturned'
  BY <1>2 DEF WholeSoFar, OutInv, NothingSpliced, WholeReturned
<1>7. Between'
  BY <1>1, <1>2, <1>3, <1>4 DEF Between
<1>8. assembler.packets \in Nat
  BY <1>1 DEF AssemblyTypes, Assemblers
<1>9. ASSUME protocol = "avctp", message.tag \notin broken, assembler.tag = message.tag
      PROVE  assembler.total = message.size /\ assembler.packets < message.next
  <2>1. message.next # 1
    BY <1>1, <1>3, <1>9, TagsAssumption DEF Between
  <2>2. 1 < message.next /\ message.next <= message.size
    BY <1>3, <2>1
  <2>3. CASE complete
    <3>1. assembler.total = message.size /\ assembler.packets = message.next - 1
      BY <1>1, <1>9, <2>2, <2>3 DEF WholeSoFar, Inside
    <3> QED BY <1>3, <3>1
  <2>4. CASE ~complete
    <3>1. assembler.total = message.size /\ assembler.packets < message.next - 1
      BY <1>1, <1>9, <2>2, <2>4 DEF CountBehind
    <3> QED BY <1>3, <1>8, <3>1
  <2> QED BY <2>3, <2>4
<1>10. ASSUME protocol = "avdtp", clean
       PROVE  \/ /\ assembler.tag = message.tag /\ assembler.total = message.size
                 /\ assembler.packets < message.next
              \/ IsDropped
  <2>1. CASE message.next = 1
    <3>1. assembler = Empty
      BY <1>1, <1>10, <2>1 DEF Between
    <3> QED BY <3>1, EmptyAssembler DEF IsDropped
  <2>2. CASE message.next # 1 /\ complete
    <3>1. 1 < message.next /\ message.next <= message.size
      BY <1>3, <2>2
    <3>2. /\ assembler.tag = message.tag /\ assembler.total = message.size
          /\ assembler.packets = message.next - 1
      BY <1>1, <1>10, <2>2, <3>1 DEF WholeSoFar, Inside, HasParts
    <3> QED BY <1>3, <3>2
  <2>3. CASE message.next # 1 /\ ~complete
    <3>1. 1 < message.next /\ message.next <= message.size
      BY <1>3, <2>3
    <3>2. \/ /\ assembler.tag = message.tag /\ assembler.total = message.size
             /\ assembler.packets < message.next - 1
          \/ IsDropped
      BY <1>1, <1>10, <2>3, <3>1 DEF CountBehind
    <3> QED BY <1>3, <1>8, <3>2
  <2> QED BY <2>1, <2>2, <2>3
<1>11. message'.next - 1 = message.next
  BY <1>3, <1>4
<1>12. IsDropped' <=> IsDropped
  BY <1>2, <1>4 DEF IsDropped
<1>13. CountBehind'
  BY <1>2, <1>4, <1>9, <1>10, <1>11, <1>12 DEF CountBehind
<1> QED BY <1>5, <1>6, <1>7, <1>13 DEF AssemblyInv

LEMMA InvUnchanged ==
  ASSUME AssemblyInv, UNCHANGED <<protocol, assembler, out, number, message, complete, clean, broken>>
  PROVE  AssemblyInv'
<1>1. ThisMessage' = ThisMessage /\ Empty' = Empty /\ (Done' <=> Done)
  BY DEF ThisMessage, Empty, Done
<1>2. (IsDropped' <=> IsDropped) /\ (HasParts' <=> HasParts) /\ (Inside' <=> Inside)
  BY DEF IsDropped, HasParts, Inside
<1>3. AssemblyTypes' /\ WholeSoFar' /\ CountBehind'
  BY <1>2 DEF AssemblyInv, AssemblyTypes, WholeSoFar, CountBehind
<1>4. Between' /\ OutInv' /\ NothingSpliced' /\ WholeReturned'
  BY <1>1 DEF AssemblyInv, Between, OutInv, NothingSpliced, WholeReturned
<1> QED BY <1>3, <1>4 DEF AssemblyInv

LEMMA InvInitially ==
  ASSUME AssemblyInit
  PROVE  AssemblyInv
<1>1. /\ message.tag = "none" /\ message.size = 0 /\ message.next = 1
      /\ message \in [tag : Tags \union {"none"}, size : Nat, next : Nat \ {0}]
  BY DEF AssemblyInit
<1>2. protocol \in Protocols /\ assembler = Empty /\ number = 0 /\ out = <<>>
        /\ complete = TRUE /\ clean = TRUE /\ MaxCount \in Nat
  BY SizesAssumption DEF AssemblyInit
<1>3. AssemblyTypes
  BY <1>1, <1>2, EmptyAssembler DEF AssemblyTypes
<1>4. WholeSoFar /\ CountBehind
  BY <1>1 DEF WholeSoFar, CountBehind, Inside
<1>5. Between
  BY <1>1, <1>2, EmptyAssembler DEF Between
<1>6. OutInv /\ NothingSpliced /\ WholeReturned
  BY <1>2 DEF OutInv, NothingSpliced, WholeReturned
<1> QED BY <1>3, <1>4, <1>5, <1>6 DEF AssemblyInv

(* What an assembler returns is the message just sent, whole, unless one of  *)
(* the losses it cannot see deceives it; and a message no packet of which    *)
(* was lost is returned whole, whatever was abandoned or lost before it      *)
(* (process_msg of the three assemblers).                                    *)
THEOREM MessagesComeWhole == AssemblySpec => []AssembledIsSent
<1>1. AssemblyInit => AssemblyInv
  BY InvInitially
<1>2. AssemblyInv /\ [AssemblyNext]_assemblyVars => AssemblyInv'
  <2> SUFFICES ASSUME AssemblyInv, [AssemblyNext]_assemblyVars
               PROVE  AssemblyInv'
    OBVIOUS
  <2>1. CASE Begin
    BY <2>1, InvBegins
  <2>2. CASE Receive
    <3>1. protocol \in Protocols
      BY DEF AssemblyInv, AssemblyTypes
    <3> QED BY <2>2, <3>1, AvctpReceives, AvdtpReceives, AvrcpReceives DEF Protocols
  <2>3. CASE Overflow
    BY <2>3, InvUnchanged DEF Overflow
  <2>4. CASE Lose
    BY <2>4, InvLoses
  <2>5. CASE UNCHANGED assemblyVars
    BY <2>5, InvUnchanged DEF assemblyVars
  <2> QED BY <2>1, <2>2, <2>3, <2>4, <2>5 DEF AssemblyNext
<1>3. AssemblyInv => AssembledIsSent
  BY DEF AssemblyInv, AssembledIsSent
<1> QED BY <1>1, <1>2, <1>3, PTL DEF AssemblySpec

-----------------------------------------------------------------------------
(* The SDP server.                                                         *)

(* The bytes of all answers. *)
Bytes == UNION {{Answers[name][i] : i \in DOMAIN Answers[name]} : name \in DOMAIN Answers}

SdpTypes ==
    /\ buffer \in Seq(Bytes)
    /\ asked \in [Clients -> Lists \union Searches \union {"none"}]
    /\ got \in [Clients -> Seq(Bytes)]
    /\ finished \in [Clients -> BOOLEAN]

SdpInv == SdpTypes /\ AnswersWhole

(* What AnswersWhole says of one client. *)
HasWhole(c) ==
    asked[c] # "none" /\ c \notin disturbed =>
        /\ Collecting(c) => buffer # <<>>
        /\ got[c] \o (IF Collecting(c) THEN buffer ELSE <<>>) = Answers[asked[c]]

LEMMA AnswerBytes ==
  ASSUME NEW name \in DOMAIN Answers
  PROVE  Answers[name] \in Seq(Bytes) /\ name # "none"
<1> DEFINE Own == {Answers[name][i] : i \in DOMAIN Answers[name]}
<1>1. Answers[name] \in Seq(Own) /\ name # "none"
  BY AnswersAssumption
<1>2. Own \subseteq Bytes
  BY DEF Bytes
<1> HIDE DEF Own
<1>3. Answers[name] \in Seq(Bytes)
  BY <1>1, <1>2
<1> QED BY <1>1, <1>3

(* Bytes are cut in two after the first n of them, and what is sent first and *)
(* what is sent later make them up.                                           *)
Cuts(S, before, bytes, n) ==
  /\ SubSeq(bytes, 1, n) \in Seq(S) /\ SubSeq(bytes, n + 1, Len(bytes)) \in Seq(S)
  /\ (before \o SubSeq(bytes, 1, n)) \o SubSeq(bytes, n + 1, Len(bytes)) = before \o bytes
  /\ n < Len(bytes) => SubSeq(bytes, n + 1, Len(bytes)) # <<>>
  /\ n = Len(bytes) => /\ SubSeq(bytes, 1, n) = bytes
                       /\ SubSeq(bytes, n + 1, Len(bytes)) = <<>>

LEMMA CutInTwo ==
  ASSUME NEW S, NEW before \in Seq(S), NEW bytes \in Seq(S),
         NEW n \in Nat, n <= Len(bytes)
  PROVE  Cuts(S, before, bytes, n)
<1>1. Len(bytes) \in Nat /\ bytes = SubSeq(bytes, 1, Len(bytes))
  BY SubSeqFull
<1>2. PICK first, rest : first = SubSeq(bytes, 1, n) /\ rest = SubSeq(bytes, n + 1, Len(bytes))
  OBVIOUS
<1>3. first \in Seq(S) /\ Len(first) = n
  BY <1>1, <1>2, SubSeqProperties
<1>4. /\ rest \in Seq(S)
      /\ Len(rest) = IF n + 1 <= Len(bytes) THEN Len(bytes) - (n + 1) + 1 ELSE 0
  BY <1>1, <1>2, SubSeqProperties
<1>5. first \o rest = bytes
  <2>1. 1 \in 1 .. Len(bytes) + 1 /\ n \in 1 - 1 .. Len(bytes) /\ Len(bytes) \in n .. Len(bytes)
    BY <1>1
  <2>2. SubSeq(bytes, 1, n) \o SubSeq(bytes, n + 1, Len(bytes)) = SubSeq(bytes, 1, Len(bytes))
    BY <2>1, ConcatAdjacentSubSeq
  <2> QED BY <1>1, <1>2, <2>2
<1>6. (before \o first) \o rest = before \o (first \o rest)
  <2>1. first \in Seq(S)
    BY <1>3
  <2>2. rest \in Seq(S)
    BY <1>4
  <2> QED BY <2>1, <2>2, ConcatAssociative
<1>7. n < Len(bytes) => rest # <<>>
  <2>1. ASSUME n < Len(bytes) PROVE rest # <<>>
    <3>1. n + 1 <= Len(bytes) /\ Len(bytes) - (n + 1) + 1 > 0
      BY <1>1, <2>1
    <3>2. Len(rest) # 0
      BY <1>4, <3>1
    <3> QED BY <3>2, EmptySeq
  <2> QED BY <2>1
<1>8. n = Len(bytes) => first = bytes /\ rest = <<>>
  <2>1. rest # <<>> => Len(rest) > 0
    BY <1>4, EmptySeq
  <2> QED BY <1>1, <1>2, <1>4, <2>1
<1> QED BY <1>2, <1>3, <1>4, <1>5, <1>6, <1>7, <1>8 DEF Cuts

(* A reply leaves the types and makes the answer of its client complete with *)
(* what remains.                                                             *)
Replied(c, name, whole) ==
  /\ asked'[c] = name
  /\ Collecting(c)' => buffer' # <<>>
  /\ name # "none" => got'[c] \o (IF Collecting(c)' THEN buffer' ELSE <<>>) = whole

LeftAlone(c) ==
  \A d \in Clients \ {c} :
    asked'[d] = asked[d] /\ got'[d] = got[d] /\ finished'[d] = finished[d]

LEMMA ReplyKeeps ==
  ASSUME SdpTypes, NEW c \in Clients, NEW name \in Lists \union Searches,
         NEW before \in Seq(Bytes), NEW bytes \in Seq(Bytes),
         Reply(c, name, before, bytes)
  PROVE  SdpTypes' /\ Replied(c, name, before \o bytes) /\ LeftAlone(c)
<1>1. Maximum[name] \in Nat /\ Len(bytes) \in Nat
  BY MaximumAssumption
<1>2. PICK n, first, rest :
        /\ n = (IF Len(bytes) < Maximum[name] THEN Len(bytes) ELSE Maximum[name])
        /\ first = SubSeq(bytes, 1, n) /\ rest = SubSeq(bytes, n + 1, Len(bytes))
  OBVIOUS
<1>3. n \in Nat /\ n <= Len(bytes)
  BY <1>1, <1>2
<1>4. /\ buffer' = rest
      /\ asked' = [asked EXCEPT ![c] = name]
      /\ got' = [got EXCEPT ![c] = before \o first]
      /\ finished' = [finished EXCEPT ![c] = n = Len(bytes)]
  BY <1>2 DEF Reply
<1>5. /\ first \in Seq(Bytes) /\ rest \in Seq(Bytes)
      /\ (before \o first) \o rest = before \o bytes
      /\ n < Len(bytes) => rest # <<>>
      /\ n = Len(bytes) => first = bytes /\ rest = <<>>
  <2>1. Cuts(Bytes, before, bytes, n)
    BY <1>3, CutInTwo
  <2> QED BY <1>2, <2>1 DEF Cuts
<1>6. before \o first \in Seq(Bytes)
  BY <1>5
<1>7. SdpTypes'
  BY <1>4, <1>5, <1>6 DEF SdpTypes
<1>8. /\ asked'[c] = name /\ got'[c] = before \o first
      /\ finished'[c] <=> n = Len(bytes)
  BY <1>4 DEF SdpTypes
<1>9. LeftAlone(c)
  BY <1>4 DEF SdpTypes, LeftAlone
<1>10. Collecting(c)' => n < Len(bytes)
  BY <1>1, <1>3, <1>8 DEF Collecting
<1>11. CASE n = Len(bytes)
  <2>1. ~Collecting(c)'
    BY <1>8, <1>11 DEF Collecting
  <2>2. (before \o first) \o <<>> = before \o bytes
    BY <1>5, <1>6, <1>11
  <2> QED BY <1>7, <1>8, <1>9, <2>1, <2>2 DEF Replied
<1>12. CASE n # Len(bytes)
  <2>1. n < Len(bytes)
    BY <1>1, <1>3, <1>12
  <2>2. name # "none" => Collecting(c)'
    BY <1>8, <1>12 DEF Collecting
  <2> QED BY <1>4, <1>5, <1>7, <1>8, <1>9, <2>1, <2>2 DEF Replied
<1> QED BY <1>11, <1>12

(* A refusal leaves the types, and the client without a request. *)
LEMMA RefuseKeeps ==
  ASSUME SdpTypes, NEW c \in Clients, Refuse(c), buffer' \in Seq(Bytes)
  PROVE  /\ SdpTypes'
         /\ asked'[c] = "none"
         /\ LeftAlone(c)
<1>1. <<>> \in Seq(Bytes)
  OBVIOUS
<1> QED BY <1>1 DEF SdpTypes, Refuse, LeftAlone

(* Of a client whose request is left alone, only the buffer can change what   *)
(* it will have; and while it collects, the buffer changes only under a       *)
(* request that counts as a disturbance.                                      *)
LEMMA OthersKeep ==
  ASSUME NEW c \in Clients, NEW d \in Clients \ {c}, HasWhole(d),
         asked'[d] = asked[d] /\ got'[d] = got[d] /\ finished'[d] = finished[d],
         d \in disturbed => d \in disturbed',
         buffer' = buffer \/ (Collecting(d) => d \in disturbed')
  PROVE  HasWhole(d)'
<1>1. Collecting(d)' <=> Collecting(d)
  BY DEF Collecting
<1> QED BY <1>1 DEF HasWhole

LEMMA FirstListKeeps ==
  ASSUME SdpInv, NEW c \in Clients, NEW name \in Lists, FirstList(c, name)
  PROVE  SdpInv'
<1>1. SdpTypes /\ \A d \in Clients : HasWhole(d)
  BY DEF SdpInv, AnswersWhole, HasWhole
<1>2. disturbed' = (disturbed \ {c}) \union Others(c)
  BY DEF FirstList
<1>3. CASE name \in DOMAIN Answers
  <2>1. Answers[name] \in Seq(Bytes) /\ <<>> \in Seq(Bytes) /\ name # "none"
    BY <1>3, AnswerBytes
  <2>2. Reply(c, name, <<>>, Answers[name])
    BY <1>3 DEF FirstList
  <2>3. /\ SdpTypes'
        /\ Replied(c, name, <<>> \o Answers[name])
        /\ LeftAlone(c)
    BY <1>1, <2>1, <2>2, ReplyKeeps
  <2>4. <<>> \o Answers[name] = Answers[name]
    BY <2>1
  <2>5. HasWhole(c)'
    BY <2>1, <2>3, <2>4 DEF HasWhole, Replied
  <2>6. ASSUME NEW d \in Clients \ {c} PROVE HasWhole(d)'
    BY <1>1, <1>2, <2>3, OthersKeep DEF Others, LeftAlone
  <2> QED BY <2>3, <2>5, <2>6 DEF SdpInv, AnswersWhole, HasWhole
<1>4. CASE name \notin DOMAIN Answers
  <2>1. Refuse(c) /\ buffer' = <<>>
    BY <1>4 DEF FirstList
  <2>2. /\ SdpTypes'
        /\ asked'[c] = "none"
        /\ LeftAlone(c)
    BY <1>1, <2>1, RefuseKeeps
  <2>3. HasWhole(c)'
    BY <2>2 DEF HasWhole
  <2>4. ASSUME NEW d \in Clients \ {c} PROVE HasWhole(d)'
    BY <1>1, <1>2, <2>2, OthersKeep DEF Others, LeftAlone
  <2> QED BY <2>2, <2>3, <2>4 DEF SdpInv, AnswersWhole, HasWhole
<1> QED BY <1>3, <1>4

LEMMA ContinueListKeeps ==
  ASSUME SdpInv, NEW c \in Clients, NEW name \in Lists, ContinueList(c, name)
  PROVE  SdpInv'
<1>1. SdpTypes /\ \A d \in Clients : HasWhole(d)
  BY DEF SdpInv, AnswersWhole, HasWhole
<1>2. /\ disturbed' = disturbed \union Others(c) \union (IF Collecting(c) THEN {} ELSE {c})
      /\ Collecting(c) => name = asked[c]
  BY DEF ContinueList
<1>3. CASE buffer # <<>>
  <2>1. Reply(c, name, got[c], buffer) /\ got[c] \in Seq(Bytes) /\ buffer \in Seq(Bytes)
    BY <1>1, <1>3 DEF ContinueList, SdpTypes
  <2>2. /\ SdpTypes'
        /\ Replied(c, name, got[c] \o buffer)
        /\ LeftAlone(c)
    BY <1>1, <2>1, ReplyKeeps
  <2>3. ASSUME c \notin disturbed', name # "none"
        PROVE  got[c] \o buffer = Answers[name]
    <3>1. Collecting(c) /\ c \notin disturbed /\ name = asked[c]
      BY <1>2, <2>3
    <3> QED BY <1>1, <2>3, <3>1 DEF HasWhole
  <2>4. HasWhole(c)'
    BY <2>2, <2>3 DEF HasWhole, Replied
  <2>5. ASSUME NEW d \in Clients \ {c} PROVE HasWhole(d)'
    BY <1>1, <1>2, <2>2, OthersKeep DEF Others, LeftAlone
  <2> QED BY <2>2, <2>4, <2>5 DEF SdpInv, AnswersWhole, HasWhole
<1>4. CASE buffer = <<>>
  <2>1. Refuse(c) /\ buffer' = buffer /\ buffer' \in Seq(Bytes)
    BY <1>1, <1>4 DEF ContinueList, SdpTypes
  <2>2. /\ SdpTypes'
        /\ asked'[c] = "none"
        /\ LeftAlone(c)
    BY <1>1, <2>1, RefuseKeeps
  <2>3. HasWhole(c)'
    BY <2>2 DEF HasWhole
  <2>4. ASSUME NEW d \in Clients \ {c} PROVE HasWhole(d)'
    BY <1>1, <1>2, <2>1, <2>2, OthersKeep DEF Others, LeftAlone
  <2> QED BY <2>2, <2>3, <2>4 DEF SdpInv, AnswersWhole, HasWhole
<1> QED BY <1>3, <1>4

LEMMA SearchKeeps ==
  ASSUME SdpInv, NEW c \in Clients, NEW name \in Searches, Search(c, name)
  PROVE  SdpInv'
<1>1. SdpTypes /\ (\A d \in Clients : HasWhole(d)) /\ buffer \in Seq(Bytes)
  BY DEF SdpInv, AnswersWhole, HasWhole, SdpTypes
<1>2. disturbed' = disturbed \ {c} /\ buffer' = buffer
  BY DEF Search
<1>3. CASE name \in DOMAIN Answers
  <2>1. Answers[name] \in Seq(Bytes)
    BY <1>3, AnswerBytes
  <2>2. /\ asked' = [asked EXCEPT ![c] = name]
        /\ got' = [got EXCEPT ![c] = Answers[name]]
        /\ finished' = [finished EXCEPT ![c] = TRUE]
    BY <1>3 DEF Search
  <2>3. SdpTypes'
    BY <1>1, <1>2, <2>1, <2>2 DEF SdpTypes
  <2>4. /\ asked'[c] = name /\ got'[c] = Answers[name] /\ finished'[c]
        /\ LeftAlone(c)
    BY <1>1, <2>2 DEF SdpTypes, LeftAlone
  <2>5. ~Collecting(c)' /\ Answers[name] \o <<>> = Answers[name]
    BY <2>1, <2>4 DEF Collecting
  <2>6. HasWhole(c)'
    BY <2>4, <2>5 DEF HasWhole
  <2>7. ASSUME NEW d \in Clients \ {c} PROVE HasWhole(d)'
    BY <1>1, <1>2, <2>4, OthersKeep DEF LeftAlone
  <2> QED BY <2>3, <2>6, <2>7 DEF SdpInv, AnswersWhole, HasWhole
<1>4. CASE name \notin DOMAIN Answers
  <2>1. Refuse(c) /\ buffer' \in Seq(Bytes)
    BY <1>1, <1>2, <1>4 DEF Search
  <2>2. /\ SdpTypes'
        /\ asked'[c] = "none"
        /\ LeftAlone(c)
    BY <1>1, <2>1, RefuseKeeps
  <2>3. HasWhole(c)'
    BY <2>2 DEF HasWhole
  <2>4. ASSUME NEW d \in Clients \ {c} PROVE HasWhole(d)'
    BY <1>1, <1>2, <2>2, OthersKeep DEF LeftAlone
  <2> QED BY <2>2, <2>3, <2>4 DEF SdpInv, AnswersWhole, HasWhole
<1> QED BY <1>3, <1>4

LEMMA GiveUpKeeps ==
  ASSUME SdpInv, NEW c \in Clients, GiveUp(c)
  PROVE  SdpInv'
<1>1. SdpTypes /\ (\A d \in Clients : HasWhole(d)) /\ buffer \in Seq(Bytes)
  BY DEF SdpInv, AnswersWhole, HasWhole, SdpTypes
<1>2. Refuse(c) /\ buffer' = buffer /\ disturbed' = disturbed
  BY DEF GiveUp
<1>3. /\ SdpTypes'
      /\ asked'[c] = "none"
      /\ LeftAlone(c)
  BY <1>1, <1>2, RefuseKeeps
<1>4. HasWhole(c)'
  BY <1>3 DEF HasWhole
<1>5. ASSUME NEW d \in Clients \ {c} PROVE HasWhole(d)'
  BY <1>1, <1>2, <1>3, OthersKeep DEF LeftAlone
<1> QED BY <1>3, <1>4, <1>5 DEF SdpInv, AnswersWhole, HasWhole

(* A client that collects its list undisturbed gets all of it, whatever was   *)
(* given up, refused or searched before on the channel: the buffer of the     *)
(* handler holds the rest of the answer to its own request.                   *)
THEOREM AnswersComeWhole == SdpSpec => []AnswersWhole
<1>1. SdpInit => SdpInv
  <2> SUFFICES ASSUME SdpInit PROVE SdpInv
    OBVIOUS
  <2>1. SdpTypes
    BY DEF SdpInit, SdpTypes
  <2>2. AnswersWhole
    BY DEF SdpInit, AnswersWhole
  <2> QED BY <2>1, <2>2 DEF SdpInv
<1>2. SdpInv /\ [SdpNext]_sdpVars => SdpInv'
  <2> SUFFICES ASSUME SdpInv, [SdpNext]_sdpVars
               PROVE  SdpInv'
    OBVIOUS
  <2>1. CASE UNCHANGED sdpVars
    BY <2>1 DEF SdpInv, SdpTypes, AnswersWhole, Collecting, sdpVars
  <2>2. CASE SdpNext
    BY <2>2, FirstListKeeps, ContinueListKeeps, SearchKeeps, GiveUpKeeps DEF SdpNext
  <2> QED BY <2>1, <2>2
<1>3. SdpInv => AnswersWhole
  BY DEF SdpInv
<1> QED BY <1>1, <1>2, <1>3, PTL DEF SdpSpec

-----------------------------------------------------------------------------
(* Firmware: the driver row.                                               *)

(* The place in the table of the row a chip on USB may match, by its LMP and *)
(* HCI subversions.                                                          *)
PlaceFor(lmp, hci) ==
    CASE lmp = LMP_8723A -> 1
      [] lmp = LMP_8723B -> (IF hci = 11 THEN 3 ELSE 7)
      [] lmp = LMP_8821A -> (IF hci = 10 THEN 9 ELSE 10)
      [] lmp = LMP_8761A -> (IF hci = 10 THEN 12 ELSE 14)
      [] lmp = LMP_8822B -> (IF hci = 12 THEN 17 ELSE 18)
      [] lmp = LMP_8852A -> (IF hci = 10 THEN 19 ELSE IF hci = 11 THEN 21
                                    ELSE IF hci = 12 THEN 22 ELSE 24)
      [] lmp = LMP_8851B -> 23

LEMMA BusOfType ==
  ASSUME NEW lmp, NEW type, NEW bus, NEW name
  PROVE  ByType(lmp, type, bus, name).bus = bus
BY DEF ByType

LEMMA PlaceFrom8723 ==
  ASSUME NEW c, NEW i \in 1 .. 8, RowMatches(Rows8723[i], c, "Usb")
  PROVE  i = PlaceFor(c.lmp, c.hci)
<1>1. i \in {1, 3, 7}
  <2>1. Rows8723[i].bus = "Usb"
    BY DEF RowMatches
  <2>2. i \in {1, 2, 3, 7, 8} \/ i \in {4, 5, 6}
    OBVIOUS
  <2>3. i \notin {2, 8}
    BY <2>1 DEF Rows8723, ByVersion
  <2>4. i \notin {4, 5, 6}
    <3>1. /\ Rows8723[4] = ByType(LMP_8703B, 3, "Uart", "8723cs_cg")
          /\ Rows8723[5] = ByType(LMP_8703B, 4, "Uart", "8723cs_vf")
          /\ Rows8723[6] = ByType(LMP_8703B, 5, "Uart", "8723cs_xx")
      BY DEF Rows8723
    <3>2. Rows8723[4].bus # "Usb" /\ Rows8723[5].bus # "Usb" /\ Rows8723[6].bus # "Usb"
      BY <3>1, BusOfType
    <3> QED BY <2>1, <3>2
  <2> QED BY <2>2, <2>3, <2>4
<1>2. /\ Rows8723[1] = ByVersion(LMP_8723A, 11, 40, "Usb", FALSE, FALSE, "8723a")
      /\ Rows8723[3] = ByVersion(LMP_8723B, 11, 40, "Usb", FALSE, TRUE, "8723b")
      /\ Rows8723[7] = ByVersion(LMP_8723B, 13, 42, "Usb", TRUE, TRUE, "8723d")
  BY DEF Rows8723
<1> QED BY <1>1, <1>2 DEF RowMatches, ByVersion, PlaceFor, LMP_8723A, LMP_8723B,
                          LMP_8821A, LMP_8761A, LMP_8822B, LMP_8852A, LMP_8851B

LEMMA PlaceFrom8821 ==
  ASSUME NEW c, NEW i \in 1 .. 6, RowMatches(Rows8821And8761[i], c, "Usb")
  PROVE  i + 8 = PlaceFor(c.lmp, c.hci)
BY DEF Rows8821And8761, RowMatches, ByVersion, PlaceFor, LMP_8723A, LMP_8723B, LMP_8703B,
       LMP_8821A, LMP_8761A, LMP_8822B, LMP_8852A, LMP_8851B

LEMMA PlaceFrom8822 ==
  ASSUME NEW c, NEW i \in 1 .. 10, RowMatches(Rows8822And885x[i], c, "Usb")
  PROVE  i + 14 = PlaceFor(c.lmp, c.hci)
<1>1. CASE i \in 1 .. 5
  BY <1>1 DEF Rows8822And885x, RowMatches, ByVersion, PlaceFor, LMP_8723A, LMP_8723B, LMP_8703B,
              LMP_8821A, LMP_8761A, LMP_8822B, LMP_8852A, LMP_8851B
<1>2. CASE i \in 6 .. 10
  BY <1>2 DEF Rows8822And885x, RowMatches, ByVersion, PlaceFor, LMP_8723A, LMP_8723B, LMP_8703B,
              LMP_8821A, LMP_8761A, LMP_8822B, LMP_8852A, LMP_8851B
<1> QED BY <1>1, <1>2

Joined(S, s, m, t, n, joined) ==
  /\ joined \in Seq(S) /\ Len(joined) = m + n
  /\ \A i \in 1 .. m + n : joined[i] = IF i <= m THEN s[i] ELSE t[i - m]

LEMMA JoinedAt ==
  ASSUME NEW S, NEW s \in Seq(S), NEW m \in Nat, Len(s) = m,
         NEW t \in Seq(S), NEW n \in Nat, Len(t) = n
  PROVE  Joined(S, s, m, t, n, s \o t)
BY ConcatProperties DEF Joined

LEMMA JoinedLeft ==
  ASSUME NEW S, NEW s, NEW m \in Nat, NEW t, NEW n \in Nat, NEW joined,
         Joined(S, s, m, t, n, joined)
  PROVE  \A i \in 1 .. m : joined[i] = s[i]
<1>1. \A i \in 1 .. m : i \in 1 .. m + n /\ i <= m
  OBVIOUS
<1> QED BY <1>1 DEF Joined

LEMMA JoinedRight ==
  ASSUME NEW S, NEW s, NEW m \in Nat, NEW t, NEW n \in Nat, NEW joined,
         Joined(S, s, m, t, n, joined)
  PROVE  \A i \in Nat : m < i /\ i <= m + n => joined[i] = t[i - m]
<1>1. \A i \in Nat : m < i /\ i <= m + n => i \in 1 .. m + n /\ ~(i <= m)
  OBVIOUS
<1> QED BY <1>1 DEF Joined

LEMMA Tables ==
  /\ \E S : Rows8723 \in Seq(S) /\ Len(Rows8723) = 8
  /\ \E S : Rows8821And8761 \in Seq(S) /\ Len(Rows8821And8761) = 6
  /\ \E S : Rows8822And885x \in Seq(S) /\ Len(Rows8822And885x) = 10
<1>1. PICK a, b, d, e, f, g, h, i : Rows8723 = <<a, b, d, e, f, g, h, i>>
  BY DEF Rows8723
<1>2. PICK k, l, m, n, o, p : Rows8821And8761 = <<k, l, m, n, o, p>>
  BY DEF Rows8821And8761
<1>3. PICK q, r, s, t, u, v, w, x, y, z : Rows8822And885x = <<q, r, s, t, u, v, w, x, y, z>>
  BY DEF Rows8822And885x
<1>4. Rows8723 \in Seq({a, b, d, e, f, g, h, i}) /\ Len(Rows8723) = 8
  BY <1>1
<1>5. Rows8821And8761 \in Seq({k, l, m, n, o, p}) /\ Len(Rows8821And8761) = 6
  BY <1>2
<1>6. Rows8822And885x \in Seq({q, r, s, t, u, v, w, x, y, z}) /\ Len(Rows8822And885x) = 10
  BY <1>3
<1> QED BY <1>4, <1>5, <1>6

(* A row that a chip on USB matches is in the one place its subversions have. *)
LEMMA OnePlace ==
  ASSUME NEW c, NEW i \in DOMAIN DriverInfos, RowMatches(DriverInfos[i], c, "Usb")
  PROVE  i = PlaceFor(c.lmp, c.hci) /\ i \in Nat
<1>1. PICK A, B, D : Rows8723 \in Seq(A) /\ Rows8821And8761 \in Seq(B) /\ Rows8822And885x \in Seq(D)
  BY Tables
<1>2. PICK S, a, b, d, e :
        /\ S = A \union B \union D
        /\ a = Rows8723 /\ b = Rows8821And8761 /\ d = Rows8822And885x /\ e = a \o b
  OBVIOUS
<1>3. /\ a \in Seq(S) /\ b \in Seq(S) /\ d \in Seq(S)
      /\ Len(a) = 8 /\ Len(b) = 6 /\ Len(d) = 10
  BY <1>1, <1>2, Tables
<1>4. Joined(S, a, 8, b, 6, e)
  <2>1. a \in Seq(S) /\ b \in Seq(S) /\ Len(a) = 8 /\ Len(b) = 6
    BY <1>3
  <2>2. Joined(S, a, 8, b, 6, a \o b)
    BY <2>1, JoinedAt
  <2> QED BY <1>2, <2>2
<1>9. e \in Seq(S) /\ Len(e) = 14
  BY <1>4 DEF Joined
<1>10. Joined(S, e, 14, d, 10, DriverInfos)
  <2>1. e \in Seq(S) /\ d \in Seq(S) /\ Len(e) = 14 /\ Len(d) = 10
    BY <1>3, <1>9
  <2>2. Joined(S, e, 14, d, 10, e \o d)
    BY <2>1, JoinedAt
  <2> QED BY <1>2, <2>2 DEF DriverInfos
<1>11. DriverInfos \in Seq(S) /\ Len(DriverInfos) = 24
  BY <1>10 DEF Joined
<1>5. i \in 1 .. 24
  BY <1>11
<1>12. /\ i \in 1 .. 8 => DriverInfos[i] = a[i]
       /\ i \in 9 .. 14 => DriverInfos[i] = b[i - 8]
       /\ i \in 15 .. 24 => DriverInfos[i] = d[i - 14]
  <2>1. PICK m, k, l, o : m = 8 /\ k = 6 /\ l = 14 /\ o = 10
    OBVIOUS
  <2>2. /\ m \in Nat /\ k \in Nat /\ l \in Nat /\ o \in Nat
        /\ Joined(S, a, m, b, k, e) /\ Joined(S, e, l, d, o, DriverInfos)
    BY <1>4, <1>10, <2>1
  <2>3. \A n \in 1 .. l : DriverInfos[n] = e[n]
    BY <2>2, JoinedLeft
  <2>4. \A n \in Nat : l < n /\ n <= l + o => DriverInfos[n] = d[n - l]
    BY <2>2, JoinedRight
  <2>5. \A n \in 1 .. m : e[n] = a[n]
    BY <2>2, JoinedLeft
  <2>6. \A n \in Nat : m < n /\ n <= m + k => e[n] = b[n - m]
    BY <2>2, JoinedRight
  <2>7. ASSUME i \in 1 .. 8 PROVE DriverInfos[i] = a[i]
    <3>1. i \in 1 .. l /\ i \in 1 .. m
      BY <2>1, <2>7
    <3> QED BY <2>3, <2>5, <3>1
  <2>8. ASSUME i \in 9 .. 14 PROVE DriverInfos[i] = b[i - 8]
    <3>1. i \in 1 .. l /\ i \in Nat /\ m < i /\ i <= m + k
      BY <2>1, <2>8
    <3> QED BY <2>1, <2>3, <2>6, <3>1
  <2>9. ASSUME i \in 15 .. 24 PROVE DriverInfos[i] = d[i - 14]
    <3>1. i \in Nat /\ l < i /\ i <= l + o
      BY <2>1, <2>9
    <3> QED BY <2>1, <2>4, <3>1
  <2> QED BY <2>7, <2>8, <2>9
<1>6. CASE i \in 1 .. 8
  <2>1. RowMatches(Rows8723[i], c, "Usb")
    BY <1>2, <1>12, <1>6
  <2> QED BY <1>6, <2>1, PlaceFrom8723
<1>7. CASE i \in 9 .. 14
  <2>1. PICK k \in 1 .. 6 : k = i - 8 /\ k + 8 = i
    BY <1>7
  <2>2. RowMatches(Rows8821And8761[k], c, "Usb")
    BY <1>2, <1>12, <1>7, <2>1
  <2>3. k + 8 = PlaceFor(c.lmp, c.hci)
    BY <2>2, PlaceFrom8821
  <2> QED BY <1>5, <2>1, <2>3
<1>8. CASE i \in 15 .. 24
  <2>1. PICK k \in 1 .. 10 : k = i - 14 /\ k + 14 = i
    BY <1>8
  <2>2. RowMatches(Rows8822And885x[k], c, "Usb")
    BY <1>2, <1>12, <1>8, <2>1
  <2>3. k + 14 = PlaceFor(c.lmp, c.hci)
    BY <2>2, PlaceFrom8822
  <2> QED BY <1>5, <2>1, <2>3
<1> QED BY <1>5, <1>6, <1>7, <1>8

LEMMA OneRow ==
  /\ \A i, j \in MatchingRows : i = j
  /\ MatchingRows # {} => First(MatchingRows) \in MatchingRows
<1>1. \A i \in MatchingRows : i = PlaceFor(ChipInfo.lmp, ChipInfo.hci) /\ i \in Nat
  BY OnePlace DEF MatchingRows
<1>2. ASSUME MatchingRows # {} PROVE First(MatchingRows) \in MatchingRows
  <2>1. PICK i \in MatchingRows : TRUE
    BY <1>2
  <2>2. \A j \in MatchingRows : i <= j
    BY <1>1
  <2> QED BY <2>2 DEF First
<1> QED BY <1>1, <1>2

(* The lowest of some places is one of them. *)
LEMMA FirstIsOne ==
  ASSUME NEW places, places \subseteq Nat, places # {}
  PROVE  First(places) \in places
<1>1. PICK i \in places : \A j \in places : ~(<<j, i>> \in OpToRel(<, Nat))
  BY WFMin, NatLessThanWellFounded
<1>2. \A j \in places : ~(j < i)
  BY <1>1 DEF OpToRel
<1>3. \A j \in places : i <= j
  BY <1>2
<1> QED BY <1>3 DEF First

-----------------------------------------------------------------------------
(* Firmware: the download.                                                 *)

(* Bytes of a file: whose, and which. *)
Loaded == (STRING \union {"raw", "config", "version"}) \X Nat

Patches == [name : STRING, chip : Nat, length : Nat]

(* Bytes of the payload that n fragments hold. *)
Held(n) == IF n * FragmentLength < Len(payload) THEN n * FragmentLength ELSE Len(payload)

LoaderTypes ==
    /\ chip \in Chips /\ firmware \in Firmwares
    /\ payload \in Seq(Loaded)
    /\ received \in Seq([number : Nat, last : BOOLEAN])
    /\ row # NoRow => row.bus = "Usb"

Fragments ==
    /\ pc \in {"find", "fetch", "parse"} => payload = <<>> /\ received = <<>>
    /\ pc \in {"download", "loaded"} => payload # <<>>
    /\ received # <<>> => (Len(received) - 1) * FragmentLength < Len(payload)
    /\ \A i \in DOMAIN received :
         /\ received[i].number = (i - 1) % Indices
         /\ received[i].last <=> i * FragmentLength >= Len(payload)
    /\ memory = SubSeq(payload, 1, Held(Len(received)))
    /\ pc = "loaded" => Len(received) * FragmentLength >= Len(payload)

LoaderInv == LoaderTypes /\ Fragments

(* The first h bytes of the payload. *)
LEMMA HeldIsPrefix ==
  ASSUME NEW p \in Seq(Loaded), NEW h \in Nat, h <= Len(p)
  PROVE  /\ SubSeq(p, 1, h) \in Seq(Loaded) /\ Len(SubSeq(p, 1, h)) = h
         /\ IsPrefix(SubSeq(p, 1, h), p)
         /\ SubSeq(p, 1, h) = p <=> h = Len(p)
<1>1. PICK s : s = SubSeq(p, 1, h)
  OBVIOUS
<1>2. s \in Seq(Loaded) /\ Len(s) = h
  BY <1>1, SubSeqProperties
<1>3. SubSeq(s, 1, Len(s)) = s
  BY <1>2, SubSeqFull
<1>4. SubSeq(p, 1, Len(p)) = p
  BY SubSeqFull
<1>5. IsPrefix(s, p)
  BY <1>1, <1>2, <1>3 DEF IsPrefix
<1>6. s = p <=> h = Len(p)
  BY <1>1, <1>2, <1>4
<1> QED BY <1>1, <1>2, <1>5, <1>6

LEMMA FragmentNumbers ==
  ASSUME NEW n \in Nat
  PROVE  /\ FragmentLength \in Nat /\ FragmentLength > 0
         /\ n * FragmentLength \in Nat
         /\ (n + 1) * FragmentLength = n * FragmentLength + FragmentLength
         /\ (n + 1) * FragmentLength \in Nat
         /\ n % Indices \in Nat
<1>1. FragmentLength \in Nat /\ FragmentLength > 0 /\ Indices \in Nat /\ Indices > 0
  BY FragmentsAssumption
<1> QED BY <1>1

(* Fewer fragments hold no more. *)
LEMMA FragmentsGrow ==
  ASSUME NEW m \in Nat, NEW n \in Nat, m <= n
  PROVE  m * FragmentLength <= n * FragmentLength
<1>1. FragmentLength \in Nat
  BY FragmentsAssumption
<1>2. PICK d \in Nat : n = m + d
  <2>1. n - m \in Nat /\ n = m + (n - m)
    OBVIOUS
  <2> QED BY <2>1
<1>3. n * FragmentLength = m * FragmentLength + d * FragmentLength
  BY <1>1, <1>2
<1>4. d * FragmentLength \in Nat /\ m * FragmentLength \in Nat
  BY <1>1
<1> QED BY <1>3, <1>4

LEMMA HeldInRange ==
  ASSUME NEW n \in Nat, payload \in Seq(Loaded)
  PROVE  Held(n) \in Nat /\ Held(n) <= Len(payload)
<1>1. n * FragmentLength \in Nat /\ Len(payload) \in Nat
  BY FragmentsAssumption
<1> QED BY <1>1 DEF Held

(* From the invariant the property follows: the mark is on the last fragment, *)
(* for with the one before it something was left.                             *)
LEMMA FragmentsInOrder ==
  ASSUME LoaderInv
  PROVE  DownloadInOrder
<1>1. payload \in Seq(Loaded) /\ received \in Seq([number : Nat, last : BOOLEAN])
        /\ Len(payload) \in Nat /\ Len(received) \in Nat
  BY DEF LoaderInv, LoaderTypes
<1>2. PICK k \in Nat : k = Len(received)
  BY <1>1
<1>3. Held(k) \in Nat /\ Held(k) <= Len(payload) /\ memory = SubSeq(payload, 1, Held(k))
  BY <1>1, <1>2, HeldInRange DEF LoaderInv, Fragments
<1>4. /\ IsPrefix(memory, payload) /\ Len(memory) = Held(k)
      /\ memory = payload <=> Held(k) = Len(payload)
  BY <1>1, <1>3, HeldIsPrefix
<1>5. k * FragmentLength \in Nat
  BY FragmentNumbers
<1>6. memory = payload <=> k * FragmentLength >= Len(payload)
  BY <1>1, <1>4, <1>5 DEF Held
<1>7. ASSUME NEW i \in DOMAIN received
      PROVE  /\ i <= Indices => received[i].number = i - 1
             /\ received[i].last <=> i = Len(received) /\ memory = payload
  <2>1. i \in Nat /\ 1 <= i /\ i <= k /\ i * FragmentLength \in Nat
    BY <1>1, <1>2, <1>7, FragmentsAssumption
  <2>2. /\ i <= Indices => received[i].number = i - 1
        /\ received[i].last <=> i * FragmentLength >= Len(payload)
    <3>1. /\ received[i].number = (i - 1) % Indices
          /\ received[i].last <=> i * FragmentLength >= Len(payload)
      BY <1>7 DEF LoaderInv, Fragments
    <3>2. ASSUME i <= Indices PROVE (i - 1) % Indices = i - 1
      <4>1. Indices \in Nat /\ Indices > 0
        BY FragmentsAssumption
      <4>2. PICK m \in Nat : m = i - 1
        BY <2>1
      <4>3. m < Indices
        BY <2>1, <3>2, <4>1, <4>2
      <4>4. m % Indices = m
        BY <4>1, <4>3
      <4> QED BY <4>2, <4>4
    <3> QED BY <3>1, <3>2
  <2>3. CASE i = k
    BY <1>2, <1>6, <2>2, <2>3
  <2>4. CASE i < k
    <3>1. k - 1 \in Nat /\ i <= k - 1
      BY <2>1, <2>4
    <3>2. i * FragmentLength <= (k - 1) * FragmentLength /\ (k - 1) * FragmentLength \in Nat
      BY <2>1, <3>1, FragmentsGrow, FragmentNumbers
    <3>3. received # <<>>
      BY <1>1, <1>7
    <3>4. (k - 1) * FragmentLength < Len(payload)
      BY <1>2, <3>3 DEF LoaderInv, Fragments
    <3>5. ~(i * FragmentLength >= Len(payload))
      BY <1>1, <2>1, <3>2, <3>4
    <3> QED BY <1>2, <2>2, <2>4, <3>5
  <2> QED BY <2>1, <2>3, <2>4
<1>8. ASSUME pc = "loaded" PROVE memory = payload /\ memory # <<>>
  BY <1>2, <1>6, <1>8 DEF LoaderInv, Fragments
<1> QED BY <1>4, <1>7, <1>8 DEF DownloadInOrder

-----------------------------------------------------------------------------
(* Firmware: the steps.                                                    *)

(* What is downloaded is bytes, and there are some.                        *)
LEMMA RawIsBytes ==
  ASSUME NEW f \in Firmwares, f.length >= 8
  PROVE  RawBytes(f) \in Seq(Loaded) /\ RawBytes(f) # <<>>
<1>1. f.length \in Nat
  BY FirmwaresAssumption
<1>2. \A i \in 1 .. f.length : <<"raw", i>> \in Loaded
  BY <1>1 DEF Loaded
<1>3. RawBytes(f) \in Seq(Loaded) /\ Len(RawBytes(f)) = f.length
  BY <1>1, <1>2 DEF RawBytes
<1> QED BY <1>1, <1>3

LEMMA PatchIsBytes ==
  ASSUME NEW f \in Firmwares, NEW i \in DOMAIN f.patches
  PROVE  PatchBytes(f.patches[i]) \o ConfigBytes \in Seq(Loaded) \ {<<>>}
<1>1. PICK p : p = f.patches[i]
  OBVIOUS
<1>2. p \in Patches /\ p.length >= 4
  <2>1. f.patches \in Seq(Patches) /\ f.patches[i].length >= 4
    BY FirmwaresAssumption DEF Patches
  <2> QED BY <1>1, <2>1
<1>8. p.length \in Nat /\ p.name \in STRING
  BY <1>2 DEF Patches
<1>3. \A k \in 1 .. p.length : <<"version", 0>> \in Loaded /\ <<p.name, k>> \in Loaded
  BY <1>8 DEF Loaded
<1>4. PatchBytes(p) \in Seq(Loaded) /\ Len(PatchBytes(p)) = p.length
  <2>1. PICK n, m, v : n = p.length /\ m = p.name /\ v = <<"version", 0>>
    OBVIOUS
  <2>2. PatchBytes(p) = [k \in 1 .. n |-> IF k > n - 4 THEN v ELSE <<m, k>>]
    BY <2>1 DEF PatchBytes
  <2>3. n \in Nat /\ \A k \in 1 .. n : v \in Loaded /\ <<m, k>> \in Loaded
    BY <1>3, <1>8, <2>1
  <2>4. \A k \in 1 .. n : (IF k > n - 4 THEN v ELSE <<m, k>>) \in Loaded
    BY <2>3
  <2>5. [k \in 1 .. n |-> IF k > n - 4 THEN v ELSE <<m, k>>] \in Seq(Loaded)
    BY <2>3, <2>4
  <2>6. Len([k \in 1 .. n |-> IF k > n - 4 THEN v ELSE <<m, k>>]) = n
    BY <2>3
  <2> QED BY <2>1, <2>2, <2>5, <2>6
<1>5. ConfigBytes \in Seq(Loaded)
  <2>1. \A k \in 1 .. ConfigLength : <<"config", k>> \in Loaded
    BY FragmentsAssumption DEF Loaded
  <2> QED BY <2>1, FragmentsAssumption DEF ConfigBytes
<1>6. PatchBytes(p) \o ConfigBytes \in Seq(Loaded)
        /\ Len(PatchBytes(p) \o ConfigBytes) = p.length + Len(ConfigBytes)
  BY <1>4, <1>5
<1>7. Len(ConfigBytes) \in Nat
  BY <1>5
<1> QED BY <1>1, <1>2, <1>6, <1>7, <1>8

LEMMA NothingHeld ==
  ASSUME payload = <<>>, received = <<>>
  PROVE  SubSeq(payload, 1, Held(Len(received))) = <<>>
<1>1. Held(0) = 0
  BY FragmentsAssumption DEF Held
<1> QED BY <1>1

LEMMA LoaderStarts == LoaderInit => LoaderInv
<1> SUFFICES ASSUME LoaderInit PROVE LoaderInv
  OBVIOUS
<1>1. LoaderTypes
  BY DEF LoaderInit, LoaderTypes
<1>2. Fragments
  <2>1. payload = <<>> /\ received = <<>> /\ memory = <<>> /\ pc = "find"
    BY DEF LoaderInit
  <2>2. memory = SubSeq(payload, 1, Held(Len(received)))
    BY <2>1, NothingHeld
  <2> QED BY <2>1, <2>2 DEF Fragments
<1> QED BY <1>1, <1>2 DEF LoaderInv

(* A step that changes neither the payload nor what was received.           *)
LEMMA OthersKeepLoader ==
  ASSUME LoaderInv, UNCHANGED <<chip, firmware, payload, received, memory>>,
         row' = row \/ row'.bus = "Usb" \/ row' = NoRow,
         pc' \in {"find", "fetch", "parse"} => pc \in {"find", "fetch", "parse"},
         pc' \in {"download", "loaded"} => pc \in {"download", "loaded"},
         pc' = "loaded" => Len(received) * FragmentLength >= Len(payload)
  PROVE  LoaderInv'
<1>1. LoaderTypes'
  BY DEF LoaderInv, LoaderTypes, NoRow
<1>2. Held(Len(received))' = Held(Len(received))
  BY DEF Held
<1>3. Fragments'
  BY <1>2 DEF LoaderInv, Fragments
<1> QED BY <1>1, <1>3 DEF LoaderInv

(* The payload is set while nothing was received. *)
LEMMA PayloadKeeps ==
  ASSUME LoaderInv, pc = "parse", pc' = "download", payload' \in Seq(Loaded), payload' # <<>>,
         UNCHANGED <<chip, firmware, row, received, memory>>
  PROVE  LoaderInv'
<1>1. received = <<>> /\ payload = <<>>
  BY DEF LoaderInv, Fragments
<1>2. memory = <<>>
  BY <1>1, NothingHeld DEF LoaderInv, Fragments
<1>3. LoaderTypes'
  BY DEF LoaderInv, LoaderTypes, NoRow
<1>4. Held(0)' = 0
  <2>1. 0 * FragmentLength = 0 /\ Len(payload') \in Nat /\ Len(payload') # 0
    BY FragmentsAssumption
  <2> QED BY <2>1 DEF Held
<1>5. SubSeq(payload', 1, 0) = <<>>
  BY SubSeqEmpty
<1>6. Fragments'
  BY <1>1, <1>2, <1>4, <1>5 DEF Fragments
<1> QED BY <1>3, <1>6 DEF LoaderInv

LEMMA FragmentKeeps ==
  ASSUME LoaderInv, Download, Len(received) * FragmentLength < Len(payload)
  PROVE  LoaderInv'
<1>1. payload \in Seq(Loaded) /\ received \in Seq([number : Nat, last : BOOLEAN])
  BY DEF LoaderInv, LoaderTypes
<1>2. PICK k, p : k = Len(received) /\ p = payload
  OBVIOUS
<1>3. k \in Nat /\ p \in Seq(Loaded) /\ Len(p) \in Nat
  BY <1>1, <1>2
<1>4. PICK here, there : here = k * FragmentLength /\ there = (k + 1) * FragmentLength
  OBVIOUS
<1>5. here \in Nat /\ there \in Nat /\ here < there /\ k % Indices \in Nat
  <2>1. FragmentLength \in Nat /\ FragmentLength > 0 /\ Indices \in Nat /\ Indices > 0
    BY FragmentsAssumption
  <2>2. (k + 1) * FragmentLength = k * FragmentLength + FragmentLength
    BY <1>3, <2>1
  <2> QED BY <1>3, <1>4, <2>1, <2>2
<1>6. /\ pc = "download" /\ pc' = pc /\ here < Len(p)
      /\ received' = Append(received, [number |-> k % Indices, last |-> IsLast(k)])
      /\ memory' = memory \o Fragment(k)
      /\ UNCHANGED <<chip, firmware, row, payload>>
  BY <1>2, <1>4 DEF Download, Unmoved
<1>7. PICK e : e = (IF there < Len(p) THEN there ELSE Len(p))
  OBVIOUS
<1>8. e \in here .. Len(p) /\ e \in Nat
  BY <1>3, <1>5, <1>6, <1>7
<1>9. memory = SubSeq(p, 1, here)
  BY <1>2, <1>4, <1>6 DEF LoaderInv, Fragments, Held
<1>10. Fragment(k) = SubSeq(p, here + 1, e)
  BY <1>2, <1>4, <1>7 DEF Fragment
<1>11. SubSeq(p, 1, here) \o SubSeq(p, here + 1, e) = SubSeq(p, 1, e)
  <2>1. 1 \in 1 .. Len(p) + 1 /\ here \in 1 - 1 .. Len(p) /\ e \in here .. Len(p)
    BY <1>3, <1>5, <1>6, <1>8
  <2> QED BY <1>3, <2>1, ConcatAdjacentSubSeq
<1>12. memory' = SubSeq(payload', 1, e)
  BY <1>2, <1>6, <1>9, <1>10, <1>11
<1>13. PICK r : r = [number |-> k % Indices, last |-> IsLast(k)]
  OBVIOUS
<1>14. /\ r \in [number : Nat, last : BOOLEAN] /\ r.number = k % Indices
       /\ r.last <=> there >= Len(p)
  <2>1. PICK b \in BOOLEAN : b = IsLast(k) /\ (b <=> there >= Len(p))
    <3>1. IsLast(k) = (there >= Len(p))
      BY <1>2, <1>4 DEF IsLast
    <3>2. (there >= Len(p)) \in BOOLEAN
      OBVIOUS
    <3> QED BY <3>1, <3>2
  <2>2. r = [number |-> k % Indices, last |-> b]
    BY <1>13, <2>1
  <2> QED BY <1>5, <2>1, <2>2
<1>15. /\ received' \in Seq([number : Nat, last : BOOLEAN]) /\ Len(received') = k + 1
       /\ \A i \in 1 .. k : received'[i] = received[i]
       /\ received'[k + 1] = r
  BY <1>1, <1>2, <1>6, <1>13, <1>14
<1>16. LoaderTypes'
  BY <1>6, <1>15 DEF LoaderInv, LoaderTypes, NoRow
<1>17. Held(Len(received))' = e
  BY <1>2, <1>4, <1>6, <1>7, <1>15 DEF Held
<1>18. ASSUME NEW i \in DOMAIN received'
       PROVE  /\ received'[i].number = (i - 1) % Indices
              /\ received'[i].last <=> i * FragmentLength >= Len(payload')
  <2>1. i \in 1 .. k + 1
    BY <1>15, <1>18
  <2>2. CASE i \in 1 .. k
    BY <1>1, <1>2, <1>6, <1>15, <2>2 DEF LoaderInv, Fragments
  <2>3. CASE i = k + 1
    <3>1. i - 1 = k /\ i * FragmentLength = there
      BY <1>3, <1>4, <2>3
    <3> QED BY <1>2, <1>6, <1>14, <1>15, <2>3, <3>1
  <2> QED BY <1>3, <2>1, <2>2, <2>3
<1>19. (Len(received') - 1) * FragmentLength < Len(payload')
  <2>1. Len(received') - 1 = k
    BY <1>3, <1>15
  <2> QED BY <1>2, <1>4, <1>6, <2>1
<1>20. payload' # <<>>
  BY <1>6 DEF LoaderInv, Fragments
<1>21. Fragments'
  BY <1>6, <1>12, <1>17, <1>18, <1>19, <1>20 DEF Fragments
<1> QED BY <1>16, <1>21 DEF LoaderInv

(* No chip matches two rows, the row found is one for USB, and the chip has  *)
(* the fragments of its own patch in order, marked at their end and nowhere  *)
(* else, however the download ends (find_chip_info, download_firmware).      *)
THEOREM FirmwareComesWhole == LoaderSpec => []FirmwareLoads
<1>1. LoaderInit => LoaderInv
  BY LoaderStarts
<1>2. LoaderInv /\ [LoaderNext]_loaderVars => LoaderInv'
  <2> SUFFICES ASSUME LoaderInv, [LoaderNext]_loaderVars
               PROVE  LoaderInv'
    OBVIOUS
  <2>1. CASE FindDriver
    <3>1. ASSUME MatchingRows # {} PROVE row'.bus = "Usb"
      <4>1. RowMatches(DriverInfos[First(MatchingRows)], ChipInfo, "Usb")
        BY <3>1, OneRow DEF MatchingRows
      <4> QED BY <2>1, <3>1, <4>1 DEF FindDriver, RowMatches
    <3> QED BY <2>1, <3>1, OthersKeepLoader DEF FindDriver, Unmoved
  <2>2. CASE FetchFiles
    BY <2>2, OthersKeepLoader DEF FetchFiles, Unmoved
  <2>3. CASE ParseRaw
    <3>1. CASE firmware.length >= 8 /\ firmware.signature # "Realtech"
      <4>1. firmware \in Firmwares
        BY DEF LoaderInv, LoaderTypes
      <4>2. payload' = RawBytes(firmware) /\ pc' = "download" /\ pc = "parse"
            /\ UNCHANGED <<chip, firmware, row, received, memory>>
        BY <2>3, <3>1 DEF ParseRaw, Unmoved
      <4> QED BY <3>1, <4>1, <4>2, RawIsBytes, PayloadKeeps
    <3>2. CASE ~(firmware.length >= 8 /\ firmware.signature # "Realtech")
      BY <2>3, <3>2, OthersKeepLoader DEF ParseRaw, Unmoved
    <3> QED BY <3>1, <3>2
  <2>4. CASE ParsePatches
    <3>1. CASE IsFirmware(firmware) /\ PatchesFor(RomVersion) # {}
      <4>1. firmware \in Firmwares
        BY DEF LoaderInv, LoaderTypes
      <4>2. PICK i : i = First(PatchesFor(RomVersion))
        OBVIOUS
      <4>3. i \in DOMAIN firmware.patches
        <5>1. PatchesFor(RomVersion) \subseteq Nat /\ PatchesFor(RomVersion) \subseteq DOMAIN firmware.patches
          BY <4>1, FirmwaresAssumption DEF PatchesFor
        <5> QED BY <3>1, <4>2, <5>1, FirstIsOne
      <4>4. payload' = PatchBytes(firmware.patches[i]) \o ConfigBytes /\ pc' = "download" /\ pc = "parse"
            /\ UNCHANGED <<chip, firmware, row, received, memory>>
        BY <2>4, <3>1, <4>2 DEF ParsePatches, Unmoved
      <4> QED BY <4>1, <4>3, <4>4, PatchIsBytes, PayloadKeeps
    <3>2. CASE ~(IsFirmware(firmware) /\ PatchesFor(RomVersion) # {})
      BY <2>4, <3>2, OthersKeepLoader DEF ParsePatches, Unmoved
    <3> QED BY <3>1, <3>2
  <2>5. CASE Download
    <3>1. CASE Len(received) * FragmentLength < Len(payload)
      BY <2>5, <3>1, FragmentKeeps
    <3>2. CASE ~(Len(received) * FragmentLength < Len(payload))
      <4>1. Len(received) * FragmentLength >= Len(payload)
        <5>1. Len(received) \in Nat /\ Len(payload) \in Nat
          BY DEF LoaderInv, LoaderTypes
        <5>2. Len(received) * FragmentLength \in Nat
          BY <5>1, FragmentsAssumption
        <5> QED BY <3>2, <5>1, <5>2
      <4> QED BY <2>5, <3>2, <4>1, OthersKeepLoader DEF Download, Unmoved
    <3> QED BY <3>1, <3>2
  <2>6. CASE CallFails
    BY <2>6, OthersKeepLoader DEF CallFails, Unmoved
  <2>7. CASE UNCHANGED loaderVars
    <3>1. pc = "loaded" => Len(received) * FragmentLength >= Len(payload)
      BY DEF LoaderInv, Fragments
    <3> QED BY <2>7, <3>1, OthersKeepLoader DEF loaderVars
  <2> QED BY <2>1, <2>2, <2>3, <2>4, <2>5, <2>6, <2>7 DEF LoaderNext
<1>3. LoaderInv => FirmwareLoads
  <2>1. LoaderInv => RowUnambiguous
    BY OneRow DEF LoaderInv, LoaderTypes, RowUnambiguous
  <2> QED BY <2>1, FragmentsInOrder DEF FirmwareLoads
<1> QED BY <1>1, <1>2, <1>3, PTL DEF LoaderSpec

-----------------------------------------------------------------------------
(***************************************************************************)
(* Encodings that have no nesting: the addresses of subunits, the          *)
(* capabilities, and the configuration options one by one.                 *)
(***************************************************************************)
Avc == INSTANCE AvcFrames
Caps == INSTANCE Capabilities
Options == INSTANCE ConfigOptions

(* The smaller of two numbers. *)
LEMMA SmallerOf ==
    ASSUME NEW a \in Int, NEW b \in Int
    PROVE  Avc!Min({a, b}) = IF a <= b THEN a ELSE b
<1> DEFINE m == IF a <= b THEN a ELSE b
<1>1. m \in {a, b} /\ \A y \in {a, b} : m <= y
  OBVIOUS
<1>2. \A x \in {a, b} : (\A y \in {a, b} : x <= y) => x = m
  OBVIOUS
<1> QED BY <1>1, <1>2 DEF Avc!Min

(* The bytes that follow the header are the rest of the id, in three ranges. *)
LEMMA ExtensionIs ==
    ASSUME NEW rest \in 0 .. 509
    PROVE  /\ rest = 0 => Avc!ExtensionBytes(rest) = <<>>
           /\ rest \in 1 .. 254 => Avc!ExtensionBytes(rest) = <<rest>>
           /\ rest \in 255 .. 509 => Avc!ExtensionBytes(rest) = <<255, rest - 254>>
<1>1. Avc!Min({rest, 255}) = IF rest <= 255 THEN rest ELSE 255
  BY SmallerOf
<1>2. CASE rest < 255
  <2>1. Avc!Min({rest, 255}) = rest
    BY <1>1, <1>2
  <2>2. CASE rest = 0
    BY <2>2 DEF Avc!ExtensionBytes
  <2>3. CASE rest # 0
    <3>1. rest # 255 /\ rest # 0
      BY <2>3, <1>2
    <3>2. Avc!ExtensionBytes(rest) = <<rest>>
      BY <2>1, <3>1, Zenon DEF Avc!ExtensionBytes
    <3> QED BY <2>3, <3>2, <1>2
  <2> QED BY <2>2, <2>3
<1>3. CASE rest >= 255
  <2>1. Avc!Min({rest, 255}) = 255
    BY <1>1, <1>3
  <2>2. (rest - 255) % 256 = rest - 255
    BY <1>3
  <2>3. Avc!ExtensionBytes(rest) = <<255, ((rest - 255) % 256) + 1>>
    BY <2>1, <1>3 DEF Avc!ExtensionBytes
  <2> QED BY <2>2, <2>3, <1>3
<1> QED BY <1>2, <1>3

(* A header with bytes behind it, and the same without the last of them. *)
LEMMA HeaderFirst ==
    ASSUME NEW S, NEW header \in S, NEW e \in Seq(S), NEW n \in Nat, Len(e) = n
    PROVE  LET bytes == <<header>> \o e
           IN  /\ Len(bytes) = n + 1 /\ bytes[1] = header
               /\ \A i \in 1 .. n : bytes[i + 1] = e[i]
               /\ n > 0 => /\ Len(SubSeq(bytes, 1, n)) = n
                           /\ \A i \in 1 .. n : SubSeq(bytes, 1, n)[i] = bytes[i]
OBVIOUS

(* What read_from_buffer makes of a header: without an extension, with one   *)
(* byte of it, with two, and with a byte less than it needs.                 *)
LEMMA ReadsHeader ==
    ASSUME NEW bytes, bytes[1].type # Avc!Extended, bytes[1].id \notin {5, 6}
    PROVE  Avc!ReadSubunit(bytes) = bytes[1]
BY DEF Avc!ReadSubunit

LEMMA ReadsOne ==
    ASSUME NEW bytes, bytes[1].type # Avc!Extended, bytes[1].id = 5, Len(bytes) = 2,
           bytes[2] \in 1 .. 254
    PROVE  Avc!ReadSubunit(bytes) = Avc!Subunit(bytes[1].type, 5 + bytes[2])
BY DEF Avc!ReadSubunit

LEMMA ReadsTwo ==
    ASSUME NEW bytes, bytes[1].type # Avc!Extended, bytes[1].id = 5, Len(bytes) = 3,
           bytes[2] = 255
    PROVE  Avc!ReadSubunit(bytes) = Avc!Subunit(bytes[1].type, 5 + (bytes[3] - 1 + bytes[2]))
BY DEF Avc!ReadSubunit

LEMMA ReadsNone ==
    ASSUME NEW bytes, bytes[1].type # Avc!Extended, bytes[1].id = 5, Len(bytes) = 1
    PROVE  Avc!ReadSubunit(bytes) = Avc!Invalid
BY DEF Avc!ReadSubunit

LEMMA ReadsFirstOnly ==
    ASSUME NEW bytes, bytes[1].type # Avc!Extended, bytes[1].id = 5, Len(bytes) = 2,
           bytes[2] = 255
    PROVE  Avc!ReadSubunit(bytes) = Avc!Invalid
BY DEF Avc!ReadSubunit

(* Any address that write_to_buffer accepts, of any type and up to the       *)
(* largest id, is read back; its bytes are bytes; and it is refused without  *)
(* its last (Subunit in avc/mod.rs).                                         *)
THEOREM AddressesComeBack ==
    ASSUME NEW type, NEW id, Avc!IsSubunit(Avc!Subunit(type, id))
    PROVE  /\ Avc!SubunitRoundTrips(Avc!Subunit(type, id))
           /\ Avc!UnitRoundTrips(Avc!Subunit(type, id))
<1> DEFINE s == Avc!Subunit(type, id)
           bytes == Avc!WriteSubunit(s)
<1>1. s.type = type /\ s.id = id /\ s = Avc!Subunit(s.type, s.id)
  BY DEF Avc!Subunit
<1>2. type # Avc!Extended /\ id \in 0 .. 514 /\ id # 5 /\ id # 6
  BY <1>1 DEF Avc!IsSubunit
<1>3. ASSUME type # Avc!Unit
      PROVE  Avc!SubunitRoundTrips(s)
  <2>1. CASE id < 5
    <3>1. Avc!HeaderId(s) = id
      BY <1>1, <1>2, <1>3, <2>1, SmallerOf DEF Avc!HeaderId
    <3>2. bytes = <<s>> /\ Len(bytes) = 1 /\ bytes[1] = s
      <4>1. s.id - Avc!HeaderId(s) = 0
        BY <3>1, <1>1, <1>2
      <4>2. Avc!ExtensionBytes(0) = <<>>
        BY ExtensionIs
      <4>3. bytes = <<s>> \o <<>>
        BY <3>1, <4>1, <4>2, <1>1 DEF Avc!WriteSubunit
      <4> QED BY <4>3
    <3>3. Avc!ReadSubunit(bytes) = s
      BY <3>2, <1>1, <1>2, <2>1, ReadsHeader
    <3> QED BY <3>2, <3>3 DEF Avc!SubunitRoundTrips
  <2>2. CASE id > 6
    <3> DEFINE header == Avc!Subunit(type, 5)
    <3>1. PICK rest \in 2 .. 509 : rest = id - 5
      BY <2>2, <1>2
    <3>2. Avc!HeaderId(s) = 5
      BY <1>1, <1>2, <1>3, <2>2, SmallerOf DEF Avc!HeaderId
    <3>3. bytes = <<header>> \o Avc!ExtensionBytes(rest)
      BY <3>1, <3>2, <1>1 DEF Avc!WriteSubunit
    <3>4. header.type = type /\ header.id = 5 /\ header # Avc!Invalid
      BY DEF Avc!Subunit, Avc!Invalid
    <3>5. Avc!Subunit(type, 5 + rest) = s
      BY <3>1, <1>2
    <3>6. CASE rest < 255
      <4> DEFINE e == <<rest>>
                 shorter == SubSeq(bytes, 1, 1)
      <4>1. Avc!ExtensionBytes(rest) = e
        <5>1. rest \in 0 .. 509 /\ rest \in 1 .. 254
          BY <3>1, <3>6
        <5> QED BY <5>1, ExtensionIs
      <4>2. /\ Len(bytes) = 2 /\ bytes[1] = header /\ bytes[2] = rest
            /\ Len(shorter) = 1 /\ shorter[1] = header
        <5>1. header \in {header} \union Nat /\ e \in Seq({header} \union Nat)
          BY <3>1
        <5>2. Len(e) = 1 /\ e[1] = rest
          OBVIOUS
        <5> HIDE DEF e
        <5>3. /\ Len(bytes) = 1 + 1 /\ bytes[1] = header /\ bytes[1 + 1] = e[1]
              /\ Len(shorter) = 1 /\ shorter[1] = bytes[1]
          BY <5>1, <5>2, <4>1, <3>3, HeaderFirst
        <5> QED BY <5>2, <5>3
      <4>3. Avc!ReadSubunit(bytes) = Avc!Subunit(type, 5 + rest)
        BY <4>2, <3>1, <3>4, <3>6, <1>2, ReadsOne
      <4>4. Avc!ReadSubunit(shorter) = Avc!Invalid
        BY <4>2, <3>4, <1>2, ReadsNone
      <4>5. \A i \in 2 .. Len(bytes) : bytes[i] \in 0 .. 255
        BY <4>2, <3>1, <3>6
      <4> QED BY <4>2, <4>3, <4>4, <4>5, <3>5 DEF Avc!SubunitRoundTrips
    <3>7. CASE rest >= 255
      <4> DEFINE e == <<255, rest - 254>>
                 shorter == SubSeq(bytes, 1, 2)
      <4>1. Avc!ExtensionBytes(rest) = e
        <5>1. rest \in 0 .. 509 /\ rest \in 255 .. 509
          BY <3>1, <3>7
        <5> QED BY <5>1, ExtensionIs
      <4>2. /\ Len(bytes) = 3 /\ bytes[1] = header /\ bytes[2] = 255 /\ bytes[3] = rest - 254
            /\ Len(shorter) = 2 /\ shorter[1] = header /\ shorter[2] = 255
        <5>1. header \in {header} \union Nat /\ e \in Seq({header} \union Nat)
          BY <3>1, <3>7
        <5>2. Len(e) = 2 /\ e[1] = 255 /\ e[2] = rest - 254
          OBVIOUS
        <5> HIDE DEF e
        <5>3. PICK n \in Nat : n = 2
          OBVIOUS
        <5>4. Len(e) = n /\ n > 0
          BY <5>2, <5>3
        <5>5. /\ Len(bytes) = n + 1 /\ bytes[1] = header
              /\ \A i \in 1 .. n : bytes[i + 1] = e[i]
              /\ Len(SubSeq(bytes, 1, n)) = n
              /\ \A i \in 1 .. n : SubSeq(bytes, 1, n)[i] = bytes[i]
          BY <5>1, <5>4, <4>1, <3>3, HeaderFirst
        <5>6. Len(bytes) = 3 /\ bytes[2] = e[1] /\ bytes[3] = e[2]
          BY <5>3, <5>5
        <5>7. Len(shorter) = 2 /\ shorter[1] = bytes[1] /\ shorter[2] = bytes[2]
          BY <5>3, <5>5
        <5> HIDE DEF shorter
        <5> QED BY <5>2, <5>5, <5>6, <5>7
      <4>3. Avc!ReadSubunit(bytes) = Avc!Subunit(type, 5 + (bytes[3] - 1 + bytes[2]))
        BY <4>2, <3>4, <1>2, ReadsTwo
      <4>4. bytes[3] - 1 + bytes[2] = rest
        BY <4>2, <3>1
      <4>5. Avc!ReadSubunit(shorter) = Avc!Invalid
        <5> HIDE DEF shorter, header
        <5> QED BY <4>2, <3>4, <1>2, ReadsFirstOnly
      <4>6. \A i \in 2 .. Len(bytes) : bytes[i] \in 0 .. 255
        BY <4>2, <3>1, <3>7
      <4> QED BY <4>2, <4>3, <4>4, <4>5, <4>6, <3>5 DEF Avc!SubunitRoundTrips
    <3> QED BY <3>1, <3>6, <3>7
  <2> QED BY <1>2, <2>1, <2>2
<1>4. ASSUME type = Avc!Unit, id = 7
      PROVE  Avc!ReadSubunit(bytes) = s
  <2>1. Avc!HeaderId(s) = 7
    BY <1>1, <1>4 DEF Avc!HeaderId
  <2>2. Avc!ExtensionBytes(s.id - 7) = <<>>
    <3>1. s.id - 7 = 0
      BY <1>1, <1>4
    <3>2. Avc!ExtensionBytes(0) = <<>>
      BY ExtensionIs
    <3> QED BY <3>1, <3>2
  <2>3. bytes = <<s>> \o <<>>
    BY <2>1, <2>2, <1>1, <1>4 DEF Avc!WriteSubunit
  <2>4. bytes[1] = s
    BY <2>3
  <2> QED BY <2>4, <1>1, <1>2, <1>4, ReadsHeader
<1>5. Avc!SubunitRoundTrips(s)
  BY <1>1, <1>3 DEF Avc!SubunitRoundTrips
<1>6. Avc!UnitRoundTrips(s)
  BY <1>1, <1>4 DEF Avc!UnitRoundTrips
<1> QED BY <1>5, <1>6

(* The capabilities that read_from_buffer can return or an endpoint          *)
(* announces: media transport, a codec with its information (of SBC, four    *)
(* bytes), another category with any body.                                   *)
IsCapability(c) ==
    \/ c = Caps!MediaTransport
    \/ \E codec \in Caps!AudioCodecs, info \in Nat :
           (codec = 0 => info = Caps!SbcSize) /\ c = Caps!MediaCodec(Caps!Audio(codec), info)
    \/ \E category \in STRING, info \in Nat :
           category \notin {"MediaTransport", "MediaCodec"} /\ c = Caps!Generic(category, info)

(* Each of them is read back as it was written, with any number of bytes of  *)
(* information: the length in front is what follows it (Capability,          *)
(* MediaCodecCapability in avdtp/capabilities.rs).                           *)
THEOREM CapabilitiesComeBack ==
    ASSUME NEW c, IsCapability(c)
    PROVE  Caps!CapabilityRoundTrips(c)
<1> DEFINE w == Caps!WriteCapability(c)
<1>1. CASE c = Caps!MediaTransport
  <2>1. c = [category |-> "MediaTransport", codec |-> Caps!NoCodec, info |-> 0]
    BY <1>1 DEF Caps!MediaTransport
  <2>2. Caps!WriteCodec(Caps!NoCodec) = Caps!NoCodec
    BY DEF Caps!WriteCodec, Caps!NoCodec
  <2>3. w = [category |-> "MediaTransport", codec |-> Caps!NoCodec, length |-> 0]
    BY <2>1, <2>2 DEF Caps!WriteCapability, Caps!BodySize
  <2> QED BY <2>1, <2>3
          DEF Caps!CapabilityRoundTrips, Caps!ReadsCapability, Caps!ReadCapability, Caps!Generic
<1>2. ASSUME NEW codec \in Caps!AudioCodecs, NEW info \in Nat, codec = 0 => info = Caps!SbcSize,
             c = Caps!MediaCodec(Caps!Audio(codec), info)
      PROVE  Caps!CapabilityRoundTrips(c)
  <2> DEFINE a == Caps!Audio(codec)
  <2>1. a.media = "Audio" /\ a.codec = codec /\ a = Caps!Audio(a.codec)
    BY DEF Caps!Audio
  <2>2. c = [category |-> "MediaCodec", codec |-> a, info |-> info]
    BY <1>2 DEF Caps!MediaCodec
  <2>3. Caps!WriteCodec(a) = a /\ Caps!ReadsCodec(a) /\ Caps!ReadCodec(a) = a
    BY <2>1 DEF Caps!WriteCodec, Caps!ReadsCodec, Caps!ReadCodec
  <2>4. w = [category |-> "MediaCodec", codec |-> a, length |-> 2 + info]
    BY <2>2, <2>3 DEF Caps!WriteCapability, Caps!BodySize
  <2>5. a = Caps!SBC => codec = 0
    BY <2>1 DEF Caps!SBC, Caps!Audio
  <2>6. Caps!ReadsCapability(w)
    BY <2>3, <2>4, <2>5, <1>2 DEF Caps!ReadsCapability
  <2>7. Caps!ReadCapability(w) = Caps!MediaCodec(a, (2 + info) - 2)
    BY <2>3, <2>4 DEF Caps!ReadCapability
  <2> QED BY <2>6, <2>7, <1>2 DEF Caps!CapabilityRoundTrips
<1>3. ASSUME NEW category \in STRING, NEW info \in Nat,
             category \notin {"MediaTransport", "MediaCodec"}, c = Caps!Generic(category, info)
      PROVE  Caps!CapabilityRoundTrips(c)
  <2>1. c = [category |-> category, codec |-> Caps!NoCodec, info |-> info]
    BY <1>3 DEF Caps!Generic
  <2>2. Caps!WriteCodec(Caps!NoCodec) = Caps!NoCodec
    BY DEF Caps!WriteCodec, Caps!NoCodec
  <2>3. w = [category |-> category, codec |-> Caps!NoCodec, length |-> info]
    BY <2>1, <2>2, <1>3 DEF Caps!WriteCapability, Caps!BodySize
  <2>4. Caps!ReadsCapability(w)
    BY <2>3, <1>3 DEF Caps!ReadsCapability
  <2>5. Caps!ReadCapability(w) = c
    BY <2>3, <1>3 DEF Caps!ReadCapability
  <2> QED BY <2>4, <2>5 DEF Caps!CapabilityRoundTrips
<1> QED BY <1>1, <1>2, <1>3 DEF IsCapability

(* A known configuration option is written with the type and length of its   *)
(* own, and read back; and with any other length it is refused, for its type *)
(* is no hint and no other option's (ConfigurationOption in                  *)
(* l2cap/configuration.rs).                                                  *)
THEOREM OptionsComeBack ==
    ASSUME NEW name \in Options!Names, NEW value \in Options!ValuesOf(name)
    PROVE  LET o == Options!Option(name, value)
               t == [type |-> Options!Types[name], length |-> Options!Lengths[name], value |-> value]
           IN  /\ Options!WriteOption(o) = <<t>>
               /\ Options!IsReadable(t) /\ Options!ReadOption(t) = o
               /\ \A length \in Nat \ {Options!Lengths[name]} :
                      ~Options!IsReadable([t EXCEPT !.length = length])
<1> DEFINE o == Options!Option(name, value)
           t == [type |-> Options!Types[name], length |-> Options!Lengths[name], value |-> value]
<1>1. /\ Options!Names = {"Mtu", "FlushTimeout", "QualityOfService",
             "RetransmissionAndFlowControl", "Fcs", "ExtendedFlowSpecification", "ExtendedWindowSize"}
      /\ \A n \in Options!Names : Options!Types[n] \in 1 .. 7
      /\ \A n \in Options!Names : Options!Types[n] = Options!Types[name] => n = name
  BY DEF Options!Names, Options!Types
<1>2. o.name = name /\ o.value = value
  BY DEF Options!Option
<1>3. name # "Unknown"
  BY <1>1
<1>4. Options!WriteOption(o) = <<t>>
  BY <1>2, <1>3 DEF Options!WriteOption
<1>5. t.type \notin Options!Hints
  BY <1>1 DEF Options!Hints
<1>6. Options!IsReadable(t)
  BY DEF Options!IsReadable
<1>7. Options!ReadOption(t) = o
  <2>1. (CHOOSE n \in Options!Names : Options!Types[n] = t.type) = name
    BY <1>1
  <2> QED BY <1>5, <2>1 DEF Options!ReadOption
<1>8. ASSUME NEW length \in Nat \ {Options!Lengths[name]}
      PROVE  ~Options!IsReadable([t EXCEPT !.length = length])
  <2> DEFINE u == [t EXCEPT !.length = length]
  <2>1. u.type = t.type /\ u.length = length /\ u.value = value
    OBVIOUS
  <2> QED BY <2>1, <1>1, <1>5 DEF Options!IsReadable
<1> QED BY <1>4, <1>6, <1>7, <1>8
=============================================================================
