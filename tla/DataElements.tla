---------------------------- MODULE DataElements ----------------------------
(***************************************************************************)
(* The data elements of SDP: what a record and an attribute list is made   *)
(* of, and their encoding (sdp/data_element/).                             *)
(*                                                                         *)
(* An encoded element is a sequence of tokens, each with the number of     *)
(* bytes it takes; a text is its length.  A number carries its width, and  *)
(* a UUID is a 32 bit number over the Bluetooth base, or a foreign one.    *)
(***************************************************************************)
EXTENDS Integers, Sequences
LOCAL INSTANCE SequencesExt

Nil == [type |-> "Nil"]
UInt(width, value) == [type |-> "UInt", width |-> width, value |-> value]
SInt(width, value) == [type |-> "SInt", width |-> width, value |-> value]
Bool(bit) == [type |-> "Bool", width |-> 1, value |-> bit]
Uuid(short) == [type |-> "Uuid", base |-> TRUE, value |-> short]
ForeignUuid(name) == [type |-> "Uuid", base |-> FALSE, value |-> name]
Text(chars) == [type |-> "Text", chars |-> chars]
Url(chars) == [type |-> "Url", chars |-> chars]
Sequence(parts) == [type |-> "Sequence", parts |-> parts]
Alternative(parts) == [type |-> "Alternative", parts |-> parts]

Numbers == {"UInt", "SInt", "Bool"}
Strings == {"Text", "Url"}
Containers == {"Sequence", "Alternative"}

ValidSizeIndices(type) ==
    CASE type \in {"Nil", "Bool"} -> {0}
      [] type \in {"UInt", "SInt"} -> 0 .. 4
      [] type = "Uuid" -> {1, 2, 4}
      [] type \in Strings \union Containers -> 5 .. 7

\* The index of a power of two: 0 => 1, 1 => 2, 2 => 4, 3 => 8, 4 => 16.
NumberIndex(width) == CHOOSE i \in 0 .. 4 : 2 ^ i = width

\* DynamicLength: how long the length of a text or container is.
DynamicIndex(length) ==
    IF length < 256 THEN 5 ELSE IF length < 65536 THEN 6 ELSE 7

(* Mutant: the length itself is not counted. *)
DynamicSize_NoPrefix(length) == length

DynamicSize(length) == 2 ^ (DynamicIndex(length) - 5) + length

\* PackedUuid: the shortest form of a UUID.
PackedIndex(uuid) ==
    IF ~uuid.base THEN 4 ELSE IF uuid.value < 65536 THEN 1 ELSE 2

RECURSIVE ByteSize(_)
PartsSize(parts) == FoldLeft(LAMBDA n, e : n + ByteSize(e), 0, parts)

ByteSize(e) ==
    1 + CASE e.type = "Nil" -> 0
          [] e.type \in Numbers -> e.width
          [] e.type = "Uuid" -> 2 ^ PackedIndex(e)
          [] e.type \in Strings -> DynamicSize(e.chars)
          [] e.type \in Containers -> DynamicSize(PartsSize(e.parts))

IsEmpty(e) ==
    \/ e.type \in Strings /\ e.chars = 0
    \/ e.type \in Containers /\ e.parts = <<>>

-----------------------------------------------------------------------------
(* Writing.                                                                *)

Header(type, index) == [bytes |-> 1, type |-> type, index |-> index]
Token(bytes, value) == [bytes |-> bytes, value |-> value]

RECURSIVE Write(_)
WriteParts(parts) == FlattenSeq([i \in 1 .. Len(parts) |-> Write(parts[i])])

WriteLength(type, length) ==
    LET i == DynamicIndex(length)
    IN  <<Header(type, i), Token(2 ^ (i - 5), length)>>

Write(e) ==
    CASE e.type = "Nil" -> <<Header("Nil", 0)>>
      [] e.type \in Numbers ->
            <<Header(e.type, NumberIndex(e.width)), Token(e.width, e.value)>>
      [] e.type = "Uuid" ->
            LET i == PackedIndex(e) IN <<Header("Uuid", i), Token(2 ^ i, e)>>
      [] e.type \in Strings ->
            WriteLength(e.type, e.chars) \o <<Token(e.chars, "chars")>>
      [] e.type \in Containers ->
            WriteLength(e.type, PartsSize(e.parts)) \o WriteParts(e.parts)

-----------------------------------------------------------------------------
(* Reading: the element at the front of the tokens and what follows it, or *)
(* an error when the header is invalid or the bytes run out.               *)

Remaining(tokens) == FoldLeft(LAMBDA n, t : n + t.bytes, 0, tokens)
Failed == [ok |-> FALSE]
Got(e, rest) == [ok |-> TRUE, element |-> e, rest |-> rest]

\* The first bytes of the tokens; a token that is cut cannot be read.
FirstBytes(tokens, n) ==
    LET whole == {i \in 0 .. Len(tokens) : Remaining(SubSeq(tokens, 1, i)) <= n}
        most == CHOOSE i \in whole : \A j \in whole : j <= i
        left == n - Remaining(SubSeq(tokens, 1, most))
    IN  SubSeq(tokens, 1, most) \o (IF left = 0 THEN <<>> ELSE <<[bytes |-> left]>>)

IsHeader(tokens) == tokens # <<>> /\ "index" \in DOMAIN Head(tokens)
IsToken(tokens, bytes) ==
    tokens # <<>> /\ "value" \in DOMAIN Head(tokens) /\ Head(tokens).bytes = bytes

\* The length of a header's content and the tokens it starts at.
ReadHeader(tokens) ==
    IF ~IsHeader(tokens) \/ Head(tokens).index \notin ValidSizeIndices(Head(tokens).type)
    THEN Failed
    ELSE LET h == Head(tokens)
             dynamic == h.index >= 5
             content == IF dynamic /\ Len(tokens) > 1 THEN SubSeq(tokens, 3, Len(tokens))
                                                      ELSE Tail(tokens)
             length == IF h.type = "Nil" THEN 0
                       ELSE IF dynamic THEN tokens[2].value ELSE 2 ^ h.index
         IN  IF dynamic /\ ~IsToken(Tail(tokens), 2 ^ (h.index - 5)) THEN Failed
             ELSE IF length > Remaining(content) THEN Failed
             ELSE [ok |-> TRUE, type |-> h.type, length |-> length, content |-> content]

RECURSIVE ReadParts(_)
\* One number, UUID, text or container out of its content.
ReadContent(type, length, tokens) ==
    CASE type = "Nil" -> Got(Nil, tokens)
      [] type \in Containers ->
            LET inside == FirstBytes(tokens, length)
                parts == ReadParts(inside)
            IN  IF ~parts.ok THEN Failed
                ELSE Got([type |-> type, parts |-> parts.element],
                         SubSeq(tokens, Len(inside) + 1, Len(tokens)))
      [] OTHER ->
            IF ~IsToken(tokens, length) THEN Failed
            ELSE LET value == Head(tokens).value
                 IN  Got(CASE type \in Strings -> Text(length)
                           [] type = "Uuid" -> IF length < 16 THEN Uuid(value.value) ELSE value
                           [] type = "Bool" -> Bool(IF value = 0 THEN 0 ELSE 1)
                           [] OTHER -> [type |-> type, width |-> length, value |-> value],
                         Tail(tokens))

Read(tokens) ==
    LET h == ReadHeader(tokens)
    IN  IF ~h.ok THEN Failed ELSE ReadContent(h.type, h.length, h.content)

ReadParts(tokens) ==
    IF tokens = <<>> THEN Got(<<>>, <<>>)
    ELSE LET first == Read(tokens)
             others == ReadParts(first.rest)
         IN  IF ~first.ok THEN Failed
             ELSE IF ~others.ok THEN Failed
             ELSE Got(<<first.element>> \o others.element, <<>>)

-----------------------------------------------------------------------------
(* What is written is read back.                                           *)

\* A URL comes back as a text: the two are not told apart when read.
RECURSIVE AsRead(_)
AsRead(e) ==
    CASE e.type = "Url" -> Text(e.chars)
      [] e.type \in Containers ->
            [e EXCEPT !.parts = [i \in 1 .. Len(e.parts) |-> AsRead(e.parts[i])]]
      [] OTHER -> e

\* byte_size, which the lengths of containers are computed from before
\* anything is written, is what is written; and that reads back, leaving
\* nothing, while no prefix of it is taken for an element.
ElementRoundTrips(e) ==
    /\ Remaining(Write(e)) = ByteSize(e)
    /\ Read(Write(e)) = Got(AsRead(e), <<>>)

PrefixRefused(e, bytes) == ~Read(FirstBytes(Write(e), bytes)).ok
=============================================================================
