---------------------------- MODULE Capabilities ----------------------------
(***************************************************************************)
(* The capabilities of an AVDTP stream endpoint and their encoding         *)
(* (avdtp/capabilities.rs): a category, a length and a body, which for a   *)
(* media codec starts with the type of media and the codec.                *)
(***************************************************************************)
EXTENDS Integers

\* A codec: its media type and number; SBC is the only one with a parser.
Audio(codec) == [media |-> "Audio", codec |-> codec]
Video(codec) == [media |-> "Video", codec |-> codec]
Multimedia(codec) == [media |-> "Multimedia", codec |-> codec]
SBC == Audio(0)
AudioCodecs == 0 .. 4 \union {255}

\* The size of SbcMediaCodecInformation.
SbcSize == 4

\* A capability: category, codec and number of bytes of information.
NoCodec == [media |-> "none", codec |-> 0]
MediaTransport == [category |-> "MediaTransport", codec |-> NoCodec, info |-> 0]
MediaCodec(codec, info) == [category |-> "MediaCodec", codec |-> codec, info |-> info]
Generic(category, info) == [category |-> category, codec |-> NoCodec, info |-> info]

\* DelayReporting is left out of what GetCapabilities returns.
IsBasic(c) == c.category # "DelayReporting"

(* Mutant: the media type and codec are not counted. *)
BodySize_InfoOnly(c) == c.info

\* byte_size: what the length is written from.
BodySize(c) == IF c.category = "MediaCodec" THEN 2 + c.info ELSE c.info

\* The two bytes of a codec: multimedia is written as audio.
WriteCodec(codec) == IF codec.media = "Multimedia" THEN Audio(codec.codec) ELSE codec

\* And video is read as audio, if there is an audio codec of that number.
ReadsCodec(codec) == codec.media \in {"Audio", "Video"} => codec.codec \in AudioCodecs
ReadCodec(codec) == IF codec.media = "Video" THEN Audio(codec.codec) ELSE codec

\* What is written: the length announced, and what follows it.
WriteCapability(c) ==
    [category |-> c.category, codec |-> WriteCodec(c.codec), length |-> BodySize(c)]

\* Can it be read: exactly the announced length must be used up.
ReadsCapability(w) ==
    CASE w.category = "MediaTransport" -> w.length = 0
      [] w.category = "MediaCodec" ->
            /\ w.length >= 2 /\ ReadsCodec(w.codec)
            /\ ReadCodec(w.codec) = SBC => w.length = 2 + SbcSize
      [] OTHER -> TRUE

ReadCapability(w) ==
    IF w.category = "MediaCodec" THEN MediaCodec(ReadCodec(w.codec), w.length - 2)
    ELSE Generic(w.category, w.length)

-----------------------------------------------------------------------------
\* A capability whose codec is an audio codec, or that has none, is read back
\* as it was written.  (A video codec is read as the audio codec of the same
\* number or refused, and a multimedia codec is sent as one.)
CapabilityRoundTrips(c) ==
    c.codec.media \in {"Audio", "none"} =>
        LET written == WriteCapability(c)
        IN  ReadsCapability(written) /\ ReadCapability(written) = c
=============================================================================
