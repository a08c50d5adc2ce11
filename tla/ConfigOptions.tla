---------------------------- MODULE ConfigOptions ----------------------------
(***************************************************************************)
(* The configuration options of L2CAP and their encoding: a type, a length *)
(* and a value each (l2cap/configuration.rs).  Of the options with several *)
(* fields the value here is the one that can make them invalid.            *)
(***************************************************************************)
EXTENDS Integers, Sequences
LOCAL INSTANCE SequencesExt

\* ConfigurationOption::TYPE and LENGTH; types from 0x80 on are hints.
Types ==
    [Mtu |-> 1, FlushTimeout |-> 2, QualityOfService |-> 3,
     RetransmissionAndFlowControl |-> 4, Fcs |-> 5,
     ExtendedFlowSpecification |-> 6, ExtendedWindowSize |-> 7]

Lengths ==
    [Mtu |-> 2, FlushTimeout |-> 2, QualityOfService |-> 22,
     RetransmissionAndFlowControl |-> 9, Fcs |-> 1,
     ExtendedFlowSpecification |-> 16, ExtendedWindowSize |-> 2]

Names == DOMAIN Types
Hints == 128 .. 255

\* The values of an option: an MTU, a timeout (1: no retransmission, 65535:
\* reliable), a service type, a mode, an FCS type, a window (0: streaming mode).
ValuesOf(name) ==
    CASE name = "Mtu" -> 0 .. 65535
      [] name = "FlushTimeout" -> 1 .. 65535
      [] name \in {"QualityOfService", "ExtendedFlowSpecification"} -> 0 .. 2
      [] name = "RetransmissionAndFlowControl" -> 0 .. 4
      [] name = "Fcs" -> 0 .. 1
      [] name = "ExtendedWindowSize" -> 0 .. 16383

Option(name, value) == [name |-> name, value |-> value]
Unknown(type) == Option("Unknown", type)
IsOption(o) ==
    IF o.name = "Unknown" THEN o.value \in Hints ELSE o.value \in ValuesOf(o.name)

\* An option that is not known cannot be written: nothing is.
WriteOption(o) ==
    IF o.name = "Unknown" THEN <<>>
    ELSE <<[type |-> Types[o.name], length |-> Lengths[o.name], value |-> o.value]>>

WriteOptions(options) ==
    FlattenSeq([i \in 1 .. Len(options) |-> WriteOption(options[i])])

(* Mutant: an option is read whatever length it comes with. *)
IsReadable_AnyLength(t) ==
    \/ t.type \in Hints
    \/ \E name \in Names : Types[name] = t.type /\ t.value \in ValuesOf(name)

\* What read_from_buffer accepts: any hint, which is skipped, and a known option
\* of its length with a valid value.
IsReadable(t) ==
    \/ t.type \in Hints
    \/ \E name \in Names :
           Types[name] = t.type /\ Lengths[name] = t.length /\ t.value \in ValuesOf(name)

ReadOption(t) ==
    IF t.type \in Hints THEN Unknown(t.type)
    ELSE Option(CHOOSE name \in Names : Types[name] = t.type, t.value)

\* A list is read to its end, or not at all.
AreReadable(tokens) == \A i \in DOMAIN tokens : IsReadable(tokens[i])
ReadOptions(tokens) == [i \in DOMAIN tokens |-> ReadOption(tokens[i])]

-----------------------------------------------------------------------------
\* Options that are written are read back, but for the unknown ones; a hint from
\* a peer is skipped over whatever its length; and a list is refused if one of
\* its options has another length than its type, or an impossible value.
OptionsRoundTrip(options, hint, length) ==
    LET known == SelectSeq(options, LAMBDA o : o.name # "Unknown")
        written == WriteOptions(options)
        hinted == <<[type |-> hint, length |-> length, value |-> 0]>> \o written
    IN  /\ AreReadable(written) /\ ReadOptions(written) = known
        /\ AreReadable(hinted) /\ ReadOptions(hinted) = <<Unknown(hint)>> \o known
        /\ \A i \in DOMAIN written : written[i].length # length =>
               ~AreReadable([written EXCEPT ![i].length = length])
=============================================================================
