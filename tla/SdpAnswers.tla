------------------------------ MODULE SdpAnswers ------------------------------
(***************************************************************************)
(* What the SDP server (sdp/mod.rs) answers: the records it has, those a   *)
(* pattern matches and the attributes a list of ids picks out of them.     *)
(***************************************************************************)
EXTENDS ServiceRecords
LOCAL INSTANCE SequencesExt

CONSTANTS
    Records,        \* [handle -> attributes], as given to SdpBuilder
    Handles,        \* the handles in increasing order, as a BTreeMap has them
    Requests        \* [name -> request]: kind, pattern, handle, max, ids

-----------------------------------------------------------------------------
(* Records and what is asked of them.                                      *)

\* SdpBuilder::with_record asserts this of every record.
RecordsValid ==
    /\ \A h \in DOMAIN Records : h \notin 1 .. 65535
    /\ DOMAIN Records = ToSet(Handles) /\ IsInjective(Handles)

\* Service::from sorts the attributes by their id.
Service(handle) == SortSeq(Records[handle], LAMBDA a, b : a.id < b.id)

RECURSIVE ContainsUuid(_, _)
ContainsUuid(e, uuid) ==
    \/ e = uuid
    \/ e.type = "Sequence" /\ \E p \in ToSet(e.parts) : ContainsUuid(p, uuid)

\* A record matches a pattern if it has any of its UUIDs.
Matching(uuids) ==
    SelectSeq(Handles, LAMBDA h : \E u \in uuids : \E a \in ToSet(Service(h)) :
                                    ContainsUuid(a.value, u))

\* convert_search_pattern, convert_attribute_id_list: a sequence of UUIDs, and
\* one of ids (U16) and of ranges of ids (U32); anything else is an error.
IsSearchPattern(e) == e.type = "Sequence" /\ \A p \in ToSet(e.parts) : p.type = "Uuid"

IsIdRange(e) == e.type = "UInt" /\ e.width \in {2, 4}
IdsOf(e) == IF e.width = 2 THEN {e.value} ELSE (e.value \div 65536) .. (e.value % 65536)

IsIdList(e) == e.type = "Sequence" /\ \A p \in ToSet(e.parts) : IsIdRange(p)
IdList(e) == UNION {IdsOf(p) : p \in ToSet(e.parts)}

CollectAttributes(handle, ids) ==
    LET wanted == SelectSeq(Service(handle), LAMBDA a : a.id \in ids /\ a.value # Nil)
    IN  Sequence(FlattenSeq([i \in 1 .. Len(wanted) |->
                                <<UInt(2, wanted[i].id), wanted[i].value>>]))

-----------------------------------------------------------------------------
(* Answers.                                                                *)

IsRefused(r) ==
    \/ r.kind # "Attribute" /\ ~IsSearchPattern(r.pattern)
    \/ r.kind # "Search" /\ ~IsIdList(r.ids)
    \/ r.kind = "Attribute" /\ r.handle \notin DOMAIN Records

\* The list a request asks for.
ListFor(r) ==
    IF r.kind = "Attribute" THEN CollectAttributes(r.handle, IdList(r.ids))
    ELSE LET found == Matching(ToSet(r.pattern.parts))
             lists == [i \in 1 .. Len(found) |-> CollectAttributes(found[i], IdList(r.ids))]
         IN  Sequence(SelectSeq(lists, LAMBDA l : ~IsEmpty(l)))

\* ServiceSearchRequest: as many handles as wanted, never split.
HandlesFor(r) ==
    LET found == Matching(ToSet(r.pattern.parts))
    IN  SubSeq(found, 1, IF Len(found) < r.max THEN Len(found) ELSE r.max)

\* The bytes of the answer to the request of that name: what a list is written
\* as, byte by byte, or handles.
Answer(name) ==
    IF Requests[name].kind = "Search" THEN HandlesFor(Requests[name])
    ELSE [i \in 1 .. ByteSize(ListFor(Requests[name])) |-> <<name, i>>]

Valid == {name \in DOMAIN Requests : ~IsRefused(Requests[name])}
WholeAnswers == [name \in Valid |-> Answer(name)]

\* The requests that are answered with a list, which may come in pieces, and
\* those that are answered with handles; the most bytes an answer may have.
ListRequests == {name \in DOMAIN Requests : Requests[name].kind # "Search"}
SearchRequests == DOMAIN Requests \ ListRequests
MaxBytes == [name \in DOMAIN Requests |-> Requests[name].max]
=============================================================================
