------------------------------ MODULE SdpServer ------------------------------
(***************************************************************************)
(* One channel of the SDP server (sdp/mod.rs): a request is read, answered *)
(* and the answer written before the next one is read.  What does not fit  *)
(* the maximum of a request stays in a buffer for a continuation request.  *)
(* The continuation state is the same four bytes for every answer.         *)
(*                                                                         *)
(* A client asks for a list and continues until it has all of it; a second *)
(* one on the same channel, or one that gave up, may come in between.      *)
(* What the answers are is left open: SdpAnswers computes them from the    *)
(* records of a server.                                                    *)
(***************************************************************************)
EXTENDS Naturals, Sequences

CONSTANTS
    Clients,        \* users of the channel
    Lists,          \* requests for a list: ServiceAttribute, ServiceSearchAttribute
    Searches,       \* requests for handles: ServiceSearch
    Maximum,        \* request -> most bytes of its answer to send at once
    Answers,        \* request -> its whole answer; one without is refused
    MaxRequests     \* bound: requests in all

\* A maximum is a number, whatever the client put there, and an answer a
\* sequence; "none" is no request.
ASSUME MaximumAssumption == Maximum \in [Lists \union Searches -> Nat]
ASSUME AnswersAssumption ==
    /\ "none" \notin DOMAIN Answers
    /\ \A name \in DOMAIN Answers :
           Answers[name] \in Seq({Answers[name][i] : i \in DOMAIN Answers[name]})

VARIABLES
    buffer,         \* bytes of an answer not yet sent: <<request, position>>
    asked,          \* client -> the request it is collecting, or "none"
    got,            \* client -> the bytes it has of its answer
    finished,       \* client -> got ends with the last piece
    disturbed,      \* clients whose answer another request interfered with
    requests        \* history: requests sent

sdpVars == <<buffer, asked, got, finished, disturbed, requests>>

-----------------------------------------------------------------------------
SdpInit ==
    /\ buffer = <<>>
    /\ asked = [c \in Clients |-> "none"]
    /\ got = [c \in Clients |-> <<>>]
    /\ finished = [c \in Clients |-> FALSE]
    /\ disturbed = {}
    /\ requests = 0

Collecting(c) == asked[c] # "none" /\ ~finished[c]
Others(c) == {d \in Clients \ {c} : Collecting(d)}
Ask == requests < MaxRequests /\ requests' = requests + 1

\* At most the maximum of the request is cut off the bytes and sent; it is the
\* last piece if nothing remains.
Reply(c, name, before, bytes) ==
    LET n == IF Len(bytes) < Maximum[name] THEN Len(bytes) ELSE Maximum[name]
    IN  /\ buffer' = SubSeq(bytes, n + 1, Len(bytes))
        /\ asked' = [asked EXCEPT ![c] = name]
        /\ got' = [got EXCEPT ![c] = before \o SubSeq(bytes, 1, n)]
        /\ finished' = [finished EXCEPT ![c] = n = Len(bytes)]

\* An error response: the client has no answer.
Refuse(c) ==
    /\ asked' = [asked EXCEPT ![c] = "none"]
    /\ got' = [got EXCEPT ![c] = <<>>]
    /\ finished' = [finished EXCEPT ![c] = FALSE]

(* Mutant: the rest of the last answer is kept. *)
FirstList_NotCleared(c, name) ==
    /\ Ask /\ ~Collecting(c)
    /\ disturbed' = (disturbed \ {c}) \union Others(c)
    /\ IF name \in DOMAIN Answers THEN Reply(c, name, <<>>, buffer \o Answers[name])
       ELSE Refuse(c) /\ UNCHANGED buffer

\* A list is asked for from its start: the buffer is cleared, also when the
\* request is then refused.
FirstList(c, name) ==
    /\ Ask /\ ~Collecting(c)
    /\ disturbed' = (disturbed \ {c}) \union Others(c)
    /\ IF name \in DOMAIN Answers THEN Reply(c, name, <<>>, Answers[name])
       ELSE Refuse(c) /\ buffer' = <<>>

\* The next piece is asked for.  Nothing says of which answer: what is in the
\* buffer is sent.
ContinueList(c, name) ==
    /\ Ask /\ (Collecting(c) => name = asked[c])
    /\ disturbed' = disturbed \union Others(c) \union
                        (IF Collecting(c) THEN {} ELSE {c})
    /\ IF buffer # <<>> THEN Reply(c, name, got[c], buffer)
       ELSE Refuse(c) /\ UNCHANGED buffer

\* A search is answered at once and leaves the buffer alone, as does a search
\* with a continuation state, a PDU of another kind or a malformed request,
\* which are refused.
Search(c, name) ==
    /\ Ask /\ ~Collecting(c)
    /\ IF name \in DOMAIN Answers
       THEN /\ asked' = [asked EXCEPT ![c] = name]
            /\ got' = [got EXCEPT ![c] = Answers[name]]
            /\ finished' = [finished EXCEPT ![c] = TRUE]
       ELSE Refuse(c)
    /\ disturbed' = disturbed \ {c}
    /\ UNCHANGED buffer

\* A client asks no further; the rest of its answer stays.
GiveUp(c) ==
    /\ Collecting(c)
    /\ Refuse(c)
    /\ UNCHANGED <<buffer, disturbed, requests>>

SdpNext ==
    \E c \in Clients :
        \/ \E name \in Lists : FirstList(c, name) \/ ContinueList(c, name)
        \/ \E name \in Searches : Search(c, name)
        \/ GiveUp(c)

SdpSpec == SdpInit /\ [][SdpNext]_sdpVars

-----------------------------------------------------------------------------
(* Properties.                                                             *)

\* A client that collects its list while no other request for a list comes in
\* between gets all of it, in order and without a gap, and is not refused a
\* piece: its pieces and what is left in the buffer are the answer to its own
\* request, whatever was given up, refused or searched before.
AnswersWhole ==
    \A c \in Clients : asked[c] # "none" /\ c \notin disturbed =>
        /\ Collecting(c) => buffer # <<>>
        /\ got[c] \o (IF Collecting(c) THEN buffer ELSE <<>>) = Answers[asked[c]]
=============================================================================
