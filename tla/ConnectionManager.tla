-------------------------- MODULE ConnectionManager --------------------------
(***************************************************************************)
(* The connection manager (hci/connection.rs): one task that answers the   *)
(* controller's questions about pairing, and keeps the link keys.  Every   *)
(* new key has the whole table written by a blocking task of its own; the  *)
(* file is read when the manager starts.  Writing is std::fs::write: open  *)
(* with truncation, then write from the beginning, so two writers that     *)
(* overlap lay one file over the other.                                    *)
(*                                                                         *)
(* The file is a sequence of cells, two for an entry: a device and its     *)
(* key.  A file that was cut ends anywhere.  The process may die at any    *)
(* time; a started write may then have left any prefix.                    *)
(***************************************************************************)
EXTENDS Naturals, SequencesExt

CONSTANTS
    Devices,        \* remote devices: numbers, ordered as their addresses
    Absent,         \* no file
    MaxKeys,        \* bound: link keys the controller creates
    MaxRequests,    \* bound: other events of the controller
    MaxCrashes      \* bound: crashes of the process

ASSUME ManagerAssumption ==
    /\ Devices \subseteq Nat /\ IsFiniteSet(Devices)
    /\ Absent \notin Seq(Nat)
    /\ MaxKeys \in Nat /\ MaxRequests \in Nat /\ MaxCrashes \in Nat

VARIABLES
    status,         \* "up", "down" (not started), "refused" or "panicked"
    table,          \* link_keys: device -> key, or NoKey
    store,          \* the file: cells, or Absent
    saves,          \* blocking tasks not yet done, in the order they were spawned
    inbox,          \* events the manager has not handled
    answer,         \* the last answer to the controller
    notified,       \* history: device -> its keys in the order they were posted
    overlapped,     \* history: a save started before an earlier one was done
    cutShort,       \* history: a crash or a full disk lost a save or a part of one
    budget          \* what is left of the bounds: keys, requests, crashes

managerVars == <<status, table, store, saves, inbox, answer, notified, overlapped, cutShort, budget>>

\* Link keys are numbered as they are created.
NoKey == 0
NewKey == 1 + MaxKeys - budget.keys

Unknown == [d \in Devices |-> NoKey]
NoAnswer == [kind |-> "none"]

-----------------------------------------------------------------------------
(* The file.                                                               *)

Known == {d \in Devices : table[d] # NoKey}

\* A BTreeMap is written in the order of its addresses.
Rank(S) == [d \in S |-> Cardinality({e \in S : e <= d})]

Snapshot(t) ==
    LET S == {d \in Devices : t[d] # NoKey}
    IN  [i \in 1 .. 2 * Cardinality(S) |->
            LET d == CHOOSE e \in S : Rank(S)[e] = (i + 1) \div 2
            IN  IF i % 2 = 1 THEN d ELSE t[d]]

\* A write from offset 0 leaves what lies beyond it as it was.
Overlay(old, new) == new \o SubSeq(old, Len(new) + 1, Len(old))

Readable(cells) == Len(cells) % 2 = 0

\* Entries are inserted in order: the last one for a device wins.
Load(cells) ==
    [d \in Devices |->
        LET at == {i \in 1 .. Len(cells) \div 2 : cells[2 * i - 1] = d}
        IN  IF at = {} THEN NoKey ELSE cells[2 * Max(at)]]

-----------------------------------------------------------------------------
(* The controller.                                                         *)

LastKey(d) == IF notified[d] = <<>> THEN NoKey ELSE Last(notified[d])

Post(event) == inbox' = Append(inbox, event)

\* Two devices have agreed on a key.
PostKey ==
    /\ status = "up"
    /\ budget.keys > 0
    /\ \E d \in Devices :
        /\ Post([kind |-> "LinkKeyNotification", device |-> d, key |-> NewKey])
        /\ notified' = [notified EXCEPT ![d] = Append(@, NewKey)]
    /\ budget' = [budget EXCEPT !.keys = @ - 1]
    /\ UNCHANGED <<status, table, store, saves, answer, overlapped, cutShort>>

\* "expects" is history: the key the controller was last given for the device.
Questions(d) ==
    {[kind |-> "LinkKeyRequest", device |-> d, expects |-> LastKey(d)]}
      \union [kind : {"PinCodeRequest", "IoCapabilityRequest", "UserConfirmationRequest",
                      "UserPasskeyRequest", "SimplePairingComplete"}, device : {d}]
      \union [kind : {"ConnectionRequest"}, device : {d}, link : {"ACL", "SCO"}]

PostQuestion ==
    /\ status = "up"
    /\ budget.requests > 0
    /\ \E d \in Devices : \E q \in Questions(d) : Post(q)
    /\ budget' = [budget EXCEPT !.requests = @ - 1]
    /\ UNCHANGED <<status, table, store, saves, answer, notified, overlapped, cutShort>>

-----------------------------------------------------------------------------
(* handle_event, one case an action.                                       *)

Takes(kind) ==
    /\ status = "up"
    /\ inbox # <<>>
    /\ Head(inbox).kind = kind
    /\ inbox' = Tail(inbox)

Reply(kind, event) == answer' = [kind |-> kind, event |-> event]

\* Mutant: what is saved is what the table was before the key.
SnapshotOf_Before(d, k) == Snapshot(table)

SnapshotOf(d, k) == Snapshot([table EXCEPT ![d] = k])

LinkKeyNotification ==
    /\ Takes("LinkKeyNotification")
    /\ LET e == Head(inbox) IN
        /\ table' = [table EXCEPT ![e.device] = e.key]
        /\ saves' = Append(saves, [data |-> SnapshotOf(e.device, e.key), opened |-> FALSE])
    /\ answer' = NoAnswer
    /\ UNCHANGED <<status, store, notified, overlapped, cutShort, budget>>

LinkKeyRequest ==
    /\ Takes("LinkKeyRequest")
    /\ LET e == Head(inbox) IN
        answer' = [kind |-> IF e.device \in Known THEN "link_key_present"
                                                  ELSE "link_key_not_present",
                   event |-> e, key |-> table[e.device]]
    /\ UNCHANGED <<status, table, store, saves, notified, overlapped, cutShort, budget>>

\* A request for anything but an ACL link is an error, and gets no reply.
ConnectionRequest ==
    /\ Takes("ConnectionRequest")
    /\ IF Head(inbox).link = "ACL" THEN Reply("accept_connection_request", Head(inbox))
                                   ELSE answer' = NoAnswer
    /\ UNCHANGED <<status, table, store, saves, notified, overlapped, cutShort, budget>>

PairingReply ==
    [PinCodeRequest |-> "pin_code_request_reply",
     IoCapabilityRequest |-> "io_capability_reply",
     UserConfirmationRequest |-> "user_confirmation_request_accept"]

PairingRequest ==
    /\ \E kind \in DOMAIN PairingReply :
        Takes(kind) /\ Reply(PairingReply[kind], Head(inbox))
    /\ UNCHANGED <<status, table, store, saves, notified, overlapped, cutShort, budget>>

\* IoCapabilityResponse, KeypressNotification and the events of connections
\* change nothing either.
Ignored ==
    /\ Takes("SimplePairingComplete")
    /\ answer' = NoAnswer
    /\ UNCHANGED <<status, table, store, saves, notified, overlapped, cutShort, budget>>

\* Passkeys and out of band data panic: the task ends, its writers go on.
PasskeyPanics ==
    /\ Takes("UserPasskeyRequest")
    /\ status' = "panicked"
    /\ answer' = NoAnswer
    /\ UNCHANGED <<table, store, saves, notified, overlapped, cutShort, budget>>

-----------------------------------------------------------------------------
(* save_link_keys: the blocking tasks run in any order, two at a time too. *)

SaveOpens ==
    \E i \in DOMAIN saves :
        /\ ~saves[i].opened
        /\ saves' = [saves EXCEPT ![i].opened = TRUE]
        /\ store' = <<>>
        /\ overlapped' = (overlapped \/ \E j \in DOMAIN saves : j # i /\ (j < i \/ saves[j].opened))
        /\ UNCHANGED <<status, table, inbox, answer, notified, cutShort, budget>>

SaveWrites ==
    \E i \in DOMAIN saves :
        /\ saves[i].opened
        /\ saves' = RemoveAt(saves, i)
        /\ store' = Overlay(store, saves[i].data)
        /\ UNCHANGED <<status, table, inbox, answer, notified, overlapped, cutShort, budget>>

\* The disk is full, or the file cannot be opened: the error is logged.
SaveFails ==
    \E i \in DOMAIN saves :
        /\ budget.crashes > 0
        /\ saves' = RemoveAt(saves, i)
        /\ IF saves[i].opened
              THEN \E n \in 0 .. Len(saves[i].data) :
                       store' = Overlay(store, SubSeq(saves[i].data, 1, n))
              ELSE store' = store
        /\ cutShort' = TRUE
        /\ budget' = [budget EXCEPT !.crashes = @ - 1]
        /\ UNCHANGED <<status, table, inbox, answer, notified, overlapped>>

-----------------------------------------------------------------------------
(* The process dies and is started again.                                  *)

Crash ==
    /\ status \in {"up", "panicked"}
    /\ budget.crashes > 0
    /\ status' = "down"
    /\ \/ store' = store
       \/ \E i \in DOMAIN saves : \E n \in 0 .. Len(saves[i].data) :
              saves[i].opened /\ store' = Overlay(store, SubSeq(saves[i].data, 1, n))
    /\ table' = Unknown
    /\ saves' = <<>>
    /\ inbox' = <<>>
    /\ answer' = NoAnswer
    /\ cutShort' = (cutShort \/ saves # <<>>
                      \/ \E i \in DOMAIN inbox : inbox[i].kind = "LinkKeyNotification")
    /\ budget' = [budget EXCEPT !.crashes = @ - 1]
    /\ UNCHANGED <<notified, overlapped>>

\* ConnectionManagerBuilder::spawn: a file that ends within an entry is an error.
Start ==
    /\ status = "down"
    /\ \/ /\ store = Absent
          /\ status' = "up" /\ table' = Unknown
       \/ /\ store # Absent /\ Readable(store)
          /\ status' = "up" /\ table' = Load(store)
       \/ /\ store # Absent /\ ~Readable(store)
          /\ status' = "refused" /\ table' = table
    /\ UNCHANGED <<store, saves, inbox, answer, notified, overlapped, cutShort, budget>>

-----------------------------------------------------------------------------
ManagerInit ==
    /\ status = "down"
    /\ table = Unknown
    /\ store = Absent
    /\ saves = <<>> /\ inbox = <<>>
    /\ answer = NoAnswer
    /\ notified = [d \in Devices |-> <<>>]
    /\ overlapped = FALSE /\ cutShort = FALSE
    /\ budget = [keys |-> MaxKeys, requests |-> MaxRequests, crashes |-> MaxCrashes]

ManagerNext ==
    \/ PostKey \/ PostQuestion
    \/ LinkKeyNotification \/ LinkKeyRequest
    \/ ConnectionRequest \/ PairingRequest \/ Ignored \/ PasskeyPanics
    \/ SaveOpens \/ SaveWrites \/ SaveFails
    \/ Crash \/ Start

ManagerSpec == ManagerInit /\ [][ManagerNext]_managerVars

-----------------------------------------------------------------------------
\* The controller is told the key it was last given for a device, across any
\* restart, unless saves overlapped or one was cut short: then the key may be
\* gone or an older one, but never that of another device, unless both happened.
\* The manager starts unless a save was cut short (connection.rs:108-122, 164-174).
KeysSurvive ==
    /\ answer.kind \in {"link_key_present", "link_key_not_present"} =>
           LET e == answer.event
           IN  /\ ~overlapped /\ ~cutShort => answer.key = e.expects
               /\ ~(overlapped /\ cutShort) =>
                      answer.key = NoKey \/ Contains(notified[e.device], answer.key)
    /\ status = "refused" => cutShort
=============================================================================
