------------------------------- MODULE MCHost -------------------------------
(***************************************************************************)
(* What a host keeps as long as the program runs: the L2CAP server, the    *)
(* identifiers its channels sign their commands with, and the manager of   *)
(* connections and link keys.  They share no state, so a behaviour is      *)
(* about one of them, the subject, and the variables of the others stay as *)
(* they are.                                                               *)
(***************************************************************************)
EXTENDS ConnectionManager, L2capServer, SignalingIds

CONSTANTS h1, h2

MCHandles == {h1, h2}

\* Links whose disconnection has failed, whether the server knows or not.
Failed == forgotten \union {e.life : e \in {x \in Range(events) : /\ x.kind = "DisconnectionComplete"
                                                                 /\ x.status = "Failed"}}

\* bound: links, failed disconnections and packets together; one link carries more
\* packets than two
MaxTogether == 5
Together == lives + Cardinality(Failed) + packets

\* Connection handles are told apart, and no more.
Symmetry == Permutations(MCHandles)

VARIABLE subject

HostInit ==
    /\ subject \in {"manager", "server", "ids"}
    /\ ManagerInit
    /\ Init
    /\ IdsInit

HostNext ==
    \/ subject = "manager" /\ ManagerNext /\ UNCHANGED <<subject, vars, idVars>>
    \/ /\ subject = "server" /\ Next /\ Together' <= MaxTogether
       /\ UNCHANGED <<subject, managerVars, idVars>>
    \/ subject = "ids" /\ IdsNext /\ UNCHANGED <<subject, managerVars, vars>>

HostSpec == HostInit /\ [][HostNext]_<<subject, vars, managerVars, idVars>>

=============================================================================
