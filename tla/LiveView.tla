------------------------------ MODULE LiveView ------------------------------
(***************************************************************************)
(* One view of the web UI and what keeps it current: handlers that write   *)
(* rows and then broadcast, the hub with its bounded queue for each        *)
(* connection, the web socket of useLive, and the requests that useData    *)
(* makes again for every event that the view watches.                      *)
(*                                                                         *)
(* What the view shows of the database is a version that each write of a   *)
(* handler increases. A view is one query; a page that makes several is    *)
(* several views. Each useLive has a connection of its own, so views do    *)
(* not interact.                                                           *)
(***************************************************************************)
EXTENDS Integers, Sequences

CONSTANTS
    Kinds,       \* types of events
    Watched,     \* those that match the prefixes the view gives to useLive
    Capacity,    \* of the channel of a connection (64 in the code)
    WireSize,    \* events written to the socket and not received (a bound)
    MaxFetches,  \* requests of the view under way (a bound)
    MaxVersion,  \* writes (a bound)
    Ordered,     \* whether responses arrive in the order of their requests
    Faults       \* whether handlers, requests and connections fail

ASSUME LiveViewAssumption ==
    /\ Watched \subseteq Kinds
    /\ Capacity \in Nat \ {0}
    /\ WireSize \in Nat \ {0}
    /\ MaxFetches \in Nat \ {0}
    /\ MaxVersion \in Nat \ {0}
    /\ Ordered \in BOOLEAN
    /\ Faults \in BOOLEAN

Versions == 1..MaxVersion

VARIABLES
    version,     \* of what is in the database
    owed,        \* handlers that have written and not yet broadcast
    open,        \* the socket is connected
    registered,  \* HandleWS has put the connection into Hub.clients
    queue,       \* the channel of the connection
    wire,        \* events on the socket
    unread,      \* requests whose handler has not read the database yet
    answers,     \* versions in the responses under way
    shown,       \* the version on the screen, 0 for none
    seen,        \* history: the newest version that a request has read
    promised,    \* history: the last version written while registered
    missed       \* history: since the database was last read for the view, something
                 \* failed, or a queue full of other events had no room for one that
                 \* the view watches

database == <<version, owed>>
connection == <<open, registered, queue, wire>>
requests == <<unread, answers, shown, seen>>
vars == <<database, connection, requests, promised, missed>>

TypeOK ==
    /\ version \in Versions
    /\ owed \in Nat
    /\ open \in BOOLEAN
    /\ registered \in BOOLEAN
    /\ queue \in Seq(Kinds)
    /\ wire \in Seq(Kinds)
    /\ unread \in Nat
    /\ answers \in Seq(Versions)
    /\ shown \in 0..MaxVersion
    /\ seen \in 0..MaxVersion
    /\ promised \in 0..MaxVersion
    /\ missed \in BOOLEAN

\* The view is mounted: useData fetches, and useLive connects.
Init ==
    /\ version = 1
    /\ owed = 0
    /\ open = FALSE
    /\ registered = FALSE
    /\ queue = <<>>
    /\ wire = <<>>
    /\ unread = 1
    /\ answers = <<>>
    /\ shown = 0
    /\ seen = 0
    /\ promised = 0
    /\ missed = FALSE

-----------------------------------------------------------------------------
(* Handlers.                                                               *)

\* A handler writes what the view shows, and perhaps has done so before.
Change ==
    /\ version < MaxVersion
    /\ version' = version + 1
    /\ \/ owed' = owed + 1
       \/ owed > 0 /\ owed' = owed
    /\ promised' = IF registered THEN version + 1 ELSE promised
    /\ UNCHANGED <<connection, requests, missed>>

Calls(events) == \E i \in 1..Len(events) : events[i] \in Watched

\* Mutant of Broadcast: the oldest event makes room for the new one.
BroadcastEvicting(k) ==
    /\ queue' = IF ~registered THEN queue
                ELSE IF Len(queue) < Capacity THEN Append(queue, k)
                ELSE Append(Tail(queue), k)
    /\ UNCHANGED missed

\* Hub.Broadcast to this connection.
Broadcast(k) ==
    IF registered /\ Len(queue) < Capacity
    THEN queue' = Append(queue, k) /\ UNCHANGED missed
    ELSE /\ missed' = (missed \/ (registered /\ k \in Watched /\ ~Calls(queue)))
         /\ UNCHANGED queue

\* The handler that has written tells so, with an event the view watches.
Announce(k) ==
    /\ k \in Watched
    /\ owed > 0
    /\ owed' = owed - 1
    /\ Broadcast(k)
    /\ UNCHANGED <<version, open, registered, wire, requests, promised>>

\* An event about something else, which the view may watch all the same.
Other(k) ==
    /\ Broadcast(k)
    /\ UNCHANGED <<database, open, registered, wire, requests, promised>>

\* A later store call of the handler fails: it returns without a broadcast.
Abandon ==
    /\ Faults
    /\ owed > 0
    /\ owed' = owed - 1
    /\ missed' = TRUE
    /\ UNCHANGED <<version, connection, requests, promised>>

-----------------------------------------------------------------------------
(* The connection.                                                         *)

\* connect: the request of the socket is upgraded.
Connect ==
    /\ ~open
    /\ open' = TRUE
    /\ UNCHANGED <<database, registered, queue, wire, requests, promised, missed>>

\* HandleWS adds the connection to the clients.
Register ==
    /\ open /\ ~registered
    /\ registered' = TRUE
    /\ UNCHANGED <<database, open, queue, wire, requests, promised, missed>>

\* Mutant of Forward: events are written in batches.
ForwardBatched ==
    /\ Len(queue) = Capacity
    /\ Len(wire) < WireSize
    /\ wire' = Append(wire, Head(queue))
    /\ queue' = Tail(queue)
    /\ UNCHANGED <<database, open, registered, requests, promised, missed>>

\* The loop of HandleWS writes an event to the socket.
Forward ==
    /\ queue # <<>>
    /\ Len(wire) < WireSize
    /\ wire' = Append(wire, Head(queue))
    /\ queue' = Tail(queue)
    /\ UNCHANGED <<database, open, registered, requests, promised, missed>>

\* The socket closes: a read or write has failed or timed out, or the control
\* plane restarts. The hub may find out later, but the channel reaches nobody.
Disconnect ==
    /\ Faults
    /\ open
    /\ open' = FALSE
    /\ registered' = FALSE
    /\ queue' = <<>>
    /\ wire' = <<>>
    /\ promised' = 0
    /\ UNCHANGED <<database, requests, missed>>

-----------------------------------------------------------------------------
(* The view.                                                               *)

\* Mutant of Receive: no new request while there is one under way.
ReceiveCoalescing ==
    /\ wire # <<>>
    /\ wire' = Tail(wire)
    /\ unread' = IF Head(wire) \in Watched /\ unread + Len(answers) = 0
                 THEN 1 ELSE unread
    /\ UNCHANGED <<database, open, registered, queue>>
    /\ UNCHANGED <<answers, shown, seen, promised, missed>>

\* onmessage: an event that matches makes useData fetch again.
Receive ==
    /\ wire # <<>>
    /\ wire' = Tail(wire)
    /\ IF Head(wire) \in Watched
       THEN unread + Len(answers) < MaxFetches /\ unread' = unread + 1
       ELSE UNCHANGED unread
    /\ UNCHANGED <<database, open, registered, queue>>
    /\ UNCHANGED <<answers, shown, seen, promised, missed>>

\* refetch after something the user has done; it leaves room for an event.
Refetch ==
    /\ unread + Len(answers) + 1 < MaxFetches
    /\ unread' = unread + 1
    /\ UNCHANGED <<database, connection, answers, shown, seen, promised, missed>>

\* The handler of a request reads the database.
Serve ==
    /\ unread > 0
    /\ unread' = unread - 1
    /\ answers' = Append(answers, version)
    /\ seen' = version
    /\ missed' = FALSE
    /\ UNCHANGED <<database, connection, shown, promised>>

Without(s, i) == SubSeq(s, 1, i - 1) \o SubSeq(s, i + 1, Len(s))

\* setData with a response, whichever request it is for.
Arrive(i) ==
    /\ i \in 1..Len(answers)
    /\ Ordered => i = 1
    /\ shown' = answers[i]
    /\ answers' = Without(answers, i)
    /\ UNCHANGED <<database, connection, unread, seen, promised, missed>>

\* A request fails; useData keeps what is shown.
FailUnread ==
    /\ Faults
    /\ unread > 0
    /\ unread' = unread - 1
    /\ missed' = TRUE
    /\ UNCHANGED <<database, connection, answers, shown, seen, promised>>

FailAnswer(i) ==
    /\ Faults
    /\ i \in 1..Len(answers)
    /\ answers' = Without(answers, i)
    /\ missed' = TRUE
    /\ UNCHANGED <<database, connection, unread, shown, seen, promised>>

-----------------------------------------------------------------------------
Next ==
    \/ Change
    \/ \E k \in Kinds : Announce(k) \/ Other(k)
    \/ Abandon
    \/ Connect
    \/ Register
    \/ Forward
    \/ Disconnect
    \/ Receive
    \/ Refetch
    \/ Serve
    \/ \E i \in 1..Len(answers) : Arrive(i) \/ FailAnswer(i)
    \/ FailUnread

Spec == Init /\ [][Next]_vars

\* Handlers and requests go on, and so does the loop of a connection that stays
\* up. Nobody has to reconnect.
Fairness ==
    /\ WF_vars(\E k \in Kinds : Announce(k))
    /\ WF_vars(Forward)
    /\ WF_vars(Receive)
    /\ WF_vars(Serve)
    /\ WF_vars(\E i \in 1..Len(answers) : Arrive(i))

FairSpec == Spec /\ Fairness

-----------------------------------------------------------------------------
(* Properties.                                                             *)

\* Something will make the view ask for what is in the database.
Coming == owed > 0 \/ Calls(queue) \/ Calls(wire) \/ unread > 0

\* "slow clients drop events rather than blocking the server": a full queue may
\* drop events, and requests overtake writes, but what a handler has written
\* while the view was connected is read by a request of the view, or something
\* is on its way that makes it be read.
Informed == ~missed /\ seen < promised => Coming

\* When nothing is on its way, the view shows it, provided that responses do not
\* overtake each other.
UpToDate == Ordered /\ ~missed /\ ~Coming /\ answers = <<>> => shown >= promised

\* It comes to that: what was written is shown, unless the connection breaks.
ChangesAppear ==
    \A v \in Versions : promised >= v ~> shown >= v \/ promised = 0 \/ missed

(* The inductive strengthening of Informed and UpToDate.                   *)

Newest == IF answers = <<>> THEN shown ELSE answers[Len(answers)]

IInv ==
    /\ TypeOK
    /\ promised <= version
    /\ promised > 0 => registered
    /\ Informed
    /\ Ordered /\ ~missed => Newest = seen

=============================================================================
