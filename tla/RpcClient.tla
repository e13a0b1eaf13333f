----------------------------- MODULE RpcClient -----------------------------
(***************************************************************************)
(* The dashboard's connection to the server: the JSON-RPC client of        *)
(* web/src/lib/rpc.ts over WebSockets that close and fail, and the loop of *)
(* internal/mcp/transport_ws.go that answers the requests of one socket    *)
(* one after the other.                                                    *)
(*                                                                         *)
(* JavaScript runs one task at a time: an action is an event of a socket   *)
(* or a timer with the microtasks that follow it, or a call by a           *)
(* component.  A request is its caller; IDs are never used twice.          *)
(***************************************************************************)
EXTENDS Integers, Sequences, FiniteSets, SequencesExt

CONSTANTS
    Calls,      \* the calls that components make, each once
    MaxSockets  \* bound on the connections, not in the code

ASSUME CallsAssumption == IsFiniteSet(Calls)
ASSUME MaxSocketsAssumption == MaxSockets \in Nat \ {0}

VARIABLES
    state,     \* the readyState of every socket, and whether its error was fired
    ws,        \* the socket in ws, 0 for null
    promise,   \* the socket that connectPromise is for, 0 for null
    timer,     \* is reconnectTimer set?
    call,      \* where a call stands
    sock,      \* the socket it waits for, or was sent on
    requests,  \* what the server has still to read from a socket
    replies    \* what the client has still to receive from it

vars == <<state, ws, promise, timer, call, sock, requests, replies>>

Socket == 1..MaxSockets
Live == {"connecting", "open", "closing", "failing"}
Over == {"resolved", "rejected", "timeout", "refused"}

Init ==
    /\ state = [s \in Socket |-> "unused"]
    /\ ws = 0
    /\ promise = 0
    /\ timer = FALSE
    /\ call = [c \in Calls |-> "idle"]
    /\ sock = [c \in Calls |-> 0]
    /\ requests = [s \in Socket |-> <<>>]
    /\ replies = [s \in Socket |-> <<>>]

IsOpen(s) == s # 0 /\ state[s] = "open"

\* The calls that wait for the promise of a socket, or for an answer.
Awaiting(s) == {c \in Calls : call[c] = "awaiting" /\ sock[c] = s}
Pending == {c \in Calls : call[c] = "pending"}
Settle(S, outcome) == call' = [c \in Calls |-> IF c \in S THEN outcome ELSE call[c]]

\* The task that fires an error fires the close event too: nothing but the
\* microtasks of the callers runs in between.
NoTask == \A s \in Socket : state[s] # "failing"

-----------------------------------------------------------------------------
(* connect *)

\* A socket that is made when there is neither an open one nor a promise.
NewSocket ==
    \E s \in Socket :
        /\ state[s] = "unused"
        /\ \A r \in Socket : state[r] = "unused" => s <= r
        /\ state' = [state EXCEPT ![s] = "connecting"]
        /\ promise' = s

\* connect() of subscribeToEvents and of the reconnect timer.
Connect ==
    IF IsOpen(ws) \/ promise # 0 THEN UNCHANGED <<state, promise>> ELSE NewSocket

Subscribe ==
    /\ NoTask
    /\ Connect
    /\ UNCHANGED <<ws, timer, call, sock, requests, replies>>

TimerFires ==
    /\ NoTask
    /\ timer
    /\ timer' = FALSE
    /\ Connect
    /\ UNCHANGED <<ws, call, sock, requests, replies>>

\* call(): sent at once if the socket is open, else when it is.
Call(c) ==
    /\ call[c] = "idle"
    /\ \/ /\ IsOpen(ws)
          /\ call' = [call EXCEPT ![c] = "pending"]
          /\ sock' = [sock EXCEPT ![c] = ws]
          /\ requests' = [requests EXCEPT ![ws] = Append(@, c)]
          /\ UNCHANGED <<state, promise>>
       \/ /\ ~IsOpen(ws)
          /\ Connect
          /\ call' = [call EXCEPT ![c] = "awaiting"]
          /\ sock' = [sock EXCEPT ![c] = promise']
          /\ UNCHANGED requests
    /\ UNCHANGED <<ws, timer, replies>>

-----------------------------------------------------------------------------
(* Events of a socket *)

\* onopen, and ensureConnected of those who waited, in whatever order.
Open(s) ==
    /\ NoTask
    /\ state[s] = "connecting"
    /\ state' = [state EXCEPT ![s] = "open"]
    /\ ws' = s
    /\ promise' = 0
    /\ Settle(Awaiting(s), "pending")
    /\ \E sent \in SetToSeqs(Awaiting(s)) : requests' = [requests EXCEPT ![s] = sent]
    /\ UNCHANGED <<timer, sock, replies>>

Error_NotRejected(s) ==  \* mutant: the promise is forgotten, not rejected
    /\ NoTask
    /\ state[s] = "connecting"
    /\ state' = [state EXCEPT ![s] = "failing"]
    /\ promise' = 0
    /\ UNCHANGED <<ws, timer, call, sock, requests, replies>>

\* onerror: the connection could not be made.
Error(s) ==
    /\ NoTask
    /\ state[s] = "connecting"
    /\ state' = [state EXCEPT ![s] = "failing"]
    /\ promise' = 0
    /\ Settle(Awaiting(s), "refused")
    /\ UNCHANGED <<ws, timer, sock, requests, replies>>

\* The other side has begun to close the connection.
Closing(s) ==
    /\ NoTask
    /\ state[s] = "open"
    /\ state' = [state EXCEPT ![s] = "closing"]
    /\ UNCHANGED <<ws, promise, timer, call, sock, requests, replies>>

Close_OnlyIfCurrent(s) ==  \* mutant: the close of another socket than ws is ignored
    /\ state[s] \in {"open", "closing", "failing"}
    /\ NoTask \/ state[s] = "failing"
    /\ state' = [state EXCEPT ![s] = "closed"]
    /\ requests' = [requests EXCEPT ![s] = <<>>]
    /\ replies' = [replies EXCEPT ![s] = <<>>]
    /\ IF s = ws
       THEN ws' = 0 /\ promise' = 0 /\ timer' = TRUE /\ Settle(Pending, "rejected")
       ELSE UNCHANGED <<ws, promise, timer, call>>
    /\ UNCHANGED sock

\* onclose, of any socket there ever was: ws and connectPromise are forgotten and
\* all pending requests rejected, whatever socket they belong to.
Close(s) ==
    /\ state[s] \in {"open", "closing", "failing"}
    /\ NoTask \/ state[s] = "failing"
    /\ state' = [state EXCEPT ![s] = "closed"]
    /\ requests' = [requests EXCEPT ![s] = <<>>]
    /\ replies' = [replies EXCEPT ![s] = <<>>]
    /\ ws' = 0
    /\ promise' = 0
    /\ timer' = TRUE
    /\ Settle(Pending, "rejected")
    /\ UNCHANGED sock

\* onmessage with an answer.  A socket that is closing delivers none, and an
\* answer to a request that is not pending any more is ignored.
Message(s) ==
    /\ NoTask
    /\ state[s] = "open"
    /\ replies[s] # <<>>
    /\ Settle({Head(replies[s])} \cap Pending, "resolved")
    /\ replies' = [replies EXCEPT ![s] = Tail(@)]
    /\ UNCHANGED <<state, ws, promise, timer, sock, requests>>

Timeout_Never(c) == FALSE /\ UNCHANGED <<vars, c>>  \* mutant: no timer is set

\* The 30 seconds of a call are over.
Timeout(c) ==
    /\ NoTask
    /\ c \in Pending
    /\ call' = [call EXCEPT ![c] = "timeout"]
    /\ UNCHANGED <<state, ws, promise, timer, sock, requests, replies>>

-----------------------------------------------------------------------------
(* The server: readLoop answers before it reads the next request *)

ReadLoop(s) ==
    /\ state[s] = "open"
    /\ requests[s] # <<>>
    /\ requests' = [requests EXCEPT ![s] = Tail(@)]
    /\ replies' = [replies EXCEPT ![s] = Append(@, Head(requests[s]))]
    /\ UNCHANGED <<state, ws, promise, timer, call, sock>>

Next ==
    \/ Subscribe \/ TimerFires
    \/ \E c \in Calls : Call(c) \/ Timeout(c)
    \/ \E s \in Socket :
        Open(s) \/ Error(s) \/ Closing(s) \/ Close(s) \/ Message(s) \/ ReadLoop(s)

\* A browser gives up connecting, finishes closing and fires its timers; nothing
\* makes the server answer.
Fairness ==
    /\ \A s \in Socket :
        /\ WF_vars(Open(s) \/ Error(s))
        /\ WF_vars(state[s] \in {"closing", "failing"} /\ Close(s))
    /\ \A c \in Calls : WF_vars(Timeout(c))

Spec == Init /\ [][Next]_vars /\ Fairness

-----------------------------------------------------------------------------
(* Properties *)

TypeOK ==
    /\ state \in [Socket -> Live \cup {"unused", "closed"}]
    /\ ws \in Socket \cup {0}
    /\ promise \in Socket \cup {0}
    /\ promise # 0 => state[promise] = "connecting"
    /\ timer \in BOOLEAN
    /\ call \in [Calls -> Over \cup {"idle", "awaiting", "pending"}]
    /\ sock \in [Calls -> Socket \cup {0}]
    /\ requests \in [Socket -> Seq(Calls)] /\ replies \in [Socket -> Seq(Calls)]

\* Once a connection was asked for there is always one that is open or under way,
\* or the timer that will ask for another, although the close of an old socket
\* forgets a new one (onclose does not compare sockets).
KeepsTrying ==
    (\E s \in Socket : state[s] # "unused") => timer \/ \E s \in Socket : state[s] \in Live

\* No call waits for a socket that is gone: who awaits a connection awaits one that
\* can still open or fail, and what is pending was sent on a socket whose close
\* has still to come and will reject it.
NobodyWaitsInVain ==
    \A c \in Calls :
        /\ call[c] = "awaiting" => state[sock[c]] = "connecting"
        /\ call[c] = "pending" => state[sock[c]] \in {"open", "closing"}

\* Every call ends, whatever the server and the network do.
CallEnds == \A c \in Calls : call[c] \in {"awaiting", "pending"} ~> call[c] \in Over

=============================================================================
