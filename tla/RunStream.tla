---- MODULE RunStream ----
(***************************************************************************)
(* The event stream of an answer run (GET /runs/{id}/events) composed with *)
(* the queue that writes the events.  The endpoint polls: it reads the     *)
(* events after its cursor in one transaction and the status of the run in *)
(* another; the worker may commit between the two.                         *)
(***************************************************************************)
EXTENDS AnswerRuns

CONSTANT Client

VARIABLES
    stream,  \* "off", "reading" the events, "checking" the status, "ended" by the
             \* server, or "broken" by an exception (the run is gone)
    watched, \* the run the stream is about
    cursor,  \* how many events of the run the client has got
    idle,    \* the last read returned no event
    seen     \* the client has got a terminal event

client == <<stream, watched, cursor, idle, seen>>
svars == <<vars, client>>

\* Types, and a cursor (Last-Event-ID) never ahead of the events of its run.
StreamTypeOK ==
    /\ stream \in [Client -> {"off", "reading", "checking", "ended", "broken"}]
    /\ watched \in [Client -> Run \cup {NoRun}]
    /\ cursor \in [Client -> Nat]
    /\ \A u \in Client :
          watched[u] # NoRun /\ Exists(watched[u]) => cursor[u] <= Len(log[watched[u]])
    /\ idle \in [Client -> BOOLEAN]
    /\ seen \in [Client -> BOOLEAN]

StreamInit ==
    /\ Init
    /\ stream = [u \in Client |-> "off"]
    /\ watched = [u \in Client |-> NoRun]
    /\ cursor = [u \in Client |-> 0]
    /\ idle = [u \in Client |-> FALSE]
    /\ seen = [u \in Client |-> FALSE]

\* A client opens the stream of a run it was given by ask, from the start.
Open(u, r) ==
    /\ stream[u] = "off"
    /\ watched[u] = NoRun
    /\ run[r] # "absent"
    /\ stream' = [stream EXCEPT ![u] = "reading"]
    /\ watched' = [watched EXCEPT ![u] = r]
    /\ UNCHANGED <<vars, cursor, idle, seen>>

\* A client comes back with Last-Event-ID: after a lost connection, or, as an
\* EventSource does, after the server ended the stream.
Resume(u) ==
    /\ stream[u] \in {"off", "ended"}
    /\ watched[u] # NoRun
    /\ stream' = [stream EXCEPT ![u] = "reading"]
    /\ UNCHANGED <<vars, watched, cursor, idle, seen>>

\* The positions after the cursor whose event ends the stream.
Ends(u) ==
    {i \in (cursor[u] + 1)..Len(log[watched[u]]) : log[watched[u]][i] \in TerminalEvent}

\* The last event a read sends, mutated: the loop counts one too many.
Sent_OffByOne(u) == Len(log[watched[u]]) + 1

\* The last event a read sends: the first terminal one, or the last.
Sent(u) ==
    IF Ends(u) = {} THEN Len(log[watched[u]])
    ELSE CHOOSE i \in Ends(u) : \A j \in Ends(u) : i <= j

\* run_events: get_run raises when the run is gone; else the events after
\* the cursor are sent, up to the first terminal one, which ends the stream.
ReadEvents(u) ==
    LET r == watched[u] IN
    /\ stream[u] = "reading"
    /\ IF ~Exists(r)
       THEN /\ stream' = [stream EXCEPT ![u] = "broken"]
            /\ UNCHANGED <<cursor, idle, seen>>
       ELSE IF Ends(u) # {}
       THEN /\ stream' = [stream EXCEPT ![u] = "ended"]
            /\ cursor' = [cursor EXCEPT ![u] = Sent(u)]
            /\ seen' = [seen EXCEPT ![u] = TRUE]
            /\ UNCHANGED idle
       ELSE /\ stream' = [stream EXCEPT ![u] = "checking"]
            /\ cursor' = [cursor EXCEPT ![u] = Sent(u)]
            /\ idle' = [idle EXCEPT ![u] = cursor[u] = Len(log[r])]
            /\ UNCHANGED seen
    /\ UNCHANGED <<vars, watched>>

\* The status test of the loop, mutated: a run that is not running is over.
Over_NotRunning(r) == run[r] # "running"

\* The status test of the loop, mutated: left out, as in the job stream.
Over_Never(r) == FALSE

\* run["status"] in {"completed", "failed"}
Over(r) == run[r] \in Terminal

\* The stream closes when the run is over and the read before found nothing.
CheckStatus(u) ==
    LET r == watched[u] IN
    /\ stream[u] = "checking"
    /\ stream' = [stream EXCEPT ![u] =
                     IF ~Exists(r) THEN "broken"
                     ELSE IF Over(r) /\ idle[u] THEN "ended" ELSE "reading"]
    /\ UNCHANGED <<vars, watched, cursor, idle, seen>>

\* The connection is lost; request.is_disconnected ends the loop.
Disconnect(u) ==
    /\ stream[u] \in {"reading", "checking"}
    /\ stream' = [stream EXCEPT ![u] = "off"]
    /\ UNCHANGED <<vars, watched, cursor, idle, seen>>

StreamNext ==
    \/ Next /\ UNCHANGED client
    \/ \E u \in Client :
          \/ \E r \in Run : Open(u, r)
          \/ Resume(u)
          \/ ReadEvents(u)
          \/ CheckStatus(u)
          \/ Disconnect(u)

StreamSpec == StreamInit /\ [][StreamNext]_svars

\* The polling loop of the endpoint keeps running.
StreamFairness ==
    /\ Fairness
    /\ \A u \in Client : WF_svars(ReadEvents(u)) /\ WF_svars(CheckStatus(u))

FairStreamSpec == StreamSpec /\ StreamFairness

-----------------------------------------------------------------------------
\* When the server ends a stream, the outcome of the run is already in the
\* database: the page that reloads the conversation next (ChatPage.tsx
\* submit) shows an answer or a failure, never "Preparing answer".
EndedStreamHasOutcome ==
    \A u \in Client : stream[u] = "ended" /\ Exists(watched[u]) =>
        /\ run[watched[u]] \in Terminal
        /\ message[watched[u]] \in {"completed", "failed"}

\* A stream is not polled for ever: it ends, breaks or is dropped, unless the
\* run is stranded.
StreamsClose ==
    \A u \in Client :
        stream[u] = "reading" ~>
            \/ stream[u] \in {"off", "ended", "broken"}
            \/ \E r \in Run : r = watched[u] /\ Stranded(r)

\* "SSE completed" (02-system-architecture.md:114): a stream that the server
\* ends has sent the terminal event of its run.
TerminalEventDelivered ==
    \A u \in Client : stream[u] = "ended" => seen[u]

====
