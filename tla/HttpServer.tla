----------------------------- MODULE HttpServer -----------------------------
(***************************************************************************)
(* wifi_server_task: a pool of tasks, each of which accepts a connection   *)
(* on port 80, reads one request from however many segments it comes in,   *)
(* serves it, and closes.                                                  *)
(*                                                                         *)
(* Bytes are counted, not kept: a request has so many of head and of body, *)
(* and of the body the server is told how long it is.  A step ends where   *)
(* the task waits: for a connection, for bytes, for a mutex that core0 may *)
(* hold, or for room to write the page.                                    *)
(***************************************************************************)
EXTENDS ApiCommands

CONSTANTS
    Tasks,      \* the pool
    Requests,   \* the requests clients may make
    NoRequest,  \* what a task without a client serves
    BufLen,     \* the length of the read buffer
    WordSize    \* one more than the largest usize

\* head and size: the bytes up to the end of the blank line, and after it.
\* line: those of the request line that tell the route.  text: the lengths at
\* which what has come by then is UTF-8.  declared: content_length, 0 without
\* one.  json: the length of the command at the start of the body, 0 if there
\* is none.
Request ==
    [route: {"page", "report", "profile", "cmd", "none"}, line: Nat \ {0}, text: SUBSET Nat,
     cmd: ApiCommand, head: Nat \ {0}, size: Nat, declared: Nat, json: Nat]

ASSUME HttpAssumption ==
    /\ Requests \subseteq Request
    /\ \A r \in Requests : r.line < r.head /\ r.declared < WordSize
    /\ NoRequest \notin Requests
    /\ BufLen \in Nat \ {0}
    /\ WordSize \in Nat /\ BufLen < WordSize

VARIABLES
    at,       \* where each task is suspended
    req,      \* the request its client makes
    got,      \* `n`: the bytes it has read
    answer,   \* the status of the answer written, if it was written whole
    accepted  \* history: the commands of this connection that the queue took

serverVars == <<at, req, got, answer, accepted>>
httpVars   == <<shared, serverVars>>

-----------------------------------------------------------------------------
(* read_request *)

\* Mutant of Want: the body is taken to have come with the head.
WantHead(r) == r.head

\* The bytes that make up the request: what comes after them is cut off.  The
\* sum is a usize, and the release build lets it wrap: it is then within the
\* head.
Want(r) == (r.head + r.declared) % WordSize

\* What is made of n bytes: an error, a complete request, or too few of them.
Verdict(r, n) ==
    CASE n < r.head /\ n = BufLen                                -> "413"
      [] n >= r.head /\ r.head \notin r.text                     -> "400"
      [] n >= r.head /\ r.head \in r.text /\ Want(r) > BufLen    -> "413"
      [] n >= r.head /\ r.head \in r.text /\ Want(r) <= BufLen
           /\ n >= Want(r)                                       -> "complete"
      [] OTHER                                                   -> "more"

\* A segment of k bytes comes in and is made something of.
Arrives(t, k, verdict) ==
    /\ at[t] = "read"
    /\ k \in 1 .. BufLen - got[t]
    /\ got[t] + k <= req[t].head + req[t].size
    /\ verdict = Verdict(req[t], got[t] + k)
    /\ got' = [got EXCEPT ![t] = @ + k]
    /\ UNCHANGED req

\* The answer, or what is left of it, is in the socket's buffer, and the
\* connection is to be closed.
Reply(t, status) ==
    /\ answer' = [answer EXCEPT ![t] = status]
    /\ at' = [at EXCEPT ![t] = "flush"]

Wait(t, where) ==
    /\ at' = [at EXCEPT ![t] = where]
    /\ UNCHANGED answer

ReadMore(t, k) ==
    /\ Arrives(t, k, "more")
    /\ UNCHANGED <<shared, at, answer, accepted>>

RefuseRequest(t, k) ==
    /\ \E status \in {"400", "413"} : Arrives(t, k, status) /\ Reply(t, status)
    /\ UNCHANGED <<shared, accepted>>

-----------------------------------------------------------------------------
(* handle_connection and serve *)

\* What a complete request asks for, as it was cut off: all of it has to be
\* text, and the request line has to be left.
Asks(r) ==
    CASE Want(r) \notin r.text                     -> "garbled"
      [] Want(r) \in r.text /\ Want(r) < r.line    -> "none"
      [] Want(r) \in r.text /\ Want(r) >= r.line   -> r.route

\* parse_command: the body, as it was cut off, is exactly a command.
Parses(r) == r.json > 0 /\ Want(r) = r.head + r.json

\* Forward the command and answer; no await in between.
CarryOut(t, cmd) ==
    /\ HandleCommand(cmd)
    /\ accepted' = [accepted EXCEPT ![t] = @ + Len(queue') - Len(queue)]
    /\ Reply(t, "200")

\* A complete request that can be answered without waiting.
ServeAtOnce(t, k) ==
    /\ Arrives(t, k, "complete")
    /\ \/ Asks(req[t]) = "none" /\ Reply(t, "404") /\ UNCHANGED <<shared, accepted>>
       \/ Asks(req[t]) = "garbled" /\ Reply(t, "400") /\ UNCHANGED <<shared, accepted>>
       \/ Asks(req[t]) = "cmd" /\ ~Parses(req[t])
            /\ Reply(t, "400") /\ UNCHANGED <<shared, accepted>>
       \/ Asks(req[t]) = "cmd" /\ Parses(req[t]) /\ req[t].cmd # "run_slot"
            /\ CarryOut(t, req[t].cmd)

\* One that reads a cache first, or whose answer is longer than the socket's
\* buffer.
ServeLater(t, k) ==
    /\ Arrives(t, k, "complete")
    /\ \/ Asks(req[t]) = "page" /\ Wait(t, "page")
       \/ Asks(req[t]) \in {"report", "profile"} /\ Wait(t, "cache")
       \/ Asks(req[t]) = "cmd" /\ Parses(req[t]) /\ req[t].cmd = "run_slot" /\ Wait(t, "cache")
    /\ UNCHANGED <<shared, accepted>>

\* Mutant of LookedUp: the task waits again, to write, after it has forwarded
\* the command.
LookedUpThenWrites(t) ==
    /\ at[t] = "cache"
    /\ req[t].route = "cmd"
    /\ HandleCommand("run_slot")
    /\ accepted' = [accepted EXCEPT ![t] = @ + Len(queue') - Len(queue)]
    /\ Wait(t, "page")
    /\ UNCHANGED <<req, got>>

\* The mutex is had: the slot is as it is by now.
LookedUp(t) ==
    /\ at[t] = "cache"
    /\ \/ req[t].route = "cmd" /\ CarryOut(t, "run_slot")
       \/ req[t].route # "cmd"
            /\ Reply(t, IF req[t].route = "profile" /\ ~slot THEN "404" ELSE "200")
            /\ UNCHANGED <<shared, accepted>>
    /\ UNCHANGED <<req, got>>

PageWritten(t) ==
    /\ at[t] = "page"
    /\ Reply(t, "200")
    /\ UNCHANGED <<shared, req, got, accepted>>

-----------------------------------------------------------------------------
(* wifi_server_task *)

Accept(t, r) ==
    /\ at[t] = "accept"
    /\ at' = [at EXCEPT ![t] = "read"]
    /\ req' = [req EXCEPT ![t] = r]
    /\ UNCHANGED <<shared, got, answer, accepted>>

\* Mutant of GiveUp: only a gap between segments is timed.
GiveUpReading(t) ==
    /\ at[t] = "read"
    /\ at' = [at EXCEPT ![t] = "drain"]
    /\ UNCHANGED <<shared, req, got, answer, accepted>>

\* The client closes or falls silent for 5 s, or the exchange has taken 10 s:
\* the future that serves it is dropped, and nobody is told.  Of the page a
\* part was written; else there is nothing to flush.
GiveUp(t) ==
    /\ \/ at[t] \in {"read", "cache"} /\ at' = [at EXCEPT ![t] = "drain"]
       \/ at[t] = "page" /\ at' = [at EXCEPT ![t] = "flush"]
    /\ UNCHANGED <<shared, req, got, answer, accepted>>

\* graceful_close: the client has taken what was written, or its connection is
\* gone.  Of the timeouts only the gap of 5 s is left, so one that keeps
\* acknowledging and never reads makes the task wait.
Flushed(t) ==
    /\ at[t] = "flush"
    /\ at' = [at EXCEPT ![t] = "drain"]
    /\ UNCHANGED <<shared, req, got, answer, accepted>>

\* The client's last bytes are read for 50 ms, and a new socket and buffer are
\* for the next one.
Close(t) ==
    /\ at[t] = "drain"
    /\ at' = [at EXCEPT ![t] = "accept"]
    /\ req' = [req EXCEPT ![t] = NoRequest]
    /\ got' = [got EXCEPT ![t] = 0]
    /\ answer' = [answer EXCEPT ![t] = "none"]
    /\ accepted' = [accepted EXCEPT ![t] = 0]
    /\ UNCHANGED shared

Serve(t) ==
    \/ \E r \in Requests : Accept(t, r)
    \/ \E k \in 1 .. BufLen :
           ReadMore(t, k) \/ RefuseRequest(t, k) \/ ServeAtOnce(t, k) \/ ServeLater(t, k)
    \/ LookedUp(t)
    \/ PageWritten(t)
    \/ GiveUp(t)
    \/ Flushed(t)
    \/ Close(t)

HttpInit ==
    /\ SharedInit
    /\ at = [t \in Tasks |-> "accept"]
    /\ req = [t \in Tasks |-> NoRequest]
    /\ got = [t \in Tasks |-> 0]
    /\ answer = [t \in Tasks |-> "none"]
    /\ accepted = [t \in Tasks |-> 0]

HttpNext == (\E t \in Tasks : Serve(t)) \/ (Firmware /\ UNCHANGED serverVars)

\* The timeouts expire, and the drain ends; a client need not send, or read,
\* anything.
HttpFairness == \A t \in Tasks : WF_httpVars(GiveUp(t)) /\ WF_httpVars(Close(t))

HttpSpec == HttpInit /\ [][HttpNext]_httpVars /\ HttpFairness

-----------------------------------------------------------------------------
(* Properties *)

HttpTypeOK ==
    /\ at \in [Tasks -> {"accept", "read", "cache", "page", "flush", "drain"}]
    /\ req \in [Tasks -> Requests \cup {NoRequest}]
    /\ got \in [Tasks -> 0 .. BufLen]
    /\ answer \in [Tasks -> {"none", "200", "400", "404", "413"}]
    /\ accepted \in [Tasks -> {0, 1}]
    /\ slot \in BOOLEAN
    /\ queue \in Seq(ApiCommand \cup {"button"}) /\ Len(queue) <= QueueDepth

\* What a request that is all there and text may be answered.
Expected(r) ==
    CASE r.route = "none"    -> {"404"}
      [] r.route = "profile" -> {"200", "404"}
      [] r.route = "cmd"     -> IF r.json > 0 /\ r.declared = r.json THEN {"200"} ELSE {"400"}
      [] OTHER               -> {"200"}

\* What a request may be answered, going by the request alone.  A length that
\* makes the sum wrap is not refused for its size, but a command with such a
\* length is refused.
Deserved(r) ==
    CASE r.head > BufLen                                   -> {"413"}
      [] r.head <= BufLen /\ r.head \notin r.text          -> {"400"}
      [] r.head <= BufLen /\ r.head \in r.text ->
           CASE r.head + r.declared <= BufLen ->
                  IF r.head + r.declared \in r.text THEN Expected(r) ELSE {"400"}
             [] r.head + r.declared > BufLen /\ r.head + r.declared < WordSize -> {"413"}
             [] r.head + r.declared >= WordSize ->
                  IF r.route = "cmd" THEN {"400", "404"} ELSE {"200", "400", "404"}

\* However a request is cut into segments, whatever the other tasks do and
\* whatever follows it on the connection, its answer depends on the request
\* alone (read_request: a missing body is not bad JSON, and bytes past the end
\* are not part of it; handle_connection: head and body have to be text).
AnswersDeserved == \A t \in Tasks : answer[t] # "none" => answer[t] \in Deserved(req[t])

\* A client to whom an error, or nothing, was written may repeat its request: no
\* command of it has reached the queue, and an answered one reached it at most
\* once (wifi_server_task drops handle_connection at whatever await).
ErrorsHaveNoEffect == \A t \in Tasks : accepted[t] = 0 \/ (accepted[t] = 1 /\ answer[t] = "200")

\* A client may fall silent, trickle its request or leave the page unread: each
\* task of the pool gets back to accepting, unless a client holds it for ever by
\* not taking what is left of its answer (wifi_server_task: "This bounds the
\* whole exchange"; graceful_close).
ServersReturn == \A t \in Tasks : []<>(at[t] = "accept") \/ <>[](at[t] = "flush")

\* HttpError: "so a command that never reached the coordinator is visible as an
\* error instead of being reported as success".
AnsweredMeansQueued ==
    \A t \in Tasks : answer[t] = "200" /\ req[t].route = "cmd" => accepted[t] = 1
=============================================================================
