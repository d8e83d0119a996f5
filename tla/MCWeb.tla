------------------------------- MODULE MCWeb -------------------------------
(***************************************************************************)
(* Instances of Network with either two HTTP clients at a time, or one of  *)
(* them and a client of the diagnostic link.                               *)
(***************************************************************************)
EXTENDS Network

VARIABLE ports  \* the tasks that have clients in this behaviour

webVars == <<netVars, ports>>

\* A GET, and a POST of a command, of text only.
Get(route, head) ==
    [route |-> route, line |-> 1, text |-> 0 .. 9, cmd |-> "bare",
     head |-> head, size |-> 0, declared |-> 0, json |-> 0]

Post(cmd, size, declared, json) ==
    [route |-> "cmd", line |-> 1, text |-> 0 .. 9, cmd |-> cmd,
     head |-> 2, size |-> size, declared |-> declared, json |-> json]

\* The lengths 6 and 7 make the sum wrap, and leave one byte of the head or none.
WithBody(r, size, declared) == [r EXCEPT !.size = size, !.declared = declared]

\* Whole and well-formed; pipelined into the next; declared too long or too
\* short, too large, not a command; head, body or what is left of the head not
\* text; a head that fills the buffer, and one that does not fit; a declared
\* length that wraps.
MCRequests ==
    {Get("page", 2), Get("report", 4), Get("profile", 2), Get("none", 3), Get("none", 5),
     Post("plain", 2, 2, 2), Post("run_slot", 3, 2, 2), Post("bare", 1, 1, 1),
     Post("plain", 2, 1, 2), Post("plain", 1, 2, 1), Post("plain", 1, 0, 1),
     Post("plain", 1, 1, 0), Post("plain", 3, 3, 3), Post("plain", 1, 7, 1),
     [Post("plain", 1, 1, 1) EXCEPT !.text = 0 .. 1],
     [WithBody(Get("none", 2), 1, 1) EXCEPT !.text = 0 .. 2],
     WithBody(Get("profile", 3), 0, 6), WithBody(Get("page", 2), 0, 6),
     [WithBody(Get("report", 3), 0, 6) EXCEPT !.text = {0, 2, 3}]}

\* One command, whole and well-formed.
GoodPosts == {Post("plain", 2, 2, 2)}

\* Two commands of which one is a prefix of the other, and a line that is too
\* long.
MCTexts   == [c \in {"plain", "run_slot"} |-> IF c = "plain" THEN <<"a">> ELSE <<"a", "b">>]
MCStreams == {<<"a", "nl", "a", "nul", "b", "nl">>, <<"a", "b", "b", "nl", "a", "nl">>, <<"b", "nl", "nl", "a">>}

\* Beside a client of the link, HTTP clients send commands only, which is all
\* that it can notice of them.
BesideLink == {NoRequest} \cup {r \in Requests : r.route = "cmd"}

MCInit ==
    /\ NetInit
    /\ ports \in {Tasks, {CHOOSE t \in Tasks : TRUE, "diag"}}

\* Without a client of the link no record is published.
MCNext ==
    /\ \/ \E t \in Tasks \cap ports : HttpTurn(t)
       \/ "diag" \in ports /\ (LinkTurn \/ Meanwhile)
       \/ Firmware /\ UNCHANGED <<serverVars, linkVars>>
    /\ "diag" \in ports => \A t \in Tasks : req'[t] \in BesideLink
    /\ UNCHANGED ports

WebSpec == MCInit /\ [][MCNext]_webVars /\ NetFairness
=============================================================================
