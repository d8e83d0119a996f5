----------------------------- MODULE WebProofs -----------------------------
(***************************************************************************)
(* Proofs about HttpServer, for every pool, set of requests, buffer and    *)
(* queue, about the frames of DiagLink, for any number of records, and     *)
(* about the lines it puts together, for any texts, streams and buffers;   *)
(* and that all of it holds of the tasks of Network together.              *)
(***************************************************************************)
EXTENDS Network, FiniteSetTheorems, TLAPS

\* A request that read_request returns.
Whole(r) == r.head <= BufLen /\ r.head \in r.text /\ Want(r) <= BufLen

\* What makes the two properties inductive: while a task serves, nothing has
\* been said or done, and what it waits for tells what it has found out.
Progress(t) ==
    /\ at[t] = "accept" => answer[t] = "none"
    /\ at[t] # "accept" => req[t] \in Requests
    /\ at[t] \notin {"flush", "drain"} => answer[t] = "none" /\ accepted[t] = 0
    /\ at[t] \in {"cache", "page"} => Whole(req[t]) /\ Asks(req[t]) = req[t].route
    /\ at[t] = "cache" => \/ req[t].route \in {"report", "profile"}
                          \/ req[t].route = "cmd" /\ Parses(req[t])
    /\ at[t] = "page" => req[t].route = "page"

HttpInv ==
    /\ HttpTypeOK
    /\ \A t \in Tasks : Progress(t)
    /\ AnswersDeserved
    /\ ErrorsHaveNoEffect

-----------------------------------------------------------------------------
(* Lemmas about requests *)

LEMMA RequestFields ==
    ASSUME NEW r \in Requests
    PROVE  /\ r.route \in {"page", "report", "profile", "cmd", "none"}
           /\ r.line \in Nat /\ r.line < r.head
           /\ r.head \in Nat \ {0}
           /\ r.declared \in Nat /\ r.declared < WordSize
           /\ r.json \in Nat
           /\ BufLen \in Nat \ {0} /\ WordSize \in Nat /\ BufLen < WordSize
<1>1. r \in Request
  BY HttpAssumption
<1>. QED BY <1>1, HttpAssumption DEF Request

\* A sum of two words wraps once at most.
LEMMA WrapsOnce ==
    ASSUME NEW w \in Nat \ {0}, NEW a \in 0 .. w - 1, NEW b \in 0 .. w - 1
    PROVE  (a + b) % w = IF a + b < w THEN a + b ELSE a + b - w
<1>1. CASE a + b < w
  BY <1>1
<1>2. CASE ~(a + b < w)
  <2>1. a + b - w \in 0 .. w - 1 BY <1>2
  <2>. QED BY <1>2, <2>1
<1>. QED BY <1>1, <1>2

\* What fits the buffer ends where it says; what wraps, within its head.
LEMMA WhereItEnds ==
    ASSUME NEW r \in Requests, r.head <= BufLen
    PROVE  /\ Want(r) \in Nat
           /\ r.head + r.declared < WordSize => Want(r) = r.head + r.declared
           /\ r.head + r.declared >= WordSize => Want(r) < r.head
<1>1. /\ WordSize \in Nat \ {0} /\ r.head \in 0 .. WordSize - 1 /\ r.declared \in 0 .. WordSize - 1
  BY RequestFields
<1>2. Want(r) = IF r.head + r.declared < WordSize THEN r.head + r.declared
                ELSE r.head + r.declared - WordSize
  BY <1>1, WrapsOnce DEF Want
<1>. QED BY <1>1, <1>2

\* An error found while reading is one the request deserves.
LEMMA RefusalDeserved ==
    ASSUME NEW r \in Requests, NEW n \in 0 .. BufLen, NEW status \in {"400", "413"},
           status = Verdict(r, n)
    PROVE  status \in Deserved(r)
<1>0. /\ r.head \in Nat /\ r.declared \in Nat /\ BufLen \in Nat /\ WordSize \in Nat
      /\ BufLen < WordSize /\ n \in Nat /\ n <= BufLen
  BY RequestFields
<1>1. CASE n < r.head /\ n = BufLen
  <2>1. r.head > BufLen /\ ~(r.head <= BufLen) /\ ~(n >= r.head) BY <1>0, <1>1
  <2>2. Verdict(r, n) = "413" BY <1>1, <2>1 DEF Verdict
  <2>. QED BY <2>1, <2>2 DEF Deserved
<1>2. CASE n >= r.head /\ r.head \notin r.text
  <2>1. ~(r.head > BufLen) /\ r.head <= BufLen /\ ~(n < r.head) BY <1>0, <1>2
  <2>2. Verdict(r, n) = "400" BY <1>2, <2>1 DEF Verdict
  <2>. QED BY <1>2, <2>1, <2>2 DEF Deserved
<1>3. CASE n >= r.head /\ r.head \in r.text /\ Want(r) > BufLen
  <2>1. ~(r.head > BufLen) /\ r.head <= BufLen /\ ~(n < r.head) BY <1>0, <1>3
  <2>2. Verdict(r, n) = "413" BY <1>3, <2>1 DEF Verdict
  <2>3. /\ ~(r.head + r.declared <= BufLen) /\ r.head + r.declared > BufLen
        /\ r.head + r.declared < WordSize /\ ~(r.head + r.declared >= WordSize)
    BY <1>0, <1>3, <2>1, WhereItEnds
  <2>4. Deserved(r) = {"413"} BY <1>3, <2>1, <2>3, SMTT(30) DEF Deserved
  <2>. QED BY <2>2, <2>4
<1>4. CASE /\ ~(n < r.head /\ n = BufLen)
           /\ ~(n >= r.head /\ r.head \notin r.text)
           /\ ~(n >= r.head /\ r.head \in r.text /\ Want(r) > BufLen)
  BY <1>4 DEF Verdict
<1>. QED BY <1>1, <1>2, <1>3, <1>4

\* A request that is read to its end is whole.
LEMMA CompleteIsWhole ==
    ASSUME NEW r \in Requests, NEW n \in 0 .. BufLen, Verdict(r, n) = "complete"
    PROVE  Whole(r)
<1>1. n >= r.head /\ r.head \in r.text /\ Want(r) <= BufLen
  BY DEF Verdict
<1>2. r.head <= BufLen
  BY <1>1, RequestFields
<1>. QED BY <1>1, <1>2 DEF Whole

\* What a whole request deserves is what serve makes of what is left of it.
LEMMA WholeDeserves ==
    ASSUME NEW r \in Requests, Whole(r)
    PROVE  /\ Asks(r) = "none" => "404" \in Deserved(r)
           /\ Asks(r) = "garbled" => "400" \in Deserved(r)
           /\ Asks(r) = "cmd" /\ ~Parses(r) => "400" \in Deserved(r)
           /\ Asks(r) = "cmd" /\ Parses(r) => "200" \in Deserved(r)
           /\ Asks(r) = "profile" => "200" \in Deserved(r) /\ "404" \in Deserved(r)
           /\ Asks(r) \in {"page", "report"} => "200" \in Deserved(r)
           /\ Asks(r) \notin {"none", "garbled"} => Asks(r) = r.route
<1>0. /\ r.route \in {"page", "report", "profile", "cmd", "none"}
      /\ r.head \in Nat /\ r.declared \in Nat /\ r.json \in Nat /\ r.line \in Nat
      /\ r.line < r.head /\ BufLen \in Nat /\ WordSize \in Nat /\ Want(r) \in Nat
      /\ BufLen < WordSize
  BY RequestFields, WhereItEnds DEF Whole
<1>1. r.head <= BufLen /\ ~(r.head > BufLen) /\ r.head \in r.text /\ Want(r) <= BufLen
  BY <1>0 DEF Whole
<1>2. /\ Want(r) \notin r.text => Asks(r) = "garbled"
      /\ Want(r) \in r.text /\ Want(r) < r.line => Asks(r) = "none"
      /\ Want(r) \in r.text /\ Want(r) >= r.line => Asks(r) = r.route
      /\ Want(r) < r.line \/ Want(r) >= r.line
  BY <1>0 DEF Asks
<1>3. CASE r.head + r.declared < WordSize
  <2>1. Want(r) = r.head + r.declared BY <1>1, <1>3, WhereItEnds
  <2>2. /\ r.head + r.declared <= BufLen /\ ~(Want(r) < r.line)
        /\ ~(r.head + r.declared > BufLen) /\ ~(r.head + r.declared >= WordSize)
    BY <1>0, <1>1, <1>3, <2>1
  <2>3. Deserved(r) = IF Want(r) \in r.text THEN Expected(r) ELSE {"400"}
    BY <1>1, <2>1, <2>2 DEF Deserved
  <2>4. Parses(r) <=> r.json > 0 /\ r.declared = r.json
    BY <1>0, <2>1 DEF Parses
  <2>5. CASE Want(r) \notin r.text BY <1>0, <1>2, <2>3, <2>5
  <2>6. CASE Want(r) \in r.text
    <3>1. Asks(r) = r.route /\ Deserved(r) = Expected(r) BY <1>2, <2>2, <2>3, <2>6
    <3>. QED BY <1>0, <2>4, <3>1 DEF Expected
  <2>. QED BY <2>5, <2>6
<1>4. CASE r.head + r.declared >= WordSize
  <2>1. Want(r) < r.head BY <1>1, <1>4, WhereItEnds
  <2>2. ~Parses(r) BY <1>0, <2>1 DEF Parses
  <2>3. ~(r.head + r.declared <= BufLen) /\ ~(r.head + r.declared < WordSize)
    BY <1>0, <1>4
  <2>4. Deserved(r) = IF r.route = "cmd" THEN {"400", "404"} ELSE {"200", "400", "404"}
    BY <1>1, <1>4, <2>3 DEF Deserved
  <2>. QED BY <1>0, <1>2, <2>2, <2>4
<1>. QED BY <1>0, <1>3, <1>4

\* The queue keeps its type and depth, and takes at most one command at a time.
LEMMA SendingFits ==
    ASSUME queue \in Seq(ApiCommand \cup {"button"}), Len(queue) <= QueueDepth,
           NEW cmd \in ApiCommand \cup {"button"}
    PROVE  /\ Sent(queue, cmd) \in Seq(ApiCommand \cup {"button"})
           /\ Len(Sent(queue, cmd)) <= QueueDepth
           /\ Len(Sent(queue, cmd)) - Len(queue) \in {0, 1}
<1>1. CASE Len(queue) < QueueDepth
  <2>1. Sent(queue, cmd) = Append(queue, cmd) /\ Len(Append(queue, cmd)) = Len(queue) + 1
    BY <1>1 DEF Sent
  <2>2. Append(queue, cmd) \in Seq(ApiCommand \cup {"button"})
    OBVIOUS
  <2>. QED BY <1>1, <2>1, <2>2, QueueAssumption
<1>2. CASE ~(Len(queue) < QueueDepth)
  BY <1>2 DEF Sent
<1>. QED BY <1>1, <1>2

-----------------------------------------------------------------------------
(* The invariant *)

LEMMA InitInv == HttpInit => HttpInv
BY QueueAssumption, HttpAssumption
   DEF HttpInit, SharedInit, HttpInv, HttpTypeOK, Progress, AnswersDeserved, ErrorsHaveNoEffect

\* A step of one task need only be looked at there.
LEMMA OneTask ==
    ASSUME HttpInv, NEW t \in Tasks, HttpTypeOK',
           \A u \in Tasks \ {t} : /\ at'[u] = at[u] /\ req'[u] = req[u]
                                  /\ answer'[u] = answer[u] /\ accepted'[u] = accepted[u],
           Progress(t)',
           answer'[t] # "none" => answer'[t] \in Deserved(req'[t]),
           accepted'[t] = 0 \/ (accepted'[t] = 1 /\ answer'[t] = "200")
    PROVE  HttpInv'
<1>1. \A u \in Tasks : Progress(u)'
  <2>1. ASSUME NEW u \in Tasks \ {t} PROVE Progress(u)'
    BY <2>1 DEF HttpInv, Progress
  <2>. QED BY <2>1
<1>2. AnswersDeserved'
  BY DEF HttpInv, AnswersDeserved
<1>3. ErrorsHaveNoEffect'
  BY DEF HttpInv, ErrorsHaveNoEffect
<1>. QED BY <1>1, <1>2, <1>3 DEF HttpInv

\* A segment that comes in leaves the count within the buffer.
LEMMA ArrivesTyped ==
    ASSUME HttpInv, NEW t \in Tasks, NEW k \in 1 .. BufLen, NEW v, Arrives(t, k, v)
    PROVE  /\ got' \in [Tasks -> 0 .. BufLen]
           /\ at[t] = "read" /\ answer[t] = "none" /\ accepted[t] = 0
           /\ req[t] \in Requests /\ req' = req
           /\ \E n \in 0 .. BufLen : v = Verdict(req[t], n)
<1>0. BufLen \in Nat \ {0} BY HttpAssumption
<1>1. got[t] \in 0 .. BufLen /\ got \in [Tasks -> 0 .. BufLen] BY DEF HttpInv, HttpTypeOK
<1>2. k \in 1 .. BufLen - got[t] BY DEF Arrives
<1>3. got[t] + k \in 0 .. BufLen BY <1>0, <1>1, <1>2
<1>4. at[t] = "read" /\ req' = req /\ v = Verdict(req[t], got[t] + k)
      /\ got' = [got EXCEPT ![t] = got[t] + k]
  BY DEF Arrives
<1>5. answer[t] = "none" /\ accepted[t] = 0 /\ req[t] \in Requests
  BY <1>4 DEF HttpInv, Progress
<1>. QED BY <1>1, <1>3, <1>4, <1>5

\* To forward a command and answer 200 keeps the types and takes effect once.
LEMMA CarryOutTyped ==
    ASSUME HttpInv, NEW t \in Tasks, NEW cmd \in ApiCommand, CarryOut(t, cmd),
           answer[t] = "none", accepted[t] = 0
    PROVE  /\ queue' \in Seq(ApiCommand \cup {"button"}) /\ Len(queue') <= QueueDepth
           /\ slot' = slot
           /\ accepted' \in [Tasks -> {0, 1}]
           /\ answer' = [answer EXCEPT ![t] = "200"]
           /\ at' = [at EXCEPT ![t] = "flush"]
           /\ \A u \in Tasks \ {t} : accepted'[u] = accepted[u]
<1>1. queue \in Seq(ApiCommand \cup {"button"}) /\ Len(queue) <= QueueDepth
      /\ accepted \in [Tasks -> {0, 1}]
  BY DEF HttpInv, HttpTypeOK
<1>2. /\ Sent(queue, cmd) \in Seq(ApiCommand \cup {"button"})
      /\ Len(Sent(queue, cmd)) <= QueueDepth
      /\ Len(Sent(queue, cmd)) - Len(queue) \in {0, 1}
  BY <1>1, SendingFits
<1>3. queue' \in {queue, Sent(queue, cmd)} /\ slot' = slot
  BY DEF CarryOut, HandleCommand
<1>4. Len(queue') - Len(queue) \in {0, 1} /\ Len(queue) \in Nat /\ Len(queue') \in Nat
  BY <1>1, <1>2, <1>3
<1>5. accepted' = [accepted EXCEPT ![t] = accepted[t] + Len(queue') - Len(queue)]
  BY DEF CarryOut
<1>6. accepted[t] + Len(queue') - Len(queue) \in {0, 1}
  BY <1>4
<1>7. accepted' \in [Tasks -> {0, 1}] /\ \A u \in Tasks \ {t} : accepted'[u] = accepted[u]
  BY <1>1, <1>5, <1>6
<1>. QED BY <1>1, <1>2, <1>3, <1>7 DEF CarryOut, Reply

-----------------------------------------------------------------------------
(* Each action keeps the invariant *)

LEMMA AcceptInv ==
    ASSUME HttpInv, NEW t \in Tasks, NEW r \in Requests, Accept(t, r)
    PROVE  HttpInv'
<1>1. HttpTypeOK' BY DEF HttpInv, HttpTypeOK, Accept, shared
<1>2. Progress(t)' BY DEF HttpInv, HttpTypeOK, Progress, Accept
<1>3. answer'[t] = "none" /\ accepted'[t] = 0 BY DEF HttpInv, Progress, Accept
<1>4. \A u \in Tasks \ {t} : /\ at'[u] = at[u] /\ req'[u] = req[u]
                              /\ answer'[u] = answer[u] /\ accepted'[u] = accepted[u]
  BY DEF HttpInv, HttpTypeOK, Accept
<1>. QED BY <1>1, <1>2, <1>3, <1>4, OneTask

LEMMA ReadMoreInv ==
    ASSUME HttpInv, NEW t \in Tasks, NEW k \in 1 .. BufLen, ReadMore(t, k)
    PROVE  HttpInv'
<1>0. Arrives(t, k, "more") BY DEF ReadMore
<1>1. HttpTypeOK' BY <1>0, ArrivesTyped DEF HttpInv, HttpTypeOK, ReadMore, shared
<1>2. UNCHANGED <<at, req, answer, accepted>> BY <1>0, ArrivesTyped DEF ReadMore
<1>. QED BY <1>1, <1>2 DEF HttpInv, Progress, AnswersDeserved, ErrorsHaveNoEffect

LEMMA RefuseRequestInv ==
    ASSUME HttpInv, NEW t \in Tasks, NEW k \in 1 .. BufLen, RefuseRequest(t, k)
    PROVE  HttpInv'
<1>1. PICK status \in {"400", "413"} : Arrives(t, k, status) /\ Reply(t, status)
  BY DEF RefuseRequest
<1>2. /\ got' \in [Tasks -> 0 .. BufLen]
      /\ at[t] = "read" /\ answer[t] = "none" /\ accepted[t] = 0
      /\ req[t] \in Requests /\ req' = req
  BY <1>1, ArrivesTyped
<1>3. PICK n \in 0 .. BufLen : status = Verdict(req[t], n)
  BY <1>1, ArrivesTyped
<1>4. status \in Deserved(req[t]) BY <1>2, <1>3, RefusalDeserved
<1>5. HttpTypeOK' BY <1>1, <1>2 DEF HttpInv, HttpTypeOK, RefuseRequest, Reply, shared
<1>6. at'[t] = "flush" /\ answer'[t] = status /\ accepted'[t] = 0 /\ req'[t] = req[t]
  BY <1>1, <1>2 DEF HttpInv, HttpTypeOK, RefuseRequest, Reply
<1>7. Progress(t)' BY <1>2, <1>6 DEF Progress
<1>8. \A u \in Tasks \ {t} : /\ at'[u] = at[u] /\ req'[u] = req[u]
                              /\ answer'[u] = answer[u] /\ accepted'[u] = accepted[u]
  BY <1>1, <1>2 DEF HttpInv, HttpTypeOK, RefuseRequest, Reply
<1>. QED BY <1>4, <1>5, <1>6, <1>7, <1>8, OneTask

\* An answer that goes with no command.
LEMMA ReplyInv ==
    ASSUME HttpInv, NEW t \in Tasks, NEW status \in {"200", "400", "404"}, Reply(t, status),
           accepted[t] = 0, req[t] \in Requests, status \in Deserved(req[t]),
           UNCHANGED <<req, shared, accepted>>, got' \in [Tasks -> 0 .. BufLen]
    PROVE  HttpInv'
<1>1. HttpTypeOK' BY DEF HttpInv, HttpTypeOK, Reply, shared
<1>2. at'[t] = "flush" /\ answer'[t] = status /\ accepted'[t] = 0 /\ req'[t] = req[t]
  BY DEF HttpInv, HttpTypeOK, Reply
<1>3. Progress(t)' BY <1>2 DEF Progress
<1>4. \A u \in Tasks \ {t} : /\ at'[u] = at[u] /\ req'[u] = req[u]
                              /\ answer'[u] = answer[u] /\ accepted'[u] = accepted[u]
  BY DEF HttpInv, HttpTypeOK, Reply
<1>. QED BY <1>1, <1>2, <1>3, <1>4, OneTask

\* A command is forwarded, and answered.
LEMMA CarryOutInv ==
    ASSUME HttpInv, NEW t \in Tasks, NEW cmd \in ApiCommand, CarryOut(t, cmd),
           answer[t] = "none", accepted[t] = 0, req[t] \in Requests,
           "200" \in Deserved(req[t]), UNCHANGED req, got' \in [Tasks -> 0 .. BufLen]
    PROVE  HttpInv'
<1>1. /\ queue' \in Seq(ApiCommand \cup {"button"}) /\ Len(queue') <= QueueDepth
      /\ slot' = slot
      /\ accepted' \in [Tasks -> {0, 1}]
      /\ answer' = [answer EXCEPT ![t] = "200"]
      /\ at' = [at EXCEPT ![t] = "flush"]
      /\ \A u \in Tasks \ {t} : accepted'[u] = accepted[u]
  BY CarryOutTyped
<1>2. HttpTypeOK' BY <1>1 DEF HttpInv, HttpTypeOK
<1>3. at'[t] = "flush" /\ answer'[t] = "200" /\ accepted'[t] \in {0, 1} /\ req'[t] = req[t]
  BY <1>1 DEF HttpInv, HttpTypeOK
<1>4. Progress(t)' BY <1>3 DEF Progress
<1>5. \A u \in Tasks \ {t} : /\ at'[u] = at[u] /\ req'[u] = req[u]
                              /\ answer'[u] = answer[u] /\ accepted'[u] = accepted[u]
  BY <1>1 DEF HttpInv, HttpTypeOK
<1>. QED BY <1>2, <1>3, <1>4, <1>5, OneTask

LEMMA ServeAtOnceInv ==
    ASSUME HttpInv, NEW t \in Tasks, NEW k \in 1 .. BufLen, ServeAtOnce(t, k)
    PROVE  HttpInv'
<1>0. Arrives(t, k, "complete") BY DEF ServeAtOnce
<1>1. /\ got' \in [Tasks -> 0 .. BufLen]
      /\ at[t] = "read" /\ answer[t] = "none" /\ accepted[t] = 0
      /\ req[t] \in Requests /\ req' = req
  BY <1>0, ArrivesTyped
<1>2. Whole(req[t]) BY <1>0, <1>1, ArrivesTyped, CompleteIsWhole
<1>3. /\ Asks(req[t]) = "none" => "404" \in Deserved(req[t])
      /\ Asks(req[t]) = "garbled" => "400" \in Deserved(req[t])
      /\ Asks(req[t]) = "cmd" /\ ~Parses(req[t]) => "400" \in Deserved(req[t])
      /\ Asks(req[t]) = "cmd" /\ Parses(req[t]) => "200" \in Deserved(req[t])
  BY <1>1, <1>2, WholeDeserves
<1>4. CASE Asks(req[t]) = "none" /\ Reply(t, "404") /\ UNCHANGED <<shared, accepted>>
  BY <1>1, <1>3, <1>4, ReplyInv
<1>5. CASE Asks(req[t]) = "garbled" /\ Reply(t, "400") /\ UNCHANGED <<shared, accepted>>
  BY <1>1, <1>3, <1>5, ReplyInv
<1>6. CASE /\ Asks(req[t]) = "cmd" /\ ~Parses(req[t])
           /\ Reply(t, "400") /\ UNCHANGED <<shared, accepted>>
  BY <1>1, <1>3, <1>6, ReplyInv
<1>7. CASE /\ Asks(req[t]) = "cmd" /\ Parses(req[t]) /\ req[t].cmd # "run_slot"
           /\ CarryOut(t, req[t].cmd)
  <2>1. req[t].cmd \in ApiCommand BY <1>1, HttpAssumption DEF Request
  <2>. QED BY <1>1, <1>3, <1>7, <2>1, CarryOutInv
<1>. QED BY <1>4, <1>5, <1>6, <1>7 DEF ServeAtOnce

LEMMA ServeLaterInv ==
    ASSUME HttpInv, NEW t \in Tasks, NEW k \in 1 .. BufLen, ServeLater(t, k)
    PROVE  HttpInv'
<1>0. Arrives(t, k, "complete") BY DEF ServeLater
<1>1. /\ got' \in [Tasks -> 0 .. BufLen]
      /\ at[t] = "read" /\ answer[t] = "none" /\ accepted[t] = 0
      /\ req[t] \in Requests /\ req' = req
  BY <1>0, ArrivesTyped
<1>2. Whole(req[t]) BY <1>0, <1>1, ArrivesTyped, CompleteIsWhole
<1>3. PICK where \in {"page", "cache"} :
          /\ Wait(t, where)
          /\ where = "page" => Asks(req[t]) = "page"
          /\ where = "cache" => \/ Asks(req[t]) \in {"report", "profile"}
                                \/ Asks(req[t]) = "cmd" /\ Parses(req[t])
          /\ Asks(req[t]) \notin {"none", "garbled"}
  BY DEF ServeLater
<1>4. UNCHANGED <<answer, accepted, queue, slot>> BY <1>3 DEF ServeLater, Wait, shared
<1>5. HttpTypeOK' BY <1>1, <1>3, <1>4 DEF HttpInv, HttpTypeOK, Wait
<1>6. at'[t] = where BY <1>3 DEF HttpInv, HttpTypeOK, Wait
<1>7. Progress(t)'
  <2>1. Asks(req[t]) = req[t].route BY <1>1, <1>2, <1>3, WholeDeserves
  <2>. QED BY <1>1, <1>2, <1>3, <1>4, <1>6, <2>1 DEF Progress, Whole, Asks, Parses, Want
<1>8. \A u \in Tasks \ {t} : /\ at'[u] = at[u] /\ req'[u] = req[u]
                              /\ answer'[u] = answer[u] /\ accepted'[u] = accepted[u]
  BY <1>1, <1>3, <1>4 DEF HttpInv, HttpTypeOK, Wait
<1>9. answer'[t] = "none" /\ accepted'[t] = 0 BY <1>1, <1>4
<1>. QED BY <1>5, <1>7, <1>8, <1>9, OneTask

LEMMA LookedUpInv ==
    ASSUME HttpInv, NEW t \in Tasks, LookedUp(t)
    PROVE  HttpInv'
<1>1. /\ at[t] = "cache" /\ answer[t] = "none" /\ accepted[t] = 0 /\ req[t] \in Requests
      /\ Whole(req[t]) /\ Asks(req[t]) = req[t].route
      /\ req[t].route \in {"report", "profile"} \/ (req[t].route = "cmd" /\ Parses(req[t]))
      /\ UNCHANGED <<req, got>> /\ got' \in [Tasks -> 0 .. BufLen]
  BY DEF HttpInv, HttpTypeOK, Progress, LookedUp
<1>2. /\ req[t].route = "profile" => "200" \in Deserved(req[t]) /\ "404" \in Deserved(req[t])
      /\ req[t].route = "cmd" => "200" \in Deserved(req[t])
      /\ req[t].route = "report" => "200" \in Deserved(req[t])
  BY <1>1, WholeDeserves
<1>3. CASE req[t].route = "cmd" /\ CarryOut(t, "run_slot")
  BY <1>1, <1>2, <1>3, CarryOutInv DEF ApiCommand
<1>4. CASE /\ req[t].route # "cmd"
           /\ Reply(t, IF req[t].route = "profile" /\ ~slot THEN "404" ELSE "200")
           /\ UNCHANGED <<shared, accepted>>
  <2>1. PICK status \in {"200", "404"} : Reply(t, status) /\ status \in Deserved(req[t])
    BY <1>1, <1>2, <1>4
  <2>. QED BY <1>1, <1>4, <2>1, ReplyInv
<1>. QED BY <1>3, <1>4 DEF LookedUp

LEMMA PageWrittenInv ==
    ASSUME HttpInv, NEW t \in Tasks, PageWritten(t)
    PROVE  HttpInv'
<1>1. /\ accepted[t] = 0 /\ req[t] \in Requests /\ Whole(req[t])
      /\ Asks(req[t]) = req[t].route /\ req[t].route = "page"
      /\ UNCHANGED <<req, shared, accepted>> /\ Reply(t, "200") /\ got' \in [Tasks -> 0 .. BufLen]
  BY DEF HttpInv, HttpTypeOK, Progress, PageWritten
<1>2. "200" \in Deserved(req[t]) BY <1>1, WholeDeserves
<1>. QED BY <1>1, <1>2, ReplyInv

LEMMA GiveUpInv ==
    ASSUME HttpInv, NEW t \in Tasks, GiveUp(t)
    PROVE  HttpInv'
<1>1. HttpTypeOK' BY DEF HttpInv, HttpTypeOK, GiveUp, shared
<1>2. /\ at'[t] \in {"flush", "drain"} /\ req'[t] = req[t] /\ req[t] \in Requests
      /\ answer'[t] = "none" /\ accepted'[t] = 0
  BY DEF HttpInv, HttpTypeOK, Progress, GiveUp
<1>3. Progress(t)' BY <1>2 DEF Progress
<1>4. \A u \in Tasks \ {t} : /\ at'[u] = at[u] /\ req'[u] = req[u]
                              /\ answer'[u] = answer[u] /\ accepted'[u] = accepted[u]
  BY DEF HttpInv, HttpTypeOK, GiveUp
<1>. QED BY <1>1, <1>2, <1>3, <1>4, OneTask

LEMMA FlushedInv ==
    ASSUME HttpInv, NEW t \in Tasks, Flushed(t)
    PROVE  HttpInv'
<1>1. HttpTypeOK' BY DEF HttpInv, HttpTypeOK, Flushed, shared
<1>2. /\ at'[t] = "drain" /\ req' = req /\ req[t] \in Requests
      /\ answer' = answer /\ accepted' = accepted
  BY DEF HttpInv, HttpTypeOK, Progress, Flushed
<1>3. Progress(t)' BY <1>2 DEF Progress
<1>4. /\ answer[t] # "none" => answer[t] \in Deserved(req[t])
      /\ accepted[t] = 0 \/ (accepted[t] = 1 /\ answer[t] = "200")
  BY DEF HttpInv, AnswersDeserved, ErrorsHaveNoEffect
<1>5. \A u \in Tasks \ {t} : at'[u] = at[u]
  BY DEF HttpInv, HttpTypeOK, Flushed
<1>. QED BY <1>1, <1>2, <1>3, <1>4, <1>5, OneTask

LEMMA CloseInv ==
    ASSUME HttpInv, NEW t \in Tasks, Close(t)
    PROVE  HttpInv'
<1>1. HttpTypeOK' BY HttpAssumption DEF HttpInv, HttpTypeOK, Close, shared
<1>2. at'[t] = "accept" /\ answer'[t] = "none" /\ accepted'[t] = 0
  BY DEF HttpInv, HttpTypeOK, Close
<1>3. Progress(t)' BY <1>2 DEF Progress
<1>4. \A u \in Tasks \ {t} : /\ at'[u] = at[u] /\ req'[u] = req[u]
                              /\ answer'[u] = answer[u] /\ accepted'[u] = accepted[u]
  BY DEF HttpInv, HttpTypeOK, Close
<1>. QED BY <1>1, <1>2, <1>3, <1>4, OneTask

LEMMA FirmwareInv ==
    ASSUME HttpInv, Firmware, UNCHANGED serverVars
    PROVE  HttpInv'
<1>0. queue \in Seq(ApiCommand \cup {"button"}) /\ Len(queue) <= QueueDepth /\ slot \in BOOLEAN
  BY DEF HttpInv, HttpTypeOK
<1>1. queue' \in Seq(ApiCommand \cup {"button"}) /\ Len(queue') <= QueueDepth
  <2>1. CASE queue # << >> /\ queue' = Tail(queue)
    BY <1>0, <2>1, QueueAssumption
  <2>2. CASE queue' = Sent(queue, "button")
    BY <1>0, <2>2, SendingFits
  <2>3. CASE UNCHANGED queue
    BY <1>0, <2>3
  <2>. QED BY <2>1, <2>2, <2>3 DEF Firmware
<1>2. slot' \in BOOLEAN BY <1>0 DEF Firmware
<1>3. HttpTypeOK' BY <1>1, <1>2 DEF HttpInv, HttpTypeOK, serverVars
<1>. QED BY <1>3 DEF HttpInv, Progress, AnswersDeserved, ErrorsHaveNoEffect, serverVars

LEMMA NextInv == HttpInv /\ [HttpNext]_httpVars => HttpInv'
<1>. SUFFICES ASSUME HttpInv, [HttpNext]_httpVars PROVE HttpInv'
  OBVIOUS
<1>1. ASSUME NEW t \in Tasks, Serve(t) PROVE HttpInv'
  BY <1>1, AcceptInv, ReadMoreInv, RefuseRequestInv, ServeAtOnceInv, ServeLaterInv,
     LookedUpInv, PageWrittenInv, GiveUpInv, FlushedInv, CloseInv DEF Serve
<1>2. CASE Firmware /\ UNCHANGED serverVars
  BY <1>2, FirmwareInv
<1>3. CASE UNCHANGED httpVars
  BY <1>3 DEF HttpInv, HttpTypeOK, Progress, AnswersDeserved, ErrorsHaveNoEffect,
              httpVars, serverVars, shared
<1>. QED BY <1>1, <1>2, <1>3 DEF HttpNext

\* For every pool, buffer, queue and set of requests, the server keeps its types
\* (wifi_server_task).
THEOREM HttpTypeCorrect == HttpSpec => []HttpTypeOK
<1>1. HttpInv => HttpTypeOK BY DEF HttpInv
<1>. QED BY <1>1, InitInv, NextInv, PTL DEF HttpSpec

\* However requests are cut into segments and tasks take turns, every answer is
\* one that its request deserves (read_request, serve).
THEOREM HttpSafety == HttpSpec => []AnswersDeserved
<1>1. HttpInv => AnswersDeserved BY DEF HttpInv
<1>. QED BY <1>1, InitInv, NextInv, PTL DEF HttpSpec

\* A request that is not answered 200 has sent no command, and one that is has
\* sent one at most (handle_api_command).
THEOREM NoEffectOfErrors == HttpSpec => []ErrorsHaveNoEffect
<1>1. HttpInv => ErrorsHaveNoEffect BY DEF HttpInv
<1>. QED BY <1>1, InitInv, NextInv, PTL DEF HttpSpec

-----------------------------------------------------------------------------
(* The frames of the diagnostic link *)

\* What has been written is no newer than what the receiver has taken, which
\* outlives connections; the record in hand has not been written yet.
FramesInv ==
    /\ tick \in Nat /\ seen \in 0 .. tick
    /\ written \in Seq(0 .. tick)
    /\ FramesAdvance
    /\ link \in {"select", "frame", "chunk"} => written # << >>
    /\ link = "frame" => \A i \in DOMAIN written : written[i] < seen
    /\ link # "frame" => \A i \in DOMAIN written : written[i] <= seen

LEMMA FramesStart == LinkInit => FramesInv
BY DEF LinkInit, FramesInv, FramesAdvance

LEMMA FrameWritten ==
    ASSUME FramesInv, WriteFrame
    PROVE  FramesInv'
<1>1. /\ link = "frame" /\ link' = "select" /\ tick' = tick /\ seen' = seen
      /\ written' = Append(written, seen)
      /\ tick \in Nat /\ seen \in 0 .. tick /\ written \in Seq(0 .. tick)
  BY DEF WriteFrame, FramesInv
<1>2. /\ written # << >> /\ Len(written) \in Nat
      /\ Len(written') = Len(written) + 1
      /\ \A i \in 1 .. Len(written) : written'[i] = written[i]
      /\ written'[Len(written) + 1] = seen
      /\ written' \in Seq(0 .. tick) /\ written' # << >>
  BY <1>1 DEF FramesInv
<1>3. \A i \in 1 .. Len(written) : written[i] < seen /\ written[i] \in Nat
  BY <1>1 DEF FramesInv
<1>4. written[1] = Header
  BY <1>2 DEF FramesInv, FramesAdvance
<1>5. \A i, j \in 1 .. Len(written) : i < j => written[i] < written[j]
  BY <1>1 DEF FramesInv, FramesAdvance
<1>6. DOMAIN written' = 1 .. Len(written) + 1
  BY <1>2
<1>7. \A i \in DOMAIN written' : written'[i] <= seen
  BY <1>1, <1>2, <1>3, <1>6
<1>8. \A i, j \in DOMAIN written' : i < j => written'[i] < written'[j]
  <2> TAKE i, j \in DOMAIN written'
  <2>1. CASE j = Len(written) + 1
    BY <1>2, <1>3, <1>6, <2>1
  <2>2. CASE j \in 1 .. Len(written)
    BY <1>2, <1>5, <1>6, <2>2
  <2> QED
    BY <1>2, <1>6, <2>1, <2>2
<1>9. written'[1] = Header
  <2>1. 1 \in 1 .. Len(written)
    BY <1>2, <1>1
  <2> QED
    BY <1>2, <1>4, <2>1
<1> QED
  BY <1>1, <1>2, <1>7, <1>8, <1>9 DEF FramesInv, FramesAdvance

LEMMA FramesStep == FramesInv /\ [LinkNext]_diagVars => FramesInv'
<1> SUFFICES ASSUME FramesInv, [LinkNext]_diagVars PROVE FramesInv'
  OBVIOUS
<1>1. CASE WriteHeader
  <2>1. /\ tick' = tick /\ seen' = seen /\ link' = "select" /\ written' = <<Header>>
    BY <1>1 DEF WriteHeader
  <2>2. written' \in Seq(0 .. tick) /\ written' # << >> /\ DOMAIN written' = {1} /\ written'[1] = 0
    BY <2>1 DEF FramesInv, Header
  <2> QED
    BY <2>1, <2>2 DEF FramesInv, FramesAdvance, Header
<1>2. CASE TakeRecord
  <2>1. /\ link = "select" /\ link' = "frame" /\ tick' = tick /\ seen' = tick /\ seen < tick
        /\ written' = written
    BY <1>2 DEF TakeRecord, FramesInv
  <2>2. \A i \in DOMAIN written : written[i] < tick
    BY <2>1 DEF FramesInv
  <2> QED
    BY <2>1, <2>2 DEF FramesInv, FramesAdvance
<1>3. CASE WriteFrame
  BY <1>3, FrameWritten
<1>4. CASE LinkAccept \/ LoseClient \/ LookAt \/ \E k \in 1 .. ReadMax : Receive(k)
  <2>1. /\ tick' = tick /\ seen' = seen /\ written' = written
        /\ link' \in {"select", "frame", "chunk"} => link' # "frame" /\ link \in {"select", "frame", "chunk"}
    BY <1>4 DEF LinkAccept, LoseClient, LookAt, Receive
  <2>2. \A i \in DOMAIN written : written[i] <= seen
    BY DEF FramesInv
  <2> QED
    BY <2>1, <2>2 DEF FramesInv, FramesAdvance
<1>5. CASE LinkClose
  BY <1>5 DEF LinkClose, FramesInv, FramesAdvance
<1>6. CASE Publish
  <2>1. tick' = tick + 1 /\ UNCHANGED <<seen, written, link>>
    BY <1>6 DEF Publish
  <2>2. written' \in Seq(0 .. tick') /\ seen' \in 0 .. tick' /\ tick' \in Nat
    BY <2>1 DEF FramesInv
  <2> QED
    BY <2>1, <2>2 DEF FramesInv, FramesAdvance
<1>7. CASE UNCHANGED <<tick, seen, written, link>>
  BY <1>7 DEF FramesInv, FramesAdvance
<1> QED
  BY <1>1, <1>2, <1>3, <1>4, <1>5, <1>6, <1>7 DEF LinkNext, LinkTask, diagVars, linkVars

\* A client reads the header and then ever later records, also when it is slow
\* or connects again (telemetry_rx, taken once outside the accept loop).
THEOREM LaterFrames == LinkSpec => []FramesAdvance
<1>1. FramesInv => FramesAdvance BY DEF FramesInv
<1>. QED BY <1>1, FramesStart, FramesStep, PTL DEF LinkSpec
-----------------------------------------------------------------------------
(* Ranks *)

\* Positions in a sequence are finitely many, and so are those up to one of them.
LEMMA RankType ==
    ASSUME NEW n \in Nat, NEW S \in SUBSET (1 .. n)
    PROVE  /\ IsFiniteSet(S) /\ Cardinality(S) \in Nat
           /\ \A i \in S : Rank(i, S) \in 1 .. Cardinality(S)
<1>1. IsFiniteSet(S) /\ Cardinality(S) \in Nat
  <2>1. IsFiniteSet(1 .. n)
    BY FS_Interval
  <2>2. IsFiniteSet(S)
    BY <2>1, FS_Subset
  <2> QED
    BY <2>2, FS_CardinalityType
<1>2. ASSUME NEW i \in S PROVE Rank(i, S) \in 1 .. Cardinality(S)
  <2> DEFINE U == {j \in S : j <= i}
  <2>1. IsFiniteSet(U) /\ Cardinality(U) \in Nat /\ Cardinality(U) <= Cardinality(S)
    BY <1>1, FS_Subset, FS_CardinalityType
  <2>2. i \in U
    OBVIOUS
  <2>3. Cardinality(U) # 0
    BY <2>1, <2>2, FS_EmptySet
  <2> QED
    BY <1>1, <2>1, <2>3 DEF Rank
<1> QED
  BY <1>1, <1>2

\* Of two positions the later one has the greater rank.
LEMMA RankGrows ==
    ASSUME NEW n \in Nat, NEW S \in SUBSET (1 .. n), NEW i \in S, NEW j \in S, i < j
    PROVE  Rank(i, S) < Rank(j, S)
<1> DEFINE U == {k \in S : k <= i}
           V == {k \in S : k <= j}
<1>1. IsFiniteSet(V) /\ Cardinality(V) \in Nat
  BY RankType, FS_Subset, FS_CardinalityType
<1>2. U \in SUBSET V /\ j \in V /\ j \notin U
  <2>1. i \in Nat /\ j \in Nat /\ \A k \in S : k \in Nat
    OBVIOUS
  <2>2. \A k \in S : k <= i => k <= j
    BY <2>1
  <2>3. j <= j /\ ~(j <= i)
    BY <2>1
  <2> QED
    BY <2>2, <2>3, Zenon
<1>3. Cardinality(U) <= Cardinality(V) /\ Cardinality(U) # Cardinality(V) /\ Cardinality(U) \in Nat
  BY <1>1, <1>2, FS_Subset, FS_CardinalityType
<1> QED
  BY <1>1, <1>3 DEF Rank

\* Every rank up to the number of positions is some position's.
LEMMA RankOnto ==
    ASSUME NEW n \in Nat, NEW S \in SUBSET (1 .. n), NEW r \in 1 .. Cardinality(S)
    PROVE  \E i \in S : Rank(i, S) = r
<1> DEFINE f == [i \in S |-> Rank(i, S)]
           T == 1 .. Cardinality(S)
<1>1. /\ IsFiniteSet(S) /\ Cardinality(S) \in Nat /\ f \in [S -> T]
      /\ \A i \in S : Rank(i, S) \in Nat
  <2>1. \A i \in S : Rank(i, S) \in T
    BY RankType
  <2>2. IsFiniteSet(S) /\ Cardinality(S) \in Nat
    BY RankType
  <2> QED
    BY <2>1, <2>2
<1>2. \A i, j \in S : f[i] = f[j] => i = j
  <2> SUFFICES ASSUME NEW i \in S, NEW j \in S, i # j PROVE Rank(i, S) # Rank(j, S)
    OBVIOUS
  <2>1. Rank(i, S) \in Nat /\ Rank(j, S) \in Nat
    BY <1>1
  <2>2. i < j \/ j < i
    OBVIOUS
  <2> QED
    BY <2>1, <2>2, RankGrows
<1>3. f \in Injection(S, T)
  BY <1>1, <1>2 DEF Injection, IsInjective
<1>4. IsFiniteSet(T) /\ Cardinality(T) = Cardinality(S)
  BY <1>1, FS_Interval
<1>5. f \in Surjection(S, T)
  BY <1>3, <1>4, FS_Injection
<1> QED
  BY <1>5 DEF Surjection

\* A position after all the others has the highest rank and leaves theirs.
LEMMA RankOfLatest ==
    ASSUME NEW n \in Nat, NEW S \in SUBSET (1 .. n)
    PROVE  /\ Cardinality(S \cup {n + 1}) = Cardinality(S) + 1
           /\ Rank(n + 1, S \cup {n + 1}) = Cardinality(S) + 1
           /\ \A i \in S : Rank(i, S \cup {n + 1}) = Rank(i, S)
<1>1. Cardinality(S \cup {n + 1}) = Cardinality(S) + 1
  <2>1. IsFiniteSet(S)
    BY RankType
  <2> QED
    BY <2>1, FS_AddElement, Z3
<1>2. {j \in S \cup {n + 1} : j <= n + 1} = S \cup {n + 1}
  <2>1. \A j \in S \cup {n + 1} : j <= n + 1
    OBVIOUS
  <2> QED
    BY <2>1
<1>3. \A i \in S : {j \in S \cup {n + 1} : j <= i} = {j \in S : j <= i}
  OBVIOUS
<1> QED
  BY <1>1, <1>2, <1>3 DEF Rank

-----------------------------------------------------------------------------
(* The lines of the diagnostic link *)

LEMMA Appended ==
    ASSUME NEW X, NEW h \in Seq(X), NEW u \in X
    PROVE  /\ Len(h) \in Nat
           /\ Append(h, u) \in Seq(X)
           /\ DOMAIN h = 1 .. Len(h)
           /\ DOMAIN Append(h, u) = (1 .. Len(h)) \cup {Len(h) + 1} /\ Len(h) + 1 \notin 1 .. Len(h)
           /\ Append(h, u)[Len(h) + 1] = u
           /\ \A i \in 1 .. Len(h) : Append(h, u)[i] = h[i]
<1>1. /\ Len(h) \in Nat
      /\ Append(h, u) \in Seq(X)
      /\ DOMAIN h = 1 .. Len(h) /\ DOMAIN Append(h, u) = 1 .. Len(h) + 1
  OBVIOUS
<1>2. Append(h, u)[Len(h) + 1] = u
  OBVIOUS
<1>3. \A i \in 1 .. Len(h) : Append(h, u)[i] = h[i]
  OBVIOUS
<1>4. 1 .. Len(h) + 1 = (1 .. Len(h)) \cup {Len(h) + 1} /\ Len(h) + 1 \notin 1 .. Len(h)
  BY <1>1
<1> QED
  BY <1>1, <1>2, <1>3, <1>4

LEMMA LineWithin == ASSUME NEW h, NEW n \in Nat PROVE LineAt(h, n + 1) \in SUBSET (1 .. n)
BY DEF LineAt

\* A line spells one text only.
LEMMA OneSpelling ==
    ASSUME NEW h, NEW n \in Nat, NEW s \in Seq(Unit), NEW t \in Seq(Unit),
           Spells(s, h, n + 1), Spells(t, h, n + 1)
    PROVE  s = t
<1> DEFINE S == LineAt(h, n + 1)
<1>1. S \in SUBSET (1 .. n) /\ Cardinality(S) \in Nat
  BY LineWithin, RankType
<1>2. Len(s) = Len(t) /\ Len(s) <= Cardinality(S) /\ Len(s) <= LineMax
  BY <1>1, LinkAssumption DEF Spells, AtMost
<1>3. ASSUME NEW r \in 1 .. Len(s) PROVE s[r] = t[r]
  <2>1. r \in 1 .. Cardinality(S) /\ r <= LineMax
    BY <1>1, <1>2, LinkAssumption
  <2>2. PICK i \in S : Rank(i, S) = r
    BY <1>1, <2>1, RankOnto
  <2> QED
    BY <2>1, <2>2 DEF Spells
<1> QED
  BY <1>2, <1>3

\* What a line says does not depend on what comes after it.
LEMMA SpelledBefore ==
    ASSUME NEW h \in Seq(Unit), NEW u \in Unit, NEW e \in 1 .. Len(h) + 1
    PROVE  /\ LineAt(Append(h, u), e) = LineAt(h, e)
           /\ \A text : Spells(text, Append(h, u), e) <=> Spells(text, h, e)
<1>1. \A i \in 1 .. Len(h) : Append(h, u)[i] = h[i]
  OBVIOUS
<1>2. \A i \in 1 .. e - 1 : Append(h, u)[i] = h[i] /\ i .. e - 1 \subseteq 1 .. e - 1
  <2>1. 1 .. e - 1 \subseteq 1 .. Len(h)
    OBVIOUS
  <2>2. \A i \in 1 .. e - 1 : i .. e - 1 \subseteq 1 .. e - 1
    OBVIOUS
  <2> QED
    BY <1>1, <2>1, <2>2
<1>3. LineAt(Append(h, u), e) = LineAt(h, e)
  BY <1>2 DEF LineAt
<1>4. \A i \in LineAt(h, e) : Append(h, u)[i] = h[i]
  BY <1>2 DEF LineAt
<1> QED
  BY <1>3, <1>4 DEF Spells

LEMMA OneMore ==
    ASSUME NEW n \in Nat, NEW L, NEW M,
           \A i \in 1 .. n : i \in L <=> i \in M,
           L \subseteq 1 .. n + 1, M \subseteq 1 .. n
    PROVE  L = IF n + 1 \in L THEN M \cup {n + 1} ELSE M
<1>1. \A i \in 1 .. n + 1 : i \in 1 .. n \/ i = n + 1
  OBVIOUS
<1>2. CASE n + 1 \in L
  <2>1. L = M \cup {n + 1}
    BY <1>1, <1>2
  <2> QED
    BY <1>2, <2>1
<1>3. CASE n + 1 \notin L
  <2>1. L = M
    BY <1>1, <1>3
  <2> QED
    BY <1>3, <2>1
<1> QED
  BY <1>2, <1>3

\* A unit that comes in starts a new line, is left out, or prolongs the line.
LEMMA LineGrows ==
    ASSUME NEW h \in Seq(Unit), NEW u \in Unit
    PROVE  LET n == Len(h)
           IN  LineAt(Append(h, u), n + 2) =
                 IF u = "nl" THEN {}
                 ELSE IF u = "nul" THEN LineAt(h, n + 1) ELSE LineAt(h, n + 1) \cup {n + 1}
<1> DEFINE n == Len(h)
           g == Append(h, u)
<1>1. n \in Nat /\ g[n + 1] = u /\ \A i \in 1 .. n : g[i] = h[i]
  BY Appended
<1> HIDE DEF n, g
<1>2. ASSUME NEW i \in 1 .. n
      PROVE  (\A j \in i .. n + 1 : g[j] # "nl") <=> (u # "nl" /\ \A j \in i .. n : h[j] # "nl")
  <2>1. i .. n + 1 = (i .. n) \cup {n + 1} /\ i .. n \subseteq 1 .. n
    BY <1>1
  <2> QED
    BY <1>1, <2>1
<1>3. (n + 1) .. (n + 1) = {n + 1} /\ 1 .. n + 1 = (1 .. n) \cup {n + 1}
  BY <1>1
<1>4. LineAt(g, n + 2) = {i \in 1 .. n + 1 : g[i] # "nul" /\ \A j \in i .. n + 1 : g[j] # "nl"}
  <2>1. (n + 2) - 1 = n + 1
    BY <1>1
  <2> QED
    BY <2>1, Zenon DEF LineAt
<1>5. LineAt(h, n + 1) = {i \in 1 .. n : h[i] # "nul" /\ \A j \in i .. n : h[j] # "nl"}
  <2>1. (n + 1) - 1 = n
    BY <1>1
  <2> QED
    BY <2>1, Zenon DEF LineAt
<1>6. n + 1 \in LineAt(g, n + 2) <=> u # "nul" /\ u # "nl"
  BY <1>1, <1>3, <1>4
<1>7. \A i \in 1 .. n : i \in LineAt(g, n + 2) <=> u # "nl" /\ i \in LineAt(h, n + 1)
  BY <1>1, <1>2, <1>3, <1>4, <1>5
<1>8. LineAt(g, n + 2) \subseteq 1 .. n + 1 /\ LineAt(h, n + 1) \subseteq 1 .. n
  BY <1>4, <1>5
<1>9. LineAt(g, n + 2) =
        IF u = "nl" THEN {}
        ELSE IF u = "nul" THEN LineAt(h, n + 1) ELSE LineAt(h, n + 1) \cup {n + 1}
  <2>1. n + 1 \notin LineAt(h, n + 1)
    BY <1>1, <1>8
  <2>2. LineAt(g, n + 2) \subseteq (1 .. n) \cup {n + 1}
    BY <1>3, <1>8
  <2> DEFINE L == LineAt(g, n + 2)
             M == LineAt(h, n + 1)
  <2>3. /\ n + 1 \in L <=> u # "nul" /\ u # "nl"
        /\ \A i \in 1 .. n : i \in L <=> u # "nl" /\ i \in M
        /\ L \subseteq 1 .. n + 1 /\ M \subseteq 1 .. n
    BY <1>6, <1>7, <1>8, <2>1, <2>2
  <2> HIDE DEF L, M
  <2>4. CASE u = "nl"
    <3>1. n + 1 \notin L /\ \A i \in 1 .. n : i \notin L
      BY <2>3, <2>4
    <3>2. \A i \in L : i \in 1 .. n \/ i = n + 1
      BY <1>3, <2>3
    <3>3. L = {}
      BY <3>1, <3>2, Zenon
    <3> QED
      BY <2>4, <3>3 DEF L, M
  <2>5. CASE u # "nl"
    <3>1. L = IF n + 1 \in L THEN M \cup {n + 1} ELSE M
      <4>1. \A i \in 1 .. n : i \in L <=> i \in M
        BY <2>3, <2>5
      <4> QED
        BY <1>1, <2>3, <4>1, OneMore
    <3>2. n + 1 \in L <=> u # "nul"
      BY <2>3, <2>5
    <3>3. L = IF u # "nul" THEN M \cup {n + 1} ELSE M
      BY <3>1, <3>2, Zenon
    <3> QED
      BY <2>5, <3>3 DEF L, M
  <2> QED
    BY <2>4, <2>5
<1> QED
  BY <1>9 DEF n, g

\* What has been looked at since the last newline is in line_buf; what was looked
\* at before has been carried out.
LinesInv ==
    /\ stream \in Seq(Unit) /\ chunk \in Seq(Unit)
    /\ heard \in Seq(Unit) /\ line \in Seq(Unit)
    /\ obeyed \in Seq(DOMAIN Texts)
    /\ link = "chunk" => chunk # << >>
    /\ Spells(line, heard, Len(heard) + 1)
    /\ LinesReassembled

LEMMA NothingHeard ==
    /\ Spells(<< >>, << >>, 1)
    /\ CommandEnds(<< >>) = {} /\ Cardinality({}) = 0
<1>1. LineAt(<< >>, 1) = {} /\ CommandEnds(<< >>) = {}
  BY DEF LineAt, CommandEnds
<1> QED
  BY <1>1, FS_EmptySet, LinkAssumption DEF Spells, AtMost

LEMMA LinesStart == LinkInit => LinesInv
<1> SUFFICES ASSUME LinkInit PROVE LinesInv
  OBVIOUS
<1>1. /\ link = "accept" /\ stream = << >> /\ chunk = << >> /\ line = << >>
      /\ heard = << >> /\ obeyed = << >>
  BY DEF LinkInit
<1> QED
  BY <1>1, NothingHeard DEF LinesInv, LinesReassembled

\* The newlines at which commands end, one unit later.
LEMMA EndsGrow ==
    ASSUME NEW h \in Seq(Unit), NEW u \in Unit
    PROVE  CommandEnds(Append(h, u)) =
             IF u = "nl" /\ \E cmd \in DOMAIN Texts : Spells(Texts[cmd], h, Len(h) + 1)
             THEN CommandEnds(h) \cup {Len(h) + 1} ELSE CommandEnds(h)
<1> DEFINE n == Len(h)
           g == Append(h, u)
<1>1. /\ n \in Nat /\ DOMAIN h = 1 .. n /\ DOMAIN g = (1 .. n) \cup {n + 1} /\ n + 1 \notin 1 .. n
      /\ g[n + 1] = u /\ \A i \in 1 .. n : g[i] = h[i]
  BY Appended
<1>2. \A e \in 1 .. n + 1 : \A text : Spells(text, g, e) <=> Spells(text, h, e)
  BY SpelledBefore
<1> HIDE DEF g, n
<1>3. \A e \in 1 .. n : e \in CommandEnds(g) <=> e \in CommandEnds(h)
  BY <1>1, <1>2 DEF CommandEnds
<1>4. n + 1 \in CommandEnds(g) <=> u = "nl" /\ \E cmd \in DOMAIN Texts : Spells(Texts[cmd], h, n + 1)
  BY <1>1, <1>2 DEF CommandEnds
<1>5. CommandEnds(g) \subseteq (1 .. n) \cup {n + 1} /\ CommandEnds(h) \subseteq 1 .. n
  BY <1>1 DEF CommandEnds
<1>6. CommandEnds(g) =
        IF u = "nl" /\ \E cmd \in DOMAIN Texts : Spells(Texts[cmd], h, n + 1)
        THEN CommandEnds(h) \cup {n + 1} ELSE CommandEnds(h)
  <2> DEFINE L == CommandEnds(g)
             M == CommandEnds(h)
             C == u = "nl" /\ \E cmd \in DOMAIN Texts : Spells(Texts[cmd], h, n + 1)
  <2>1. /\ n + 1 \in L <=> C
        /\ \A e \in 1 .. n : e \in L <=> e \in M
        /\ L \subseteq 1 .. n + 1 /\ M \subseteq 1 .. n
    BY <1>1, <1>3, <1>4, <1>5
  <2> HIDE DEF L, M, C
  <2>2. L = IF n + 1 \in L THEN M \cup {n + 1} ELSE M
    <3>1. \A e \in 1 .. n : e \in L <=> e \in M
      BY <2>1
    <3>2. L \subseteq 1 .. n + 1 /\ M \subseteq 1 .. n
      BY <2>1
    <3> QED
      BY <1>1, <3>1, <3>2, OneMore
  <2>3. L = IF C THEN M \cup {n + 1} ELSE M
    BY <2>1, <2>2, Zenon
  <2> QED
    BY <2>3 DEF L, M, C
<1> QED
  BY <1>6 DEF g, n
\* A piece of text that comes in is appended to line_buf while that has room.
LEMMA LineProlonged ==
    ASSUME NEW h \in Seq(Unit), NEW u \in Unit \ {"nl", "nul"}, NEW s \in Seq(Unit),
           Spells(s, h, Len(h) + 1)
    PROVE  Spells(IF Len(s) < LineMax THEN Append(s, u) ELSE s, Append(h, u), Len(h) + 2)
<1> DEFINE n == Len(h)
           g == Append(h, u)
           S == LineAt(h, n + 1)
           c == Cardinality(S)
<1>1. n \in Nat /\ g[n + 1] = u /\ \A i \in 1 .. n : g[i] = h[i]
  BY Appended
<1>2. S \in SUBSET (1 .. n)
  BY <1>1, LineWithin
<1>3. LineAt(g, n + 2) = S \cup {n + 1}
  BY LineGrows
<1>4. c \in Nat /\ \A i \in S : Rank(i, S) \in 1 .. c
  BY <1>1, <1>2, RankType
<1>5. /\ Cardinality(S \cup {n + 1}) = c + 1
      /\ Rank(n + 1, S \cup {n + 1}) = c + 1
      /\ \A i \in S : Rank(i, S \cup {n + 1}) = Rank(i, S)
  BY <1>1, <1>2, RankOfLatest
<1>6. Len(s) = AtMost(c, LineMax) /\ \A i \in S : Rank(i, S) <= LineMax => s[Rank(i, S)] = h[i]
  BY DEF Spells
<1> HIDE DEF n, g, S, c
<1>7. LineMax \in Nat \ {0} /\ Len(s) \in Nat
  BY LinkAssumption
<1>8. CASE Len(s) < LineMax
  <2> DEFINE t == Append(s, u)
  <2>1. Len(s) = c /\ Len(t) = c + 1 /\ AtMost(c + 1, LineMax) = c + 1
    BY <1>4, <1>6, <1>7, <1>8 DEF AtMost
  <2>2. t[c + 1] = u /\ \A r \in 1 .. c : t[r] = s[r]
    BY <2>1
  <2> HIDE DEF t
  <2>3. \A i \in S : t[Rank(i, S)] = g[i]
    <3> TAKE i \in S
    <3>1. Rank(i, S) \in 1 .. c /\ Rank(i, S) <= LineMax
      BY <1>4, <1>7, <1>8, <2>1
    <3>2. i \in 1 .. n
      BY <1>2
    <3> QED
      BY <1>1, <1>6, <2>2, <3>1, <3>2
  <2>4. Spells(t, g, n + 2)
    BY <1>1, <1>3, <1>5, <2>1, <2>2, <2>3 DEF Spells
  <2> QED
    BY <1>8, <2>4 DEF t, g, n
<1>9. CASE ~(Len(s) < LineMax)
  <2>1. c \in Nat /\ c >= LineMax /\ Len(s) = LineMax /\ AtMost(c + 1, LineMax) = LineMax
    BY <1>4, <1>6, <1>7, <1>9 DEF AtMost
  <2>2. ~(c + 1 <= LineMax)
    BY <1>7, <2>1
  <2>3. \A i \in S : i \in 1 .. n
    BY <1>2
  <2>4. Spells(s, g, n + 2)
    BY <1>1, <1>3, <1>5, <1>6, <2>1, <2>2, <2>3 DEF Spells
  <2> QED
    BY <1>9, <2>4 DEF g, n
<1> QED
  BY <1>8, <1>9

\* A zero byte leaves the line, and after a newline it is empty.
LEMMA LineLeft ==
    ASSUME NEW h \in Seq(Unit), NEW u \in Unit, NEW s
    PROVE  /\ u = "nul" /\ Spells(s, h, Len(h) + 1) => Spells(s, Append(h, u), Len(h) + 2)
           /\ u = "nl" => Spells(<< >>, Append(h, u), Len(h) + 2)
<1> DEFINE n == Len(h)
<1>1. \A i \in 1 .. n : Append(h, u)[i] = h[i]
  BY Appended
<1>2. CASE u = "nul"
  <2>1. LineAt(Append(h, u), n + 2) = LineAt(h, n + 1)
    BY <1>2, LineGrows
  <2>2. \A i \in LineAt(h, n + 1) : Append(h, u)[i] = h[i]
    BY <1>1 DEF LineAt
  <2> QED
    BY <1>2, <2>1, <2>2 DEF Spells
<1>3. CASE u = "nl"
  <2>1. Cardinality({}) = 0 /\ Len(<< >>) = 0 /\ AtMost(0, LineMax) = 0
    BY FS_EmptySet, LinkAssumption DEF AtMost
  <2>2. LineAt(Append(h, u), n + 2) = {}
    BY <1>3, LineGrows
  <2>3. Spells(<< >>, Append(h, u), n + 2)
    BY <2>1, <2>2, Zenon DEF Spells
  <2> QED
    BY <1>3, <2>3
<1> QED
  BY <1>2, <1>3

\* The newlines at which commands end are numbered by their ranks.
LEMMA EndsType ==
    ASSUME NEW h \in Seq(Unit)
    PROVE  /\ CommandEnds(h) \in SUBSET (1 .. Len(h))
           /\ Cardinality(CommandEnds(h)) \in Nat
           /\ \A e \in CommandEnds(h) : Rank(e, CommandEnds(h)) \in 1 .. Cardinality(CommandEnds(h))
<1>1. CommandEnds(h) \in SUBSET (1 .. Len(h)) /\ Len(h) \in Nat
  BY DEF CommandEnds
<1> QED
  BY <1>1, RankType

\* A unit that ends no command leaves those carried out.
LEMMA NothingCarriedOut ==
    ASSUME LinesInv, NEW u \in Unit, heard' = Append(heard, u), obeyed' = obeyed,
           CommandEnds(heard') = CommandEnds(heard)
    PROVE  LinesReassembled'
<1> DEFINE E == CommandEnds(heard)
<1>1. E \in SUBSET (1 .. Len(heard)) /\ heard \in Seq(Unit)
  BY EndsType DEF LinesInv
<1>2. \A e \in E : \A text : Spells(text, heard, e) => Spells(text, heard', e)
  <2> TAKE e \in E
  <2>1. e \in 1 .. Len(heard) + 1
    BY <1>1
  <2> QED
    BY <1>1, <2>1, SpelledBefore
<1> QED
  BY <1>2 DEF LinesInv, LinesReassembled

\* The newline that ends a command adds it to those carried out.
LEMMA CarriedOut ==
    ASSUME LinesInv, NEW cmd \in DOMAIN Texts, Texts[cmd] = line,
           "nl" \in Unit, heard' = Append(heard, "nl"), obeyed' = Append(obeyed, cmd)
    PROVE  LinesReassembled'
<1> DEFINE n == Len(heard)
           E == CommandEnds(heard)
           c == Cardinality(E)
<1>1. /\ heard \in Seq(Unit) /\ "nl" \in Unit /\ n \in Nat
      /\ obeyed \in Seq(DOMAIN Texts) /\ Len(obeyed) = c
      /\ Spells(Texts[cmd], heard, n + 1)
      /\ \A e \in E : Spells(Texts[obeyed[Rank(e, E)]], heard, e)
  BY DEF LinesInv, LinesReassembled
<1>2. /\ E \in SUBSET (1 .. n) /\ c \in Nat
      /\ \A e \in E : Rank(e, E) \in 1 .. c
  BY <1>1, EndsType
<1>3. CommandEnds(heard') = E \cup {n + 1}
  BY <1>1, EndsGrow
<1>4. /\ Cardinality(E \cup {n + 1}) = c + 1
      /\ Rank(n + 1, E \cup {n + 1}) = c + 1
      /\ \A e \in E : Rank(e, E \cup {n + 1}) = Rank(e, E)
  BY <1>1, <1>2, RankOfLatest
<1>5. /\ Len(obeyed') = c + 1 /\ obeyed'[c + 1] = cmd
      /\ \A r \in 1 .. c : obeyed'[r] = obeyed[r]
  BY <1>1, <1>2
<1>6. \A e \in 1 .. n + 1 : \A text : Spells(text, heard, e) => Spells(text, heard', e)
  BY <1>1, SpelledBefore
<1>7. n + 1 \in 1 .. n + 1 /\ \A e \in E : e \in 1 .. n + 1
  BY <1>1, <1>2
<1> HIDE DEF n, E, c
<1>8. Spells(Texts[obeyed'[c + 1]], heard', n + 1)
  BY <1>1, <1>5, <1>6, <1>7
<1>9. ASSUME NEW e \in E PROVE Spells(Texts[obeyed'[Rank(e, E)]], heard', e)
  BY <1>1, <1>2, <1>5, <1>6, <1>7
<1> QED
  BY <1>3, <1>4, <1>5, <1>8, <1>9 DEF LinesReassembled

\* A step of the loop over what was read.
LEMMA LookAtLines == ASSUME LinesInv, LookAt PROVE LinesInv'
<1> DEFINE u == Head(chunk)
           n == Len(heard)
<1>1. /\ chunk \in Seq(Unit) /\ chunk # << >> /\ u \in Unit /\ Tail(chunk) \in Seq(Unit)
      /\ heard \in Seq(Unit) /\ n \in Nat /\ line \in Seq(Unit)
      /\ obeyed \in Seq(DOMAIN Texts)
      /\ Spells(line, heard, n + 1)
      /\ LineMax \in Nat
  BY LinkAssumption DEF LinesInv, LookAt
<1>2. /\ heard' = Append(heard, u) /\ stream' = stream /\ chunk' = Tail(chunk)
      /\ link' = IF chunk' = << >> THEN "select" ELSE "chunk"
      /\ EndOfLine \/ WithinLine
  BY DEF LookAt
<1>3. heard' \in Seq(Unit) /\ Len(heard') + 1 = n + 2
  BY <1>1, <1>2
<1> HIDE DEF u, n
<1>4. CommandEnds(heard') =
        IF u = "nl" /\ \E cmd \in DOMAIN Texts : Spells(Texts[cmd], heard, n + 1)
        THEN CommandEnds(heard) \cup {n + 1} ELSE CommandEnds(heard)
  BY <1>1, <1>2, EndsGrow DEF n
<1>5. CASE WithinLine
  <2>1. /\ u # "nl" /\ obeyed' = obeyed
        /\ line' = IF u # "nul" /\ Len(line) < LineMax THEN Append(line, u) ELSE line
    BY <1>5 DEF WithinLine, u
  <2>2. line' \in Seq(Unit)
    BY <1>1, <2>1
  <2>3. Spells(line', heard', n + 2)
    <3>1. CASE u = "nul"
      BY <1>1, <1>2, <2>1, <3>1, LineLeft DEF n
    <3>2. CASE u # "nul"
      BY <1>1, <1>2, <2>1, <3>2, LineProlonged DEF n
    <3> QED
      BY <3>1, <3>2
  <2>4. LinesReassembled'
    BY <1>1, <1>2, <1>4, <2>1, NothingCarriedOut
  <2> QED
    BY <1>1, <1>2, <1>3, <2>1, <2>2, <2>3, <2>4 DEF LinesInv
<1>6. CASE EndOfLine
  <2>1. u = "nl" /\ line' = << >>
    BY <1>6 DEF EndOfLine, u
  <2>2. line' \in Seq(Unit) /\ Spells(line', heard', n + 2)
    BY <1>1, <1>2, <2>1, LineLeft DEF n
  <2>3. obeyed' \in Seq(DOMAIN Texts) /\ LinesReassembled'
    <3>1. CASE \E cmd \in ApiCommand : ParsesAs(line, cmd) /\ obeyed' = Append(obeyed, cmd)
      <4>1. PICK cmd \in DOMAIN Texts : Texts[cmd] = line /\ obeyed' = Append(obeyed, cmd)
        BY <3>1 DEF ParsesAs
      <4>2. obeyed' \in Seq(DOMAIN Texts)
        BY <1>1, <4>1
      <4>3. LinesReassembled'
        BY <1>1, <1>2, <2>1, <4>1, CarriedOut
      <4> QED
        BY <4>2, <4>3
    <3>2. CASE (\A cmd \in ApiCommand : ~ParsesAs(line, cmd)) /\ obeyed' = obeyed
      <4>1. \A cmd \in DOMAIN Texts : Texts[cmd] # line /\ Texts[cmd] \in Seq(Unit)
        BY <3>2, LinkAssumption DEF ParsesAs
      <4>2. \A cmd \in DOMAIN Texts : ~Spells(Texts[cmd], heard, n + 1)
        BY <1>1, <4>1, OneSpelling
      <4>3. LinesReassembled'
        BY <1>1, <1>2, <1>4, <3>2, <4>2, NothingCarriedOut
      <4> QED
        BY <1>1, <3>2, <4>3
    <3> QED
      BY <1>6, <3>1, <3>2 DEF EndOfLine
  <2> QED
    BY <1>1, <1>2, <1>3, <2>2, <2>3 DEF LinesInv
<1> QED
  BY <1>2, <1>5, <1>6

LEMMA LinesStep == LinesInv /\ [LinkNext]_diagVars => LinesInv'
<1> SUFFICES ASSUME LinesInv, [LinkNext]_diagVars PROVE LinesInv'
  OBVIOUS
<1>1. CASE LookAt
  BY <1>1, LookAtLines
<1>2. ASSUME NEW k \in 1 .. ReadMax, k <= Len(stream), Receive(k) PROVE LinesInv'
  <2>1. stream \in Seq(Unit) /\ k \in 1 .. Len(stream)
    BY <1>2, LinkAssumption DEF LinesInv
  <2>2. /\ chunk' \in Seq(Unit) /\ chunk' # << >> /\ stream' \in Seq(Unit)
    <3>1. /\ chunk' = SubSeq(stream, 1, k)
          /\ stream' = SubSeq(stream, k + 1, Len(stream))
      BY <1>2 DEF Receive
    <3>2. chunk' \in Seq(Unit) /\ Len(chunk') = k
      BY <2>1, <3>1
    <3>3. stream' \in Seq(Unit)
      BY <2>1, <3>1
    <3> QED
      BY <2>1, <3>2, <3>3
  <2>3. UNCHANGED <<heard, line, obeyed>>
    BY <1>2 DEF Receive
  <2> QED
    BY <2>2, <2>3 DEF LinesInv, LinesReassembled
<1>3. CASE LinkAccept
  BY <1>3, LinkAssumption DEF LinkAccept, LinesInv, LinesReassembled
<1>4. CASE LinkClose
  <2>1. /\ link' = "accept" /\ chunk' = chunk
        /\ stream' = << >> /\ line' = << >> /\ heard' = << >> /\ obeyed' = << >>
    BY <1>4 DEF LinkClose
  <2>2. Spells(line', heard', Len(heard') + 1) /\ LinesReassembled'
    BY <2>1, NothingHeard DEF LinesReassembled
  <2>3. << >> \in Seq(Unit) /\ << >> \in Seq(DOMAIN Texts) /\ chunk \in Seq(Unit)
    BY DEF LinesInv
  <2> QED
    BY <2>1, <2>2, <2>3 DEF LinesInv
<1>5. CASE WriteHeader \/ TakeRecord \/ WriteFrame \/ LoseClient \/ Publish
  <2>1. /\ UNCHANGED <<stream, chunk, line, heard, obeyed>>
        /\ link' = "chunk" => link = "chunk"
    BY <1>5 DEF WriteHeader, TakeRecord, WriteFrame, LoseClient, Publish
  <2> QED
    BY <2>1 DEF LinesInv, LinesReassembled
<1>6. CASE UNCHANGED linkVars
  BY <1>6 DEF linkVars, LinesInv, LinesReassembled
<1> QED
  BY <1>1, <1>2, <1>3, <1>4, <1>5, <1>6 DEF LinkNext, LinkTask, diagVars

\* However a client's lines are cut into pieces, the commands they spell are
\* carried out in their order, each once, for any texts, buffers and streams
\* (the read loop of tcp_telemetry_task, line_buf and line_pos).
THEOREM LinesTogether == LinkSpec => []LinesReassembled
<1>1. LinesInv => LinesReassembled BY DEF LinesInv
<1>. QED BY <1>1, LinesStart, LinesStep, PTL DEF LinkSpec
-----------------------------------------------------------------------------
(* The network tasks together *)

NetInv == HttpInv /\ FramesInv /\ LinesInv

\* What the link sends leaves the pool as it is, and the queue within its depth.
LEMMA LinkLeavesServers == ASSUME HttpInv, LinkTask \/ Publish, UNCHANGED serverVars PROVE HttpInv'
<1>1. queue \in Seq(ApiCommand \cup {"button"}) /\ Len(queue) <= QueueDepth /\ slot \in BOOLEAN
  BY DEF HttpInv, HttpTypeOK
<1>2. UNCHANGED shared \/ \E cmd \in ApiCommand : HandleCommand(cmd)
  BY DEF LinkTask, LinkAccept, WriteHeader, TakeRecord, WriteFrame, Receive, LookAt, EndOfLine,
         WithinLine, LoseClient, LinkClose, Publish
<1>3. queue' \in Seq(ApiCommand \cup {"button"}) /\ Len(queue') <= QueueDepth /\ slot' \in BOOLEAN
  BY <1>1, <1>2, SendingFits DEF shared, HandleCommand
<1>4. HttpTypeOK'
  BY <1>3 DEF HttpInv, HttpTypeOK, serverVars
<1> QED
  BY <1>4 DEF HttpInv, Progress, AnswersDeserved, ErrorsHaveNoEffect, serverVars

\* Neither the frames nor the lines depend on the queue or the cache.
LEMMA LinkApart ==
    ASSUME FramesInv, LinesInv, UNCHANGED linkVars
    PROVE  FramesInv' /\ LinesInv'
BY DEF linkVars, FramesInv, FramesAdvance, LinesInv, LinesReassembled

LEMMA NetStep == NetInv /\ [NetNext]_netVars => NetInv'
<1> SUFFICES ASSUME NetInv, [NetNext]_netVars PROVE NetInv'
  OBVIOUS
<1>1. HttpInv /\ FramesInv /\ LinesInv
  BY DEF NetInv
<1>2. ASSUME NEW t \in Tasks, HttpTurn(t) PROVE NetInv'
  <2>1. HttpNext /\ UNCHANGED linkVars
    BY <1>2 DEF HttpTurn, HttpNext
  <2> QED
    BY <1>1, <2>1, NextInv, LinkApart DEF NetInv
<1>3. CASE (LinkTask \/ Publish) /\ UNCHANGED serverVars
  <2>1. LinkNext
    BY <1>3 DEF LinkNext
  <2> QED
    BY <1>1, <1>3, <2>1, LinkLeavesServers, FramesStep, LinesStep DEF NetInv
<1>4. CASE Firmware /\ UNCHANGED <<serverVars, linkVars>>
  BY <1>1, <1>4, FirmwareInv, LinkApart DEF NetInv
<1>5. CASE UNCHANGED netVars
  <2>1. UNCHANGED httpVars /\ UNCHANGED linkVars
    BY <1>5 DEF netVars, httpVars
  <2> QED
    BY <1>1, <2>1, NextInv, LinkApart DEF NetInv
<1> QED
  BY <1>2, <1>3, <1>4, <1>5 DEF NetNext, LinkTurn, Meanwhile

\* With the pool and the link on one queue, each filling it while the other
\* serves, requests get the answers they deserve, errors have no effect, and a
\* client of the link has its lines carried out and its records in order (the
\* tasks that wifi_init_task spawns, on COMMAND_QUEUE).
THEOREM NetworkSafe ==
    NetSpec => [](AnswersDeserved /\ ErrorsHaveNoEffect /\ LinesReassembled /\ FramesAdvance)
<1>1. NetInit => NetInv
  BY InitInv, FramesStart, LinesStart DEF NetInit, NetInv
<1>2. NetInv => AnswersDeserved /\ ErrorsHaveNoEffect /\ LinesReassembled /\ FramesAdvance
  BY DEF NetInv, HttpInv, LinesInv, FramesInv
<1> QED
  BY <1>1, <1>2, NetStep, PTL DEF NetSpec
=============================================================================
