------------------------------ MODULE Network ------------------------------
(***************************************************************************)
(* The tasks wifi_init_task spawns in the end, side by side: the pool of   *)
(* the HTTP server and the diagnostic link.  They meet at the command      *)
(* queue, which the firmware empties, and at the profile cache.            *)
(***************************************************************************)
EXTENDS HttpServer, DiagLink

netVars == <<shared, serverVars, linkVars>>

NetInit == HttpInit /\ LinkInit

\* The server that runs is one of the pool, or the link.
HttpTurn(t) == Serve(t) /\ UNCHANGED linkVars
LinkTurn    == LinkTask /\ UNCHANGED serverVars

\* What the rest of the firmware does meanwhile.
Meanwhile ==
    \/ Publish /\ UNCHANGED serverVars
    \/ Firmware /\ UNCHANGED <<serverVars, linkVars>>

NetNext == (\E t \in Tasks : HttpTurn(t)) \/ LinkTurn \/ Meanwhile

NetFairness ==
    \A t \in Tasks : /\ WF_netVars(GiveUp(t) /\ UNCHANGED linkVars)
                     /\ WF_netVars(Close(t) /\ UNCHANGED linkVars)

NetSpec == NetInit /\ [][NetNext]_netVars /\ NetFairness
=============================================================================
