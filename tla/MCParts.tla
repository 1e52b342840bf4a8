------------------------------- MODULE MCParts -------------------------------
(***************************************************************************)
(* The parts of the server and those of the browser for TLC: a behaviour is   *)
(* one of ServerParts or one of BrowserParts, and the other stays put.        *)
(***************************************************************************)
EXTENDS ServerParts, BrowserParts

Once(a, b) == [from |-> a, to |-> b, step |-> 0, until |-> 0, except |-> {}]

MCShapes == {Once(0, 1), Once(1, 3),
             [from |-> 1, to |-> 2, step |-> 1, until |-> 4, except |-> {2}]}

ServerIdle == service = "none" /\ BoardIdle /\ AlarmsIdle /\ ShutdownIdle /\ RhythmIdle

BrowserIdle == script = "none" /\ TimelineIdle /\ OfflineIdle /\ EditingIdle

Init == (ServerInit /\ BrowserIdle) \/ (BrowserInit /\ ServerIdle)

Next == \/ ServerNext /\ UNCHANGED browserVars
        \/ BrowserNext /\ UNCHANGED serverVars

Spec == Init /\ [][Next]_<<serverVars, browserVars>>
=============================================================================
