---------------------------- MODULE UncachedBuild ----------------------------
(***************************************************************************)
(* What a build promises (packages/pilot/src/build/index.ts, buildApps):   *)
(* each app it returns is built from the sources as they are.  There is no *)
(* cache here, and nothing a build leaves behind.                          *)
(***************************************************************************)
CONSTANTS
    Apps,         \* the apps of the project
    Sources,      \* their sources
    Versions,     \* the contents a source can have
    Output(_, _)  \* what building an app from given sources yields

VARIABLES
    version,      \* the content of every source
    results       \* what the build under way has returned so far

vars == <<version, results>>

Nothing == [a \in {} |-> a]

Init == version \in [Sources -> Versions] /\ results = Nothing

(* Sources change between builds. *)
Edit ==
    /\ results = Nothing
    /\ version' \in [Sources -> Versions]
    /\ UNCHANGED results

Build(a) ==
    /\ a \notin DOMAIN results
    /\ results' = [b \in DOMAIN results \cup {a} |->
                     IF b = a THEN Output(a, version) ELSE results[b]]
    /\ UNCHANGED version

(* A build ends, with all the apps that were asked for or without.             *)
End == results' = Nothing /\ UNCHANGED version

Next == Edit \/ End \/ \E a \in Apps : Build(a)

Spec == Init /\ [][Next]_vars
=============================================================================
