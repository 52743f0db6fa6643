----------------------------- MODULE MCJobLifecycle -----------------------------
(* One job of each kind; "nested" is the analysis the agent asks for in its turn, *)
(* "shell" the one the command line runs.                                         *)
EXTENDS JobLifecycle

KindOf == [upload |-> "ingest", chat |-> "agent", nested |-> "analyze", shell |-> "analyze"]
OriginOf == [upload |-> "api", chat |-> "api", nested |-> "agent", shell |-> "cli"]
MCKind == [j \in Jobs |-> KindOf[j]]
MCOrigin == [j \in Jobs |-> OriginOf[j]]

AllJobs == {"upload", "chat", "nested", "shell"}
OneCliJob == {"shell"}
ServeOrBeside == {{"upload", "chat", "nested"}, {"upload", "shell"}, {"chat", "shell"}}
ShellOnly == {{"shell"}}

NoFaults == {}
AllFaults == {"db", "start", "reset"}
=============================================================================
