-------------------------------- MODULE Reload --------------------------------
(***************************************************************************)
(* The reload of BFE: the timer of configBuilder.go, the Reload methods of *)
(* ServerDataConfig, ClusterConfig and TLSConfig, and util.ReloadBfe.      *)
(*                                                                         *)
(* Every few seconds the timer takes the mutex of the builder and goes     *)
(* through the components in order.  Of each it writes the files whose     *)
(* version BFE has not loaded, asks BFE over HTTP to load the component,   *)
(* and records the versions; the first error ends the round.  Contents of  *)
(* files are abstract: a version stands for the content it was given to.   *)
(***************************************************************************)
EXTENDS Integers

CONSTANTS
    MaxVersion,          \* bound on the changes of the builder
    MaxCrashes,          \* bound on the crashes of the process
    Footprint,           \* sets of components that a reconciler changes together
    Unloadable,          \* versions whose cluster configuration BFE refuses
    NoVersion,           \* "", the recorded version of a new process
    Shipped,             \* a file as the image of BFE holds it
    Torn                 \* a file whose write failed after it was truncated

Version == 0 .. MaxVersion

Component == {"server_data_conf", "cluster_conf", "tls_conf"}

ASSUME ReloadAssumption ==
    /\ MaxVersion \in Nat
    /\ MaxCrashes \in Nat
    /\ Footprint \subseteq SUBSET Component
    /\ Unloadable \subseteq Version \ {0}
    /\ NoVersion \notin Version
    /\ Shipped \notin Version
    /\ Torn \notin Version \cup {Shipped}

-----------------------------------------------------------------------------
(* Components and their files.                                             *)

FilesOf(c) ==
    CASE c = "server_data_conf" -> {"host_rule", "route_rule", "cluster_conf_data"}
      [] c = "cluster_conf"     -> {"gslb", "cluster_table"}
      [] c = "tls_conf"         -> {"server_cert_conf", "certs", "tls_rule_conf"}

File == UNION {FilesOf(c) : c \in Component}

\* The host table is written once; nothing ever changes it.
Changing(c) == FilesOf(c) \ {"host_rule"}

\* The order in which Reload writes the files of a component.
Position(f) ==
    CASE f \in {"host_rule", "gslb", "server_cert_conf"}      -> 1
      [] f \in {"route_rule", "cluster_table", "certs"}       -> 2
      [] f \in {"cluster_conf_data", "tls_rule_conf"}         -> 3

\* Mutant of Successor: the certificates are forgotten.
BugSuccessor(c) == IF c = "server_data_conf" THEN "cluster_conf" ELSE "none"

\* The order of ConfigBuilder.reload.
Successor(c) ==
    CASE c = "server_data_conf" -> "cluster_conf"
      [] c = "cluster_conf"     -> "tls_conf"
      [] OTHER                  -> "none"

-----------------------------------------------------------------------------
(* The machine. *)

VARIABLES
    clock,       \* the last version given out
    crashes,     \* crashes so far
    version,     \* version of each file in memory
    recorded,    \* version of each file that BFE is known to have loaded
    disk,        \* content of each file on disk
    served,      \* content of each file BFE works with
    locked,      \* the timer holds the mutex of the builder
    at,          \* what the timer is doing
    turn         \* the component it is doing it for

vars == <<clock, crashes, version, recorded, disk, served, locked, at, turn>>

Current(c) == \A f \in FilesOf(c) : served[f] = version[f]

\* Mutant of InitVersions: a new process takes its first configuration for loaded.
BugInitVersions == [f \in File |-> 0]

\* New...Config: the versions are "init", the recorded ones empty.
InitVersions == [f \in File |-> NoVersion]

Init ==
    /\ clock = 0
    /\ crashes = 0
    /\ version = [f \in File |-> 0]
    /\ recorded = InitVersions
    /\ disk = [f \in File |-> Shipped]
    /\ served = [f \in File |-> Shipped]
    /\ locked = FALSE
    /\ at = "idle"
    /\ turn = "none"

\* Mutant of Change: the reconcilers do not take the mutex.
BugChange(S) ==
    /\ clock < MaxVersion
    /\ clock' = clock + 1
    /\ version' = [f \in File |-> IF \E c \in S : f \in Changing(c)
                                  THEN clock + 1 ELSE version[f]]
    /\ UNCHANGED <<crashes, recorded, disk, served, locked, at, turn>>

\* A reconciler changes the configuration under the mutex.
Change(S) ==
    /\ ~locked
    /\ clock < MaxVersion
    /\ clock' = clock + 1
    /\ version' = [f \in File |-> IF \E c \in S : f \in Changing(c)
                                  THEN clock + 1 ELSE version[f]]
    /\ UNCHANGED <<crashes, recorded, disk, served, locked, at, turn>>

\* The timer fires and takes the mutex.
Tick ==
    /\ at = "idle"
    /\ ~locked
    /\ locked' = TRUE
    /\ at' = "check"
    /\ turn' = "server_data_conf"
    /\ UNCHANGED <<clock, crashes, version, recorded, disk, served>>

\* reload returns and releases the mutex.
End ==
    /\ at' = "idle"
    /\ turn' = "none"
    /\ locked' = FALSE

\* Mutant of Proceed: the round does not end after the last component.
BugProceed ==
    /\ at' = "check"
    /\ turn' = Successor(turn)
    /\ UNCHANGED locked

\* The next component has its turn.
Proceed ==
    IF Successor(turn) = "none"
    THEN End
    ELSE /\ at' = "check"
         /\ turn' = Successor(turn)
         /\ UNCHANGED locked

Pending(c) == {f \in FilesOf(c) : version[f] # recorded[f]}

\* Reload of a component begins: is any version other than the loaded one?
Check ==
    /\ at = "check"
    /\ IF Pending(turn) = {}
       THEN Proceed
       ELSE at' = "dump" /\ UNCHANGED <<locked, turn>>
    /\ UNCHANGED <<clock, crashes, version, recorded, disk, served>>

\* Mutant of Dump: the first of the files passes for all of them.
BugDump ==
    /\ at = "dump"
    /\ \E f \in Pending(turn) : disk' = [disk EXCEPT ![f] = version[f]]
    /\ at' = "call"
    /\ UNCHANGED <<clock, crashes, version, recorded, served, locked, turn>>

\* DumpBfeConf: the files with a new version are written, and BFE is called.
Dump ==
    /\ at = "dump"
    /\ disk' = [f \in File |-> IF f \in Pending(turn) THEN version[f] ELSE disk[f]]
    /\ at' = "call"
    /\ UNCHANGED <<clock, crashes, version, recorded, served, locked, turn>>

\* A write fails: the files before it are written, this one is as it was or
\* truncated.
DumpFails ==
    /\ at = "dump"
    /\ \E f \in Pending(turn), truncated \in BOOLEAN :
          disk' = [g \in File |->
                      IF g = f /\ truncated THEN Torn
                      ELSE IF g \in Pending(turn) /\ Position(g) < Position(f) THEN version[g]
                      ELSE disk[g]]
    /\ End
    /\ UNCHANGED <<clock, crashes, version, recorded, served>>

\* BFE reads all files of the component.
Load == served' = [f \in File |-> IF f \in FilesOf(turn) THEN disk[f] ELSE served[f]]

Loadable(c) ==
    /\ \A f \in FilesOf(c) : disk[f] # Torn
    /\ c = "cluster_conf" => disk["gslb"] \notin Unloadable

\* BFE loads the component and says so: the versions are recorded.
Loaded ==
    /\ at = "call"
    /\ Loadable(turn)
    /\ Load
    /\ recorded' = [f \in File |-> IF f \in FilesOf(turn) THEN version[f] ELSE recorded[f]]
    /\ Proceed
    /\ UNCHANGED <<clock, crashes, version, disk>>

\* Mutant of Refused: an error of BFE does not end the round.
BugRefused ==
    /\ at = "call"
    /\ Proceed
    /\ UNCHANGED <<clock, crashes, version, recorded, disk, served>>

\* Mutant of Refused: the round tries again until BFE accepts.
BugRetries ==
    /\ at = "call"
    /\ at' = "dump"
    /\ UNCHANGED <<clock, crashes, version, recorded, disk, served, locked, turn>>

\* BFE cannot be reached, or refuses.
Refused ==
    /\ at = "call"
    /\ End
    /\ UNCHANGED <<clock, crashes, version, recorded, disk, served>>

\* BFE loads the component, but its answer is lost.
AnswerLost ==
    /\ at = "call"
    /\ Loadable(turn)
    /\ Load
    /\ End
    /\ UNCHANGED <<clock, crashes, version, recorded, disk>>

\* A reconciler panics, or BFE ends: the process ends, at any point, and starts
\* again in the same place or from the image.  BFE starts from the files it finds,
\* if it can.
Restart ==
    /\ crashes < MaxCrashes
    /\ crashes' = crashes + 1
    /\ disk' \in {disk, [f \in File |-> Shipped]}
    /\ \A c \in Component : Loadable(c)'
    /\ served' = disk'
    /\ version' = [f \in File |-> 0]
    /\ recorded' = InitVersions
    /\ End
    /\ UNCHANGED clock

Answer == Loaded \/ Refused \/ AnswerLost

Next ==
    \/ \E S \in Footprint : Change(S)
    \/ Tick
    \/ Check
    \/ Dump
    \/ DumpFails
    \/ Answer
    \/ Restart

Spec == Init /\ [][Next]_vars

\* The goroutine runs, a write or a load that is tried again and again succeeds
\* in the end, and BFE answers each request: there is no timeout that would
\* end one.
Fairness ==
    /\ WF_vars(Tick)
    /\ WF_vars(Check)
    /\ WF_vars(Dump \/ DumpFails)
    /\ WF_vars(Answer)
    /\ SF_vars(Dump)
    /\ SF_vars(Loaded)

FairSpec == Spec /\ Fairness

-----------------------------------------------------------------------------
(* Properties *)

Content == Version \cup {Shipped, Torn}

\* The state of builder, timer, disk and BFE has its shape.
TypeOK ==
    /\ clock \in Version
    /\ crashes \in 0 .. MaxCrashes
    /\ version \in [File -> Version]
    /\ recorded \in [File -> Version \cup {NoVersion}]
    /\ disk \in [File -> Content]
    /\ served \in [File -> Content]
    /\ locked \in BOOLEAN
    /\ at \in {"idle", "check", "dump", "call"}
    /\ turn \in Component \cup {"none"}
    /\ turn = "none" <=> at = "idle"

\* A difference between what BFE serves and what the builder holds never goes
\* unnoticed: not after lost answers, failed writes, changes during a round, or
\* a restart beside the files of an earlier process.
NothingOverlooked ==
    \A c \in Component : Pending(c) = {} => Current(c)

\* BFE is only called when each file of the component is the one in memory, even
\* if earlier rounds left truncated or mixed files.
CalledOnWhole ==
    at = "call" => \A f \in FilesOf(turn) : disk[f] = version[f]

Before == {<<"server_data_conf", "cluster_conf">>, <<"server_data_conf", "tls_conf">>,
           <<"cluster_conf", "tls_conf">>}

Of(content) == [c \in Component |-> [f \in FilesOf(c) |-> content[f]]]

P == INSTANCE Publication WITH
        Content <- UNION {[FilesOf(c) -> Content] : c \in Component},
        Fresh <- Of([f \in File |-> 0]),
        want <- Of(version),
        have <- Of(served)

\* BFE gets whole components only, and clusters only once it serves the current
\* routes, certificates only once it serves both: a round that fails half-way
\* never leaves a later component ahead.
DeliversInOrder == P!Spec

\* The routes arrive in the end, whatever BFE thinks of the rest.
RoutesArrive == []<>Current("server_data_conf")

\* Everything arrives in the end unless BFE refuses the cluster configuration the
\* builder settles on; then it blocks the certificates, too.
AllArrives ==
    <>[](version["gslb"] \notin Unloadable) => []<>(\A c \in Component : Current(c))

\* If BFE answers, the mutex is released after each round, so the reconcilers go on.
LockReleased == locked ~> ~locked

=============================================================================
