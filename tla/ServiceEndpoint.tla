--------------------------- MODULE ServiceEndpoint --------------------------
(***************************************************************************)
(* The socket file and the pid file at which the service is found          *)
(* (unix_socket_server.cpp).  Nothing but these files keeps two services   *)
(* apart: front ends start one whenever a connect() fails, so that several *)
(* may start while another one stops.  One step is one system call that    *)
(* changes a file or decides what the process does next.                   *)
(***************************************************************************)
CONSTANT Services

VARIABLES
  at,        \* what each process does next
  endpoint,  \* the service whose socket file is at the path, none for no file
  pidFile,   \* the service that created the pid file at its path
  number,    \* the service whose number is in that file, none while it is empty
  stream,    \* the creator of the file that each process is about to write its number to
  endpointOwned, pidOwned,  \* the services with endpoint_owned_, with pid_owned_
  contested  \* services that another one met while it started or stopped

pidVars == <<pidFile, number, stream, pidOwned>>
files == <<endpoint, endpointOwned, contested, pidVars>>
endpointVars == <<at, files>>

\* Processes that accept connections: from listen() to the end of the poll loop.
Listening == {"listening", "replacing", "creating", "owning", "writing", "serving"}
Steps == {"unborn", "looking", "probing", "unlinking", "binding", "bound", "prepared"} \cup Listening
         \cup {"draining", "leaving", "removing", "ended", "killed"}

\* Every variable keeps its type; a path has at most one file.
EndpointTypeOK ==
  /\ at \in [Services -> Steps]
  /\ endpoint \in {{}} \cup {{s} : s \in Services} /\ pidFile \in {{}} \cup {{s} : s \in Services}
  /\ number \in {{}} \cup {{s} : s \in Services}
  /\ stream \in [Services -> {{}} \cup {{s} : s \in Services}]
  /\ endpointOwned \subseteq Services /\ pidOwned \subseteq Services /\ contested \subseteq Services

Listens(s) == at[s] \in Listening

EndpointInit ==
  /\ at = [s \in Services |-> "unborn"]
  /\ endpoint = {} /\ pidFile = {} /\ number = {} /\ stream = [s \in Services |-> {}]
  /\ endpointOwned = {} /\ pidOwned = {} /\ contested = {}

Go(s, from, to) == at[s] = from /\ at' = [at EXCEPT ![s] = to]

-----------------------------------------------------------------------------
(* The start: prepare_socket_path() and run() *)

StartService(s) == Go(s, "unborn", "looking") /\ UNCHANGED files

\* lstat()
Look(s) ==
  /\ Go(s, "looking", IF endpoint = {} THEN "binding" ELSE "probing")
  /\ UNCHANGED files

\* socket_is_active(): a socket nobody listens on is stale.
Probe(s) ==
  /\ Go(s, "probing", IF \E r \in endpoint : Listens(r) THEN "leaving" ELSE "unlinking")
  /\ contested' = contested \cup {r \in endpoint : at[r] \in {"bound", "prepared"}}
  /\ UNCHANGED <<endpoint, endpointOwned, pidVars>>

\* Whatever socket is at the path by now.
RemoveStale(s) ==
  /\ Go(s, "unlinking", "binding")
  /\ endpoint' = {}
  /\ UNCHANGED <<endpointOwned, contested, pidVars>>

\* Services that may still unlink what is at the paths.
Leftovers(s) ==
  {r \in Services \ {s} : r \in endpointOwned \/ r \in pidOwned \/ at[r] = "unlinking"}

Bind(s) ==
  /\ Go(s, "binding", IF endpoint = {} THEN "bound" ELSE "leaving")
  /\ IF endpoint = {}
     THEN /\ endpoint' = {s}
          /\ endpointOwned' = endpointOwned \cup {s}
          /\ contested' = IF Leftovers(s) = {} THEN contested ELSE contested \cup {s}
     ELSE UNCHANGED <<endpoint, endpointOwned, contested>>
  /\ UNCHANGED pidVars

\* chmod() of the path needs a file there,
Prepare(s) ==
  /\ Go(s, "bound", IF endpoint = {} THEN "leaving" ELSE "prepared")
  /\ UNCHANGED files

\* listen() does not.
Listen(s) ==
  /\ Go(s, "prepared", "listening")
  /\ UNCHANGED files

\* The pid file of whoever wrote one before is replaced: lstat(),
LookForPid(s) ==
  /\ Go(s, "listening", IF pidFile = {} THEN "creating" ELSE "replacing")
  /\ UNCHANGED files

\* unlink(), which fails where there is none any more,
ReplacePid(s) ==
  /\ Go(s, "replacing", IF pidFile = {} THEN "leaving" ELSE "creating")
  /\ pidFile' = {} /\ number' = {}
  /\ UNCHANGED <<endpoint, endpointOwned, contested, stream, pidOwned>>

\* the open() of the stream, which empties a file that is there by now,
CreatePid(s) ==
  /\ Go(s, "creating", "owning")
  /\ pidFile' = IF pidFile = {} THEN {s} ELSE pidFile
  /\ number' = {}
  /\ stream' = [stream EXCEPT ![s] = pidFile']
  /\ UNCHANGED <<endpoint, endpointOwned, contested, pidOwned>>

\* chmod(), whose failure is ignored, with the number still in the stream's buffer,
OwnPid(s) ==
  /\ Go(s, "owning", "writing")
  /\ pidOwned' = pidOwned \cup {s}
  /\ UNCHANGED <<endpoint, endpointOwned, contested, pidFile, number, stream>>

\* and the write() of its destructor, whose failure nobody learns of.
WriteNumber(s) ==
  /\ Go(s, "writing", "serving")
  /\ number' \in {number, IF stream[s] = pidFile THEN {s} ELSE number}
  /\ stream' = [stream EXCEPT ![s] = {}]
  /\ UNCHANGED <<endpoint, endpointOwned, contested, pidFile, pidOwned>>

\* Any of these calls throws: the destructor closes the socket and cleans up.  Once the
\* pid file is open nothing throws.
StartFails(s) ==
  /\ \E step \in {"looking", "probing", "unlinking", "binding", "bound", "prepared", "listening",
                  "replacing", "creating"} : Go(s, step, "leaving")
  /\ UNCHANGED files

-----------------------------------------------------------------------------
(* The end: a Shutdown request or an idle exit, an exception, a signal *)

\* The listening socket is closed at once ...
StopListening(s) ==
  /\ Go(s, "serving", "draining")
  /\ UNCHANGED files

\* ... its file goes when the connections, the workers, the staged commits and the
\* sessions are done with.
Drain(s) ==
  /\ Go(s, "draining", "leaving")
  /\ UNCHANGED files

\* Mutant for EndpointIsKept: cleanup_endpoint() without endpoint_owned_.
RemoveAnySocket(s) ==
  /\ Go(s, "leaving", "removing")
  /\ endpoint' = {}
  /\ endpointOwned' = endpointOwned \ {s}
  /\ UNCHANGED <<contested, pidVars>>

\* cleanup_endpoint(): who has bound the path unlinks the socket that is there, and who
\* owns the pid file the one that is there.  The lstat() before only looks for files of
\* another kind, which no service leaves at these paths.
RemoveSocket(s) ==
  /\ Go(s, "leaving", "removing")
  /\ endpoint' = IF s \in endpointOwned THEN {} ELSE endpoint
  /\ endpointOwned' = endpointOwned \ {s}
  /\ UNCHANGED <<contested, pidVars>>

RemovePid(s) ==
  /\ Go(s, "removing", "ended")
  /\ IF s \in pidOwned THEN pidFile' = {} /\ number' = {} ELSE UNCHANGED <<pidFile, number>>
  /\ pidOwned' = pidOwned \ {s} /\ contested' = contested \ {s}
  /\ UNCHANGED <<endpoint, endpointOwned, stream>>

\* SIGTERM and SIGINT have no handler either.
Kill(s) ==
  /\ \E step \in Steps \ {"unborn", "ended", "killed"} : Go(s, step, "killed")
  /\ endpointOwned' = endpointOwned \ {s} /\ pidOwned' = pidOwned \ {s} /\ contested' = contested \ {s}
  /\ stream' = [stream EXCEPT ![s] = {}]
  /\ UNCHANGED <<endpoint, pidFile, number>>

EndpointNext ==
  \E s \in Services :
    \/ StartService(s) \/ Look(s) \/ Probe(s) \/ RemoveStale(s) \/ Bind(s) \/ Prepare(s) \/ Listen(s)
    \/ LookForPid(s) \/ ReplacePid(s) \/ CreatePid(s) \/ OwnPid(s) \/ WriteNumber(s)
    \/ StartFails(s) \/ StopListening(s) \/ Drain(s) \/ RemoveSocket(s) \/ RemovePid(s) \/ Kill(s)

EndpointSpec == EndpointInit /\ [][EndpointNext]_endpointVars

-----------------------------------------------------------------------------
(* Properties *)

\* A service that accepts connections is the one that is found at the path, and once it
\* serves the pid file is its own and holds no other's number, however many others start
\* beside it, give up, or have been killed before, in the midst of writing theirs too;
\* and one that ends by itself leaves no file of its own.  Only a service that met
\* another one in the midst of its start or its end may lose the files: nothing orders
\* these.
EndpointIsKept ==
  \A s \in Services :
    /\ Listens(s) /\ s \notin contested => endpoint = {s}
    /\ at[s] = "serving" /\ s \notin contested => pidFile = {s} /\ number \subseteq {s}
    /\ at[s] = "ended" => s \notin endpoint /\ s \notin pidFile
=============================================================================
