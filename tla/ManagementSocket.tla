-------------------------- MODULE ManagementSocket --------------------------
(***************************************************************************)
(* The control socket: how daemons come and go at its path                 *)
(* (management/server.py, socket_path.py), and what a `yyr4ctl` command    *)
(* makes of the daemon it finds there (management/client.py, cli.py,       *)
(* peer_cred.py).                                                          *)
(*                                                                         *)
(* Daemons and clients are processes: one step is what one of them does    *)
(* between two looks at the path or at a connection. A daemon starts once; *)
(* a restart is another daemon. What a request does to the runtime is the  *)
(* subject of DaemonRuntime: here it is executed, refused, or, for a       *)
(* reload, answered at some time or never.                                 *)
(***************************************************************************)
EXTENDS Naturals, FiniteSets

CONSTANTS
  Daemons,    (* processes of the daemon                                   *)
  Clients     (* yyr4ctl commands that need the daemon                     *)

NoFile    == "no_file"
PlainFile == "plain_file"
Foreign   == "foreign_socket"
Others    == {NoFile, PlainFile, Foreign}

NoDaemon  == "no_daemon"

ASSUME SocketAssumption == Daemons \cap (Others \cup {NoDaemon}) = {}

(* A reload, any other request, and one that another user makes.           *)
Kinds == {"reload", "other", "stranger"}

VARIABLES
  path,       (* what is at the path: a daemon's socket or one of Others   *)
  listening,  (* the daemons whose socket accepts connections              *)
  private,    (* the daemons whose socket only its owner may connect to    *)
  daemon,     (* what each daemon is doing                                 *)
  kind,       (* what each client is                                       *)
  client,     (* what each client is doing                                 *)
  conn,       (* the daemon each client is connected to                    *)
  reply,      (* what the client's end of the connection will read         *)
  code,       (* the exit code of each client, Running before              *)
  executed,   (* history: how often each client's request was executed     *)
  crowded     (* history: two daemons were starting or stopping at once    *)

vars == <<path, listening, private, daemon, kind, client, conn, reply, code, executed, crowded>>

DaemonVars == <<path, listening, private, daemon, crowded, kind>>
ClientVars == <<kind, client, conn, reply, code, executed>>

-----------------------------------------------------------------------------
Starting == {"probe", "unlink", "bind", "listen", "chmod"}
Alive    == Starting \cup {"serving", "remove"}

(* EXIT_SUCCESS, EXIT_NOT_RUNNING, EXIT_PROTOCOL, EXIT_REJECTED,           *)
(* EXIT_RELOAD_FAILED, EXIT_PERMISSION and EXIT_INTERNAL of cli.py.        *)
Success == 0
NotRunning == 4
Protocol == 5
Rejected == 6
ReloadFailed == 7
Permission == 8
Internal == 9
Running == 99

DaemonLabels == {"off"} \cup Alive \cup {"stopped", "refused", "crashed"}
ClientLabels == {"new", "found", "connected", "sent", "reloading", "over"}
Replies      == {"none", "ok", "rejected", "reload_failed", "closed"}
Codes == {Success, NotRunning, Protocol, Rejected, ReloadFailed, Permission, Internal, Running}

(* Every process and every connection has its shape.                       *)
TypeOK ==
  /\ path \in Daemons \cup Others
  /\ listening \subseteq Daemons
  /\ private \subseteq Daemons
  /\ daemon \in [Daemons -> DaemonLabels]
  /\ kind \in [Clients -> Kinds]
  /\ client \in [Clients -> ClientLabels]
  /\ conn \in [Clients -> Daemons \cup {NoDaemon}]
  /\ reply \in [Clients -> Replies]
  /\ code \in [Clients -> Codes]
  /\ executed \in [Clients -> Nat]
  /\ crowded \in BOOLEAN

Init ==
  /\ path \in Others
  /\ listening = {}
  /\ private = {}
  /\ daemon = [d \in Daemons |-> "off"]
  /\ kind \in [Clients -> Kinds]
  /\ client = [c \in Clients |-> "new"]
  /\ conn = [c \in Clients |-> NoDaemon]
  /\ reply = [c \in Clients |-> "none"]
  /\ code = [c \in Clients |-> Running]
  /\ executed = [c \in Clients |-> 0]
  /\ crowded = FALSE

-----------------------------------------------------------------------------
(* A daemon starts: setup_server_socket, start_unix_server, chmod.         *)
Becomes(d, label) == daemon' = [daemon EXCEPT ![d] = label]

Changing(d) == \E e \in Daemons \ {d} : daemon[e] \in Starting \cup {"remove"}

Start(d) ==
  /\ daemon[d] = "off"
  /\ Becomes(d, CASE path = NoFile -> "bind" [] path = PlainFile -> "refused"
                  [] OTHER -> "probe")
  /\ crowded' = (crowded \/ Changing(d))
  /\ UNCHANGED <<path, listening, private, ClientVars>>

LooksDeadSlip == path # NoFile

(* Connecting is refused when nobody listens, to a plain file as well.     *)
LooksDead == path # NoFile /\ path \notin listening

Probe(d) ==
  /\ daemon[d] = "probe"
  /\ Becomes(d, IF LooksDead THEN "unlink" ELSE "refused")
  /\ UNCHANGED <<path, listening, private, crowded, ClientVars>>

Unlink(d) ==
  /\ daemon[d] = "unlink"
  /\ IF path \in {NoFile, Foreign}
       THEN Becomes(d, "refused") /\ UNCHANGED path
       ELSE Becomes(d, "bind") /\ path' = NoFile
  /\ UNCHANGED <<listening, private, crowded, ClientVars>>

(* start_unix_server removes a socket it finds at the path, whoever's it   *)
(* is, and makes its own.                                                  *)
Bind(d) ==
  /\ daemon[d] = "bind"
  /\ Becomes(d, "listen")
  /\ path' = d
  /\ UNCHANGED <<listening, private, crowded, ClientVars>>

Listen(d) ==
  /\ daemon[d] = "listen"
  /\ Becomes(d, "chmod")
  /\ listening' = listening \cup {d}
  /\ UNCHANGED <<path, private, crowded, ClientVars>>

(* What ends with its process: its listening socket, and its connections.  *)
Gone(d) ==
  /\ listening' = listening \ {d}
  /\ reply' = [c \in Clients |-> IF conn[c] = d /\ reply[c] = "none" THEN "closed" ELSE reply[c]]
  /\ client' = [c \in Clients |->
                  IF conn[c] = d /\ client[c] = "reloading" THEN "sent" ELSE client[c]]
  /\ UNCHANGED <<kind, conn, code, executed>>

(* The mode is set by name: on whatever is at the path by then.            *)
Chmod(d) ==
  /\ daemon[d] = "chmod"
  /\ IF path = NoFile
       THEN Becomes(d, "refused") /\ Gone(d) /\ UNCHANGED private
       ELSE /\ Becomes(d, "serving")
            /\ private' = IF path \in Daemons THEN private \cup {path} ELSE private
            /\ UNCHANGED <<listening, ClientVars>>
  /\ UNCHANGED <<path, crowded>>

(* The runtime has ended; the listening socket is closed first. How long   *)
(* wait_closed takes depends on the connections and the Python version.    *)
StopBegins(d) ==
  /\ daemon[d] = "serving"
  /\ Becomes(d, "remove")
  /\ listening' = listening \ {d}
  /\ crowded' = (crowded \/ Changing(d))
  /\ UNCHANGED <<path, private, ClientVars>>

LeftAtPathSlip == path

LeftAtPath == NoFile

(* The path is removed if there is anything at it, and the process ends.   *)
Remove(d) ==
  /\ daemon[d] = "remove"
  /\ Becomes(d, "stopped")
  /\ path' = LeftAtPath
  /\ Gone(d)
  /\ UNCHANGED <<private, crowded>>

Crash(d) ==
  /\ daemon[d] \in Alive
  /\ Becomes(d, "crashed")
  /\ Gone(d)
  /\ UNCHANGED <<path, private, crowded>>

-----------------------------------------------------------------------------
(* A client: ManagementClient.send_request, and the exit code _send_command*)
(* makes of what it returns or raises.                                     *)
Exits(c, n) ==
  /\ client' = [client EXCEPT ![c] = "over"]
  /\ code' = [code EXCEPT ![c] = n]

Look(c) ==
  /\ client[c] = "new"
  /\ IF path = NoFile THEN Exits(c, NotRunning)
     ELSE client' = [client EXCEPT ![c] = "found"] /\ UNCHANGED code
  /\ UNCHANGED <<DaemonVars, conn, reply, executed>>

(* A path that is gone by now raises an error nobody expects.              *)
Connect(c) ==
  /\ client[c] = "found"
  /\ \/ path = NoFile /\ Exits(c, Internal) /\ UNCHANGED conn
     \/ path = Foreign /\ Exits(c, Permission) /\ UNCHANGED conn
     \/ path = PlainFile /\ Exits(c, NotRunning) /\ UNCHANGED conn
     \/ /\ path \in Daemons
        /\ IF kind[c] = "stranger" /\ path \in private THEN Exits(c, Permission) /\ UNCHANGED conn
           ELSE IF path \notin listening THEN Exits(c, NotRunning) /\ UNCHANGED conn
           ELSE /\ client' = [client EXCEPT ![c] = "connected"]
                /\ conn' = [conn EXCEPT ![c] = path]
                /\ UNCHANGED code
  /\ UNCHANGED <<DaemonVars, reply, executed>>

Send(c) ==
  /\ client[c] = "connected"
  /\ \/ client' = [client EXCEPT ![c] = "sent"] /\ UNCHANGED code
     \/ reply[c] = "closed" /\ Exits(c, Internal)
  /\ UNCHANGED <<DaemonVars, conn, reply, executed>>

CodeOf(r) ==
  CASE r = "ok"            -> {Success}
    [] r = "rejected"      -> {Rejected}
    [] r = "reload_failed" -> {ReloadFailed}
    [] r = "closed"        -> {Protocol, Internal}

Receive(c) ==
  /\ client[c] = "sent"
  /\ reply[c] # "none"
  /\ \E n \in CodeOf(reply[c]) : Exits(c, n)
  /\ UNCHANGED <<DaemonVars, conn, reply, executed>>

TimesOutSlip(c) == Exits(c, NotRunning)

TimesOut(c) == Exits(c, Internal)

WaitingStatesSlip == {"sent"}

WaitingStates == {"sent", "reloading"}

(* No answer in five seconds. The daemon goes on with the request.         *)
GivesUp(c) ==
  /\ client[c] \in WaitingStates
  /\ reply[c] = "none"
  /\ TimesOut(c)
  /\ UNCHANGED <<DaemonVars, conn, reply, executed>>

-----------------------------------------------------------------------------
(* The daemon's end of a connection: _handle_client. A stranger, and who   *)
(* does not send a line in five seconds, is answered with nothing.         *)
Serves(c) ==
  /\ conn[c] # NoDaemon
  /\ daemon[conn[c]] \in {"chmod", "serving", "remove"}
  /\ reply[c] = "none"

HangUp(c) ==
  /\ Serves(c)
  /\ kind[c] = "stranger" \/ client[c] = "connected"
  /\ reply' = [reply EXCEPT ![c] = "closed"]
  /\ UNCHANGED <<DaemonVars, client, conn, code, executed>>

Execute(c) == executed' = [executed EXCEPT ![c] = @ + 1]

(* Every request but a reload is done at once. One whose client has given  *)
(* up is done all the same.                                                *)
Handle(c) ==
  /\ Serves(c)
  /\ kind[c] = "other"
  /\ client[c] \in {"sent", "over"}
  /\ \/ Execute(c) /\ reply' = [reply EXCEPT ![c] = "ok"]
     \/ reply' = [reply EXCEPT ![c] = "rejected"] /\ UNCHANGED executed
  /\ UNCHANGED <<DaemonVars, client, conn, code>>

(* A reload waits for the reload loop, or is refused when the daemon ends. *)
AskReload(c) ==
  /\ Serves(c)
  /\ kind[c] = "reload"
  /\ client[c] = "sent"
  /\ \/ client' = [client EXCEPT ![c] = "reloading"] /\ UNCHANGED reply
     \/ reply' = [reply EXCEPT ![c] = "rejected"] /\ UNCHANGED client
  /\ UNCHANGED <<DaemonVars, conn, code, executed>>

(* The client waits in the same call while its request is executed.        *)
Reloaded(c) ==
  /\ Serves(c)
  /\ kind[c] = "reload"
  /\ client[c] \in {"reloading", "over"}
  /\ Execute(c)
  /\ \E r \in {"ok", "reload_failed"} : reply' = [reply EXCEPT ![c] = r]
  /\ client' = [client EXCEPT ![c] = IF @ = "reloading" THEN "sent" ELSE @]
  /\ UNCHANGED <<DaemonVars, conn, code>>

-----------------------------------------------------------------------------
DaemonStep(d) ==
  \/ Start(d) \/ Probe(d) \/ Unlink(d) \/ Bind(d) \/ Listen(d) \/ Chmod(d)
  \/ StopBegins(d) \/ Remove(d) \/ Crash(d)

ClientStep(c) == Look(c) \/ Connect(c) \/ Send(c) \/ Receive(c) \/ GivesUp(c)

ServerStep(c) == HangUp(c) \/ Handle(c) \/ AskReload(c) \/ Reloaded(c)

Next ==
  \/ \E d \in Daemons : DaemonStep(d)
  \/ \E c \in Clients : ClientStep(c) \/ ServerStep(c)

Spec == Init /\ [][Next]_vars

(* Nothing is asked of the daemons: a client ends by its own time-outs.    *)
FairSpec == Spec /\ \A c \in Clients : WF_vars(ClientStep(c))

-----------------------------------------------------------------------------
(* As long as no two daemons start or stop at the same time, one at most   *)
(* serves, and whoever opens the path reaches it.                          *)
PathLeadsToServer ==
  ~crowded => \A d \in Daemons : daemon[d] = "serving" =>
    /\ path = d /\ d \in listening /\ d \in private
    /\ \A e \in Daemons : daemon[e] = "serving" => e = d

(* Only a crash leaves a dead socket behind: whatever other daemons do, a  *)
(* daemon that stopped, or that refused to start, has none at the path.    *)
NoStaleSocket ==
  path \in Daemons => daemon[path] \notin {"off", "stopped", "refused"}

(* A request is executed at most once, and the exit code tells the truth,  *)
(* now and later: success and a failed reload mean it was, "not running",  *)
(* "rejected" and "no permission" that it was not and will not be.         *)
ExitCodeIsTrue ==
  \A c \in Clients :
    /\ executed[c] <= 1
    /\ code[c] \in {Success, ReloadFailed} => executed[c] = 1
    /\ code[c] \in {NotRunning, Rejected, Permission} => executed[c] = 0

(* Every command ends, whatever becomes of the daemons.                    *)
ClientEnds == \A c \in Clients : <>(client[c] = "over")
=============================================================================
