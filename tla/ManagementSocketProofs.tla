----------------------- MODULE ManagementSocketProofs -----------------------
(***************************************************************************)
(* Proofs about the control socket, for any number of daemons and clients. *)
(*                                                                         *)
(* The path is changed by Unlink, Bind and Remove only. Two invariants of  *)
(* the daemons carry the result: whose socket is at the path is bound or   *)
(* dead (Bound); and while no two daemons start or stop at once, the path  *)
(* is the serving daemon's, which no other daemon has got past (Alone).    *)
(* The clients' exit codes follow from how a request, its connection and   *)
(* its answer go together (Answered).                                      *)
(***************************************************************************)
EXTENDS ManagementSocket, TLAPS

Passed == {"unlink", "bind", "listen", "chmod", "remove"}

Bound == path \in Daemons => daemon[path] \in {"listen", "chmod", "serving", "remove", "crashed"}

Accepting == \A d \in Daemons : d \in listening <=> daemon[d] \in {"chmod", "serving"}

OneChanges ==
  ~crowded => \A d, e \in Daemons :
    daemon[d] \in Starting \cup {"remove"} /\ daemon[e] \in Starting \cup {"remove"} => d = e

Owner ==
  ~crowded => \A d \in Daemons :
    daemon[d] \in {"listen", "chmod", "serving"} => path = d

Alone ==
  ~crowded => \A d \in Daemons : daemon[d] = "serving" =>
    d \in private /\ \A e \in Daemons : daemon[e] \notin Passed

PathInv == Bound /\ Accepting /\ OneChanges /\ Owner /\ Alone

(* What a client has done, its connection, its answer and its exit code.   *)
AnsweredOf(c) ==
  /\ client[c] \in {"new", "found"} => conn[c] = NoDaemon
  /\ conn[c] = NoDaemon => reply[c] = "none"
  /\ client[c] # "over" => code[c] = Running
  /\ reply[c] \in {"ok", "reload_failed"} => executed[c] = 1
  /\ reply[c] \notin {"ok", "reload_failed"} => executed[c] = 0
  /\ code[c] = Success => reply[c] = "ok"
  /\ code[c] = ReloadFailed => reply[c] = "reload_failed"
  /\ code[c] = Rejected => reply[c] = "rejected"
  /\ code[c] \in {NotRunning, Permission} => conn[c] = NoDaemon

Answered == \A c \in Clients : AnsweredOf(c)

IInv == TypeOK /\ PathInv /\ Answered

-----------------------------------------------------------------------------
LEMMA InitInv == Init => IInv
<1> SUFFICES ASSUME Init PROVE IInv
  OBVIOUS
<1>1. TypeOK
  BY DEF Init, TypeOK, DaemonLabels, ClientLabels, Replies, Codes, Alive, Starting, Running
<1>2. PathInv
  BY SocketAssumption DEF Init, PathInv, Bound, Accepting, OneChanges, Owner, Alone, Starting
<1>3. Answered
  BY DEF Init, Answered, AnsweredOf, Running, Success, ReloadFailed, Rejected, NotRunning, Permission
<1> QED BY <1>1, <1>2, <1>3 DEF IInv

(* Steps keep the shapes.                                                  *)
LEMMA GoneTypes ==
  ASSUME TypeOK, NEW d \in Daemons, Gone(d)
  PROVE  /\ listening' \subseteq Daemons
         /\ reply' \in [Clients -> Replies]
         /\ client' \in [Clients -> ClientLabels]
         /\ UNCHANGED <<kind, conn, code, executed>>
BY DEF TypeOK, Gone, Replies, ClientLabels

LEMMA DaemonTypes ==
  ASSUME TypeOK, NEW d \in Daemons, DaemonStep(d)
  PROVE  TypeOK'
<1>1. ASSUME NEW label \in DaemonLabels, Becomes(d, label)
      PROVE  daemon' \in [Daemons -> DaemonLabels]
  BY <1>1 DEF TypeOK, Becomes
<1> USE DEF DaemonLabels, Alive, Starting
<1>2. CASE Start(d)
  <2>1. daemon' \in [Daemons -> DaemonLabels]
    BY <1>1, <1>2 DEF Start
  <2> QED BY <2>1, <1>2 DEF Start, Changing, ClientVars, TypeOK
<1>3. CASE Probe(d)
  BY <1>1, <1>3 DEF Probe, ClientVars, TypeOK
<1>4. CASE Unlink(d)
  BY <1>1, <1>4 DEF Unlink, ClientVars, TypeOK, Others, NoFile
<1>5. CASE Bind(d)
  BY <1>1, <1>5 DEF Bind, ClientVars, TypeOK
<1>6. CASE Listen(d)
  BY <1>1, <1>6 DEF Listen, ClientVars, TypeOK
<1>7. CASE Chmod(d)
  BY <1>1, <1>7, GoneTypes DEF Chmod, ClientVars, TypeOK
<1>8. CASE StopBegins(d)
  BY <1>1, <1>8 DEF StopBegins, Changing, ClientVars, TypeOK
<1>9. CASE Remove(d)
  BY <1>1, <1>9, GoneTypes DEF Remove, LeftAtPath, TypeOK, Others
<1>10. CASE Crash(d)
  BY <1>1, <1>10, GoneTypes DEF Crash, TypeOK
<1> QED
  BY <1>2, <1>3, <1>4, <1>5, <1>6, <1>7, <1>8, <1>9, <1>10 DEF DaemonStep

LEMMA ExitTypes ==
  ASSUME TypeOK, NEW c \in Clients, NEW n \in Codes, Exits(c, n)
  PROVE  client' \in [Clients -> ClientLabels] /\ code' \in [Clients -> Codes]
BY DEF TypeOK, Exits, ClientLabels

LEMMA ClientTypes ==
  ASSUME TypeOK, NEW c \in Clients, ClientStep(c)
  PROVE  TypeOK'
<1>1. /\ client' \in [Clients -> ClientLabels]
      /\ code' \in [Clients -> Codes]
      /\ conn' \in [Clients -> Daemons \cup {NoDaemon}]
      /\ UNCHANGED <<DaemonVars, reply, executed>>
  <2>1. CASE Look(c)
    BY <2>1, ExitTypes DEF Look, Codes, ClientLabels, TypeOK
  <2>2. CASE Connect(c)
    BY <2>2, ExitTypes DEF Connect, Codes, ClientLabels, TypeOK
  <2>3. CASE Send(c)
    BY <2>3, ExitTypes DEF Send, Codes, ClientLabels, TypeOK
  <2>4. CASE Receive(c)
    <3>1. PICK n \in CodeOf(reply[c]) : Exits(c, n)
      BY <2>4 DEF Receive
    <3>2. n \in Codes
      BY <2>4 DEF Receive, CodeOf, Codes, TypeOK, Replies
    <3> QED BY <2>4, <3>1, <3>2, ExitTypes DEF Receive, TypeOK
  <2>5. CASE GivesUp(c)
    BY <2>5, ExitTypes DEF GivesUp, TimesOut, Codes, TypeOK
  <2> QED BY <2>1, <2>2, <2>3, <2>4, <2>5 DEF ClientStep
<1> QED BY <1>1 DEF TypeOK, DaemonVars

LEMMA ServerTypes ==
  ASSUME TypeOK, NEW c \in Clients, ServerStep(c)
  PROVE  TypeOK'
<1>1. /\ client' \in [Clients -> ClientLabels]
      /\ reply' \in [Clients -> Replies]
      /\ UNCHANGED <<DaemonVars, conn, code>>
  <2>1. CASE HangUp(c)
    BY <2>1 DEF HangUp, Replies, TypeOK
  <2>2. CASE Handle(c)
    BY <2>2 DEF Handle, Replies, TypeOK
  <2>3. CASE AskReload(c)
    BY <2>3 DEF AskReload, Replies, ClientLabels, TypeOK
  <2>4. CASE Reloaded(c)
    BY <2>4 DEF Reloaded, Replies, ClientLabels, TypeOK
  <2> QED BY <2>1, <2>2, <2>3, <2>4 DEF ServerStep
<1>2. executed' \in [Clients -> Nat]
  <2>1. UNCHANGED executed \/ Execute(c)
    BY DEF ServerStep, HangUp, Handle, AskReload, Reloaded
  <2> QED BY <2>1 DEF Execute, TypeOK
<1> QED BY <1>1, <1>2 DEF TypeOK, DaemonVars

-----------------------------------------------------------------------------
(* Steps that leave the path and the daemons alone keep what is known of   *)
(* them.                                                                   *)
LEMMA ClientsKeepPath == PathInv /\ UNCHANGED DaemonVars => PathInv'
BY DEF PathInv, DaemonVars, Bound, Accepting, OneChanges, Owner, Alone

LEMMA DaemonsKeepPath ==
  ASSUME TypeOK, PathInv, NEW d \in Daemons, DaemonStep(d)
  PROVE  PathInv'
<1> USE SocketAssumption DEF TypeOK, Becomes, Others
<1>1. CASE Start(d)
  <2>1. daemon[d] = "off" /\ UNCHANGED <<path, listening, private>>
    BY <1>1 DEF Start
  <2>2. /\ daemon'[d] \in {"bind", "refused", "probe"}
        /\ path # NoFile => daemon'[d] # "bind"
        /\ \A e \in Daemons \ {d} : daemon'[e] = daemon[e]
    BY <1>1 DEF Start, NoFile
  <2>3. ~crowded' => ~crowded /\ \A e \in Daemons \ {d} : daemon[e] \notin Starting \cup {"remove"}
    BY <1>1 DEF Start, Changing
  <2>4. Bound' /\ Accepting'
    BY <2>1, <2>2 DEF PathInv, Bound, Accepting
  <2>5. OneChanges'
    BY <2>2, <2>3 DEF OneChanges, Starting
  <2>6. Owner'
    BY <2>1, <2>2, <2>3 DEF PathInv, Owner
  <2>7. Alone'
    BY <2>1, <2>2, <2>3 DEF PathInv, Alone, Owner, Passed, Starting, NoFile
  <2> QED BY <2>4, <2>5, <2>6, <2>7 DEF PathInv
<1>2. CASE Probe(d)
  <2>1. /\ daemon[d] = "probe" /\ UNCHANGED <<path, listening, private, crowded>>
        /\ daemon' = [daemon EXCEPT ![d] = IF LooksDead THEN "unlink" ELSE "refused"]
    BY <1>2 DEF Probe
  <2>2. Bound' /\ Accepting' /\ OneChanges' /\ Owner'
    BY <2>1 DEF PathInv, Bound, Accepting, OneChanges, Owner, Starting
  <2>3. Alone'
    BY <2>1 DEF PathInv, Accepting, Owner, Alone, Passed, LooksDead
  <2> QED BY <2>2, <2>3 DEF PathInv
<1>3. CASE Unlink(d)
  <2>1. /\ daemon[d] = "unlink" /\ UNCHANGED <<listening, private, crowded>>
        /\ daemon'[d] \in {"refused", "bind"} /\ path' \in {path, NoFile}
        /\ \A e \in Daemons \ {d} : daemon'[e] = daemon[e]
        /\ daemon'[d] = "refused" => path' = path
    BY <1>3 DEF Unlink
  <2>2. Bound' /\ Accepting'
    BY <2>1 DEF PathInv, Bound, Accepting, NoFile
  <2>3. OneChanges'
    BY <2>1 DEF PathInv, OneChanges, Starting
  <2>4. ~crowded => \A e \in Daemons : daemon[e] \notin {"listen", "chmod", "serving"}
    BY <2>1 DEF PathInv, OneChanges, Alone, Passed, Starting
  <2>5. Owner' /\ Alone'
    BY <2>1, <2>4 DEF Owner, Alone
  <2> QED BY <2>2, <2>3, <2>5 DEF PathInv
<1>4. CASE Bind(d)
  <2>1. /\ daemon[d] = "bind" /\ UNCHANGED <<listening, private, crowded>>
        /\ daemon' = [daemon EXCEPT ![d] = "listen"] /\ path' = d
    BY <1>4 DEF Bind
  <2>2. Bound' /\ Accepting' /\ OneChanges'
    BY <2>1 DEF PathInv, Bound, Accepting, OneChanges, Starting
  <2>3. ~crowded => \A e \in Daemons \ {d} : daemon[e] \notin {"listen", "chmod", "serving"}
    BY <2>1 DEF PathInv, OneChanges, Alone, Passed, Starting
  <2>4. Owner' /\ Alone'
    BY <2>1, <2>3 DEF Owner, Alone
  <2> QED BY <2>2, <2>4 DEF PathInv
<1>5. CASE Listen(d)
  <2>1. /\ daemon[d] = "listen" /\ UNCHANGED <<path, private, crowded>>
        /\ daemon' = [daemon EXCEPT ![d] = "chmod"] /\ listening' = listening \cup {d}
    BY <1>5 DEF Listen
  <2>2. Bound' /\ Accepting' /\ OneChanges' /\ Owner'
    BY <2>1 DEF PathInv, Bound, Accepting, OneChanges, Owner, Starting
  <2>3. Alone'
    BY <2>1 DEF PathInv, Alone, Passed
  <2> QED BY <2>2, <2>3 DEF PathInv
<1>6. CASE Chmod(d) /\ path = NoFile
  <2>1. /\ daemon[d] = "chmod" /\ UNCHANGED <<path, private, crowded>>
        /\ daemon' = [daemon EXCEPT ![d] = "refused"] /\ listening' = listening \ {d}
    BY <1>6 DEF Chmod, Gone
  <2>2. Bound' /\ Accepting' /\ OneChanges' /\ Owner'
    BY <1>6, <2>1 DEF PathInv, Bound, Accepting, OneChanges, Owner, Starting
  <2>3. Alone'
    BY <2>1 DEF PathInv, Alone, Passed
  <2> QED BY <2>2, <2>3 DEF PathInv
<1>7. CASE Chmod(d) /\ path # NoFile
  <2>1. /\ daemon[d] = "chmod" /\ UNCHANGED <<path, listening, crowded>>
        /\ daemon' = [daemon EXCEPT ![d] = "serving"]
        /\ private' = IF path \in Daemons THEN private \cup {path} ELSE private
    BY <1>7 DEF Chmod, ClientVars
  <2>2. Bound' /\ Accepting'
    BY <2>1 DEF PathInv, Bound, Accepting
  <2>3. OneChanges' /\ Owner'
    BY <2>1 DEF PathInv, OneChanges, Owner, Starting
  <2>4. ~crowded => path = d /\ \A e \in Daemons \ {d} : daemon[e] \notin Passed /\ daemon[e] # "serving"
    BY <2>1 DEF PathInv, OneChanges, Owner, Alone, Passed, Starting
  <2>5. Alone'
    BY <2>1, <2>4 DEF Alone, Passed
  <2> QED BY <2>2, <2>3, <2>5 DEF PathInv
<1>8. CASE StopBegins(d)
  <2>1. /\ daemon[d] = "serving" /\ UNCHANGED <<path, private>>
        /\ daemon' = [daemon EXCEPT ![d] = "remove"] /\ listening' = listening \ {d}
    BY <1>8 DEF StopBegins
  <2>2. ~crowded' => ~crowded /\ \A e \in Daemons \ {d} : daemon[e] \notin Starting \cup {"remove"}
    BY <1>8 DEF StopBegins, Changing
  <2>3. Bound' /\ Accepting'
    BY <2>1 DEF PathInv, Bound, Accepting
  <2>4. OneChanges'
    BY <2>1, <2>2 DEF OneChanges
  <2>5. ~crowded => \A e \in Daemons \ {d} : daemon[e] # "serving"
    BY <2>1 DEF PathInv, Owner
  <2>6. Owner' /\ Alone'
    BY <2>1, <2>2, <2>5 DEF PathInv, Owner, Alone
  <2> QED BY <2>3, <2>4, <2>6 DEF PathInv
<1>9. CASE Remove(d)
  <2>1. /\ daemon[d] = "remove" /\ UNCHANGED <<private, crowded>>
        /\ daemon' = [daemon EXCEPT ![d] = "stopped"] /\ listening' = listening \ {d}
        /\ path' = NoFile
    BY <1>9 DEF Remove, Gone, LeftAtPath
  <2>2. Bound' /\ Accepting' /\ OneChanges'
    BY <2>1 DEF PathInv, Bound, Accepting, OneChanges, Starting
  <2>3. ~crowded => \A e \in Daemons : daemon[e] \notin {"listen", "chmod", "serving"}
    BY <2>1 DEF PathInv, OneChanges, Alone, Passed, Starting
  <2>4. Owner' /\ Alone'
    BY <2>1, <2>3 DEF Owner, Alone
  <2> QED BY <2>2, <2>4 DEF PathInv
<1>10. CASE Crash(d)
  <2>1. /\ UNCHANGED <<path, private, crowded>>
        /\ daemon' = [daemon EXCEPT ![d] = "crashed"] /\ listening' = listening \ {d}
    BY <1>10 DEF Crash, Gone
  <2>2. Bound' /\ Accepting' /\ OneChanges' /\ Owner'
    BY <2>1 DEF PathInv, Bound, Accepting, OneChanges, Owner, Starting
  <2>3. Alone'
    BY <2>1 DEF PathInv, Alone, Passed
  <2> QED BY <2>2, <2>3 DEF PathInv
<1> QED
  BY <1>1, <1>2, <1>3, <1>4, <1>5, <1>6, <1>7, <1>8, <1>9, <1>10 DEF DaemonStep

-----------------------------------------------------------------------------
(* What Answered says of each client is kept by every step.                *)
LEMMA OthersAnswered ==
  ASSUME NEW c \in Clients, AnsweredOf(c), client'[c] = client[c], conn'[c] = conn[c],
         reply'[c] = reply[c], code'[c] = code[c], executed'[c] = executed[c]
  PROVE  AnsweredOf(c)'
BY DEF AnsweredOf

LEMMA GoneAnswered ==
  ASSUME TypeOK, NEW d \in Daemons, Gone(d), NEW c \in Clients, AnsweredOf(c)
  PROVE  AnsweredOf(c)'
<1>1. conn[c] = d => conn[c] # NoDaemon
  BY SocketAssumption
<1>2. /\ UNCHANGED <<conn, code, executed>>
      /\ reply'[c] = IF conn[c] = d /\ reply[c] = "none" THEN "closed" ELSE reply[c]
      /\ client'[c] = IF conn[c] = d /\ client[c] = "reloading" THEN "sent" ELSE client[c]
  BY DEF Gone
<1> QED
  BY <1>1, <1>2 DEF AnsweredOf, Running, Success, ReloadFailed, Rejected, NotRunning, Permission

LEMMA DaemonsAnswered ==
  ASSUME TypeOK, NEW d \in Daemons, DaemonStep(d), NEW c \in Clients, AnsweredOf(c)
  PROVE  AnsweredOf(c)'
<1>1. CASE Gone(d)
  BY <1>1, GoneAnswered
<1>2. CASE UNCHANGED ClientVars
  BY <1>2, OthersAnswered DEF ClientVars
<1> QED
  BY <1>1, <1>2 DEF DaemonStep, Start, Probe, Unlink, Bind, Listen, Chmod, StopBegins, Remove, Crash

LEMMA ExitAnswered ==
  ASSUME TypeOK, NEW c \in Clients, AnsweredOf(c),
         conn' = conn, reply' = reply, executed' = executed,
         NEW n \in Codes, client'[c] = "over", code'[c] = n,
         n = Success => reply[c] = "ok",
         n = ReloadFailed => reply[c] = "reload_failed",
         n = Rejected => reply[c] = "rejected",
         n \in {NotRunning, Permission} => conn[c] = NoDaemon
  PROVE  AnsweredOf(c)'
<1>2. conn'[c] = conn[c] /\ reply'[c] = reply[c] /\ executed'[c] = executed[c]
  OBVIOUS
<1> QED BY <1>2 DEF AnsweredOf

LEMMA ExitsTo ==
  ASSUME TypeOK, NEW c \in Clients, NEW n, Exits(c, n)
  PROVE  client'[c] = "over" /\ code'[c] = n
BY DEF TypeOK, Exits

LEMMA ClientAnswered ==
  ASSUME TypeOK, NEW c \in Clients, ClientStep(c), AnsweredOf(c)
  PROVE  AnsweredOf(c)'
<1> USE DEF Running, Success, NotRunning, Protocol, Rejected, ReloadFailed, Permission, Internal
<1>0. /\ 4 \in Codes /\ 8 \in Codes /\ 9 \in Codes
      /\ client[c] \in {"new", "found"} => conn[c] = NoDaemon
  BY DEF Codes, AnsweredOf
<1>1. CASE Look(c)
  <2>1. client[c] = "new" /\ conn' = conn /\ reply' = reply /\ executed' = executed
    BY <1>1 DEF Look
  <2>2. CASE Exits(c, 4)
    <3>1. client'[c] = "over" /\ code'[c] = 4
      BY <2>2, ExitsTo
    <3> QED BY <1>0, <2>1, <3>1, ExitAnswered
  <2>3. CASE client' = [client EXCEPT ![c] = "found"] /\ code' = code
    BY <2>1, <2>3 DEF AnsweredOf, TypeOK
  <2> QED BY <1>1, <2>2, <2>3 DEF Look
<1>2. CASE Connect(c)
  <2>1. client[c] = "found" /\ UNCHANGED <<reply, executed>>
    BY <1>2 DEF Connect
  <2>2. CASE conn' = conn /\ \E n \in {4, 8, 9} : Exits(c, n)
    <3>1. PICK n \in {4, 8, 9} : client'[c] = "over" /\ code'[c] = n
      BY <2>2 DEF TypeOK, Exits
    <3> QED BY <1>0, <2>1, <2>2, <3>1, ExitAnswered
  <2>3. CASE client' = [client EXCEPT ![c] = "connected"] /\ code' = code
             /\ conn' = [conn EXCEPT ![c] = path] /\ path \in Daemons
    <3>1. client'[c] = "connected" /\ conn'[c] # NoDaemon
      BY <2>3, SocketAssumption DEF TypeOK
    <3>2. reply'[c] = reply[c] /\ executed'[c] = executed[c] /\ code'[c] = code[c] /\ code[c] = 99
      BY <2>1, <2>3 DEF AnsweredOf
    <3> QED BY <3>1, <3>2 DEF AnsweredOf
  <2> QED BY <1>2, <2>2, <2>3 DEF Connect
<1>3. CASE Send(c)
  <2>1. client[c] = "connected" /\ conn' = conn /\ reply' = reply /\ executed' = executed
    BY <1>3 DEF Send
  <2>2. CASE Exits(c, 9)
    <3>1. client'[c] = "over" /\ code'[c] = 9
      BY <2>2, ExitsTo
    <3> QED BY <1>0, <2>1, <3>1, ExitAnswered
  <2>3. CASE client' = [client EXCEPT ![c] = "sent"] /\ code' = code
    BY <2>1, <2>3 DEF AnsweredOf, TypeOK
  <2> QED BY <1>3, <2>2, <2>3 DEF Send
<1>4. CASE Receive(c)
  <2>1. PICK n \in CodeOf(reply[c]) : client'[c] = "over" /\ code'[c] = n
    BY <1>4 DEF Receive, Exits, TypeOK
  <2>2. reply[c] # "none" /\ conn' = conn /\ reply' = reply /\ executed' = executed
    BY <1>4 DEF Receive
  <2>3. \/ reply[c] = "ok" /\ n = 0
        \/ reply[c] = "rejected" /\ n = 6
        \/ reply[c] = "reload_failed" /\ n = 7
        \/ reply[c] = "closed" /\ n \in {5, 9}
    BY <2>1, <2>2 DEF CodeOf, Replies, TypeOK
  <2>4. n \in Codes
    BY <2>3 DEF Codes
  <2> QED BY <2>1, <2>2, <2>3, <2>4, ExitAnswered
<1>5. CASE GivesUp(c)
  <2>1. /\ client'[c] = "over" /\ code'[c] = 9
        /\ conn' = conn /\ reply' = reply /\ executed' = executed
    BY <1>5 DEF GivesUp, TimesOut, Exits, TypeOK
  <2> QED BY <1>0, <2>1, ExitAnswered
<1> QED BY <1>1, <1>2, <1>3, <1>4, <1>5 DEF ClientStep

LEMMA ServerAnswered ==
  ASSUME TypeOK, NEW c \in Clients, ServerStep(c), AnsweredOf(c)
  PROVE  AnsweredOf(c)'
<1> USE DEF TypeOK, AnsweredOf, Serves, Execute, Running, Success, NotRunning, Rejected,
            ReloadFailed, Permission
<1>1. CASE HangUp(c)
  BY <1>1 DEF HangUp
<1>2. CASE Handle(c)
  BY <1>2 DEF Handle
<1>3. CASE AskReload(c)
  BY <1>3 DEF AskReload
<1>4. CASE Reloaded(c)
  BY <1>4 DEF Reloaded
<1> QED BY <1>1, <1>2, <1>3, <1>4 DEF ServerStep

(* A client's own steps leave the others alone.                            *)
LEMMA OnlyThisClient ==
  ASSUME TypeOK, NEW c \in Clients, ClientStep(c) \/ ServerStep(c), NEW x \in Clients, x # c
  PROVE  /\ client'[x] = client[x] /\ conn'[x] = conn[x] /\ reply'[x] = reply[x]
         /\ code'[x] = code[x] /\ executed'[x] = executed[x]
<1>1. CASE ClientStep(c)
  BY <1>1 DEF TypeOK, ClientStep, Look, Connect, Send, Receive, GivesUp, TimesOut, Exits
<1>2. CASE ServerStep(c)
  BY <1>2 DEF TypeOK, ServerStep, HangUp, Handle, AskReload, Reloaded, Execute
<1> QED BY <1>1, <1>2

LEMMA NextInv == IInv /\ [Next]_vars => IInv'
<1> SUFFICES ASSUME IInv, [Next]_vars PROVE IInv'
  OBVIOUS
<1>1. ASSUME NEW d \in Daemons, DaemonStep(d) PROVE IInv'
  <2>1. TypeOK' /\ PathInv'
    BY <1>1, DaemonTypes, DaemonsKeepPath DEF IInv
  <2>2. \A c \in Clients : AnsweredOf(c)'
    BY <1>1, DaemonsAnswered DEF IInv, Answered
  <2> QED BY <2>1, <2>2 DEF IInv, Answered
<1>2. ASSUME NEW c \in Clients, ClientStep(c) \/ ServerStep(c) PROVE IInv'
  <2>1. TypeOK'
    BY <1>2, ClientTypes, ServerTypes DEF IInv
  <2>2. UNCHANGED DaemonVars
    BY <1>2 DEF ClientStep, ServerStep, Look, Connect, Send, Receive, GivesUp,
                HangUp, Handle, AskReload, Reloaded
  <2>3. ASSUME NEW x \in Clients PROVE AnsweredOf(x)'
    <3>1. CASE x = c
      BY <1>2, <3>1, ClientAnswered, ServerAnswered DEF IInv, Answered
    <3>2. CASE x # c
      BY <1>2, <3>2, OnlyThisClient, OthersAnswered DEF IInv, Answered
    <3> QED BY <3>1, <3>2
  <2>4. Answered'
    BY <2>3 DEF Answered
  <2> QED BY <2>1, <2>2, <2>4, ClientsKeepPath DEF IInv
<1>3. CASE UNCHANGED vars
  <2>1. TypeOK'
    BY <1>3 DEF IInv, TypeOK, vars
  <2>2. Answered'
    BY <1>3 DEF IInv, Answered, AnsweredOf, vars
  <2>3. UNCHANGED DaemonVars
    BY <1>3 DEF vars, DaemonVars
  <2> QED BY <2>1, <2>2, <2>3, ClientsKeepPath DEF IInv
<1> QED BY <1>1, <1>2, <1>3 DEF Next

LEMMA Invariance == Spec => []IInv
BY InitInv, NextInv, PTL DEF Spec

-----------------------------------------------------------------------------
(* The shapes of processes and connections (setup_server_socket to         *)
(* _send_command) hold in every reachable state, for any sets of processes. *)
THEOREM TypeCorrect == Spec => []TypeOK
BY Invariance, PTL DEF IInv

(* A daemon that refused to start or stopped never leaves its socket at    *)
(* the path (server.py stop, socket_path.py), whatever the others do.      *)
THEOREM NeverStaleSocket == Spec => []NoStaleSocket
<1>1. IInv => NoStaleSocket
  BY DEF IInv, PathInv, Bound, NoStaleSocket
<1> QED BY <1>1, Invariance, PTL

(* While daemons start and stop one at a time, there is one server at most *)
(* and the path leads to it.                                               *)
THEOREM PathAlwaysLeads == Spec => []PathLeadsToServer
<1>1. IInv => PathLeadsToServer
  BY DEF IInv, PathInv, Accepting, Owner, Alone, PathLeadsToServer
<1> QED BY <1>1, Invariance, PTL

(* However daemons crash and answers are late, a request is executed once  *)
(* at most and the exit code of yyr4ctl (cli.py) is true of it.            *)
THEOREM ExitCodeAlwaysTrue == Spec => []ExitCodeIsTrue
<1>1. ASSUME IInv PROVE ExitCodeIsTrue
  <2> SUFFICES ASSUME NEW c \in Clients
               PROVE  /\ executed[c] <= 1
                      /\ code[c] \in {Success, ReloadFailed} => executed[c] = 1
                      /\ code[c] \in {NotRunning, Rejected, Permission} => executed[c] = 0
    BY DEF ExitCodeIsTrue
  <2>1. AnsweredOf(c)
    BY <1>1 DEF IInv, Answered
  <2> QED BY <2>1 DEF AnsweredOf
<1> QED BY <1>1, Invariance, PTL
=============================================================================
