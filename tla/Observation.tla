----------------------------- MODULE Observation -----------------------------
(***************************************************************************)
(* One input session from the kernel to the consumer: the evdev adapter    *)
(* (input/evdev_adapter.py) with one reader task per interface and one     *)
(* queue they merge into, the observation pipeline that pulls from it      *)
(* (observation/pipeline.py), and the transport parser it feeds.           *)
(*                                                                         *)
(* observe() is an asynchronous generator: it runs when the consumer asks  *)
(* for the next event, and is suspended either in the adapter's queue.get  *)
(* or at a yield. Another task may call close() at any time, the consumer  *)
(* may be cancelled while it waits, or may leave the generator at a yield. *)
(***************************************************************************)
EXTENDS TransportParser, Sequences, FiniteSets

CONSTANTS
  Interfaces,   (* the interfaces opened: keyboard and, unless             *)
                (* include_mouse is off, mouse                             *)
  Keyboard,     (* transport_source_id                                     *)
  MaxInput      (* bound on the kernel events                              *)

ASSUME ObservationAssumption ==
  /\ Keyboard \in Interfaces
  /\ IsFiniteSet(Interfaces)
  /\ MaxInput \in Nat

VARIABLES
  pipe,      (* ObservationPipeline._state                                 *)
  gen,       (* where the generator observe() is suspended                 *)
  outcome,   (* how it ended, or will after its last release               *)
  pending,   (* releases still to be yielded                               *)
  closed,    (* EvdevInputAdapter._closed                                  *)
  handles,   (* the devices open                                           *)
  readers,   (* the reader tasks                                           *)
  merged,    (* EvdevInputAdapter._queue                                   *)
  running,   (* active_readers                                             *)
  stamp,     (* _last_timestamp_ns of the adapter, which is also the       *)
             (* pipeline's last raw timestamp                              *)
  seen,      (* controls the consumer saw go down and not up (the model's) *)
  seenTs,    (* timestamp of the last event the consumer got (likewise)    *)
  inputs     (* kernel events so far (likewise)                            *)

adapterVars == <<closed, handles, readers, merged>>
vars == <<parserVars, pipe, gen, outcome, pending, adapterVars, running,
          stamp, seen, seenTs, inputs>>

Key(i, c, v) == [from |-> i, kind |-> "key", code |-> c, value |-> v]
Item(i, k)   == [from |-> i, kind |-> k, code |-> Other, value |-> 0]

Init ==
  /\ ParserInit
  /\ pipe = "created" /\ gen = "new" /\ outcome = "none" /\ pending = {}
  /\ closed = FALSE /\ handles = {} /\ readers = [i \in Interfaces |-> "none"]
  /\ merged = <<>> /\ running = 0 /\ stamp = 0
  /\ seen = {} /\ seenTs = 0 /\ inputs = 0

(* Mutated forms, as in TransportParser.                                   *)
SentinelSlip(i)  == <<>>
FinalPipeSlip    == pipe
ResetTsSlip      == 0
OwedSlip(how, events) == IF how = "input" THEN {} ELSE events
TeardownSlip ==
  /\ closed' = TRUE
  /\ handles' = {}
  /\ UNCHANGED readers

(* Timestamps of the adapter strictly increase, whatever the clock says.   *)
Stamped(now) == IF now <= stamp THEN stamp + 1 ELSE now

(* The entry of the merge queue that says an interface has ended.          *)
Sentinel(i)  == <<Item(i, "end")>>
StillRunning == running - 1

(* close() of the adapter: cancel the readers, close the devices. A task   *)
(* that is cancelled before its first step never runs, its finally clause  *)
(* included.                                                               *)
Teardown ==
  /\ closed' = TRUE
  /\ handles' = {}
  /\ readers' = [i \in Interfaces |->
                   CASE readers[i] = "created" -> "never"
                     [] readers[i] = "reading" -> "stopping"
                     [] OTHER -> readers[i]]

CloseAdapter == IF closed THEN UNCHANGED <<closed, handles, readers>> ELSE Teardown

-----------------------------------------------------------------------------
(* Reader tasks, and the devices behind them. The tasks are created one    *)
(* after the other, so the event loop runs their first steps together.     *)

ReadersStart ==
  /\ \E i \in Interfaces : readers[i] = "created"
  /\ readers' = [i \in Interfaces |-> "reading"]
  /\ UNCHANGED <<parserVars, pipe, gen, outcome, pending, closed, handles,
                 merged, running, stamp, seen, seenTs, inputs>>

ReaderDelivers(i, item) ==
  /\ readers[i] = "reading"
  /\ inputs < MaxInput
  /\ inputs' = inputs + 1
  /\ merged' = Append(merged, item)
  /\ UNCHANGED <<parserVars, pipe, gen, outcome, pending, closed, handles,
                 readers, running, stamp, seen, seenTs>>

(* End of input, a read error, or the cancellation of the task.            *)
ReaderEnds(i, last) ==
  /\ readers' = [readers EXCEPT ![i] = "done"]
  /\ merged' = merged \o last \o Sentinel(i)
  /\ UNCHANGED <<parserVars, pipe, gen, outcome, pending, closed, handles,
                 running, stamp, seen, seenTs, inputs>>

ReaderFinishes(i) == readers[i] = "reading" /\ ReaderEnds(i, <<>>)
ReaderFails(i)    == readers[i] = "reading" /\ ReaderEnds(i, <<Item(i, "error")>>)
ReaderStops(i)    == readers[i] = "stopping" /\ ReaderEnds(i, <<>>)

-----------------------------------------------------------------------------
(* How observe() ends. The finally clause awaits the adapter's close(), a  *)
(* plain method: the TypeError is swallowed when there is an error already *)
(* and is an error of its own otherwise.                                   *)

FinalPipe == "closed"
ResetTs   == stamp + 1

Over(how) ==
  /\ gen' = "over"
  /\ outcome' = how
  /\ pipe' = FinalPipe
  /\ pending' = {}
  /\ CloseAdapter

Owed(how, events) == events

(* Releases are handed out one by one, and observe() ends after the last.  *)
(* An input error has closed the adapter before.                           *)
Releasing(how, events) ==
  IF Owed(how, events) = {}
  THEN Over(how) /\ UNCHANGED <<seen, seenTs>>
  ELSE /\ \E e \in Owed(how, events) :
            /\ pending' = Owed(how, events) \ {e}
            /\ seen' = Heard(seen, {e})
            /\ seenTs' = e.ts
       /\ gen' = "releasing"
       /\ outcome' = how
       /\ UNCHANGED pipe
       /\ IF how = "input" THEN CloseAdapter ELSE UNCHANGED <<closed, handles, readers>>

(* Cancelled or abandoned: the releases are dropped.                       *)
Drops(how) ==
  /\ Reset(0)
  /\ Over(how)
  /\ UNCHANGED <<merged, running, stamp, seen, seenTs, inputs>>

-----------------------------------------------------------------------------
(* The consumer asks for the first event.                                  *)

DiscoveryFails ==
  /\ gen = "new" /\ pipe = "created"
  /\ gen' = "over" /\ outcome' = "discovery" /\ pipe' = "closed"
  /\ UNCHANGED <<parserVars, pending, adapterVars, running, stamp, seen, seenTs, inputs>>

ObserveTooLate ==
  /\ gen = "new" /\ pipe = "closed"
  /\ gen' = "over" /\ outcome' = "state"
  /\ UNCHANGED <<parserVars, pipe, pending, adapterVars, running, stamp, seen, seenTs, inputs>>

(* A device cannot be opened; one that was is closed again.                *)
OpenFails ==
  /\ gen = "new" /\ pipe = "created"
  /\ Reset(ResetTs)
  /\ Over("input")
  /\ UNCHANGED <<merged, running, stamp, seen, seenTs, inputs>>

Opens ==
  /\ gen = "new" /\ pipe = "created"
  /\ gen' = "reading" /\ pipe' = "running"
  /\ handles' = Interfaces
  /\ readers' = [i \in Interfaces |-> "created"]
  /\ running' = Cardinality(Interfaces)
  /\ UNCHANGED <<parserVars, outcome, pending, closed, merged, stamp, seen, seenTs, inputs>>

-----------------------------------------------------------------------------
(* The generator waits in queue.get, and an item is there. What it does    *)
(* with the item takes it to "asking", the head of read_events()'s loop,   *)
(* without a suspension, or to a yield.                                    *)

Take(kind) ==
  /\ gen = "reading" /\ merged # <<>> /\ Head(merged).kind = kind
  /\ merged' = Tail(merged)
  /\ UNCHANGED inputs

TakeSentinel ==
  /\ Take("end")
  /\ running' = StillRunning
  /\ gen' = "asking"
  /\ UNCHANGED <<parserVars, pipe, outcome, pending, closed, handles, readers,
                 stamp, seen, seenTs>>

(* Not a key event, or a code without a name.                              *)
TakeNoise ==
  /\ Take("noise")
  /\ gen' = "asking"
  /\ UNCHANGED <<parserVars, pipe, outcome, pending, closed, handles, readers,
                 running, stamp, seen, seenTs>>

(* A key event gets its timestamp; only the keyboard's reach the parser.   *)
TakeKey(now) ==
  LET it == Head(merged)
      e  == [code |-> it.code, value |-> it.value, ts |-> Stamped(now)]
  IN  /\ Take("key")
      /\ stamp' = Stamped(now)
      /\ IF it.from = Keyboard THEN Feed(e) ELSE UNCHANGED parserVars
      /\ IF it.from = Keyboard /\ out' # {}
         THEN gen' = "paused" /\ seen' = Heard(seen, out') /\ seenTs' = e.ts
         ELSE gen' = "asking" /\ UNCHANGED <<seen, seenTs>>
      /\ UNCHANGED <<pipe, outcome, pending, closed, handles, readers, running>>

TakeError ==
  /\ Take("error")
  /\ Reset(ResetTs)
  /\ Releasing("input", out')
  /\ UNCHANGED <<running, stamp>>

(* The loop goes on while the adapter is open and an interface is left;    *)
(* else the input has ended.                                               *)
Asks ==
  /\ gen \in {"asking", "paused"}
  /\ IF ~closed /\ running > 0
     THEN /\ gen' = "reading"
          /\ UNCHANGED <<parserVars, pipe, outcome, pending, closed, handles,
                         readers, seen, seenTs>>
     ELSE /\ Reset(ResetTs)
          /\ Releasing("close_failed", out')
  /\ UNCHANGED <<merged, running, stamp, inputs>>

AsksForRelease ==
  /\ gen = "releasing"
  /\ Releasing(outcome, pending)
  /\ UNCHANGED <<parserVars, merged, running, stamp, inputs>>

-----------------------------------------------------------------------------
(* The consumer is cancelled while it waits; it leaves the generator at a  *)
(* yield; the event loop finalises a generator that was left.              *)
Cancel == gen = "reading" /\ Drops("cancelled")

Leave ==
  /\ gen \in {"paused", "releasing"}
  /\ gen' = "left"
  /\ UNCHANGED <<parserVars, pipe, outcome, pending, adapterVars, running,
                 stamp, seen, seenTs, inputs>>

Finalise == gen = "left" /\ Drops("abandoned")

(* close() of the pipeline, which raises after it has closed the adapter,  *)
(* for the same reason as above. Not possible while the generator runs.    *)
Close ==
  /\ gen # "asking"
  /\ pipe \in {"created", "running"}
  /\ IF pipe = "created"
     THEN pipe' = "closed" /\ UNCHANGED <<closed, handles, readers>>
     ELSE pipe' = "closing" /\ CloseAdapter
  /\ UNCHANGED <<parserVars, gen, outcome, pending, merged, running, stamp,
                 seen, seenTs, inputs>>

-----------------------------------------------------------------------------
Readers ==
  \/ ReadersStart
  \/ \E i \in Interfaces :
       \/ \E c \in Codes \cup {Shift}, v \in 0 .. 2 : ReaderDelivers(i, Key(i, c, v))
       \/ ReaderDelivers(i, Item(i, "noise"))
       \/ ReaderFinishes(i) \/ ReaderFails(i) \/ ReaderStops(i)

Starting == DiscoveryFails \/ ObserveTooLate \/ OpenFails \/ Opens

Generator ==
  \/ TakeSentinel \/ TakeNoise \/ TakeError
  \/ \E now \in 0 .. MaxTime : TakeKey(now)
  \/ Asks \/ AsksForRelease

Consumer == Cancel \/ Leave \/ Finalise \/ Close

Terminated ==
  /\ gen = "over" /\ \A i \in Interfaces : readers[i] \in {"none", "never", "done"}
  /\ UNCHANGED vars

Next == Readers \/ Starting \/ Generator \/ Consumer \/ Terminated

(* The event loop runs what is ready: a new or cancelled reader, a         *)
(* generator that has an item, a consumer that was given an event. Devices *)
(* may be silent.                                                          *)
Fairness ==
  /\ WF_vars(Generator)
  /\ WF_vars(ReadersStart)
  /\ \A i \in Interfaces : WF_vars(ReaderStops(i))

Spec     == Init /\ [][Next]_vars
FairSpec == Spec /\ Fairness

-----------------------------------------------------------------------------
(* Whatever ended it, an observation that is over leaves no device open    *)
(* and no reader running, and its pipeline is closed: the daemon's         *)
(* session.close() relies on it.                                           *)
EndsClean ==
  gen = "over" =>
    /\ pipe = "closed" /\ handles = {}
    /\ \A i \in Interfaces : readers[i] \notin {"created", "reading"}

(* Before an input error or the end of input is reported, the consumer has *)
(* been given the release of every control it saw go down                  *)
(* (docs/observation-pipeline.md, Reset and Error Handling).               *)
ReleasedWhenOver ==
  gen = "over" /\ outcome \in {"input", "close_failed"} => seen = {}

(* What the consumer was told is down is what the parser holds, or is      *)
(* about to be released: nothing is lost between the two.                  *)
SeenIsHeld ==
  gen \in {"reading", "asking", "paused", "releasing"} =>
    seen = Range(active) \cup {e.control : e \in pending}

(* The consumer's timestamps never decrease, synthetic releases included.  *)
InTimeOrder == [][seenTs' >= seenTs]_vars

(* A generator that waits is woken when the adapter is closed under it, or *)
(* when its devices are gone, if its readers ever ran.                     *)
WaitEnds ==
  (/\ gen = "reading"
   /\ closed \/ \A i \in Interfaces : readers[i] = "done"
   /\ \A i \in Interfaces : readers[i] # "never")
    ~> gen \in {"left", "over"}

(* The session the daemon's model assumes.                                 *)
Ending ==
  CASE outcome = "abandoned"                 -> "ended"
    [] outcome = "cancelled"                 -> "cancelled"
    [] outcome \in {"discovery", "input"}    -> "recoverable"
    [] outcome \in {"state", "close_failed"} -> "fatal"

Contract == INSTANCE SessionContract WITH
  session <- CASE gen = "over" -> Ending
               [] gen = "left" -> "ended"
               [] OTHER        -> "observing",
  stream <- IF pipe \in {"created", "running"} THEN "open" ELSE "closed"
ImplementsContract == Contract!Spec

=============================================================================
