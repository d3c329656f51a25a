--------------------------- MODULE DockerCollector ---------------------------
(***************************************************************************)
(* One collector process, from the end of its start-up loop on             *)
(* (docker-collector.go, line 142), beside the Docker daemon it watches.   *)
(*                                                                         *)
(*  - The daemon (external) runs containers and emits an event at every    *)
(*    change.  status[c] and pid[c] are what InspectContainer answers.     *)
(*  - StartMonitorEvents (vendored dockerclient) reads the event stream in *)
(*    a goroutine of its own and hands the events to listenForEvents in    *)
(*    order.  listenForEvents starts one goroutine per event, and these    *)
(*    race for containersMutex: the order of the stream is lost there.     *)
(*  - The goroutine inside the critical section calls the daemon and runs  *)
(*    shell commands while it holds the lock; the daemon moves on          *)
(*    meanwhile, so every call is a step of its own.                       *)
(*  - main reads all counters under the same lock, once per period.        *)
(*                                                                         *)
(* UpdateNode is the call that ships the registry to the database.  In     *)
(* this module it returns; what a lost Logstash connection does to it is   *)
(* left out.  The clock is left out, too: main's sleep ends at any time.  A *)
(* PID is never used twice.                                                *)
(***************************************************************************)
EXTENDS Registry

CONSTANTS
  Filterable,  \* the containers with a name, now or ever, that -f matches
  MaxEvents    \* bound: the daemon emits at most so many events

ASSUME ConstantsAssumption ==
  /\ IsFiniteSet(Container)
  /\ Filterable \subseteq Container
  /\ MaxEvents \in Nat

EventStatus == {"create", "rename", "start", "stop", "die", "destroy"}
Event == [seq : Nat, id : Container, status : EventStatus]

VARIABLES
  \* the Docker daemon
  status,           \* life cycle of every container
  pid,              \* State.Pid: the PID while the container runs, else 0
  lastPid,          \* the PID handed out last
  stopping,         \* containers whose docker stop has not emitted "stop" yet
  matching,         \* containers whose present name matches -f
  lastSeq,          \* the number of events emitted so far
  \* the event stream
  monitor,          \* "on", or "dead" once the stream has failed
  stream,           \* events on their way to listenForEvents, in order of seq
  \* the collector's goroutines
  waiting,          \* events whose goroutine waits for containersMutex
  inside,           \* the event whose goroutine is in the critical section
  hpc,              \* where that goroutine is
  hpid,             \* the PID it got from the daemon
  mpc,              \* where main is
  cursor,           \* the index i of main's loop in readContainers
  containersMutex,  \* who holds the lock
  \* the collector's data
  containers,       \* Node.Containers
  published,        \* the registry as UpdateNode saw it last
  \* history, read by no action
  calm,             \* containers never started with an event of theirs in flight
  ambiguous,        \* containers of which not every test against -f answers the same
  faulted,          \* containers for which a call to the daemon or the shell failed
  sampled           \* whether the counters of a container's run were "read", "shipped"

nameVars    == <<matching, ambiguous>>
lifeVars    == <<status, pid, lastPid, stopping, calm>>
dockerVars  == <<status, pid, lastPid, lastSeq, stopping, matching, ambiguous, calm>>
handlerVars == <<inside, hpc, hpid>>
mainVars    == <<mpc, cursor>>
dataVars    == <<containers, published>>
vars == <<dockerVars, monitor, stream, waiting, handlerVars, mainVars,
          containersMutex, dataVars, faulted, sampled>>
-----------------------------------------------------------------------------
(* The Docker daemon and the host *)

\* An event of c that the collector has not finished with.  Some events change
\* nothing in the collector and do not count.
Ignored == {"create", "rename"}

InFlight(c) ==
  \E e \in stream \cup waiting \cup inside : e.id = c /\ e.status \notin Ignored

\* ls and cat succeed on /proc/p only while the process runs; /proc/0 never is.
Readable(p) == p # 0 /\ \E c \in Container : pid[c] = p

NewEvent(c, s) == [seq |-> lastSeq + 1, id |-> c, status |-> s]

\* The daemon emits events only to a stream that is up.
Emit(c, s) ==
  /\ lastSeq < MaxEvents
  /\ stream' = IF monitor = "on" THEN stream \cup {NewEvent(c, s)} ELSE stream
  /\ lastSeq' = lastSeq + 1
  /\ UNCHANGED <<monitor, waiting, handlerVars, mainVars, containersMutex,
                 dataVars, faulted>>

DockerCreate(c) ==
  /\ status[c] = "absent"
  /\ status' = [status EXCEPT ![c] = "created"]
  /\ Emit(c, "create")
  /\ UNCHANGED <<pid, lastPid, stopping, calm, nameVars, sampled>>

DockerStart(c) ==
  /\ status[c] \in {"created", "exited"}
  /\ status' = [status EXCEPT ![c] = "running"]
  /\ lastPid' = lastPid + 1
  /\ pid' = [pid EXCEPT ![c] = lastPid + 1]
  /\ calm' = IF InFlight(c) \/ c \in stopping THEN calm \ {c} ELSE calm
  /\ Emit(c, "start")
  /\ UNCHANGED <<stopping, nameVars, sampled>>

\* The container's process ends.
Exit(c) ==
  /\ status[c] = "running"
  /\ status' = [status EXCEPT ![c] = "exited"]
  /\ pid' = [pid EXCEPT ![c] = 0]
  /\ sampled' = [sampled EXCEPT ![c] = "no"]
  /\ Emit(c, "die")
  /\ UNCHANGED <<lastPid, calm, nameVars>>

DockerDie(c) == Exit(c) /\ UNCHANGED stopping

\* docker stop: "stop" follows the "die", by which time the container may run
\* again.
DockerStop(c) == Exit(c) /\ stopping' = stopping \cup {c}

DockerStopped(c) ==
  /\ c \in stopping
  /\ stopping' = stopping \ {c}
  /\ Emit(c, "stop")
  /\ UNCHANGED <<status, pid, lastPid, calm, nameVars, sampled>>

DockerDestroy(c) ==
  /\ status[c] \in {"created", "exited"}
  /\ status' = [status EXCEPT ![c] = "removed"]
  /\ Emit(c, "destroy")
  /\ UNCHANGED <<pid, lastPid, stopping, calm, nameVars, sampled>>

\* A new name, of which the test against -f may say something else.
DockerRename(c) ==
  /\ c \in Filterable
  /\ status[c] \notin {"absent", "removed"}
  /\ matching' = IF c \in matching THEN matching \ {c} ELSE matching \cup {c}
  /\ ambiguous' = ambiguous \cup {c}
  /\ Emit(c, "rename")
  /\ UNCHANGED <<lifeVars, sampled>>

Docker == \E c \in Container :
  \/ DockerCreate(c) \/ DockerStart(c) \/ DockerDie(c) \/ DockerDestroy(c)
  \/ DockerStop(c) \/ DockerStopped(c) \/ DockerRename(c)
-----------------------------------------------------------------------------
(* The event stream *)

\* The stream fails (connection lost, an event that does not decode).  Events
\* that the monitor's goroutines hold still arrive (see EventMonitor); then its
\* last goroutine returns, ec is nil, so nobody is told, and nothing connects
\* again.
StreamFails ==
  /\ monitor = "on"
  /\ monitor' = "dead"
  /\ \E n \in 0..lastSeq : stream' = {e \in stream : e.seq <= n}
  /\ UNCHANGED <<dockerVars, waiting, handlerVars, mainVars, containersMutex,
                 dataVars, faulted, sampled>>

\* listenForEvents: the oldest event of the stream gets a goroutine.
ListenForEvents ==
  \E e \in stream :
    /\ \A f \in stream : e.seq <= f.seq
    /\ stream' = stream \ {e}
    /\ waiting' = waiting \cup {e}
    /\ UNCHANGED <<dockerVars, monitor, handlerVars, mainVars, containersMutex,
                   dataVars, faulted, sampled>>
-----------------------------------------------------------------------------
(* The goroutine of an event *)

\* Faulty variant of FirstStep: "die" only pauses the container.
FirstStepDiePauses(s) ==
  CASE s = "start" -> "inspect"
    [] s \in {"stop", "die"} -> "deactivate"
    [] s = "destroy" -> "delete"
    [] OTHER -> "unlock"

\* The case of the switch that an event's status selects.
FirstStep(s) ==
  CASE s = "start" -> "inspect"
    [] s = "stop" -> "deactivate"
    [] s \in {"die", "destroy"} -> "delete"
    [] OTHER -> "unlock"

\* Any waiting goroutine may get the lock, not only that of the oldest event.
HandlerLock ==
  /\ containersMutex = "free"
  /\ \E e \in waiting :
       /\ waiting' = waiting \ {e}
       /\ inside' = {e}
       /\ hpc' = FirstStep(e.status)
  /\ containersMutex' = "handler"
  /\ UNCHANGED <<dockerVars, monitor, stream, hpid, mainVars, dataVars, faulted, sampled>>

handlerFrame == <<dockerVars, monitor, stream, waiting, inside, mainVars,
                  containersMutex, sampled>>

\* A call on behalf of c fails; it is a fault if it could have succeeded.
Fault(c, possible) == faulted' = IF possible THEN faulted \cup {c} ELSE faulted

\* Faulty variant of Matches: the name is not matched against -f.
MatchesNever(c) == FALSE

\* The test on the name that InspectContainer answers, the present one.
Matches(c) == c \in matching

\* "start": InspectContainer, and the -f expression against the name.
InspectOnStart(e) ==
  /\ hpc = "inspect"
  /\ \/ /\ status[e.id] # "removed"
        /\ hpc' = IF Matches(e.id) THEN "unlock" ELSE "activate"
        /\ hpid' = pid[e.id]
        /\ UNCHANGED faulted
     \/ /\ hpc' = "unlock"
        /\ Fault(e.id, status[e.id] # "removed")
        /\ UNCHANGED hpid
  /\ UNCHANGED <<handlerFrame, dataVars>>

\* Node.Activate: an entry that exists is switched on again if its interfaces
\* can be listed; without one, Node.Create is called.
Activate(e) ==
  /\ hpc = "activate"
  /\ LET i == GetSliceIndex(containers, e.id) IN
     \/ /\ i = 0
        /\ hpc' = "create"
        /\ UNCHANGED <<containers, faulted>>
     \/ /\ i # 0
        /\ Readable(hpid)
        /\ containers' = Reactivated(containers, i)
        /\ hpc' = "update"
        /\ UNCHANGED faulted
     \/ /\ i # 0
        /\ Fault(e.id, Readable(hpid))
        /\ hpc' = "update"
        /\ UNCHANGED containers
  /\ UNCHANGED <<handlerFrame, hpid, published>>

\* Node.Create inspects the container once more, ...
CreateInspect(e) ==
  /\ hpc = "create"
  /\ \/ /\ status[e.id] # "removed"
        /\ hpid' = pid[e.id]
        /\ hpc' = "list"
        /\ UNCHANGED faulted
     \/ /\ hpc' = "update"
        /\ Fault(e.id, status[e.id] # "removed")
        /\ UNCHANGED hpid
  /\ UNCHANGED <<handlerFrame, dataVars>>

\* ... lists its interfaces and appends it.
CreateAppend(e) ==
  /\ hpc = "list"
  /\ \/ /\ Readable(hpid)
        /\ containers' = Created(containers, e.id, hpid)
        /\ UNCHANGED faulted
     \/ /\ Fault(e.id, Readable(hpid))
        /\ UNCHANGED containers
  /\ hpc' = "update"
  /\ UNCHANGED <<handlerFrame, hpid, published>>

\* Faulty variant of AfterPause: UpdateNode is not called after a pause.
AfterPauseSilent == "unlock"

AfterPause == "update"

\* "stop": Node.Deactivate.
DeactivateOnStop(e) ==
  /\ hpc = "deactivate"
  /\ LET i == GetSliceIndex(containers, e.id) IN
     \/ /\ i = 0
        /\ hpc' = "unlock"
        /\ UNCHANGED containers
     \/ /\ i # 0
        /\ containers' = Deactivated(containers, i)
        /\ hpc' = AfterPause
  /\ UNCHANGED <<handlerFrame, hpid, published, faulted>>

\* "die" and "destroy": DeleteByIndex, which calls UpdateNode itself.
DeleteOnDie(e) ==
  /\ hpc = "delete"
  /\ LET i == GetSliceIndex(containers, e.id) IN
     \/ /\ i = 0
        /\ hpc' = "unlock"
        /\ UNCHANGED dataVars
     \/ /\ i # 0
        /\ containers' = DeletedByIndex(containers, i)
        /\ published' = containers'
        /\ hpc' = "update"
  /\ UNCHANGED <<handlerFrame, hpid, faulted>>

\* UpdateDBNode, with the lock held.
HandlerUpdateDBNode ==
  /\ hpc = "update"
  /\ published' = containers
  /\ hpc' = "unlock"
  /\ UNCHANGED <<handlerFrame, hpid, containers, faulted>>

HandlerUnlock ==
  /\ hpc = "unlock"
  /\ containersMutex' = "free"
  /\ inside' = {}
  /\ hpc' = "none"
  /\ hpid' = 0
  /\ UNCHANGED <<dockerVars, monitor, stream, waiting, mainVars, dataVars,
                 faulted, sampled>>

Handler ==
  \/ \E e \in inside :
       \/ InspectOnStart(e)
       \/ Activate(e)
       \/ CreateInspect(e)
       \/ CreateAppend(e)
       \/ DeactivateOnStop(e)
       \/ DeleteOnDie(e)
  \/ HandlerUpdateDBNode
  \/ HandlerUnlock
-----------------------------------------------------------------------------
(* main *)

mainFrame == <<dockerVars, monitor, stream, waiting, handlerVars, containers, faulted>>

\* Faulty variant of FirstIndex: the loop starts at 0 in a sequence that starts
\* at 1.
FirstIndexZero == 0

FirstIndex == 1

\* The first time the lock guards the reading whose values are discarded; later
\* on a period with no active container is skipped.
MainLock ==
  /\ mpc \in {"first", "awake"}
  /\ containersMutex = "free"
  /\ containersMutex' = "main"
  /\ mpc' = CASE mpc = "first" -> "discard"
              [] mpc = "awake" /\ ActiveContainers(containers) # 0 -> "read"
              [] OTHER -> "unlock"
  /\ cursor' = FirstIndex
  /\ UNCHANGED <<mainFrame, published, sampled>>

\* readContainers, one container at a time: the counters of an active entry are
\* read under its PID.  A reading that fails counts as 0.
ReadContainer ==
  /\ mpc \in {"discard", "read"}
  /\ cursor <= Len(containers)
  /\ LET entry == containers[cursor] IN
       sampled' = IF /\ mpc = "read" /\ entry.active /\ Readable(entry.pid)
                     /\ sampled[entry.id] = "no"
                  THEN [sampled EXCEPT ![entry.id] = "read"] ELSE sampled
  /\ cursor' = cursor + 1
  /\ UNCHANGED <<mainFrame, mpc, containersMutex, published>>

\* The discarded reading is followed by CreateCluster and CreateNode.
DiscardDone ==
  /\ mpc = "discard"
  /\ cursor > Len(containers)
  /\ mpc' = "setup"
  /\ UNCHANGED <<mainFrame, cursor, containersMutex, published, sampled>>

\* Faulty variant of UpdateAfterReading: what was read is not sent.
NothingAfterReading == UNCHANGED <<published, sampled>>

UpdateAfterReading ==
  /\ published' = containers
  /\ sampled' = [c \in Container |-> IF sampled[c] = "read" THEN "shipped" ELSE sampled[c]]

\* A regular reading is followed by UpdateDBNode.
ReadDone ==
  /\ mpc = "read"
  /\ cursor > Len(containers)
  /\ UpdateAfterReading
  /\ mpc' = "unlock"
  /\ UNCHANGED <<mainFrame, cursor, containersMutex>>

\* A period ends with a sleep for what is left of refreshTime.  If that is
\* negative, or too short for a goroutine that Unlock has woken to run, main is
\* back at the lock at once.
MainUnlock ==
  /\ mpc \in {"setup", "unlock"}
  /\ containersMutex' = "free"
  /\ mpc' \in IF mpc = "setup" THEN {"awake"} ELSE {"asleep", "awake"}
  /\ UNCHANGED <<mainFrame, cursor, published, sampled>>

MainWakes ==
  /\ mpc = "asleep"
  /\ mpc' = "awake"
  /\ UNCHANGED <<mainFrame, cursor, containersMutex, published, sampled>>

\* What main does whoever else wants the lock.
MainInside == ReadContainer \/ DiscardDone \/ ReadDone \/ MainUnlock

Main == MainLock \/ MainInside \/ MainWakes
-----------------------------------------------------------------------------
(* The specification *)

Running == {c \in Container : status[c] = "running"}

\* A start-up during which the daemon was quiet: every container has a PID or
\* none, and the running ones are registered, in the order ListContainers gave
\* them, except those whose Create failed and those with a matching name: the
\* start-up loop goes over all Names, aliases given by links among them, so
\* that it skips containers (ambiguous here) of which Matches says no.
Init ==
  /\ status \in [Container -> {"absent", "created", "running", "exited"}]
  /\ pid \in [Container -> 0..Cardinality(Container)]
  /\ \A c \in Container : pid[c] # 0 <=> c \in Running
  /\ \A c, d \in Running : pid[c] = pid[d] => c = d
  /\ lastPid = Cardinality(Container)
  /\ lastSeq = 0
  /\ stopping = {}
  /\ matching \in SUBSET Filterable
  /\ ambiguous \in SUBSET (Filterable \ matching)
  /\ monitor = "on"
  /\ stream = {} /\ waiting = {} /\ inside = {}
  /\ hpc = "none" /\ hpid = 0
  /\ mpc = "first" /\ cursor = 1
  /\ containersMutex = "free"
  /\ faulted \in SUBSET (Running \ (matching \cup ambiguous))
  /\ \E order \in SetToSeqs(Running \ (matching \cup ambiguous \cup faulted)) :
       containers = [i \in DOMAIN order |->
                       [id |-> order[i], pid |-> pid[order[i]], active |-> TRUE]]
  /\ published = containers
  /\ calm = Container
  /\ sampled = [c \in Container |-> "no"]

Next == Docker \/ StreamFails \/ ListenForEvents \/ HandlerLock \/ Handler \/ Main

\* The goroutines of the process keep running, and a sleep ends.  The lock comes
\* without a promise: while main competes for it, nothing says that an event
\* goroutine ever gets it, as an unlocked sync.Mutex goes to whoever is first.
\* Only while main is asleep does a goroutine that wants it get it, as often as
\* that happens.  Events are finitely many, so that nobody keeps main out.
\* Nothing is assumed of the daemon.
Fairness ==
  /\ WF_vars(ListenForEvents)
  /\ WF_vars(Handler)
  /\ WF_vars(MainInside)
  /\ WF_vars(MainWakes)
  /\ WF_vars(MainLock)
  /\ SF_vars(mpc = "asleep" /\ HandlerLock)

Spec == Init /\ [][Next]_vars /\ Fairness
-----------------------------------------------------------------------------
(* Properties *)

TypeOK ==
  /\ status \in [Container -> {"absent", "created", "running", "exited", "removed"}]
  /\ pid \in [Container -> Nat]
  /\ lastPid \in Nat
  /\ lastSeq \in Nat
  /\ stopping \in SUBSET Container
  /\ matching \in SUBSET Filterable /\ ambiguous \in SUBSET Filterable
  /\ monitor \in {"on", "dead"}
  /\ stream \in SUBSET Event /\ waiting \in SUBSET Event /\ inside \in SUBSET Event
  /\ hpc \in {"none", "inspect", "activate", "create", "list", "deactivate",
              "delete", "update", "unlock"}
  /\ hpid \in Nat
  /\ mpc \in {"first", "asleep", "awake", "discard", "setup", "read", "unlock"}
  /\ cursor \in Nat \ {0}
  /\ containersMutex \in {"free", "main", "handler"}
  /\ containers \in Seq(Entry) /\ published \in Seq(Entry)
  /\ calm \in SUBSET Container
  /\ faulted \in SUBSET Container
  /\ sampled \in [Container -> {"no", "read", "shipped"}]

\* No container is registered twice, whatever the order in which the event
\* goroutines get the lock: its counters would be shipped twice, and a single
\* "die" would leave one of the two entries behind.
UniqueEntries == NoDuplicates(containers)

Removal == {"die", "destroy"}

\* As long as the stream is up, a registered container runs, or an event that
\* will remove it is still to be handled: goroutines that overtake each other
\* leave no entry behind for a container that is gone.
NoGhost ==
  monitor = "on" =>
    \A c \in Ids(containers) :
      \/ status[c] = "running"
      \/ \E e \in stream \cup waiting : e.id = c /\ e.status \in Removal
      \/ hpc = "delete" /\ \E e \in inside : e.id = c

\* The containers whose name has matched -f all along, and those of which neither
\* the name nor an alias ever has.
Excluded == matching \ ambiguous
Included == Container \ (matching \cup ambiguous)

\* A container whose name has matched -f ever since the collector started is never
\* registered, whatever is asked of the daemon before and after the test.  Of one
\* that is renamed nothing is said: the test is made when it starts, so that a
\* registered one stays under a name that matches.
FilterHonoured == Ids(containers) \cap Excluded = {}

\* Whenever the lock is free, UpdateNode has been called with the registry as it
\* is: no critical section ends with a change it has not tried to ship.
PublishedWhenFree == containersMutex = "free" => published = containers

\* A container is followed exactly when the collector had caught up with it at
\* every start: with no call failed and none of its events in flight, it is
\* registered if and only if it runs (and no name of its ever matched -f), it is
\* active, and /proc is read under the PID of the present run.
CalmAudit ==
  monitor = "on" =>
    \A c \in (calm \cap Included) \ faulted :
      ~InFlight(c) =>
        /\ status[c] = "running" <=> c \in Ids(containers)
        /\ \A i \in DOMAIN containers :
             containers[i].id = c =>
               containers[i] = [id |-> c, pid |-> pid[c], active |-> TRUE]

\* A container that runs, never had a name that -f matches, has no failed call and
\* no event in flight is registered.
RunningIsFollowed ==
  monitor = "on" =>
    \A c \in Included \ faulted :
      status[c] = "running" /\ ~InFlight(c) => c \in Ids(containers)

\* Under the same conditions, an active entry carries the PID of its container.
ActivePidIsReal ==
  monitor = "on" =>
    \A i \in DOMAIN containers :
      LET entry == containers[i] IN
        /\ entry.active
        /\ status[entry.id] = "running"
        /\ entry.id \notin faulted
        /\ ~InFlight(entry.id)
        => entry.pid = pid[entry.id]

\* The containers that CalmAudit speaks of while they run.
Auditable(c) ==
  /\ monitor = "on"
  /\ c \in (calm \cap Included) \ faulted
  /\ status[c] = "running"

\* The periods of main leave something to sleep again and again.  Without that an
\* event goroutine may wait for the lock for ever.
MainSleeps == []<>(mpc = "asleep")

\* If main sleeps, the counters of every run of such a container are read and
\* then shipped, unless the run ends or a call fails first: its start event gets
\* the lock, and main's readings reach it.
EventuallySampled ==
  MainSleeps =>
    \A c \in Container : Auditable(c) ~> (sampled[c] = "shipped" \/ ~Auditable(c))

\* If main sleeps, the entry of a container that does not run is removed in the
\* end, unless the container is started again or the stream fails.
EventuallyForgotten ==
  MainSleeps =>
    \A c \in Container :
      (c \in Ids(containers) /\ status[c] # "running")
        ~> (c \notin Ids(containers) \/ status[c] = "running" \/ monitor = "dead")
-----------------------------------------------------------------------------
(* The inductive invariant behind the safety properties *)

\* containersMutex, the place of main and the place of the event goroutine
\* agree: at most one of them is in a critical section.
LockInv ==
  /\ containersMutex = "handler" <=> hpc # "none"
  /\ containersMutex = "main" <=> mpc \in {"discard", "setup", "read", "unlock"}
  /\ hpc = "none" <=> inside = {}
  /\ \A e, f \in inside : e = f

\* The goroutine is in the branch of the switch that its event selects.
BranchInv ==
  \A e \in inside :
    /\ hpc \in {"inspect", "activate", "create", "list"} => e.status = "start"
    /\ hpc = "delete" => e.status \in Removal
    /\ hpc = "deactivate" => e.status = "stop"

\* A PID belongs to one running container; the goroutine holds a PID of its own
\* container or one that belongs to nobody any more.
PidInv ==
  /\ \A c \in Container : pid[c] <= lastPid /\ (pid[c] # 0 <=> status[c] = "running")
  /\ \A c, d \in Container : pid[c] = pid[d] /\ pid[c] # 0 => c = d
  /\ hpid <= lastPid
  /\ hpc \in {"activate", "list"} =>
       \A e \in inside : \A c \in Container : pid[c] = hpid /\ hpid # 0 => c = e.id

\* An event is in one place at a time, and new events get new numbers.
SeqInv ==
  /\ \A e \in stream \cup waiting \cup inside : e.seq <= lastSeq
  /\ stream \cap waiting = {} /\ stream \cap inside = {} /\ waiting \cap inside = {}

\* Between the look at the registry and the append, nobody adds the container.
RegistryInv ==
  /\ UniqueEntries
  /\ hpc \in {"create", "list"} => \A e \in inside : e.id \notin Ids(containers)

\* Past the test on its name, a container's name has not matched all along.
FilterInv ==
  /\ FilterHonoured
  /\ hpc \in {"activate", "create", "list"} => \A e \in inside : e.id \notin Excluded

\* UpdateNode has not been given the registry only while the goroutine is about to
\* call it.
PublishInv == hpc # "update" => published = containers

\* A start event of c that has not reached the registry yet.
StartPending(c) ==
  \/ \E e \in stream \cup waiting : e.id = c /\ e.status = "start"
  \/ /\ hpc \in {"inspect", "activate", "create", "list"}
     /\ \E e \in inside : e.id = c

\* A calm container that runs: the only event of its in flight is the start of this
\* run, no "stop" of an earlier run is still to come, and it is not registered
\* before that start is handled and is, under the PID of this run, afterwards.
FollowInv ==
  monitor = "on" =>
    \A c \in calm :
      status[c] = "running" =>
        /\ \A e, f \in stream \cup waiting \cup inside :
             /\ e.id = c /\ e.status \notin Ignored
             /\ f.id = c /\ f.status \notin Ignored
             => e = f /\ e.status = "start"
        /\ c \notin stopping
        /\ StartPending(c) => c \notin Ids(containers)
        /\ hpc = "list" => \A e \in inside : e.id = c => hpid = pid[c]
        /\ ~StartPending(c) /\ c \in Included \ faulted =>
             /\ c \in Ids(containers)
             /\ \A i \in DOMAIN containers :
                  containers[i].id = c =>
                    containers[i] = [id |-> c, pid |-> pid[c], active |-> TRUE]

IInv ==
  /\ LockInv /\ BranchInv /\ PidInv /\ SeqInv
  /\ RegistryInv /\ FilterInv /\ PublishInv
  /\ NoGhost /\ FollowInv
=============================================================================
