------------------------------- MODULE Startup -------------------------------
(***************************************************************************)
(* The start of the process that DockerCollector takes up at line 142 of   *)
(* docker-collector.go: main waits for the daemon, lists the containers,   *)
(* starts the monitor and registers what it has listed.                    *)
(*                                                                         *)
(*  - The monitor's goroutine opens the event stream when it gets to it.   *)
(*    What happens between the listing and then is told to nobody.         *)
(*  - main appends to Node.Containers without containersMutex, while the   *)
(*    goroutines of events do so with it: a data race.  main's append is   *)
(*    modelled in two steps, the read of the slice header and its write,   *)
(*    with what a goroutine does to the slice in between coming out in any *)
(*    of the ways that the order of the memory accesses gives.  A header   *)
(*    is read and written in one piece here.                               *)
(*  - main's UpdateNode is a step, as in DockerCollector.                  *)
(***************************************************************************)
EXTENDS DockerCollector, Integers

CONSTANT Retries   \* how often Info is tried again while the counter is positive

ASSUME RetriesAssumption == Retries \in Nat

VARIABLES
  spc,      \* where main is, "done" at line 142, "exit" if it has returned
  retries,  \* attempts left
  todo,     \* listed containers still to be looked at
  skipped,  \* listed containers with a name or an alias that -f matches
  new,      \* the entry that Create is about to append
  slice,    \* main's append: the slice it has read, and what became of it
  \* history, read by no action
  touched,  \* containers the daemon has changed since they were listed
  raced     \* whether a goroutine has ever changed the registry during an append

startVars == <<spc, retries, todo, skipped, new, slice, touched, raced>>
allVars == <<vars, startVars>>

\* cap: the capacity of the array behind Node.Containers; view, viewCap: the
\* slice main is appending to, and the capacity it will have; shared: whether
\* its array is that of Node.Containers; dirty: whether a goroutine has written
\* Node.Containers since.
Slice == [cap : Nat, view : Seq(Entry), viewCap : Nat, shared : BOOLEAN, dirty : BOOLEAN]

NoAppend == [cap |-> 0, view |-> <<>>, viewCap |-> 0, shared |-> FALSE, dirty |-> FALSE]

Exists(c) == status[c] \notin {"absent", "removed"}
-----------------------------------------------------------------------------
(* The slice *)

\* append moves a slice that is full to an array of twice the length.
Grown(cap) == IF cap = 0 THEN 1 ELSE 2 * cap
CapFor(length, cap) == IF length > cap THEN Grown(cap) ELSE cap

\* What a change of Node.Containers by a goroutine does to the slice that main
\* is appending to: as long as the array is the same, its elements change.
Aliased(s, cs) ==
  LET cap == CapFor(Len(cs), s.cap)
      shared == s.shared /\ cap = s.cap
  IN [s EXCEPT !.cap = cap, !.shared = shared, !.dirty = TRUE,
               !.view = IF shared THEN [i \in DOMAIN @ |-> IF i <= Len(cs) THEN cs[i] ELSE @[i]]
                        ELSE @]

\* The outcomes of main's append of e: the goroutine's entry has been overwritten
\* or has overwritten main's, or the goroutine's header has overwritten main's.
\* Without a change by a goroutine they are one.
Outcomes(e) ==
  {Append(slice.view, e)}
  \cup {SubSeq(cs, 1, Len(slice.view) + 1) :
          cs \in {cs \in {containers} : slice.shared /\ Len(cs) > Len(slice.view)}}
  \cup {cs \in {containers} : slice.dirty}
-----------------------------------------------------------------------------
(* main *)

otherVars == <<lifeVars, matching, lastSeq, stream, waiting, handlerVars, mainVars,
               containersMutex, sampled>>
mainKeeps == <<otherVars, ambiguous>>

\* Faulty variant of MayRetry: there is always one more attempt.
AlwaysRetry(r) == TRUE

MayRetry(r) == r >= 0

\* Info, until the daemon answers.
Info ==
  /\ spc = "info"
  /\ \/ /\ spc' = "list"
        /\ UNCHANGED retries
     \/ /\ MayRetry(retries)
        /\ retries' = retries - 1
        /\ UNCHANGED spc
     \/ /\ ~MayRetry(retries)
        /\ spc' = "exit"
        /\ UNCHANGED retries
  /\ UNCHANGED <<mainKeeps, monitor, dataVars, faulted, todo, skipped, new, slice, touched, raced>>

\* Faulty variant of SkippedNames: one of several Names decides.
SkippedByAlias(aliased) == aliased

SkippedNames(aliased) == matching \cup aliased

\* ListContainers, running or not, and StartMonitorEvents.  The answer has all
\* Names of a container, those that links of other containers give it included;
\* -f may match one of these only.
ListContainers ==
  /\ spc = "list"
  /\ \/ /\ spc' = "loop"
        /\ todo' = {c \in Container : Exists(c)}
        /\ \E aliased \in SUBSET {c \in Filterable : Exists(c)} :
             /\ skipped' = SkippedNames(aliased)
             /\ ambiguous' = ambiguous \cup (aliased \ matching)
        /\ touched' = {}
        /\ monitor' = "opening"
     \/ /\ spc' = "exit"
        /\ UNCHANGED <<todo, skipped, ambiguous, touched, monitor>>
  /\ UNCHANGED <<otherVars, dataVars, faulted, retries, new, slice, raced>>

\* A listed container is skipped if -f matches one of the Names in the listing.
Skip(c) ==
  /\ spc = "loop"
  /\ c \in skipped
  /\ todo' = todo \ {c}
  /\ UNCHANGED <<mainKeeps, monitor, dataVars, faulted, spc, retries, skipped, new,
                 slice, touched, raced>>

\* Otherwise Create inspects it; an error of Create is dropped.
NextContainer(c) ==
  /\ spc = "loop"
  /\ c \notin skipped
  /\ todo' = todo \ {c}
  /\ \/ /\ Exists(c)
        /\ new' = {NewEntry(c, pid[c])}
        /\ spc' = "interfaces"
        /\ UNCHANGED faulted
     \/ /\ Fault(c, Exists(c))
        /\ UNCHANGED <<new, spc>>
  /\ UNCHANGED <<mainKeeps, monitor, dataVars, retries, skipped, slice, touched, raced>>

CreateInterfaces(e) ==
  /\ spc = "interfaces"
  /\ \/ /\ Readable(e.pid)
        /\ spc' = "append"
        /\ UNCHANGED <<new, faulted>>
     \/ /\ spc' = "loop"
        /\ new' = {}
        /\ Fault(e.id, Readable(e.pid))
  /\ UNCHANGED <<mainKeeps, monitor, dataVars, retries, todo, skipped, slice, touched, raced>>

\* append, first half: the header is read, and a full slice is copied.
AppendRead(e) ==
  /\ spc = "append"
  /\ LET viewCap == CapFor(Len(containers) + 1, slice.cap) IN
       slice' = [slice EXCEPT !.view = containers, !.viewCap = viewCap,
                              !.shared = (viewCap = slice.cap), !.dirty = FALSE]
  /\ spc' = "store"
  /\ UNCHANGED <<mainKeeps, monitor, dataVars, faulted, retries, todo, skipped, new, touched, raced>>

\* append, second half: the header is written.
AppendStore(e) ==
  /\ spc = "store"
  /\ containers' \in Outcomes(e)
  /\ slice' = [NoAppend EXCEPT
                 !.cap = IF slice.dirty /\ containers' = containers THEN slice.cap
                         ELSE slice.viewCap]
  /\ spc' = "update"
  /\ UNCHANGED <<mainKeeps, monitor, published, faulted, retries, todo, skipped, new, touched, raced>>

StartupUpdateNode(e) ==
  /\ spc = "update"
  /\ published' = containers
  /\ new' = {}
  /\ spc' = "loop"
  /\ UNCHANGED <<mainKeeps, monitor, containers, faulted, retries, todo, skipped, slice, touched, raced>>

Started ==
  /\ spc = "loop" /\ todo = {}
  /\ spc' = "done"
  /\ UNCHANGED <<mainKeeps, monitor, dataVars, faulted, retries, todo, skipped, new, slice, touched, raced>>

Starting ==
  \/ Info \/ ListContainers \/ Started
  \/ \E c \in todo : Skip(c) \/ NextContainer(c)
  \/ \E e \in new :
       CreateInterfaces(e) \/ AppendRead(e) \/ AppendStore(e) \/ StartupUpdateNode(e)
-----------------------------------------------------------------------------
(* The others *)

\* The monitor's goroutine has its answer: the stream is up, or there is none.
MonitorOpens ==
  /\ monitor = "opening"
  /\ monitor' \in {"on", "dead"}
  /\ UNCHANGED <<dockerVars, stream, waiting, handlerVars, mainVars, containersMutex,
                 dataVars, faulted, sampled, startVars>>

\* The daemon does something to c of which an event tells.
Changes(c) ==
  \/ status'[c] # status[c]
  \/ c \in stopping /\ c \notin stopping'
  \/ (c \in matching) # (c \in matching')

\* The daemon and the goroutines, as in DockerCollector, from the start on.
Beside ==
  /\ \/ Docker \/ StreamFails \/ ListenForEvents \/ HandlerLock \/ Handler
  /\ slice' = IF containers' = containers THEN slice ELSE Aliased(slice, containers')
  /\ raced' = (raced \/ (spc = "store" /\ containers' # containers))
  /\ touched' = touched \cup {c \in Container : Changes(c)}
  /\ UNCHANGED <<spc, retries, todo, skipped, new>>
-----------------------------------------------------------------------------
(* The specification *)

StartInit ==
  /\ status \in [Container -> {"absent", "created", "running"}]
  /\ pid \in [Container -> 0..Cardinality(Container)]
  /\ \A c \in Container : pid[c] # 0 <=> c \in Running
  /\ \A c, d \in Running : pid[c] = pid[d] => c = d
  /\ lastPid = Cardinality(Container)
  /\ lastSeq = 0
  /\ stopping = {}
  /\ matching \in SUBSET Filterable /\ ambiguous = {}
  /\ monitor = "off"
  /\ stream = {} /\ waiting = {} /\ inside = {}
  /\ hpc = "none" /\ hpid = 0
  /\ mpc = "first" /\ cursor = 1
  /\ containersMutex = "free"
  /\ containers = <<>> /\ published = <<>>
  /\ calm = Container /\ faulted = {} /\ sampled = [c \in Container |-> "no"]
  /\ spc = "info" /\ retries = Retries
  /\ todo = {} /\ skipped = {} /\ new = {} /\ slice = NoAppend
  /\ touched = {} /\ raced = FALSE

StartNext == Starting \/ MonitorOpens \/ Beside

\* What is asked of a start is what it leaves behind at line 142, not that it
\* gets there: no fairness.
StartSpec == StartInit /\ [][StartNext]_allVars
-----------------------------------------------------------------------------
(* Properties *)

StartTypeOK ==
  /\ spc \in {"info", "list", "loop", "interfaces", "append", "store", "update",
              "done", "exit"}
  /\ retries \in -1..Retries
  /\ todo \in SUBSET Container /\ skipped \in SUBSET Filterable
  /\ new \in SUBSET Entry
  /\ slice \in Slice
  /\ touched \in SUBSET Container
  /\ raced \in BOOLEAN

\* The registry cs holds the entry e, and no other one with its id.
HoldsOnce(cs, e) ==
  \E i \in DOMAIN cs : cs[i] = e /\ \A j \in DOMAIN cs : cs[j].id = e.id => j = i

\* What DockerCollector assumes of a quiet start: at line 142 a container that
\* has not changed since it was listed, and for which no call failed, has one
\* entry if it runs and is not to be skipped, active and with its PID, and none
\* otherwise - also if
\* goroutines of other containers were at work, but not during an append.  If no
\* container has changed at all, UpdateNode has been given the registry, too.
UntouchedAreFollowed ==
  spc = "done" /\ ~raced =>
    /\ touched = {} => published = containers
    /\ \A c \in Container \ (touched \cup faulted) :
        IF c \in Running \ skipped
        THEN HoldsOnce(containers, [id |-> c, pid |-> pid[c], active |-> TRUE])
        ELSE c \notin Ids(containers)
-----------------------------------------------------------------------------
(* The inductive invariant *)

\* Until the containers are listed there is no stream of events, nothing is
\* registered, and nothing has gone wrong.
QuietInv ==
  spc \in {"info", "list", "exit"} =>
    /\ monitor = "off"
    /\ stream = {} /\ waiting = {} /\ inside = {}
    /\ containers = <<>> /\ published = <<>>
    /\ faulted = {} /\ ~raced

\* A container that has not changed since it was listed has no event, and a PID
\* if and only if it runs.
UntouchedInv ==
  /\ \A e \in stream \cup waiting \cup inside : e.id \in touched
  /\ \A c \in Container : pid[c] # 0 <=> status[c] = "running"

\* The entry about to be registered is that of one container, which is not
\* skipped and comes off the list.
NewInv ==
  /\ new # {} <=> spc \in {"interfaces", "append", "store", "update"}
  /\ \A e, f \in new : e = f
  /\ \A e \in new :
       /\ e = NewEntry(e.id, e.pid)
       /\ e.id \notin todo \cup skipped
       /\ e.id \notin touched => e.pid = pid[e.id]
       /\ spc # "interfaces" => e.pid # 0
  /\ spc = "done" => todo = {}

\* Without a race main appends to the registry as it is; a race takes an event.
SliceInv ==
  /\ spc = "store" /\ ~raced => slice.view = containers /\ ~slice.dirty
  /\ raced => touched # {}

\* main has not appended c yet.
StillToCome(c) ==
  c \in todo \/ (spc \in {"interfaces", "append", "store"} /\ \E e \in new : e.id = c)

\* As UntouchedAreFollowed has it, for the containers that main is through with;
\* one for which a call has failed is not registered.
LoopInv ==
  spc \notin {"info", "list", "exit"} =>
    /\ touched = {} /\ spc # "update" => published = containers
    /\ \A c \in Container \ touched : StillToCome(c) => c \notin faulted
    /\ ~raced =>
        \A c \in Container \ touched :
          IF c \in Running \ (skipped \cup faulted) /\ ~StillToCome(c)
          THEN HoldsOnce(containers, NewEntry(c, pid[c]))
          ELSE c \notin Ids(containers)

\* What was skipped is what DockerCollector calls excluded, and perhaps ambiguous.
SkippedInv ==
  spc \notin {"info", "list", "exit"} =>
    Excluded \subseteq skipped /\ skipped \subseteq matching \cup ambiguous

StartInv == QuietInv /\ UntouchedInv /\ NewInv /\ SliceInv /\ LoopInv /\ SkippedInv

\* A calm container that runs again is not about to emit the "stop" of a run before.
CalmInv == \A c \in calm : status[c] = "running" => c \notin stopping

\* These hold from the first step of the process on, not only of its main loop.
OwnInv == LockInv /\ PidInv /\ CalmInv /\ mpc = "first"

\* What main leaves to DockerCollector at line 142 if the daemon was quiet from
\* the listing on and the monitor has its answer: a state of which DockerCollector's
\* inductive invariant holds, although the daemon may have been anything but quiet
\* before the listing.
HandsOver == spc = "done" /\ touched = {} /\ monitor \in {"on", "dead"} => TypeOK /\ IInv
=============================================================================
