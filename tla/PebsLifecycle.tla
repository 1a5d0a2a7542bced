---------------------------- MODULE PebsLifecycle ----------------------------
(***************************************************************************)
(* The life of the monitor thread of pebs.c: started with a memory of the  *)
(* hotness policy and by fork() in the preload library, stopped when any   *)
(* memory is deleted.  A process has one thread that builds and deletes    *)
(* memories and forks; others push events and touch memory; a monitor      *)
(* takes events from the queue and samples from the ring of its perf       *)
(* event, once per period.                                                 *)
(*                                                                         *)
(* thread_state, pebs_thread, pebs_fd, pebs_mmap and the queue are globals *)
(* of a process and copied by a fork; a thread is not, and neither is the  *)
(* mapping of a perf event.  What a monitor does with an event or a sample *)
(* is in HotnessPipeline; here the queue is the number of events in it.    *)
(*                                                                         *)
(* External: perf_event_open and the ring.  The kernel writes records at   *)
(* data_head while fewer than RingSize are above data_tail.                *)
(***************************************************************************)
EXTENDS Integers, FiniteSets

CONSTANTS NumProcs,       \* processes: 1 and what it forks
          MaxMonitors,    \* bound on the monitors ever started
          QueueSize,      \* RANKING_BUFFER_SIZE_ELEMENTS
          PerCycle,       \* HOTNESS_RANKING_EVENT_ITERATIONS_PER_CYCLE
          RingSize,       \* records that fit in MMAP_DATA_SIZE pages
          MaxEvents, MaxSamples, MaxCalls  \* bounds on what the processes do

ASSUME PebsAssumption ==
  /\ {NumProcs, MaxMonitors, QueueSize, PerCycle, RingSize} \subseteq Nat \ {0}
  /\ {MaxEvents, MaxSamples, MaxCalls} \subseteq Nat

VARIABLES proc,       \* the globals of each process and where its main thread is
          queue,      \* the number of events in the queue of each process
          mon,        \* every monitor: its process, control and locals
          ring,       \* every perf event with its mapping, by the monitor it came with
          started,    \* monitors started so far
          budget,     \* what is left of the bounds
          past,       \* history: what happened in a process that voids a guarantee
          wanted      \* history: the processes that asked for a monitor, not for its end

vars == <<proc, queue, mon, ring, started, budget, past, wanted>>

Procs == 1..NumProcs
Monitors == 1..MaxMonitors
NULL == 0
Policies == {"hot", "other"}

\* memories counts the memories of a process by policy; current is the policy
\* of the preload library's current_memory.
NoProc == [at |-> "none", state |-> "INIT", thread |-> NULL, fd |-> NULL, map |-> NULL,
           memories |-> [x \in Policies |-> 0], initialized |-> FALSE, current |-> "none"]
NoMonitor == [proc |-> NULL, at |-> "none", last |-> 0, n |-> 0, md |-> NULL]
NoRing == [mapped |-> FALSE, enabled |-> FALSE, head |-> 0, tail |-> 0,
           read |-> 0, late |-> 0, ahead |-> FALSE]

Init == /\ proc = [p \in Procs |-> IF p = 1 THEN [NoProc EXCEPT !.at = "idle"] ELSE NoProc]
        /\ queue = [p \in Procs |-> 0]
        /\ mon = [m \in Monitors |-> NoMonitor]
        /\ ring = [m \in Monitors |-> NoRing]
        /\ started = 0
        /\ budget = [events |-> MaxEvents, samples |-> MaxSamples, calls |-> MaxCalls]
        /\ past = [p \in Procs |-> {}]
        /\ wanted = {}

Running(p) == {m \in Monitors : mon[m].proc = p /\ mon[m].at \notin {"none", "done"}}
Call(p) == /\ proc[p].at = "idle" /\ budget.calls > 0
           /\ budget' = [budget EXCEPT !.calls = @ - 1]
Disabled(r) == IF r = NULL THEN ring ELSE [ring EXCEPT ![r].enabled = FALSE]

\* exit(-1) or a fault: the process ends with all its threads.
Die(p) == /\ proc' = [proc EXCEPT ![p] = [NoProc EXCEPT !.at = "dead"]]
          /\ queue' = [queue EXCEPT ![p] = 0]
          /\ mon' = [m \in Monitors |-> IF mon[m].proc # p THEN mon[m]
                                        ELSE [NoMonitor EXCEPT !.proc = p, !.at = "done"]]
          /\ ring' = [m \in Monitors |-> IF mon[m].proc = p THEN NoRing ELSE ring[m]]
          /\ wanted' = wanted \ {p}
          /\ UNCHANGED <<started, budget, past>>

-----------------------------------------------------------------------------
\* Mutants: plausible mistakes in the code.

\* pebs_fini does not wait for the monitor.
JoinSkipped(p) ==
  /\ proc[p].at \in {"join", "joinExit"}
  /\ ring' = [ring EXCEPT ![proc[p].map] = NoRing]
  /\ proc' = [proc EXCEPT ![p].at = "idle", ![p].map = NULL]
  /\ UNCHANGED <<queue, mon, started, budget, past, wanted>>

\* The ring is unmapped before the monitor is told to stop and waited for.
PebsFiniUnmapsFirst(p, g, join) ==
  IF g.state = "RUNNING"
  THEN /\ proc' = [proc EXCEPT ![p] = [g EXCEPT !.state = "FINISHED", !.at = join]]
       /\ ring' = [ring EXCEPT ![g.map] = NoRing]
  ELSE /\ proc' = [proc EXCEPT ![p] = g]
       /\ UNCHANGED ring

\* pebs_fini stops the sampling only.
PebsFiniKeepsState(p, g, join) ==
  IF g.state = "RUNNING"
  THEN /\ proc' = [proc EXCEPT ![p] = [g EXCEPT !.at = join]]
       /\ ring' = Disabled(g.fd)
  ELSE /\ proc' = [proc EXCEPT ![p] = g]
       /\ UNCHANGED ring

\* The space of the records is handed back before they are read.
LoadMapFreesFirst(m) ==
  LET md == proc[mon[m].proc].map
  IN  /\ mon' = [mon EXCEPT ![m].at = "samples", ![m].n = 0, ![m].md = md]
      /\ ring' = IF md = NULL THEN ring ELSE [ring EXCEPT ![md].tail = ring[md].head]

\* What is in the ring when a cycle begins is taken as read.
LoadMapSkips(m) ==
  LET md == proc[mon[m].proc].map
  IN  /\ mon' = [mon EXCEPT ![m].at = "samples", ![m].n = 0, ![m].md = md,
                            ![m].last = IF md = NULL THEN @ ELSE ring[md].head]
      /\ UNCHANGED ring

\* thread_state is set to RUNNING the first time only.
StartedOnce(g) == [g EXCEPT !.state = IF g.state = "INIT" THEN "RUNNING" ELSE @,
                            !.thread = started', !.fd = started', !.map = started']

-----------------------------------------------------------------------------
\* pebs_init in a process with the globals g: a perf event is opened and mapped
\* and a monitor started; or it is not supported, and only pebs_fd is lost.
StartedWith(g) == [g EXCEPT !.state = "RUNNING", !.thread = started',
                            !.fd = started', !.map = started']

PebsInit(p, g) ==
  \/ /\ started < MaxMonitors
     /\ started' = started + 1
     /\ proc' = [proc EXCEPT ![p] = StartedWith(g)]
     /\ mon' = [mon EXCEPT ![started'] = [NoMonitor EXCEPT !.proc = p, !.at = "check"]]
     /\ ring' = [ring EXCEPT ![started'] = [NoRing EXCEPT !.mapped = TRUE, !.enabled = TRUE]]
     /\ wanted' = wanted \cup {p}
  \/ /\ proc' = [proc EXCEPT ![p] = [g EXCEPT !.fd = NULL]]
     /\ UNCHANGED <<mon, ring, started, wanted>>

\* The first half of pebs_fini: the monitor is told to stop, if one was started.
PebsFini(p, g, join) ==
  IF g.state = "RUNNING"
  THEN /\ proc' = [proc EXCEPT ![p] = [g EXCEPT !.state = "FINISHED", !.at = join]]
       /\ ring' = Disabled(g.fd)
  ELSE /\ proc' = [proc EXCEPT ![p] = g]
       /\ UNCHANGED ring

\* memtier_builder_construct_memtier_memory: the hotness policy makes the
\* tracker (tachanka_init) with an empty queue and starts a monitor.
Created(p, policy) ==
  [proc[p] EXCEPT !.memories[policy] = @ + 1,
                  !.initialized = @ \/ policy = "hot"]

Create(p, policy) ==
  /\ Call(p)
  /\ IF policy = "hot"
     THEN /\ queue' = [queue EXCEPT ![p] = 0]
          /\ PebsInit(p, Created(p, policy))
          /\ past' = [past EXCEPT ![p] = IF proc[p].memories["hot"] > 0 THEN @ \cup {"overlap"}
                                         ELSE @]
     ELSE /\ proc' = [proc EXCEPT ![p] = Created(p, policy)]
          /\ UNCHANGED <<queue, mon, ring, started, past, wanted>>

\* memtier_init of the preload library, before anything else of the process.
Constructor(policy) ==
  /\ proc[1] = [NoProc EXCEPT !.at = "idle"] /\ Call(1)
  /\ LET g == [Created(1, policy) EXCEPT !.current = policy]
     IN  IF policy = "hot"
         THEN PebsInit(1, g) /\ UNCHANGED queue
         ELSE proc' = [proc EXCEPT ![1] = g] /\ UNCHANGED <<queue, mon, ring, started, wanted>>
  /\ UNCHANGED past

\* memtier_delete_memtier_memory ends the monitor whatever the memory is.
Delete(p, policy) ==
  /\ Call(p)
  /\ proc[p].memories[policy] > IF proc[p].current = policy THEN 1 ELSE 0
  /\ PebsFini(p, [proc[p] EXCEPT !.memories[policy] = @ - 1], "join")
  /\ wanted' = wanted \ {p}
  /\ UNCHANGED <<queue, mon, started, past>>

\* memtier_fini, the destructor of the preload library, when the process exits.
Destructor(p) ==
  /\ Call(p) /\ proc[p].current # "none"
  /\ PebsFini(p, [proc[p] EXCEPT !.at = "exited"], "joinExit")
  /\ wanted' = wanted \ {p}
  /\ UNCHANGED <<queue, mon, started, past>>

\* The second half of pebs_fini.  In a child that got no monitor of its own
\* pebs_thread names a thread of the parent, and nothing ever ends the wait.
Join(p) ==
  /\ proc[p].at \in {"join", "joinExit"}
  /\ mon[proc[p].thread].proc = p /\ mon[proc[p].thread].at = "done"
  /\ ring' = IF proc[p].map = NULL THEN ring
             ELSE [ring EXCEPT ![proc[p].map] = NoRing]
  /\ proc' = [proc EXCEPT ![p].at = IF @ = "join" THEN "idle" ELSE "exited", ![p].map = NULL]
  /\ UNCHANGED <<queue, mon, started, budget, past, wanted>>

\* fork: with the preload library both sides go on with pebs_fork.
Fork(p, q) ==
  /\ Call(p) /\ proc[q].at = "none"
  /\ LET at == IF proc[p].current = "none" THEN "idle" ELSE "forked"
     IN  proc' = [proc EXCEPT ![p].at = at, ![q] = [proc[p] EXCEPT !.at = at]]
  /\ queue' = [queue EXCEPT ![q] = queue[p]]
  /\ past' = IF proc[p].current = "none" THEN past
             ELSE [past EXCEPT ![p] = @ \cup {"forked"},
                               ![q] = IF proc[p].memories["hot"] > 0 THEN {} ELSE {"forked"}]
  /\ UNCHANGED <<mon, ring, started, wanted>>

PebsFork(p) ==
  /\ proc[p].at = "forked"
  /\ PebsInit(p, [proc[p] EXCEPT !.at = "idle"])
  /\ UNCHANGED <<queue, budget, past>>

\* pfm_initialize fails in pebs_init, for a new memory of the hotness policy or
\* after a fork: exit(-1), which runs the destructor of the preload library.
PfmFails(p) ==
  LET new == proc[p].at = "idle"
  IN  /\ proc[p].at = "forked" \/ (new /\ budget.calls > 0)
      /\ IF proc[p].current = "none" THEN Die(p)
         ELSE /\ PebsFini(p, [proc[p] EXCEPT !.at = "exited", !.initialized = @ \/ new], "joinExit")
              /\ queue' = IF new THEN [queue EXCEPT ![p] = 0] ELSE queue
              /\ wanted' = wanted \ {p}
              /\ budget' = IF new THEN [budget EXCEPT !.calls = @ - 1] ELSE budget
              /\ UNCHANGED <<mon, started, past>>

\* tachanka_ranking_event_push by a thread that allocates from a hot memory.
Push(p) ==
  /\ proc[p].at \notin {"none", "exited", "dead"} /\ proc[p].memories["hot"] > 0
  /\ budget.events > 0 /\ budget' = [budget EXCEPT !.events = @ - 1]
  /\ queue' = [queue EXCEPT ![p] = IF @ < QueueSize THEN @ + 1 ELSE @]
  /\ UNCHANGED <<proc, mon, ring, started, past, wanted>>

\* The kernel adds a record to a ring.  Only the rings that the properties
\* speak of are written: those of a process with one monitor.
Sample(r) ==
  /\ \E p \in Procs : proc[p].map = r /\ past[p] = {} /\ Running(p) # {}
  /\ ring[r].enabled /\ ring[r].head - ring[r].tail < RingSize
  /\ budget.samples > 0 /\ budget' = [budget EXCEPT !.samples = @ - 1]
  /\ LET here(at) == \E m \in Monitors : mon[m].md = r /\ mon[m].at = at
     IN  ring' = [ring EXCEPT ![r].head = @ + 1,
                              ![r].late = IF here("reread") THEN @ + 1 ELSE @,
                              ![r].ahead = @ \/ here("tail")]
  /\ UNCHANGED <<proc, queue, mon, started, past, wanted>>

-----------------------------------------------------------------------------
\* pebs_monitor

\* The top of a cycle.
Check(m) ==
  /\ mon[m].at = "check"
  /\ mon' = [mon EXCEPT ![m] = IF proc[mon[m].proc].state = "FINISHED"
                               THEN [NoMonitor EXCEPT !.proc = mon[m].proc, !.at = "done"]
                               ELSE [@ EXCEPT !.at = "pop"]]
  /\ UNCHANGED <<proc, queue, ring, started, budget, past, wanted>>

\* pebs_metadata is set from the global pebs_mmap.
LoadMap(m) ==
  /\ mon' = [mon EXCEPT ![m].at = "samples", ![m].n = 0, ![m].md = proc[mon[m].proc].map]
  /\ UNCHANGED ring

\* Up to PerCycle events are taken, then the ring is looked at.
Pop(m) ==
  LET p == mon[m].proc
  IN  /\ mon[m].at = "pop"
      /\ IF ~proc[p].initialized THEN Die(p)
         ELSE /\ IF queue[p] > 0 /\ mon[m].n < PerCycle
                 THEN /\ queue' = [queue EXCEPT ![p] = @ - 1]
                      /\ mon' = [mon EXCEPT ![m].n = @ + 1]
                      /\ UNCHANGED ring
                 ELSE LoadMap(m) /\ UNCHANGED queue
              /\ UNCHANGED <<proc, started, budget, past, wanted>>

Mapped(m) == mon[m].md # NULL /\ ring[mon[m].md].mapped
Unread(m) == mon[m].last < ring[mon[m].md].head

\* The samples up to data_head, which is read again for each of them.
ReadSample(m) ==
  /\ mon[m].at = "samples"
  /\ IF ~Mapped(m) THEN Die(mon[m].proc)
     ELSE /\ IF Unread(m)
             THEN /\ ring' = [ring EXCEPT ![mon[m].md].read = @ + 1]
                  /\ mon' = [mon EXCEPT ![m].last = @ + 1]
             ELSE mon' = [mon EXCEPT ![m].at = "reread"] /\ UNCHANGED ring
          /\ UNCHANGED <<proc, queue, started, budget, past, wanted>>

\* last_head and data_tail are set to data_head, which is read anew for each.
Reread(m) ==
  /\ mon[m].at = "reread"
  /\ IF ~Mapped(m) THEN Die(mon[m].proc)
     ELSE /\ mon' = [mon EXCEPT ![m].last = ring[mon[m].md].head, ![m].at = "tail"]
          /\ UNCHANGED <<proc, queue, ring, started, budget, past, wanted>>

\* Then tachanka_update_threshold, and the sleep to the end of the period.
Tail(m) ==
  /\ mon[m].at = "tail"
  /\ IF ~Mapped(m) THEN Die(mon[m].proc)
     ELSE /\ ring' = [ring EXCEPT ![mon[m].md].tail = ring[mon[m].md].head]
          /\ mon' = [mon EXCEPT ![m].at = "check", ![m].md = NULL]
          /\ UNCHANGED <<proc, queue, started, budget, past, wanted>>

Cycle(m) == Check(m) \/ Pop(m) \/ ReadSample(m) \/ Reread(m) \/ Tail(m)

Next == \/ \E p \in Procs : \/ \E policy \in Policies : Create(p, policy) \/ Delete(p, policy)
                            \/ \E q \in Procs : Fork(p, q)
                            \/ Destructor(p) \/ Join(p) \/ PebsFork(p) \/ PfmFails(p) \/ Push(p)
        \/ \E policy \in Policies : Constructor(policy)
        \/ \E m \in Monitors : Cycle(m) \/ Sample(m)

\* Threads that can run are scheduled; the period ends by the clock.
Fairness == /\ \A m \in Monitors : WF_vars(Cycle(m))
            /\ \A p \in Procs : WF_vars(Join(p)) /\ WF_vars(PebsFork(p))

Spec == Init /\ [][Next]_vars /\ Fairness

-----------------------------------------------------------------------------
TypeOK ==
  /\ \A p \in Procs : /\ proc[p].state \in {"INIT", "RUNNING", "FINISHED"}
                      /\ {proc[p].thread, proc[p].fd, proc[p].map} \subseteq 0..started
                      /\ queue[p] \in 0..QueueSize
  /\ \A m \in Monitors : /\ mon[m].proc \in 0..NumProcs /\ mon[m].n \in 0..PerCycle
                         /\ mon[m].md \in 0..started

\* The queue handles a single reader only and the ranking has no lock, so a
\* process that has one memory of the hotness policy has one monitor.
SingleReader ==
  \A p \in Procs : "overlap" \notin past[p] => Cardinality(Running(p)) =< 1

\* It has, however often such memories follow each other, unless one is made
\* while another exists or a process that preloads the library forks.  The
\* child of such a fork has one if it has the memory too; pebs_fork starts a
\* monitor in a child without one as well, and a memory made there adds another.
SingleReaderUnlessForked ==
  \A p \in Procs : past[p] = {} => Cardinality(Running(p)) =< 1

\* A monitor never looks at a ring that pebs_fini has unmapped, and never
\* takes events from a queue that was not made.
MonitorSafe ==
  \A p \in Procs : past[p] = {} =>
     \A m \in Running(p) : /\ mon[m].at \in {"samples", "reread", "tail"} => Mapped(m)
                           /\ mon[m].at = "pop" => proc[p].initialized

Sole(m) == mon[m].proc # NULL /\ past[mon[m].proc] = {}

\* The record that a monitor is about to read has not been overwritten, unless
\* records arrived between the two reads of data_head that end a cycle.
RecordsIntact ==
  \A m \in Monitors :
     (Sole(m) /\ mon[m].at = "samples" /\ Mapped(m) /\ ~ring[mon[m].md].ahead /\ Unread(m)) =>
        ring[mon[m].md].head =< mon[m].last + RingSize

\* Every record below last_head was read, but for those that arrived after the
\* loop over the samples had ended and before data_head was read again.
SamplesSeen ==
  \A m \in Monitors :
     (Sole(m) /\ mon[m].at = "samples" /\ Mapped(m)) =>
        mon[m].last = ring[mon[m].md].read + ring[mon[m].md].late

\* pebs_fini returns: the monitor sees thread_state and ends, unless it is a
\* thread of the parent and not of this process.
FiniReturns ==
  \A p \in Procs :
     (proc[p].at \in {"join", "joinExit"} /\ mon[proc[p].thread].proc = p)
       ~> proc[p].at \notin {"join", "joinExit"}

\* Once a monitor was asked for, also after one has ended, the events in the
\* queue are taken, unless a memory is deleted first.
EventsTaken ==
  \A p \in Procs :
     (p \in wanted /\ queue[p] > 0) ~> (queue[p] = 0 \/ p \notin wanted)
=============================================================================
