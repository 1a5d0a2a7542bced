------------------------- MODULE PebsLifecycleProofs -------------------------
(***************************************************************************)
(* What holds of the monitors for any number of processes, calls, events   *)
(* and samples: a process that is clean (nothing in its past voids the     *)
(* guarantee) has at most one monitor, which works on a mapped ring and    *)
(* neither misses nor overruns records.                                    *)
(***************************************************************************)
EXTENDS PebsLifecycle, FiniteSetTheorems, TLAPS

Clean(p) == past[p] = {}
Joining == {"join", "joinExit"}
Reading == {"samples", "reread", "tail"}

\* The types of the state.
Ats == {"none", "idle", "join", "joinExit", "exited", "forked", "dead"}
Proc == [at : Ats, state : {"INIT", "RUNNING", "FINISHED"}, thread : 0..MaxMonitors,
         fd : 0..MaxMonitors, map : 0..MaxMonitors, memories : [Policies -> Nat],
         initialized : BOOLEAN, current : Policies \cup {"none"}]
Monitor == [proc : 0..NumProcs, at : {"none", "done", "check", "pop"} \cup Reading,
            last : Nat, n : Nat, md : 0..MaxMonitors]
Ring == [mapped : BOOLEAN, enabled : BOOLEAN, head : Nat, tail : Nat,
         read : Nat, late : Nat, ahead : BOOLEAN]
Typed == /\ proc \in [Procs -> Proc] /\ mon \in [Monitors -> Monitor]
         /\ ring \in [Monitors -> Ring] /\ past \in [Procs -> SUBSET {"overlap", "forked"}]
         /\ queue \in [Procs -> Nat] /\ started \in 0..MaxMonitors

\* The globals of a process.  pebs_mmap is the ring of pebs_thread, a monitor
\* runs with a memory of the hotness policy unless the process forked, and what
\* was made stays initialized.
ProcOK(p) ==
  /\ proc[p].thread =< started /\ proc[p].map \in {NULL, proc[p].thread}
  /\ proc[p].state # "INIT" => proc[p].thread # NULL
  /\ proc[p].at \in Joining => proc[p].state = "FINISHED"
  /\ proc[p].memories["hot"] > 0 => proc[p].initialized
  /\ proc[p].state = "RUNNING" => proc[p].memories["hot"] > 0 \/ "forked" \in past[p]
  /\ "forked" \in past[p] => proc[p].current # "none" \/ proc[p].at = "dead"
  /\ proc[p].at = "forked" /\ "forked" \notin past[p] => /\ proc[p].memories["hot"] > 0
                                                        /\ \A m \in Monitors : mon[m].proc # p
  /\ proc[p].at = "none" => Clean(p) /\ \A m \in Monitors : mon[m].proc # p

\* A monitor belongs to a process, and what it looks at to the same one.
MonitorOK(m) ==
  /\ m > started => mon[m] = NoMonitor
  /\ mon[m].proc = NULL => mon[m] = NoMonitor
  /\ mon[m].at \in {"none", "done", "check", "pop"} => mon[m].md = NULL
  /\ mon[m].proc # NULL =>
       LET map == proc[mon[m].proc].map
       IN  map # NULL => mon[map].proc = mon[m].proc
  /\ mon[m].md # NULL => mon[mon[m].md].proc = mon[m].proc

\* The monitor of a clean process is the one its globals name, with its ring.
OwnOK(m) ==
  LET p == mon[m].proc
  IN  p # NULL /\ Clean(p) /\ mon[m].at # "done" =>
        /\ m = proc[p].thread /\ m = proc[p].map /\ ring[m].mapped
        /\ proc[p].state = "RUNNING" \/ proc[p].at \in Joining
        /\ proc[p].initialized
        /\ mon[m].at \in Reading => mon[m].md = m

\* Its ring: last_head against the records and the space the kernel has.
RingOK(m) ==
  LET p == mon[m].proc
      r == ring[m]
  IN  p # NULL /\ Clean(p) /\ mon[m].at # "done" =>
        /\ r.tail =< r.head /\ r.head =< r.tail + RingSize
        /\ mon[m].last =< r.head
        /\ ~r.ahead => r.tail =< mon[m].last
        /\ mon[m].at = "reread" => r.head = r.read + r.late
        /\ mon[m].at # "reread" => mon[m].last = r.read + r.late
        /\ mon[m].at = "tail" /\ ~r.ahead => mon[m].last = r.head

Inv == /\ Typed
       /\ \A p \in Procs : ProcOK(p)
       /\ \A m \in Monitors : MonitorOK(m) /\ OwnOK(m) /\ RingOK(m)

-----------------------------------------------------------------------------
\* A monitor of a clean process that has not ended.
Live(m) == mon[m].proc # NULL /\ Clean(mon[m].proc) /\ mon[m].at # "done"

\* The constants.
LEMMA Sizes ==
  /\ NumProcs \in Nat \ {0} /\ MaxMonitors \in Nat \ {0} /\ RingSize \in Nat \ {0}
  /\ Procs \subseteq Nat /\ Monitors \subseteq Nat /\ NULL \notin Procs /\ NULL \notin Monitors
  /\ \A p \in 0..NumProcs : p # NULL => p \in Procs
  /\ \A m \in 0..MaxMonitors : m # NULL => m \in Monitors
  /\ \A m \in Monitors : m \in 0..MaxMonitors
BY PebsAssumption DEF Procs, Monitors, NULL

LEMMA Fresh == NoProc \in Proc /\ NoMonitor \in Monitor /\ NoRing \in Ring
<1>1. 0 \in 0..NumProcs /\ 0 \in 0..MaxMonitors
  BY Sizes
<1> QED BY <1>1 DEF NoProc, NoMonitor, NoRing, Proc, Monitor, Ring, NULL, Ats, Policies

\* The fields of a monitor and of the process it belongs to.
LEMMA MonitorFields ==
  ASSUME Typed, NEW m \in Monitors
  PROVE  /\ mon[m] \in Monitor /\ mon[m].proc \in 0..NumProcs /\ mon[m].last \in Nat
         /\ mon[m].n \in Nat /\ mon[m].md \in 0..MaxMonitors
         /\ mon[m].at \in {"none", "done", "check", "pop", "samples", "reread", "tail"}
         /\ mon[m].proc # NULL => mon[m].proc \in Procs
         /\ mon[m].md # NULL => mon[m].md \in Monitors
<1>1. mon[m] \in Monitor
  BY DEF Typed
<1>2. /\ mon[m].proc \in 0..NumProcs /\ mon[m].last \in Nat
      /\ mon[m].n \in Nat /\ mon[m].md \in 0..MaxMonitors
      /\ mon[m].at \in {"none", "done", "check", "pop", "samples", "reread", "tail"}
  BY <1>1 DEF Monitor, Reading
<1> QED BY <1>1, <1>2, Sizes

LEMMA ProcFields ==
  ASSUME Typed, NEW p \in Procs
  PROVE  /\ proc[p] \in Proc /\ proc[p].at \in Ats /\ proc[p].state \in {"INIT", "RUNNING", "FINISHED"}
         /\ proc[p].thread \in 0..MaxMonitors /\ proc[p].map \in 0..MaxMonitors
         /\ proc[p].fd \in 0..MaxMonitors
         /\ proc[p].memories \in [Policies -> Nat] /\ proc[p].memories["hot"] \in Nat
         /\ proc[p].initialized \in BOOLEAN /\ proc[p].current \in Policies \cup {"none"}
         /\ past[p] \in SUBSET {"overlap", "forked"}
<1>1. proc[p] \in Proc /\ past[p] \in SUBSET {"overlap", "forked"}
  BY DEF Typed
<1> QED BY <1>1 DEF Proc, Policies

LEMMA RingFields ==
  ASSUME Typed, NEW m \in Monitors
  PROVE  /\ ring[m] \in Ring /\ ring[m].head \in Nat /\ ring[m].tail \in Nat /\ ring[m].read \in Nat
         /\ ring[m].late \in Nat /\ ring[m].ahead \in BOOLEAN /\ ring[m].mapped \in BOOLEAN
<1>1. ring[m] \in Ring
  BY DEF Typed
<1> QED BY <1>1 DEF Ring

\* A clean process has one monitor, and nobody else looks at its ring.
LEMMA Alone ==
  ASSUME Inv, NEW m \in Monitors, NEW x \in Monitors, Live(m), Live(x),
         mon[x].proc = mon[m].proc
  PROVE  x = m
BY DEF Inv, OwnOK, Live

LEMMA LooksAtOwn ==
  ASSUME Inv, NEW m \in Monitors, NEW x \in Monitors, Live(m), mon[x].md = m
  PROVE  x = m
<1>1. mon[x].md # NULL
  BY Sizes
<1>2. mon[x].at \notin {"none", "done", "check", "pop"} /\ mon[x].proc = mon[m].proc
  BY <1>1 DEF Inv, MonitorOK
<1>3. Live(x)
  BY <1>2 DEF Live
<1> QED BY <1>2, <1>3, Alone

\* A step of a monitor that leaves the processes alone.
LEMMA MonitorStep ==
  ASSUME Inv, NEW m \in Monitors, mon[m].proc # NULL, mon[m].at # "done",
         UNCHANGED <<proc, started, past>>, queue' \in [Procs -> Nat],
         NEW r \in Monitor, mon' = [mon EXCEPT ![m] = r], r.proc = mon[m].proc,
         r.at \in {"none", "done", "check", "pop"} => r.md = NULL,
         r.md # NULL => mon[r.md].proc = mon[m].proc,
         ring' \in [Monitors -> Ring], \A x \in Monitors : ring'[x].mapped = ring[x].mapped,
         \A x \in Monitors : ring'[x] # ring[x] => mon[x].proc = mon[m].proc,
         Live(m) => RingOK(m)' /\ (r.at \in Reading => r.md = m)
  PROVE  Inv'
<1>0. /\ mon'[m] = r /\ \A x \in Monitors : x # m => mon'[x] = mon[x]
      /\ \A x \in Monitors : mon'[x].proc = mon[x].proc
  BY DEF Inv, Typed
<1>1. Typed'
  BY DEF Inv, Typed
<1>2. ASSUME NEW p \in Procs PROVE ProcOK(p)'
  BY <1>0 DEF Inv, ProcOK, Clean
<1>3. ASSUME NEW x \in Monitors PROVE MonitorOK(x)'
  <2>1. MonitorOK(x) /\ MonitorOK(m)
    BY DEF Inv
  <2>2. /\ mon'[x].proc # NULL => /\ mon'[x].proc = mon[x].proc
                                  /\ proc[mon[x].proc].map # NULL => proc[mon[x].proc].map \in Monitors
        /\ mon'[x].md # NULL => mon'[x].md \in Monitors
    <3>1. mon[x].proc # NULL => proc[mon[x].proc].map \in 0..MaxMonitors
      BY MonitorFields, ProcFields DEF Inv
    <3>2. mon'[x].md \in 0..MaxMonitors
      BY <1>1 DEF Typed, Monitor
    <3> QED BY <1>0, <3>1, <3>2, Sizes
  <2>3. CASE x = m
    <3>1. ~(m > started)
      BY <2>1 DEF MonitorOK, NoMonitor
    <3> QED BY <1>0, <2>1, <2>2, <2>3, <3>1 DEF MonitorOK
  <2>4. CASE x # m
    BY <1>0, <2>1, <2>2, <2>4 DEF MonitorOK
  <2> QED BY <2>3, <2>4
<1>4. ASSUME NEW x \in Monitors PROVE OwnOK(x)' /\ RingOK(x)'
  <2>1. OwnOK(x) /\ RingOK(x) /\ OwnOK(m)
    BY DEF Inv
  <2>2. CASE x = m
    <3>1. CASE Live(m)
      BY <1>0, <2>1, <2>2, <3>1 DEF OwnOK, Live, Clean
    <3>2. CASE ~Live(m)
      BY <1>0, <2>2, <3>2 DEF OwnOK, RingOK, Live, Clean
    <3> QED BY <3>1, <3>2
  <2>3. CASE x # m
    <3>1. CASE ~Live(x)
      BY <1>0, <2>3, <3>1 DEF OwnOK, RingOK, Live, Clean
    <3>2. CASE Live(x)
      <4>1. ring'[x] = ring[x]
        <5> SUFFICES ASSUME mon[x].proc = mon[m].proc PROVE FALSE
          OBVIOUS
        <5>1. Live(m)
          BY <3>2 DEF Live
        <5> QED BY <2>3, <3>2, <5>1, Alone
      <4> QED BY <1>0, <2>1, <2>3, <4>1 DEF OwnOK, RingOK, Clean
    <3> QED BY <3>1, <3>2
  <2> QED BY <2>2, <2>3
<1> QED BY <1>1, <1>2, <1>3, <1>4 DEF Inv

\* A step of a process that leaves the monitors alone.
SameRing(m) == /\ ring'[m].mapped = ring[m].mapped /\ ring'[m].head = ring[m].head
               /\ ring'[m].tail = ring[m].tail /\ ring'[m].read = ring[m].read
               /\ ring'[m].late = ring[m].late /\ ring'[m].ahead = ring[m].ahead
LEMMA ProcStep ==
  ASSUME Inv, NEW p \in Procs, UNCHANGED <<mon, started, past>>, queue' \in [Procs -> Nat],
         NEW g \in Proc, proc' = [proc EXCEPT ![p] = g], ProcOK(p)',
         g.map \in {NULL, proc[p].map}, ring' \in [Monitors -> Ring],
         \A m \in Monitors : Live(m) => SameRing(m),
         \A m \in Monitors : Live(m) /\ mon[m].proc = p =>
            /\ g.thread = proc[p].thread /\ g.map = proc[p].map /\ g.initialized
            /\ g.state = "RUNNING" \/ g.at \in Joining
  PROVE  Inv'
<1>0. proc'[p] = g /\ \A q \in Procs : q # p => proc'[q] = proc[q]
  BY DEF Inv, Typed
<1>1. Typed'
  BY DEF Inv, Typed
<1>2. ASSUME NEW q \in Procs PROVE ProcOK(q)'
  <2>1. CASE q # p
    BY <1>0, <2>1 DEF Inv, ProcOK, Clean
  <2> QED BY <2>1
<1>3. ASSUME NEW x \in Monitors PROVE MonitorOK(x)' /\ OwnOK(x)' /\ RingOK(x)'
  <2>1. MonitorOK(x) /\ OwnOK(x) /\ RingOK(x) /\ (mon[x].proc # NULL => mon[x].proc \in Procs)
    BY MonitorFields DEF Inv
  <2>2. MonitorOK(x)'
    BY <1>0, <2>1 DEF MonitorOK
  <2>3. CASE ~Live(x)
    BY <2>2, <2>3 DEF OwnOK, RingOK, Live, Clean
  <2>4. CASE Live(x)
    <3>1. OwnOK(x)'
      BY <1>0, <2>1, <2>4 DEF OwnOK, Live, Clean, SameRing
    <3>2. RingOK(x)'
      BY <2>1, <2>4 DEF RingOK, SameRing, Clean
    <3> QED BY <2>2, <3>1, <3>2
  <2> QED BY <2>3, <2>4
<1> QED BY <1>1, <1>2, <1>3 DEF Inv

\* pebs_init, in a process that is not clean afterwards or has no monitor yet.
LEMMA InitStep ==
  ASSUME Inv, NEW p \in Procs, NEW g \in Proc, PebsInit(p, g), queue' \in [Procs -> Nat],
         past' \in [Procs -> SUBSET {"overlap", "forked"}],
         \A q \in Procs : past[q] \subseteq past'[q] /\ (q # p => past'[q] = past[q]),
         g.thread = proc[p].thread, g.map = proc[p].map, g.state = proc[p].state, g.at = "idle",
         g.memories["hot"] > 0 => g.initialized,
         g.memories["hot"] > 0 \/ "forked" \in past'[p],
         "forked" \in past'[p] => g.current # "none",
         Clean(p)' => \A m \in Monitors : Live(m) => mon[m].proc # p
  PROVE  Inv'
<1>0. /\ Typed /\ ProcOK(p) /\ started \in 0..MaxMonitors /\ proc[p].thread \in 0..MaxMonitors
      /\ p # NULL /\ p \in 0..NumProcs
  <2>1. Typed /\ ProcOK(p) /\ started \in 0..MaxMonitors
    BY DEF Inv, Typed
  <2>2. p # NULL /\ p \in 0..NumProcs
    BY Sizes DEF Procs
  <2> QED BY <2>1, <2>2, ProcFields
<1>1. CASE /\ started < MaxMonitors /\ started' = started + 1
           /\ proc' = [proc EXCEPT ![p] = StartedWith(g)]
           /\ mon' = [mon EXCEPT ![started'] = [NoMonitor EXCEPT !.proc = p, !.at = "check"]]
           /\ ring' = [ring EXCEPT ![started'] = [NoRing EXCEPT !.mapped = TRUE, !.enabled = TRUE]]
  <2> DEFINE s == started'
             h == StartedWith(g)
             n == [NoMonitor EXCEPT !.proc = p, !.at = "check"]
             r == [NoRing EXCEPT !.mapped = TRUE, !.enabled = TRUE]
  <2>1. /\ s \in Monitors /\ s \in 0..MaxMonitors /\ s = started + 1 /\ s # NULL
    BY <1>0, <1>1, Sizes DEF Monitors, NULL
  <2>2. /\ h \in Proc /\ h.thread = s /\ h.map = s /\ h.state = "RUNNING" /\ h.at = "idle"
        /\ h.memories = g.memories /\ h.initialized = g.initialized /\ h.current = g.current
    BY <2>1 DEF StartedWith, Proc
  <2>3. n \in Monitor /\ n.proc = p /\ n.at = "check" /\ n.last = 0 /\ n.md = NULL
    BY <1>0, Fresh DEF Monitor, NoMonitor
  <2>4. /\ r \in Ring /\ r.mapped /\ r.head = 0 /\ r.tail = 0 /\ r.read = 0 /\ r.late = 0 /\ ~r.ahead
    BY Fresh DEF Ring, NoRing
  <2>5. /\ proc' = [proc EXCEPT ![p] = h] /\ mon' = [mon EXCEPT ![s] = n]
        /\ ring' = [ring EXCEPT ![s] = r]
    BY <1>1
  <2> HIDE DEF s, h, n, r
  <2>6. /\ proc'[p] = h /\ \A q \in Procs : q # p => proc'[q] = proc[q]
        /\ mon'[s] = n /\ \A x \in Monitors : x # s => mon'[x] = mon[x]
        /\ ring'[s] = r /\ \A x \in Monitors : x # s => ring'[x] = ring[x]
    BY <1>0, <2>1, <2>5 DEF Typed
  <2>7. Typed'
    BY <1>0, <2>1, <2>2, <2>3, <2>4, <2>5 DEF Typed, s
  <2>8. MonitorOK(s) /\ mon[s] = NoMonitor /\ mon[s].proc = NULL /\ started' = s
    BY <1>0, <2>1 DEF Inv, MonitorOK, NoMonitor, s
  <2>9. ASSUME NEW q \in Procs PROVE ProcOK(q)'
    <3>1. CASE q = p
      BY <2>1, <2>2, <2>6, <2>8, <3>1 DEF ProcOK, Joining
    <3>2. CASE q # p
      <4>1. ProcOK(q) /\ proc'[q] = proc[q] /\ past'[q] = past[q] /\ proc[q].thread \in 0..MaxMonitors
        BY <2>6, <3>2, <1>0, ProcFields DEF Inv
      <4>2. (\A m \in Monitors : mon[m].proc # q) => \A m \in Monitors : mon'[m].proc # q
        BY <2>3, <2>6, <3>2
      <4>3. proc[q].thread =< started => proc[q].thread =< started'
        BY <1>0, <2>1, <2>8, <4>1
      <4> QED BY <4>1, <4>2, <4>3 DEF ProcOK, Clean
    <3> QED BY <3>1, <3>2
  <2>10. ASSUME NEW x \in Monitors, x # s PROVE MonitorOK(x)' /\ OwnOK(x)' /\ RingOK(x)'
    <3>1. /\ MonitorOK(x) /\ OwnOK(x) /\ RingOK(x) /\ mon'[x] = mon[x] /\ ring'[x] = ring[x]
          /\ (mon[x].proc # NULL => mon[x].proc \in Procs) /\ x \in Nat
          /\ (mon[x].md # NULL => mon[x].md \in Monitors)
      BY <2>6, <2>10, <1>0, MonitorFields, Sizes DEF Inv
    <3>2. x > started' => x > started
      BY <3>1, <1>0, <2>1, <2>8
    <3>3. mon[x].md # s
      BY <3>1, <2>1, <2>8 DEF MonitorOK, NoMonitor
    <3>4. ASSUME mon[x].proc # NULL, mon[x].proc # p, proc[mon[x].proc].map # NULL
          PROVE  /\ proc[mon[x].proc].map \in Monitors /\ proc[mon[x].proc].map # s
                 /\ proc'[mon[x].proc] = proc[mon[x].proc]
      <4>1. /\ proc[mon[x].proc].map \in 0..MaxMonitors /\ ProcOK(mon[x].proc)
        BY <3>1, <3>4, <1>0, ProcFields DEF Inv
      <4>2. proc[mon[x].proc].map \in Monitors
        BY <4>1, <3>4, Sizes
      <4>3. proc[mon[x].proc].map =< started
        BY <4>1, <3>4 DEF ProcOK
      <4>4. proc[mon[x].proc].map # s
        BY <4>1, <4>3, <2>1, <1>0
      <4> QED BY <4>2, <4>4, <3>1, <3>4, <2>6
    <3>5. MonitorOK(x)'
      <4>1. CASE mon[x].proc = p
        <5>1. mon[x].md # NULL => mon'[mon[x].md] = mon[mon[x].md]
          BY <3>1, <3>3, <2>6
        <5>2. proc'[p].map = s /\ mon'[s].proc = p
          BY <2>2, <2>3, <2>6
        <5> QED BY <3>1, <3>2, <4>1, <5>1, <5>2 DEF MonitorOK
      <4>2. CASE mon[x].proc # p
        <5>1. mon[x].md # NULL => mon'[mon[x].md] = mon[mon[x].md]
          BY <3>1, <3>3, <2>6
        <5>2. mon[x].proc # NULL => proc'[mon[x].proc] = proc[mon[x].proc]
          BY <3>1, <2>6, <4>2
        <5>3. mon[x].proc # NULL /\ proc[mon[x].proc].map # NULL =>
                 mon'[proc[mon[x].proc].map] = mon[proc[mon[x].proc].map]
          BY <3>4, <2>6, <4>2
        <5> QED BY <3>1, <3>2, <5>1, <5>2, <5>3 DEF MonitorOK
      <4> QED BY <4>1, <4>2
    <3>6. ASSUME Live(x)' PROVE Live(x) /\ mon[x].proc # p
      BY <3>1, <3>6 DEF Live, Clean
    <3>7. CASE ~Live(x)'
      BY <3>5, <3>7 DEF OwnOK, RingOK, Live
    <3>8. CASE Live(x)'
      <4>1. /\ mon[x].proc # NULL /\ proc'[mon[x].proc] = proc[mon[x].proc]
            /\ past'[mon[x].proc] = past[mon[x].proc]
        BY <3>1, <3>6, <3>8, <2>6 DEF Live
      <4> QED BY <3>1, <3>5, <4>1 DEF OwnOK, RingOK, Clean
    <3> QED BY <3>7, <3>8
  <2>11. ASSUME NEW x \in Monitors, x = s PROVE MonitorOK(x)' /\ OwnOK(x)' /\ RingOK(x)'
    <3>0. /\ mon'[x] = n /\ ring'[x] = r /\ mon'[x].proc = p /\ ~(x > started') /\ proc'[p] = h
      BY <1>0, <2>1, <2>3, <2>6, <2>8, <2>11
    <3>1. MonitorOK(x)'
      BY <3>0, <1>0, <2>1, <2>2, <2>3, <2>11 DEF MonitorOK
    <3>2. OwnOK(x)'
      BY <3>0, <1>0, <2>2, <2>3, <2>4, <2>11 DEF OwnOK, Clean, Reading
    <3>3. RingOK(x)'
      BY <3>0, <2>3, <2>4, Sizes DEF RingOK
    <3> QED BY <3>1, <3>2, <3>3
  <2> QED BY <2>7, <2>9, <2>10, <2>11 DEF Inv
<1>2. CASE /\ proc' = [proc EXCEPT ![p] = [g EXCEPT !.fd = NULL]]
           /\ UNCHANGED <<mon, ring, started>>
  <2> DEFINE h == [g EXCEPT !.fd = NULL]
  <2>1. /\ h \in Proc /\ h.thread = g.thread /\ h.map = g.map /\ h.state = g.state /\ h.at = "idle"
        /\ h.memories = g.memories /\ h.initialized = g.initialized /\ h.current = g.current
    <3>1. NULL \in 0..MaxMonitors
      BY Sizes DEF NULL
    <3> QED BY <3>1 DEF Proc
  <2> HIDE DEF h
  <2>2. proc'[p] = h /\ \A q \in Procs : q # p => proc'[q] = proc[q]
    BY <1>0, <1>2 DEF Typed, h
  <2>3. Typed'
    BY <1>0, <1>2, <2>1 DEF Typed, h
  <2>4. ASSUME NEW q \in Procs PROVE ProcOK(q)'
    <3>1. CASE q = p
      BY <1>0, <1>2, <2>1, <2>2, <3>1 DEF ProcOK, Joining
    <3>2. CASE q # p
      BY <1>2, <2>2, <3>2 DEF Inv, ProcOK, Clean
    <3> QED BY <3>1, <3>2
  <2>5. ASSUME NEW x \in Monitors PROVE MonitorOK(x)' /\ OwnOK(x)' /\ RingOK(x)'
    <3>1. /\ MonitorOK(x) /\ OwnOK(x) /\ RingOK(x)
          /\ (mon[x].proc # NULL => mon[x].proc \in Procs)
      BY <1>0, MonitorFields DEF Inv
    <3>2. MonitorOK(x)'
      BY <1>2, <2>1, <2>2, <3>1 DEF MonitorOK
    <3>3. CASE ~Live(x)'
      BY <3>2, <3>3 DEF OwnOK, RingOK, Live
    <3>4. CASE Live(x)'
      <4>1. Live(x) /\ mon[x].proc # p
        BY <1>2, <3>1, <3>4 DEF Live, Clean
      <4>2. proc'[mon[x].proc] = proc[mon[x].proc] /\ past'[mon[x].proc] = past[mon[x].proc]
        BY <2>2, <3>1, <4>1 DEF Live
      <4>3. mon' = mon /\ ring' = ring
        BY <1>2
      <4>4. OwnOK(x)'
        BY <3>1, <4>2, <4>3 DEF OwnOK, Clean
      <4>5. RingOK(x)'
        BY <3>1, <4>2, <4>3 DEF RingOK, Clean
      <4> QED BY <3>2, <4>4, <4>5
    <3> QED BY <3>3, <3>4
  <2> QED BY <2>3, <2>4, <2>5 DEF Inv
<1> QED BY <1>1, <1>2 DEF PebsInit

\* pebs_fini, by a process that is in no other call or in pebs_fork.
LEMMA FiniStep ==
  ASSUME Inv, NEW p \in Procs, NEW g \in Proc, NEW join \in Joining, PebsFini(p, g, join),
         UNCHANGED <<mon, started, past>>, queue' \in [Procs -> Nat],
         proc[p].at \in {"idle", "forked"}, g.at \in {"idle", "exited"},
         g.thread = proc[p].thread, g.map = proc[p].map, g.state = proc[p].state,
         proc[p].initialized => g.initialized, g.current = proc[p].current,
         g.memories["hot"] > 0 => g.initialized
  PROVE  Inv'
<1>0. Typed /\ ProcOK(p) /\ queue' \in [Procs -> Nat] /\ ring \in [Monitors -> Ring]
  BY DEF Inv, Typed
<1>1. ASSUME NEW m \in Monitors, Live(m), mon[m].proc = p
      PROVE  proc[p].state = "RUNNING" /\ proc[p].initialized
  BY <1>1 DEF Inv, OwnOK, Live, Joining
<1>2. CASE g.state = "RUNNING"
  <2> DEFINE h == [g EXCEPT !.state = "FINISHED", !.at = join]
  <2>1. /\ h \in Proc /\ h.thread = g.thread /\ h.map = g.map /\ h.state = "FINISHED" /\ h.at = join
        /\ h.memories = g.memories /\ h.initialized = g.initialized /\ h.current = g.current
    BY DEF Proc, Joining, Ats
  <2>2. proc' = [proc EXCEPT ![p] = h] /\ ring' = Disabled(g.fd)
    BY <1>2 DEF PebsFini
  <2> HIDE DEF h
  <2>3. ring' \in [Monitors -> Ring] /\ \A m \in Monitors : SameRing(m)
    <3>1. CASE g.fd = NULL
      BY <1>0, <2>2, <3>1 DEF Disabled, SameRing
    <3>2. CASE g.fd # NULL
      <4>1. g.fd \in Monitors
        BY <3>2, Sizes DEF Proc
      <4>2. ring' = [ring EXCEPT ![g.fd] = [ring[g.fd] EXCEPT !.enabled = FALSE]]
        BY <2>2, <3>2 DEF Disabled
      <4>3. [ring[g.fd] EXCEPT !.enabled = FALSE] \in Ring
        BY <1>0, <4>1 DEF Ring
      <4>4. /\ \A m \in Monitors : m # g.fd => ring'[m] = ring[m]
            /\ ring'[g.fd] = [ring[g.fd] EXCEPT !.enabled = FALSE]
        BY <1>0, <4>1, <4>2
      <4>5. ring[g.fd] \in Ring
        BY <1>0, <4>1
      <4>6. SameRing(g.fd)
        BY <4>4, <4>5 DEF SameRing, Ring
      <4> QED BY <1>0, <4>1, <4>2, <4>3, <4>4, <4>6 DEF SameRing
    <3> QED BY <3>1, <3>2
  <2>4. ProcOK(p)'
    <3>1. proc'[p] = h
      BY <1>0, <2>2 DEF Typed
    <3> QED BY <1>0, <1>2, <2>1, <3>1 DEF ProcOK, Joining
  <2> QED BY <1>0, <1>1, <2>1, <2>2, <2>3, <2>4, ProcStep
<1>3. CASE g.state # "RUNNING"
  <2>1. proc' = [proc EXCEPT ![p] = g] /\ ring' = ring
    BY <1>3 DEF PebsFini
  <2>2. ProcOK(p)'
    <3>1. proc'[p] = g
      BY <1>0, <2>1 DEF Typed
    <3> QED BY <1>0, <1>3, <3>1 DEF ProcOK, Joining
  <2>3. \A m \in Monitors : SameRing(m)
    BY <2>1 DEF SameRing
  <2>4. g.map \in {NULL, proc[p].map} /\ \A m \in Monitors : Live(m) => mon[m].proc # p
    BY <1>1, <1>3
  <2> QED BY <1>0, <2>1, <2>2, <2>3, <2>4, ProcStep
<1> QED BY <1>2, <1>3

\* What memtier_builder_construct_memtier_memory changes of the globals.
LEMMA CreatedFields ==
  ASSUME Typed, NEW p \in Procs, NEW policy \in Policies
  PROVE  LET g == Created(p, policy)
         IN  /\ g \in Proc /\ g.thread = proc[p].thread /\ g.map = proc[p].map
             /\ g.state = proc[p].state /\ g.at = proc[p].at /\ g.current = proc[p].current
             /\ g.initialized = (proc[p].initialized \/ policy = "hot")
             /\ policy = "hot" => g.memories["hot"] > 0
             /\ policy # "hot" => g.memories["hot"] = proc[p].memories["hot"]
<1> DEFINE ms == [proc[p].memories EXCEPT ![policy] = @ + 1]
           b == proc[p].initialized \/ policy = "hot"
<1>1. proc[p] \in Proc /\ proc[p].memories \in [Policies -> Nat] /\ proc[p].memories["hot"] \in Nat
  BY ProcFields
<1>2. Created(p, policy) = [proc[p] EXCEPT !.memories = ms, !.initialized = b]
  BY <1>1 DEF Created, Proc
<1>3. /\ ms \in [Policies -> Nat] /\ (policy = "hot" => ms["hot"] = proc[p].memories["hot"] + 1)
      /\ (policy # "hot" => ms["hot"] = proc[p].memories["hot"])
  BY <1>1 DEF Policies
<1>4. b \in BOOLEAN
  BY <1>1 DEF Proc
<1> HIDE DEF ms, b
<1>5. /\ Created(p, policy) \in Proc /\ Created(p, policy).memories = ms
      /\ Created(p, policy).initialized = b
      /\ Created(p, policy).thread = proc[p].thread /\ Created(p, policy).map = proc[p].map
      /\ Created(p, policy).state = proc[p].state /\ Created(p, policy).at = proc[p].at
      /\ Created(p, policy).current = proc[p].current
  BY <1>1, <1>2, <1>3, <1>4 DEF Proc
<1>6. policy = "hot" => ms["hot"] > 0
  BY <1>1, <1>3
<1> QED BY <1>3, <1>5, <1>6 DEF b

\* A process that is clean and in no call has a monitor only with a memory.
LEMMA NoneRuns ==
  ASSUME Inv, NEW p \in Procs, proc[p].at = "idle", ~(proc[p].memories["hot"] > 0),
         "forked" \notin past[p]
  PROVE  \A m \in Monitors : Live(m) => mon[m].proc # p
BY DEF Inv, OwnOK, ProcOK, Live, Joining

LEMMA CreateStep ==
  ASSUME Inv, NEW p \in Procs, NEW policy \in Policies, Create(p, policy)
  PROVE  Inv'
<1> DEFINE g == Created(p, policy)
<1>0. Typed /\ ProcOK(p) /\ proc[p].at = "idle" /\ past[p] \in SUBSET {"overlap", "forked"}
  BY ProcFields DEF Inv, Create, Call
<1>1. /\ g \in Proc /\ g.thread = proc[p].thread /\ g.map = proc[p].map
      /\ g.state = proc[p].state /\ g.at = proc[p].at /\ g.current = proc[p].current
      /\ g.initialized = (proc[p].initialized \/ policy = "hot")
      /\ policy = "hot" => g.memories["hot"] > 0
      /\ policy # "hot" => g.memories["hot"] = proc[p].memories["hot"]
  BY <1>0, CreatedFields
<1>2. CASE policy = "hot"
  <2>1. /\ PebsInit(p, g) /\ queue' = [queue EXCEPT ![p] = 0]
        /\ past' = [past EXCEPT ![p] = IF proc[p].memories["hot"] > 0 THEN @ \cup {"overlap"}
                                       ELSE @]
    BY <1>2 DEF Create
  <2> HIDE DEF g
  <2>2. queue' \in [Procs -> Nat]
    BY <1>0, <2>1 DEF Typed
  <2>3. /\ past' \in [Procs -> SUBSET {"overlap", "forked"}]
        /\ past'[p] = IF proc[p].memories["hot"] > 0 THEN past[p] \cup {"overlap"} ELSE past[p]
        /\ \A q \in Procs : past[q] \subseteq past'[q] /\ (q # p => past'[q] = past[q])
    BY <1>0, <2>1 DEF Typed
  <2>4. "forked" \in past'[p] => g.current # "none"
    BY <1>0, <1>1, <2>3 DEF ProcOK
  <2>5. Clean(p)' => \A m \in Monitors : Live(m) => mon[m].proc # p
    BY <1>0, <2>3, NoneRuns DEF Clean
  <2>6. g \in Proc /\ g.at = "idle" /\ g.initialized /\ g.memories["hot"] > 0
    BY <1>0, <1>1, <1>2
  <2> QED BY <1>1, <2>1, <2>2, <2>3, <2>4, <2>5, <2>6, InitStep
<1>3. CASE policy # "hot"
  <2>1. proc' = [proc EXCEPT ![p] = g] /\ UNCHANGED <<queue, mon, ring, started, past>>
    BY <1>3 DEF Create
  <2> HIDE DEF g
  <2>2. proc'[p] = g /\ queue' \in [Procs -> Nat] /\ ring' \in [Monitors -> Ring]
    BY <1>0, <2>1 DEF Typed
  <2>3. ProcOK(p)'
    BY <1>0, <1>1, <1>3, <2>1, <2>2 DEF ProcOK, Joining
  <2>4. \A m \in Monitors : SameRing(m)
    BY <2>1 DEF SameRing
  <2>5. \A m \in Monitors : Live(m) /\ mon[m].proc = p => g.initialized /\ g.state = "RUNNING"
    BY <1>0, <1>1 DEF Inv, OwnOK, Live, Joining
  <2> QED BY <1>1, <2>1, <2>2, <2>3, <2>4, <2>5, ProcStep
<1> QED BY <1>2, <1>3

LEMMA ConstructorStep ==
  ASSUME Inv, NEW policy \in Policies, Constructor(policy)
  PROVE  Inv'
<1> DEFINE c == Created(1, policy)
           g == [c EXCEPT !.current = policy]
<1>0. 1 \in Procs
  BY PebsAssumption DEF Procs
<1>1. /\ Typed /\ ProcOK(1) /\ proc[1].at = "idle" /\ proc[1].current = "none"
      /\ proc[1].state = "INIT" /\ proc[1].memories["hot"] = 0
  BY <1>0 DEF Inv, Constructor, Call, NoProc, Policies
<1>2. /\ c \in Proc /\ c.thread = proc[1].thread /\ c.map = proc[1].map
      /\ c.state = proc[1].state /\ c.at = proc[1].at
      /\ c.initialized = (proc[1].initialized \/ policy = "hot")
      /\ policy = "hot" => c.memories["hot"] > 0
      /\ policy # "hot" => c.memories["hot"] = proc[1].memories["hot"]
  BY <1>0, <1>1, CreatedFields
<1> HIDE DEF c
<1>3. /\ g \in Proc /\ g.thread = proc[1].thread /\ g.map = proc[1].map
      /\ g.state = proc[1].state /\ g.at = "idle" /\ g.current = policy
      /\ g.initialized = c.initialized /\ g.memories = c.memories
  BY <1>1, <1>2 DEF Proc
<1>4. "forked" \notin past[1] /\ \A m \in Monitors : Live(m) => mon[m].proc # 1
  <2>1. "forked" \notin past[1]
    BY <1>1 DEF ProcOK
  <2> QED BY <1>0, <1>1, <2>1, NoneRuns
<1>5. CASE policy = "hot"
  <2>1. PebsInit(1, g) /\ queue' = queue /\ past' = past
    BY <1>5 DEF Constructor, c
  <2> HIDE DEF g
  <2>2. /\ queue' \in [Procs -> Nat] /\ past' \in [Procs -> SUBSET {"overlap", "forked"}]
    BY <1>1, <2>1 DEF Typed
  <2>3. g.initialized /\ g.memories["hot"] > 0 /\ g.current # "none"
    BY <1>2, <1>3, <1>5
  <2> QED BY <1>0, <1>3, <1>4, <2>1, <2>2, <2>3, InitStep
<1>6. CASE policy # "hot"
  <2>1. proc' = [proc EXCEPT ![1] = g] /\ UNCHANGED <<queue, mon, ring, started, past>>
    BY <1>6 DEF Constructor, c
  <2> HIDE DEF g
  <2>2. proc'[1] = g /\ queue' \in [Procs -> Nat] /\ ring' \in [Monitors -> Ring]
    BY <1>0, <1>1, <2>1 DEF Typed
  <2>3. ~(g.memories["hot"] > 0)
    BY <1>1, <1>2, <1>3, <1>6
  <2>4. ProcOK(1)'
    BY <1>1, <1>3, <1>4, <2>1, <2>2, <2>3 DEF ProcOK, Joining
  <2>5. \A m \in Monitors : SameRing(m)
    BY <2>1 DEF SameRing
  <2> QED BY <1>0, <1>3, <1>4, <2>1, <2>2, <2>4, <2>5, ProcStep
<1> QED BY <1>5, <1>6

LEMMA DeleteStep ==
  ASSUME Inv, NEW p \in Procs, NEW policy \in Policies, Delete(p, policy)
  PROVE  Inv'
<1> DEFINE ms == [proc[p].memories EXCEPT ![policy] = @ - 1]
           g == [proc[p] EXCEPT !.memories = ms]
<1>1. /\ Typed /\ proc[p] \in Proc /\ proc[p].memories \in [Policies -> Nat]
      /\ proc[p].memories[policy] \in Nat /\ proc[p].memories["hot"] \in Nat
  BY ProcFields DEF Inv
<1>2. /\ proc[p].at = "idle" /\ proc[p].memories[policy] > 0
      /\ UNCHANGED <<queue, mon, started, past>>
  BY <1>1 DEF Delete, Call
<1>3. PebsFini(p, g, "join")
  <2>1. [proc[p] EXCEPT !.memories[policy] = @ - 1] = g
    BY <1>1 DEF Proc
  <2> QED BY <2>1 DEF Delete
<1>4. ms \in [Policies -> Nat] /\ (ms["hot"] > 0 => proc[p].memories["hot"] > 0)
  BY <1>1, <1>2
<1> HIDE DEF ms
<1>5. /\ g \in Proc /\ g.thread = proc[p].thread /\ g.map = proc[p].map /\ g.state = proc[p].state
      /\ g.at = "idle" /\ g.initialized = proc[p].initialized /\ g.current = proc[p].current
      /\ g.memories = ms
  BY <1>1, <1>2, <1>4 DEF Proc
<1> HIDE DEF g
<1>6. "join" \in Joining /\ queue' \in [Procs -> Nat]
  BY <1>1, <1>2 DEF Joining, Typed
<1>7. proc[p].memories["hot"] > 0 => proc[p].initialized
  BY DEF Inv, ProcOK
<1> QED BY <1>2, <1>3, <1>4, <1>5, <1>6, <1>7, FiniStep

LEMMA DestructorStep ==
  ASSUME Inv, NEW p \in Procs, Destructor(p)
  PROVE  Inv'
<1> DEFINE g == [proc[p] EXCEPT !.at = "exited"]
<1>1. /\ proc[p] \in Proc /\ proc[p].at = "idle" /\ UNCHANGED <<queue, mon, started, past>>
      /\ PebsFini(p, g, "joinExit")
  BY ProcFields DEF Inv, Destructor, Call
<1>2. /\ g \in Proc /\ g.thread = proc[p].thread /\ g.map = proc[p].map /\ g.state = proc[p].state
      /\ g.at = "exited" /\ g.initialized = proc[p].initialized /\ g.current = proc[p].current
      /\ g.memories = proc[p].memories
  BY <1>1 DEF Proc, Ats
<1> HIDE DEF g
<1>3. "joinExit" \in Joining /\ queue' \in [Procs -> Nat]
  BY <1>1 DEF Joining, Inv, Typed
<1>4. proc[p].memories["hot"] > 0 => proc[p].initialized
  BY DEF Inv, ProcOK
<1> QED BY <1>1, <1>2, <1>3, <1>4, FiniStep

LEMMA JoinStep ==
  ASSUME Inv, NEW p \in Procs, Join(p)
  PROVE  Inv'
<1> DEFINE at == IF proc[p].at = "join" THEN "idle" ELSE "exited"
           g == [proc[p] EXCEPT !.at = at, !.map = NULL]
<1>0. /\ Typed /\ ProcOK(p) /\ proc[p] \in Proc /\ proc[p].map \in 0..MaxMonitors
      /\ ring \in [Monitors -> Ring] /\ proc[p].initialized \in BOOLEAN
  BY ProcFields DEF Inv, Typed
<1>1. /\ proc[p].at \in Joining /\ mon[proc[p].thread].at = "done"
      /\ ring' = IF proc[p].map = NULL THEN ring ELSE [ring EXCEPT ![proc[p].map] = NoRing]
      /\ proc' = [proc EXCEPT ![p] = g] /\ UNCHANGED <<queue, mon, started, past>>
  BY <1>0 DEF Join, Joining, Typed, Proc
<1>2. at \in {"idle", "exited"}
  OBVIOUS
<1> HIDE DEF at
<1>3. /\ g \in Proc /\ g.thread = proc[p].thread /\ g.map = NULL /\ g.state = proc[p].state
      /\ g.at = at /\ g.initialized = proc[p].initialized /\ g.current = proc[p].current
      /\ g.memories = proc[p].memories
  <2>1. NULL \in 0..MaxMonitors
    BY Sizes DEF NULL
  <2> QED BY <1>0, <1>2, <2>1 DEF Proc, Ats
<1> HIDE DEF g
<1>4. proc'[p] = g /\ queue' \in [Procs -> Nat]
  BY <1>0, <1>1 DEF Typed
<1>5. ASSUME NEW m \in Monitors, Live(m) PROVE mon[m].proc # p /\ m # proc[p].map
  <2>1. m # proc[p].thread
    BY <1>1, <1>5 DEF Live
  <2>2. mon[m].proc # p
    BY <1>5, <2>1 DEF Inv, OwnOK, Live
  <2>3. m # NULL
    BY Sizes
  <2> QED BY <1>0, <2>1, <2>2, <2>3 DEF ProcOK
<1>6. ring' \in [Monitors -> Ring] /\ \A m \in Monitors : Live(m) => SameRing(m)
  <2>1. CASE proc[p].map = NULL
    BY <1>0, <1>1, <2>1 DEF SameRing
  <2>2. CASE proc[p].map # NULL
    <3>1. ring' = [ring EXCEPT ![proc[p].map] = NoRing]
      BY <1>1, <2>2
    <3>2. ring' \in [Monitors -> Ring]
      BY <1>0, <3>1, Fresh
    <3>3. \A m \in Monitors : Live(m) => ring'[m] = ring[m]
      BY <1>0, <1>5, <3>1
    <3> QED BY <3>2, <3>3 DEF SameRing
  <2> QED BY <2>1, <2>2
<1>7. ProcOK(p)'
  BY <1>0, <1>1, <1>2, <1>3, <1>4 DEF ProcOK, Joining
<1> QED BY <1>1, <1>3, <1>4, <1>5, <1>6, <1>7, ProcStep

LEMMA PebsForkStep ==
  ASSUME Inv, NEW p \in Procs, PebsFork(p)
  PROVE  Inv'
<1> DEFINE g == [proc[p] EXCEPT !.at = "idle"]
<1>1. /\ Typed /\ ProcOK(p) /\ proc[p] \in Proc /\ past \in [Procs -> SUBSET {"overlap", "forked"}]
      /\ proc[p].at = "forked" /\ PebsInit(p, g) /\ past' = past /\ queue' \in [Procs -> Nat]
  BY ProcFields DEF Inv, Typed, PebsFork
<1>2. /\ g \in Proc /\ g.thread = proc[p].thread /\ g.map = proc[p].map /\ g.state = proc[p].state
      /\ g.at = "idle" /\ g.initialized = proc[p].initialized /\ g.current = proc[p].current
      /\ g.memories = proc[p].memories
  BY <1>1 DEF Proc, Ats
<1> HIDE DEF g
<1>3. /\ proc[p].memories["hot"] > 0 => proc[p].initialized
      /\ proc[p].memories["hot"] > 0 \/ "forked" \in past'[p]
      /\ "forked" \in past'[p] => proc[p].current # "none"
      /\ Clean(p)' => \A m \in Monitors : mon[m].proc # p
  BY <1>1 DEF ProcOK, Clean
<1> QED BY <1>1, <1>2, <1>3, InitStep

LEMMA ForkStep ==
  ASSUME Inv, NEW p \in Procs, NEW q \in Procs, Fork(p, q)
  PROVE  Inv'
<1> DEFINE none == proc[p].current = "none"
           at == IF none THEN "idle" ELSE "forked"
           g == [proc[p] EXCEPT !.at = at]
<1>0. /\ Typed /\ ProcOK(p) /\ ProcOK(q) /\ proc[p] \in Proc /\ proc[p].at = "idle"
      /\ proc[q].at = "none" /\ p # q /\ past[p] \in SUBSET {"overlap", "forked"}
      /\ UNCHANGED <<mon, ring, started>>
  BY ProcFields DEF Inv, Fork, Call
<1>1. proc' = [proc EXCEPT ![p] = g, ![q] = g]
  BY <1>0 DEF Fork, Typed
<1>2. /\ queue' \in [Procs -> Nat]
      /\ none => past' = past
      /\ ~none => past' = [past EXCEPT ![p] = @ \cup {"forked"},
                              ![q] = IF proc[p].memories["hot"] > 0 THEN {} ELSE {"forked"}]
  BY <1>0 DEF Fork, Typed
<1>3. /\ g \in Proc /\ g.thread = proc[p].thread /\ g.map = proc[p].map /\ g.state = proc[p].state
      /\ g.at = at /\ g.initialized = proc[p].initialized /\ g.current = proc[p].current
      /\ g.memories = proc[p].memories
  BY <1>0 DEF Proc, Ats
<1> HIDE DEF g
<1>4. proc'[p] = g /\ proc'[q] = g /\ \A z \in Procs : z \notin {p, q} => proc'[z] = proc[z]
  BY <1>0, <1>1 DEF Typed
<1>5. /\ past' \in [Procs -> SUBSET {"overlap", "forked"}]
      /\ \A z \in Procs : z \notin {p, q} => past'[z] = past[z]
      /\ none => past'[p] = past[p] /\ past'[q] = {}
      /\ ~none => /\ "forked" \in past'[p]
                  /\ past'[q] = IF proc[p].memories["hot"] > 0 THEN {} ELSE {"forked"}
  <2>1. past \in [Procs -> SUBSET {"overlap", "forked"}] /\ past[q] = {}
    BY <1>0 DEF Typed, ProcOK, Clean
  <2>2. CASE none
    BY <1>2, <2>1, <2>2
  <2>3. CASE ~none
    BY <1>0, <1>2, <2>1, <2>3
  <2> QED BY <2>2, <2>3
<1>6. Typed'
  BY <1>0, <1>1, <1>2, <1>3, <1>5 DEF Typed
<1>7. \A m \in Monitors : mon[m].proc # q
  BY <1>0 DEF ProcOK
<1>8. ProcOK(p)'
  BY <1>0, <1>3, <1>4, <1>5 DEF ProcOK, Joining
<1>9. ProcOK(q)'
  <2>1. none => "forked" \notin past[p]
    BY <1>0 DEF ProcOK
  <2> QED BY <1>0, <1>3, <1>4, <1>5, <1>7, <2>1 DEF ProcOK, Joining
<1>10. ASSUME NEW z \in Procs PROVE ProcOK(z)'
  <2>1. CASE z \notin {p, q}
    BY <1>0, <1>4, <1>5, <2>1 DEF Inv, ProcOK, Clean
  <2> QED BY <1>8, <1>9, <2>1
<1>11. ASSUME NEW x \in Monitors PROVE MonitorOK(x)' /\ OwnOK(x)' /\ RingOK(x)'
  <2>1. /\ MonitorOK(x) /\ OwnOK(x) /\ RingOK(x) /\ mon[x].proc # q
        /\ (mon[x].proc # NULL => mon[x].proc \in Procs)
    BY <1>0, <1>7, MonitorFields DEF Inv
  <2>2. CASE mon[x].proc # p
    <3>1. mon[x].proc # NULL => /\ proc'[mon[x].proc] = proc[mon[x].proc]
                                /\ past'[mon[x].proc] = past[mon[x].proc]
      BY <1>4, <1>5, <2>1, <2>2
    <3> QED BY <1>0, <2>1, <3>1 DEF MonitorOK, OwnOK, RingOK, Clean
  <2>3. CASE mon[x].proc = p
    <3>1. MonitorOK(x)'
      BY <1>0, <1>3, <1>4, <2>1, <2>3 DEF MonitorOK
    <3>2. CASE none
      <4>1. OwnOK(x)'
        BY <1>0, <1>3, <1>4, <1>5, <2>1, <2>3, <3>2 DEF OwnOK, Clean, Joining
      <4>2. RingOK(x)'
        BY <1>0, <1>5, <2>1, <2>3, <3>2 DEF RingOK, Clean
      <4> QED BY <3>1, <4>1, <4>2
    <3>3. CASE ~none
      BY <1>0, <1>5, <2>3, <3>1, <3>3 DEF OwnOK, RingOK, Clean
    <3> QED BY <3>2, <3>3
  <2> QED BY <2>2, <2>3
<1> QED BY <1>6, <1>10, <1>11 DEF Inv

\* A process that ends takes its monitors and rings with it, no others.
LEMMA DieStep ==
  ASSUME Inv, NEW p \in Procs, Die(p)
  PROVE  Inv'
<1> DEFINE g == [NoProc EXCEPT !.at = "dead"]
           d == [NoMonitor EXCEPT !.proc = p, !.at = "done"]
<1>0. /\ Typed /\ p # NULL /\ p \in 0..NumProcs
      /\ proc' = [proc EXCEPT ![p] = g] /\ UNCHANGED <<started, past>>
      /\ queue' = [queue EXCEPT ![p] = 0]
      /\ mon' = [m \in Monitors |-> IF mon[m].proc # p THEN mon[m] ELSE d]
      /\ ring' = [m \in Monitors |-> IF mon[m].proc = p THEN NoRing ELSE ring[m]]
  BY Sizes DEF Inv, Die, Procs
<1>1. /\ g \in Proc /\ g.thread = NULL /\ g.map = NULL /\ g.state = "INIT" /\ g.at = "dead"
      /\ g.memories["hot"] = 0
  BY Fresh DEF Proc, Ats, NoProc, Policies
<1>2. d \in Monitor /\ d.proc = p /\ d.at = "done" /\ d.md = NULL
  BY <1>0, Fresh DEF Monitor, NoMonitor
<1> HIDE DEF g, d
<1>3. /\ proc'[p] = g /\ \A q \in Procs : q # p => proc'[q] = proc[q]
      /\ \A m \in Monitors : mon[m].proc # p => mon'[m] = mon[m] /\ ring'[m] = ring[m]
      /\ \A m \in Monitors : mon[m].proc = p => mon'[m] = d
      /\ \A m \in Monitors : mon'[m].proc = mon[m].proc
  BY <1>0, <1>2 DEF Typed
<1>4. Typed'
  BY <1>0, <1>1, <1>2, Fresh DEF Typed
<1>5. ASSUME NEW q \in Procs PROVE ProcOK(q)'
  <2>1. CASE q = p
    <3>1. NULL =< started /\ ~(0 > 0)
      BY <1>0 DEF Typed, NULL
    <3> QED BY <1>0, <1>1, <1>3, <2>1, <3>1 DEF ProcOK, Joining
  <2>2. CASE q # p
    BY <1>0, <1>3, <2>2 DEF Inv, ProcOK, Clean
  <2> QED BY <2>1, <2>2
<1>6. ASSUME NEW x \in Monitors PROVE MonitorOK(x)' /\ OwnOK(x)' /\ RingOK(x)'
  <2>1. /\ MonitorOK(x) /\ OwnOK(x) /\ RingOK(x)
        /\ (mon[x].proc # NULL => mon[x].proc \in Procs)
        /\ (mon[x].md # NULL => mon[x].md \in Monitors)
    BY <1>0, MonitorFields DEF Inv
  <2>2. CASE mon[x].proc = p
    <3>1. mon[x] # NoMonitor
      BY <1>0, <2>2 DEF NoMonitor
    <3>2. MonitorOK(x)'
      BY <1>0, <1>1, <1>2, <1>3, <2>1, <2>2, <3>1 DEF MonitorOK
    <3>3. OwnOK(x)' /\ RingOK(x)'
      BY <1>0, <1>1, <1>2, <1>3, <2>1, <2>2, <3>1 DEF OwnOK, RingOK
    <3> QED BY <3>2, <3>3
  <2>3. CASE mon[x].proc # p
    <3>1. mon'[x] = mon[x] /\ ring'[x] = ring[x]
      BY <1>3, <2>3
    <3>2. mon[x].proc # NULL => /\ proc'[mon[x].proc] = proc[mon[x].proc]
                                /\ proc[mon[x].proc].map \in 0..MaxMonitors
      BY <1>0, <1>3, <2>1, <2>3, ProcFields
    <3>3. MonitorOK(x)'
      <4>1. /\ x > started => mon[x] = NoMonitor
            /\ mon[x].proc = NULL => mon[x] = NoMonitor
            /\ mon[x].at \in {"none", "done", "check", "pop"} => mon[x].md = NULL
        BY <2>1 DEF MonitorOK
      <4>2. mon[x].proc # NULL /\ proc[mon[x].proc].map # NULL =>
               mon'[proc[mon[x].proc].map].proc = mon[x].proc
        <5>1. mon[x].proc # NULL /\ proc[mon[x].proc].map # NULL => proc[mon[x].proc].map \in Monitors
          BY <3>2, Sizes
        <5> QED BY <1>3, <2>1, <5>1 DEF MonitorOK
      <4>3. mon[x].md # NULL => mon'[mon[x].md].proc = mon[x].proc
        BY <1>3, <2>1 DEF MonitorOK
      <4> QED BY <1>0, <3>1, <3>2, <4>1, <4>2, <4>3 DEF MonitorOK
    <3> QED BY <1>0, <2>1, <3>1, <3>2, <3>3 DEF OwnOK, RingOK, Clean
  <2> QED BY <2>2, <2>3
<1> QED BY <1>4, <1>5, <1>6 DEF Inv

LEMMA PfmFailsStep ==
  ASSUME Inv, NEW p \in Procs, PfmFails(p)
  PROVE  Inv'
<1>1. CASE proc[p].current = "none"
  BY <1>1, DieStep DEF PfmFails
<1>2. CASE proc[p].current # "none"
  <2> DEFINE b == proc[p].initialized \/ proc[p].at = "idle"
             g == [proc[p] EXCEPT !.at = "exited", !.initialized = b]
  <2>1. /\ Typed /\ proc[p] \in Proc
        /\ proc[p].memories["hot"] > 0 => proc[p].initialized
    BY ProcFields DEF Inv, ProcOK
  <2>2. /\ proc[p].at \in {"idle", "forked"} /\ UNCHANGED <<mon, started, past>>
        /\ PebsFini(p, g, "joinExit")
        /\ queue' = IF proc[p].at = "idle" THEN [queue EXCEPT ![p] = 0] ELSE queue
    BY <1>2, <2>1 DEF PfmFails, Proc
  <2>3. b \in BOOLEAN /\ (proc[p].initialized => b)
    BY <2>1 DEF Proc
  <2> HIDE DEF b
  <2>4. /\ g \in Proc /\ g.thread = proc[p].thread /\ g.map = proc[p].map /\ g.state = proc[p].state
        /\ g.at = "exited" /\ g.initialized = b /\ g.current = proc[p].current
        /\ g.memories = proc[p].memories
    BY <2>1, <2>3 DEF Proc, Ats
  <2> HIDE DEF g
  <2>5. "joinExit" \in Joining /\ queue' \in [Procs -> Nat]
    BY <2>1, <2>2 DEF Joining, Typed
  <2>6. g.memories["hot"] > 0 => g.initialized
    BY <2>1, <2>3, <2>4
  <2>7. proc[p].initialized => g.initialized
    BY <2>3, <2>4
  <2> QED BY <2>2, <2>4, <2>5, <2>6, <2>7, FiniStep
<1> QED BY <1>1, <1>2

\* Steps that change neither a process nor a monitor nor a ring.
LEMMA QueueStep ==
  ASSUME Inv, UNCHANGED <<proc, mon, ring, started, past>>, queue' \in [Procs -> Nat]
  PROVE  Inv'
<1>1. Typed'
  BY DEF Inv, Typed
<1>2. ASSUME NEW p \in Procs PROVE ProcOK(p)'
  BY DEF Inv, ProcOK, Clean
<1>3. ASSUME NEW m \in Monitors PROVE MonitorOK(m)' /\ OwnOK(m)' /\ RingOK(m)'
  BY DEF Inv, MonitorOK, OwnOK, RingOK, Clean
<1> QED BY <1>1, <1>2, <1>3 DEF Inv

LEMMA PushStep ==
  ASSUME Inv, NEW p \in Procs, Push(p)
  PROVE  Inv'
<1>1. queue' \in [Procs -> Nat]
  <2>1. queue \in [Procs -> Nat]
    BY DEF Inv, Typed
  <2> QED BY <2>1 DEF Push
<1> QED BY <1>1, QueueStep DEF Push

\* A monitor that is somewhere in its cycle belongs to a process.
LEMMA OfProcess ==
  ASSUME Inv, NEW m \in Monitors, mon[m].at # "none"
  PROVE  mon[m].proc # NULL /\ mon[m].proc \in Procs
<1>1. mon[m].proc # NULL
  BY DEF Inv, MonitorOK, NoMonitor
<1> QED BY <1>1, MonitorFields DEF Inv

\* What is known of a monitor that runs in a clean process.
LEMMA LiveFacts ==
  ASSUME Inv, NEW m \in Monitors, Live(m)
  PROVE  /\ m = proc[mon[m].proc].map /\ (mon[m].at \in Reading => mon[m].md = m)
         /\ ring[m].tail =< ring[m].head /\ ring[m].head =< ring[m].tail + RingSize
         /\ mon[m].last =< ring[m].head
         /\ ~ring[m].ahead => ring[m].tail =< mon[m].last
         /\ mon[m].at = "reread" => ring[m].head = ring[m].read + ring[m].late
         /\ mon[m].at # "reread" => mon[m].last = ring[m].read + ring[m].late
         /\ mon[m].at = "tail" /\ ~ring[m].ahead => mon[m].last = ring[m].head
BY DEF Inv, OwnOK, RingOK, Live

LEMMA SampleStep ==
  ASSUME Inv, NEW r \in Monitors, Sample(r)
  PROVE  Inv'
<1> DEFINE here(at) == \E m \in Monitors : mon[m].md = r /\ mon[m].at = at
           late == IF here("reread") THEN ring[r].late + 1 ELSE ring[r].late
           ahead == ring[r].ahead \/ here("tail")
           w == [ring[r] EXCEPT !.head = ring[r].head + 1, !.late = late, !.ahead = ahead]
<1>0. /\ Typed /\ ring \in [Monitors -> Ring] /\ ring[r] \in Ring /\ ring[r].head \in Nat
      /\ ring[r].tail \in Nat /\ ring[r].read \in Nat /\ ring[r].late \in Nat
      /\ ring[r].ahead \in BOOLEAN /\ ring[r].mapped \in BOOLEAN
      /\ mon[r] \in Monitor /\ mon[r].last \in Nat
  BY RingFields, MonitorFields DEF Inv, Typed
<1>1. Live(r)
  <2>1. PICK p \in Procs : proc[p].map = r /\ past[p] = {} /\ Running(p) # {}
    BY DEF Sample
  <2>2. PICK m \in Monitors : mon[m].proc = p /\ mon[m].at # "done"
    BY <2>1 DEF Running
  <2>3. Live(m)
    BY <2>1, <2>2, Sizes DEF Live, Clean
  <2>4. m = r
    BY <2>1, <2>2, <2>3, LiveFacts
  <2> QED BY <2>3, <2>4
<1>2. ring' = [ring EXCEPT ![r] = w] /\ UNCHANGED <<proc, queue, mon, started, past>>
  BY <1>0 DEF Sample, Ring
<1>3. ring[r].head - ring[r].tail < RingSize
  BY DEF Sample
<1>4. /\ mon[r].at = "reread" => late = ring[r].late + 1
      /\ mon[r].at # "reread" => late = ring[r].late
      /\ ~ahead => ~ring[r].ahead /\ mon[r].at # "tail"
  <2>1. mon[r].at \in Reading => mon[r].md = r
    BY <1>1, LiveFacts
  <2>2. \A m \in Monitors : mon[m].md = r => m = r
    BY <1>1, LooksAtOwn
  <2> QED BY <2>1, <2>2 DEF Reading
<1>5. late \in Nat /\ ahead \in BOOLEAN
  BY <1>0
<1> HIDE DEF late, ahead, here
<1>6. /\ w \in Ring /\ w.mapped = ring[r].mapped /\ w.head = ring[r].head + 1 /\ w.tail = ring[r].tail
      /\ w.read = ring[r].read /\ w.late = late /\ w.ahead = ahead
  <2>1. ring[r].head + 1 \in Nat
    BY <1>0
  <2> DEFINE h == ring[r].head + 1
  <2>2. w = [ring[r] EXCEPT !.head = h, !.late = late, !.ahead = ahead] /\ h \in Nat
    BY <2>1
  <2> HIDE DEF h
  <2>3. w \in Ring
    BY <1>0, <1>5, <2>2, Zenon DEF Ring
  <2>4. /\ w.mapped = ring[r].mapped /\ w.head = h /\ w.tail = ring[r].tail
        /\ w.read = ring[r].read /\ w.late = late
    BY <1>0, <2>2 DEF Ring
  <2>5. w.ahead = ahead
    BY <1>0, <2>2, Zenon DEF Ring
  <2> QED BY <2>3, <2>4, <2>5 DEF h
<1> HIDE DEF w
<1>7. /\ ring' \in [Monitors -> Ring] /\ ring'[r] = w
      /\ \A x \in Monitors : x # r => ring'[x] = ring[x]
  BY <1>0, <1>2, <1>6
<1>8. RingOK(r)'
  <2>1. ring'[r] = w /\ mon' = mon
    BY <1>2, <1>7
  <2> QED BY <1>0, <1>1, <1>3, <1>4, <1>5, <1>6, <2>1, LiveFacts, Sizes DEF RingOK
<1>9. mon[r].proc # NULL /\ mon[r].at # "done"
  BY <1>1 DEF Live
<1>10. /\ mon' = [mon EXCEPT ![r] = mon[r]] /\ queue' \in [Procs -> Nat]
       /\ mon[r].at \in {"none", "done", "check", "pop"} => mon[r].md = NULL
       /\ mon[r].md # NULL => mon[mon[r].md].proc = mon[r].proc
  BY <1>2 DEF Inv, Typed, MonitorOK
<1>11. \A x \in Monitors : ring'[x].mapped = ring[x].mapped
  BY <1>6, <1>7
<1> QED BY <1>0, <1>1, <1>2, <1>7, <1>8, <1>9, <1>10, <1>11, LiveFacts, MonitorStep

LEMMA CheckStep ==
  ASSUME Inv, NEW m \in Monitors, Check(m)
  PROVE  Inv'
<1> DEFINE d == [NoMonitor EXCEPT !.proc = mon[m].proc, !.at = "done"]
           w == [mon[m] EXCEPT !.at = "pop"]
           r == IF proc[mon[m].proc].state = "FINISHED" THEN d ELSE w
<1>0. /\ Typed /\ mon[m].at = "check" /\ mon[m] \in Monitor /\ mon[m].proc # NULL
      /\ mon[m].proc \in 0..NumProcs /\ mon[m].md = NULL
      /\ mon' = [mon EXCEPT ![m] = r] /\ UNCHANGED <<proc, queue, ring, started, past>>
  <2>1. mon[m].at = "check" /\ UNCHANGED <<proc, queue, ring, started, past>>
    BY DEF Check
  <2>2. Typed /\ mon[m].md = NULL
    BY <2>1 DEF Inv, MonitorOK
  <2> QED BY <2>1, <2>2, OfProcess, MonitorFields DEF Check
<1>1. d \in Monitor /\ d.proc = mon[m].proc /\ d.at = "done" /\ d.md = NULL
  BY <1>0, Fresh DEF Monitor, NoMonitor
<1>2. /\ w \in Monitor /\ w.proc = mon[m].proc /\ w.at = "pop" /\ w.md = NULL /\ w.last = mon[m].last
  BY <1>0 DEF Monitor
<1> HIDE DEF d, w
<1>3. /\ r \in Monitor /\ r.proc = mon[m].proc /\ r.md = NULL /\ r.at \in {"done", "pop"}
      /\ r.at = "pop" => r.last = mon[m].last
  BY <1>1, <1>2
<1> HIDE DEF r
<1>4. RingOK(m)'
  <2>1. mon'[m] = r /\ RingOK(m)
    BY <1>0 DEF Inv, Typed
  <2> QED BY <1>0, <1>3, <2>1 DEF RingOK, Clean
<1>5. queue' \in [Procs -> Nat] /\ ring' \in [Monitors -> Ring] /\ r.at \notin Reading
  BY <1>0, <1>3 DEF Typed, Reading
<1> QED BY <1>0, <1>3, <1>4, <1>5, MonitorStep

\* A step inside a cycle: what is known before it, and what is left to show.
LEMMA InCycle ==
  ASSUME Inv, NEW m \in Monitors, mon[m].at \in {"pop", "samples", "reread", "tail"}
  PROVE  /\ Typed /\ mon[m] \in Monitor /\ mon[m].proc # NULL /\ mon[m].proc \in Procs
         /\ mon[m].at # "done" /\ mon[m].last \in Nat /\ mon[m].n \in Nat
         /\ ring \in [Monitors -> Ring] /\ queue \in [Procs -> Nat]
         /\ mon[m].md # NULL => mon[m].md \in Monitors /\ mon[mon[m].md].proc = mon[m].proc
         /\ ring[m].head \in Nat /\ ring[m].tail \in Nat /\ ring[m].read \in Nat /\ ring[m].late \in Nat
<1>1. Typed /\ mon[m].at # "none" /\ mon[m].at # "done"
  BY DEF Inv
<1>2. mon[m].proc # NULL /\ mon[m].proc \in Procs
  BY <1>1, OfProcess
<1>3. mon[m].md # NULL => mon[mon[m].md].proc = mon[m].proc
  BY DEF Inv, MonitorOK
<1>4. ring \in [Monitors -> Ring] /\ queue \in [Procs -> Nat]
  BY <1>1 DEF Typed
<1> QED BY <1>1, <1>2, <1>3, <1>4, MonitorFields, RingFields

LEMMA PopStep ==
  ASSUME Inv, NEW m \in Monitors, Pop(m)
  PROVE  Inv'
<1> DEFINE p == mon[m].proc
           map == proc[p].map
<1>0. /\ Typed /\ mon[m].at = "pop" /\ mon[m] \in Monitor /\ p # NULL /\ p \in Procs
      /\ mon[m].at # "done" /\ mon[m].n \in Nat /\ mon[m].last \in Nat
      /\ ring \in [Monitors -> Ring] /\ queue \in [Procs -> Nat]
      /\ map \in 0..MaxMonitors /\ mon[m].md = NULL /\ RingOK(m)
  <2>1. mon[m].at = "pop"
    BY DEF Pop
  <2>2. mon[m].md = NULL /\ RingOK(m)
    BY <2>1 DEF Inv, MonitorOK
  <2> QED BY <2>1, <2>2, InCycle, ProcFields
<1>1. CASE ~proc[p].initialized
  BY <1>0, <1>1, DieStep DEF Pop
<1>2. CASE proc[p].initialized /\ queue[p] > 0 /\ mon[m].n < PerCycle
  <2> DEFINE r == [mon[m] EXCEPT !.n = mon[m].n + 1]
  <2>1. /\ mon' = [mon EXCEPT ![m] = r] /\ queue' = [queue EXCEPT ![p] = queue[p] - 1]
        /\ UNCHANGED <<proc, ring, started, past>>
    BY <1>0, <1>2 DEF Pop, Typed, Monitor
  <2>2. queue' \in [Procs -> Nat]
    BY <1>0, <1>2, <2>1
  <2>3. /\ r \in Monitor /\ r.proc = p /\ r.at = "pop" /\ r.last = mon[m].last /\ r.md = NULL
    BY <1>0 DEF Monitor
  <2> HIDE DEF r
  <2>4. RingOK(m)' /\ r.at \notin Reading
    <3>1. mon'[m] = r
      BY <1>0, <2>1 DEF Typed
    <3> QED BY <1>0, <2>1, <2>3, <3>1 DEF RingOK, Clean, Reading
  <2> QED BY <1>0, <2>1, <2>2, <2>3, <2>4, MonitorStep
<1>3. CASE proc[p].initialized /\ ~(queue[p] > 0 /\ mon[m].n < PerCycle)
  <2> DEFINE r == [mon[m] EXCEPT !.at = "samples", !.n = 0, !.md = map]
  <2>1. /\ mon' = [mon EXCEPT ![m] = r] /\ UNCHANGED <<proc, queue, ring, started, past>>
    BY <1>0, <1>3 DEF Pop, LoadMap, Typed, Monitor
  <2>2. /\ r \in Monitor /\ r.proc = p /\ r.at = "samples" /\ r.last = mon[m].last /\ r.md = map
    BY <1>0 DEF Monitor, Reading
  <2> HIDE DEF r
  <2>3. r.md # NULL => mon[r.md].proc = p
    BY <1>0, <2>2 DEF Inv, MonitorOK
  <2>4. Live(m) => RingOK(m)' /\ r.md = m
    <3>1. mon'[m] = r
      BY <1>0, <2>1 DEF Typed
    <3>2. RingOK(m)'
      BY <1>0, <2>1, <2>2, <3>1 DEF RingOK, Clean
    <3> QED BY <2>2, <3>2, LiveFacts
  <2> QED BY <1>0, <2>1, <2>2, <2>3, <2>4, MonitorStep
<1> QED BY <1>1, <1>2, <1>3

LEMMA ReadSampleStep ==
  ASSUME Inv, NEW m \in Monitors, ReadSample(m)
  PROVE  Inv'
<1> DEFINE p == mon[m].proc
           md == mon[m].md
<1>0. /\ Typed /\ mon[m].at = "samples" /\ mon[m] \in Monitor /\ p # NULL /\ p \in Procs
      /\ mon[m].at # "done" /\ mon[m].last \in Nat
      /\ ring \in [Monitors -> Ring] /\ queue \in [Procs -> Nat]
      /\ md # NULL => md \in Monitors /\ mon[md].proc = p
      /\ ring[m].head \in Nat /\ ring[m].tail \in Nat /\ ring[m].read \in Nat /\ ring[m].late \in Nat
  <2>1. mon[m].at = "samples"
    BY DEF ReadSample
  <2> QED BY <2>1, InCycle
<1>1. CASE ~Mapped(m)
  BY <1>0, <1>1, DieStep DEF ReadSample
<1>2. CASE Mapped(m) /\ Unread(m)
  <2> DEFINE r == [mon[m] EXCEPT !.last = mon[m].last + 1]
             w == [ring[md] EXCEPT !.read = ring[md].read + 1]
  <2>0. md # NULL /\ md \in Monitors /\ mon[m].last < ring[md].head
    BY <1>0, <1>2 DEF Mapped, Unread
  <2>1. /\ mon' = [mon EXCEPT ![m] = r] /\ ring' = [ring EXCEPT ![md] = w]
        /\ UNCHANGED <<proc, queue, started, past>>
    BY <1>0, <1>2, <2>0 DEF ReadSample, Typed, Monitor, Ring
  <2>2. /\ r \in Monitor /\ r.proc = p /\ r.at = "samples" /\ r.last = mon[m].last + 1 /\ r.md = md
    BY <1>0 DEF Monitor, Reading
  <2>3. /\ w \in Ring /\ w.mapped = ring[md].mapped /\ w.head = ring[md].head
        /\ w.tail = ring[md].tail /\ w.read = ring[md].read + 1 /\ w.late = ring[md].late
        /\ w.ahead = ring[md].ahead
    <3>1. ring[md] \in Ring /\ ring[md].read \in Nat
      BY <1>0, <2>0, RingFields
    <3> QED BY <3>1 DEF Ring
  <2> HIDE DEF r, w
  <2>4. /\ ring' \in [Monitors -> Ring] /\ ring'[md] = w /\ mon'[m] = r
        /\ \A x \in Monitors : x # md => ring'[x] = ring[x]
    BY <1>0, <2>0, <2>1, <2>3 DEF Typed
  <2>5. Live(m) => RingOK(m)' /\ r.md = m
    <3> SUFFICES ASSUME Live(m) PROVE RingOK(m)' /\ r.md = m
      OBVIOUS
    <3>1. md = m
      BY <1>0, LiveFacts DEF Reading
    <3> QED BY <1>0, <2>0, <2>2, <2>3, <2>4, <3>1, LiveFacts, Sizes DEF RingOK
  <2>6. \A x \in Monitors : /\ ring'[x].mapped = ring[x].mapped
                            /\ ring'[x] # ring[x] => mon[x].proc = p
    BY <1>0, <2>0, <2>3, <2>4
  <2> QED BY <1>0, <2>0, <2>1, <2>2, <2>4, <2>5, <2>6, MonitorStep
<1>3. CASE Mapped(m) /\ ~Unread(m)
  <2> DEFINE r == [mon[m] EXCEPT !.at = "reread"]
  <2>0. md # NULL /\ md \in Monitors /\ ~(mon[m].last < ring[md].head)
    BY <1>0, <1>3 DEF Mapped, Unread
  <2>1. mon' = [mon EXCEPT ![m] = r] /\ UNCHANGED <<proc, queue, ring, started, past>>
    BY <1>0, <1>3 DEF ReadSample, Typed, Monitor
  <2>2. /\ r \in Monitor /\ r.proc = p /\ r.at = "reread" /\ r.last = mon[m].last /\ r.md = md
    BY <1>0 DEF Monitor, Reading
  <2> HIDE DEF r
  <2>3. Live(m) => RingOK(m)' /\ r.md = m
    <3> SUFFICES ASSUME Live(m) PROVE RingOK(m)' /\ r.md = m
      OBVIOUS
    <3>1. md = m /\ mon'[m] = r
      BY <1>0, <2>1, LiveFacts DEF Reading, Typed
    <3> QED BY <1>0, <2>0, <2>1, <2>2, <3>1, LiveFacts, Sizes DEF RingOK
  <2> QED BY <1>0, <2>0, <2>1, <2>2, <2>3, MonitorStep
<1> QED BY <1>1, <1>2, <1>3

LEMMA RereadStep ==
  ASSUME Inv, NEW m \in Monitors, Reread(m)
  PROVE  Inv'
<1> DEFINE p == mon[m].proc
           md == mon[m].md
           r == [mon[m] EXCEPT !.last = ring[md].head, !.at = "tail"]
<1>0. /\ Typed /\ mon[m].at = "reread" /\ mon[m] \in Monitor /\ p # NULL /\ p \in Procs
      /\ mon[m].at # "done" /\ mon[m].last \in Nat
      /\ ring \in [Monitors -> Ring] /\ queue \in [Procs -> Nat]
      /\ md # NULL => md \in Monitors /\ mon[md].proc = p
      /\ ring[m].head \in Nat /\ ring[m].tail \in Nat /\ ring[m].read \in Nat /\ ring[m].late \in Nat
  <2>1. mon[m].at = "reread"
    BY DEF Reread
  <2> QED BY <2>1, InCycle
<1>1. CASE ~Mapped(m)
  BY <1>0, <1>1, DieStep DEF Reread
<1>2. CASE Mapped(m)
  <2>0. md # NULL /\ md \in Monitors /\ ring[md].head \in Nat
    BY <1>0, <1>2, RingFields DEF Mapped
  <2>1. mon' = [mon EXCEPT ![m] = r] /\ UNCHANGED <<proc, queue, ring, started, past>>
    BY <1>0, <1>2 DEF Reread, Typed, Monitor
  <2>2. /\ r \in Monitor /\ r.proc = p /\ r.at = "tail" /\ r.last = ring[md].head /\ r.md = md
    BY <1>0, <2>0 DEF Monitor, Reading
  <2> HIDE DEF r
  <2>3. Live(m) => RingOK(m)' /\ r.md = m
    <3> SUFFICES ASSUME Live(m) PROVE RingOK(m)' /\ r.md = m
      OBVIOUS
    <3>1. md = m /\ mon'[m] = r
      BY <1>0, <2>1, LiveFacts DEF Reading, Typed
    <3> QED BY <1>0, <2>1, <2>2, <3>1, LiveFacts, Sizes DEF RingOK
  <2> QED BY <1>0, <2>0, <2>1, <2>2, <2>3, MonitorStep
<1> QED BY <1>1, <1>2

LEMMA TailStep ==
  ASSUME Inv, NEW m \in Monitors, Tail(m)
  PROVE  Inv'
<1> DEFINE p == mon[m].proc
           md == mon[m].md
           r == [mon[m] EXCEPT !.at = "check", !.md = NULL]
           w == [ring[md] EXCEPT !.tail = ring[md].head]
<1>0. /\ Typed /\ mon[m].at = "tail" /\ mon[m] \in Monitor /\ p # NULL /\ p \in Procs
      /\ mon[m].at # "done" /\ mon[m].last \in Nat
      /\ ring \in [Monitors -> Ring] /\ queue \in [Procs -> Nat]
      /\ md # NULL => md \in Monitors /\ mon[md].proc = p
      /\ ring[m].head \in Nat /\ ring[m].tail \in Nat /\ ring[m].read \in Nat /\ ring[m].late \in Nat
  <2>1. mon[m].at = "tail"
    BY DEF Tail
  <2> QED BY <2>1, InCycle
<1>1. CASE ~Mapped(m)
  BY <1>0, <1>1, DieStep DEF Tail
<1>2. CASE Mapped(m)
  <2>0. md # NULL /\ md \in Monitors /\ ring[md] \in Ring /\ ring[md].head \in Nat
    BY <1>0, <1>2, RingFields DEF Mapped
  <2>1. /\ mon' = [mon EXCEPT ![m] = r] /\ ring' = [ring EXCEPT ![md] = w]
        /\ UNCHANGED <<proc, queue, started, past>>
    BY <1>0, <1>2, <2>0 DEF Tail, Typed, Monitor, Ring
  <2>2. /\ r \in Monitor /\ r.proc = p /\ r.at = "check" /\ r.last = mon[m].last /\ r.md = NULL
    <3>1. NULL \in 0..MaxMonitors
      BY Sizes DEF NULL
    <3> QED BY <1>0, <3>1 DEF Monitor
  <2>3. /\ w \in Ring /\ w.mapped = ring[md].mapped /\ w.head = ring[md].head
        /\ w.tail = ring[md].head /\ w.read = ring[md].read /\ w.late = ring[md].late
        /\ w.ahead = ring[md].ahead
    BY <2>0 DEF Ring
  <2> HIDE DEF r, w
  <2>4. /\ ring' \in [Monitors -> Ring] /\ ring'[md] = w /\ mon'[m] = r
        /\ \A x \in Monitors : x # md => ring'[x] = ring[x]
    BY <1>0, <2>0, <2>1, <2>3 DEF Typed
  <2>5. Live(m) => RingOK(m)'
    <3> SUFFICES ASSUME Live(m) PROVE RingOK(m)'
      OBVIOUS
    <3>1. md = m
      BY <1>0, LiveFacts DEF Reading
    <3> QED BY <1>0, <2>0, <2>2, <2>3, <2>4, <3>1, LiveFacts, Sizes DEF RingOK
  <2>6. \A x \in Monitors : /\ ring'[x].mapped = ring[x].mapped
                            /\ ring'[x] # ring[x] => mon[x].proc = p
    BY <1>0, <2>0, <2>3, <2>4
  <2>7. r.at \notin Reading
    BY <2>2 DEF Reading
  <2> QED BY <1>0, <2>1, <2>2, <2>4, <2>5, <2>6, <2>7, MonitorStep
<1> QED BY <1>1, <1>2

-----------------------------------------------------------------------------
LEMMA InitOK == Init => Inv
<1> SUFFICES ASSUME Init PROVE Inv
  OBVIOUS
<1>0. /\ 1 \in Procs /\ NoProc \in Proc /\ [NoProc EXCEPT !.at = "idle"] \in Proc
  BY PebsAssumption, Fresh DEF Procs, Proc, Ats
<1>1. Typed
  BY <1>0, Sizes, Fresh DEF Typed, Init
<1>2. ASSUME NEW p \in Procs PROVE ProcOK(p)
  BY Sizes DEF Init, ProcOK, Clean, NoProc, NoMonitor, Joining, NULL, Policies
<1>3. ASSUME NEW m \in Monitors PROVE MonitorOK(m) /\ OwnOK(m) /\ RingOK(m)
  BY DEF Init, MonitorOK, OwnOK, RingOK, NoMonitor, NULL
<1> QED BY <1>1, <1>2, <1>3 DEF Inv

LEMMA NextOK == Inv /\ [Next]_vars => Inv'
<1> SUFFICES ASSUME Inv, [Next]_vars PROVE Inv'
  OBVIOUS
<1>1. ASSUME NEW p \in Procs, NEW policy \in Policies, Create(p, policy) \/ Delete(p, policy)
      PROVE  Inv'
  BY <1>1, CreateStep, DeleteStep
<1>2. ASSUME NEW p \in Procs, NEW q \in Procs, Fork(p, q) PROVE Inv'
  BY <1>2, ForkStep
<1>3. ASSUME NEW p \in Procs, Destructor(p) \/ Join(p) \/ PebsFork(p) \/ PfmFails(p) \/ Push(p)
      PROVE  Inv'
  BY <1>3, DestructorStep, JoinStep, PebsForkStep, PfmFailsStep, PushStep
<1>4. ASSUME NEW policy \in Policies, Constructor(policy) PROVE Inv'
  BY <1>4, ConstructorStep
<1>5. ASSUME NEW m \in Monitors, Cycle(m) \/ Sample(m) PROVE Inv'
  BY <1>5, CheckStep, PopStep, ReadSampleStep, RereadStep, TailStep, SampleStep DEF Cycle
<1>6. CASE UNCHANGED vars
  <2>1. queue' \in [Procs -> Nat]
    BY <1>6 DEF vars, Inv, Typed
  <2> QED BY <1>6, <2>1, QueueStep DEF vars
<1> QED BY <1>1, <1>2, <1>3, <1>4, <1>5, <1>6 DEF Next

\* What a monitor of a clean process may rely on.
LEMMA RunningIsLive ==
  ASSUME Inv, NEW p \in Procs, past[p] = {}
  PROVE  /\ Running(p) \subseteq {proc[p].thread}
         /\ \A m \in Running(p) : m \in Monitors /\ Live(m) /\ mon[m].proc = p
<1>1. \A m \in Running(p) : m \in Monitors /\ Live(m) /\ mon[m].proc = p
  BY Sizes DEF Running, Live, Clean
<1> QED BY <1>1 DEF Inv, OwnOK, Live

\* A process never has two monitors, which would both take events from the
\* lockless queue and write the ranking (pebs.c, pebs_init and pebs_fini),
\* unless memories of the hotness policy overlap or the process forked.
THEOREM OneMonitor == Spec => []SingleReaderUnlessForked
<1>1. Inv => SingleReaderUnlessForked
  <2> SUFFICES ASSUME Inv, NEW p \in Procs, past[p] = {} PROVE Cardinality(Running(p)) =< 1
    BY DEF SingleReaderUnlessForked
  <2>1. IsFiniteSet({proc[p].thread}) /\ Cardinality({proc[p].thread}) = 1
    BY FS_Singleton
  <2>2. Cardinality(Running(p)) =< Cardinality({proc[p].thread})
    BY <2>1, RunningIsLive, FS_Subset
  <2> QED BY <2>1, <2>2
<1> QED BY <1>1, InitOK, NextOK, PTL DEF Spec

\* A monitor finds the ring of pebs_mmap mapped at each of its accesses and the
\* queue made when it takes events from it.
THEOREM MonitorIsSafe == Spec => []MonitorSafe
<1>1. Inv => MonitorSafe
  <2> SUFFICES ASSUME Inv, NEW p \in Procs, past[p] = {}, NEW m \in Running(p)
               PROVE  /\ mon[m].at \in Reading => Mapped(m)
                      /\ mon[m].at = "pop" => proc[p].initialized
    BY DEF MonitorSafe, Reading
  <2>1. m \in Monitors /\ Live(m) /\ mon[m].proc = p /\ m # NULL
    BY RunningIsLive, Sizes
  <2>2. OwnOK(m)
    BY <2>1 DEF Inv
  <2> QED BY <2>1, <2>2 DEF OwnOK, Live, Mapped
<1> QED BY <1>1, InitOK, NextOK, PTL DEF Spec

\* last_head stays within RingSize records of data_head, so that the record the
\* monitor reads next is still there, unless records arrived between the two
\* reads of data_head at the end of a cycle.
THEOREM RecordsAreIntact == Spec => []RecordsIntact
<1>1. Inv => RecordsIntact
  <2> SUFFICES ASSUME Inv, NEW m \in Monitors, Sole(m), mon[m].at = "samples",
                      ~ring[mon[m].md].ahead
               PROVE  ring[mon[m].md].head =< mon[m].last + RingSize
    BY DEF RecordsIntact
  <2>1. Live(m)
    BY DEF Live, Sole, Clean
  <2>2. mon[m].md = m
    BY <2>1, LiveFacts DEF Reading
  <2>3. /\ ring[m].head \in Nat /\ ring[m].tail \in Nat /\ mon[m].last \in Nat
    BY RingFields, MonitorFields DEF Inv
  <2> QED BY <2>1, <2>2, <2>3, LiveFacts, Sizes
<1> QED BY <1>1, InitOK, NextOK, PTL DEF Spec

\* A monitor has read every record below last_head, but for those that came
\* between the end of its loop and the next read of data_head.
THEOREM SamplesAreSeen == Spec => []SamplesSeen
<1>1. Inv => SamplesSeen
  <2> SUFFICES ASSUME Inv, NEW m \in Monitors, Sole(m), mon[m].at = "samples"
               PROVE  mon[m].last = ring[mon[m].md].read + ring[mon[m].md].late
    BY DEF SamplesSeen
  <2>1. Live(m)
    BY DEF Live, Sole, Clean
  <2>2. mon[m].md = m
    BY <2>1, LiveFacts DEF Reading
  <2> QED BY <2>1, <2>2, LiveFacts
<1> QED BY <1>1, InitOK, NextOK, PTL DEF Spec
=============================================================================
