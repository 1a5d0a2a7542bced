------------------------- MODULE KindRegistryProofs -------------------------
(***************************************************************************)
(* What the registries promise for any number of threads, kinds, arenas    *)
(* and descriptors.  The invariant has a part for each of them: what is    *)
(* in the slots, the partitions, the files and the arenas; the first is    *)
(* used by all the others.                                                 *)
(***************************************************************************)
EXTENDS KindRegistry, FiniteSetTheorems, SequenceTheorems, WellFoundedInduction,
        NaturalsInduction, TLAPS

\* The types: a struct memkind has these fields, whatever is in its map.
IsKind(r) == r = [name |-> r.name, partition |-> r.partition, fd |-> r.fd, dir |-> r.dir,
                  map |-> r.map, live |-> r.live]
Calls == {Idle} \cup [at : {"create"}, fd : 0..MaxFds]
                \cup [at : {"close", "replace"}, fd : 0..MaxFds, kind : 0..NumBase + MaxCreates]
Typed ==
  /\ kinds = [k \in Ids |-> kinds[k]]
  /\ \A k \in Ids : /\ IsKind(kinds[k]) /\ kinds[k].name \in Int /\ kinds[k].partition \in Int
                    /\ kinds[k].fd \in 0..MaxFds /\ kinds[k].live \in BOOLEAN
                    /\ kinds[k].dir \in BOOLEAN
  /\ pmap \in [Slots -> 0..NumBase + MaxCreates] /\ num_kind \in Int
  /\ fds \subseteq Fd /\ pc \in [Threads -> Calls]
  /\ created \in NumBase..NumBase + MaxCreates

\* The slots.  Even when two kinds have one name num_kind counts the slots in
\* use, so that there is a hole when it is below MaxKind.
Used == {i \in Slots : pmap[i] # NULL}
SlotsOK ==
  /\ \A i \in Slots : /\ pmap[i] =< created
                      /\ i < NumBase => pmap[i] = i + 1
                      /\ i >= NumBase => pmap[i] \notin Statics
  /\ \A k \in Ids : k > created => ~kinds[k].live
  /\ \A k \in Statics : kinds[k].live /\ kinds[k].partition = k - 1
  /\ num_kind = Cardinality(Used)

NamesOK ==
  "clash" \notin past =>
     /\ \A i \in Used : kinds[pmap[i]].live
     /\ \A k \in Live : \E i \in Slots : pmap[i] = k
     /\ \A i, j \in Used : pmap[i] = pmap[j] => i = j
     /\ \A k, l \in Dynamic : kinds[k].name = kinds[l].name => k = l

\* Younger kinds have higher partitions, all below num_kind.
PartitionsOK ==
  past \cap {"clash", "out of order"} = {} =>
     \A k \in Live : /\ kinds[k].partition < num_kind
                     /\ \A l \in Live : k < l => kinds[k].partition < kinds[l].partition

\* The files, by the kinds and the calls that hold them.
Calling == {t \in Threads : pc[t] # Idle}
FilesOpen == /\ \A k \in WithFile : kinds[k].fd \in fds
             /\ \A t \in Calling : pc[t].fd \in fds
FilesApart == /\ \A k, l \in WithFile : kinds[k].fd = kinds[l].fd => k = l
              /\ \A t, u \in Calling : pc[t].fd = pc[u].fd => t = u
              /\ \A k \in WithFile, t \in Calling : kinds[k].fd # pc[t].fd
FilesHeld == \A f \in fds : \/ \E k \in WithFile : kinds[k].fd = f
                            \/ \E t \in Calling : pc[t].fd = f
FilesOK == past \cap {"clash", "closed twice"} = {} =>
              /\ FilesOpen /\ FilesApart
              /\ "file leaked" \notin past => FilesHeld

\* A kind whose file is being replaced is not destroyed.
ReplaceOK == \A t \in Threads : pc[t].at = "replace" => pc[t].kind \in WithFile

\* The arenas: every one registered is in the map of its kind, and the other way
\* round, and jemalloc has no other alive.
MapOK(k) == /\ \/ k \in Statics /\ kinds[k].map = NoMap
               \/ kinds[k].map.len = MapLen /\ kinds[k].map.zero \in Nat
            /\ \A a \in ArenasOf(k) : a \in Arenas /\ registry[a] = k
RegistryOK ==
  /\ \A k \in Live : MapOK(k)
  /\ registry \in [Arenas -> 0..NumBase + MaxCreates]
  /\ \A a \in Arenas : registry[a] # NULL => /\ registry[a] \in Live
                                             /\ a \in ArenasOf(registry[a])
  /\ je = [narenas |-> je.narenas, alive |-> je.alive, destroyed |-> je.destroyed]
  /\ je.alive = {a \in Arenas : registry[a] # NULL}

\* The indices jemalloc will recycle.  They come MapLen at a time: between two
\* bounds of B they are consecutive.
Blocks(B, s) ==
  /\ {0, Len(s)} \subseteq B
  /\ \A b \in B : b # 0 => /\ b - MapLen \in B
                           /\ \A j \in 1..MapLen : s[b - MapLen + j] = s[b - MapLen + 1] + j - 1
Recycled(s, n, alive) ==
  /\ s \in Seq(0..n - 1)
  /\ \A x \in 1..Len(s) : s[x] \notin alive
  /\ \A x, y \in 1..Len(s) : s[x] = s[y] => x = y
  /\ \E B \in SUBSET (0..Len(s)) : Blocks(B, s)
PoolOK ==
  /\ je.narenas \in 0..MaxArenas /\ je.alive \subseteq 0..je.narenas - 1
  /\ Recycled(je.destroyed, je.narenas, je.alive)
ArenasOK ==
  past \cap {"clash", "half created"} = {} => RegistryOK /\ ("finalized" \notin past => PoolOK)

\* Nothing happens after memkind_finalize.
FinalOK == "finalized" \in past => ops = MaxOps /\ \A t \in Threads : pc[t] = Idle

Inv == Typed /\ SlotsOK /\ NamesOK /\ PartitionsOK /\ FilesOK /\ ReplaceOK /\ FinalOK

-----------------------------------------------------------------------------
\* The constants.
LEMMA Sizes ==
  /\ NumBase \in Nat /\ MaxKind \in Nat /\ MaxCreates \in Nat /\ MaxFds \in Nat
  /\ NumBase =< MaxKind
  /\ Slots \subseteq Nat /\ IsFiniteSet(Slots) /\ Cardinality(Slots) = MaxKind
  /\ Statics \subseteq Ids /\ Ids \subseteq Nat /\ NULL \notin Ids
  /\ Fd \subseteq Nat /\ Fd \subseteq 0..MaxFds /\ NULL \notin Fd
  /\ \A k \in Ids : k \in 0..NumBase + MaxCreates /\ (k \in Statics <=> k =< NumBase)
  /\ \A k \in 0..NumBase + MaxCreates : k # NULL => k \in Ids
  /\ NULL \in 0..NumBase + MaxCreates
<1>1. /\ NumBase \in Nat /\ MaxKind \in Nat /\ MaxCreates \in Nat /\ MaxFds \in Nat
      /\ NumBase =< MaxKind
  BY KindAssumption, FdAssumption
<1>2. IsFiniteSet(Slots) /\ Cardinality(Slots) = MaxKind
  BY <1>1, FS_Interval DEF Slots
<1>3. NULL \in 0..NumBase + MaxCreates
  BY <1>1 DEF NULL
<1> QED BY <1>1, <1>2, <1>3 DEF Slots, Statics, Ids, Fd, NULL

\* The types, one by one.
LEMMA Types ==
  ASSUME Typed
  PROVE  /\ pmap \in [Slots -> 0..NumBase + MaxCreates] /\ num_kind \in Int /\ fds \subseteq Fd
         /\ pc \in [Threads -> Calls] /\ created \in NumBase..NumBase + MaxCreates
         /\ created \in Nat /\ \A i \in Slots : pmap[i] \in 0..NumBase + MaxCreates
         /\ \A i \in Used : i \in Slots /\ pmap[i] \in Ids
<1>1. /\ pmap \in [Slots -> 0..NumBase + MaxCreates] /\ num_kind \in Int /\ fds \subseteq Fd
      /\ pc \in [Threads -> Calls] /\ created \in NumBase..NumBase + MaxCreates
  BY DEF Typed
<1>2. created \in Nat
  BY <1>1, KindAssumption
<1> QED BY <1>1, <1>2, Sizes DEF Used

LEMMA KindTypes ==
  ASSUME Typed, NEW k \in Ids
  PROVE  /\ IsKind(kinds[k]) /\ kinds[k].name \in Int /\ kinds[k].partition \in Int
         /\ kinds[k].fd \in 0..MaxFds /\ kinds[k].live \in BOOLEAN /\ kinds[k].dir \in BOOLEAN
BY DEF Typed

\* Sets of natural numbers have a minimum, and bounded ones a maximum.
LEMMA Least ==
  ASSUME NEW S, S \subseteq Nat, S # {}
  PROVE  Min(S) \in S /\ \A y \in S : Min(S) =< y
<1>1. IsWellFoundedOn(OpToRel(<, Nat), Nat)
  BY NatLessThanWellFounded
<1>2. PICK x \in S : \A y \in S : ~(<<y, x>> \in OpToRel(<, Nat))
  BY <1>1, WFMin
<1>3. \A y \in S : ~(y < x)
  BY <1>2 DEF OpToRel
<1>4. \A y \in S : x =< y
  BY <1>3
<1> QED BY <1>4 DEF Min

LEMMA Greatest ==
  ASSUME NEW S, S \subseteq Nat, S # {}, NEW n \in Nat, \A x \in S : x =< n
  PROVE  Max(S) \in S /\ \A y \in S : y =< Max(S)
<1> DEFINE T == {n - x : x \in S}
<1>1. Min(T) \in T /\ \A y \in T : Min(T) =< y
  <2>1. T \subseteq Nat /\ T # {}
    <3>1. \A x \in S : n - x \in Nat
      OBVIOUS
    <3> QED BY <3>1
  <2> HIDE DEF T
  <2> QED BY <2>1, Least
<1>2. PICK x \in S : Min(T) = n - x
  BY <1>1
<1>3. \A y \in S : x >= y
  <2> TAKE y \in S
  <2>1. Min(T) =< n - y
    BY <1>1
  <2>2. x \in Nat /\ y \in Nat /\ n - x =< n - y
    BY <1>2, <2>1
  <2> QED BY <2>2
<1>4. \E z \in S : \A y \in S : z >= y
  BY <1>3
<1>5. Max(S) \in S /\ \A y \in S : Max(S) >= y
  BY <1>4 DEF Max
<1> QED BY <1>5

\* A kind that is written.
LEMMA Written ==
  ASSUME Typed, NEW k \in Ids, NEW r, kinds' = [kinds EXCEPT ![k] = r]
  PROVE  /\ kinds'[k] = r /\ \A j \in Ids : j # k => kinds'[j] = kinds[j]
         /\ kinds' = [j \in Ids |-> kinds'[j]]
BY DEF Typed

\* A field that is written.
LEMMA FdWritten ==
  ASSUME NEW r, IsKind(r), NEW g, NEW q, q = [r EXCEPT !.fd = g]
  PROVE  /\ IsKind(q) /\ q.name = r.name /\ q.partition = r.partition
         /\ q.fd = g /\ q.live = r.live /\ q.dir = r.dir /\ q.map = r.map
BY DEF IsKind

LEMMA LiveWritten ==
  ASSUME NEW r, IsKind(r), NEW g, NEW q, q = [r EXCEPT !.live = g]
  PROVE  /\ IsKind(q) /\ q.name = r.name /\ q.partition = r.partition
         /\ q.fd = r.fd /\ q.live = g /\ q.dir = r.dir
BY DEF IsKind

\* A call that begins, or that goes on, is not made after memkind_finalize.
LEMMA Before ==
  ASSUME Inv, NEW t \in Threads, Begin(t) \/ pc[t].at \in {"create", "close", "replace"}
  PROVE  "finalized" \notin past
<1>1. MaxOps \in Nat
  BY KindAssumption
<1> QED BY <1>1 DEF Inv, FinalOK, Begin, Idle

\* A thread in a call has the file of the call.
LEMMA InCall ==
  ASSUME Typed, NEW t \in Threads
  PROVE  /\ pc[t] # Idle <=> pc[t].at \in {"create", "close", "replace"}
         /\ pc[t] # Idle => pc[t].fd \in 0..MaxFds /\ pc[t].fd \in Nat
BY Sizes DEF Typed, Calls, Idle

\* Everyone holds the file they held.
LEMMA FilesKept ==
  ASSUME WithFile' = WithFile, Calling' = Calling, fds' = fds,
         \A k \in WithFile : kinds'[k].fd = kinds[k].fd, \A t \in Calling : pc'[t].fd = pc[t].fd
  PROVE  (FilesOpen => FilesOpen') /\ (FilesApart => FilesApart') /\ (FilesHeld => FilesHeld')
<1>1. FilesOpen => FilesOpen'
  BY DEF FilesOpen
<1>2. FilesApart => FilesApart'
  <2> SUFFICES ASSUME FilesApart PROVE FilesApart'
    OBVIOUS
  <2>1. \A k, l \in WithFile : kinds'[k].fd = kinds'[l].fd => k = l
    BY DEF FilesApart
  <2>2. \A t, u \in Calling : pc'[t].fd = pc'[u].fd => t = u
    BY DEF FilesApart
  <2>3. \A k \in WithFile, t \in Calling : kinds'[k].fd # pc'[t].fd
    BY DEF FilesApart
  <2> QED BY <2>1, <2>2, <2>3 DEF FilesApart
<1>3. FilesHeld => FilesHeld'
  BY DEF FilesHeld
<1> QED BY <1>1, <1>2, <1>3

\* The calls that replace a file are those before, or have a kind with a file.
LEMMA ReplaceKept ==
  ASSUME ReplaceOK, WithFile \subseteq WithFile',
         \A t \in Threads : pc'[t] = pc[t] \/ (pc'[t].at = "replace" => pc'[t].kind \in WithFile')
  PROVE  ReplaceOK'
BY DEF ReplaceOK

\* A step that changes no more than the maps of kinds.
LEMMA MapStep ==
  ASSUME Inv, kinds' = [k \in Ids |-> kinds'[k]],
         \A k \in Ids : /\ IsKind(kinds'[k]) /\ kinds'[k].name = kinds[k].name
                        /\ kinds'[k].partition = kinds[k].partition /\ kinds'[k].fd = kinds[k].fd
                        /\ kinds'[k].live = kinds[k].live /\ kinds'[k].dir = kinds[k].dir,
         UNCHANGED <<pmap, num_kind, fds, pc, created, past>>, FinalOK'
  PROVE  Inv'
<1>1. Typed'
  BY DEF Inv, Typed
<1>2. /\ Live' = Live /\ Dynamic' = Dynamic /\ Used' = Used /\ Calling' = Calling
      /\ WithFile' = WithFile
  BY DEF Live, Dynamic, WithFile, Used, Calling
<1>3. SlotsOK'
  BY <1>2, Sizes DEF Inv, SlotsOK
<1>4. NamesOK'
  <2>1. \A i \in Used : pmap[i] \in Ids
    BY Sizes DEF Inv, Typed, Used
  <2> QED BY <1>2, <2>1 DEF Inv, NamesOK, Dynamic
<1>5. PartitionsOK'
  BY <1>2 DEF Inv, PartitionsOK, Live
<1>6. FilesOK'
  <2>1. \A k \in WithFile : kinds'[k].fd = kinds[k].fd
    BY DEF WithFile, Dynamic
  <2>2. (FilesOpen => FilesOpen') /\ (FilesApart => FilesApart') /\ (FilesHeld => FilesHeld')
    BY <1>2, <2>1, FilesKept
  <2> QED BY <2>2 DEF Inv, FilesOK
<1>7. ReplaceOK'
  BY <1>2, ReplaceKept DEF Inv
<1> QED BY <1>1, <1>3, <1>4, <1>5, <1>6, <1>7 DEF Inv

LEMMA InitStaticStep ==
  ASSUME Inv, NEW t \in Threads, InitStatic(t)
  PROVE  Inv'
<1>1. PICK k \in Statics : kinds' = [kinds EXCEPT ![k].map = MapAfterCreate]
  BY DEF InitStatic
<1>2. UNCHANGED <<pmap, num_kind, fds, pc, created, past>> /\ "finalized" \notin past
  BY Before DEF InitStatic
<1> DEFINE r == [kinds[k] EXCEPT !.map = MapAfterCreate]
<1>3. k \in Ids /\ Typed /\ IsKind(kinds[k])
  BY Sizes DEF Inv, Typed
<1>4. /\ IsKind(r) /\ r.name = kinds[k].name /\ r.partition = kinds[k].partition
      /\ r.fd = kinds[k].fd /\ r.live = kinds[k].live /\ r.dir = kinds[k].dir
  BY <1>3 DEF IsKind
<1>5. kinds' = [kinds EXCEPT ![k] = r]
  BY <1>1
<1> HIDE DEF r
<1>6. /\ kinds'[k] = r /\ \A j \in Ids : j # k => kinds'[j] = kinds[j]
      /\ kinds' = [j \in Ids |-> kinds'[j]]
  BY <1>3, <1>5, Written
<1>7. FinalOK'
  BY <1>2 DEF FinalOK
<1>8. \A j \in Ids : /\ IsKind(kinds'[j]) /\ kinds'[j].name = kinds[j].name
                     /\ kinds'[j].partition = kinds[j].partition /\ kinds'[j].fd = kinds[j].fd
                     /\ kinds'[j].live = kinds[j].live /\ kinds'[j].dir = kinds[j].dir
  BY <1>3, <1>4, <1>6 DEF Typed
<1> QED BY <1>2, <1>6, <1>7, <1>8, MapStep

\* A step of a call that leaves the kinds and the slots alone.
LEMMA CallStep ==
  ASSUME Inv, UNCHANGED <<kinds, pmap, num_kind>>, created' \in {created, created + 1},
         created' =< NumBase + MaxCreates, past \subseteq past', "clash" \in past' => "clash" \in past,
         "finalized" \notin past', fds' \subseteq Fd, pc' \in [Threads -> Calls], FilesOK', ReplaceOK'
  PROVE  Inv'
<1>0. Typed /\ created \in Nat /\ created \in NumBase..NumBase + MaxCreates
  BY Sizes DEF Inv, Typed
<1>1. Typed'
  <2>1. created' \in NumBase..NumBase + MaxCreates
    BY <1>0, Sizes
  <2> QED BY <1>0, <2>1 DEF Typed
<1>2. Live' = Live /\ Dynamic' = Dynamic /\ Used' = Used
  BY DEF Live, Dynamic, Used
<1>3. SlotsOK'
  <2>1. \A i \in Slots : pmap[i] \in Nat
    BY <1>0 DEF Typed
  <2>2. \A i \in Slots : pmap[i] =< created => pmap[i] =< created'
    BY <1>0, <2>1
  <2>3. \A k \in Ids : k > created' => k > created
    BY <1>0, Sizes
  <2> QED BY <1>2, <2>2, <2>3 DEF Inv, SlotsOK
<1>4. NamesOK'
  BY <1>2 DEF Inv, NamesOK
<1>5. PartitionsOK'
  BY <1>2 DEF Inv, PartitionsOK
<1>6. FinalOK'
  BY DEF FinalOK
<1> QED BY <1>1, <1>3, <1>4, <1>5, <1>6 DEF Inv

\* The lowest free descriptor.
LEMMA Opened ==
  ASSUME FreeFds # {}
  PROVE  Min(FreeFds) \in Fd /\ Min(FreeFds) \notin fds
<1>1. FreeFds \subseteq Nat
  BY Sizes DEF FreeFds
<1>2. Min(FreeFds) \in FreeFds
  BY <1>1, Least
<1> QED BY <1>2 DEF FreeFds

\* A call that begins holds the file it opened.
LEMMA FileJoins ==
  ASSUME NEW t, NEW f, f \notin fds, fds' = fds \cup {f}, UNCHANGED kinds, pc'[t].fd = f,
         WithFile' = WithFile, Calling' = Calling \cup {t}, t \notin Calling,
         \A u \in Calling : u # t /\ pc'[u] = pc[u], FilesOpen, FilesApart
  PROVE  FilesOpen' /\ FilesApart' /\ (FilesHeld => FilesHeld')
<1>1. FilesOpen'
  BY DEF FilesOpen
<1>2. /\ \A k \in WithFile : kinds[k].fd # f
      /\ \A u \in Calling : pc[u].fd # f
  BY DEF FilesOpen
<1>3. FilesApart'
  BY <1>2 DEF FilesApart
<1>4. FilesHeld => FilesHeld'
  BY DEF FilesHeld
<1> QED BY <1>1, <1>3, <1>4

LEMMA CreateTmpfileStep ==
  ASSUME Inv, NEW t \in Threads, CreateTmpfile(t)
  PROVE  Inv'
<1> DEFINE f == Min(FreeFds)
           c == [at |-> "create", fd |-> f]
<1>1. /\ Typed /\ pc[t] = Idle /\ fds' = fds \cup {f} /\ pc' = [pc EXCEPT ![t] = c]
      /\ UNCHANGED <<kinds, pmap, num_kind, created, past>> /\ f \in Fd /\ f \notin fds
      /\ "finalized" \notin past
  BY Before, Opened DEF Inv, CreateTmpfile, Begin, Goes
<1> HIDE DEF f
<1>2. c \in Calls /\ c # Idle /\ c.fd = f /\ c.at # "replace"
  BY <1>1, Sizes DEF Calls, Idle
<1> HIDE DEF c
<1>3. /\ pc' \in [Threads -> Calls] /\ pc'[t] = c
      /\ \A u \in Threads : u # t => pc'[u] = pc[u]
  BY <1>1, <1>2 DEF Typed
<1>4. WithFile' = WithFile /\ Calling' = Calling \cup {t} /\ t \notin Calling
  BY <1>1, <1>2, <1>3 DEF WithFile, Dynamic, Calling
<1>5. \A u \in Calling : u # t /\ pc'[u] = pc[u]
  BY <1>3, <1>4 DEF Calling
<1>6. ASSUME FilesOpen, FilesApart PROVE FilesOpen' /\ FilesApart' /\ (FilesHeld => FilesHeld')
  BY <1>1, <1>2, <1>3, <1>4, <1>5, <1>6, FileJoins
<1>7. FilesOK'
  BY <1>1, <1>6 DEF Inv, FilesOK
<1>8. fds' \subseteq Fd /\ created' =< NumBase + MaxCreates
  BY <1>1 DEF Typed
<1>9. ReplaceOK'
  BY <1>2, <1>3, <1>4, ReplaceKept DEF Inv
<1> QED BY <1>1, <1>3, <1>7, <1>8, <1>9, CallStep

\* memkind_create fails: the call goes on to close its file.
LEMMA GivesUp ==
  ASSUME Inv, NEW t \in Threads, pc[t].at = "create",
         Goes(t, [at |-> "close", fd |-> pc[t].fd, kind |-> NULL]),
         UNCHANGED <<kinds, pmap, num_kind, fds>>, created' \in {created, created + 1},
         created' =< NumBase + MaxCreates, past \subseteq past', "clash" \in past' => "clash" \in past,
         "file leaked" \in past' => "file leaked" \in past, "finalized" \in past' => "finalized" \in past
  PROVE  Inv'
<1> DEFINE c == [at |-> "close", fd |-> pc[t].fd, kind |-> NULL]
<1>1. /\ Typed /\ pc[t] # Idle /\ pc[t].fd \in 0..MaxFds /\ pc' = [pc EXCEPT ![t] = c]
      /\ "finalized" \notin past
  BY Before, InCall DEF Inv, Goes, Idle
<1>2. c \in Calls /\ c # Idle /\ c.fd = pc[t].fd /\ c.at # "replace"
  BY <1>1, Sizes DEF Calls, Idle
<1> HIDE DEF c
<1>3. /\ pc' \in [Threads -> Calls] /\ pc'[t] = c
      /\ \A u \in Threads : u # t => pc'[u] = pc[u]
  BY <1>1, <1>2 DEF Typed
<1>4. WithFile' = WithFile /\ Calling' = Calling
  BY <1>1, <1>2, <1>3 DEF WithFile, Dynamic, Calling
<1>5. \A u \in Calling : pc'[u].fd = pc[u].fd
  BY <1>2, <1>3 DEF Calling
<1>6. (FilesOpen => FilesOpen') /\ (FilesApart => FilesApart') /\ (FilesHeld => FilesHeld')
  BY <1>4, <1>5, FilesKept
<1>7. FilesOK'
  BY <1>6 DEF Inv, FilesOK
<1>8. fds' \subseteq Fd
  BY <1>1 DEF Typed
<1>9. ReplaceOK'
  BY <1>2, <1>3, <1>4, ReplaceKept DEF Inv
<1> QED BY <1>1, <1>3, <1>7, <1>8, <1>9, CallStep

LEMMA CreateRefusedStep ==
  ASSUME Inv, NEW t \in Threads, CreateRefused(t)
  PROVE  Inv'
<1>1. created' \in {created, created + 1} /\ created' =< NumBase + MaxCreates
  BY DEF Inv, Typed, CreateRefused
<1> QED BY <1>1, GivesUp DEF CreateRefused

LEMMA CreateFailsStep ==
  ASSUME Inv, NEW t \in Threads, CreateFails(t)
  PROVE  Inv'
<1>1. created' \in {created, created + 1} /\ created' =< NumBase + MaxCreates
  <2>1. created \in NumBase..NumBase + MaxCreates
    BY DEF Inv, Typed
  <2>2. created' = created + 1 /\ created < NumBase + MaxCreates
    BY DEF CreateFails
  <2> QED BY <2>1, <2>2, KindAssumption
<1>2. past' = past \cup {"half created"}
  BY DEF CreateFails, Happened
<1> QED BY <1>1, <1>2, GivesUp DEF CreateFails

LEMMA CloseStep ==
  ASSUME Inv, NEW t \in Threads, Close(t)
  PROVE  Inv'
<1>1. /\ Typed /\ pc[t] # Idle /\ pc' = [pc EXCEPT ![t] = Idle] /\ fds' = fds \ {pc[t].fd}
      /\ UNCHANGED <<kinds, pmap, num_kind, created, past>> /\ "finalized" \notin past
  BY Before, InCall DEF Inv, Close, Goes
<1>2. /\ pc' \in [Threads -> Calls] /\ pc'[t] = Idle
      /\ \A u \in Threads : u # t => pc'[u] = pc[u]
  BY <1>1 DEF Typed, Calls
<1>3. WithFile' = WithFile /\ Calling' = Calling \ {t} /\ t \in Calling
  BY <1>1, <1>2 DEF WithFile, Dynamic, Calling
<1>4. \A u \in Calling' : u \in Calling /\ u # t /\ pc'[u] = pc[u]
  BY <1>2, <1>3 DEF Calling
<1>5. ASSUME FilesOpen, FilesApart PROVE FilesOpen' /\ FilesApart' /\ (FilesHeld => FilesHeld')
  <2>1. /\ \A k \in WithFile : kinds[k].fd # pc[t].fd
        /\ \A u \in Calling' : pc[u].fd # pc[t].fd
    BY <1>3, <1>4, <1>5 DEF FilesApart
  <2>2. FilesOpen'
    BY <1>1, <1>3, <1>4, <1>5, <2>1 DEF FilesOpen
  <2>3. FilesApart'
    BY <1>1, <1>3, <1>4, <1>5 DEF FilesApart
  <2>4. FilesHeld => FilesHeld'
    BY <1>1, <1>3, <1>4 DEF FilesHeld
  <2> QED BY <2>2, <2>3, <2>4
<1>6. FilesOK'
  BY <1>1, <1>5 DEF Inv, FilesOK
<1>7. fds' \subseteq Fd /\ created' =< NumBase + MaxCreates
  BY <1>1 DEF Typed
<1>8. ReplaceOK'
  BY <1>2, <1>3, ReplaceKept DEF Inv, Idle
<1> QED BY <1>1, <1>2, <1>6, <1>7, <1>8, CallStep

LEMMA RecreateFailsStep ==
  ASSUME Inv, NEW t \in Threads, RecreateFails(t)
  PROVE  Inv'
<1>1. /\ Typed /\ pc[t] # Idle /\ pc' = [pc EXCEPT ![t] = Idle]
      /\ UNCHANGED <<kinds, pmap, num_kind, fds, created>> /\ past' = past \cup {"file leaked"}
      /\ "finalized" \notin past
  BY Before, InCall DEF Inv, RecreateFails, Happened, Goes
<1>2. /\ pc' \in [Threads -> Calls] /\ pc'[t] = Idle
      /\ \A u \in Threads : u # t => pc'[u] = pc[u]
  BY <1>1 DEF Typed, Calls
<1>3. WithFile' = WithFile /\ Calling' = Calling \ {t}
  BY <1>1, <1>2 DEF WithFile, Dynamic, Calling
<1>4. /\ \A u \in Calling \ {t} : u \in Calling /\ pc'[u].fd = pc[u].fd
      /\ \A k \in WithFile : kinds'[k].fd = kinds[k].fd
  BY <1>1, <1>2 DEF Calling
<1>0. fds' = fds
  BY <1>1
<1>5. ASSUME FilesOpen PROVE FilesOpen'
  <2>1. \A k \in WithFile : kinds'[k].fd \in fds'
    BY <1>0, <1>4, <1>5 DEF FilesOpen
  <2>2. \A u \in Calling \ {t} : pc'[u].fd \in fds'
    BY <1>0, <1>4, <1>5 DEF FilesOpen
  <2> QED BY <1>3, <2>1, <2>2 DEF FilesOpen
<1>6. ASSUME FilesApart PROVE FilesApart'
  <2>1. \A k, l \in WithFile : kinds'[k].fd = kinds'[l].fd => k = l
    BY <1>4, <1>6 DEF FilesApart
  <2>2. \A u, v \in Calling \ {t} : pc'[u].fd = pc'[v].fd => u = v
    BY <1>4, <1>6 DEF FilesApart
  <2>3. \A k \in WithFile, u \in Calling \ {t} : kinds'[k].fd # pc'[u].fd
    BY <1>4, <1>6 DEF FilesApart
  <2> QED BY <1>3, <2>1, <2>2, <2>3 DEF FilesApart
<1>7. FilesOK'
  BY <1>1, <1>5, <1>6 DEF Inv, FilesOK
<1>8. fds' \subseteq Fd /\ created' =< NumBase + MaxCreates
  <2>1. created' = created /\ created \in NumBase..NumBase + MaxCreates /\ fds \subseteq Fd
    BY <1>1, Types
  <2> QED BY <1>0, <2>1, KindAssumption
<1>9. ReplaceOK'
  BY <1>2, <1>3, ReplaceKept DEF Inv, Idle
<1> QED BY <1>1, <1>2, <1>7, <1>8, <1>9, CallStep

\* memkind_pmem_recreate_file opens the new file.
LEMMA RecreateFileStep ==
  ASSUME Inv, NEW t \in Threads, RecreateFile(t)
  PROVE  Inv'
<1>0. PICK k \in WithFile : Goes(t, [at |-> "replace", fd |-> Min(FreeFds), kind |-> k])
  BY DEF RecreateFile
<1> DEFINE f == Min(FreeFds)
           c == [at |-> "replace", fd |-> f, kind |-> k]
<1>1. /\ Typed /\ pc[t] = Idle /\ fds' = fds \cup {f} /\ pc' = [pc EXCEPT ![t] = c]
      /\ UNCHANGED <<kinds, pmap, num_kind, created, past>> /\ f \in Fd /\ f \notin fds
      /\ "finalized" \notin past
  BY <1>0, Before, Opened DEF Inv, RecreateFile, Begin, Goes
<1> HIDE DEF f
<1>2. c \in Calls /\ c # Idle /\ c.fd = f /\ c.kind = k
  <2>1. k \in 0..NumBase + MaxCreates /\ f \in 0..MaxFds
    BY <1>1, Sizes DEF WithFile, Dynamic
  <2> QED BY <2>1 DEF Calls, Idle
<1> HIDE DEF c
<1>3. /\ pc' \in [Threads -> Calls] /\ pc'[t] = c
      /\ \A u \in Threads : u # t => pc'[u] = pc[u]
  BY <1>1, <1>2 DEF Typed
<1>4. WithFile' = WithFile /\ Calling' = Calling \cup {t} /\ t \notin Calling
  BY <1>1, <1>2, <1>3 DEF WithFile, Dynamic, Calling
<1>5. \A u \in Calling : u # t /\ pc'[u] = pc[u]
  BY <1>3, <1>4 DEF Calling
<1>6. ASSUME FilesOpen, FilesApart PROVE FilesOpen' /\ FilesApart' /\ (FilesHeld => FilesHeld')
  BY <1>1, <1>2, <1>3, <1>4, <1>5, <1>6, FileJoins
<1>7. FilesOK'
  BY <1>1, <1>6 DEF Inv, FilesOK
<1>8. fds' \subseteq Fd /\ created' =< NumBase + MaxCreates
  BY <1>1 DEF Typed
<1>9. ReplaceOK'
  BY <1>0, <1>2, <1>3, <1>4, ReplaceKept DEF Inv
<1> QED BY <1>1, <1>3, <1>7, <1>8, <1>9, CallStep

\* There is a slot for a kind when there are fewer than MaxKind.
LEMMA HoleFree ==
  ASSUME Inv, num_kind < MaxKind
  PROVE  Hole \in Slots /\ pmap[Hole] = NULL /\ Hole >= NumBase /\ Hole \in Nat
<1> DEFINE S == {i \in Slots : pmap[i] = NULL}
<1>1. S # {}
  <2> SUFFICES ASSUME Used = Slots PROVE FALSE
    BY DEF Used
  <2>1. Cardinality(Used) = MaxKind
    BY Sizes
  <2> QED BY <2>1, Sizes DEF Inv, SlotsOK
<1>2. S \subseteq Nat
  BY Sizes
<1> HIDE DEF S
<1>3. Min(S) \in S
  BY <1>1, <1>2, Least
<1>4. Hole \in Slots /\ pmap[Hole] = NULL
  BY <1>3 DEF Hole, S
<1>5. Hole \in Nat /\ NumBase \in Nat
  BY <1>4, Sizes
<1>6. ~(Hole < NumBase)
  <2> SUFFICES ASSUME Hole < NumBase PROVE FALSE
    OBVIOUS
  <2>1. pmap[Hole] = Hole + 1
    BY <1>4 DEF Inv, SlotsOK
  <2> QED BY <1>4, <1>5, <2>1 DEF NULL
<1> QED BY <1>4, <1>5, <1>6

LEMMA UsedFinite == IsFiniteSet(Used) /\ Cardinality(Used) \in Nat
<1>1. Used \in SUBSET Slots
  BY DEF Used
<1> QED BY <1>1, Sizes, FS_Subset, FS_CardinalityType

LEMMA CreateKindStep ==
  ASSUME Inv, NEW t \in Threads, NEW dir \in BOOLEAN, CreateKind(t, dir)
  PROVE  Inv'
<1>0. PICK k, f : k = created + 1 /\ f = pc[t].fd
  OBVIOUS
<1> DEFINE r == [name |-> f, partition |-> num_kind, fd |-> f, dir |-> dir,
                 map |-> MapAfterCreate, live |-> TRUE]
           c == IF dir THEN Idle ELSE [at |-> "close", fd |-> f, kind |-> k]
<1>1. /\ Typed /\ SlotsOK /\ pc[t] # Idle /\ pc[t].at = "create" /\ f \in 0..MaxFds /\ f \in Nat
      /\ "finalized" \notin past
  BY <1>0, Before, InCall DEF Inv, CreateKind, Idle
<1>2. /\ kinds' = [kinds EXCEPT ![k] = r] /\ pmap' = [pmap EXCEPT ![Hole] = k]
      /\ num_kind' = num_kind + 1 /\ created' = k /\ pc' = [pc EXCEPT ![t] = c] /\ fds' = fds
      /\ past' = IF NameClash(f) THEN past \cup {"clash"} ELSE past
      /\ num_kind < MaxKind /\ created < NumBase + MaxCreates
  BY <1>0 DEF CreateKind, Goes, Admitted
<1>3. /\ k \in Ids /\ k \notin Statics /\ k # NULL /\ k \in NumBase..NumBase + MaxCreates
      /\ k \in Nat /\ created \in Nat /\ ~kinds[k].live /\ \A i \in Slots : pmap[i] # k
  <2>1. created \in NumBase..NumBase + MaxCreates
    BY <1>1 DEF Typed
  <2>2. created \in Nat /\ k \in NumBase..NumBase + MaxCreates /\ k # 0 /\ k > created
    BY <1>0, <1>2, <2>1, KindAssumption
  <2>3. k \in Ids /\ k \notin Statics /\ k \in Nat /\ k # NULL
    BY <2>1, <2>2, KindAssumption DEF Ids, Statics, NULL
  <2>4. ~kinds[k].live
    BY <1>1, <2>2, <2>3 DEF SlotsOK
  <2>5. \A i \in Slots : pmap[i] # k
    BY <1>1, <2>2 DEF SlotsOK
  <2> QED BY <2>2, <2>3, <2>4, <2>5
<1>4. /\ IsKind(r) /\ r.name = f /\ r.partition = num_kind /\ r.fd = f /\ r.live /\ r.dir = dir
  BY DEF IsKind
<1> HIDE DEF r
<1>5. /\ kinds'[k] = r /\ \A j \in Ids : j # k => kinds'[j] = kinds[j]
      /\ kinds' = [j \in Ids |-> kinds'[j]]
  BY <1>1, <1>2, <1>3, Written
<1>6. Hole \in Slots /\ pmap[Hole] = NULL /\ Hole >= NumBase /\ Hole \in Nat
  BY <1>2, HoleFree
<1>7. pmap'[Hole] = k /\ \A i \in Slots : i # Hole => pmap'[i] = pmap[i]
  BY <1>1, <1>2, <1>6 DEF Typed
<1>8. /\ pc' \in [Threads -> Calls] /\ pc'[t] = c
      /\ \A u \in Threads : u # t => pc'[u] = pc[u]
      /\ c.at # "replace" /\ (dir => c = Idle) /\ (~dir => c # Idle /\ c.fd = f)
  <2>1. c \in Calls /\ c.at # "replace" /\ (dir => c = Idle) /\ (~dir => c # Idle /\ c.fd = f)
    <3>1. k \in 0..NumBase + MaxCreates
      BY <1>3, Sizes
    <3>2. CASE dir
      BY <3>2 DEF Calls, Idle
    <3>3. CASE ~dir
      BY <1>1, <3>1, <3>3 DEF Calls, Idle
    <3> QED BY <3>2, <3>3
  <2> HIDE DEF c
  <2> QED BY <1>1, <1>2, <2>1 DEF Typed
<1> HIDE DEF c
<1>9. Typed'
  <2>1. pmap' \in [Slots -> 0..NumBase + MaxCreates] /\ num_kind' \in Int
    <3>1. pmap \in [Slots -> 0..NumBase + MaxCreates] /\ num_kind \in Int
      BY <1>1, Types
    <3>2. k \in 0..NumBase + MaxCreates
      BY <1>3, Sizes
    <3>3. num_kind' \in Int
      BY <1>2, <3>1
    <3> QED BY <1>2, <3>1, <3>2, <3>3
  <2>2. \A j \in Ids : /\ IsKind(kinds'[j]) /\ kinds'[j].name \in Int /\ kinds'[j].partition \in Int
                       /\ kinds'[j].fd \in 0..MaxFds /\ kinds'[j].live \in BOOLEAN
                       /\ kinds'[j].dir \in BOOLEAN
    <3> TAKE j \in Ids
    <3>1. CASE j = k
      <4>1. num_kind \in Int /\ f \in Int /\ f \in 0..MaxFds
        BY <1>1, Types, Sizes
      <4>2. r.live \in BOOLEAN
        BY DEF r
      <4> QED BY <1>4, <1>5, <3>1, <4>1, <4>2
    <3>2. CASE j # k
      BY <1>1, <1>5, <3>2 DEF Typed
    <3> QED BY <3>1, <3>2
  <2>3. fds' \subseteq Fd /\ created' \in NumBase..NumBase + MaxCreates
    BY <1>1, <1>2, <1>3 DEF Typed
  <2> QED BY <1>5, <1>8, <2>1, <2>2, <2>3 DEF Typed
<1>10. /\ Live' = Live \cup {k} /\ Dynamic' = Dynamic \cup {k} /\ k \notin Live /\ k \notin Dynamic
       /\ t \in Calling /\ Used' = Used \cup {Hole} /\ Hole \notin Used
       /\ dir => WithFile' = WithFile \cup {k} /\ Calling' = Calling \ {t}
       /\ ~dir => WithFile' = WithFile /\ Calling' = Calling
  <2>1. Live' = Live \cup {k} /\ k \notin Live
    BY <1>3, <1>4, <1>5 DEF Live
  <2>2. Dynamic' = Dynamic \cup {k} /\ k \notin Dynamic
    BY <1>3, <1>4, <1>5 DEF Dynamic
  <2>3. t \in Calling /\ (dir => Calling' = Calling \ {t}) /\ (~dir => Calling' = Calling)
    BY <1>1, <1>8 DEF Calling
  <2>5. \A j \in Dynamic : kinds'[j].dir = kinds[j].dir
    BY <1>5, <2>2 DEF Dynamic
  <2>6. (dir => WithFile' = WithFile \cup {k}) /\ (~dir => WithFile' = WithFile)
    BY <1>4, <1>5, <2>2, <2>5 DEF WithFile
  <2>4. Used' = Used \cup {Hole} /\ Hole \notin Used
    BY <1>3, <1>6, <1>7 DEF Used
  <2> QED BY <2>1, <2>2, <2>3, <2>4, <2>6
<1>11. SlotsOK'
  <2>1. \A i \in Slots : /\ pmap'[i] =< created'
                         /\ i < NumBase => pmap'[i] = i + 1
                         /\ i >= NumBase => pmap'[i] \notin Statics
    <3> TAKE i \in Slots
    <3>0. pmap[i] \in Nat /\ i \in Nat /\ NumBase \in Nat
      BY <1>1, Sizes DEF Typed
    <3>1. CASE i = Hole
      BY <1>2, <1>3, <1>6, <1>7, <3>0, <3>1
    <3>2. CASE i # Hole
      <4>1. pmap'[i] = pmap[i] /\ pmap[i] =< created
        BY <1>1, <1>7, <3>2 DEF SlotsOK
      <4>2. pmap[i] =< created'
        BY <1>0, <1>2, <1>3, <3>0, <4>1
      <4> QED BY <1>1, <4>1, <4>2 DEF SlotsOK
    <3> QED BY <3>1, <3>2
  <2>2. \A j \in Ids : j > created' => ~kinds'[j].live
    <3> TAKE j \in Ids
    <3>1. j > created' => j > created /\ j # k
      BY <1>0, <1>2, <1>3, Sizes
    <3> QED BY <1>1, <1>5, <3>1 DEF SlotsOK
  <2>3. \A j \in Statics : kinds'[j].live /\ kinds'[j].partition = j - 1
    BY <1>1, <1>3, <1>5, Sizes DEF SlotsOK
  <2>4. num_kind' = Cardinality(Used')
    BY <1>1, <1>2, <1>10, UsedFinite, FS_AddElement DEF SlotsOK
  <2> QED BY <2>1, <2>2, <2>3, <2>4 DEF SlotsOK
<1>12. NamesOK'
  <2> SUFFICES ASSUME "clash" \notin past'
               PROVE  /\ \A i \in Used' : kinds'[pmap'[i]].live
                      /\ \A j \in Live' : \E i \in Slots : pmap'[i] = j
                      /\ \A i, j \in Used' : pmap'[i] = pmap'[j] => i = j
                      /\ \A j, l \in Dynamic' : kinds'[j].name = kinds'[l].name => j = l
    BY DEF NamesOK
  <2>1. "clash" \notin past /\ ~NameClash(f)
    BY <1>2
  <2>2. /\ \A i \in Used : kinds[pmap[i]].live
        /\ \A j \in Live : \E i \in Slots : pmap[i] = j
        /\ \A i, j \in Used : pmap[i] = pmap[j] => i = j
        /\ \A j, l \in Dynamic : kinds[j].name = kinds[l].name => j = l
    BY <2>1 DEF Inv, NamesOK
  <2>3. \A i \in Used : i \in Slots /\ i # Hole /\ pmap'[i] = pmap[i] /\ pmap[i] \in Ids /\ pmap[i] # k
    BY <1>1, <1>3, <1>6, <1>7, <1>10, Sizes DEF Used, Typed
  <2>4. \A i \in Used' : kinds'[pmap'[i]].live
    BY <1>4, <1>5, <1>7, <1>10, <2>2, <2>3
  <2>5. \A j \in Live' : \E i \in Slots : pmap'[i] = j
    <3> TAKE j \in Live'
    <3>1. CASE j = k
      BY <1>6, <1>7, <3>1
    <3>2. CASE j \in Live
      <4>1. PICK i \in Slots : pmap[i] = j
        BY <2>2, <3>2
      <4>2. j # NULL
        BY <3>2, Sizes DEF Live
      <4> QED BY <1>6, <1>7, <4>1, <4>2
    <3> QED BY <1>10, <3>1, <3>2
  <2>6. \A i, j \in Used' : pmap'[i] = pmap'[j] => i = j
    BY <1>7, <1>10, <2>2, <2>3
  <2>7. \A j \in Dynamic : j \in Ids /\ j # k /\ kinds'[j] = kinds[j] /\ kinds[j].name # f
    BY <1>5, <1>10, <2>1 DEF NameClash, Dynamic
  <2>8. \A j, l \in Dynamic' : kinds'[j].name = kinds'[l].name => j = l
    BY <1>4, <1>5, <1>10, <2>2, <2>7
  <2> QED BY <2>4, <2>5, <2>6, <2>8
<1>13. ASSUME "clash" \notin past', "out of order" \notin past'
       PROVE  \A j \in Live' : /\ kinds'[j].partition < num_kind'
                               /\ \A l \in Live' : j < l => kinds'[j].partition < kinds'[l].partition
  <2>1. past \cap {"clash", "out of order"} = {}
    BY <1>2, <1>13
  <2>2. \A l \in Live : /\ l \in Nat /\ l # k /\ l < k /\ kinds'[l] = kinds[l]
                        /\ kinds[l].partition \in Int /\ kinds[l].partition < num_kind
    <3> TAKE l \in Live
    <3>1. l \in Ids /\ l # k /\ ~(l > created)
      BY <1>1, <1>10 DEF Live, SlotsOK
    <3>2. kinds'[l] = kinds[l] /\ kinds[l].partition \in Int
      BY <1>1, <1>5, <3>1, KindTypes
    <3>3. l \in Nat /\ l < k
      BY <1>0, <1>3, <3>1, Sizes
    <3> QED BY <2>1, <3>1, <3>2, <3>3 DEF Inv, PartitionsOK
  <2>3. num_kind \in Int /\ num_kind' = num_kind + 1 /\ kinds'[k].partition = num_kind
    BY <1>1, <1>2, <1>4, <1>5, Types
  <2>4. \A l \in Live : kinds'[l].partition < num_kind' /\ kinds'[l].partition < kinds'[k].partition
    BY <2>2, <2>3
  <2>5. \A l \in Live : \A m \in Live : l < m => kinds'[l].partition < kinds'[m].partition
    BY <2>1, <2>2 DEF Inv, PartitionsOK
  <2>6. ~(k < k) /\ \A l \in Live : ~(k < l)
    BY <1>3, <2>2
  <2>7. kinds'[k].partition < num_kind'
    BY <2>3
  <2> QED BY <1>10, <2>4, <2>5, <2>6, <2>7
<1>14. FilesOK'
  <2> SUFFICES ASSUME past' \cap {"clash", "closed twice"} = {}
               PROVE  FilesOpen' /\ FilesApart' /\ ("file leaked" \notin past' => FilesHeld')
    BY DEF FilesOK
  <2>1. /\ past' = past /\ FilesOpen /\ FilesApart /\ ("file leaked" \notin past => FilesHeld)
    BY <1>2 DEF Inv, FilesOK
  <2>0. ASSUME ~dir PROVE FilesOpen' /\ FilesApart' /\ (FilesHeld => FilesHeld')
    <3>1. \A j \in WithFile : kinds'[j].fd = kinds[j].fd
      BY <1>5, <1>10 DEF WithFile, Dynamic
    <3>2. \A u \in Calling : pc'[u].fd = pc[u].fd
      BY <1>0, <1>8, <2>0 DEF Calling
    <3> QED BY <1>2, <1>10, <2>0, <2>1, <3>1, <3>2, FilesKept
  <2> SUFFICES ASSUME dir PROVE FilesOpen' /\ FilesApart' /\ (FilesHeld => FilesHeld')
    BY <2>0, <2>1
  <2>2. /\ \A j \in WithFile : j # k /\ kinds'[j].fd = kinds[j].fd
        /\ \A u \in Calling \ {t} : u \in Calling /\ u # t /\ pc'[u].fd = pc[u].fd
        /\ kinds'[k].fd = f /\ fds' = fds
    BY <1>2, <1>4, <1>5, <1>8, <1>10 DEF WithFile, Dynamic, Calling
  <2>3. FilesOpen'
    BY <1>0, <1>10, <2>1, <2>2 DEF FilesOpen
  <2>4. FilesApart'
    <3>1. \A j \in WithFile : kinds[j].fd # f
      BY <1>0, <1>10, <2>1 DEF FilesApart
    <3>2. \A u \in Calling : u # t => pc[u].fd # f
      BY <1>0, <1>10, <2>1 DEF FilesApart
    <3>3. \A j, l \in WithFile \cup {k} : kinds'[j].fd = kinds'[l].fd => j = l
      <4>1. \A j, l \in WithFile : kinds'[j].fd = kinds'[l].fd => j = l
        <5>1. \A j, l \in WithFile : kinds[j].fd = kinds[l].fd => j = l
          BY <2>1 DEF FilesApart
        <5> QED BY <2>2, <5>1
      <4>2. \A j \in WithFile : kinds'[j].fd # kinds'[k].fd
        BY <2>2, <3>1
      <4> QED BY <4>1, <4>2
    <3>4. \A u, v \in Calling \ {t} : pc'[u].fd = pc'[v].fd => u = v
      BY <2>1, <2>2 DEF FilesApart
    <3>5. \A j \in WithFile \cup {k}, u \in Calling \ {t} : kinds'[j].fd # pc'[u].fd
      <4>1. \A j \in WithFile, u \in Calling : kinds[j].fd # pc[u].fd
        BY <2>1 DEF FilesApart
      <4>2. \A j \in WithFile, u \in Calling \ {t} : kinds'[j].fd # pc'[u].fd
        BY <2>2, <4>1
      <4>3. \A u \in Calling \ {t} : kinds'[k].fd # pc'[u].fd
        BY <2>2, <3>2
      <4> QED BY <4>2, <4>3
    <3> QED BY <1>10, <3>3, <3>4, <3>5 DEF FilesApart
  <2>5. FilesHeld => FilesHeld'
    <3> SUFFICES ASSUME FilesHeld, NEW z \in fds'
                 PROVE  \/ \E j \in WithFile' : kinds'[j].fd = z
                        \/ \E u \in Calling' : pc'[u].fd = z
      BY DEF FilesHeld
    <3>1. CASE \E j \in WithFile : kinds[j].fd = z
      BY <1>10, <2>2, <3>1
    <3>2. CASE \E u \in Calling : pc[u].fd = z
      BY <1>0, <1>8, <1>10, <2>2, <3>2
    <3> QED BY <2>2, <3>1, <3>2 DEF FilesHeld
  <2> QED BY <2>3, <2>4, <2>5
<1>15. FinalOK'
  BY <1>1, <1>2 DEF FinalOK
<1>16. PartitionsOK'
  BY <1>13 DEF PartitionsOK
<1>17. ReplaceOK'
  BY <1>8, <1>10, ReplaceKept DEF Inv
<1> QED BY <1>9, <1>11, <1>12, <1>14, <1>15, <1>16, <1>17 DEF Inv

LEMMA ReplaceFileStep ==
  ASSUME Inv, NEW t \in Threads, ReplaceFile(t)
  PROVE  Inv'
<1>1. PICK k, g : k = pc[t].kind /\ g = pc[t].fd
  OBVIOUS
<1>2. /\ fds' = fds \ {kinds[k].fd} /\ kinds' = [kinds EXCEPT ![k].fd = g]
      /\ pc' = [pc EXCEPT ![t] = Idle] /\ UNCHANGED <<pmap, num_kind, created, past>>
      /\ pc[t].at = "replace"
  BY <1>1 DEF ReplaceFile, Goes
<1>3. /\ Typed /\ "finalized" \notin past /\ pc[t] # Idle /\ g \in 0..MaxFds /\ k \in WithFile
  BY <1>1, <1>2, Before, InCall DEF Inv, ReplaceOK
<1>4. k \in Ids /\ IsKind(kinds[k])
  BY <1>3, KindTypes DEF WithFile, Dynamic
<1>5. PICK m, f, r : m = kinds[k] /\ f = m.fd /\ r = [m EXCEPT !.fd = g]
  OBVIOUS
<1>6. /\ IsKind(r) /\ r.name = m.name /\ r.partition = m.partition
      /\ r.fd = g /\ r.live = m.live /\ r.dir = m.dir
  BY <1>4, <1>5, FdWritten
<1>7. kinds' = [kinds EXCEPT ![k] = r]
  BY <1>2, <1>5
<1>8. /\ kinds'[k] = r /\ \A j \in Ids : j # k => kinds'[j] = kinds[j]
      /\ kinds' = [j \in Ids |-> kinds'[j]]
  BY <1>3, <1>4, <1>7, Written
<1>9. /\ pc' \in [Threads -> Calls] /\ pc'[t] = Idle
      /\ \A u \in Threads : u # t => pc'[u] = pc[u]
  BY <1>2, <1>3 DEF Typed, Calls
<1>10. \A j \in Ids : /\ IsKind(kinds'[j]) /\ kinds'[j].name = kinds[j].name
                      /\ kinds'[j].partition = kinds[j].partition
                      /\ kinds'[j].live = kinds[j].live /\ kinds'[j].dir = kinds[j].dir
                      /\ kinds'[j].fd \in 0..MaxFds
  <2> TAKE j \in Ids
  <2>1. CASE j = k
    BY <1>3, <1>5, <1>6, <1>8, <2>1
  <2>2. CASE j # k
    BY <1>3, <1>8, <2>2, KindTypes
  <2> QED BY <2>1, <2>2
<1>11. Typed'
  <2>1. \A j \in Ids : /\ IsKind(kinds'[j]) /\ kinds'[j].name \in Int /\ kinds'[j].partition \in Int
                       /\ kinds'[j].fd \in 0..MaxFds /\ kinds'[j].live \in BOOLEAN
                       /\ kinds'[j].dir \in BOOLEAN
    BY <1>3, <1>10, KindTypes
  <2>2. fds' \subseteq Fd
    BY <1>2, <1>3, Types
  <2>3. /\ pmap' \in [Slots -> 0..NumBase + MaxCreates] /\ num_kind' \in Int
        /\ created' \in NumBase..NumBase + MaxCreates
    BY <1>2, <1>3, Types
  <2> QED BY <1>8, <1>9, <2>1, <2>2, <2>3 DEF Typed
<1>12. /\ Live' = Live /\ Dynamic' = Dynamic /\ WithFile' = WithFile /\ Used' = Used
       /\ Calling' = Calling \ {t} /\ t \in Calling
  <2>1. Live' = Live /\ Dynamic' = Dynamic /\ WithFile' = WithFile /\ Used' = Used
    BY <1>2, <1>10 DEF Live, Dynamic, WithFile, Used
  <2>2. Calling' = Calling \ {t} /\ t \in Calling
    BY <1>3, <1>9 DEF Calling
  <2> QED BY <2>1, <2>2
<1>13. SlotsOK'
  BY <1>2, <1>10, <1>12, Sizes DEF Inv, SlotsOK
<1>14. NamesOK'
  <2>1. \A i \in Used : pmap[i] \in Ids
    BY <1>3, Types
  <2> QED BY <1>2, <1>10, <1>12, <2>1 DEF Inv, NamesOK, Dynamic
<1>15. PartitionsOK'
  BY <1>2, <1>10, <1>12 DEF Inv, PartitionsOK, Live
<1>16. FilesOK'
  <2> SUFFICES ASSUME past \cap {"clash", "closed twice"} = {}
               PROVE  FilesOpen' /\ FilesApart' /\ ("file leaked" \notin past => FilesHeld')
    BY <1>2 DEF FilesOK
  <2>1. /\ FilesOpen /\ FilesApart /\ ("file leaked" \notin past => FilesHeld)
    BY DEF Inv, FilesOK
  <2>2. /\ \A j \in WithFile : j # k => /\ kinds'[j].fd = kinds[j].fd
                                       /\ kinds[j].fd # f /\ kinds[j].fd # g
        /\ \A u \in Calling \ {t} : u \in Calling /\ pc'[u].fd = pc[u].fd /\ pc[u].fd # f /\ pc[u].fd # g
        /\ kinds'[k].fd = g /\ g # f /\ fds' = fds \ {f} /\ kinds[k].fd = f
    <3>1. \A j \in WithFile : j # k => kinds'[j].fd = kinds[j].fd /\ kinds[j].fd # f
      BY <1>3, <1>5, <1>8, <2>1 DEF WithFile, Dynamic, FilesApart
    <3>2. \A j \in WithFile : kinds[j].fd # g
      BY <1>1, <1>12, <2>1 DEF FilesApart
    <3>3. \A u \in Calling \ {t} : pc'[u].fd = pc[u].fd /\ pc[u].fd # g
      BY <1>1, <1>9, <1>12, <2>1 DEF Calling, FilesApart
    <3>4. \A u \in Calling : pc[u].fd # f
      BY <1>3, <1>5, <2>1 DEF FilesApart
    <3> QED BY <1>1, <1>2, <1>3, <1>5, <1>6, <1>8, <1>12, <3>1, <3>2, <3>3, <3>4
  <2>3. FilesOpen'
    <3>1. /\ \A j \in WithFile : kinds[j].fd \in fds
          /\ \A u \in Calling : pc[u].fd \in fds
      BY <2>1 DEF FilesOpen
    <3>2. g \in fds
      BY <1>1, <1>12, <3>1
    <3>3. \A j \in WithFile : kinds'[j].fd \in fds'
      <4> TAKE j \in WithFile
      <4>1. CASE j = k
        BY <2>2, <3>2, <4>1
      <4>2. CASE j # k
        BY <2>2, <3>1, <4>2
      <4> QED BY <4>1, <4>2
    <3>4. \A u \in Calling \ {t} : pc'[u].fd \in fds'
      BY <2>2, <3>1
    <3> QED BY <1>12, <3>3, <3>4 DEF FilesOpen
  <2>4. FilesApart'
    <3>1. \A j, l \in WithFile : kinds'[j].fd = kinds'[l].fd => j = l
      <4> SUFFICES ASSUME NEW j \in WithFile, NEW l \in WithFile, kinds'[j].fd = kinds'[l].fd PROVE j = l
        OBVIOUS
      <4>1. kinds[j].fd = kinds[l].fd => j = l
        BY <2>1 DEF FilesApart
      <4>2. CASE j = k
        <5>1. l # k => kinds'[l].fd # g
          BY <2>2
        <5>2. kinds'[j].fd = g
          BY <2>2, <4>2
        <5> QED BY <4>2, <5>1, <5>2
      <4>3. CASE l = k
        <5>1. j # k => kinds'[j].fd # g
          BY <2>2
        <5>2. kinds'[l].fd = g
          BY <2>2, <4>3
        <5> QED BY <4>3, <5>1, <5>2
      <4>4. CASE j # k /\ l # k
        <5>1. kinds'[j].fd = kinds[j].fd /\ kinds'[l].fd = kinds[l].fd
          BY <2>2, <4>4
        <5> QED BY <4>1, <5>1
      <4> QED BY <4>2, <4>3, <4>4
    <3>2. \A u, v \in Calling \ {t} : pc'[u].fd = pc'[v].fd => u = v
      <4>1. \A u, v \in Calling : pc[u].fd = pc[v].fd => u = v
        BY <2>1 DEF FilesApart
      <4> QED BY <2>2, <4>1
    <3>3. \A j \in WithFile, u \in Calling \ {t} : kinds'[j].fd # pc'[u].fd
      <4>1. \A j \in WithFile, u \in Calling : kinds[j].fd # pc[u].fd
        BY <2>1 DEF FilesApart
      <4> QED BY <2>2, <4>1
    <3> QED BY <1>12, <3>1, <3>2, <3>3 DEF FilesApart
  <2>5. FilesHeld => FilesHeld'
    <3> SUFFICES ASSUME FilesHeld, NEW z \in fds'
                 PROVE  \/ \E j \in WithFile : kinds'[j].fd = z
                        \/ \E u \in Calling \ {t} : pc'[u].fd = z
      BY <1>12 DEF FilesHeld
    <3>1. z \in fds /\ z # f
      BY <2>2
    <3>2. CASE \E j \in WithFile : kinds[j].fd = z
      BY <2>2, <3>1, <3>2
    <3>3. CASE \E u \in Calling : pc[u].fd = z
      <4>1. PICK u \in Calling : pc[u].fd = z
        BY <3>3
      <4>2. CASE u = t
        <5>1. kinds'[k].fd = z
          BY <1>1, <2>2, <4>1, <4>2
        <5> QED BY <1>3, <5>1
      <4>3. CASE u # t
        BY <2>2, <4>1, <4>3
      <4> QED BY <4>2, <4>3
    <3> QED BY <3>1, <3>2, <3>3 DEF FilesHeld
  <2> QED BY <2>1, <2>3, <2>4, <2>5
<1>17. FinalOK'
  BY <1>2, <1>3 DEF FinalOK
<1>18. ReplaceOK'
  BY <1>9, <1>12, ReplaceKept DEF Inv, Idle
<1> QED BY <1>11, <1>13, <1>14, <1>15, <1>16, <1>17, <1>18 DEF Inv

\* As long as no two kinds have one name, the slot a kind is found in is its own.
LEMMA OwnSlot ==
  ASSUME Inv, "clash" \notin past, NEW k \in Dynamic
  PROVE  \E i \in Used : i >= NumBase /\ pmap[i] = k /\ SlotsOfName(kinds[k].name) = {i}
<1>1. k \in Ids /\ k \notin Statics /\ k \in Live /\ k # NULL
  BY Sizes DEF Dynamic, Live
<1>2. PICK i \in Slots : pmap[i] = k
  BY <1>1 DEF Inv, NamesOK
<1>3. i \in Used /\ i \in Nat /\ NumBase \in Nat
  BY <1>1, <1>2, Sizes DEF Used
<1>4. i >= NumBase
  <2> SUFFICES ASSUME i < NumBase PROVE FALSE
    BY <1>3
  <2>1. k = i + 1
    BY <1>2 DEF Inv, SlotsOK
  <2>2. i + 1 \in Statics
    BY <1>3 DEF Statics
  <2> QED BY <1>1, <2>1, <2>2
<1>5. \A j \in SlotsOfName(kinds[k].name) : j = i
  <2> TAKE j \in SlotsOfName(kinds[k].name)
  <2>1. j \in Slots /\ j >= NumBase /\ pmap[j] # NULL /\ kinds[pmap[j]].name = kinds[k].name
    BY DEF SlotsOfName
  <2>2. j \in Used /\ pmap[j] \in Ids /\ kinds[pmap[j]].live /\ pmap[j] \notin Statics
    BY <2>1, Types DEF Inv, NamesOK, SlotsOK, Used
  <2>3. pmap[j] \in Dynamic
    BY <2>2 DEF Dynamic
  <2>4. pmap[j] = k
    BY <2>1, <2>3 DEF Inv, NamesOK
  <2> QED BY <1>2, <1>3, <2>2, <2>4 DEF Inv, NamesOK
<1>6. i \in SlotsOfName(kinds[k].name)
  BY <1>1, <1>2, <1>4 DEF SlotsOfName
<1> QED BY <1>2, <1>3, <1>4, <1>5, <1>6

\* What memkind_destroy_kind does to the slots.
LEMMA SlotFreed ==
  ASSUME Inv, NEW k \in Dynamic,
         LET slots == SlotsOfName(kinds[k].name)
         IN  IF slots = {} THEN UNCHANGED <<pmap, num_kind>>
             ELSE pmap' = [pmap EXCEPT ![Min(slots)] = NULL] /\ num_kind' = num_kind - 1
  PROVE  /\ pmap' \in [Slots -> 0..NumBase + MaxCreates] /\ num_kind' \in Int
         /\ \A i \in Slots : pmap'[i] = pmap[i] \/ (i >= NumBase /\ pmap'[i] = NULL)
         /\ num_kind' = Cardinality(Used')
         /\ "clash" \notin past => /\ num_kind' = num_kind - 1
                                  /\ \A i \in Slots : pmap'[i] = IF pmap[i] = k THEN NULL ELSE pmap[i]
<1> DEFINE S == SlotsOfName(kinds[k].name)
<1>1. /\ Typed /\ pmap \in [Slots -> 0..NumBase + MaxCreates] /\ num_kind \in Int
      /\ num_kind = Cardinality(Used) /\ NULL \in 0..NumBase + MaxCreates
  BY Types, Sizes DEF Inv, SlotsOK
<1>2. S \subseteq Nat /\ \A i \in S : i \in Used /\ i \in Slots /\ i >= NumBase
  BY Sizes DEF SlotsOfName, Used
<1>3. IF S = {} THEN UNCHANGED <<pmap, num_kind>>
      ELSE pmap' = [pmap EXCEPT ![Min(S)] = NULL] /\ num_kind' = num_kind - 1
  OBVIOUS
<1>4. "clash" \notin past => \E i \in Used : pmap[i] = k /\ S = {i}
  BY OwnSlot
<1> HIDE DEF S
<1>5. CASE S = {}
  <2>1. Used' = Used
    BY <1>3, <1>5 DEF Used
  <2>2. "clash" \in past
    BY <1>4, <1>5
  <2> QED BY <1>1, <1>3, <1>5, <2>1, <2>2
<1>6. CASE S # {}
  <2>1. PICK m : m = Min(S)
    OBVIOUS
  <2>2. m \in S
    BY <1>2, <1>6, <2>1, Least
  <2>3. /\ m \in Slots /\ m \in Used /\ m >= NumBase
        /\ pmap' = [pmap EXCEPT ![m] = NULL] /\ num_kind' = num_kind - 1
    BY <1>2, <1>3, <1>6, <2>1, <2>2
  <2>4. /\ pmap' \in [Slots -> 0..NumBase + MaxCreates] /\ pmap'[m] = NULL
        /\ \A i \in Slots : i # m => pmap'[i] = pmap[i]
    BY <1>1, <2>3
  <2>5. Used' = Used \ {m}
    BY <2>3, <2>4 DEF Used
  <2>6. num_kind' = Cardinality(Used')
    BY <1>1, <2>3, <2>5, UsedFinite, FS_RemoveElement
  <2>7. ASSUME "clash" \notin past, NEW i \in Slots
        PROVE  pmap'[i] = IF pmap[i] = k THEN NULL ELSE pmap[i]
    <3>1. pmap[m] = k
      BY <1>4, <2>2, <2>7
    <3>2. k # NULL
      BY Sizes DEF Dynamic
    <3>3. pmap[i] = k => i = m
      BY <2>3, <2>7, <3>1, <3>2 DEF Inv, NamesOK, Used
    <3> QED BY <2>4, <3>1, <3>3
  <2> QED BY <1>1, <2>3, <2>4, <2>6, <2>7
<1> QED BY <1>5, <1>6

LEMMA DestroyKindStep ==
  ASSUME Inv, NEW t \in Threads, DestroyKind(t)
  PROVE  Inv'
<1>1. PICK k \in Dynamic :
           /\ fds' = fds \ {kinds[k].fd}
           /\ LET slots == SlotsOfName(kinds[k].name)
              IN  IF slots = {} THEN UNCHANGED <<pmap, num_kind>>
                  ELSE pmap' = [pmap EXCEPT ![Min(slots)] = NULL] /\ num_kind' = num_kind - 1
           /\ kinds' = [kinds EXCEPT ![k].live = FALSE]
           /\ past' = past \cup (IF k = Max(Dynamic) THEN {} ELSE {"out of order"})
                           \cup (IF kinds[k].dir THEN {} ELSE {"closed twice"})
           /\ ~Busy(k)
  BY DEF DestroyKind
<1>2. /\ Typed /\ SlotsOK /\ "finalized" \notin past /\ UNCHANGED <<pc, created>>
      /\ k \in Ids /\ k \notin Statics /\ kinds[k].live /\ k # NULL
      /\ "clash" \in past' <=> "clash" \in past
      /\ past \subseteq past' /\ "finalized" \notin past' /\ ("file leaked" \in past' => "file leaked" \in past)
      /\ "closed twice" \notin past' => kinds[k].dir
  BY <1>1, Before, Sizes DEF Inv, DestroyKind, Dynamic
<1>3. /\ pmap' \in [Slots -> 0..NumBase + MaxCreates] /\ num_kind' \in Int
      /\ \A i \in Slots : pmap'[i] = pmap[i] \/ (i >= NumBase /\ pmap'[i] = NULL)
      /\ num_kind' = Cardinality(Used')
      /\ "clash" \notin past => /\ num_kind' = num_kind - 1
                               /\ \A i \in Slots : pmap'[i] = IF pmap[i] = k THEN NULL ELSE pmap[i]
  BY <1>1, SlotFreed
<1>4. PICK m, r : m = kinds[k] /\ r = [m EXCEPT !.live = FALSE]
  OBVIOUS
<1>5. IsKind(m)
  BY <1>2, <1>4, KindTypes
<1>6. /\ IsKind(r) /\ r.name = m.name /\ r.partition = m.partition /\ r.fd = m.fd /\ r.live = FALSE
      /\ r.dir = m.dir
  BY <1>4, <1>5, LiveWritten
<1>7. kinds' = [kinds EXCEPT ![k] = r]
  BY <1>1, <1>4
<1>8. /\ kinds'[k] = r /\ \A j \in Ids : j # k => kinds'[j] = kinds[j]
      /\ kinds' = [j \in Ids |-> kinds'[j]]
  BY <1>2, <1>7, Written
<1>9. /\ Live' = Live \ {k} /\ Dynamic' = Dynamic \ {k} /\ k \in Live /\ Calling' = Calling
      /\ WithFile' = WithFile \ {k}
  BY <1>2, <1>6, <1>8 DEF Live, Dynamic, WithFile, Calling
<1>10. \A j \in Live \ {k} : /\ j \in Ids /\ j \in Live /\ j # k /\ j # NULL /\ kinds'[j] = kinds[j]
                            /\ (j \in Dynamic \/ j \in Statics)
  BY <1>8, Sizes DEF Live, Dynamic
<1>11. Typed'
  <2>1. \A j \in Ids : /\ IsKind(kinds'[j]) /\ kinds'[j].name \in Int /\ kinds'[j].partition \in Int
                       /\ kinds'[j].fd \in 0..MaxFds /\ kinds'[j].live \in BOOLEAN
                       /\ kinds'[j].dir \in BOOLEAN
    <3> TAKE j \in Ids
    <3>1. CASE j = k
      BY <1>2, <1>4, <1>6, <1>8, <3>1, KindTypes
    <3>2. CASE j # k
      BY <1>2, <1>8, <3>2, KindTypes
    <3> QED BY <3>1, <3>2
  <2>2. /\ fds' \subseteq Fd /\ created' \in NumBase..NumBase + MaxCreates
        /\ pc' \in [Threads -> Calls]
    BY <1>1, <1>2, Types
  <2> QED BY <1>3, <1>8, <2>1, <2>2 DEF Typed
<1>12. SlotsOK'
  <2>1. \A i \in Slots : /\ pmap'[i] =< created'
                         /\ i < NumBase => pmap'[i] = i + 1
                         /\ i >= NumBase => pmap'[i] \notin Statics
    <3> TAKE i \in Slots
    <3>1. /\ pmap[i] =< created /\ (i < NumBase => pmap[i] = i + 1)
          /\ i >= NumBase => pmap[i] \notin Statics
      BY <1>2 DEF SlotsOK
    <3>2. NULL =< created /\ NULL \notin Statics
      <4>1. created \in Nat /\ Statics \subseteq Ids
        BY <1>2, Types, Sizes
      <4> QED BY <4>1, Sizes DEF NULL
    <3>3. i \in Nat /\ NumBase \in Nat
      BY Sizes
    <3>4. created' = created /\ (pmap'[i] = pmap[i] \/ (i >= NumBase /\ pmap'[i] = NULL))
      BY <1>2, <1>3
    <3> QED BY <3>1, <3>2, <3>3, <3>4
  <2>2. \A j \in Ids : j > created' => ~kinds'[j].live
    BY <1>2, <1>6, <1>8 DEF SlotsOK
  <2>3. \A j \in Statics : kinds'[j].live /\ kinds'[j].partition = j - 1
    BY <1>2, <1>8, Sizes DEF SlotsOK
  <2> QED BY <1>3, <2>1, <2>2, <2>3 DEF SlotsOK
<1>13. NamesOK'
  <2> SUFFICES ASSUME "clash" \notin past
               PROVE  /\ \A i \in Used' : kinds'[pmap'[i]].live
                      /\ \A j \in Live' : \E i \in Slots : pmap'[i] = j
                      /\ \A i, j \in Used' : pmap'[i] = pmap'[j] => i = j
                      /\ \A j, l \in Dynamic' : kinds'[j].name = kinds'[l].name => j = l
    BY <1>2 DEF NamesOK
  <2>1. /\ \A i \in Used : kinds[pmap[i]].live
        /\ \A j \in Live : \E i \in Slots : pmap[i] = j
        /\ \A i, j \in Used : pmap[i] = pmap[j] => i = j
        /\ \A j, l \in Dynamic : kinds[j].name = kinds[l].name => j = l
    BY DEF Inv, NamesOK
  <2>2. \A i \in Used' : i \in Used /\ pmap[i] # k /\ pmap'[i] = pmap[i] /\ pmap[i] \in Ids
    <3>1. \A i \in Used' : i \in Used /\ pmap[i] # k /\ pmap'[i] = pmap[i]
      BY <1>3 DEF Used
    <3> QED BY <1>2, <3>1, Types
  <2>3. \A i \in Used' : kinds'[pmap'[i]].live
    BY <1>8, <2>1, <2>2
  <2>4. \A j \in Live' : \E i \in Slots : pmap'[i] = j
    BY <1>3, <1>9, <1>10, <2>1
  <2>5. \A i, j \in Used' : pmap'[i] = pmap'[j] => i = j
    BY <2>1, <2>2
  <2>6. \A j \in Dynamic \ {k} : j \in Dynamic /\ kinds'[j] = kinds[j]
    BY <1>8 DEF Dynamic
  <2>7. \A j, l \in Dynamic' : kinds'[j].name = kinds'[l].name => j = l
    BY <1>9, <2>1, <2>6
  <2> QED BY <2>3, <2>4, <2>5, <2>7
<1>14. ASSUME "clash" \notin past', "out of order" \notin past'
       PROVE  \A j \in Live' : /\ kinds'[j].partition < num_kind'
                               /\ \A l \in Live' : j < l => kinds'[j].partition < kinds'[l].partition
  <2>1. past \cap {"clash", "out of order"} = {} /\ k = Max(Dynamic)
    BY <1>1, <1>14
  <2>2. \A j \in Live : kinds[j].partition < num_kind /\ kinds[j].partition \in Int
    BY <1>2, <2>1, KindTypes DEF Inv, PartitionsOK, Live
  <2>3. \A j \in Live \ {k} : j < k
    <3>1. \A j \in Dynamic : j =< k
      <4>1. Dynamic \subseteq Nat /\ created \in Nat /\ Dynamic # {} /\ \A j \in Dynamic : ~(j > created)
        BY <1>2, Types, Sizes DEF Dynamic, SlotsOK
      <4>2. \A j \in Dynamic : j =< created
        BY <4>1
      <4> QED BY <2>1, <4>1, <4>2, Greatest
    <3>2. \A j \in Statics : j < k
      <4>1. k \in Ids /\ k \notin Statics
        BY <1>2
      <4> QED BY <4>1, Sizes
    <3>3. \A j \in Live : j \in Nat
      BY Sizes DEF Live
    <3> QED BY <1>9, <1>10, <3>1, <3>2, <3>3
  <2>4. \A j \in Live \ {k} : kinds[j].partition < kinds[k].partition
    BY <1>9, <1>10, <2>1, <2>3 DEF Inv, PartitionsOK
  <2>5. num_kind \in Int /\ num_kind' = num_kind - 1
    BY <1>2, <1>3, <2>1, Types
  <2>6. \A j \in Live \ {k} : kinds[j].partition < num_kind - 1
    BY <1>9, <1>10, <2>2, <2>4, <2>5
  <2>7. \A j, l \in Live \ {k} : j < l => kinds[j].partition < kinds[l].partition
    BY <1>10, <2>1 DEF Inv, PartitionsOK
  <2>0. \A j \in Live \ {k} : kinds'[j].partition = kinds[j].partition
    <3> TAKE j \in Live \ {k}
    <3>1. j \in Ids /\ j # k
      BY DEF Live
    <3>2. kinds'[j] = kinds[j]
      BY <1>8, <3>1
    <3> QED BY <3>2
  <2>8. \A j \in Live \ {k} : kinds'[j].partition < num_kind'
    BY <2>0, <2>5, <2>6
  <2>9. \A j, l \in Live \ {k} : j < l => kinds'[j].partition < kinds'[l].partition
    BY <2>0, <2>7
  <2> QED BY <1>9, <2>8, <2>9
<1>15. PartitionsOK'
  BY <1>14 DEF PartitionsOK
<1>16. FilesOK'
  <2> SUFFICES ASSUME past' \cap {"clash", "closed twice"} = {}
               PROVE  FilesOpen' /\ FilesApart' /\ ("file leaked" \notin past' => FilesHeld')
    BY DEF FilesOK
  <2>1. /\ FilesOpen /\ FilesApart /\ ("file leaked" \notin past' => FilesHeld)
    BY <1>2 DEF Inv, FilesOK
  <2>0. k \in WithFile
    BY <1>2 DEF WithFile
  <2>2. \A j \in WithFile \ {k} : j \in WithFile /\ kinds'[j] = kinds[j] /\ kinds[j].fd # kinds[k].fd
    BY <1>8, <2>0, <2>1 DEF WithFile, Dynamic, FilesApart
  <2>3. \A u \in Calling : pc'[u] = pc[u] /\ pc[u].fd # kinds[k].fd
    BY <1>2, <2>0, <2>1 DEF FilesApart
  <2>4. FilesOpen'
    <3>1. \A j \in WithFile \ {k} : kinds'[j].fd \in fds'
      <4>1. \A j \in WithFile \ {k} : kinds'[j].fd = kinds[j].fd /\ kinds[j].fd # kinds[k].fd
        BY <2>2
      <4>2. \A j \in WithFile \ {k} : kinds[j].fd \in fds
        BY <2>1 DEF FilesOpen
      <4>3. fds' = fds \ {kinds[k].fd}
        BY <1>1
      <4> QED BY <4>1, <4>2, <4>3
    <3>2. \A u \in Calling : pc'[u].fd \in fds'
      BY <1>1, <2>1, <2>3 DEF FilesOpen
    <3> QED BY <1>9, <3>1, <3>2 DEF FilesOpen
  <2>5. FilesApart'
    <3>1. \A j, l \in WithFile \ {k} : kinds'[j].fd = kinds'[l].fd => j = l
      BY <2>1, <2>2 DEF FilesApart
    <3>2. \A u, v \in Calling : pc'[u].fd = pc'[v].fd => u = v
      BY <1>2, <2>1 DEF FilesApart
    <3>3. \A j \in WithFile \ {k}, u \in Calling : kinds'[j].fd # pc'[u].fd
      <4>1. \A j \in WithFile, u \in Calling : kinds[j].fd # pc[u].fd
        BY <2>1 DEF FilesApart
      <4> QED BY <1>2, <2>2, <4>1
    <3> QED BY <1>9, <3>1, <3>2, <3>3 DEF FilesApart
  <2>6. FilesHeld => FilesHeld'
    <3> SUFFICES ASSUME FilesHeld, NEW z \in fds'
                 PROVE  \/ \E j \in WithFile \ {k} : kinds'[j].fd = z
                        \/ \E u \in Calling : pc'[u].fd = z
      BY <1>9 DEF FilesHeld
    <3>1. z \in fds /\ z # kinds[k].fd
      BY <1>1
    <3>2. CASE \E j \in WithFile : kinds[j].fd = z
      BY <2>2, <3>1, <3>2
    <3>3. CASE \E u \in Calling : pc[u].fd = z
      BY <1>2, <3>3
    <3> QED BY <3>1, <3>2, <3>3 DEF FilesHeld
  <2> QED BY <2>1, <2>4, <2>5, <2>6
<1>17. FinalOK'
  BY <1>1, <1>2 DEF FinalOK
<1>18. ReplaceOK'
  BY <1>1, <1>2, <1>9 DEF Inv, ReplaceOK, Busy
<1> QED BY <1>11, <1>12, <1>13, <1>15, <1>16, <1>17, <1>18 DEF Inv

\* The slots that memkind_finalize leaves are those of the static kinds.
LEMMA StaticSlots == /\ IsFiniteSet(0..NumBase - 1) /\ Cardinality(0..NumBase - 1) = NumBase
                     /\ \A i \in Slots : i \in 0..NumBase - 1 <=> i < NumBase
                     /\ 0..NumBase - 1 \subseteq Slots
                     /\ \A i \in Slots : i < NumBase => i + 1 \in Statics
<1>1. NumBase \in Nat /\ MaxKind \in Nat /\ NumBase =< MaxKind
  BY Sizes
<1>2. IsFiniteSet(0..NumBase - 1) /\ Cardinality(0..NumBase - 1) = NumBase
  BY <1>1, FS_Interval
<1> QED BY <1>1, <1>2 DEF Slots, Statics

\* num_kind counts the slots left when those of the dynamic kinds are freed.
LEMMA CountLeft ==
  ASSUME NEW U, IsFiniteSet(U), NEW L, L \subseteq U
  PROVE  Cardinality(L) = Cardinality(U) - Cardinality(U \ L)
<1>1. IsFiniteSet(L) /\ L \cap U = L
  BY FS_Subset
<1>2. Cardinality(U \ L) = Cardinality(U) - Cardinality(U \cap L)
  BY <1>1, FS_Difference
<1>3. Cardinality(U) \in Nat /\ Cardinality(L) \in Nat
  BY <1>1, FS_CardinalityType
<1>4. U \cap L = L
  OBVIOUS
<1>5. Cardinality(U \ L) = Cardinality(U) - Cardinality(L)
  BY <1>2, <1>4
<1> QED BY <1>3, <1>5

LEMMA FinalizeStep ==
  ASSUME Inv, Finalize
  PROVE  Inv'
<1> DEFINE lives(k) == kinds[k].live /\ (k \in Statics \/ \A i \in Used : pmap[i] # k)
           next(k) == [kinds[k] EXCEPT !.live = @ /\ (k \in Statics \/ \A i \in Used : pmap[i] # k),
                                       !.map = IF k \in Statics THEN NoMap ELSE @]
<1>1. /\ fds' = fds \ {kinds[pmap[i]].fd : i \in Used}
      /\ kinds' = [k \in Ids |-> next(k)]
      /\ pmap' = [i \in Slots |-> IF i < NumBase THEN pmap[i] ELSE NULL]
      /\ num_kind' = num_kind - Cardinality({i \in Used : i >= NumBase})
  BY DEF Finalize, Used
<1>2. /\ past' = past \cup {"finalized"} /\ ops' = MaxOps /\ UNCHANGED <<pc, created>>
      /\ \A t \in Threads : pc[t] = Idle
  BY DEF Finalize, Happened
<1>3. Typed /\ SlotsOK /\ NULL \in 0..NumBase + MaxCreates /\ Slots \subseteq Nat /\ NumBase \in Nat
  BY Sizes DEF Inv
<1>4. \A k \in Ids : /\ IsKind(kinds'[k]) /\ kinds'[k].name = kinds[k].name
                     /\ kinds'[k].partition = kinds[k].partition /\ kinds'[k].fd = kinds[k].fd
                     /\ kinds'[k].live = lives(k) /\ kinds'[k].dir = kinds[k].dir
  <2> TAKE k \in Ids
  <2>1. IsKind(kinds[k])
    BY <1>3, KindTypes
  <2>2. kinds'[k] = next(k)
    BY <1>1
  <2>4. PICK m, b, p : m = kinds[k] /\ b = lives(k) /\ p = IF k \in Statics THEN NoMap ELSE m.map
    OBVIOUS
  <2>5. kinds'[k] = [m EXCEPT !.live = b, !.map = p]
    BY <2>2, <2>4
  <2> HIDE DEF lives, next
  <2>6. PICK q : q = kinds'[k]
    OBVIOUS
  <2>7. IsKind(m) /\ q = [m EXCEPT !.live = b, !.map = p]
    BY <2>1, <2>4, <2>5, <2>6
  <2>8. /\ IsKind(q) /\ q.name = m.name /\ q.partition = m.partition /\ q.fd = m.fd /\ q.live = b
        /\ q.dir = m.dir
    BY <2>7 DEF IsKind
  <2> QED BY <2>4, <2>6, <2>8
<1>5. /\ \A i \in Slots : pmap'[i] = IF i < NumBase THEN pmap[i] ELSE NULL
      /\ kinds' = [k \in Ids |-> kinds'[k]]
  BY <1>1
<1> HIDE DEF next
<1>6. Used' = 0..NumBase - 1
  <2>1. \A i \in Slots : i < NumBase => pmap[i] # NULL
    <3> TAKE i \in Slots
    <3>1. i < NumBase => pmap[i] = i + 1
      BY <1>3 DEF SlotsOK
    <3>2. i \in Nat /\ i + 1 # NULL
      BY <1>3 DEF NULL
    <3> QED BY <3>1, <3>2
  <2> QED BY <1>5, <2>1, StaticSlots DEF Used
<1>7. num_kind' = Cardinality(Used') /\ num_kind' = NumBase /\ num_kind' \in Int
  <2>1. \A i \in 0..NumBase - 1 : i \in Used
    <3> TAKE i \in 0..NumBase - 1
    <3>1. i \in Slots /\ i < NumBase
      BY StaticSlots
    <3>2. pmap[i] = i + 1 /\ i \in Nat
      BY <1>3, <3>1 DEF SlotsOK
    <3> QED BY <3>1, <3>2 DEF Used, NULL
  <2>2. {i \in Used : i >= NumBase} = Used \ (0..NumBase - 1)
    <3>1. \A i \in Used : i \in Slots /\ i \in Nat
      BY <1>3 DEF Used
    <3>2. \A i \in Used : i >= NumBase <=> i \notin 0..NumBase - 1
      BY <1>3, <3>1
    <3> QED BY <3>2
  <2>3. Cardinality(0..NumBase - 1) = Cardinality(Used) - Cardinality(Used \ (0..NumBase - 1))
    BY <2>1, UsedFinite, CountLeft
  <2>4. num_kind = Cardinality(Used) /\ num_kind' = num_kind - Cardinality(Used \ (0..NumBase - 1))
    BY <1>1, <1>3, <2>2 DEF SlotsOK
  <2> QED BY <1>3, <1>6, <2>3, <2>4, StaticSlots
<1>8. Live' = {k \in Ids : lives(k)} /\ Dynamic' = {k \in Ids \ Statics : lives(k)} /\ Calling' = {}
  BY <1>2, <1>4 DEF Live, Dynamic, Calling
<1>9. Typed'
  <2>1. pmap' \in [Slots -> 0..NumBase + MaxCreates]
    BY <1>1, <1>3, Types
  <2>2. \A k \in Ids : /\ IsKind(kinds'[k]) /\ kinds'[k].name \in Int /\ kinds'[k].partition \in Int
                       /\ kinds'[k].fd \in 0..MaxFds /\ kinds'[k].live \in BOOLEAN
                       /\ kinds'[k].dir \in BOOLEAN
    <3> TAKE k \in Ids
    <3>1. lives(k) \in BOOLEAN
      BY Zenon DEF lives
    <3> HIDE DEF lives
    <3> QED BY <1>3, <1>4, <3>1, KindTypes
  <2>3. /\ fds' \subseteq Fd /\ created' \in NumBase..NumBase + MaxCreates
        /\ pc' \in [Threads -> Calls]
    BY <1>1, <1>2, <1>3, Types
  <2> QED BY <1>5, <1>7, <2>1, <2>2, <2>3 DEF Typed
<1>10. SlotsOK'
  <2>1. \A i \in Slots : /\ pmap'[i] =< created'
                         /\ i < NumBase => pmap'[i] = i + 1
                         /\ i >= NumBase => pmap'[i] \notin Statics
    <3> TAKE i \in Slots
    <3>1. pmap[i] =< created /\ (i < NumBase => pmap[i] = i + 1)
      BY <1>3 DEF SlotsOK
    <3>2. NULL =< created /\ NULL \notin Statics /\ i \in Nat
      <4>1. created \in Nat /\ Statics \subseteq Ids
        BY <1>3, Types, Sizes
      <4> QED BY <1>3, <4>1, Sizes DEF NULL
    <3> QED BY <1>2, <1>3, <1>5, <3>1, <3>2
  <2>2. \A j \in Ids : j > created' => ~kinds'[j].live
    BY <1>2, <1>3, <1>4 DEF SlotsOK
  <2>3. \A j \in Statics : kinds'[j].live /\ kinds'[j].partition = j - 1
    BY <1>3, <1>4, Sizes DEF SlotsOK
  <2> QED BY <1>7, <2>1, <2>2, <2>3 DEF SlotsOK
<1>11. "clash" \notin past => Live' = Statics /\ Dynamic' = {}
  <2> SUFFICES ASSUME "clash" \notin past, NEW k \in Ids PROVE lives(k) <=> k \in Statics
    BY <1>8, Sizes
  <2>1. k \in Statics => lives(k)
    BY <1>3 DEF SlotsOK
  <2>2. lives(k) => k \in Statics
    <3>1. kinds[k].live => \E i \in Used : pmap[i] = k
      BY Sizes DEF Inv, NamesOK, Live, Used
    <3> QED BY <3>1
  <2> QED BY <2>1, <2>2
<1> HIDE DEF lives
<1>12. NamesOK'
  <2> SUFFICES ASSUME "clash" \notin past
               PROVE  /\ \A i \in Used' : kinds'[pmap'[i]].live
                      /\ \A j \in Live' : \E i \in Slots : pmap'[i] = j
                      /\ \A i, j \in Used' : pmap'[i] = pmap'[j] => i = j
                      /\ \A j, l \in Dynamic' : kinds'[j].name = kinds'[l].name => j = l
    BY <1>2 DEF NamesOK
  <2>1. \A i \in 0..NumBase - 1 : pmap'[i] = i + 1 /\ i + 1 \in Statics /\ i \in Slots
    <3> TAKE i \in 0..NumBase - 1
    <3>1. i \in Slots /\ i < NumBase /\ i \in Nat
      BY StaticSlots
    <3>2. pmap'[i] = i + 1
      BY <1>10, <3>1 DEF SlotsOK
    <3> QED BY <1>3, <3>1, <3>2 DEF Statics
  <2>2. \A i \in Used' : kinds'[pmap'[i]].live
    BY <1>6, <1>10, <2>1 DEF SlotsOK
  <2>3. \A j \in Statics : j - 1 \in 0..NumBase - 1 /\ (j - 1) + 1 = j
    BY <1>3 DEF Statics
  <2>4. \A j \in Live' : \E i \in Slots : pmap'[i] = j
    BY <1>11, <2>1, <2>3
  <2>5. \A i, j \in 0..NumBase - 1 : i + 1 = j + 1 => i = j
    BY <1>3
  <2> QED BY <1>6, <1>11, <2>1, <2>2, <2>4, <2>5
<1>13. PartitionsOK'
  <2> SUFFICES ASSUME "clash" \notin past
               PROVE  \A j \in Live' : /\ kinds'[j].partition < num_kind'
                                       /\ \A l \in Live' : j < l => kinds'[j].partition < kinds'[l].partition
    BY <1>2 DEF PartitionsOK
  <2>1. \A j \in Statics : kinds'[j].partition = j - 1 /\ j \in Nat /\ j - 1 < NumBase
    BY <1>3, <1>10 DEF SlotsOK, Statics
  <2>2. \A j, l \in Statics : j < l => j - 1 < l - 1
    BY <2>1
  <2> QED BY <1>7, <1>11, <2>1, <2>2
<1>14. FilesOK'
  <2> SUFFICES ASSUME past \cap {"clash", "closed twice"} = {}
               PROVE  FilesOpen' /\ FilesApart' /\ ("file leaked" \notin past' => FilesHeld')
    BY <1>2 DEF FilesOK
  <2>1. FilesOpen' /\ FilesApart'
    BY <1>8, <1>11 DEF FilesOpen, FilesApart, WithFile
  <2>2. ASSUME FilesHeld, NEW z \in fds' PROVE FALSE
    <3>1. Calling = {} /\ z \in fds
      BY <1>1, <1>2, <2>2 DEF Calling
    <3>2. PICK k \in WithFile : kinds[k].fd = z
      BY <2>2, <3>1 DEF FilesHeld
    <3>3. k \in Live /\ k # NULL
      BY Sizes DEF WithFile, Dynamic, Live
    <3>4. PICK i \in Used : pmap[i] = k
      BY <3>3 DEF Inv, NamesOK, Used
    <3> QED BY <1>1, <2>2, <3>2, <3>4
  <2>3. "file leaked" \notin past' => FilesHeld
    BY <1>2 DEF Inv, FilesOK
  <2> QED BY <2>1, <2>2, <2>3 DEF FilesHeld
<1>15. FinalOK'
  BY <1>2 DEF FinalOK
<1>16. ReplaceOK'
  BY <1>2 DEF ReplaceOK, Idle
<1> QED BY <1>9, <1>10, <1>12, <1>13, <1>14, <1>15, <1>16 DEF Inv

LEMMA InitInv == Init => Inv
<1> SUFFICES ASSUME Init PROVE Inv
  OBVIOUS
<1>1. /\ kinds = [k \in Ids |-> [name |-> StaticName(k), partition |-> k - 1, fd |-> NULL,
                                 dir |-> FALSE, map |-> NoMap, live |-> k \in Statics]]
      /\ pmap = [i \in Slots |-> IF i < NumBase THEN i + 1 ELSE NULL]
      /\ num_kind = NumBase /\ fds = {} /\ pc = [t \in Threads |-> Idle]
      /\ created = NumBase /\ past = {}
  BY DEF Init
<1>2. NumBase \in Nat /\ MaxCreates \in Nat /\ Slots \subseteq Nat /\ Ids \subseteq Nat /\ MaxFds \in Nat
  BY Sizes
<1>3. \A k \in Ids : /\ IsKind(kinds[k]) /\ kinds[k].name \in Int /\ kinds[k].partition = k - 1
                     /\ kinds[k].fd \in 0..MaxFds /\ kinds[k].live = (k \in Statics)
                     /\ kinds[k].dir = FALSE
  BY <1>1, <1>2 DEF IsKind, StaticName, NULL
<1>4. /\ \A i \in Slots : pmap[i] = IF i < NumBase THEN i + 1 ELSE NULL
      /\ Live = Statics /\ Dynamic = {} /\ Calling = {}
  BY <1>1, <1>3, Sizes DEF Live, Dynamic, Calling
<1>5. Used = 0..NumBase - 1
  <2>1. \A i \in Slots : pmap[i] # NULL <=> i < NumBase
    <3> TAKE i \in Slots
    <3>1. i \in Nat /\ i + 1 # NULL
      BY <1>2 DEF NULL
    <3> QED BY <1>4, <3>1
  <2> QED BY <2>1, StaticSlots DEF Used
<1>6. Typed
  <2>1. kinds = [k \in Ids |-> kinds[k]]
    BY <1>1
  <2>2. \A k \in Ids : /\ kinds[k].partition \in Int /\ kinds[k].live \in BOOLEAN
                       /\ kinds[k].dir \in BOOLEAN
    <3> TAKE k \in Ids
    <3>1. k \in Int /\ kinds[k].partition = k - 1
      BY <1>2, <1>3
    <3>2. kinds[k].live \in BOOLEAN
      <4>1. kinds[k].live = (k \in Statics)
        BY <1>3
      <4> QED BY <4>1
    <3>3. kinds[k].dir \in BOOLEAN
      BY <1>3
    <3> QED BY <3>1, <3>2, <3>3
  <2>3. pmap \in [Slots -> 0..NumBase + MaxCreates]
    <3>1. \A i \in Slots : i < NumBase => i + 1 \in 0..NumBase + MaxCreates
      BY <1>2
    <3> QED BY <1>1, <3>1, Sizes
  <2>4. pc \in [Threads -> Calls] /\ fds \subseteq Fd /\ num_kind \in Int
        /\ created \in NumBase..NumBase + MaxCreates
    BY <1>1, <1>2 DEF Calls
  <2> QED BY <1>3, <2>1, <2>2, <2>3, <2>4 DEF Typed
<1>7. SlotsOK
  <2>1. \A i \in Slots : /\ pmap[i] =< created
                         /\ i < NumBase => pmap[i] = i + 1
                         /\ i >= NumBase => pmap[i] \notin Statics
    <3>1. NULL \notin Statics
      BY Sizes
    <3> QED BY <1>1, <1>2, <1>4, <3>1 DEF NULL
  <2>2. \A k \in Ids : k > created => ~kinds[k].live
    <3> TAKE k \in Ids
    <3>1. kinds[k].live = (k \in Statics)
      BY <1>3
    <3>2. k > created => k \notin Statics
      BY <1>1, <1>2 DEF Statics
    <3> QED BY <3>1, <3>2
  <2>3. \A k \in Statics : kinds[k].live /\ kinds[k].partition = k - 1
    BY <1>3, Sizes
  <2> QED BY <1>1, <1>5, <2>1, <2>2, <2>3, StaticSlots DEF SlotsOK
<1>8. NamesOK
  <2>1. \A i \in 0..NumBase - 1 : pmap[i] = i + 1 /\ i + 1 \in Statics /\ i \in Slots
    BY <1>2, <1>4, StaticSlots DEF Statics
  <2>2. \A j \in Statics : j - 1 \in 0..NumBase - 1 /\ (j - 1) + 1 = j
    BY <1>2 DEF Statics
  <2>3. \A i, j \in 0..NumBase - 1 : i + 1 = j + 1 => i = j
    BY <1>2
  <2> QED BY <1>4, <1>5, <1>7, <2>1, <2>2, <2>3 DEF NamesOK, SlotsOK
<1>9. PartitionsOK
  <2>1. \A j \in Statics : kinds[j].partition = j - 1 /\ j \in Nat /\ j - 1 < NumBase
    BY <1>2, <1>7 DEF SlotsOK, Statics
  <2>2. \A j, l \in Statics : j < l => j - 1 < l - 1
    BY <2>1
  <2>3. num_kind = NumBase /\ Live = Statics
    BY <1>1, <1>4
  <2> QED BY <2>1, <2>2, <2>3 DEF PartitionsOK
<1>10. FilesOK /\ FinalOK
  BY <1>1, <1>4 DEF FilesOK, FilesOpen, FilesApart, FilesHeld, WithFile, FinalOK
<1>11. ReplaceOK
  BY <1>1 DEF ReplaceOK, Idle
<1> QED BY <1>6, <1>7, <1>8, <1>9, <1>10, <1>11 DEF Inv

LEMMA InvStep == Inv /\ [Next]_vars => Inv'
<1> SUFFICES ASSUME Inv, [Next]_vars PROVE Inv'
  OBVIOUS
<1>1. CASE \E t \in Threads : \/ InitStatic(t) \/ CreateTmpfile(t)
                               \/ \E dir \in BOOLEAN : CreateKind(t, dir)
                               \/ CreateRefused(t) \/ CreateFails(t) \/ Close(t)
                               \/ RecreateFile(t) \/ ReplaceFile(t) \/ RecreateFails(t)
                               \/ DestroyKind(t)
  BY <1>1, InitStaticStep, CreateTmpfileStep, CreateKindStep, CreateRefusedStep,
     CreateFailsStep, CloseStep, RecreateFileStep, ReplaceFileStep, RecreateFailsStep,
     DestroyKindStep
<1>2. CASE Finalize
  BY <1>2, FinalizeStep
<1>3. CASE UNCHANGED vars
  <2>1. UNCHANGED <<kinds, pmap, num_kind, fds, pc, created, past, ops>>
    BY <1>3 DEF vars
  <2>2. \A k \in Ids : IsKind(kinds[k])
    BY KindTypes DEF Inv
  <2>3. FinalOK'
    BY <2>1 DEF Inv, FinalOK
  <2>4. kinds' = [k \in Ids |-> kinds'[k]]
    BY <2>1 DEF Inv, Typed
  <2> QED BY <2>1, <2>2, <2>3, <2>4, MapStep
<1> QED BY <1>1, <1>2, <1>3 DEF Next

LEMMA Invariant == Spec => []Inv
BY InitInv, InvStep, PTL DEF Spec

-----------------------------------------------------------------------------
\* partition_map holds exactly the kinds that live and num_kind counts them,
\* until two kinds have one name: memkind_finalize's assertion holds.
THEOREM RegistryIsExact == Spec => []RegistryExact
<1>1. Inv => RegistryExact
  <2> SUFFICES ASSUME Inv, "clash" \notin past
               PROVE  /\ {pmap[i] : i \in Slots} \ {NULL} = Live
                      /\ \A i, j \in Slots : i # j /\ pmap[i] # NULL => pmap[i] # pmap[j]
                      /\ num_kind = Cardinality(Live)
    BY DEF RegistryExact
  <2>1. /\ \A i \in Used : kinds[pmap[i]].live
        /\ \A k \in Live : \E i \in Slots : pmap[i] = k
        /\ \A i, j \in Used : pmap[i] = pmap[j] => i = j
    BY DEF Inv, NamesOK
  <2>2. \A k \in Live : k # NULL
    BY Sizes DEF Live
  <2>3. \A i \in Used : pmap[i] \in Live
    BY <2>1, Types DEF Inv, Live
  <2>4. {pmap[i] : i \in Slots} \ {NULL} = Live
    BY <2>1, <2>2, <2>3 DEF Used
  <2>5. \A i, j \in Slots : i # j /\ pmap[i] # NULL => pmap[i] # pmap[j]
    BY <2>1 DEF Used
  <2>6. Cardinality(Used) = Cardinality(Live)
    <3> DEFINE b == [i \in Used |-> pmap[i]]
    <3>1. b \in Bijection(Used, Live)
      <4>1. b \in [Used -> Live]
        BY <2>3
      <4>2. \A i, j \in Used : b[i] = b[j] => i = j
        BY <2>1
      <4>3. \A k \in Live : \E i \in Used : b[i] = k
        BY <2>1, <2>2 DEF Used
      <4> HIDE DEF b
      <4> QED BY <4>1, <4>2, <4>3 DEF Bijection, Injection, Surjection, IsInjective
    <3>2. ExistsBijection(Used, Live)
      BY <3>1 DEF ExistsBijection
    <3> QED BY <3>2, UsedFinite, FS_Bijection
  <2> QED BY <2>4, <2>5, <2>6 DEF Inv, SlotsOK
<1> QED BY <1>1, Invariant, PTL

\* No two kinds that live share a partition, and with it the counters of
\* memkind_memtier.c, as long as kinds are destroyed youngest first.
THEOREM PartitionsAreUnique == Spec => []PartitionsUnique
<1>1. ASSUME Inv
      PROVE  \A k, l \in Live : /\ k \in Nat /\ kinds[k].partition \in Int
                                /\ k # l => k < l \/ l < k
  <2>1. \A k \in Live : k \in Ids /\ k \in Nat
    BY Sizes DEF Live
  <2> QED BY <1>1, <2>1, KindTypes DEF Inv
<1>2. ASSUME Inv, past \cap {"clash", "out of order"} = {}
      PROVE  \A k, l \in Live : k # l => kinds[k].partition # kinds[l].partition
  <2>1. \A k, l \in Live : k < l => kinds[k].partition < kinds[l].partition
    BY <1>2 DEF Inv, PartitionsOK
  <2>2. \A k, l \in Live : kinds[k].partition < kinds[l].partition => kinds[k].partition # kinds[l].partition
    <3>1. \A x, y \in Int : x < y => x # y
      OBVIOUS
    <3>2. \A k \in Live : kinds[k].partition \in Int
      BY <1>1, <1>2
    <3> QED BY <3>1, <3>2
  <2>3. \A k, l \in Live : k # l => k < l \/ l < k
    BY <1>1, <1>2
  <2> QED BY <2>1, <2>2, <2>3
<1>3. Inv => PartitionsUnique
  BY <1>2 DEF PartitionsUnique
<1> QED BY <1>3, Invariant, PTL

\* Every kind that memkind_create_pmem completed and every call has a file of its
\* own, open, and no other file is, but for those memkind_pmem_recreate_file
\* leaks - until two kinds have one name, or a kind whose file was closed when
\* there was no memory for the name of its directory is destroyed.
THEOREM FilesAreOwned == Spec => []FilesOwned
<1>1. Inv => FilesOwned
  <2> SUFFICES ASSUME Inv, past \cap {"clash", "closed twice"} = {} PROVE FilesOwned
    BY DEF FilesOwned
  <2>1. FilesOpen /\ FilesApart /\ ("file leaked" \notin past => FilesHeld)
    BY DEF Inv, FilesOK
  <2> DEFINE holders == {<<"kind", k>> : k \in WithFile} \cup {<<"call", t>> : t \in Calling}
             fd(h) == IF h[1] = "kind" THEN kinds[h[2]].fd ELSE pc[h[2]].fd
  <2>2. \A h \in holders : \/ \E k \in WithFile : h = <<"kind", k>> /\ fd(h) = kinds[k].fd
                           \/ \E t \in Calling : h = <<"call", t>> /\ fd(h) = pc[t].fd
    <3> TAKE h \in holders
    <3>1. ASSUME NEW k \in WithFile, h = <<"kind", k>> PROVE fd(h) = kinds[k].fd
      BY <3>1
    <3>2. ASSUME NEW t \in Calling, h = <<"call", t>> PROVE fd(h) = pc[t].fd
      BY <3>2
    <3> HIDE DEF fd
    <3> QED BY <3>1, <3>2
  <2>3. /\ \A k \in WithFile : <<"kind", k>> \in holders /\ fd(<<"kind", k>>) = kinds[k].fd
        /\ \A t \in Calling : <<"call", t>> \in holders /\ fd(<<"call", t>>) = pc[t].fd
    OBVIOUS
  <2>4. FilesOwned <=> /\ \A h \in holders : fd(h) \in fds
                       /\ \A g, h \in holders : g # h => fd(g) # fd(h)
                       /\ "file leaked" \notin past => fds = {fd(h) : h \in holders}
    BY DEF FilesOwned, Calling
  <2> HIDE DEF holders, fd
  <2>5. \A h \in holders : fd(h) \in fds
    BY <2>1, <2>2 DEF FilesOpen
  <2>6. ASSUME NEW g \in holders, NEW h \in holders, fd(g) = fd(h) PROVE g = h
    <3>1. ASSUME NEW k \in WithFile, g = <<"kind", k>>, fd(g) = kinds[k].fd PROVE g = h
      <4>1. ~\E u \in Calling : fd(h) = pc[u].fd
        BY <2>1, <2>6, <3>1 DEF FilesApart
      <4>2. PICK l \in WithFile : h = <<"kind", l>> /\ fd(h) = kinds[l].fd
        BY <2>2, <4>1
      <4>3. k = l
        BY <2>1, <2>6, <3>1, <4>2 DEF FilesApart
      <4> QED BY <3>1, <4>2, <4>3
    <3>2. ASSUME NEW t \in Calling, g = <<"call", t>>, fd(g) = pc[t].fd PROVE g = h
      <4>1. ~\E l \in WithFile : fd(h) = kinds[l].fd
        BY <2>1, <2>6, <3>2 DEF FilesApart
      <4>2. PICK u \in Calling : h = <<"call", u>> /\ fd(h) = pc[u].fd
        BY <2>2, <4>1
      <4>3. t = u
        BY <2>1, <2>6, <3>2, <4>2 DEF FilesApart
      <4> QED BY <3>2, <4>2, <4>3
    <3> QED BY <2>2, <3>1, <3>2
  <2>7. FilesHeld => fds = {fd(h) : h \in holders}
    <3> SUFFICES ASSUME FilesHeld, NEW z \in fds PROVE \E h \in holders : fd(h) = z
      BY <2>5
    <3> QED BY <2>3 DEF FilesHeld
  <2> QED BY <2>1, <2>4, <2>5, <2>6, <2>7
<1> QED BY <1>1, Invariant, PTL

-----------------------------------------------------------------------------
\* The arenas.  Consecutive numbers in ascending order are what they seem:
\* a strictly increasing function cannot skip one.
LEMMA AscendingRange ==
  ASSUME NEW z \in Nat, NEW n \in Nat
  PROVE  Ascending(z..z + n - 1) = [i \in 1..n |-> z + i - 1]
<1> DEFINE S == z..z + n - 1
           id == [i \in 1..n |-> z + i - 1]
           Inc(s) == \A i, j \in DOMAIN s : i < j => s[i] < s[j]
<1>1. Cardinality(S) = n
  <2>1. z \in Int /\ z + n - 1 \in Int
    OBVIOUS
  <2>2. Cardinality(S) = IF z > z + n - 1 THEN 0 ELSE (z + n - 1) - z + 1
    BY <2>1, FS_Interval
  <2> QED BY <2>2
<1>2. id \in [1..n -> S] /\ Inc(id)
  OBVIOUS
<1>3. ASSUME NEW s \in [1..n -> S], Inc(s) PROVE s = id
  <2>0. \A i \in 1..n : s[i] \in Int /\ z =< s[i] /\ s[i] =< z + n - 1
    OBVIOUS
  <2>1. \A i, j \in 1..n : i < j => s[i] < s[j]
    BY <1>3
  <2>2. \A i \in 1..n : s[i] >= z + i - 1
    <3> DEFINE Low == {i \in 1..n : ~(s[i] >= z + i - 1)}
    <3> SUFFICES ASSUME Low # {} PROVE FALSE
      OBVIOUS
    <3>1. Low \subseteq Nat
      OBVIOUS
    <3>2. PICK m : m = Min(Low)
      OBVIOUS
    <3>3. m \in Low /\ \A y \in Low : m =< y
      BY <3>1, <3>2, Least
    <3>4. m \in 1..n /\ ~(s[m] >= z + m - 1)
      BY <3>3
    <3>5. m # 1
      BY <2>0, <3>4
    <3>6. m - 1 \in 1..n /\ m - 1 \notin Low
      BY <3>3, <3>4, <3>5
    <3>7. s[m - 1] >= z + (m - 1) - 1 /\ s[m - 1] < s[m]
      BY <2>1, <3>4, <3>6
    <3> QED BY <2>0, <3>4, <3>6, <3>7
  <2>3. \A i \in 1..n : s[i] =< z + i - 1
    <3> DEFINE High == {d \in 0..n - 1 : ~(s[n - d] =< z + (n - d) - 1)}
    <3> SUFFICES ASSUME High # {} PROVE FALSE
      <4> SUFFICES ASSUME NEW i \in 1..n PROVE s[i] =< z + i - 1
        OBVIOUS
      <4>1. n - i \in 0..n - 1 /\ n - (n - i) = i
        OBVIOUS
      <4> QED BY <4>1
    <3>1. High \subseteq Nat
      OBVIOUS
    <3>2. PICK m : m = Min(High)
      OBVIOUS
    <3>3. m \in High /\ \A y \in High : m =< y
      BY <3>1, <3>2, Least
    <3>4. m \in 0..n - 1 /\ ~(s[n - m] =< z + (n - m) - 1)
      BY <3>3
    <3>5. m # 0
      <4> SUFFICES ASSUME m = 0 PROVE FALSE
        OBVIOUS
      <4>1. n - m = n /\ n \in 1..n
        BY <3>4
      <4> QED BY <2>0, <3>4, <4>1
    <3>6. m - 1 \in 0..n - 1 /\ m - 1 \notin High
      <4>1. m - 1 \in 0..n - 1 /\ ~(m =< m - 1)
        BY <3>4, <3>5
      <4> HIDE DEF High
      <4> QED BY <3>3, <4>1
    <3>7. n - m \in 1..n /\ n - (m - 1) \in 1..n /\ n - m < n - (m - 1)
      BY <3>4, <3>5
    <3>8. s[n - (m - 1)] =< z + (n - (m - 1)) - 1 /\ s[n - m] < s[n - (m - 1)]
      BY <2>1, <3>6, <3>7
    <3> QED BY <2>0, <3>4, <3>7, <3>8
  <2>4. \A i \in 1..n : s[i] = z + i - 1
    <3> TAKE i \in 1..n
    <3>1. s[i] \in Int /\ s[i] >= z + i - 1 /\ s[i] =< z + i - 1
      BY <2>0, <2>2, <2>3
    <3> QED BY <3>1
  <2> QED BY <2>4
<1>4. Ascending(S) = CHOOSE s \in [1..n -> S] : Inc(s)
  BY <1>1 DEF Ascending
<1> HIDE DEF S, id, Inc
<1>5. Ascending(S) = id
  BY <1>2, <1>3, <1>4
<1> QED BY <1>5 DEF S, id

\* The last block of the indices to recycle is taken off, or one is put there.
LastBlock(d, n, A, z) ==
  /\ MapLen =< Len(d) /\ z + MapLen =< n
  /\ \A j \in 1..MapLen : d[Len(d) - MapLen + j] = z + j - 1
  /\ \A a \in z..z + MapLen - 1 : a \notin A
  /\ Recycled(SubSeq(d, 1, Len(d) - MapLen), n, A \cup z..z + MapLen - 1)
LEMMA TakeBlock ==
  ASSUME NEW n \in Nat, NEW A, NEW d, Recycled(d, n, A), Len(d) # 0
  PROVE  \E z \in Nat : LastBlock(d, n, A, z)
<1>1. /\ d \in Seq(0..n - 1) /\ \A x \in 1..Len(d) : d[x] \notin A
      /\ \A x, y \in 1..Len(d) : d[x] = d[y] => x = y
  BY DEF Recycled
<1>2. PICK B \in SUBSET (0..Len(d)) : Blocks(B, d)
  BY DEF Recycled
<1>3. PICK m, p, l : m = MapLen /\ p = Len(d) - MapLen /\ l = Len(d)
  OBVIOUS
<1>4. m \in Nat /\ m # 0 /\ l \in Nat /\ p = l - m
  BY <1>1, <1>3, ArenaAssumption
<1>5. /\ 0 \in B /\ l \in B /\ \A b \in B : b \in 0..l
      /\ \A b \in B : b # 0 => /\ b - m \in B
                               /\ \A j \in 1..m : d[b - m + j] = d[b - m + 1] + j - 1
  BY <1>2, <1>3 DEF Blocks
<1>6. /\ p \in B /\ p \in 0..l /\ p \in Nat /\ m =< l
      /\ \A j \in 1..m : d[p + j] = d[p + 1] + j - 1
  <2>1. l # 0
    BY <1>3
  <2>2. l - m \in B /\ \A j \in 1..m : d[l - m + j] = d[l - m + 1] + j - 1
    BY <1>5, <2>1
  <2>3. p \in B /\ \A j \in 1..m : d[p + j] = d[p + 1] + j - 1
    BY <1>4, <2>2
  <2>4. p \in 0..l
    BY <1>5, <2>3
  <2> QED BY <1>4, <2>3, <2>4
<1>7. PICK z : z = d[p + 1]
  OBVIOUS
<1>8. \A j \in 1..m : p + j \in 1..l /\ d[p + j] = z + j - 1 /\ d[p + j] \in 0..n - 1
  <2> TAKE j \in 1..m
  <2>1. p + j \in 1..l
    BY <1>4, <1>6
  <2> QED BY <1>1, <1>3, <1>6, <1>7, <2>1
<1>9. z \in Nat /\ z + m =< n
  <2>1. 1 \in 1..m /\ m \in 1..m
    BY <1>4
  <2>2. d[p + 1] \in 0..n - 1 /\ d[p + m] = z + m - 1 /\ d[p + m] \in 0..n - 1
    BY <1>8, <2>1
  <2> QED BY <1>4, <1>7, <2>2
<1>10. \A a \in z..z + m - 1 : \E j \in 1..m : a = d[p + j]
  <2> TAKE a \in z..z + m - 1
  <2>1. a - z + 1 \in 1..m /\ a = z + (a - z + 1) - 1
    BY <1>4, <1>9
  <2> QED BY <1>8, <2>1
<1>11. \A a \in z..z + m - 1 : a \notin A
  BY <1>1, <1>3, <1>8, <1>10
<1>12. PICK e : e = SubSeq(d, 1, p)
  OBVIOUS
<1>13. e \in Seq(0..n - 1) /\ Len(e) = p /\ \A x \in 1..p : e[x] = d[x] /\ x \in 1..l
  <2>1. \A x \in 1..p : d[x] \in 0..n - 1 /\ x \in 1..l
    <3>1. \A x \in 1..p : x \in 1..l
      BY <1>4, <1>6
    <3> QED BY <1>1, <1>3, <3>1
  <2>2. /\ e \in Seq(0..n - 1) /\ Len(e) = IF 1 <= p THEN p - 1 + 1 ELSE 0
        /\ \A x \in 1..p - 1 + 1 : e[x] = d[1 + x - 1]
    BY <1>6, <1>12, <2>1, SubSeqProperties
  <2>3. Len(e) = p /\ p - 1 + 1 = p /\ \A x \in 1..p : 1 + x - 1 = x
    BY <1>6, <2>2
  <2> QED BY <2>1, <2>2, <2>3
<1>14. \A x \in 1..p : e[x] \notin A \cup z..z + m - 1
  <2> TAKE x \in 1..p
  <2>1. e[x] \notin A
    BY <1>1, <1>3, <1>13
  <2>2. ASSUME NEW j \in 1..m, d[x] = d[p + j] PROVE FALSE
    <3>1. x = p + j
      BY <1>1, <1>3, <1>8, <1>13, <2>2
    <3> QED BY <1>6, <3>1
  <2> QED BY <1>10, <1>13, <2>1, <2>2
<1>15. \A x, y \in 1..p : e[x] = e[y] => x = y
  BY <1>1, <1>3, <1>13
<1>16. Blocks({b \in B : b =< p}, e)
  <2> DEFINE C == {b \in B : b =< p}
  <2>1. 0 \in C /\ Len(e) \in C
    BY <1>5, <1>6, <1>13
  <2>2. ASSUME NEW b \in C, b # 0
        PROVE  b - m \in C /\ \A j \in 1..m : e[b - m + j] = e[b - m + 1] + j - 1
    <3>1. b \in B /\ b \in 0..l /\ b =< p /\ b - m \in B /\ b - m \in 0..l
      BY <1>5, <2>2
    <3>2. b - m =< p /\ \A j \in 1..m : b - m + j \in 1..p
      BY <1>4, <1>6, <3>1
    <3>3. \A j \in 1..m : e[b - m + j] = d[b - m + j]
      BY <1>13, <3>2
    <3>4. 1 \in 1..m
      BY <1>4
    <3>5. \A j \in 1..m : d[b - m + j] = d[b - m + 1] + j - 1
      BY <1>5, <2>2, <3>1
    <3> QED BY <3>1, <3>2, <3>3, <3>4, <3>5
  <2> HIDE DEF C
  <2>3. Blocks(C, e)
    BY <1>3, <2>1, <2>2 DEF Blocks
  <2> QED BY <2>3 DEF C
<1>17. {b \in B : b =< p} \in SUBSET (0..Len(e))
  <2>1. \A b \in B : b =< p => b \in 0..p
    BY <1>5, <1>6
  <2> QED BY <1>13, <2>1
<1>18. Recycled(e, n, A \cup z..z + m - 1)
  BY <1>13, <1>14, <1>15, <1>16, <1>17 DEF Recycled
<1> QED BY <1>3, <1>6, <1>8, <1>9, <1>11, <1>12, <1>18 DEF LastBlock

LEMMA PutBlock ==
  ASSUME NEW n \in Nat, NEW A, A \subseteq 0..n - 1, NEW d, Recycled(d, n, A),
         NEW z \in Nat, z..z + MapLen - 1 \subseteq A
  PROVE  Recycled(d \o [i \in 1..MapLen |-> z + i - 1], n, A \ (z..z + MapLen - 1))
<1>1. /\ d \in Seq(0..n - 1) /\ \A x \in 1..Len(d) : d[x] \notin A
      /\ \A x, y \in 1..Len(d) : d[x] = d[y] => x = y
  BY DEF Recycled
<1>2. PICK B \in SUBSET (0..Len(d)) : Blocks(B, d)
  BY DEF Recycled
<1>3. PICK m, l, w : m = MapLen /\ l = Len(d) /\ w = [i \in 1..MapLen |-> z + i - 1]
  OBVIOUS
<1>4. m \in Nat /\ m # 0 /\ l \in Nat
  BY <1>1, <1>3, ArenaAssumption
<1>5. /\ 0 \in B /\ l \in B /\ \A b \in B : b \in 0..l
      /\ \A b \in B : b # 0 => /\ b - m \in B
                               /\ \A j \in 1..m : d[b - m + j] = d[b - m + 1] + j - 1
  BY <1>2, <1>3 DEF Blocks
<1>6. /\ w \in Seq(0..n - 1) /\ Len(w) = m
      /\ \A j \in 1..m : w[j] = z + j - 1 /\ w[j] \in A /\ w[j] \in z..z + m - 1
  <2>1. \A j \in 1..m : z + j - 1 \in z..z + m - 1
    BY <1>4
  <2>2. \A j \in 1..m : z + j - 1 \in A /\ z + j - 1 \in 0..n - 1
    BY <1>3, <2>1
  <2> QED BY <1>3, <1>4, <2>1, <2>2
<1>7. PICK e : e = d \o w
  OBVIOUS
<1>8. /\ e \in Seq(0..n - 1) /\ Len(e) = l + m
      /\ \A x \in 1..l : e[x] = d[x]
      /\ \A j \in 1..m : e[l + j] = w[j]
      /\ \A x \in 1..l + m : x \in 1..l \/ \E j \in 1..m : x = l + j
  <2>1. /\ e \in Seq(0..n - 1) /\ Len(e) = l + m
        /\ \A x \in 1..l + m : e[x] = IF x <= l THEN d[x] ELSE w[x - l]
    <3>1. /\ d \o w \in Seq(0..n - 1) /\ Len(d \o w) = Len(d) + Len(w)
          /\ \A x \in 1..Len(d) + Len(w) : (d \o w)[x] = IF x <= Len(d) THEN d[x] ELSE w[x - Len(d)]
      BY <1>1, <1>6, ConcatProperties
    <3>2. Len(d) = l /\ Len(w) = m /\ d \o w = e
      BY <1>3, <1>6, <1>7
    <3> QED BY <3>1, <3>2
  <2>2. \A x \in 1..l : e[x] = d[x]
    BY <1>4, <2>1
  <2>3. \A j \in 1..m : e[l + j] = w[j]
    <3> TAKE j \in 1..m
    <3>1. l + j \in 1..l + m /\ ~(l + j <= l) /\ (l + j) - l = j
      BY <1>4
    <3> QED BY <2>1, <3>1
  <2>4. ASSUME NEW x \in 1..l + m, x \notin 1..l PROVE \E j \in 1..m : x = l + j
    <3>1. x - l \in 1..m /\ x = l + (x - l)
      BY <1>4, <2>4
    <3> QED BY <3>1
  <2> QED BY <2>1, <2>2, <2>3, <2>4
<1>9. \A x \in 1..l + m : e[x] \notin A \ (z..z + m - 1)
  <2>1. \A x \in 1..l : e[x] \notin A
    BY <1>1, <1>3, <1>8
  <2>2. \A j \in 1..m : e[l + j] \in z..z + m - 1
    BY <1>6, <1>8
  <2> QED BY <1>8, <2>1, <2>2
<1>10. \A x, y \in 1..l + m : e[x] = e[y] => x = y
  <2>1. \A x, y \in 1..l : e[x] = e[y] => x = y
    BY <1>1, <1>3, <1>8
  <2>2. \A x \in 1..l, j \in 1..m : e[x] # e[l + j]
    BY <1>1, <1>3, <1>6, <1>8
  <2>3. \A i, j \in 1..m : e[l + i] = e[l + j] => i = j
    <3> SUFFICES ASSUME NEW i \in 1..m, NEW j \in 1..m, e[l + i] = e[l + j] PROVE i = j
      OBVIOUS
    <3>1. e[l + i] = w[i] /\ e[l + j] = w[j]
      BY <1>8
    <3>2. w[i] = z + i - 1 /\ w[j] = z + j - 1
      BY <1>6
    <3>3. z + i - 1 = z + j - 1
      BY <3>1, <3>2
    <3> QED BY <1>4, <3>3
  <2> SUFFICES ASSUME NEW x \in 1..l + m, NEW y \in 1..l + m, e[x] = e[y] PROVE x = y
    OBVIOUS
  <2>4. CASE x \in 1..l
    BY <1>8, <2>1, <2>2, <2>4
  <2>5. CASE x \notin 1..l
    <3>1. PICK i \in 1..m : x = l + i
      BY <1>8, <2>5
    <3>2. y \notin 1..l
      BY <2>2, <3>1
    <3>3. PICK j \in 1..m : y = l + j
      BY <1>8, <3>2
    <3> QED BY <2>3, <3>1, <3>3
  <2> QED BY <2>4, <2>5
<1>11. Blocks(B \cup {l + m}, e)
  <2> DEFINE C == B \cup {l + m}
  <2>1. 0 \in C /\ Len(e) \in C
    BY <1>5, <1>8
  <2>2. ASSUME NEW b \in B, b # 0
        PROVE  b - m \in C /\ \A j \in 1..m : e[b - m + j] = e[b - m + 1] + j - 1
    <3>1. b \in 0..l /\ b - m \in B /\ b - m \in 0..l
      BY <1>5, <2>2
    <3>2. \A j \in 1..m : b - m + j \in 1..l
      BY <1>4, <3>1
    <3>3. \A j \in 1..m : e[b - m + j] = d[b - m + j]
      BY <1>8, <3>2
    <3>4. 1 \in 1..m
      BY <1>4
    <3>5. \A j \in 1..m : d[b - m + j] = d[b - m + 1] + j - 1
      BY <1>5, <2>2
    <3> QED BY <3>1, <3>3, <3>4, <3>5
  <2>3. (l + m) - m \in C /\ \A j \in 1..m : e[(l + m) - m + j] = e[(l + m) - m + 1] + j - 1
    <3>1. (l + m) - m = l /\ 1 \in 1..m
      BY <1>4
    <3>2. \A j \in 1..m : e[l + j] = z + j - 1
      BY <1>6, <1>8
    <3>3. e[l + 1] = z
      BY <3>1, <3>2
    <3> QED BY <1>5, <3>1, <3>2, <3>3
  <2> HIDE DEF C
  <2>4. C = B \cup {l + m}
    BY DEF C
  <2>5. Blocks(C, e)
    BY <1>3, <2>1, <2>2, <2>3, <2>4 DEF Blocks
  <2> QED BY <2>4, <2>5
<1>12. B \cup {l + m} \in SUBSET (0..Len(e))
  BY <1>4, <1>5, <1>8
<1> QED BY <1>3, <1>7, <1>8, <1>9, <1>10, <1>11, <1>12 DEF Recycled

LEMMA Mapless == ASSUME NEW m, m = NoMap PROVE m.zero..m.zero + m.len - 1 = {}
BY DEF NoMap

\* memkind_arena_create_map is given consecutive indices, the lowest of which
\* it takes for arena_zero.
LEMMA NextBlock ==
  ASSUME RegistryOK, PoolOK, Available >= MapLen, NEW e, e = AfterCreating(MapLen)
  PROVE  \E z \in Nat :
            /\ Given(MapLen) = z..z + MapLen - 1 /\ MapAfterCreate = [zero |-> z, len |-> MapLen]
            /\ z + MapLen =< MaxArenas /\ \A a \in z..z + MapLen - 1 : a \notin je.alive
            /\ e = [narenas |-> e.narenas, alive |-> e.alive, destroyed |-> e.destroyed]
            /\ e.narenas \in 0..MaxArenas /\ e.alive = je.alive \cup Given(MapLen)
            /\ e.alive \subseteq 0..e.narenas - 1 /\ Recycled(e.destroyed, e.narenas, e.alive)
<1>1. PICK d, n, A, m, l : /\ d = je.destroyed /\ n = je.narenas /\ A = je.alive
                           /\ m = MapLen /\ l = Len(d)
  OBVIOUS
<1>2. /\ m \in Nat /\ m # 0 /\ MaxArenas \in Nat /\ n \in 0..MaxArenas /\ n \in Nat
      /\ A \subseteq 0..n - 1 /\ Recycled(d, n, A) /\ d \in Seq(0..n - 1) /\ l \in Nat
      /\ je = [narenas |-> n, alive |-> A, destroyed |-> d]
  <2>1. MapLen \in Nat \ {0} /\ MaxArenas \in Nat
    BY ArenaAssumption
  <2>2. n \in 0..MaxArenas /\ A \subseteq 0..n - 1 /\ Recycled(d, n, A)
    BY <1>1 DEF PoolOK
  <2>3. d \in Seq(0..n - 1)
    BY <2>2 DEF Recycled
  <2>4. je = [narenas |-> n, alive |-> A, destroyed |-> d]
    BY <1>1 DEF RegistryOK
  <2> QED BY <1>1, <2>1, <2>2, <2>3, <2>4
<1>3. l + (MaxArenas - n) >= m
  BY <1>1 DEF Available
<1>4. \A i \in 1..m : Nth(i) = IF i =< l THEN d[l - i + 1] ELSE n + (i - l - 1)
  BY <1>1 DEF Nth
<1>5. e = [narenas |-> IF m - l > 0 THEN n + (m - l) ELSE n,
           alive |-> A \cup Given(MapLen), destroyed |-> SubSeq(d, 1, l - m)]
  BY <1>1, <1>2 DEF AfterCreating
<1>6. ASSUME NEW z \in Nat, Given(MapLen) = z..z + m - 1
      PROVE  MapAfterCreate = [zero |-> z, len |-> MapLen]
  <2>1. Given(MapLen) \subseteq Nat /\ z \in Given(MapLen) /\ \A y \in Given(MapLen) : z =< y
    BY <1>2, <1>6
  <2>2. Min(Given(MapLen)) \in Given(MapLen) /\ \A y \in Given(MapLen) : Min(Given(MapLen)) =< y
    <3>1. Given(MapLen) # {}
      BY <2>1
    <3> QED BY <2>1, <3>1, Least
  <2>3. PICK x : x = Min(Given(MapLen))
    OBVIOUS
  <2>4. x \in Nat /\ x =< z /\ z =< x
    BY <2>1, <2>2, <2>3
  <2> QED BY <2>3, <2>4 DEF MapAfterCreate
<1>7. CASE l = 0
  <2>1. \A i \in 1..m : Nth(i) = n + i - 1
    BY <1>2, <1>4, <1>7
  <2>2. Given(MapLen) = n..n + m - 1
    <3>1. \A i \in 1..m : n + i - 1 \in n..n + m - 1
      BY <1>2
    <3>2. \A a \in n..n + m - 1 : a - n + 1 \in 1..m /\ a = n + (a - n + 1) - 1
      BY <1>2
    <3>3. Given(MapLen) = {n + i - 1 : i \in 1..m}
      BY <1>1, <2>1 DEF Given
    <3> QED BY <3>1, <3>2, <3>3
  <2>3. e = [narenas |-> n + m, alive |-> A \cup Given(MapLen), destroyed |-> << >>]
    <3>1. SubSeq(d, 1, l - m) = << >> /\ m - l > 0 /\ n + (m - l) = n + m
      BY <1>2, <1>7, SubSeqEmpty
    <3> QED BY <1>5, <3>1
  <2>4. n + m =< MaxArenas
    BY <1>2, <1>3, <1>7
  <2>5. \A a \in n..n + m - 1 : a \notin A
    BY <1>2
  <2>6. A \cup n..n + m - 1 \subseteq 0..(n + m) - 1
    BY <1>2
  <2>7. \A C : Recycled(<< >>, n + m, C)
    <3>1. Blocks({0}, << >>) /\ {0} \in SUBSET (0..Len(<< >>))
      BY DEF Blocks
    <3> QED BY <3>1 DEF Recycled
  <2>8. n + m \in 0..MaxArenas
    BY <1>2, <2>4
  <2> QED BY <1>1, <1>2, <1>6, <2>2, <2>3, <2>4, <2>5, <2>6, <2>7, <2>8
<1>8. CASE l # 0
  <2>1. Len(d) # 0 /\ n \in Nat /\ Recycled(d, n, A)
    BY <1>1, <1>2, <1>8
  <2>0. PICK z \in Nat : LastBlock(d, n, A, z)
    BY <2>1, TakeBlock
  <2>2. /\ z + m =< n /\ \A j \in 1..m : d[l - m + j] = z + j - 1
        /\ \A a \in z..z + m - 1 : a \notin A
        /\ Recycled(SubSeq(d, 1, l - m), n, A \cup z..z + m - 1)
    <3>1. MapLen = m /\ Len(d) = l
      BY <1>1
    <3> QED BY <2>0, <3>1 DEF LastBlock
  <2>3. m =< l
    <3>1. MapLen =< Len(d)
      BY <2>0 DEF LastBlock
    <3> QED BY <1>1, <3>1
  <2>4. \A i \in 1..m : Nth(i) = z + m - i
    <3> TAKE i \in 1..m
    <3>1. i =< l /\ m - i + 1 \in 1..m /\ l - m + (m - i + 1) = l - i + 1 /\ z + (m - i + 1) - 1 = z + m - i
      BY <1>2, <2>3
    <3>2. Nth(i) = d[l - i + 1]
      BY <1>4, <3>1
    <3>3. d[l - m + (m - i + 1)] = z + (m - i + 1) - 1
      BY <2>2, <3>1
    <3> QED BY <3>1, <3>2, <3>3
  <2>5. Given(MapLen) = z..z + m - 1
    <3>1. \A i \in 1..m : z + m - i \in z..z + m - 1
      BY <1>2
    <3>2. \A a \in z..z + m - 1 : z + m - a \in 1..m /\ a = z + m - (z + m - a)
      BY <1>2
    <3>3. Given(MapLen) = {z + m - i : i \in 1..m}
      BY <1>1, <2>4 DEF Given
    <3> QED BY <3>1, <3>2, <3>3
  <2>6. e = [narenas |-> n, alive |-> A \cup Given(MapLen), destroyed |-> SubSeq(d, 1, l - m)]
    <3>1. ~(m - l > 0)
      BY <1>2, <2>3
    <3> QED BY <1>5, <3>1
  <2>7. z + m =< MaxArenas /\ A \cup z..z + m - 1 \subseteq 0..n - 1
    BY <1>2, <2>2
  <2>8. e.narenas = n /\ e.alive = A \cup z..z + m - 1 /\ e.destroyed = SubSeq(d, 1, l - m)
    <3>1. PICK q, g : q = SubSeq(d, 1, l - m) /\ g = Given(MapLen)
      OBVIOUS
    <3>2. e = [narenas |-> n, alive |-> A \cup g, destroyed |-> q]
      BY <2>6, <3>1
    <3>3. e.narenas = n /\ e.alive = A \cup g /\ e.destroyed = q
      BY <3>2
    <3> QED BY <2>5, <3>1, <3>3
  <2>9. /\ MapLen = m /\ je.alive = A /\ n \in 0..MaxArenas
        /\ MapAfterCreate = [zero |-> z, len |-> MapLen]
    BY <1>1, <1>2, <1>6, <2>5
  <2>10. /\ e.narenas \in 0..MaxArenas /\ e.alive \subseteq 0..e.narenas - 1
         /\ Recycled(e.destroyed, e.narenas, e.alive)
    BY <2>2, <2>7, <2>8, <2>9
  <2>11. e = [narenas |-> e.narenas, alive |-> e.alive, destroyed |-> e.destroyed]
    BY <2>6
  <2> QED BY <2>2, <2>5, <2>7, <2>8, <2>9, <2>10, <2>11
<1> QED BY <1>7, <1>8

\* A map is created for a kind that has none: a static one, or a new one.
LEMMA CreateMapStep ==
  ASSUME RegistryOK, PoolOK, NEW k \in Ids, CreateMap(k), Live' = Live \cup {k},
         \A j \in Live : j # k => kinds'[j].map = kinds[j].map,
         kinds'[k].map = MapAfterCreate, k \in Live => kinds[k].map = NoMap
  PROVE  RegistryOK' /\ PoolOK'
<1>1. PICK z \in Nat :
            /\ Given(MapLen) = z..z + MapLen - 1 /\ MapAfterCreate = [zero |-> z, len |-> MapLen]
            /\ z + MapLen =< MaxArenas /\ \A a \in z..z + MapLen - 1 : a \notin je.alive
            /\ je' = [narenas |-> je'.narenas, alive |-> je'.alive, destroyed |-> je'.destroyed]
            /\ je'.narenas \in 0..MaxArenas /\ je'.alive = je.alive \cup Given(MapLen)
            /\ je'.alive \subseteq 0..je'.narenas - 1
            /\ Recycled(je'.destroyed, je'.narenas, je'.alive)
  BY NextBlock DEF CreateMap
<1>2. PICK G : G = z..z + MapLen - 1
  OBVIOUS
<1>3. /\ registry' = [a \in Arenas |-> IF a \in G THEN k ELSE registry[a]]
      /\ G \subseteq Arenas /\ k \in 0..NumBase + MaxCreates /\ k # NULL
      /\ kinds'[k].map.zero = z /\ kinds'[k].map.len = MapLen
  <2>1. G \subseteq Arenas
    BY <1>1, <1>2, ArenaAssumption DEF Arenas
  <2> QED BY <1>1, <1>2, <2>1, Sizes DEF CreateMap
<1>4. \A a \in Arenas : /\ registry[a] \in 0..NumBase + MaxCreates
                        /\ registry[a] # NULL => registry[a] \in Live /\ a \in ArenasOf(registry[a])
                        /\ registry[a] # NULL <=> a \in je.alive
  BY DEF RegistryOK
<1>5. \A a \in Arenas : registry[a] # k
  <2> SUFFICES ASSUME NEW a \in Arenas, registry[a] = k PROVE FALSE
    OBVIOUS
  <2>1. k \in Live /\ a \in ArenasOf(k)
    BY <1>3, <1>4
  <2>2. ArenasOf(k) = {}
    BY <2>1, Mapless DEF ArenasOf
  <2> QED BY <2>1, <2>2
<1>6. \A a \in G : a \in Arenas /\ registry'[a] = k /\ registry[a] = NULL
  BY <1>1, <1>2, <1>3, <1>4
<1>7. \A a \in Arenas : a \notin G => registry'[a] = registry[a]
  BY <1>3
<1>8. \A j \in Live : j # k => MapOK(j)' /\ ArenasOf(j)' = ArenasOf(j)
  <2> SUFFICES ASSUME NEW j \in Live, j # k PROVE MapOK(j)' /\ ArenasOf(j)' = ArenasOf(j)
    OBVIOUS
  <2>1. kinds'[j].map = kinds[j].map /\ MapOK(j) /\ j # NULL
    BY Sizes DEF RegistryOK, Live
  <2>2. ArenasOf(j)' = ArenasOf(j)
    BY <2>1 DEF ArenasOf
  <2>3. \A a \in ArenasOf(j) : a \in Arenas /\ registry[a] = j
    BY <2>1 DEF MapOK
  <2>4. \A a \in ArenasOf(j) : a \in Arenas /\ registry'[a] = j
    BY <1>6, <1>7, <2>1, <2>3
  <2> QED BY <2>1, <2>2, <2>4 DEF MapOK
<1>9. ArenasOf(k)' = G /\ MapOK(k)'
  <2>1. ArenasOf(k)' = G
    BY <1>2, <1>3 DEF ArenasOf
  <2> QED BY <1>3, <1>6, <2>1 DEF MapOK
<1>10. \A j \in Live' : MapOK(j)'
  BY <1>8, <1>9
<1>11. registry' \in [Arenas -> 0..NumBase + MaxCreates]
  BY <1>3, <1>4
<1>12. ASSUME NEW a \in Arenas, registry'[a] # NULL
       PROVE  registry'[a] \in Live' /\ a \in ArenasOf(registry[a])'
  <2>1. PICK j : j = registry'[a]
    OBVIOUS
  <2>2. j \in Live \cup {k} /\ a \in ArenasOf(j)'
    <3>1. CASE a \in G
      BY <1>6, <1>9, <2>1, <3>1
    <3>2. CASE a \notin G
      BY <1>4, <1>5, <1>7, <1>8, <1>12, <2>1, <3>2
    <3> QED BY <3>1, <3>2
  <2> QED BY <2>1, <2>2 DEF ArenasOf
<1>13. je'.alive = {a \in Arenas : registry'[a] # NULL}
  <2>1. je'.alive = je.alive \cup G /\ je.alive \subseteq Arenas
    BY <1>1, <1>2 DEF RegistryOK
  <2>2. \A a \in Arenas : registry'[a] # NULL <=> a \in je.alive \/ a \in G
    BY <1>3, <1>4, <1>6, <1>7
  <2> QED BY <1>3, <2>1, <2>2
<1>14. RegistryOK'
  BY <1>1, <1>10, <1>11, <1>12, <1>13 DEF RegistryOK
<1> QED BY <1>1, <1>14 DEF PoolOK

\* A map is destroyed with its kind.
LEMMA DestroyMapStep ==
  ASSUME RegistryOK, PoolOK, NEW k \in Live, k \notin Statics, DestroyMap(k),
         Live' = Live \ {k}, \A j \in Live : j # k => kinds'[j].map = kinds[j].map
  PROVE  RegistryOK' /\ PoolOK'
<1>1. PICK z, G : z = kinds[k].map.zero /\ G = ArenasOf(k)
  OBVIOUS
<1>2. MapOK(k) /\ k # NULL
  BY Sizes DEF RegistryOK, Live
<1>3. /\ z \in Nat /\ G = z..z + MapLen - 1 /\ MapLen \in Nat
      /\ \A a \in G : a \in Arenas /\ registry[a] = k
  BY <1>1, <1>2, ArenaAssumption DEF MapOK, ArenasOf
<1>4. PICK d, n, A : d = je.destroyed /\ n = je.narenas /\ A = je.alive
  OBVIOUS
<1>5. /\ je = [narenas |-> n, alive |-> A, destroyed |-> d]
      /\ A = {a \in Arenas : registry[a] # NULL}
  BY <1>4 DEF RegistryOK
<1>6. n \in 0..MaxArenas /\ A \subseteq 0..n - 1 /\ Recycled(d, n, A) /\ n \in Nat
  BY <1>4, ArenaAssumption DEF PoolOK
<1>7. G \subseteq A /\ G \cap A = G
  BY <1>2, <1>3, <1>5
<1>8. /\ je' = [narenas |-> n, alive |-> A \ G, destroyed |-> d \o Ascending(G)]
      /\ registry' = [a \in Arenas |-> IF a \in G THEN NULL ELSE registry[a]]
  <2>1. /\ je' = [je EXCEPT !.alive = @ \ ArenasOf(k),
                            !.destroyed = @ \o Ascending(ArenasOf(k) \cap je.alive)]
        /\ registry' = [a \in Arenas |-> IF a \in ArenasOf(k) THEN NULL ELSE registry[a]]
    BY DEF DestroyMap, Unregister
  <2>2. je' = [je EXCEPT !.alive = @ \ G, !.destroyed = @ \o Ascending(G)]
    BY <1>1, <1>4, <1>7, <2>1
  <2> QED BY <1>1, <1>5, <2>1, <2>2
<1>9. PICK e : e = d \o Ascending(G)
  OBVIOUS
<1>10. Recycled(e, n, A \ G)
  <2>1. Ascending(G) = [i \in 1..MapLen |-> z + i - 1]
    BY <1>3, AscendingRange
  <2> QED BY <1>3, <1>6, <1>7, <1>9, <2>1, PutBlock
<1>11. je'.narenas = n /\ je'.alive = A \ G /\ je'.destroyed = e
       /\ je' = [narenas |-> je'.narenas, alive |-> je'.alive, destroyed |-> je'.destroyed]
  BY <1>8, <1>9
<1>12. PoolOK'
  BY <1>6, <1>10, <1>11 DEF PoolOK
<1>13. \A a \in Arenas : registry'[a] = IF a \in G THEN NULL ELSE registry[a]
  BY <1>8
<1>14. \A j \in Live : j # k => MapOK(j)' /\ ArenasOf(j)' = ArenasOf(j)
  <2> SUFFICES ASSUME NEW j \in Live, j # k PROVE MapOK(j)' /\ ArenasOf(j)' = ArenasOf(j)
    OBVIOUS
  <2>1. kinds'[j].map = kinds[j].map /\ MapOK(j)
    BY DEF RegistryOK
  <2>2. ArenasOf(j)' = ArenasOf(j)
    BY <2>1 DEF ArenasOf
  <2>3. \A a \in ArenasOf(j) : a \in Arenas /\ registry[a] = j
    BY <2>1 DEF MapOK
  <2>4. \A a \in ArenasOf(j) : a \in Arenas /\ registry'[a] = j
    BY <1>3, <1>13, <2>3
  <2> QED BY <2>1, <2>2, <2>4 DEF MapOK
<1>15. \A j \in Live' : MapOK(j)'
  BY <1>14
<1>16. registry' \in [Arenas -> 0..NumBase + MaxCreates]
  BY <1>8, Sizes DEF RegistryOK
<1>17. ASSUME NEW a \in Arenas, registry'[a] # NULL
       PROVE  registry'[a] \in Live' /\ a \in ArenasOf(registry[a])'
  <2>1. PICK j : j = registry'[a]
    OBVIOUS
  <2>2. a \notin G /\ j = registry[a] /\ j # NULL
    BY <1>13, <1>17, <2>1
  <2>3. j \in Live /\ a \in ArenasOf(j)
    BY <2>2 DEF RegistryOK
  <2>4. j # k
    BY <1>1, <2>2, <2>3
  <2>5. j \in Live' /\ a \in ArenasOf(j)'
    BY <1>14, <2>3, <2>4
  <2> QED BY <2>1, <2>5 DEF ArenasOf
<1>18. je'.alive = {a \in Arenas : registry'[a] # NULL}
  BY <1>5, <1>11, <1>13
<1> QED BY <1>11, <1>12, <1>15, <1>16, <1>17, <1>18 DEF RegistryOK

\* A step that leaves the arenas and the maps of the kinds that live alone.
LEMMA ArenasKept ==
  ASSUME UNCHANGED <<registry, je>>, Live' = Live, \A j \in Live : kinds'[j].map = kinds[j].map,
         past \subseteq past', ArenasOK
  PROVE  ArenasOK'
<1> SUFFICES ASSUME past \cap {"clash", "half created"} = {}
             PROVE  RegistryOK' /\ (PoolOK => PoolOK')
  <2>1. past' \cap {"clash", "half created"} = {} => past \cap {"clash", "half created"} = {}
    OBVIOUS
  <2>2. "finalized" \notin past' => "finalized" \notin past
    OBVIOUS
  <2> QED BY <2>1, <2>2 DEF ArenasOK
<1>1. RegistryOK
  BY DEF ArenasOK
<1>2. \A j \in Live : ArenasOf(j)' = ArenasOf(j)
  BY DEF ArenasOf
<1>3. \A j \in Live : MapOK(j)'
  BY <1>1, <1>2 DEF RegistryOK, MapOK
<1>4. ASSUME NEW a \in Arenas, registry[a] # NULL
      PROVE  registry[a] \in Live /\ a \in ArenasOf(registry[a])'
  <2>1. PICK j : j = registry[a]
    OBVIOUS
  <2>2. j \in Live /\ a \in ArenasOf(j)
    BY <1>1, <1>4, <2>1 DEF RegistryOK
  <2>3. a \in ArenasOf(j)'
    BY <1>2, <2>2
  <2> QED BY <2>1, <2>2, <2>3 DEF ArenasOf
<1>5. RegistryOK'
  BY <1>1, <1>3, <1>4 DEF RegistryOK
<1>6. PoolOK => PoolOK'
  BY DEF PoolOK
<1> QED BY <1>5, <1>6

LEMMA InitStaticArenas ==
  ASSUME Inv, ArenasOK, NEW t \in Threads, InitStatic(t)
  PROVE  ArenasOK'
<1>1. PICK k \in Statics : /\ kinds[k].map = NoMap /\ CreateMap(k)
                           /\ kinds' = [kinds EXCEPT ![k].map = MapAfterCreate]
  BY DEF InitStatic
<1>2. past' = past /\ "finalized" \notin past /\ Typed /\ k \in Ids /\ k \in Live
  BY Before, Sizes DEF Inv, InitStatic, SlotsOK, Live
<1>3. PICK m, p, r : m = kinds[k] /\ p = MapAfterCreate /\ r = [m EXCEPT !.map = p]
  OBVIOUS
<1>4. IsKind(m) /\ kinds' = [kinds EXCEPT ![k] = r]
  BY <1>1, <1>2, <1>3, KindTypes
<1>5. r.map = p /\ r.live = m.live
  BY <1>3, <1>4 DEF IsKind
<1>6. kinds'[k] = r /\ \A j \in Ids : j # k => kinds'[j] = kinds[j]
  BY <1>2, <1>4, Written
<1>7. Live' = Live \cup {k}
  BY <1>2, <1>3, <1>5, <1>6 DEF Live
<1>8. \A j \in Live : j # k => kinds'[j].map = kinds[j].map
  BY <1>6 DEF Live
<1>9. RegistryOK /\ PoolOK => RegistryOK' /\ PoolOK'
  BY <1>1, <1>2, <1>3, <1>5, <1>6, <1>7, <1>8, CreateMapStep
<1> QED BY <1>2, <1>9 DEF ArenasOK

LEMMA CreateKindArenas ==
  ASSUME Inv, ArenasOK, NEW t \in Threads, NEW dir \in BOOLEAN, CreateKind(t, dir)
  PROVE  ArenasOK'
<1>1. PICK k, f, p : k = created + 1 /\ f = pc[t].fd /\ p = MapAfterCreate
  OBVIOUS
<1>2. PICK r : r = [name |-> f, partition |-> num_kind, fd |-> f, dir |-> dir, map |-> p,
                   live |-> TRUE]
  OBVIOUS
<1>3. /\ CreateMap(k) /\ kinds' = [kinds EXCEPT ![k] = r] /\ created < NumBase + MaxCreates
      /\ past' = IF NameClash(f) THEN past \cup {"clash"} ELSE past
  BY <1>1, <1>2 DEF CreateKind
<1>4. /\ Typed /\ SlotsOK /\ "finalized" \notin past
  BY Before DEF Inv, CreateKind
<1>5. k \in Ids /\ k > created
  <2>1. created \in NumBase..NumBase + MaxCreates
    BY <1>4, Types
  <2> QED BY <1>1, <1>3, <2>1, KindAssumption DEF Ids
<1>6. k \notin Live
  BY <1>4, <1>5 DEF SlotsOK, Live
<1>7. kinds'[k] = r /\ \A j \in Ids : j # k => kinds'[j] = kinds[j]
  BY <1>3, <1>4, <1>5, Written
<1>8. r.map = p /\ r.live
  BY <1>2
<1>9. Live' = Live \cup {k}
  BY <1>5, <1>7, <1>8 DEF Live
<1>10. \A j \in Live : j # k => kinds'[j].map = kinds[j].map
  BY <1>7 DEF Live
<1>11. RegistryOK /\ PoolOK => RegistryOK' /\ PoolOK'
  BY <1>1, <1>3, <1>5, <1>6, <1>7, <1>8, <1>9, <1>10, CreateMapStep
<1> QED BY <1>3, <1>4, <1>11 DEF ArenasOK

LEMMA DestroyKindArenas ==
  ASSUME Inv, ArenasOK, NEW t \in Threads, DestroyKind(t)
  PROVE  ArenasOK'
<1>1. PICK k \in Dynamic : /\ DestroyMap(k) /\ kinds' = [kinds EXCEPT ![k].live = FALSE]
                           /\ past' = past \cup (IF k = Max(Dynamic) THEN {} ELSE {"out of order"})
                                           \cup (IF kinds[k].dir THEN {} ELSE {"closed twice"})
  BY DEF DestroyKind
<1>2. /\ Typed /\ "finalized" \notin past /\ k \in Ids /\ k \in Live /\ k \notin Statics
  BY Before DEF Inv, DestroyKind, Dynamic, Live
<1>3. PICK m, r : m = kinds[k] /\ r = [m EXCEPT !.live = FALSE]
  OBVIOUS
<1>4. IsKind(m) /\ kinds' = [kinds EXCEPT ![k] = r]
  BY <1>1, <1>2, <1>3, KindTypes
<1>5. r.live = FALSE
  BY <1>3, <1>4, LiveWritten
<1>6. kinds'[k] = r /\ \A j \in Ids : j # k => kinds'[j] = kinds[j]
  BY <1>2, <1>4, Written
<1>7. Live' = Live \ {k}
  BY <1>5, <1>6 DEF Live
<1>8. \A j \in Live : j # k => kinds'[j].map = kinds[j].map
  BY <1>6 DEF Live
<1>9. RegistryOK /\ PoolOK => RegistryOK' /\ PoolOK'
  BY <1>1, <1>2, <1>7, <1>8, DestroyMapStep
<1>10. past \subseteq past' /\ "finalized" \notin past'
  BY <1>1, <1>2
<1> QED BY <1>2, <1>9, <1>10 DEF ArenasOK

LEMMA FinalizeArenas ==
  ASSUME Inv, Inv', ArenasOK, Finalize
  PROVE  ArenasOK'
<1> SUFFICES ASSUME past \cap {"clash", "half created"} = {} PROVE RegistryOK'
  <2>1. past' = past \cup {"finalized"}
    BY DEF Finalize, Happened
  <2> QED BY <2>1 DEF ArenasOK
<1>1. PICK arenas : arenas = UNION {ArenasOf(pmap[i]) : i \in Used}
  OBVIOUS
<1>2. /\ je' = [je EXCEPT !.alive = @ \ arenas]
      /\ registry' = [a \in Arenas |-> IF a \in arenas THEN NULL ELSE registry[a]]
      /\ pmap' = [i \in Slots |-> IF i < NumBase THEN pmap[i] ELSE NULL]
      /\ kinds' = [k \in Ids |->
                     [kinds[k] EXCEPT !.live = @ /\ (k \in Statics \/ \A i \in Used : pmap[i] # k),
                                      !.map = IF k \in Statics THEN NoMap ELSE @]]
      /\ past' = past \cup {"finalized"}
  BY <1>1 DEF Finalize, Unregister, Happened, Used
<1>3. RegistryOK
  BY DEF ArenasOK
<1>4. Live' = Statics
  <2>1. \A k \in Live' : \E i \in Slots : pmap'[i] = k
    BY <1>2 DEF Inv, NamesOK
  <2>2. \A k \in Live' : k \in Ids /\ k # NULL
    BY Sizes DEF Live
  <2>3. \A i \in Slots : i < NumBase => pmap'[i] \in Statics
    <3> TAKE i \in Slots
    <3>1. i < NumBase => pmap'[i] = i + 1
      BY DEF Inv, SlotsOK
    <3> QED BY <3>1, StaticSlots
  <2>4. \A i \in Slots : ~(i < NumBase) => pmap'[i] = NULL
    BY <1>2
  <2>5. \A k \in Statics : k \in Live'
    BY Sizes DEF Inv, SlotsOK, Live
  <2> QED BY <2>1, <2>2, <2>3, <2>4, <2>5
<1>5. \A k \in Statics : kinds'[k].map = NoMap
  <2> TAKE k \in Statics
  <2>1. k \in Ids
    BY Sizes
  <2>2. PICK m, b : m = kinds[k] /\ kinds'[k] = [m EXCEPT !.live = b, !.map = NoMap]
    BY <1>2, <2>1
  <2>3. IsKind(m)
    BY <2>1, <2>2, KindTypes DEF Inv
  <2>4. PICK q : q = kinds'[k]
    OBVIOUS
  <2>5. q = [m EXCEPT !.live = b, !.map = NoMap]
    BY <2>2, <2>4
  <2>6. q.map = NoMap
    BY <2>3, <2>5 DEF IsKind
  <2> QED BY <2>4, <2>6
<1>6. \A k \in Live' : MapOK(k)'
  <2> SUFFICES ASSUME NEW k \in Statics PROVE MapOK(k)'
    BY <1>4
  <2>1. kinds'[k].map = NoMap
    BY <1>5
  <2>2. ArenasOf(k)' = {}
    BY <2>1, Mapless DEF ArenasOf
  <2> QED BY <2>1, <2>2 DEF MapOK
<1>7. \A a \in Arenas : registry[a] # NULL => a \in arenas
  <2> SUFFICES ASSUME NEW a \in Arenas, registry[a] # NULL PROVE a \in arenas
    OBVIOUS
  <2>1. PICK j : j = registry[a]
    OBVIOUS
  <2>2. j \in Live /\ a \in ArenasOf(j) /\ j # NULL
    BY <1>3, <2>1 DEF RegistryOK
  <2>3. PICK i \in Used : pmap[i] = j
    BY <2>2 DEF Inv, NamesOK, Used
  <2> QED BY <1>1, <2>2, <2>3
<1>8. \A a \in Arenas : registry'[a] = NULL
  BY <1>2, <1>7
<1>9. registry' \in [Arenas -> 0..NumBase + MaxCreates]
  BY <1>2, <1>3, Sizes DEF RegistryOK
<1>10. PICK d, n, A : d = je.destroyed /\ n = je.narenas /\ A = je.alive
  OBVIOUS
<1>11. je = [narenas |-> n, alive |-> A, destroyed |-> d] /\ A = {a \in Arenas : registry[a] # NULL}
  BY <1>3, <1>10 DEF RegistryOK
<1>12. je' = [narenas |-> n, alive |-> A \ arenas, destroyed |-> d]
  BY <1>2, <1>11
<1>13. je'.alive = A \ arenas
       /\ je' = [narenas |-> je'.narenas, alive |-> je'.alive, destroyed |-> je'.destroyed]
  BY <1>12
<1>14. je'.alive = {a \in Arenas : registry'[a] # NULL}
  BY <1>7, <1>8, <1>11, <1>13
<1> QED BY <1>6, <1>8, <1>9, <1>13, <1>14 DEF RegistryOK

LEMMA ArenasStep == Inv /\ Inv' /\ ArenasOK /\ [Next]_vars => ArenasOK'
<1> SUFFICES ASSUME Inv, Inv', ArenasOK, [Next]_vars PROVE ArenasOK'
  OBVIOUS
<1>1. ASSUME UNCHANGED <<kinds, registry, je>>, past \subseteq past' PROVE ArenasOK'
  BY <1>1, ArenasKept DEF Live
<1>2. ASSUME NEW t \in Threads, \/ CreateTmpfile(t) \/ CreateRefused(t) \/ Close(t)
                            \/ RecreateFile(t) \/ RecreateFails(t)
      PROVE  ArenasOK'
  BY <1>1, <1>2 DEF CreateTmpfile, CreateRefused, Close, RecreateFile, RecreateFails, Happened
<1>3. ASSUME NEW t \in Threads, CreateFails(t) PROVE ArenasOK'
  BY <1>3 DEF CreateFails, Happened, ArenasOK
<1>4. ASSUME NEW t \in Threads, ReplaceFile(t) PROVE ArenasOK'
  <2>1. PICK k, g : k = pc[t].kind /\ g = pc[t].fd /\ kinds' = [kinds EXCEPT ![k].fd = g]
    BY <1>4 DEF ReplaceFile
  <2>2. k \in Ids /\ Typed /\ UNCHANGED <<registry, je, past>>
    BY <1>4, <2>1 DEF ReplaceFile, Inv, ReplaceOK, WithFile, Dynamic
  <2>3. PICK m, r : m = kinds[k] /\ r = [m EXCEPT !.fd = g]
    OBVIOUS
  <2>4. IsKind(m) /\ kinds' = [kinds EXCEPT ![k] = r]
    BY <2>1, <2>2, <2>3, KindTypes
  <2>5. r.live = m.live /\ r.map = m.map
    BY <2>3, <2>4, FdWritten
  <2>6. kinds'[k] = r /\ \A j \in Ids : j # k => kinds'[j] = kinds[j]
    BY <2>2, <2>4, Written
  <2>7. \A j \in Ids : kinds'[j].live = kinds[j].live /\ kinds'[j].map = kinds[j].map
    BY <2>3, <2>5, <2>6
  <2>8. Live' = Live /\ \A j \in Live : kinds'[j].map = kinds[j].map
    BY <2>7 DEF Live
  <2> QED BY <2>2, <2>8, ArenasKept
<1>5. CASE UNCHANGED vars
  BY <1>1, <1>5 DEF vars
<1> QED BY <1>2, <1>3, <1>4, <1>5, InitStaticArenas, CreateKindArenas, DestroyKindArenas,
           FinalizeArenas DEF Next

LEMMA InitArenas == Init => ArenasOK
<1> SUFFICES ASSUME Init PROVE RegistryOK /\ PoolOK
  BY DEF ArenasOK
<1>1. /\ kinds = [k \in Ids |-> [name |-> StaticName(k), partition |-> k - 1, fd |-> NULL,
                                 dir |-> FALSE, map |-> NoMap, live |-> k \in Statics]]
      /\ registry = [a \in Arenas |-> NULL]
      /\ je = [narenas |-> 0, alive |-> {}, destroyed |-> <<>>]
  BY DEF Init
<1>2. je.narenas = 0 /\ je.alive = {} /\ je.destroyed = <<>>
  BY <1>1
<1>3. PoolOK
  <2>1. Blocks({0}, << >>) /\ {0} \in SUBSET (0..Len(<< >>))
    BY DEF Blocks
  <2>2. Recycled(<< >>, 0, {})
    BY <2>1 DEF Recycled
  <2>3. 0 \in 0..MaxArenas
    BY ArenaAssumption
  <2> QED BY <1>2, <2>2, <2>3 DEF PoolOK
<1>4. \A k \in Live : MapOK(k)
  <2> SUFFICES ASSUME NEW k \in Live PROVE MapOK(k)
    OBVIOUS
  <2>1. k \in Ids /\ k \in Statics /\ kinds[k].map = NoMap
    BY <1>1 DEF Live
  <2>2. ArenasOf(k) = {}
    BY <2>1, Mapless DEF ArenasOf
  <2> QED BY <2>1, <2>2 DEF MapOK
<1>5. registry \in [Arenas -> 0..NumBase + MaxCreates] /\ \A a \in Arenas : registry[a] = NULL
  BY <1>1, Sizes
<1> QED BY <1>1, <1>2, <1>3, <1>4, <1>5 DEF RegistryOK

\* The arenas of a kind are consecutive and its own, none outlives its kind and
\* none is alive without one, however often indices are recycled - until a kind
\* is left half created or two have one name.
THEOREM ArenasAreOwned == Spec => []ArenasOwned
<1>1. Spec => []ArenasOK
  BY InitArenas, ArenasStep, Invariant, PTL DEF Spec
<1>2. Inv /\ ArenasOK => ArenasOwned
  <2> SUFFICES ASSUME RegistryOK
               PROVE  /\ ArenasConsecutive
                      /\ \A a \in Arenas : registry[a] # NULL => kinds[registry[a]].live
                      /\ je.alive = UNION {ArenasOf(k) : k \in Live}
    BY DEF ArenasOK, ArenasOwned
  <2>1. ArenasConsecutive
    BY DEF ArenasConsecutive, RegistryOK, MapOK
  <2>2. \A a \in Arenas : registry[a] # NULL => kinds[registry[a]].live
    BY DEF RegistryOK, Live
  <2>3. \A k \in Live : k # NULL
    BY Sizes DEF Live
  <2>4. \A a \in je.alive : \E k \in Live : a \in ArenasOf(k)
    BY DEF RegistryOK
  <2>5. \A k \in Live : \A a \in ArenasOf(k) : a \in je.alive
    BY <2>3 DEF RegistryOK, MapOK
  <2> QED BY <2>1, <2>2, <2>4, <2>5
<1> QED BY <1>1, <1>2, Invariant, PTL
=============================================================================
