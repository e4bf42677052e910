-------------------------- MODULE BufferManagerSteps --------------------------
(***************************************************************************)
(* The inductive invariant of BufferManager, and the steps of a thread     *)
(* that keep it without taking or giving up a page: reads, reservations,   *)
(* the eviction queue, and most of a rollback.  BufferManagerLocks and     *)
(* BufferManagerProofs have the others.                                    *)
(***************************************************************************)
EXTENDS BufferManager, TLAPS


-----------------------------------------------------------------------------
(* The inductive invariant.                                                *)

PageWord == [state : {"UNLOCKED", "LOCKED", "MARKED", "EVICTED"},
             version : Nat, dirty : {0, 1}]

loading == {"loop", "next", "scan", "try", "lock", "recheck", "clear"}
loaded == {"insert", "pinned", "unpin"}
readingPlaces == {"load", "func", "validate"}
Places == {"idle", "pin", "reload", "spin", "release", "purge", "sift", "drop"}
              \cup readingPlaces \cup loading \cup loaded

\* Pages, frames and files.
PageTypes ==
    /\ word \in [Pages -> PageWord]
    /\ frame \in [Pages -> Content] /\ file \in [Pages -> Nat] /\ latest \in [Pages -> Nat]
    /\ ops \in Nat

\* What threads know.
ThreadTypes ==
    /\ pc \in [Threads -> Places]
    /\ op \in [Threads -> {"read", "write", "alloc", "rollback", None}]
    /\ page \in [Threads -> Pages \cup {None}]
    /\ victim \in [Threads -> Pages \cup {None}]
    /\ seen \in [Threads -> PageWord]
    /\ got \in [Threads -> Seq(Content)]
    /\ evicted \subseteq Threads

\* The queue, and the slots that threads go through.
QueueTypes ==
    /\ queue \in [Slots -> Pages \cup {None}]
    /\ insertCursor \in Slots /\ evictionCursor \in Slots
    /\ batch \in [Threads -> Seq(Slots)]
    /\ cands \in [Threads -> Seq(Slots)]
    /\ \A t \in Threads :
        /\ pc[t] \in {"scan", "sift", "drop"} => batch[t] # <<>>
        /\ pc[t] \in {"lock", "recheck", "clear"} => cands[t] # <<>>

\* Which operation is where, that it has a page when it needs one, and that a
\* rollback waits for a word that is not locked.
PlaceInv ==
    \A t \in Threads :
        /\ pc[t] \in readingPlaces => op[t] = "read" /\ page[t] \in Pages
        /\ pc[t] \in {"pin"} \cup loaded => op[t] \in {"read", "write"} /\ page[t] \in Pages
        /\ pc[t] = "unpin" => op[t] = "write"
        /\ pc[t] \in loading => \/ op[t] = "alloc" /\ page[t] = None
                                \/ op[t] \in {"read", "write"} /\ page[t] \in Pages
        /\ pc[t] \in {"lock", "recheck", "clear"} => victim[t] \in Pages
        /\ pc[t] \in {"reload", "spin", "release"} => victim[t] \in Pages
        /\ pc[t] = "spin" => seen[t].state \in {"UNLOCKED", "MARKED"}

\* The page that an operation pins, and the one it is about to evict or to drop.
Pins(t, p) == pc[t] \in loading \cup loaded /\ op[t] # "alloc" /\ page[t] = p
Evicts(t, p) == pc[t] \in {"recheck", "release"} /\ victim[t] = p
Holds(t, p) == Pins(t, p) \/ Evicts(t, p)

\* A page that is held is locked, by one thread and for one purpose.
LockInv ==
    \A p \in Pages : \A t \in Threads :
        /\ Holds(t, p) => word[p].state = "LOCKED"
        /\ ~(Pins(t, p) /\ Evicts(t, p))
        /\ \A u \in Threads : u # t => ~(Holds(t, p) /\ Holds(u, p))

\* The frame has the contents, and the file has them unless the page is dirty.
Cached(p) == frame[p] = latest[p] /\ (word[p].dirty = 0 => file[p] = latest[p])

\* Where the contents of a page are.
DataInv ==
    \A p \in Pages :
        /\ word[p].dirty = 1 => frame[p] = latest[p]
        /\ word[p].state = "EVICTED" => word[p].dirty = 0 /\ file[p] = latest[p]
        /\ word[p].state \in {"UNLOCKED", "MARKED"} => Cached(p)
        /\ \A t \in Threads :
            /\ Evicts(t, p) => Cached(p)
            /\ Pins(t, p) /\ pc[t] \in loading => file[p] = latest[p]
            /\ Pins(t, p) /\ pc[t] \in loaded => Cached(p)

\* A thread reads the page and the page has been in its frame since.
Reads(t, p) == pc[t] \in {"func", "validate"} /\ page[t] = p /\ t \notin evicted

\* The page is in its frame, nobody reads it in, and its version only grows.
StaysCached(t, p) ==
    /\ seen[t].state = "UNLOCKED"
    /\ word[p].state # "EVICTED"
    /\ word[p].version >= seen[t].version
    /\ \A u \in Threads : ~(Pins(u, p) /\ pc[u] \in loading \cup {"insert"})

\* No operation left the page locked.
IsHeldIfLocked(p) == word[p].state = "LOCKED" => \E u \in Threads : Holds(u, p)

\* The thread that has changed the page and not unlocked it yet.
Changes(u, p) == Pins(u, p) /\ pc[u] = "unpin"

\* What was read are the contents, unless the version says otherwise or is
\* about to do so.
IsCurrent(t, p) ==
    \/ word[p].version > seen[t].version
    \/ \E u \in Threads : Changes(u, p)
    \/ \A i \in 1 .. Len(got[t]) : got[t][i] = latest[p]

ReadInv ==
    \A t \in Threads, p \in Pages :
        Reads(t, p) => StaysCached(t, p) /\ IsHeldIfLocked(p) /\ IsCurrent(t, p)

\* How far func has come.
FuncInv ==
    \A t \in Threads :
        /\ pc[t] = "func" => Len(got[t]) < 2
        /\ pc[t] = "validate" => Len(got[t]) = 2

Types == PageTypes /\ ThreadTypes /\ QueueTypes /\ PlaceInv
IInv == Types /\ LockInv /\ DataInv /\ ReadInv /\ FuncInv

-----------------------------------------------------------------------------
(* Lemmas about words of page states and about slots.                      *)

\* The operations on a page state word return a word.
LEMMA WordTypes ==
  ASSUME NEW w \in PageWord
  PROVE  /\ Evicted \in PageWord
         /\ \A s \in {"UNLOCKED", "LOCKED", "MARKED", "EVICTED"} : withState(w, s) \in PageWord
         /\ \A b \in {0, 1} : withDirty(w, b) \in PageWord
         /\ unlocked(w) \in PageWord
<1>1. Evicted \in PageWord
  BY Zenon DEF Evicted, PageWord
<1>2. ASSUME NEW s \in {"UNLOCKED", "LOCKED", "MARKED", "EVICTED"}
      PROVE  withState(w, s) \in PageWord
  BY Zenon DEF withState, PageWord
<1>3. ASSUME NEW b \in {0, 1}
      PROVE  withDirty(w, b) \in PageWord
  BY Zenon DEF withDirty, PageWord
<1>4. unlocked(w) \in PageWord
  <2>1. w.version + 1 \in Nat
    BY DEF PageWord
  <2> QED  BY Zenon, <2>1 DEF unlocked, PageWord
<1> QED  BY Zenon, <1>1, <1>2, <1>3, <1>4

\* What the operations on a page state word change and what they keep.
LEMMA WordFields ==
  ASSUME NEW w \in PageWord
  PROVE  /\ unlocked(w).state = "UNLOCKED"
         /\ unlocked(w).version = w.version + 1
         /\ unlocked(w).dirty = w.dirty
         /\ \A s : /\ withState(w, s).state = s
                   /\ withState(w, s).version = w.version
                   /\ withState(w, s).dirty = w.dirty
         /\ \A b : /\ withDirty(w, b).state = w.state
                   /\ withDirty(w, b).version = w.version
                   /\ withDirty(w, b).dirty = b
         /\ Evicted.state = "EVICTED" /\ Evicted.dirty = 0
<1>1. unlocked(w).state = "UNLOCKED" /\ unlocked(w).dirty = w.dirty
  BY Zenon DEF unlocked, PageWord
<1>2. unlocked(w).version = w.version + 1
  BY Zenon DEF unlocked, PageWord
<1>3. ASSUME NEW s
      PROVE  /\ withState(w, s).state = s
             /\ withState(w, s).version = w.version
             /\ withState(w, s).dirty = w.dirty
  BY Zenon DEF withState, PageWord
<1>4. Evicted.state = "EVICTED" /\ Evicted.dirty = 0
  BY Zenon DEF Evicted
<1>5. ASSUME NEW b
      PROVE  /\ withDirty(w, b).state = w.state
             /\ withDirty(w, b).version = w.version
             /\ withDirty(w, b).dirty = b
  BY Zenon DEF withDirty, PageWord
<1> QED  BY Zenon, <1>1, <1>2, <1>3, <1>4, <1>5

\* The queue has slots, and a cursor that moves on stays in it.
LEMMA SlotFacts ==
  /\ Capacity \in Nat \ {0}
  /\ 0 \in Slots
  /\ \A n \in Nat : n % Capacity \in Slots
<1>1. PoolSize % BatchSize \in 0 .. BatchSize - 1
  BY ConstantsAssumption
<1>2. Capacity \in Nat \ {0}
  BY <1>1, ConstantsAssumption DEF Capacity
<1>3. ASSUME NEW n \in Nat, NEW c \in Nat \ {0}
      PROVE  n % c \in 0 .. c - 1
  OBVIOUS
<1> QED  BY <1>2, <1>3 DEF Slots

\* A candidate is a slot, and what it holds is a page or nothing.
LEMMA CandidateFacts ==
  ASSUME QueueTypes, NEW t \in Threads, cands[t] # <<>>
  PROVE  /\ Head(cands[t]) \in Slots
         /\ Tail(cands[t]) \in Seq(Slots)
         /\ queue[Head(cands[t])] \in Pages \cup {None}
<1>1. cands[t] \in Seq(Slots) /\ cands[t] # <<>>
  BY Zenon DEF QueueTypes
<1>2. Head(cands[t]) \in Slots /\ Tail(cands[t]) \in Seq(Slots)
  BY <1>1
<1> QED  BY Zenon, <1>2 DEF QueueTypes

\* The next batch of the queue is a sequence of slots, and there is one.
LEMMA BatchFacts ==
  ASSUME QueueTypes, NEW t \in Threads, next(t)
  PROVE  /\ evictionCursor' \in Slots
         /\ batchAt(evictionCursor') \in Seq(Slots) /\ batchAt(evictionCursor') # <<>>
         /\ batch' = [batch EXCEPT ![t] = batchAt(evictionCursor')]
<1>1. evictionCursor + BatchSize \in Nat /\ evictionCursor' = (evictionCursor + BatchSize) % Capacity
  BY ConstantsAssumption DEF QueueTypes, Slots, next
<1>2. evictionCursor' \in Slots
  BY Zenon, <1>1, SlotFacts
<1>3. \A i \in 1 .. BatchSize : evictionCursor' + i - 1 \in Nat
  <2>1. evictionCursor' \in Nat
    BY <1>2, SlotFacts DEF Slots
  <2>2. BatchSize \in Nat
    BY Zenon, ConstantsAssumption
  <2>3. ASSUME NEW c \in Nat, NEW i \in 1 .. BatchSize
        PROVE  c + i - 1 \in Nat
    BY <2>2
  <2> QED  BY Zenon, <2>1, <2>3
<1>4. batchAt(evictionCursor') \in [1 .. BatchSize -> Slots]
  BY Zenon, <1>3, SlotFacts DEF batchAt
<1>5. BatchSize \in Nat /\ BatchSize # 0
  BY Zenon, ConstantsAssumption
<1>6. batchAt(evictionCursor') \in Seq(Slots) /\ Len(batchAt(evictionCursor')) = BatchSize
  BY <1>4, <1>5
<1>7. batchAt(evictionCursor') # <<>>
  BY <1>5, <1>6
<1> QED  BY Zenon, <1>2, <1>6, <1>7 DEF next

\* A thread that returns to its caller leaves its locals well typed.
LEMMA ReturnTypes ==
  ASSUME ThreadTypes, NEW t \in Threads, Return(t),
         victim' \in [Threads -> Pages \cup {None}]
  PROVE  ThreadTypes'
<1>1. Evicted \in PageWord /\ <<>> \in Seq(Content)
  BY DEF Evicted, PageWord
<1>2. "idle" \in Places
  BY Zenon DEF Places
<1> QED  BY Zenon, <1>1, <1>2 DEF ThreadTypes, Return, goto

-----------------------------------------------------------------------------
(* Each action preserves the invariant.  Many leave the pages alone and    *)
(* move a thread between places where it holds the same pages.             *)

\* Nobody holds a page who did not hold it before, at the same stage; whoever
\* reads a page read it before, and the page keeps its holders.
Quiet ==
    /\ UNCHANGED <<word, frame, file, latest>>
    /\ \A u \in Threads, p \in Pages :
        /\ Evicts(u, p)' => Evicts(u, p)
        /\ \A stage \in {loading, loading \cup {"insert"}, loaded} :
              (Pins(u, p) /\ pc[u] \in stage)' => Pins(u, p) /\ pc[u] \in stage
        /\ Reads(u, p)' => Reads(u, p) /\ seen'[u] = seen[u] /\ got'[u] = got[u]
    /\ \A r, u \in Threads, p \in Pages :
        Reads(r, p)' => (Holds(u, p) => Holds(u, p)') /\ (Changes(u, p) => Changes(u, p)')

\* A quiet step preserves what is known about locks, contents and readers.
LEMMA QuietStep ==
  ASSUME IInv, Quiet
  PROVE  LockInv' /\ DataInv' /\ ReadInv'
<1> USE DEF IInv, Types
<1>1. \A u \in Threads, p \in Pages :
        /\ Pins(u, p)' => Pins(u, p)
        /\ Holds(u, p)' => Holds(u, p)
        /\ (Pins(u, p) /\ pc[u] \in loading)' => Pins(u, p) /\ pc[u] \in loading
        /\ (Pins(u, p) /\ pc[u] \in loading \cup {"insert"})' =>
              Pins(u, p) /\ pc[u] \in loading \cup {"insert"}
        /\ (Pins(u, p) /\ pc[u] \in loaded)' => Pins(u, p) /\ pc[u] \in loaded
  BY DEF Quiet, Pins, Holds
<1>2. LockInv'
  BY Zenon, <1>1 DEF LockInv, Quiet
<1>3. DataInv'
  BY Zenon, <1>1 DEF DataInv, Quiet, Cached
<1>4. ReadInv'
  <2> SUFFICES ASSUME NEW r \in Threads, NEW p \in Pages, Reads(r, p)'
               PROVE  (StaysCached(r, p) /\ IsHeldIfLocked(p) /\ IsCurrent(r, p))'
    BY Zenon DEF ReadInv
  <2>1. StaysCached(r, p) /\ IsHeldIfLocked(p) /\ IsCurrent(r, p)
    BY Zenon DEF ReadInv, Quiet
  <2>2. StaysCached(r, p)'
    BY Zenon, <2>1, <1>1 DEF StaysCached, Quiet
  <2>3. IsHeldIfLocked(p)'
    BY Zenon, <2>1 DEF IsHeldIfLocked, Quiet
  <2>4. IsCurrent(r, p)'
    BY Zenon, <2>1 DEF IsCurrent, Quiet
  <2> QED  BY Zenon, <2>2, <2>3, <2>4
<1> QED  BY Zenon, <1>2, <1>3, <1>4

\* A write is seen by readers as a change until the unlock shows it.
LEMMA WritePageStep ==
  ASSUME IInv, NEW t \in Threads, WritePage(t)
  PROVE  IInv'
<1> USE DEF WritePage, goto, contents, slots, reading, reserving, evicting,
            IInv, Types, loading, loaded, readingPlaces, Places
<1>p. page[t] \in Pages
  BY Zenon DEF PlaceInv
<1>w. \A p \in Pages :
        /\ word'[p].state = word[p].state /\ word'[p].version = word[p].version
        /\ p = page[t] => word'[p].dirty = 1
        /\ p # page[t] => word'[p] = word[p]
  BY <1>p, WordFields DEF PageTypes
<1>1. PageTypes'
  BY Zenon, <1>p, WordTypes DEF PageTypes, Content
<1>2. ThreadTypes'
  BY Zenon DEF ThreadTypes
<1>3. QueueTypes'
  BY Zenon DEF QueueTypes, ThreadTypes
<1>4. PlaceInv'
  BY Zenon DEF PlaceInv, ThreadTypes
<1>5. LockInv'
  BY <1>w DEF LockInv, Holds, Pins, Evicts, ThreadTypes
<1>6. DataInv'
  BY <1>w DEF DataInv, Cached, LockInv, Holds, Pins, Evicts, ThreadTypes, PageTypes
<1>7. ReadInv'
  <2> SUFFICES ASSUME NEW r \in Threads, NEW p \in Pages, Reads(r, p)'
               PROVE  (StaysCached(r, p) /\ IsHeldIfLocked(p) /\ IsCurrent(r, p))'
    BY Zenon DEF ReadInv
  <2>1. Reads(r, p) /\ StaysCached(r, p) /\ IsHeldIfLocked(p) /\ IsCurrent(r, p)
    BY Zenon DEF ReadInv, Reads, ThreadTypes
  <2>2. StaysCached(r, p)'
    BY Zenon, <2>1, <1>w DEF StaysCached, Pins, ThreadTypes
  <2>3. IsHeldIfLocked(p)'
    BY Zenon, <2>1, <1>w DEF IsHeldIfLocked, Holds, Pins, Evicts, ThreadTypes
  <2>4. CASE p = page[t]
    <3>1. Changes(t, p)'
      BY Zenon, <2>4 DEF Changes, Pins, ThreadTypes
    <3> QED  BY Zenon, <2>2, <2>3, <3>1 DEF IsCurrent
  <2>5. CASE p # page[t]
    <3>1. IsCurrent(r, p)'
      BY Zenon, <2>1, <2>5, <1>w DEF IsCurrent, Changes, Pins, ThreadTypes, PageTypes
    <3> QED  BY Zenon, <2>2, <2>3, <3>1
  <2> QED  BY Zenon, <2>4, <2>5
<1>8. FuncInv'
  BY Zenon DEF FuncInv, ThreadTypes
<1> QED  BY Zenon, <1>1, <1>2, <1>3, <1>4, <1>5, <1>6, <1>7, <1>8

\* A read starts: nothing is read yet.
LEMMA StartReadStep ==
  ASSUME IInv, NEW t \in Threads, NEW q \in Pages, StartRead(t, q)
  PROVE  IInv'
<1> USE DEF StartRead, Start, goto, contents, slots, reading, reserving, evicting,
            IInv, Types, loading, loaded, readingPlaces, Places
<1>1. PageTypes'
  BY DEF PageTypes
<1>2. ThreadTypes'
  BY Zenon DEF ThreadTypes
<1>3. QueueTypes'
  BY Zenon DEF QueueTypes, ThreadTypes
<1>4. PlaceInv'
  BY Zenon DEF PlaceInv, ThreadTypes
<1>5. Quiet
  BY DEF Quiet, Reads, Holds, Changes, Pins, Evicts, ThreadTypes
<1>6. FuncInv'
  BY Zenon DEF FuncInv, ThreadTypes
<1> QED  BY Zenon, <1>1, <1>2, <1>3, <1>4, <1>5, <1>6, QuietStep

\* A write starts: nothing is held yet.
LEMMA StartWriteStep ==
  ASSUME IInv, NEW t \in Threads, NEW q \in Pages, StartWrite(t, q)
  PROVE  IInv'
<1> USE DEF StartWrite, Start, goto, contents, slots, reading, reserving, evicting,
            IInv, Types, loading, loaded, readingPlaces, Places
<1>1. PageTypes'
  BY DEF PageTypes
<1>2. ThreadTypes'
  BY Zenon DEF ThreadTypes
<1>3. QueueTypes'
  BY Zenon DEF QueueTypes, ThreadTypes
<1>4. PlaceInv'
  BY Zenon DEF PlaceInv, ThreadTypes
<1>5. Quiet
  BY DEF Quiet, Reads, Holds, Changes, Pins, Evicts, ThreadTypes
<1>6. FuncInv'
  BY Zenon DEF FuncInv, ThreadTypes
<1> QED  BY Zenon, <1>1, <1>2, <1>3, <1>4, <1>5, <1>6, QuietStep

\* An allocation starts: it pins no page.
LEMMA StartAllocStep ==
  ASSUME IInv, NEW t \in Threads, NEW n \in AllocSizes, StartAlloc(t, n)
  PROVE  IInv'
<1> USE DEF StartAlloc, Start, goto, contents, slots, reading, reserving, evicting,
            IInv, Types, loading, loaded, readingPlaces, Places
<1>1. PageTypes'
  BY DEF PageTypes
<1>2. ThreadTypes'
  BY Zenon DEF ThreadTypes
<1>3. QueueTypes'
  BY Zenon DEF QueueTypes, ThreadTypes
<1>4. PlaceInv'
  BY Zenon DEF PlaceInv, ThreadTypes
<1>5. Quiet
  BY DEF Quiet, Reads, Holds, Changes, Pins, Evicts, ThreadTypes
<1>6. FuncInv'
  BY Zenon DEF FuncInv, ThreadTypes
<1> QED  BY Zenon, <1>1, <1>2, <1>3, <1>4, <1>5, <1>6, QuietStep

\* Freeing a buffer touches no page.
LEMMA FreeBufferStep ==
  ASSUME IInv, NEW t \in Threads, FreeBuffer(t)
  PROVE  IInv'
<1> USE DEF FreeBuffer, contents, slots, reading, reserving, evicting,
            IInv, Types, loading, loaded, readingPlaces, Places
<1>1. PageTypes'
  BY Zenon DEF PageTypes
<1>2. ThreadTypes'
  BY Zenon DEF ThreadTypes
<1>3. QueueTypes'
  BY Zenon DEF QueueTypes, ThreadTypes
<1>4. PlaceInv'
  BY Zenon DEF PlaceInv, ThreadTypes
<1>5. Quiet
  BY DEF Quiet, Reads, Holds, Changes, Pins, Evicts, ThreadTypes
<1>6. FuncInv'
  BY Zenon DEF FuncInv, ThreadTypes
<1> QED  BY Zenon, <1>1, <1>2, <1>3, <1>4, <1>5, <1>6, QuietStep

\* Taking the next batch of candidates leaves the thread loading its page.
LEMMA NextBatchStep ==
  ASSUME IInv, NEW t \in Threads, NextBatch(t)
  PROVE  IInv'
<1> USE DEF NextBatch, next, goto, contents, slots, reading, reserving, evicting,
            IInv, Types, loading, loaded, readingPlaces, Places
<1>1. PageTypes'
  BY Zenon DEF PageTypes
<1>2. ThreadTypes'
  BY Zenon DEF ThreadTypes
<1>3. QueueTypes'
  BY Zenon, BatchFacts DEF QueueTypes, ThreadTypes
<1>4. PlaceInv'
  BY Zenon DEF PlaceInv, ThreadTypes
<1>5. Quiet
  BY DEF Quiet, Reads, Holds, Changes, Pins, Evicts, ThreadTypes
<1>6. FuncInv'
  BY Zenon DEF FuncInv, ThreadTypes
<1> QED  BY Zenon, <1>1, <1>2, <1>3, <1>4, <1>5, <1>6, QuietStep

\* Loading a candidate chooses a victim that is not locked yet.
LEMMA LoadCandidateStep ==
  ASSUME IInv, NEW t \in Threads, LoadCandidate(t)
  PROVE  IInv'
<1> USE DEF LoadCandidate, NextCandidate, goto, contents, slots, reading, reserving, evicting,
            IInv, Types, loading, loaded, readingPlaces, Places
<1>c. cands[t] # <<>> => /\ Head(cands[t]) \in Slots
                         /\ Tail(cands[t]) \in Seq(Slots)
                         /\ queue[Head(cands[t])] \in Pages \cup {None}
  BY Zenon, CandidateFacts
<1>1. PageTypes'
  BY Zenon DEF PageTypes
<1>2. ThreadTypes'
  BY Zenon, <1>c DEF ThreadTypes
<1>3. QueueTypes'
  <2>1. queue' \in [Slots -> Pages \cup {None}] /\ cands' \in [Threads -> Seq(Slots)]
    BY Zenon, <1>c DEF QueueTypes
  <2>2. ASSUME NEW u \in Threads
        PROVE  /\ pc'[u] \in {"scan", "sift", "drop"} => batch'[u] # <<>>
               /\ pc'[u] \in {"lock", "recheck", "clear"} => cands'[u] # <<>>
    <3>1. CASE u = t
      BY Zenon, <3>1 DEF QueueTypes, ThreadTypes
    <3>2. CASE u # t
      BY Zenon, <3>2 DEF QueueTypes, ThreadTypes
    <3> QED  BY Zenon, <3>1, <3>2
  <2> QED  BY Zenon, <2>1, <2>2 DEF QueueTypes
<1>4. PlaceInv'
  <2> SUFFICES ASSUME NEW u \in Threads
               PROVE  PlaceInv!(u)'
    BY Zenon DEF PlaceInv
  <2>1. CASE u = t
    BY Zenon, <2>1, <1>c DEF PlaceInv, ThreadTypes
  <2>2. CASE u # t
    BY Zenon, <2>2, <1>c DEF PlaceInv, ThreadTypes
  <2> QED  BY Zenon, <2>1, <2>2
<1>5. Quiet
  BY DEF Quiet, Reads, Holds, Changes, Pins, Evicts, ThreadTypes
<1>6. FuncInv'
  BY Zenon DEF FuncInv, ThreadTypes
<1> QED  BY Zenon, <1>1, <1>2, <1>3, <1>4, <1>5, <1>6, QuietStep

\* A read ends or starts over; either way it reads nothing.
LEMMA ValidateStep ==
  ASSUME IInv, NEW t \in Threads, Validate(t)
  PROVE  IInv'
<1> USE DEF Validate, goto, contents, slots, reading, reserving, evicting,
            IInv, Types, loading, loaded, readingPlaces, Places
<1>1. PageTypes'
  BY Zenon DEF PageTypes
<1>2. ThreadTypes'
  <2>1. CASE word[page[t]] = seen[t]
    BY Zenon, <2>1, ReturnTypes DEF ThreadTypes
  <2>2. CASE word[page[t]] # seen[t]
    BY Zenon, <2>2 DEF ThreadTypes
  <2> QED  BY Zenon, <2>1, <2>2
<1>3. QueueTypes'
  BY Zenon DEF QueueTypes, ThreadTypes, Return
<1>4. PlaceInv'
  BY DEF PlaceInv, ThreadTypes, Return
<1>5. Quiet
  BY DEF Quiet, Reads, Holds, Changes, Pins, Evicts, ThreadTypes, Return
<1>6. FuncInv'
  BY Zenon DEF FuncInv, ThreadTypes, Return
<1> QED  BY Zenon, <1>1, <1>2, <1>3, <1>4, <1>5, <1>6, QuietStep

\* A page in the queue is loaded as before.
LEMMA InsertCandidateStep ==
  ASSUME IInv, NEW t \in Threads, InsertCandidate(t)
  PROVE  IInv'
<1> USE DEF InsertCandidate, goto, contents, slots, reading, reserving, evicting,
            IInv, Types, loading, loaded, readingPlaces, Places
<1>i. insertCursor' \in Slots /\ page[t] \in Pages
  <2>1. insertCursor + 1 \in Nat
    BY DEF QueueTypes, Slots
  <2> QED  BY Zenon, <2>1, SlotFacts DEF PlaceInv
<1>1. PageTypes'
  BY Zenon DEF PageTypes
<1>2. ThreadTypes'
  BY Zenon DEF ThreadTypes
<1>3. QueueTypes'
  BY Zenon, <1>i DEF QueueTypes, ThreadTypes
<1>4. PlaceInv'
  BY Zenon DEF PlaceInv, ThreadTypes
<1>5. Quiet
  BY DEF Quiet, Reads, Holds, Changes, Pins, Evicts, ThreadTypes
<1>6. FuncInv'
  BY Zenon DEF FuncInv, ThreadTypes
<1> QED  BY Zenon, <1>1, <1>2, <1>3, <1>4, <1>5, <1>6, QuietStep

\* The page left locked by the full queue is one that nobody reads.
LEMMA QueueIsFullStep ==
  ASSUME IInv, NEW t \in Threads, QueueIsFull(t)
  PROVE  IInv'
<1> USE DEF QueueIsFull, goto, contents, slots, reading, reserving, evicting,
            IInv, Types, loading, loaded, readingPlaces, Places
<1>1. PageTypes'
  BY Zenon DEF PageTypes
<1>2. ThreadTypes'
  BY Zenon, ReturnTypes DEF ThreadTypes
<1>3. QueueTypes'
  BY Zenon DEF QueueTypes, ThreadTypes, Return
<1>4. PlaceInv'
  BY Zenon DEF PlaceInv, ThreadTypes, Return
<1>5. Quiet
  <2>1. \A r \in Threads, p \in Pages : Reads(r, p) => ~Pins(t, p)
    BY Zenon DEF ReadInv, StaysCached, ThreadTypes
  <2> QED  BY <2>1 DEF Quiet, Reads, Holds, Changes, Pins, Evicts, ThreadTypes, Return
<1>6. FuncInv'
  BY Zenon DEF FuncInv, ThreadTypes, Return
<1> QED  BY Zenon, <1>1, <1>2, <1>3, <1>4, <1>5, <1>6, QuietStep

\* Clearing a slot leaves the thread loading its page.
LEMMA ClearCandidateStep ==
  ASSUME IInv, NEW t \in Threads, ClearCandidate(t), queue[Head(cands[t])] # None
  PROVE  IInv'
<1> USE DEF ClearCandidate, NextCandidate, goto, contents, slots, reading, reserving, evicting,
            IInv, Types, loading, loaded, readingPlaces, Places
<1>c. cands[t] # <<>> => /\ Head(cands[t]) \in Slots
                         /\ Tail(cands[t]) \in Seq(Slots)
                         /\ queue[Head(cands[t])] \in Pages \cup {None}
  BY Zenon, CandidateFacts
<1>1. PageTypes'
  BY Zenon DEF PageTypes
<1>2. ThreadTypes'
  BY Zenon DEF ThreadTypes
<1>3. QueueTypes'
  <2>1. queue' \in [Slots -> Pages \cup {None}] /\ cands' \in [Threads -> Seq(Slots)]
    BY Zenon, <1>c DEF QueueTypes
  <2>2. ASSUME NEW u \in Threads
        PROVE  /\ pc'[u] \in {"scan", "sift", "drop"} => batch'[u] # <<>>
               /\ pc'[u] \in {"lock", "recheck", "clear"} => cands'[u] # <<>>
    <3>1. CASE u = t
      BY Zenon, <3>1 DEF QueueTypes, ThreadTypes
    <3>2. CASE u # t
      BY Zenon, <3>2 DEF QueueTypes, ThreadTypes
    <3> QED  BY Zenon, <3>1, <3>2
  <2> QED  BY Zenon, <2>1, <2>2 DEF QueueTypes
<1>4. PlaceInv'
  BY Zenon DEF PlaceInv, ThreadTypes
<1>5. Quiet
  BY DEF Quiet, Reads, Holds, Changes, Pins, Evicts, ThreadTypes
<1>6. FuncInv'
  BY Zenon DEF FuncInv, ThreadTypes
<1> QED  BY Zenon, <1>1, <1>2, <1>3, <1>4, <1>5, <1>6, QuietStep

\* The exception for an empty slot leaves a page locked that nobody reads.
LEMMA ClearCandidateThrowsStep ==
  ASSUME IInv, NEW t \in Threads, ClearCandidate(t), queue[Head(cands[t])] = None
  PROVE  IInv'
<1> USE DEF contents, slots, reading, reserving, evicting,
            IInv, Types, loading, loaded, readingPlaces, Places
<1>e. /\ pc[t] = "clear" /\ Return(t)
      /\ cands' = [cands EXCEPT ![t] = <<>>] /\ victim' = [victim EXCEPT ![t] = None]
      /\ UNCHANGED <<word, frame, file, latest, queue, insertCursor, evictionCursor, batch, ops>>
  BY Zenon DEF ClearCandidate
<1>1. PageTypes'
  BY Zenon, <1>e DEF PageTypes
<1>2. ThreadTypes'
  <2>1. victim' \in [Threads -> Pages \cup {None}]
    BY Zenon, <1>e DEF ThreadTypes
  <2> QED  BY Zenon, <1>e, <2>1, ReturnTypes
<1>3. QueueTypes'
  BY <1>e DEF QueueTypes, ThreadTypes, Return, goto
<1>4. PlaceInv'
  BY Zenon, <1>e DEF PlaceInv, ThreadTypes, Return, goto
<1>5. Quiet
  <2>1. \A r \in Threads, p \in Pages : Reads(r, p) => ~Pins(t, p)
    BY Zenon, <1>e DEF ReadInv, StaysCached, ThreadTypes
  <2> QED  BY <1>e, <2>1 DEF Quiet, Reads, Holds, Changes, Pins, Evicts, ThreadTypes, Return, goto
<1>6. FuncInv'
  BY Zenon, <1>e DEF FuncInv, ThreadTypes, Return, goto
<1> QED  BY Zenon, <1>1, <1>2, <1>3, <1>4, <1>5, <1>6, QuietStep

\* A victim that is no longer marked is skipped.
LEMMA LockVictimFailsStep ==
  ASSUME IInv, NEW t \in Threads, LockVictim(t), word[victim[t]].state # "MARKED"
  PROVE  IInv'
<1> USE DEF LockVictim, NextCandidate, goto, contents, slots, reading, reserving, evicting,
            IInv, Types, loading, loaded, readingPlaces, Places
<1>c. cands[t] # <<>> => /\ Head(cands[t]) \in Slots
                         /\ Tail(cands[t]) \in Seq(Slots)
                         /\ queue[Head(cands[t])] \in Pages \cup {None}
  BY Zenon, CandidateFacts
<1>1. PageTypes'
  BY Zenon DEF PageTypes
<1>2. ThreadTypes'
  BY Zenon DEF ThreadTypes
<1>3. QueueTypes'
  BY Zenon, <1>c DEF QueueTypes, ThreadTypes
<1>4. PlaceInv'
  BY Zenon DEF PlaceInv, ThreadTypes
<1>5. Quiet
  BY DEF Quiet, Reads, Holds, Changes, Pins, Evicts, ThreadTypes
<1>6. FuncInv'
  BY Zenon DEF FuncInv, ThreadTypes
<1> QED  BY Zenon, <1>1, <1>2, <1>3, <1>4, <1>5, <1>6, QuietStep

\* Back in reserve, which goes on.
LEMMA PagesEvictedStep ==
  ASSUME IInv, NEW t \in Threads, PagesEvicted(t),
         ~(freed[t] = 0 /\ needMoreMemory(t) /\ failed[t] = Retries)
  PROVE  IInv'
<1> USE DEF contents, slots, reading, reserving, evicting,
            IInv, Types, loading, loaded, readingPlaces, Places
<1>e. /\ pc[t] \in {"try", "next"} /\ pc' = [pc EXCEPT ![t] = "loop"]
      /\ UNCHANGED <<word, frame, file, latest, ops, op, page, victim, seen, got, evicted>>
      /\ UNCHANGED <<queue, insertCursor, evictionCursor, batch, cands>>
  BY Zenon DEF PagesEvicted, goto
<1>1. PageTypes'
  BY Zenon, <1>e DEF PageTypes
<1>2. ThreadTypes'
  BY Zenon, <1>e DEF ThreadTypes
<1>3. QueueTypes'
  BY Zenon, <1>e DEF QueueTypes, ThreadTypes
<1>4. PlaceInv'
  BY Zenon, <1>e DEF PlaceInv, ThreadTypes
<1>5. Quiet
  BY <1>e DEF Quiet, Reads, Holds, Changes, Pins, Evicts, ThreadTypes
<1>6. FuncInv'
  BY Zenon, <1>e DEF FuncInv, ThreadTypes
<1> QED  BY Zenon, <1>1, <1>2, <1>3, <1>4, <1>5, <1>6, QuietStep

\* An allocation that is done held no page.
LEMMA AllocReservedStep ==
  ASSUME IInv, NEW t \in Threads, Reserved(t), op[t] = "alloc"
  PROVE  IInv'
<1> USE DEF contents, slots, reading, reserving, evicting,
            IInv, Types, loading, loaded, readingPlaces, Places
<1>e. /\ pc[t] = "loop" /\ Return(t)
      /\ UNCHANGED <<word, frame, file, latest, ops, victim>>
      /\ UNCHANGED <<queue, insertCursor, evictionCursor, batch, cands>>
  BY Zenon DEF Reserved
<1>1. PageTypes'
  BY Zenon, <1>e DEF PageTypes
<1>2. ThreadTypes'
  BY Zenon, <1>e, ReturnTypes DEF ThreadTypes
<1>3. QueueTypes'
  BY Zenon, <1>e DEF QueueTypes, ThreadTypes, Return, goto
<1>4. PlaceInv'
  BY Zenon, <1>e DEF PlaceInv, ThreadTypes, Return, goto
<1>5. Quiet
  BY <1>e DEF Quiet, Reads, Holds, Changes, Pins, Evicts, ThreadTypes, Return, goto
<1>6. FuncInv'
  BY Zenon, <1>e DEF FuncInv, ThreadTypes, Return, goto
<1> QED  BY Zenon, <1>1, <1>2, <1>3, <1>4, <1>5, <1>6, QuietStep

\* A reader that finds the page evicted goes to pin it.
LEMMA LoadEvictedStep ==
  ASSUME IInv, NEW t \in Threads, OptimisticLoad(t), word[page[t]].state = "EVICTED"
  PROVE  IInv'
<1> USE DEF contents, slots, reading, reserving, evicting,
            IInv, Types, loading, loaded, readingPlaces, Places
<1>e. /\ pc[t] = "load" /\ pc' = [pc EXCEPT ![t] = "pin"]
      /\ UNCHANGED <<word, frame, file, latest, ops, op, page, victim, seen, got, evicted>>
      /\ UNCHANGED <<queue, insertCursor, evictionCursor, batch, cands>>
  BY Zenon DEF OptimisticLoad, goto
<1>1. PageTypes'
  BY Zenon, <1>e DEF PageTypes
<1>2. ThreadTypes'
  BY Zenon, <1>e DEF ThreadTypes
<1>3. QueueTypes'
  BY Zenon, <1>e DEF QueueTypes, ThreadTypes
<1>4. PlaceInv'
  BY Zenon, <1>e DEF PlaceInv, ThreadTypes
<1>5. Quiet
  BY <1>e DEF Quiet, Reads, Holds, Changes, Pins, Evicts, ThreadTypes
<1>6. FuncInv'
  BY Zenon, <1>e DEF FuncInv, ThreadTypes
<1> QED  BY Zenon, <1>1, <1>2, <1>3, <1>4, <1>5, <1>6, QuietStep

\* A reader takes the mark off the page and loads its word again.
LEMMA LoadMarkedStep ==
  ASSUME IInv, NEW t \in Threads, OptimisticLoad(t), word[page[t]].state = "MARKED"
  PROVE  IInv'
<1> USE DEF contents, slots, reading, reserving, evicting,
            IInv, Types, loading, loaded, readingPlaces, Places
<1>p. pc[t] = "load" /\ page[t] \in Pages
  BY Zenon DEF OptimisticLoad, PlaceInv
<1>e. /\ word' = [word EXCEPT ![page[t]] = withState(@, "UNLOCKED")]
      /\ UNCHANGED <<frame, file, latest, ops, pc, op, page, victim, seen, got, evicted>>
      /\ UNCHANGED <<queue, insertCursor, evictionCursor, batch, cands>>
  BY Zenon DEF OptimisticLoad
<1>w. \A p \in Pages :
        /\ word'[p].version = word[p].version /\ word'[p].dirty = word[p].dirty
        /\ p = page[t] => word[p].state = "MARKED" /\ word'[p].state = "UNLOCKED"
        /\ p # page[t] => word'[p] = word[p]
  BY <1>p, <1>e, WordFields DEF PageTypes
<1>1. PageTypes'
  BY Zenon, <1>e, <1>p, WordTypes DEF PageTypes
<1>2. ThreadTypes'
  BY Zenon, <1>e, <1>w DEF ThreadTypes
<1>3. QueueTypes'
  BY Zenon, <1>e, <1>w DEF QueueTypes, ThreadTypes
<1>4. PlaceInv'
  BY Zenon, <1>e, <1>w DEF PlaceInv, ThreadTypes
<1>5. LockInv'
  BY <1>e, <1>w DEF LockInv, Holds, Pins, Evicts, ThreadTypes
<1>6. DataInv'
  BY <1>e, <1>w DEF DataInv, Cached, LockInv, Holds, Pins, Evicts, ThreadTypes, PageTypes
<1>7. ReadInv'
  <2> SUFFICES ASSUME NEW r \in Threads, NEW p \in Pages, Reads(r, p)'
               PROVE  (StaysCached(r, p) /\ IsHeldIfLocked(p) /\ IsCurrent(r, p))'
    BY Zenon DEF ReadInv
  <2>1. Reads(r, p) /\ StaysCached(r, p) /\ IsHeldIfLocked(p) /\ IsCurrent(r, p)
    BY Zenon, <1>e, <1>w DEF ReadInv, Reads, ThreadTypes
  <2>2. StaysCached(r, p)'
    BY Zenon, <2>1, <1>e, <1>w DEF StaysCached, Pins, ThreadTypes, PageTypes
  <2>3. IsHeldIfLocked(p)'
    BY Zenon, <2>1, <1>e, <1>w DEF IsHeldIfLocked, Holds, Pins, Evicts, ThreadTypes
  <2>4. IsCurrent(r, p)'
    BY Zenon, <2>1, <1>e, <1>w DEF IsCurrent, Changes, Pins, ThreadTypes, PageTypes
  <2> QED  BY Zenon, <2>2, <2>3, <2>4
<1>8. FuncInv'
  BY Zenon, <1>e, <1>w DEF FuncInv, ThreadTypes
<1> QED  BY Zenon, <1>1, <1>2, <1>3, <1>4, <1>5, <1>6, <1>7, <1>8

\* A reader that finds the page unlocked has read nothing of it yet.
LEMMA LoadUnlockedStep ==
  ASSUME IInv, NEW t \in Threads, OptimisticLoad(t), word[page[t]].state = "UNLOCKED"
  PROVE  IInv'
<1> USE DEF contents, slots, reading, reserving, evicting,
            IInv, Types, loading, loaded, readingPlaces, Places
<1>p. page[t] \in Pages /\ word[page[t]] \in PageWord /\ <<>> \in Seq(Content)
  BY DEF OptimisticLoad, PlaceInv, PageTypes
<1>e. /\ pc[t] = "load" /\ word[page[t]].state = "UNLOCKED"
      /\ pc' = [pc EXCEPT ![t] = "func"]
      /\ seen' = [seen EXCEPT ![t] = word[page[t]]]
      /\ got' = [got EXCEPT ![t] = <<>>]
      /\ evicted' = evicted \ {t}
      /\ UNCHANGED <<word, frame, file, latest, ops, op, page, victim>>
      /\ UNCHANGED <<queue, insertCursor, evictionCursor, batch, cands>>
  BY Zenon DEF OptimisticLoad, goto
<1>1. PageTypes'
  BY Zenon, <1>e DEF PageTypes
<1>2. ThreadTypes'
  BY Zenon, <1>e, <1>p DEF ThreadTypes
<1>3. QueueTypes'
  BY Zenon, <1>e DEF QueueTypes, ThreadTypes
<1>4. PlaceInv'
  BY Zenon, <1>e DEF PlaceInv, ThreadTypes
<1>5. LockInv'
  BY <1>e DEF LockInv, Holds, Pins, Evicts, ThreadTypes
<1>6. DataInv'
  BY <1>e DEF DataInv, Cached, LockInv, Holds, Pins, Evicts, ThreadTypes, PageTypes
<1>7. ReadInv'
  <2> SUFFICES ASSUME NEW r \in Threads, NEW p \in Pages, Reads(r, p)'
               PROVE  (StaysCached(r, p) /\ IsHeldIfLocked(p) /\ IsCurrent(r, p))'
    BY Zenon DEF ReadInv
  <2>1. CASE r = t
    <3>1. p = page[t] /\ seen'[r] = word[p] /\ Len(got'[r]) = 0
      BY Zenon, <2>1, <1>e DEF Reads, ThreadTypes
    <3>2. \A u \in Threads : ~Holds(u, p)
      BY Zenon, <3>1, <1>e DEF LockInv
    <3>3. StaysCached(r, p)'
      BY <3>1, <3>2, <1>e DEF StaysCached, Holds, Pins, ThreadTypes, PageTypes, PageWord
    <3>4. IsHeldIfLocked(p)'
      BY Zenon, <3>1, <1>e DEF IsHeldIfLocked
    <3>5. IsCurrent(r, p)'
      BY <3>1 DEF IsCurrent
    <3> QED  BY Zenon, <3>3, <3>4, <3>5
  <2>2. CASE r # t
    <3>1. Reads(r, p) /\ StaysCached(r, p) /\ IsHeldIfLocked(p) /\ IsCurrent(r, p)
      BY Zenon, <2>2, <1>e DEF ReadInv, Reads, ThreadTypes
    <3>2. StaysCached(r, p)'
      BY Zenon, <3>1, <2>2, <1>e DEF StaysCached, Pins, ThreadTypes, PageTypes
    <3>3. IsHeldIfLocked(p)'
      BY Zenon, <3>1, <1>e DEF IsHeldIfLocked, Holds, Pins, Evicts, ThreadTypes
    <3>4. IsCurrent(r, p)'
      BY Zenon, <3>1, <2>2, <1>e DEF IsCurrent, Changes, Pins, ThreadTypes, PageTypes
    <3> QED  BY Zenon, <3>2, <3>3, <3>4
  <2> QED  BY Zenon, <2>1, <2>2
<1>8. FuncInv'
  BY <1>e DEF FuncInv, ThreadTypes
<1> QED  BY Zenon, <1>1, <1>2, <1>3, <1>4, <1>5, <1>6, <1>7, <1>8

\* A rollback starts: the page that it drops is not locked yet.
LEMMA StartRollbackStep ==
  ASSUME IInv, NEW t \in Threads, NEW q \in Pages, StartRollback(t, q)
  PROVE  IInv'
<1> USE DEF contents, slots, reading, reserving, evicting,
            IInv, Types, loading, loaded, readingPlaces, Places
<1>e. /\ pc[t] = "idle"
      /\ \/ pc' = [pc EXCEPT ![t] = "reload"] /\ victim' = [victim EXCEPT ![t] = q]
         \/ pc' = [pc EXCEPT ![t] = "purge"] /\ victim' = [victim EXCEPT ![t] = None]
      /\ op' = [op EXCEPT ![t] = "rollback"] /\ page' = [page EXCEPT ![t] = None]
      /\ ops' = ops + 1
      /\ UNCHANGED <<word, frame, file, latest, seen, got, evicted>>
      /\ UNCHANGED <<queue, insertCursor, evictionCursor, batch, cands>>
  BY Zenon DEF StartRollback, Start, goto
<1>1. PageTypes'
  BY <1>e DEF PageTypes
<1>2. ThreadTypes'
  BY Zenon, <1>e DEF ThreadTypes
<1>3. QueueTypes'
  BY Zenon, <1>e DEF QueueTypes, ThreadTypes
<1>4. PlaceInv'
  <2> SUFFICES ASSUME NEW u \in Threads
               PROVE  PlaceInv!(u)'
    BY Zenon DEF PlaceInv
  <2>1. CASE u = t
    BY Zenon, <2>1, <1>e DEF PlaceInv, ThreadTypes
  <2>2. CASE u # t
    BY Zenon, <2>2, <1>e DEF PlaceInv, ThreadTypes
  <2> QED  BY Zenon, <2>1, <2>2
<1>5. Quiet
  BY <1>e DEF Quiet, Reads, Holds, Changes, Pins, Evicts, ThreadTypes
<1>6. FuncInv'
  BY Zenon, <1>e DEF FuncInv, ThreadTypes
<1> QED  BY Zenon, <1>1, <1>2, <1>3, <1>4, <1>5, <1>6, QuietStep

\* A rollback loads the word of its page, which is not locked where no race is
\* allowed.
LEMMA LoadRemovedStep ==
  ASSUME IInv, Races = {}, NEW t \in Threads, LoadRemoved(t)
  PROVE  IInv'
<1> USE DEF contents, slots, reading, reserving, evicting,
            IInv, Types, loading, loaded, readingPlaces, Places
<1>e. /\ pc[t] = "reload" /\ pc' = [pc EXCEPT ![t] = "spin"]
      /\ word[victim[t]].state \in {"UNLOCKED", "MARKED"}
      /\ seen' = [seen EXCEPT ![t] = word[victim[t]]]
      /\ UNCHANGED <<word, frame, file, latest, ops, op, page, victim, got, evicted>>
      /\ UNCHANGED <<queue, insertCursor, evictionCursor, batch, cands>>
  BY Zenon DEF LoadRemoved, goto
<1>p. victim[t] \in Pages /\ word[victim[t]] \in PageWord
  BY Zenon, <1>e DEF PlaceInv, PageTypes
<1>1. PageTypes'
  BY Zenon, <1>e DEF PageTypes
<1>2. ThreadTypes'
  BY Zenon, <1>e, <1>p DEF ThreadTypes
<1>3. QueueTypes'
  BY Zenon, <1>e DEF QueueTypes, ThreadTypes
<1>4. PlaceInv'
  BY Zenon, <1>e, <1>p DEF PlaceInv, ThreadTypes
<1>5. Quiet
  BY <1>e DEF Quiet, Reads, Holds, Changes, Pins, Evicts, ThreadTypes
<1>6. FuncInv'
  BY Zenon, <1>e DEF FuncInv, ThreadTypes
<1> QED  BY Zenon, <1>1, <1>2, <1>3, <1>4, <1>5, <1>6, QuietStep

\* What the steps of a rollback that goes through the queue change of pages and
\* threads.
PurgesQueue(t) ==
    /\ pc[t] \in {"purge", "sift", "drop"}
    /\ pc' \in [Threads -> Places]
    /\ pc'[t] \in {"purge", "sift", "drop"}
    /\ \A u \in Threads : u # t => pc'[u] = pc[u]
    /\ UNCHANGED <<word, frame, file, latest, ops, op, page, victim, seen, got, evicted>>

\* Going through the queue, a rollback holds and reads nothing.
LEMMA PurgesQueueStep ==
  ASSUME IInv, NEW t \in Threads, PurgesQueue(t), QueueTypes'
  PROVE  IInv'
<1> USE DEF IInv, Types, loading, loaded, readingPlaces, PurgesQueue
<1>1. PageTypes'
  BY Zenon DEF PageTypes
<1>2. ThreadTypes'
  BY Zenon DEF ThreadTypes
<1>4. PlaceInv'
  BY Zenon DEF PlaceInv
<1>5. Quiet
  BY DEF Quiet, Reads, Holds, Changes, Pins, Evicts
<1>6. FuncInv'
  BY Zenon DEF FuncInv
<1> QED  BY Zenon, <1>1, <1>2, <1>4, <1>5, <1>6, QuietStep

\* A rollback takes the next batch of the queue.
LEMMA PurgeBatchStep ==
  ASSUME IInv, NEW t \in Threads, PurgeBatch(t)
  PROVE  IInv'
<1>1. PurgesQueue(t)
  BY Zenon DEF PurgeBatch, next, goto, PurgesQueue, contents, reading, IInv, Types, ThreadTypes,
               Places
<1>2. QueueTypes'
  BY Zenon, BatchFacts DEF PurgeBatch, next, goto, IInv, Types, QueueTypes, ThreadTypes
<1> QED  BY Zenon, <1>1, <1>2, PurgesQueueStep

\* A rollback that is done with a slot has a slot left or asks for the next batch.
LEMMA NextSlotTypes ==
  ASSUME IInv, NEW t \in Threads, pc[t] \in {"sift", "drop"}, NextSlot(t),
         queue' \in [Slots -> Pages \cup {None}],
         UNCHANGED <<insertCursor, evictionCursor, cands>>
  PROVE  /\ QueueTypes'
         /\ pc' \in [Threads -> Places] /\ pc'[t] \in {"purge", "sift"}
         /\ \A u \in Threads : u # t => pc'[u] = pc[u]
<1> USE DEF IInv, Types, NextSlot, goto
<1>1. batch[t] \in Seq(Slots) /\ batch[t] # <<>>
  BY Zenon DEF QueueTypes
<1>2. Tail(batch[t]) \in Seq(Slots) /\ (Len(batch[t]) # 1 => Tail(batch[t]) # <<>>)
  <2>1. /\ Len(batch[t]) \in Nat \ {0} /\ Tail(batch[t]) \in Seq(Slots)
        /\ Len(Tail(batch[t])) = Len(batch[t]) - 1
    BY <1>1
  <2>2. Len(<<>>) = 0
    OBVIOUS
  <2>3. Len(batch[t]) # 1 => Len(Tail(batch[t])) # 0
    BY <2>1
  <2> QED  BY Zenon, <2>1, <2>2, <2>3
<1>3. /\ pc' \in [Threads -> Places] /\ pc'[t] \in {"purge", "sift"}
      /\ pc'[t] = "sift" => Len(batch[t]) # 1
      /\ \A u \in Threads : u # t => pc'[u] = pc[u]
  BY Zenon DEF ThreadTypes, Places
<1>4. batch' \in [Threads -> Seq(Slots)] /\ batch'[t] = Tail(batch[t])
      /\ \A u \in Threads : u # t => batch'[u] = batch[u]
  BY Zenon, <1>2 DEF QueueTypes
<1> QED  BY Zenon, <1>2, <1>3, <1>4 DEF QueueTypes

\* A rollback looks at the page of a slot.
LEMMA SiftSlotStep ==
  ASSUME IInv, NEW t \in Threads, SiftSlot(t)
  PROVE  IInv'
<1>e. /\ pc[t] = "sift"
      /\ NextSlot(t) \/ (goto(t, "drop") /\ UNCHANGED batch)
      /\ UNCHANGED <<word, frame, file, latest, ops, op, page, victim, seen, got, evicted>>
      /\ UNCHANGED <<queue, insertCursor, evictionCursor, cands>>
  BY Zenon DEF SiftSlot, contents, slots, reading
<1>1. CASE NextSlot(t)
  <2>1. queue' \in [Slots -> Pages \cup {None}]
    BY Zenon, <1>e DEF IInv, Types, QueueTypes
  <2> QED  BY Zenon, <1>e, <1>1, <2>1, NextSlotTypes, PurgesQueueStep DEF PurgesQueue
<1>2. CASE goto(t, "drop") /\ UNCHANGED batch
  <2>1. QueueTypes'
    BY Zenon, <1>e, <1>2 DEF IInv, Types, QueueTypes, ThreadTypes, goto
  <2>2. PurgesQueue(t)
    BY Zenon, <1>e, <1>2 DEF IInv, Types, ThreadTypes, goto, PurgesQueue, Places
  <2> QED  BY Zenon, <2>1, <2>2, PurgesQueueStep
<1> QED  BY Zenon, <1>e, <1>1, <1>2

\* A rollback clears a slot.
LEMMA DropCandidateStep ==
  ASSUME IInv, NEW t \in Threads, DropCandidate(t), queue[Head(batch[t])] # None
  PROVE  IInv'
<1>e. /\ pc[t] = "drop" /\ NextSlot(t)
      /\ queue' = [queue EXCEPT ![Head(batch[t])] = None]
      /\ UNCHANGED <<word, frame, file, latest, ops, op, page, victim, seen, got, evicted>>
      /\ UNCHANGED <<insertCursor, evictionCursor, cands>>
  BY Zenon DEF DropCandidate, contents, reading
<1>1. queue' \in [Slots -> Pages \cup {None}]
  BY Zenon, <1>e DEF IInv, Types, QueueTypes
<1> QED  BY Zenon, <1>e, <1>1, NextSlotTypes, PurgesQueueStep DEF PurgesQueue

\* A rollback that is over, or throws at an empty slot, holds and reads nothing.
LEMMA RollbackEndsStep ==
  ASSUME IInv, NEW t \in Threads,
         Purged(t) \/ (DropCandidate(t) /\ queue[Head(batch[t])] = None)
  PROVE  IInv'
<1> USE DEF contents, slots, reading, reserving, evicting,
            IInv, Types, loading, loaded, readingPlaces
<1>e. /\ pc[t] \in {"purge", "drop"} /\ Return(t)
      /\ UNCHANGED batch \/ batch' = [batch EXCEPT ![t] = <<>>]
      /\ UNCHANGED <<word, frame, file, latest, queue, insertCursor, evictionCursor, cands,
                     victim, ops>>
  BY Zenon DEF Purged, DropCandidate
<1>1. PageTypes'
  BY Zenon, <1>e DEF PageTypes
<1>2. ThreadTypes'
  BY Zenon, <1>e, ReturnTypes DEF ThreadTypes
<1>3. QueueTypes'
  <2>1. <<>> \in Seq(Slots)
    OBVIOUS
  <2>2. batch' \in [Threads -> Seq(Slots)] /\ \A u \in Threads : u # t => batch'[u] = batch[u]
    BY Zenon, <1>e, <2>1 DEF QueueTypes
  <2>3. pc'[t] = "idle" /\ \A u \in Threads : u # t => pc'[u] = pc[u]
    BY Zenon, <1>e DEF ThreadTypes, Return, goto
  <2> QED  BY Zenon, <1>e, <2>2, <2>3 DEF QueueTypes
<1>4. PlaceInv'
  BY Zenon, <1>e DEF PlaceInv, ThreadTypes, Return, goto
<1>5. Quiet
  BY <1>e DEF Quiet, Reads, Holds, Changes, Pins, Evicts, ThreadTypes, Return, goto
<1>6. FuncInv'
  BY Zenon, <1>e DEF FuncInv, ThreadTypes, Return, goto
<1> QED  BY Zenon, <1>1, <1>2, <1>3, <1>4, <1>5, <1>6, QuietStep

===============================================================================
