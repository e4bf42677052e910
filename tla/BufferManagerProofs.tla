------------------------ MODULE BufferManagerProofs ------------------------
(***************************************************************************)
(* Proofs about BufferManager for any number of threads, pages and         *)
(* operations and any sizes of the pool and of the batches: frames belong  *)
(* to one thread, no write is lost, and optimistic reads are consistent,   *)
(* as long as no rollback loads the word of a page that it drops while the *)
(* page is locked or evicted (Races = {}).                                 *)
(***************************************************************************)
EXTENDS BufferManagerLocks

-----------------------------------------------------------------------------
(* Steps that evict a page, give it up or run alone.                       *)

\* A thread locks the page that it evicts or drops, which nobody held.
LEMMA TakesVictimStep ==
  ASSUME IInv, NEW t \in Threads, NEW place \in {"recheck", "release"},
         pc[t] = IF place = "recheck" THEN "lock" ELSE "spin",
         word[victim[t]].state \in {"UNLOCKED", "MARKED"},
         word' = [word EXCEPT ![victim[t]] = withState(@, "LOCKED")],
         pc' = [pc EXCEPT ![t] = place],
         UNCHANGED <<frame, file, latest, ops, op, page, victim, seen, got, evicted>>,
         UNCHANGED <<queue, insertCursor, evictionCursor, batch, cands>>
  PROVE  IInv'
<1> USE DEF IInv, Types, loading, loaded, readingPlaces, Places
<1>e. /\ pc[t] \in {"lock", "spin"} /\ (place = "recheck" => pc[t] = "lock")
      /\ word[victim[t]].state \in {"UNLOCKED", "MARKED"}
      /\ word' = [word EXCEPT ![victim[t]] = withState(@, "LOCKED")]
      /\ pc' = [pc EXCEPT ![t] = place]
      /\ UNCHANGED <<frame, file, latest, ops, op, page, victim, seen, got, evicted>>
      /\ UNCHANGED <<queue, insertCursor, evictionCursor, batch, cands>>
  BY Zenon
<1>q. PICK q \in Pages : q = victim[t]
  BY Zenon, <1>e DEF PlaceInv
<1>w. \A p \in Pages :
        /\ word'[p].version = word[p].version /\ word'[p].dirty = word[p].dirty
        /\ p = q => word'[p].state = "LOCKED"
        /\ p # q => word'[p] = word[p]
  BY <1>e, <1>q, WordFields DEF PageTypes
<1>h. \A u \in Threads, p \in Pages :
        /\ Pins(u, p)' <=> Pins(u, p)
        /\ Evicts(u, p)' <=> (Evicts(u, p) \/ (u = t /\ p = q))
        /\ Pins(u, p)' => (pc'[u] \in loading <=> pc[u] \in loading)
        /\ \A stage \in loaded : pc'[u] = stage <=> pc[u] = stage
        /\ ~Evicts(t, p)
  BY Zenon, <1>e, <1>q DEF Pins, Evicts, ThreadTypes
<1>o. /\ Cached(q)
      /\ \A u \in Threads : ~Pins(u, q) /\ ~Evicts(u, q)
  BY Zenon, <1>e, <1>q DEF LockInv, Holds, DataInv
<1>1. PageTypes'
  <2>1. withState(word[q], "LOCKED") \in PageWord
    BY Zenon, <1>q, WordTypes DEF PageTypes
  <2> QED  BY Zenon, <1>e, <1>q, <2>1 DEF PageTypes
<1>2. ThreadTypes'
  BY Zenon, <1>e DEF ThreadTypes
<1>3. QueueTypes'
  BY Zenon, <1>e DEF QueueTypes, ThreadTypes
<1>4. PlaceInv'
  BY Zenon, <1>e DEF PlaceInv, ThreadTypes
<1>5. LockInv'
  BY <1>w, <1>h, <1>q, <1>o DEF LockInv, Holds
<1>6. DataInv'
  <2>1. Cached(q)'
    BY Zenon, <1>e, <1>q, <1>w, <1>o DEF Cached, PageTypes
  <2>2. \A p \in Pages : p # q => (Cached(p)' <=> Cached(p))
    BY Zenon, <1>e, <1>q, <1>w DEF Cached, PageTypes
  <2> QED  BY <1>e, <1>q, <1>w, <1>h, <1>o, <2>1, <2>2 DEF DataInv, Pins
<1>7. ReadInv'
  <2> SUFFICES ASSUME NEW r \in Threads, NEW p \in Pages, Reads(r, p)'
               PROVE  (StaysCached(r, p) /\ IsHeldIfLocked(p) /\ IsCurrent(r, p))'
    BY Zenon DEF ReadInv
  <2>1. /\ Reads(r, p) /\ seen'[r] = seen[r] /\ got'[r] = got[r]
        /\ StaysCached(r, p) /\ IsHeldIfLocked(p) /\ IsCurrent(r, p)
    BY Zenon, <1>e DEF ReadInv, Reads, ThreadTypes
  <2>3. StaysCached(r, p)'
    BY Zenon, <2>1, <1>q, <1>w, <1>h DEF StaysCached, PageTypes
  <2>4. IsHeldIfLocked(p)'
    BY Zenon, <2>1, <1>q, <1>w, <1>h, <1>o DEF IsHeldIfLocked, Holds
  <2>5. IsCurrent(r, p)'
    BY <2>1, <1>q, <1>e, <1>w, <1>h DEF IsCurrent, Changes
  <2> QED  BY Zenon, <2>3, <2>4, <2>5
<1>8. FuncInv'
  BY Zenon, <1>e DEF FuncInv, ThreadTypes
<1> QED  BY Zenon, <1>1, <1>2, <1>3, <1>4, <1>5, <1>6, <1>7, <1>8

\* An evicting thread locks its victim.
LEMMA LockVictimStep ==
  ASSUME IInv, NEW t \in Threads, LockVictim(t), word[victim[t]].state = "MARKED"
  PROVE  IInv'
<1>1. /\ pc[t] = "lock"
      /\ word' = [word EXCEPT ![victim[t]] = withState(@, "LOCKED")]
      /\ pc' = [pc EXCEPT ![t] = "recheck"]
      /\ UNCHANGED <<frame, file, latest, ops, op, page, victim, seen, got, evicted>>
      /\ UNCHANGED <<queue, insertCursor, evictionCursor, batch, cands>>
  BY Zenon DEF LockVictim, goto, contents, slots, reading
<1> QED  BY Zenon, <1>1, TakesVictimStep

\* A rollback locks the page that it drops: the word is the one it has loaded,
\* which was not locked.
LEMMA spinLockStep ==
  ASSUME IInv, NEW t \in Threads, spinLock(t)
  PROVE  IInv'
<1>1. /\ pc[t] = "spin"
      /\ word' = [word EXCEPT ![victim[t]] = withState(@, "LOCKED")]
      /\ pc' = [pc EXCEPT ![t] = "release"]
      /\ UNCHANGED <<frame, file, latest, ops, op, page, victim, seen, got, evicted>>
      /\ UNCHANGED <<queue, insertCursor, evictionCursor, batch, cands>>
  BY Zenon DEF spinLock, goto, contents, slots, reading, evicting
<1>2. word[victim[t]].state \in {"UNLOCKED", "MARKED"}
  BY Zenon, <1>1 DEF spinLock, IInv, Types, PlaceInv
<1> QED  BY Zenon, <1>1, <1>2, TakesVictimStep

\* A victim whose slot changed is unlocked as it was.
LEMMA UnlockVictimStep ==
  ASSUME IInv, NEW t \in Threads, EvictVictim(t), queue[Head(cands[t])] # victim[t]
  PROVE  IInv'
<1> USE DEF contents, slots, reading, reserving, evicting,
            IInv, Types, loading, loaded, readingPlaces, Places
<1>e. /\ pc[t] = "recheck"
      /\ word' = [word EXCEPT ![victim[t]] = withState(@, "UNLOCKED")]
      /\ pc' = [pc EXCEPT ![t] = "try"]
      /\ cands' = [cands EXCEPT ![t] = Tail(@)] /\ victim' = [victim EXCEPT ![t] = None]
      /\ UNCHANGED <<frame, file, latest, ops, op, page, seen, got, evicted>>
      /\ UNCHANGED <<queue, insertCursor, evictionCursor, batch>>
  BY Zenon DEF EvictVictim, NextCandidate, goto
<1>c. cands[t] # <<>> => /\ Head(cands[t]) \in Slots
                         /\ Tail(cands[t]) \in Seq(Slots)
                         /\ queue[Head(cands[t])] \in Pages \cup {None}
  BY Zenon, CandidateFacts
<1>q. PICK q \in Pages : q = victim[t]
  BY Zenon, <1>e DEF PlaceInv
<1>w. \A p \in Pages :
        /\ word'[p].version = word[p].version /\ word'[p].dirty = word[p].dirty
        /\ p = q => word'[p].state = "UNLOCKED"
        /\ p # q => word'[p] = word[p]
  BY <1>e, <1>q, WordFields DEF PageTypes
<1>h. \A u \in Threads, p \in Pages :
        /\ Pins(u, p)' <=> Pins(u, p)
        /\ Evicts(u, p)' <=> (Evicts(u, p) /\ u # t)
        /\ pc'[u] = IF u = t THEN "try" ELSE pc[u]
        /\ pc[t] = "recheck" /\ (Evicts(t, p) => p = q)
  BY Zenon, <1>e, <1>q DEF Pins, Evicts, ThreadTypes
<1>o. /\ Cached(q) /\ \A u \in Threads : ~Pins(u, q) /\ (Evicts(u, q) => u = t)
  <2>1. Evicts(t, q)
    BY Zenon, <1>e, <1>q DEF Evicts
  <2> QED  BY Zenon, <2>1 DEF LockInv, Holds, DataInv
<1>1. PageTypes'
  BY Zenon, <1>e, <1>q, WordTypes DEF PageTypes
<1>2. ThreadTypes'
  BY Zenon, <1>e DEF ThreadTypes
<1>3. QueueTypes'
  BY Zenon, <1>e, <1>c DEF QueueTypes, ThreadTypes
<1>4. PlaceInv'
  BY Zenon, <1>e DEF PlaceInv, ThreadTypes
<1>5. LockInv'
  BY <1>w, <1>h, <1>q, <1>o DEF LockInv, Holds
<1>6. DataInv'
  <2>1. Cached(q)'
    BY Zenon, <1>e, <1>q, <1>w, <1>o DEF Cached, PageTypes
  <2>2. \A p \in Pages : p # q => (Cached(p)' <=> Cached(p))
    BY Zenon, <1>e, <1>q, <1>w DEF Cached, PageTypes
  <2> QED  BY <1>e, <1>q, <1>w, <1>h, <1>o, <2>1, <2>2 DEF DataInv, Pins
<1>7. ReadInv'
  <2> SUFFICES ASSUME NEW r \in Threads, NEW p \in Pages, Reads(r, p)'
               PROVE  (StaysCached(r, p) /\ IsHeldIfLocked(p) /\ IsCurrent(r, p))'
    BY Zenon DEF ReadInv
  <2>1. /\ Reads(r, p) /\ seen'[r] = seen[r] /\ got'[r] = got[r]
        /\ StaysCached(r, p) /\ IsHeldIfLocked(p) /\ IsCurrent(r, p)
    BY Zenon, <1>e DEF ReadInv, Reads, ThreadTypes
  <2>3. StaysCached(r, p)'
    BY Zenon, <2>1, <1>q, <1>w, <1>h DEF StaysCached, PageTypes
  <2>4. IsHeldIfLocked(p)'
    BY Zenon, <2>1, <1>q, <1>w, <1>h, <1>o DEF IsHeldIfLocked, Holds
  <2>5. IsCurrent(r, p)'
    BY Zenon, <2>1, <1>q, <1>e, <1>w, <1>h DEF IsCurrent, Changes
  <2> QED  BY Zenon, <2>3, <2>4, <2>5
<1>8. FuncInv'
  BY Zenon, <1>e DEF FuncInv, ThreadTypes
<1> QED  BY Zenon, <1>1, <1>2, <1>3, <1>4, <1>5, <1>6, <1>7, <1>8

\* The victim is flushed and leaves its frame; its readers are marked.
LEMMA EvictVictimStep ==
  ASSUME IInv, NEW t \in Threads, EvictVictim(t), queue[Head(cands[t])] = victim[t]
  PROVE  IInv'
<1> USE DEF contents, slots, reading, reserving, evicting,
            IInv, Types, loading, loaded, readingPlaces, Places
<1>e. /\ pc[t] = "recheck"
      /\ file' = [file EXCEPT ![victim[t]] = flushed(victim[t])]
      /\ frame' = [frame EXCEPT ![victim[t]] = None]
      /\ word' = [word EXCEPT ![victim[t]] = Evicted]
      /\ evicted' = evicted \cup {u \in Threads : page[u] = victim[t]}
      /\ pc' = [pc EXCEPT ![t] = "clear"]
      /\ UNCHANGED <<latest, ops, op, page, victim, seen, got>>
      /\ UNCHANGED <<queue, insertCursor, evictionCursor, batch, cands>>
  BY Zenon DEF EvictVictim, goto
<1>q. PICK q \in Pages : q = victim[t]
  BY Zenon, <1>e DEF PlaceInv
<1>w. \A p \in Pages :
        /\ p = q => word'[p].state = "EVICTED" /\ word'[p].dirty = 0
        /\ p # q => word'[p] = word[p]
  BY Zenon, <1>e, <1>q, WordFields DEF PageTypes
<1>h. \A u \in Threads, p \in Pages :
        /\ Pins(u, p)' <=> Pins(u, p)
        /\ Evicts(u, p)' <=> (Evicts(u, p) /\ u # t)
        /\ pc'[u] = IF u = t THEN "clear" ELSE pc[u]
        /\ pc[t] = "recheck" /\ (Evicts(t, p) => p = q)
  BY Zenon, <1>e, <1>q DEF Pins, Evicts, ThreadTypes
<1>o. /\ flushed(q) = latest[q] /\ latest[q] \in Nat
      /\ \A u \in Threads : ~Pins(u, q) /\ (Evicts(u, q) => u = t)
  <2>1. Evicts(t, q)
    BY Zenon, <1>e, <1>q DEF Evicts
  <2>2. flushed(q) = latest[q] /\ latest[q] \in Nat
    BY Zenon, <2>1 DEF DataInv, Cached, flushed, PageTypes, PageWord
  <2> QED  BY Zenon, <2>1, <2>2 DEF LockInv, Holds
<1>1. PageTypes'
  BY Zenon, <1>e, <1>q, <1>o, WordTypes DEF PageTypes, Content
<1>2. ThreadTypes'
  BY Zenon, <1>e DEF ThreadTypes
<1>3. QueueTypes'
  BY Zenon, <1>e DEF QueueTypes, ThreadTypes
<1>4. PlaceInv'
  BY Zenon, <1>e DEF PlaceInv, ThreadTypes
<1>5. LockInv'
  BY <1>w, <1>h, <1>q, <1>o DEF LockInv, Holds
<1>6. DataInv'
  <2>1. \A p \in Pages : p # q => (Cached(p)' <=> Cached(p))
    BY Zenon, <1>e, <1>q, <1>w DEF Cached, PageTypes
  <2>2. file'[q] = latest'[q]
    BY Zenon, <1>e, <1>q, <1>o DEF PageTypes
  <2> QED  BY <1>e, <1>q, <1>w, <1>h, <1>o, <2>1, <2>2 DEF DataInv, Pins, PageTypes
<1>7. ReadInv'
  <2> SUFFICES ASSUME NEW r \in Threads, NEW p \in Pages, Reads(r, p)'
               PROVE  (StaysCached(r, p) /\ IsHeldIfLocked(p) /\ IsCurrent(r, p))'
    BY Zenon DEF ReadInv
  <2>1. Reads(r, p) /\ StaysCached(r, p) /\ IsHeldIfLocked(p) /\ IsCurrent(r, p) /\ p # q
    BY Zenon, <1>e, <1>q DEF ReadInv, Reads, ThreadTypes
  <2>3. StaysCached(r, p)'
    BY <2>1, <1>e, <1>q, <1>w, <1>h DEF StaysCached
  <2>4. IsHeldIfLocked(p)'
    BY Zenon, <2>1, <1>q, <1>w, <1>h DEF IsHeldIfLocked, Holds
  <2>5. IsCurrent(r, p)'
    BY Zenon, <2>1, <1>e, <1>q, <1>w, <1>h DEF IsCurrent, Changes
  <2> QED  BY Zenon, <2>3, <2>4, <2>5
<1>8. FuncInv'
  BY Zenon, <1>e DEF FuncInv, ThreadTypes
<1> QED  BY Zenon, <1>1, <1>2, <1>3, <1>4, <1>5, <1>6, <1>7, <1>8

\* The page of a rollback leaves its frame; the file has what is left of it.
LEMMA ReleaseRemovedStep ==
  ASSUME IInv, NEW t \in Threads, ReleaseRemoved(t)
  PROVE  IInv'
<1> USE DEF contents, slots, reading, reserving, evicting,
            IInv, Types, loading, loaded, readingPlaces, Places
<1>e. /\ pc[t] = "release"
      /\ latest' = [latest EXCEPT ![victim[t]] = file[victim[t]]]
      /\ frame' = [frame EXCEPT ![victim[t]] = None]
      /\ word' = [word EXCEPT ![victim[t]] = Evicted]
      /\ evicted' = evicted \cup {u \in Threads : page[u] = victim[t]}
      /\ pc' = [pc EXCEPT ![t] = "purge"]
      /\ seen' = [seen EXCEPT ![t] = Evicted] /\ victim' = [victim EXCEPT ![t] = None]
      /\ UNCHANGED <<file, ops, op, page, got>>
      /\ UNCHANGED <<queue, insertCursor, evictionCursor, batch, cands>>
  BY Zenon DEF ReleaseRemoved, Released, goto
<1>q. PICK q \in Pages : q = victim[t]
  BY Zenon, <1>e DEF PlaceInv
<1>w. \A p \in Pages :
        /\ p = q => word'[p].state = "EVICTED" /\ word'[p].dirty = 0
        /\ p # q => word'[p] = word[p]
  BY Zenon, <1>e, <1>q, WordFields DEF PageTypes
<1>h. \A u \in Threads, p \in Pages :
        /\ Pins(u, p)' <=> Pins(u, p)
        /\ Evicts(u, p)' <=> (Evicts(u, p) /\ u # t)
        /\ pc'[u] = IF u = t THEN "purge" ELSE pc[u]
        /\ pc[t] = "release" /\ (Evicts(t, p) => p = q)
  BY Zenon, <1>e, <1>q DEF Pins, Evicts, ThreadTypes
<1>o. /\ file[q] \in Nat
      /\ \A u \in Threads : ~Pins(u, q) /\ (Evicts(u, q) => u = t)
  <2>1. Evicts(t, q)
    BY Zenon, <1>e, <1>q DEF Evicts
  <2>2. file[q] \in Nat
    BY Zenon DEF PageTypes
  <2> QED  BY Zenon, <2>1, <2>2 DEF LockInv, Holds
<1>1. PageTypes'
  BY Zenon, <1>e, <1>q, <1>o, WordTypes DEF PageTypes, Content
<1>2. ThreadTypes'
  BY Zenon, <1>e, WordTypes DEF ThreadTypes
<1>3. QueueTypes'
  BY Zenon, <1>e DEF QueueTypes, ThreadTypes
<1>4. PlaceInv'
  BY Zenon, <1>e DEF PlaceInv, ThreadTypes
<1>5. LockInv'
  BY <1>w, <1>h, <1>q, <1>o DEF LockInv, Holds
<1>6. DataInv'
  <2>1. \A p \in Pages : p # q => (Cached(p)' <=> Cached(p))
    BY Zenon, <1>e, <1>q, <1>w DEF Cached, PageTypes
  <2>2. file'[q] = latest'[q]
    BY Zenon, <1>e, <1>q, <1>o DEF PageTypes
  <2> QED  BY <1>e, <1>q, <1>w, <1>h, <1>o, <2>1, <2>2 DEF DataInv, Pins, PageTypes
<1>7. ReadInv'
  <2> SUFFICES ASSUME NEW r \in Threads, NEW p \in Pages, Reads(r, p)'
               PROVE  (StaysCached(r, p) /\ IsHeldIfLocked(p) /\ IsCurrent(r, p))'
    BY Zenon DEF ReadInv
  <2>1. Reads(r, p) /\ seen'[r] = seen[r] /\ StaysCached(r, p) /\ IsHeldIfLocked(p) /\ IsCurrent(r, p) /\ p # q
    BY Zenon, <1>e, <1>q DEF ReadInv, Reads, ThreadTypes
  <2>3. StaysCached(r, p)'
    BY <2>1, <1>e, <1>q, <1>w, <1>h DEF StaysCached
  <2>4. IsHeldIfLocked(p)'
    BY Zenon, <2>1, <1>q, <1>w, <1>h DEF IsHeldIfLocked, Holds
  <2>5. IsCurrent(r, p)'
    <3>1. latest'[p] = latest[p] /\ got'[r] = got[r] /\ word'[p] = word[p]
      BY Zenon, <2>1, <1>e, <1>q, <1>w DEF PageTypes
    <3>2. \A u \in Threads : Changes(u, p) => Changes(u, p)'
      BY Zenon, <1>h DEF Changes
    <3> QED  BY Zenon, <2>1, <3>1, <3>2 DEF IsCurrent
  <2> QED  BY Zenon, <2>3, <2>4, <2>5
<1>8. FuncInv'
  BY Zenon, <1>e DEF FuncInv, ThreadTypes
<1> QED  BY Zenon, <1>1, <1>2, <1>3, <1>4, <1>5, <1>6, <1>7, <1>8

\* A pin without memory leaves its page evicted; nobody reads it.
LEMMA ReserveFailsStep ==
  ASSUME IInv, NEW t \in Threads, PagesEvicted(t),
         freed[t] = 0 /\ needMoreMemory(t) /\ failed[t] = Retries
  PROVE  IInv'
<1> USE DEF contents, slots, reading, reserving, evicting,
            IInv, Types, loading, loaded, readingPlaces, Places
<1>e. /\ pc[t] \in {"try", "next"} /\ Return(t)
      /\ word' = [p \in Pages |-> IF p = page[t] THEN Evicted ELSE word[p]]
      /\ UNCHANGED <<frame, file, latest, ops, victim>>
      /\ UNCHANGED <<queue, insertCursor, evictionCursor, batch, cands>>
  BY Zenon DEF PagesEvicted
<1>w. \A p \in Pages : word'[p] = IF Pins(t, p) THEN Evicted ELSE word[p]
  BY Zenon, <1>e, ConstantsAssumption DEF Pins, PlaceInv
<1>h. \A u \in Threads, p \in Pages :
        /\ Pins(u, p)' <=> (Pins(u, p) /\ u # t)
        /\ Evicts(u, p)' <=> (Evicts(u, p) /\ u # t)
        /\ ~Evicts(t, p) /\ (u # t => pc'[u] = pc[u])
  BY Zenon, <1>e DEF Pins, Evicts, ThreadTypes, Return, goto
<1>o. /\ Evicted.state = "EVICTED" /\ Evicted.dirty = 0
      /\ \A p \in Pages : Pins(t, p) => file[p] = latest[p]
      /\ \A p \in Pages, u \in Threads : Pins(t, p) /\ Pins(u, p) => u = t
      /\ \A p \in Pages, u \in Threads : Pins(t, p) => ~Evicts(u, p)
  BY Zenon, <1>e DEF Evicted, DataInv, LockInv, Holds
<1>1. PageTypes'
  BY Zenon, <1>e, WordTypes DEF PageTypes
<1>2. ThreadTypes'
  BY Zenon, <1>e, ReturnTypes DEF ThreadTypes
<1>3. QueueTypes'
  BY Zenon, <1>e DEF QueueTypes, ThreadTypes, Return, goto
<1>4. PlaceInv'
  BY Zenon, <1>e DEF PlaceInv, ThreadTypes, Return, goto
<1>5. LockInv'
  BY Zenon, <1>w, <1>h, <1>o DEF LockInv, Holds
<1>6. DataInv'
  BY <1>e, <1>w, <1>h, <1>o DEF DataInv, Cached, PageTypes
<1>7. ReadInv'
  <2> SUFFICES ASSUME NEW r \in Threads, NEW p \in Pages, Reads(r, p)'
               PROVE  (StaysCached(r, p) /\ IsHeldIfLocked(p) /\ IsCurrent(r, p))'
    BY Zenon DEF ReadInv
  <2>1. /\ Reads(r, p) /\ seen'[r] = seen[r] /\ got'[r] = got[r]
        /\ StaysCached(r, p) /\ IsHeldIfLocked(p) /\ IsCurrent(r, p)
    BY Zenon, <1>e DEF ReadInv, Reads, ThreadTypes, Return, goto
  <2>2. ~Pins(t, p)
    BY Zenon, <2>1, <1>e DEF StaysCached
  <2>3. StaysCached(r, p)'
    BY Zenon, <2>1, <2>2, <1>w, <1>h DEF StaysCached
  <2>4. IsHeldIfLocked(p)'
    BY Zenon, <2>1, <2>2, <1>w, <1>h DEF IsHeldIfLocked, Holds
  <2>5. IsCurrent(r, p)'
    BY Zenon, <2>1, <2>2, <1>e, <1>w, <1>h DEF IsCurrent, Changes
  <2> QED  BY Zenon, <2>3, <2>4, <2>5
<1>8. FuncInv'
  BY Zenon, <1>e DEF FuncInv, ThreadTypes, Return, goto
<1> QED  BY Zenon, <1>1, <1>2, <1>3, <1>4, <1>5, <1>6, <1>7, <1>8

\* A page that a checkpoint drops is what the file has.
LEMMA removePageFromFrameStep ==
  ASSUME IInv, NEW q \in Pages, removePageFromFrame(q)
  PROVE  IInv'
<1> USE DEF contents, slots, reading, reserving, evicting,
            IInv, Types, loading, loaded, readingPlaces, Places
<1>e. /\ frame' = [frame EXCEPT ![q] = None]
      /\ latest' = [latest EXCEPT ![q] = file[q]]
      /\ word' = [word EXCEPT ![q] = Evicted]
      /\ UNCHANGED <<file, ops, queue, insertCursor, evictionCursor>>
      /\ \A u \in Threads : pc[u] = "idle"
      /\ UNCHANGED <<pc, op, page, victim, seen, got, evicted, batch, cands>>
  BY Zenon DEF removePageFromFrame, Released, Quiescent, locals
<1>w. \A p \in Pages :
        /\ p = q => word'[p].state = "EVICTED" /\ word'[p].dirty = 0
        /\ p # q => word'[p] = word[p]
  BY Zenon, <1>e, WordFields DEF PageTypes
<1>i. \A u \in Threads, p \in Pages : /\ ~Pins(u, p) /\ ~Evicts(u, p) /\ ~Reads(u, p)
                                      /\ ~Pins(u, p)' /\ ~Evicts(u, p)' /\ ~Reads(u, p)'
  BY Zenon, <1>e DEF Pins, Evicts, Reads
<1>1. PageTypes'
  BY Zenon, <1>e, WordTypes DEF PageTypes, Content
<1>2. ThreadTypes'
  BY Zenon, <1>e DEF ThreadTypes
<1>3. QueueTypes'
  BY Zenon, <1>e DEF QueueTypes, ThreadTypes
<1>4. PlaceInv'
  BY Zenon, <1>e DEF PlaceInv, ThreadTypes
<1>5. LockInv'
  BY Zenon, <1>i DEF LockInv, Holds
<1>6. DataInv'
  BY <1>e, <1>w, <1>i DEF DataInv, Cached, PageTypes
<1>7. ReadInv'
  BY Zenon, <1>i DEF ReadInv
<1>8. FuncInv'
  BY Zenon, <1>e DEF FuncInv, ThreadTypes
<1> QED  BY Zenon, <1>1, <1>2, <1>3, <1>4, <1>5, <1>6, <1>7, <1>8

\* Dropping candidates touches no page.
LEMMA removeEvictedCandidatesStep ==
  ASSUME IInv, removeEvictedCandidates
  PROVE  IInv'
<1> USE DEF contents, slots, reading, reserving, evicting,
            IInv, Types, loading, loaded, readingPlaces, Places
<1>e. /\ \A k \in Slots : queue'[k] \in {queue[k], None}
      /\ queue' = [k \in Slots |-> queue'[k]]
      /\ UNCHANGED <<word, frame, file, latest, ops, insertCursor, evictionCursor>>
      /\ \A u \in Threads : pc[u] = "idle"
      /\ UNCHANGED <<pc, op, page, victim, seen, got, evicted, batch, cands>>
  BY Zenon DEF removeEvictedCandidates, Quiescent, locals
<1>i. \A u \in Threads, p \in Pages : /\ ~Pins(u, p) /\ ~Evicts(u, p) /\ ~Reads(u, p)
                                      /\ ~Pins(u, p)' /\ ~Evicts(u, p)' /\ ~Reads(u, p)'
  BY Zenon, <1>e DEF Pins, Evicts, Reads
<1>1. PageTypes'
  BY Zenon, <1>e DEF PageTypes
<1>2. ThreadTypes'
  BY Zenon, <1>e DEF ThreadTypes
<1>3. QueueTypes'
  BY <1>e DEF QueueTypes, ThreadTypes
<1>4. PlaceInv'
  BY Zenon, <1>e DEF PlaceInv, ThreadTypes
<1>5. LockInv'
  BY Zenon, <1>i DEF LockInv, Holds
<1>6. DataInv'
  BY Zenon, <1>e, <1>i DEF DataInv, Cached
<1>7. ReadInv'
  BY Zenon, <1>i DEF ReadInv
<1>8. FuncInv'
  BY Zenon, <1>e DEF FuncInv, ThreadTypes
<1> QED  BY Zenon, <1>1, <1>2, <1>3, <1>4, <1>5, <1>6, <1>7, <1>8

\* A shadow page reaches the file and a cached copy alike.
LEMMA ApplyShadowPageStep ==
  ASSUME IInv, NEW q \in Pages, ApplyShadowPage(q)
  PROVE  IInv'
<1> USE DEF contents, slots, reading, reserving, evicting,
            IInv, Types, loading, loaded, readingPlaces, Places
<1>e. /\ ops' = ops + 1 /\ ops' \in Nat
      /\ file' = [file EXCEPT ![q] = ops']
      /\ latest' = [latest EXCEPT ![q] = ops']
      /\ frame' = [frame EXCEPT ![q] = IF word[q].state = "EVICTED" THEN @ ELSE ops']
      /\ UNCHANGED <<word, queue, insertCursor, evictionCursor>>
      /\ \A u \in Threads : pc[u] = "idle"
      /\ UNCHANGED <<pc, op, page, victim, seen, got, evicted, batch, cands>>
  BY DEF ApplyShadowPage, Quiescent, locals, PageTypes
<1>i. \A u \in Threads, p \in Pages : /\ ~Pins(u, p) /\ ~Evicts(u, p) /\ ~Reads(u, p)
                                      /\ ~Pins(u, p)' /\ ~Evicts(u, p)' /\ ~Reads(u, p)'
  BY Zenon, <1>e DEF Pins, Evicts, Reads
<1>1. PageTypes'
  BY Zenon, <1>e DEF PageTypes, Content
<1>2. ThreadTypes'
  BY Zenon, <1>e DEF ThreadTypes
<1>3. QueueTypes'
  BY Zenon, <1>e DEF QueueTypes, ThreadTypes
<1>4. PlaceInv'
  BY Zenon, <1>e DEF PlaceInv, ThreadTypes
<1>5. LockInv'
  BY Zenon, <1>i DEF LockInv, Holds
<1>6. DataInv'
  BY <1>e, <1>i DEF DataInv, Cached, PageTypes, PageWord
<1>7. ReadInv'
  BY Zenon, <1>i DEF ReadInv
<1>8. FuncInv'
  BY Zenon, <1>e DEF FuncInv, ThreadTypes
<1> QED  BY Zenon, <1>1, <1>2, <1>3, <1>4, <1>5, <1>6, <1>7, <1>8

\* Flushing brings the file up to date with the frames.
LEMMA flushAllDirtyPagesInFramesStep ==
  ASSUME IInv, flushAllDirtyPagesInFrames
  PROVE  IInv'
<1> USE DEF contents, slots, reading, reserving, evicting,
            IInv, Types, loading, loaded, readingPlaces, Places
<1>e. /\ file' = [p \in Pages |-> flushed(p)]
      /\ word' = [p \in Pages |-> withDirty(word[p], 0)]
      /\ UNCHANGED <<frame, latest, ops, queue, insertCursor, evictionCursor>>
      /\ \A u \in Threads : pc[u] = "idle"
      /\ UNCHANGED <<pc, op, page, victim, seen, got, evicted, batch, cands>>
  BY Zenon DEF flushAllDirtyPagesInFrames, Quiescent, locals
<1>w. \A p \in Pages : word'[p].state = word[p].state /\ word'[p].dirty = 0
  BY <1>e, WordFields DEF PageTypes
<1>f. \A p \in Pages : /\ flushed(p) \in Nat /\ file'[p] = flushed(p)
                       /\ flushed(p) \in {file[p], latest[p]}
                       /\ word[p].dirty = 1 => flushed(p) = latest[p]
  BY Zenon, <1>e DEF DataInv, flushed, PageTypes
<1>i. \A u \in Threads, p \in Pages : /\ ~Pins(u, p) /\ ~Evicts(u, p) /\ ~Reads(u, p)
                                      /\ ~Pins(u, p)' /\ ~Evicts(u, p)' /\ ~Reads(u, p)'
  BY Zenon, <1>e DEF Pins, Evicts, Reads
<1>1. PageTypes'
  BY Zenon, <1>e, <1>f, WordTypes DEF PageTypes
<1>2. ThreadTypes'
  BY Zenon, <1>e DEF ThreadTypes
<1>3. QueueTypes'
  BY Zenon, <1>e DEF QueueTypes, ThreadTypes
<1>4. PlaceInv'
  BY Zenon, <1>e DEF PlaceInv, ThreadTypes
<1>5. LockInv'
  BY Zenon, <1>i DEF LockInv, Holds
<1>6. DataInv'
  BY <1>e, <1>w, <1>i, <1>f DEF DataInv, Cached, PageTypes, PageWord
<1>7. ReadInv'
  BY Zenon, <1>i DEF ReadInv
<1>8. FuncInv'
  BY Zenon, <1>e DEF FuncInv, ThreadTypes
<1> QED  BY Zenon, <1>1, <1>2, <1>3, <1>4, <1>5, <1>6, <1>7, <1>8

-----------------------------------------------------------------------------
(* The invariant.                                                          *)

\* In a database that has just been opened no page is in a frame and no
\* thread is inside an operation.
LEMMA InitIInv ==
  ASSUME Init
  PROVE  IInv
<1> USE DEF Init, loading, loaded, readingPlaces, Places
<1>1. Evicted \in PageWord /\ Evicted.state = "EVICTED" /\ Evicted.dirty = 0
  BY Zenon DEF Evicted, PageWord
<1>2. PageTypes
  BY Zenon, <1>1 DEF PageTypes, Content
<1>3. ThreadTypes
  BY <1>1 DEF ThreadTypes
<1>4. QueueTypes
  BY SlotFacts DEF QueueTypes
<1>5. PlaceInv
  BY Zenon DEF PlaceInv
<1>6. \A t \in Threads, p \in Pages : ~Pins(t, p) /\ ~Evicts(t, p) /\ ~Reads(t, p)
  BY Zenon DEF Pins, Evicts, Reads
<1>7. LockInv /\ ReadInv
  BY Zenon, <1>6 DEF LockInv, ReadInv, Holds
<1>8. DataInv
  BY <1>1, <1>6 DEF DataInv
<1>9. FuncInv
  BY Zenon DEF FuncInv
<1> QED  BY Zenon, <1>2, <1>3, <1>4, <1>5, <1>7, <1>8, <1>9 DEF IInv, Types

\* A step of one thread inside an operation preserves the invariant.
LEMMA ThreadStepIInv ==
  ASSUME IInv, NEW t \in Threads, ThreadStep(t)
  PROVE  IInv'
<1>1. CASE unpin(t)
  BY Zenon, <1>1, UnpinWriteStep, UnpinReadStep
<1>2. CASE OptimisticLoad(t)
  <2>1. word[page[t]].state \in {"UNLOCKED", "MARKED", "EVICTED"}
    BY Zenon, <1>2 DEF OptimisticLoad
  <2> QED  BY Zenon, <1>2, <2>1, LoadUnlockedStep, LoadMarkedStep, LoadEvictedStep
<1>3. CASE Reserved(t)
  BY Zenon, <1>3, AllocReservedStep, PageReservedStep
<1>4. CASE LockVictim(t)
  BY Zenon, <1>4, LockVictimStep, LockVictimFailsStep
<1>5. CASE EvictVictim(t)
  BY Zenon, <1>5, EvictVictimStep, UnlockVictimStep
<1>6. CASE ClearCandidate(t)
  BY Zenon, <1>6, ClearCandidateStep, ClearCandidateThrowsStep
<1>7. CASE PagesEvicted(t)
  BY Zenon, <1>7, PagesEvictedStep, ReserveFailsStep
<1>8. CASE WritePage(t) \/ RunFunc(t) \/ Validate(t) \/ PinCached(t) \/ PinEvicted(t)
  BY Zenon, <1>8, WritePageStep, RunFuncStep, ValidateStep, PinCachedStep, PinEvictedStep
<1>9. CASE InsertCandidate(t) \/ QueueIsFull(t) \/ NextBatch(t) \/ ScanSlot(t) \/ LoadCandidate(t)
  BY Zenon, <1>9, InsertCandidateStep, QueueIsFullStep, NextBatchStep, ScanSlotStep, LoadCandidateStep
<1> QED  BY Zenon, <1>1, <1>2, <1>3, <1>4, <1>5, <1>6, <1>7, <1>8, <1>9 DEF ThreadStep

\* A step of a rollback preserves it too, where no race is allowed.
LEMMA RollbackStepIInv ==
  ASSUME IInv, Races = {}, NEW t \in Threads, RollbackStep(t)
  PROVE  IInv'
<1>1. CASE DropCandidate(t) \/ Purged(t)
  BY Zenon, <1>1, DropCandidateStep, RollbackEndsStep
<1>2. CASE LoadRemoved(t) \/ spinLock(t) \/ ReleaseRemoved(t)
  BY Zenon, <1>2, LoadRemovedStep, spinLockStep, ReleaseRemovedStep
<1>3. CASE PurgeBatch(t) \/ SiftSlot(t)
  BY Zenon, <1>3, PurgeBatchStep, SiftSlotStep
<1> QED  BY Zenon, <1>1, <1>2, <1>3 DEF RollbackStep

\* Every step preserves the invariant, where no race is allowed.
LEMMA NextIInv ==
  ASSUME IInv, Races = {}, [Next]_vars
  PROVE  IInv'
<1>1. CASE \E t \in Threads : ThreadStep(t) \/ RollbackStep(t)
  BY Zenon, <1>1, ThreadStepIInv, RollbackStepIInv
<1>2. CASE \E t \in Threads, q \in Pages : StartRead(t, q) \/ StartWrite(t, q) \/ StartRollback(t, q)
  BY Zenon, <1>2, StartReadStep, StartWriteStep, StartRollbackStep
<1>3. CASE \E t \in Threads : FreeBuffer(t) \/ \E s \in AllocSizes : StartAlloc(t, s)
  BY Zenon, <1>3, FreeBufferStep, StartAllocStep
<1>4. CASE \E q \in Pages : removePageFromFrame(q) \/ ApplyShadowPage(q)
  BY Zenon, <1>4, removePageFromFrameStep, ApplyShadowPageStep
<1>5. CASE removeEvictedCandidates \/ flushAllDirtyPagesInFrames
  BY Zenon, <1>5, removeEvictedCandidatesStep, flushAllDirtyPagesInFramesStep
<1>6. CASE UNCHANGED vars
  <2> USE <1>6 DEF vars, contents, slots, reading, reserving, evicting, IInv, Types
  <2>1. PageTypes' /\ ThreadTypes' /\ QueueTypes' /\ PlaceInv' /\ FuncInv'
    BY Zenon DEF PageTypes, ThreadTypes, QueueTypes, PlaceInv, FuncInv
  <2>2. Quiet
    BY Zenon DEF Quiet, Reads, Holds, Changes, Pins, Evicts
  <2> QED  BY Zenon, <2>1, <2>2, QuietStep
<1> QED  BY Zenon, <1>1, <1>2, <1>3, <1>4, <1>5, <1>6, ConstantsAssumption DEF Next

\* The invariant holds in every reachable state of the buffer manager.
THEOREM Invariance ==
  ASSUME Races = {} PROVE Spec => []IInv
<1>1. Init => IInv
  BY Zenon, InitIInv
<1>2. IInv /\ [Next]_vars => IInv'
  BY Zenon, NextIInv
<1> QED  BY <1>1, <1>2, PTL DEF Spec

-----------------------------------------------------------------------------
(* The properties.                                                         *)

\* A frame that is read in, written or released belongs to one thread: the
\* compare-and-exchange of tryLock lets one in, be it a pin, an eviction or a
\* rollback that drops a page beside them.  The hypothesis is what
\* removePageFromFrame assumes and does not ensure: the word that it feeds to
\* tryLock is of a page that is neither locked nor evicted.
THEOREM FramesExclusive ==
  ASSUME Races = {} PROVE Spec => []FramesAreExclusive
<1>1. IInv => FramesAreExclusive
  <2> SUFFICES ASSUME IInv, NEW t \in Threads
               PROVE  /\ \A p \in Held(t) : word[p].state = "LOCKED"
                      /\ \A u \in Threads \ {t} : Held(t) \cap Held(u) = {}
    BY Zenon DEF FramesAreExclusive
  <2>1. \A u \in Threads : \A p \in Held(u) : p \in Pages /\ Holds(u, p)
    BY Zenon DEF Held, pinning, Holds, Pins, Evicts, IInv, Types, PlaceInv, loading, loaded
  <2> QED  BY Zenon, <2>1 DEF IInv, LockInv
<1> QED  BY <1>1, Invariance, PTL

\* No write is lost: eviction flushes dirty pages before it gives up the
\* frame, and a page is read from the file only when the file is current.
THEOREM WritesAreKept ==
  ASSUME Races = {} PROVE Spec => []NoLostWrite
<1>1. IInv => NoLostWrite
  BY Zenon DEF IInv, DataInv, Cached, NoLostWrite
<1> QED  BY <1>1, Invariance, PTL

\* A thread that validates a read moves by Validate only.
LEMMA OnlyValidateEndsReads ==
  ASSUME ThreadTypes, NEW u \in Threads, ThreadStep(u), NEW t \in Threads, pc[t] = "validate"
  PROVE  pc'[t] = pc[t] \/ Validate(t)
<1> USE DEF goto, Return, NextCandidate, ThreadTypes
<1>1. CASE WritePage(u) \/ unpin(u) \/ OptimisticLoad(u) \/ RunFunc(u)
  BY Zenon, <1>1 DEF WritePage, unpin, OptimisticLoad, RunFunc
<1>2. CASE Validate(u)
  BY <1>2 DEF Validate
<1>3. CASE PinCached(u) \/ PinEvicted(u) \/ Reserved(u) \/ InsertCandidate(u) \/ QueueIsFull(u)
  BY Zenon, <1>3 DEF PinCached, PinEvicted, Reserved, InsertCandidate, QueueIsFull
<1>4. CASE NextBatch(u) \/ ScanSlot(u) \/ LoadCandidate(u)
  BY Zenon, <1>4 DEF NextBatch, next, ScanSlot, LoadCandidate
<1>5. CASE LockVictim(u) \/ EvictVictim(u) \/ ClearCandidate(u)
  BY <1>5 DEF LockVictim, EvictVictim, ClearCandidate
<1>6. CASE PagesEvicted(u)
  BY Zenon, <1>6 DEF PagesEvicted
<1> QED  BY Zenon, <1>1, <1>2, <1>3, <1>4, <1>5, <1>6 DEF ThreadStep

\* A rollback moves no thread that validates a read.
LEMMA RollbackEndsNoRead ==
  ASSUME ThreadTypes, NEW u \in Threads, RollbackStep(u), NEW t \in Threads, pc[t] = "validate"
  PROVE  pc'[t] = pc[t]
<1> USE DEF goto, Return, NextSlot, ThreadTypes
<1>1. CASE LoadRemoved(u) \/ spinLock(u) \/ ReleaseRemoved(u)
  BY Zenon, <1>1 DEF LoadRemoved, spinLock, ReleaseRemoved
<1>2. CASE PurgeBatch(u) \/ SiftSlot(u)
  BY Zenon, <1>2 DEF PurgeBatch, SiftSlot
<1>3. CASE DropCandidate(u) \/ Purged(u)
  BY Zenon, <1>3 DEF DropCandidate, Purged
<1> QED  BY Zenon, <1>1, <1>2, <1>3 DEF RollbackStep

\* optimisticRead returns only if both halves are the current contents, or
\* the page was evicted meanwhile: a word that is the same as before is
\* unlocked with the same version, so no writer has been in between.
THEOREM ReadsConsistent ==
  ASSUME Races = {} PROVE Spec => ReadsAreConsistent
<1>1. ASSUME IInv, [Next]_vars
      PROVE  [\A t \in Threads : pc[t] = "validate" /\ pc'[t] = "idle" /\ t \notin evicted =>
                got[t] = <<latest[page[t]], latest[page[t]]>>]_vars
  <2> SUFFICES ASSUME Next, NEW t \in Threads,
                      pc[t] = "validate", pc'[t] = "idle", t \notin evicted
               PROVE  got[t] = <<latest[page[t]], latest[page[t]]>>
    BY Zenon, <1>1
  <2>1. Validate(t)
    <3>1. CASE \E u \in Threads : ThreadStep(u) \/ RollbackStep(u)
      BY Zenon, <1>1, <3>1, OnlyValidateEndsReads, RollbackEndsNoRead DEF IInv, Types
    <3>2. CASE \E u \in Threads : FreeBuffer(u)
                 \/ (\E q \in Pages : StartRead(u, q) \/ StartWrite(u, q) \/ StartRollback(u, q))
                 \/ (\E s \in AllocSizes : StartAlloc(u, s))
      BY Zenon, <1>1, <3>2 DEF FreeBuffer, StartRead, StartWrite, StartRollback, StartAlloc, Start, goto,
                                 IInv, Types, ThreadTypes
    <3>3. CASE \/ \E q \in Pages : removePageFromFrame(q) \/ ApplyShadowPage(q)
               \/ removeEvictedCandidates \/ flushAllDirtyPagesInFrames
      BY Zenon, <3>3 DEF removePageFromFrame, ApplyShadowPage, removeEvictedCandidates,
                  flushAllDirtyPagesInFrames, locals
    <3> QED  BY Zenon, <3>1, <3>2, <3>3, ConstantsAssumption DEF Next
  <2>2. page[t] \in Pages /\ Len(got[t]) = 2 /\ got[t] \in Seq(Content)
    BY Zenon, <1>1 DEF IInv, Types, PlaceInv, FuncInv, ThreadTypes, readingPlaces
  <2>3. word[page[t]] = seen[t]
    BY Zenon, <1>1, <2>1 DEF Validate, goto, IInv, Types, ThreadTypes
  <2>4. StaysCached(t, page[t]) /\ IsCurrent(t, page[t])
    BY Zenon, <1>1, <2>2 DEF IInv, ReadInv, Reads
  <2>5. \A u \in Threads : ~Changes(u, page[t])
    BY Zenon, <1>1, <2>2, <2>3, <2>4 DEF StaysCached, IInv, LockInv, Holds, Changes
  <2>6. ~(word[page[t]].version > seen[t].version)
    <3>1. \A n \in Nat : ~(n > n)
      OBVIOUS
    <3>2. seen[t].version \in Nat
      BY Zenon, <1>1 DEF IInv, Types, ThreadTypes, PageWord
    <3> QED  BY Zenon, <2>3, <3>1, <3>2
  <2>7. \A i \in 1 .. 2 : got[t][i] = latest[page[t]]
    BY Zenon, <2>2, <2>4, <2>5, <2>6 DEF IsCurrent
  <2>8. \A s \in Seq(Content) : Len(s) = 2 => s = <<s[1], s[2]>>
    OBVIOUS
  <2> QED  BY <2>2, <2>7, <2>8
<1> QED  BY <1>1, Invariance, PTL DEF Spec, ReadsAreConsistent
=============================================================================
