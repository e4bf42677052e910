------------------------- MODULE BufferManagerLocks -------------------------
(***************************************************************************)
(* The steps of BufferManager that change the word of a page preserve the  *)
(* inductive invariant of BufferManagerSteps: pinning and unpinning, with  *)
(* the function that reads a page and the scan that marks pages.           *)
(***************************************************************************)
EXTENDS BufferManagerSteps

\* A writer unlocks the page: its version shows the readers the change.
LEMMA UnpinWriteStep ==
  ASSUME IInv, NEW t \in Threads, unpin(t), op[t] = "write"
  PROVE  IInv'
<1> USE DEF contents, slots, reading, reserving, evicting,
            IInv, Types, loading, loaded, readingPlaces, Places
<1>p. /\ pc[t] \in {"pinned", "unpin"} /\ op[t] # "alloc" /\ page[t] \in Pages
  BY Zenon DEF unpin, PlaceInv
<1>e. /\ word' = [word EXCEPT ![page[t]] = unlocked(@)] /\ Return(t)
      /\ UNCHANGED <<frame, file, latest, ops, victim>>
      /\ UNCHANGED <<queue, insertCursor, evictionCursor, batch, cands>>
  BY Zenon DEF unpin
<1>w. \A p \in Pages :
        /\ word'[p].dirty = word[p].dirty
        /\ p = page[t] => word'[p].state = "UNLOCKED" /\ word'[p].version = word[p].version + 1
        /\ p # page[t] => word'[p] = word[p]
  BY <1>p, <1>e, WordFields DEF PageTypes
<1>h. \A u \in Threads, p \in Pages :
        /\ Pins(u, p)' <=> (Pins(u, p) /\ u # t)
        /\ Evicts(u, p)' <=> Evicts(u, p)
        /\ u # t => pc'[u] = pc[u]
  BY Zenon, <1>p, <1>e DEF Pins, Evicts, ThreadTypes, Return, goto
<1>q. PICK q \in Pages : q = page[t]
  BY Zenon, <1>p
<1>o. /\ Pins(t, q) /\ Cached(q)
      /\ \A u \in Threads : ~Pins(u, q)' /\ ~Evicts(u, q)'
  <2>1. Pins(t, q) /\ pc[t] \in loaded
    BY Zenon, <1>p, <1>q DEF Pins
  <2>2. Cached(q)
    BY Zenon, <2>1 DEF DataInv
  <2>3. \A u \in Threads : (Pins(u, q) => u = t) /\ ~Evicts(u, q)
    BY Zenon, <2>1 DEF LockInv, Holds
  <2> QED  BY Zenon, <1>h, <2>1, <2>2, <2>3
<1>1. PageTypes'
  BY Zenon, <1>e, <1>p, WordTypes DEF PageTypes
<1>2. ThreadTypes'
  BY Zenon, <1>e, ReturnTypes DEF ThreadTypes
<1>3. QueueTypes'
  BY Zenon, <1>e DEF QueueTypes, ThreadTypes, Return, goto
<1>4. PlaceInv'
  BY Zenon, <1>e DEF PlaceInv, ThreadTypes, Return, goto
<1>5. LockInv'
  BY <1>w, <1>h, <1>q, <1>o DEF LockInv, Holds
<1>6. DataInv'
  <2>1. Cached(q)'
    BY Zenon, <1>e, <1>q, <1>w, <1>o DEF Cached
  <2>2. \A p \in Pages : p # q => (Cached(p)' <=> Cached(p))
    BY Zenon, <1>e, <1>q, <1>w DEF Cached
  <2> QED  BY <1>e, <1>q, <1>w, <1>h, <1>o, <2>1, <2>2 DEF DataInv, Pins
<1>7. ReadInv'
  <2> SUFFICES ASSUME NEW r \in Threads, NEW p \in Pages, Reads(r, p)'
               PROVE  (StaysCached(r, p) /\ IsHeldIfLocked(p) /\ IsCurrent(r, p))'
    BY Zenon DEF ReadInv
  <2>1. /\ Reads(r, p) /\ seen'[r] = seen[r] /\ got'[r] = got[r]
        /\ StaysCached(r, p) /\ IsHeldIfLocked(p) /\ IsCurrent(r, p)
    BY Zenon, <1>e DEF ReadInv, Reads, ThreadTypes, Return, goto
  <2>2. word[p].version \in Nat /\ seen[r].version \in Nat
    BY Zenon DEF PageTypes, ThreadTypes, PageWord
  <2>3. StaysCached(r, p)'
    BY <2>1, <2>2, <1>w, <1>h DEF StaysCached
  <2>4. IsHeldIfLocked(p)'
    BY <2>1, <1>w, <1>h DEF IsHeldIfLocked, Holds, Pins, Evicts
  <2>5. IsCurrent(r, p)'
    BY <2>1, <2>2, <1>e, <1>w, <1>h DEF IsCurrent, StaysCached, Changes, Pins
  <2> QED  BY Zenon, <2>3, <2>4, <2>5
<1>8. FuncInv'
  BY Zenon, <1>e DEF FuncInv, ThreadTypes, Return, goto
<1> QED  BY Zenon, <1>1, <1>2, <1>3, <1>4, <1>5, <1>6, <1>7, <1>8

\* A reader that has brought the page in unlocks it and starts over.
LEMMA UnpinReadStep ==
  ASSUME IInv, NEW t \in Threads, unpin(t), op[t] # "write"
  PROVE  IInv'
<1> USE DEF contents, slots, reading, reserving, evicting,
            IInv, Types, loading, loaded, readingPlaces, Places
<1>p. /\ pc[t] \in {"pinned", "unpin"} /\ op[t] # "alloc" /\ page[t] \in Pages
  BY Zenon DEF unpin, PlaceInv
<1>e. /\ word' = [word EXCEPT ![page[t]] = unlocked(@)] /\ pc' = [pc EXCEPT ![t] = "load"]
      /\ op[t] = "read" /\ UNCHANGED <<frame, file, latest, ops, op, page, victim, seen, got, evicted>>
      /\ UNCHANGED <<queue, insertCursor, evictionCursor, batch, cands>>
  BY Zenon DEF unpin, goto, PlaceInv
<1>w. \A p \in Pages :
        /\ word'[p].dirty = word[p].dirty
        /\ p = page[t] => word'[p].state = "UNLOCKED" /\ word'[p].version = word[p].version + 1
        /\ p # page[t] => word'[p] = word[p]
  BY <1>p, <1>e, WordFields DEF PageTypes
<1>h. \A u \in Threads, p \in Pages :
        /\ Pins(u, p)' <=> (Pins(u, p) /\ u # t)
        /\ Evicts(u, p)' <=> Evicts(u, p)
        /\ u # t => pc'[u] = pc[u]
  BY Zenon, <1>p, <1>e DEF Pins, Evicts, ThreadTypes
<1>q. PICK q \in Pages : q = page[t]
  BY Zenon, <1>p
<1>o. /\ Pins(t, q) /\ Cached(q)
      /\ \A u \in Threads : ~Pins(u, q)' /\ ~Evicts(u, q)'
  <2>1. Pins(t, q) /\ pc[t] \in loaded
    BY Zenon, <1>p, <1>q DEF Pins
  <2>2. Cached(q)
    BY Zenon, <2>1 DEF DataInv
  <2>3. \A u \in Threads : (Pins(u, q) => u = t) /\ ~Evicts(u, q)
    BY Zenon, <2>1 DEF LockInv, Holds
  <2> QED  BY Zenon, <1>h, <2>1, <2>2, <2>3
<1>1. PageTypes'
  BY Zenon, <1>e, <1>p, WordTypes DEF PageTypes
<1>2. ThreadTypes'
  BY Zenon, <1>e DEF ThreadTypes
<1>3. QueueTypes'
  BY Zenon, <1>e DEF QueueTypes, ThreadTypes
<1>4. PlaceInv'
  BY Zenon, <1>e, <1>p DEF PlaceInv, ThreadTypes
<1>5. LockInv'
  BY <1>w, <1>h, <1>q, <1>o DEF LockInv, Holds
<1>6. DataInv'
  <2>1. Cached(q)'
    BY Zenon, <1>e, <1>q, <1>w, <1>o DEF Cached
  <2>2. \A p \in Pages : p # q => (Cached(p)' <=> Cached(p))
    BY Zenon, <1>e, <1>q, <1>w DEF Cached
  <2> QED  BY <1>e, <1>q, <1>w, <1>h, <1>o, <2>1, <2>2 DEF DataInv, Pins
<1>7. ReadInv'
  <2> SUFFICES ASSUME NEW r \in Threads, NEW p \in Pages, Reads(r, p)'
               PROVE  (StaysCached(r, p) /\ IsHeldIfLocked(p) /\ IsCurrent(r, p))'
    BY Zenon DEF ReadInv
  <2>1. /\ Reads(r, p) /\ seen'[r] = seen[r] /\ got'[r] = got[r]
        /\ StaysCached(r, p) /\ IsHeldIfLocked(p) /\ IsCurrent(r, p)
    BY Zenon, <1>e DEF ReadInv, Reads, ThreadTypes
  <2>2. word[p].version \in Nat /\ seen[r].version \in Nat
    BY Zenon DEF PageTypes, ThreadTypes, PageWord
  <2>3. StaysCached(r, p)'
    BY <2>1, <2>2, <1>w, <1>h DEF StaysCached
  <2>4. IsHeldIfLocked(p)'
    BY <2>1, <1>w, <1>h DEF IsHeldIfLocked, Holds, Pins, Evicts
  <2>5. IsCurrent(r, p)'
    BY <2>1, <2>2, <1>e, <1>w, <1>h DEF IsCurrent, StaysCached, Changes, Pins
  <2> QED  BY Zenon, <2>3, <2>4, <2>5
<1>8. FuncInv'
  BY Zenon, <1>e DEF FuncInv, ThreadTypes
<1> QED  BY Zenon, <1>1, <1>2, <1>3, <1>4, <1>5, <1>6, <1>7, <1>8

\* Half of the frame is read: a cached frame has the latest contents, whoever holds the page.
LEMMA RunFuncStep ==
  ASSUME IInv, NEW t \in Threads, RunFunc(t)
  PROVE  IInv'
<1> USE DEF contents, slots, reading, reserving, evicting,
            IInv, Types, loading, loaded, readingPlaces, Places
<1>e. /\ pc[t] = "func"
      /\ got' = [got EXCEPT ![t] = Append(@, frame[page[t]])]
      /\ pc' = [pc EXCEPT ![t] = IF Len(got[t]) = 1 THEN "validate" ELSE "func"]
      /\ UNCHANGED <<word, frame, file, latest, ops, op, page, victim, seen, evicted>>
      /\ UNCHANGED <<queue, insertCursor, evictionCursor, batch, cands>>
  BY Zenon DEF RunFunc, goto
<1>g. /\ Append(got[t], frame[page[t]]) \in Seq(Content)
      /\ Len(got[t]) \in {0, 1}
      /\ Len(Append(got[t], frame[page[t]])) = Len(got[t]) + 1
  <2>1. got[t] \in Seq(Content) /\ frame[page[t]] \in Content
    BY Zenon, <1>e DEF ThreadTypes, PageTypes, PlaceInv
  <2>2. Len(got[t]) \in Nat /\ Len(got[t]) < 2
    BY <2>1, <1>e DEF FuncInv
  <2>3. Len(got[t]) \in {0, 1}
    <3>1. \A n \in Nat : n < 2 => n \in {0, 1}
      OBVIOUS
    <3> QED  BY Zenon, <2>2, <3>1
  <2>4. /\ Append(got[t], frame[page[t]]) \in Seq(Content)
        /\ Len(Append(got[t], frame[page[t]])) = Len(got[t]) + 1
    <3>1. ASSUME NEW s \in Seq(Content), NEW x \in Content
          PROVE  Append(s, x) \in Seq(Content) /\ Len(Append(s, x)) = Len(s) + 1
      OBVIOUS
    <3> QED  BY Zenon, <2>1, <3>1
  <2> QED  BY Zenon, <2>3, <2>4
<1>1. PageTypes'
  BY Zenon, <1>e DEF PageTypes
<1>2. ThreadTypes'
  BY Zenon, <1>e, <1>g DEF ThreadTypes
<1>3. QueueTypes'
  BY Zenon, <1>e DEF QueueTypes, ThreadTypes
<1>4. PlaceInv'
  BY Zenon, <1>e DEF PlaceInv, ThreadTypes
<1>5. LockInv'
  BY <1>e DEF LockInv, Holds, Pins, Evicts, ThreadTypes
<1>6. DataInv'
  BY <1>e DEF DataInv, Cached, LockInv, Holds, Pins, Evicts, ThreadTypes, PageTypes
<1>7. ReadInv'
  <2> SUFFICES ASSUME NEW r \in Threads, NEW p \in Pages, Reads(r, p)'
               PROVE  (StaysCached(r, p) /\ IsHeldIfLocked(p) /\ IsCurrent(r, p))'
    BY Zenon DEF ReadInv
  <2>1. Reads(r, p) /\ StaysCached(r, p) /\ IsHeldIfLocked(p) /\ IsCurrent(r, p)
    BY Zenon, <1>e DEF ReadInv, Reads, ThreadTypes
  <2>2. frame[p] = latest[p]
    <3>1. CASE word[p].state # "LOCKED"
      BY Zenon, <2>1, <3>1 DEF StaysCached, DataInv, Cached, PageTypes, PageWord
    <3>2. CASE word[p].state = "LOCKED"
      <4>1. PICK u \in Threads : Holds(u, p)
        BY Zenon, <2>1, <3>2 DEF IsHeldIfLocked
      <4>2. Evicts(u, p) \/ (Pins(u, p) /\ pc[u] \in loaded)
        BY Zenon, <2>1, <4>1 DEF StaysCached, Holds, Pins
      <4> QED  BY Zenon, <4>2 DEF DataInv, Cached
    <3> QED  BY Zenon, <3>1, <3>2
  <2>3. StaysCached(r, p)'
    BY Zenon, <2>1, <1>e DEF StaysCached, Pins, ThreadTypes, PageTypes
  <2>4. IsHeldIfLocked(p)'
    BY Zenon, <2>1, <1>e DEF IsHeldIfLocked, Holds, Pins, Evicts, ThreadTypes
  <2>5. IsCurrent(r, p)'
    <3>1. \A u \in Threads : Changes(u, p)' <=> Changes(u, p)
      BY Zenon, <1>e DEF Changes, Pins, ThreadTypes
    <3>2. ASSUME \A i \in 1 .. Len(got[r]) : got[r][i] = latest[p]
          PROVE  \A i \in 1 .. Len(got'[r]) : got'[r][i] = latest[p]
      <4>1. CASE r = t
        <5>1. page[t] = p
          BY Zenon, <2>1, <4>1 DEF Reads
        <5>2. got'[r] = Append(got[r], latest[p]) /\ got[r] \in Seq(Content)
          BY Zenon, <1>e, <4>1, <5>1, <2>2 DEF ThreadTypes
        <5>3. /\ Len(got'[r]) = Len(got[r]) + 1
              /\ \A i \in 1 .. Len(got[r]) : got'[r][i] = got[r][i]
              /\ got'[r][Len(got[r]) + 1] = latest[p]
              /\ Len(got[r]) \in Nat
          BY <5>2
        <5> QED  BY <3>2, <5>3
      <4>2. CASE r # t
        BY Zenon, <3>2, <4>2, <1>e DEF ThreadTypes
      <4> QED  BY Zenon, <4>1, <4>2
    <3>3. word' = word /\ seen' = seen /\ latest' = latest
      BY Zenon, <1>e
    <3> QED  BY Zenon, <2>1, <3>1, <3>2, <3>3 DEF IsCurrent
  <2> QED  BY Zenon, <2>3, <2>4, <2>5
<1>8. FuncInv'
  BY <1>e, <1>g DEF FuncInv, ThreadTypes
<1> QED  BY Zenon, <1>1, <1>2, <1>3, <1>4, <1>5, <1>6, <1>7, <1>8

\* A pin of a cached page locks it, and the frame stays as it is.
LEMMA PinCachedStep ==
  ASSUME IInv, NEW t \in Threads, PinCached(t)
  PROVE  IInv'
<1> USE DEF contents, slots, reading, reserving, evicting,
            IInv, Types, loading, loaded, readingPlaces, Places
<1>e. /\ pc[t] = "pin" /\ op[t] # "alloc" /\ word[page[t]].state \in {"UNLOCKED", "MARKED"}
      /\ word' = [word EXCEPT ![page[t]] = withState(@, "LOCKED")]
      /\ pc' = [pc EXCEPT ![t] = "pinned"]
      /\ UNCHANGED <<frame, file, latest, ops, op, page, victim, seen, got, evicted>>
      /\ UNCHANGED <<queue, insertCursor, evictionCursor, batch, cands>>
  BY Zenon DEF PinCached, Lockable, goto, PlaceInv
<1>q. PICK q \in Pages : q = page[t]
  BY Zenon, <1>e DEF PlaceInv
<1>w. \A p \in Pages :
        /\ word'[p].version = word[p].version /\ word'[p].dirty = word[p].dirty
        /\ p = q => word'[p].state = "LOCKED"
        /\ p # q => word'[p] = word[p]
  BY <1>e, <1>q, WordFields DEF PageTypes
<1>h. \A u \in Threads, p \in Pages :
        /\ Pins(u, p)' <=> (Pins(u, p) \/ (u = t /\ p = q))
        /\ Evicts(u, p)' <=> Evicts(u, p)
        /\ pc'[u] = IF u = t THEN "pinned" ELSE pc[u]
        /\ ~Pins(t, p)
  BY <1>e, <1>q DEF Pins, Evicts, ThreadTypes
<1>o. /\ Cached(q)
      /\ \A u \in Threads : ~Pins(u, q) /\ ~Evicts(u, q)
  BY Zenon, <1>e, <1>q DEF LockInv, Holds, DataInv
<1>1. PageTypes'
  BY Zenon, <1>e, <1>q, WordTypes DEF PageTypes
<1>2. ThreadTypes'
  BY Zenon, <1>e DEF ThreadTypes
<1>3. QueueTypes'
  BY Zenon, <1>e DEF QueueTypes, ThreadTypes
<1>4. PlaceInv'
  BY Zenon, <1>e DEF PlaceInv, ThreadTypes
<1>5. LockInv'
  BY <1>w, <1>h, <1>q, <1>o DEF LockInv, Holds
<1>6. DataInv'
  <2>1. Cached(q)'
    BY Zenon, <1>e, <1>q, <1>w, <1>o DEF Cached, PageTypes
  <2>2. \A p \in Pages : p # q => (Cached(p)' <=> Cached(p))
    BY Zenon, <1>e, <1>q, <1>w DEF Cached, PageTypes
  <2> QED  BY <1>e, <1>q, <1>w, <1>h, <1>o, <2>1, <2>2 DEF DataInv, Pins
<1>7. ReadInv'
  <2> SUFFICES ASSUME NEW r \in Threads, NEW p \in Pages, Reads(r, p)'
               PROVE  (StaysCached(r, p) /\ IsHeldIfLocked(p) /\ IsCurrent(r, p))'
    BY Zenon DEF ReadInv
  <2>1. /\ Reads(r, p) /\ seen'[r] = seen[r] /\ got'[r] = got[r]
        /\ StaysCached(r, p) /\ IsHeldIfLocked(p) /\ IsCurrent(r, p)
    BY Zenon, <1>e DEF ReadInv, Reads, ThreadTypes
  <2>3. StaysCached(r, p)'
    BY Zenon, <2>1, <1>q, <1>w, <1>h DEF StaysCached, PageTypes
  <2>4. IsHeldIfLocked(p)'
    BY Zenon, <2>1, <1>q, <1>w, <1>h, <1>o DEF IsHeldIfLocked, Holds
  <2>5. IsCurrent(r, p)'
    BY <2>1, <1>q, <1>e, <1>w, <1>h DEF IsCurrent, Changes
  <2> QED  BY Zenon, <2>3, <2>4, <2>5
<1>8. FuncInv'
  BY Zenon, <1>e DEF FuncInv, ThreadTypes
<1> QED  BY Zenon, <1>1, <1>2, <1>3, <1>4, <1>5, <1>6, <1>7, <1>8

\* A pin of an evicted page, which nobody reads, locks it to load it from the file.
LEMMA PinEvictedStep ==
  ASSUME IInv, NEW t \in Threads, PinEvicted(t)
  PROVE  IInv'
<1> USE DEF contents, slots, reading, reserving, evicting,
            IInv, Types, loading, loaded, readingPlaces, Places
<1>e. /\ pc[t] = "pin" /\ op[t] # "alloc" /\ word[page[t]].state = "EVICTED"
      /\ word' = [word EXCEPT ![page[t]] = withState(@, "LOCKED")]
      /\ pc' = [pc EXCEPT ![t] = "loop"]
      /\ UNCHANGED <<frame, file, latest, ops, op, page, victim, seen, got, evicted>>
      /\ UNCHANGED <<queue, insertCursor, evictionCursor, batch, cands>>
  BY Zenon DEF PinEvicted, reserve, goto, PlaceInv
<1>q. PICK q \in Pages : q = page[t]
  BY Zenon, <1>e DEF PlaceInv
<1>w. \A p \in Pages :
        /\ word'[p].version = word[p].version /\ word'[p].dirty = word[p].dirty
        /\ p = q => word'[p].state = "LOCKED"
        /\ p # q => word'[p] = word[p]
  BY <1>e, <1>q, WordFields DEF PageTypes
<1>h. \A u \in Threads, p \in Pages :
        /\ Pins(u, p)' <=> (Pins(u, p) \/ (u = t /\ p = q))
        /\ Evicts(u, p)' <=> Evicts(u, p)
        /\ pc'[u] = IF u = t THEN "loop" ELSE pc[u]
        /\ ~Pins(t, p)
  BY Zenon, <1>e, <1>q DEF Pins, Evicts, ThreadTypes
<1>o. /\ file[q] = latest[q] /\ word[q].state = "EVICTED"
      /\ \A u \in Threads : ~Pins(u, q) /\ ~Evicts(u, q)
  BY Zenon, <1>e, <1>q DEF LockInv, Holds, DataInv
<1>1. PageTypes'
  BY Zenon, <1>e, <1>q, WordTypes DEF PageTypes
<1>2. ThreadTypes'
  BY Zenon, <1>e DEF ThreadTypes
<1>3. QueueTypes'
  BY Zenon, <1>e DEF QueueTypes, ThreadTypes
<1>4. PlaceInv'
  BY Zenon, <1>e DEF PlaceInv, ThreadTypes
<1>5. LockInv'
  BY <1>w, <1>h, <1>q, <1>o DEF LockInv, Holds
<1>6. DataInv'
  <2>1. \A p \in Pages : p # q => (Cached(p)' <=> Cached(p))
    BY Zenon, <1>e, <1>q, <1>w DEF Cached, PageTypes
  <2> QED  BY <1>e, <1>q, <1>w, <1>h, <1>o, <2>1 DEF DataInv, Pins
<1>7. ReadInv'
  <2> SUFFICES ASSUME NEW r \in Threads, NEW p \in Pages, Reads(r, p)'
               PROVE  (StaysCached(r, p) /\ IsHeldIfLocked(p) /\ IsCurrent(r, p))'
    BY Zenon DEF ReadInv
  <2>1. /\ Reads(r, p) /\ seen'[r] = seen[r] /\ got'[r] = got[r]
        /\ StaysCached(r, p) /\ IsHeldIfLocked(p) /\ IsCurrent(r, p)
    BY Zenon, <1>e DEF ReadInv, Reads, ThreadTypes
  <2>2. p # q
    BY Zenon, <1>q, <1>e, <1>o, <2>1 DEF StaysCached, Reads
  <2>3. StaysCached(r, p)'
    BY Zenon, <2>1, <2>2, <1>q, <1>w, <1>h DEF StaysCached, PageTypes
  <2>4. IsHeldIfLocked(p)'
    BY Zenon, <2>1, <2>2, <1>q, <1>w, <1>h, <1>o DEF IsHeldIfLocked, Holds
  <2>5. IsCurrent(r, p)'
    BY <2>1, <2>2, <1>q, <1>e, <1>w, <1>h DEF IsCurrent, Changes
  <2> QED  BY Zenon, <2>3, <2>4, <2>5
<1>8. FuncInv'
  BY Zenon, <1>e DEF FuncInv, ThreadTypes
<1> QED  BY Zenon, <1>1, <1>2, <1>3, <1>4, <1>5, <1>6, <1>7, <1>8

\* The page is read into its frame: the file has the latest contents.
LEMMA PageReservedStep ==
  ASSUME IInv, NEW t \in Threads, Reserved(t), op[t] # "alloc"
  PROVE  IInv'
<1> USE DEF contents, slots, reading, reserving, evicting,
            IInv, Types, loading, loaded, readingPlaces, Places
<1>e. /\ pc[t] = "loop" /\ op[t] # "alloc" /\ page[t] \in Pages
      /\ frame' = [frame EXCEPT ![page[t]] = file[page[t]]]
      /\ word' = [word EXCEPT ![page[t]] = withDirty(@, 0)]
      /\ pc' = [pc EXCEPT ![t] = "insert"]
      /\ UNCHANGED <<file, latest, ops, op, page, victim, seen, got, evicted>>
      /\ UNCHANGED <<queue, insertCursor, evictionCursor, batch, cands>>
  BY Zenon DEF Reserved, goto, PlaceInv
<1>q. PICK q \in Pages : q = page[t]
  BY Zenon, <1>e DEF PlaceInv
<1>w. \A p \in Pages :
        /\ word'[p].version = word[p].version /\ word'[p].state = word[p].state
        /\ p = q => word'[p].dirty = 0
        /\ p # q => word'[p] = word[p]
  BY <1>e, <1>q, WordFields DEF PageTypes
<1>h. \A u \in Threads, p \in Pages :
        /\ Pins(u, p)' <=> Pins(u, p)
        /\ Evicts(u, p)' <=> Evicts(u, p)
        /\ pc'[u] = IF u = t THEN "insert" ELSE pc[u]
        /\ Pins(t, p) <=> p = q
  BY Zenon, <1>e, <1>q DEF Pins, Evicts, ThreadTypes
<1>o. /\ word[q].state = "LOCKED" /\ Pins(t, q) /\ pc[t] \in loading
      /\ file[q] = latest[q]
      /\ \A u \in Threads : (Pins(u, q) => u = t) /\ ~Evicts(u, q)
  <2>1. Pins(t, q) /\ pc[t] \in loading
    BY Zenon, <1>e, <1>q DEF Pins
  <2>2. word[q].state = "LOCKED" /\ file[q] = latest[q]
    BY Zenon, <2>1 DEF LockInv, Holds, DataInv
  <2>3. \A u \in Threads : (Pins(u, q) => u = t) /\ ~Evicts(u, q)
    BY Zenon, <2>1 DEF LockInv, Holds
  <2> QED  BY Zenon, <2>1, <2>2, <2>3
<1>1. PageTypes'
  BY Zenon, <1>e, <1>q, WordTypes DEF PageTypes, Content
<1>2. ThreadTypes'
  BY Zenon, <1>e DEF ThreadTypes
<1>3. QueueTypes'
  BY Zenon, <1>e DEF QueueTypes, ThreadTypes
<1>4. PlaceInv'
  BY Zenon, <1>e DEF PlaceInv, ThreadTypes
<1>5. LockInv'
  BY Zenon, <1>w, <1>h, <1>q, <1>o DEF LockInv, Holds
<1>6. DataInv'
  <2>1. Cached(q)'
    BY Zenon, <1>e, <1>q, <1>w, <1>o DEF Cached, PageTypes
  <2>2. \A p \in Pages : p # q => (Cached(p)' <=> Cached(p))
    BY Zenon, <1>e, <1>q, <1>w DEF Cached, PageTypes
  <2> QED  BY SMTT(30), <1>e, <1>q, <1>w, <1>h, <1>o, <2>1, <2>2 DEF DataInv, Pins
<1>7. ReadInv'
  <2> SUFFICES ASSUME NEW r \in Threads, NEW p \in Pages, Reads(r, p)'
               PROVE  (StaysCached(r, p) /\ IsHeldIfLocked(p) /\ IsCurrent(r, p))'
    BY Zenon DEF ReadInv
  <2>1. /\ Reads(r, p) /\ seen'[r] = seen[r] /\ got'[r] = got[r]
        /\ StaysCached(r, p) /\ IsHeldIfLocked(p) /\ IsCurrent(r, p)
    BY Zenon, <1>e DEF ReadInv, Reads, ThreadTypes
  <2>2. p # q
    BY Zenon, <1>q, <1>e, <1>o, <2>1 DEF StaysCached, Reads
  <2>3. StaysCached(r, p)'
    BY Zenon, <2>1, <2>2, <1>q, <1>w, <1>h DEF StaysCached, PageTypes
  <2>4. IsHeldIfLocked(p)'
    BY Zenon, <2>1, <2>2, <1>q, <1>w, <1>h, <1>o DEF IsHeldIfLocked, Holds
  <2>5. IsCurrent(r, p)'
    BY Zenon, <2>1, <2>2, <1>q, <1>e, <1>w, <1>h DEF IsCurrent, Changes
  <2> QED  BY Zenon, <2>3, <2>4, <2>5
<1>8. FuncInv'
  BY Zenon, <1>e DEF FuncInv, ThreadTypes
<1> QED  BY Zenon, <1>1, <1>2, <1>3, <1>4, <1>5, <1>6, <1>7, <1>8

\* A scan marks an unlocked page; marking changes neither version nor contents.
LEMMA ScanSlotStep ==
  ASSUME IInv, NEW t \in Threads, ScanSlot(t)
  PROVE  IInv'
<1> USE DEF contents, slots, reading, reserving, evicting,
            IInv, Types, loading, loaded, readingPlaces, Places
<1>b. /\ Head(batch[t]) \in Slots /\ Tail(batch[t]) \in Seq(Slots) /\ Len(batch[t]) \in Nat
      /\ Len(batch[t]) > 1 => Tail(batch[t]) # <<>>
      /\ Append(cands[t], Head(batch[t])) \in Seq(Slots)
  <2>1. batch[t] \in Seq(Slots) /\ batch[t] # <<>> /\ cands[t] \in Seq(Slots)
    BY Zenon DEF ScanSlot, QueueTypes
  <2>2. Head(batch[t]) \in Slots /\ Tail(batch[t]) \in Seq(Slots)
    BY <2>1
  <2>3. Len(Tail(batch[t])) = Len(batch[t]) - 1 /\ Len(batch[t]) \in Nat
    BY <2>1
  <2>4. Len(batch[t]) > 1 => Tail(batch[t]) # <<>>
    <3>1. \A m \in Nat : m > 1 => m - 1 # 0
      OBVIOUS
    <3>2. Len(<<>>) = 0
      BY Zenon
    <3> QED  BY Zenon, <2>3, <3>1, <3>2
  <2>5. Append(cands[t], Head(batch[t])) \in Seq(Slots)
    BY <2>1, <2>2
  <2> QED  BY Zenon, <2>2, <2>3, <2>4, <2>5
<1>e. /\ pc[t] = "scan"
      /\ word' = [p \in Pages |-> IF p = queue[Head(batch[t])] /\ word[p].state = "UNLOCKED"
                                  THEN withState(word[p], "MARKED") ELSE word[p]]
      /\ \E place \in {"scan", "next", "try"} :
            pc' = [pc EXCEPT ![t] = place] /\ (place = "scan" => Len(batch[t]) > 1)
      /\ \E found \in {cands[t], Append(cands[t], Head(batch[t]))} :
            cands' = [cands EXCEPT ![t] = found]
      /\ batch' = [batch EXCEPT ![t] = Tail(@)]
      /\ UNCHANGED <<frame, file, latest, ops, op, page, victim, seen, got, evicted>>
      /\ UNCHANGED <<queue, insertCursor, evictionCursor>>
  <2> DEFINE q == queue[Head(batch[t])]
             scan == IF q # None /\ word[q].state = "MARKED"
                     THEN Append(cands[t], Head(batch[t])) ELSE cands[t]
             done == Len(batch[t]) = 1 /\ scan = <<>>
  <2>1. \E place \in {"scan", "next", "try"} :
          pc' = [pc EXCEPT ![t] = place] /\ (place = "scan" => Len(batch[t]) > 1)
    <3>1. pc' = [pc EXCEPT ![t] = CASE Len(batch[t]) > 1 -> "scan" [] done -> "next" [] OTHER -> "try"]
      BY Zenon DEF ScanSlot, goto
    <3>2. Len(batch[t]) > 1 => ~(Len(batch[t]) = 1)
      <4>1. \A m \in Nat : m > 1 => m # 1
        OBVIOUS
      <4> QED  BY Zenon, <1>b, <4>1
    <3>3. CASE Len(batch[t]) > 1
      <4>1. pc' = [pc EXCEPT ![t] = "scan"]
        BY Zenon, <3>1, <3>2, <3>3
      <4> QED  BY Zenon, <3>3, <4>1
    <3>4. CASE ~(Len(batch[t]) > 1) /\ done
      <4> HIDE DEF done
      <4>1. pc' = [pc EXCEPT ![t] = "next"]
        BY Zenon, <3>1, <3>4
      <4> QED  BY Zenon, <4>1
    <3>5. CASE ~(Len(batch[t]) > 1) /\ ~done
      <4> HIDE DEF done
      <4>1. pc' = [pc EXCEPT ![t] = "try"]
        BY Zenon, <3>1, <3>5
      <4> QED  BY Zenon, <4>1
    <3> QED  BY Zenon, <3>3, <3>4, <3>5
  <2>2. \E found \in {cands[t], Append(cands[t], Head(batch[t]))} :
          cands' = [cands EXCEPT ![t] = found]
    BY Zenon DEF ScanSlot
  <2> QED  BY Zenon, <2>1, <2>2 DEF ScanSlot
<1>w. \A p \in Pages :
        /\ word'[p].version = word[p].version /\ word'[p].dirty = word[p].dirty
        /\ \/ word'[p].state = word[p].state
           \/ word[p].state = "UNLOCKED" /\ word'[p].state = "MARKED"
  BY <1>e, WordFields DEF PageTypes
<1>h. \A u \in Threads, p \in Pages :
        /\ Pins(u, p)' <=> Pins(u, p)
        /\ Evicts(u, p)' <=> Evicts(u, p)
        /\ pc'[u] \in loading <=> pc[u] \in loading
        /\ \A place \in loaded : pc'[u] = place <=> pc[u] = place
  BY Zenon, <1>e DEF Pins, Evicts, ThreadTypes
<1>1. PageTypes'
  BY Zenon, <1>e, WordTypes DEF PageTypes
<1>2. ThreadTypes'
  BY Zenon, <1>e DEF ThreadTypes
<1>3. QueueTypes'
  <2>1. PICK place \in {"scan", "next", "try"} :
          pc' = [pc EXCEPT ![t] = place] /\ (place = "scan" => Len(batch[t]) > 1)
    BY Zenon, <1>e
  <2>2. PICK found \in {cands[t], Append(cands[t], Head(batch[t]))} :
          cands' = [cands EXCEPT ![t] = found]
    BY Zenon, <1>e
  <2>3. found \in Seq(Slots)
    BY Zenon, <1>b DEF QueueTypes
  <2>4. cands' \in [Threads -> Seq(Slots)] /\ batch' \in [Threads -> Seq(Slots)]
    BY Zenon, <2>2, <2>3, <1>b, <1>e DEF QueueTypes
  <2>5. ASSUME NEW u \in Threads
        PROVE  /\ pc'[u] \in {"scan", "sift", "drop"} => batch'[u] # <<>>
               /\ pc'[u] \in {"lock", "recheck", "clear"} => cands'[u] # <<>>
    <3>1. CASE u = t
      BY Zenon, <3>1, <2>1, <2>2, <1>b, <1>e DEF QueueTypes, ThreadTypes
    <3>2. CASE u # t
      BY Zenon, <3>2, <2>1, <2>2, <1>e DEF QueueTypes, ThreadTypes
    <3> QED  BY Zenon, <3>1, <3>2
  <2> QED  BY Zenon, <2>4, <2>5, <1>e DEF QueueTypes
<1>4. PlaceInv'
  BY Zenon, <1>e DEF PlaceInv, ThreadTypes
<1>5. LockInv'
  BY Zenon, <1>w, <1>h DEF LockInv, Holds
<1>6. DataInv'
  BY <1>e, <1>w, <1>h DEF DataInv, Cached
<1>7. ReadInv'
  <2> SUFFICES ASSUME NEW r \in Threads, NEW p \in Pages, Reads(r, p)'
               PROVE  (StaysCached(r, p) /\ IsHeldIfLocked(p) /\ IsCurrent(r, p))'
    BY Zenon DEF ReadInv
  <2>1. Reads(r, p) /\ StaysCached(r, p) /\ IsHeldIfLocked(p) /\ IsCurrent(r, p)
    BY Zenon, <1>e DEF ReadInv, Reads, ThreadTypes
  <2>2. StaysCached(r, p)'
    BY Zenon, <2>1, <1>e, <1>w, <1>h DEF StaysCached
  <2>3. IsHeldIfLocked(p)'
    BY Zenon, <2>1, <1>w, <1>h DEF IsHeldIfLocked, Holds
  <2>4. IsCurrent(r, p)'
    BY Zenon, <2>1, <1>e, <1>w, <1>h DEF IsCurrent, Changes
  <2> QED  BY Zenon, <2>2, <2>3, <2>4
<1>8. FuncInv'
  BY <1>e, <1>w DEF FuncInv, ThreadTypes
<1> QED  BY Zenon, <1>1, <1>2, <1>3, <1>4, <1>5, <1>6, <1>7, <1>8

=============================================================================
