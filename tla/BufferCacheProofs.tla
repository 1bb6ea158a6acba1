------------------------- MODULE BufferCacheProofs -------------------------
(***************************************************************************)
(* Proofs for BufferCache, for any sets of threads, buffers, blocks and    *)
(* contents and any number of calls: a block is in one buffer, a buffer    *)
(* has one user, who is on the block it asked for, the records in the      *)
(* queues of the buffers are live, no write is lost between a buffer and   *)
(* the disk, and a reader gets what was written last.                      *)
(***************************************************************************)
EXTENDS BufferCache, TLAPS

\* Where a thread still has to find its buffer.
Getting(t) ==
  \/ pc[t] \in {"get", "wait", "asleep"}
  \/ pc[t] \in {"sync", "sync_next", "sync_clear"} /\ ret[t] = "get"

\* A thread that uses a buffer, waits for it or notifies its waiters has one,
\* and a thread that looks for one is in a read or a write.
Place(t) ==
  /\ Using(t) \/ pc[t] \in {"wait", "asleep", "notify"} => cur[t] \in Bufs
  /\ Getting(t) => call[t].op \in {"read", "write"}

Places == \A t \in Threads : Place(t)

UnusedIsFree == \A b \in Bufs : "UNUSED" \in flags[b] => "BUSY" \notin flags[b]

Shape == TypeOK /\ Places /\ UserOwnsBuffer /\ UnusedIsFree /\ OneBufferPerBlock

IInv == Shape /\ WaiterRecordsLive

\* A step of a thread leaves the locals of the others alone.
Others(t) ==
  \A u \in Threads \ {t} :
    pc'[u] = pc[u] /\ call'[u] = call[u] /\ cur'[u] = cur[u] /\ ret'[u] = ret[u]

\* A step that gives no buffer to anybody: neither the blocks nor the users of
\* the buffers change, and the thread does not get hold of a buffer.
Quiet(t) ==
  /\ blkno' = blkno /\ usr' = usr
  /\ \A b \in Bufs : /\ "BUSY" \in flags'[b] <=> "BUSY" \in flags[b]
                     /\ "UNUSED" \in flags'[b] <=> "UNUSED" \in flags[b]
  /\ Place(t)'
  /\ Using(t)' => Using(t) /\ cur'[t] = cur[t] /\ call'[t] = call[t]
-----------------------------------------------------------------------------
\* Head and Tail by position.
LEMMA HeadAt ==
  ASSUME NEW S, NEW s \in Seq(S), s # <<>>
  PROVE  Head(s) = s[1] /\ 1 \in 1 .. Len(s)
OBVIOUS

\* The rest of a queue is the queue moved up by one.
LEMMA TailAt ==
  ASSUME NEW S, NEW s \in Seq(S), s # <<>>
  PROVE  /\ Tail(s) \in Seq(S) /\ Len(Tail(s)) = Len(s) - 1
         /\ \A i \in 1 .. Len(s) - 1 : Tail(s)[i] = s[i + 1]
OBVIOUS

\* Every step leaves the locals of the others alone.
LEMMA OthersStand ==
  ASSUME TypeOK, NEW t \in Threads, begin(t) \/ Step(t)
  PROVE  Others(t)
<1> USE DEF TypeOK, Others, Set, Goto
<1>1. CASE begin(t)
  BY <1>1 DEF begin
<1>2. CASE get_cached(t)
  BY <1>2 DEF get_cached
<1>3. CASE get_busy(t)
  BY <1>3 DEF get_busy
<1>4. CASE get_fresh(t)
  BY <1>4 DEF get_fresh
<1>5. CASE get_none(t)
  BY <1>5 DEF get_none
<1>6. CASE wait_buffer(t)
  BY <1>6 DEF wait_buffer
<1>7. CASE woken(t)
  BY <1>7 DEF woken
<1>8. CASE read_check(t)
  BY <1>8 DEF read_check
<1>9. CASE read_synced(t)
  BY <1>9 DEF read_synced
<1>10. CASE update_buffer(t)
  BY <1>10 DEF update_buffer
<1>11. CASE write_begin(t)
  BY <1>11 DEF write_begin
<1>12. CASE write_copy(t)
  BY <1>12 DEF write_copy
<1>13. CASE write_mark(t)
  BY <1>13 DEF write_mark
<1>14. CASE cache_buffer(t)
  BY <1>14 DEF cache_buffer
<1>15. CASE release_buffer(t)
  BY <1>15 DEF release_buffer
<1>16. CASE notify_buffer(t)
  BY <1>16 DEF notify_buffer
<1>17. CASE done(t)
  BY <1>17 DEF done
<1>18. CASE sync_enter(t)
  BY <1>18 DEF sync_enter
<1>19. CASE sync_write(t)
  BY <1>19 DEF sync_write
<1>20. CASE sync_clear(t)
  BY <1>20 DEF sync_clear
<1>21. CASE sync_leave(t)
  BY <1>21 DEF sync_leave
<1> HIDE DEF TypeOK, Others
<1> QED
  BY <1>1, <1>2, <1>3, <1>4, <1>5, <1>6, <1>7, <1>8, <1>9, <1>10, <1>11, <1>12,
     <1>13, <1>14, <1>15, <1>16, <1>17, <1>18, <1>19, <1>20, <1>21, Zenon DEF Step

\* What holds of the place of the other threads goes on to hold.
LEMMA PlacesKept ==
  ASSUME Places, NEW t \in Threads, Others(t), Place(t)'
  PROVE  Places'
<1> SUFFICES ASSUME NEW u \in Threads \ {t}
             PROVE  Place(u)'
  BY DEF Places
<1>1. Place(u)
  BY DEF Places
<1>2. pc'[u] = pc[u] /\ call'[u] = call[u] /\ cur'[u] = cur[u] /\ ret'[u] = ret[u]
  BY DEF Others
<1> QED
  BY <1>1, <1>2 DEF Place, Using, Getting

\* The buffer of another thread was its own before the step.
LEMMA OtherUsers ==
  ASSUME Shape, NEW t \in Threads, Others(t), NEW u \in Threads \ {t}, Using(u)'
  PROVE  /\ Using(u) /\ cur'[u] = cur[u] /\ call'[u] = call[u]
         /\ cur[u] \in Bufs /\ usr[cur[u]] = u /\ "BUSY" \in flags[cur[u]]
         /\ blkno[cur[u]] = call[u].blk
<1>1. Using(u) /\ cur'[u] = cur[u] /\ call'[u] = call[u]
  BY DEF Others, Using
<1>2. cur[u] \in Bufs
  BY <1>1 DEF Shape, Places, Place
<1> QED
  BY <1>1, <1>2 DEF Shape, UserOwnsBuffer

\* A quiet step keeps the shape.
LEMMA QuietStep ==
  ASSUME Shape, TypeOK', NEW t \in Threads, Others(t), Quiet(t)
  PROVE  Shape'
<1>1. Places'
  BY PlacesKept DEF Shape, Quiet
<1>2. UserOwnsBuffer'
  <2> SUFFICES ASSUME NEW u \in Threads, Using(u)'
               PROVE  /\ usr[cur'[u]] = u /\ "BUSY" \in flags'[cur'[u]]
                      /\ blkno[cur'[u]] = call'[u].blk
    BY DEF Quiet, UserOwnsBuffer
  <2>1. CASE u = t
    BY <2>1 DEF Quiet, Shape, Places, Place, UserOwnsBuffer
  <2>2. CASE u # t
    BY <2>2, OtherUsers DEF Quiet
  <2> QED
    BY <2>1, <2>2
<1>3. UnusedIsFree' /\ OneBufferPerBlock'
  BY DEF Shape, Quiet, UnusedIsFree, OneBufferPerBlock, Holds
<1> QED
  BY <1>1, <1>2, <1>3 DEF Shape

\* Most steps are quiet.
LEMMA QuietSteps ==
  ASSUME Shape, NEW t \in Threads, begin(t) \/ Step(t),
         ~ get_cached(t), ~ get_fresh(t), ~ release_buffer(t)
  PROVE  TypeOK' /\ Quiet(t)
<1>0. TypeOK /\ Place(t)
  BY DEF Shape, Places
<1> USE DEF TypeOK, Quiet, Place, Using, Getting, Set, Goto, Locations, bufvars
<1>1. CASE begin(t)
  <2>1. PICK c \in Calls :
          /\ c.op # "none" /\ call' = [call EXCEPT ![t] = c]
          /\ pc' = [pc EXCEPT ![t] = IF c.op = "sync" THEN "sync" ELSE "get"]
    BY <1>0, <1>1, Zenon DEF begin
  <2>2. c.op \in {"read", "write", "sync"}
    BY <2>1 DEF Calls
  <2> QED
    BY <1>0, <1>1, <2>1, <2>2 DEF begin
<1>2. CASE get_busy(t)
  BY <1>0, <1>2 DEF get_busy
<1>3. CASE get_none(t)
  BY <1>0, <1>3 DEF get_none
<1>4. CASE wait_buffer(t)
  <2>1. cur[t] \in Bufs /\ Append(wq[cur[t]], t) \in Seq(Threads)
    BY <1>0, <1>4 DEF wait_buffer
  <2> QED
    BY <1>0, <1>4, <2>1 DEF wait_buffer
<1>5. CASE woken(t)
  BY <1>0, <1>5 DEF woken
<1>6. CASE read_check(t)
  BY <1>0, <1>6 DEF read_check
<1>7. CASE read_synced(t)
  BY <1>0, <1>7 DEF read_synced
<1>8. CASE update_buffer(t)
  <2>1. \/ flags' = flags
        \/ flags' = [flags EXCEPT ![cur[t]] = @ \cup {"VALID"}]
    BY <1>8 DEF update_buffer
  <2>2. /\ flags' \in [Bufs -> SUBSET Flags]
        /\ \A b \in Bufs : /\ "BUSY" \in flags'[b] <=> "BUSY" \in flags[b]
                           /\ "UNUSED" \in flags'[b] <=> "UNUSED" \in flags[b]
    <3>1. CASE flags' = flags
      BY <1>0, <3>1
    <3>2. CASE flags' = [flags EXCEPT ![cur[t]] = @ \cup {"VALID"}]
      BY <1>0, <3>2, Zenon DEF Flags
    <3> QED
      BY <2>1, <3>1, <3>2
  <2> QED
    BY <1>0, <1>8, <2>2 DEF update_buffer
<1>9. CASE write_begin(t)
  BY <1>0, <1>9 DEF write_begin
<1>10. CASE write_copy(t)
  BY <1>0, <1>10 DEF write_copy
<1>11. CASE write_mark(t)
  <2>1. /\ flags' \in [Bufs -> SUBSET Flags]
        /\ \A b \in Bufs : /\ "BUSY" \in flags'[b] <=> "BUSY" \in flags[b]
                           /\ "UNUSED" \in flags'[b] <=> "UNUSED" \in flags[b]
    BY <1>0, <1>11 DEF write_mark, Flags
  <2> QED
    BY <1>0, <1>11, <2>1 DEF write_mark
<1>12. CASE cache_buffer(t)
  BY <1>0, <1>12 DEF cache_buffer
<1>13. CASE notify_buffer(t)
  <2>1. cur[t] \in Bufs /\ wq[cur[t]] \in Seq(Threads)
    BY <1>0, <1>13 DEF notify_buffer
  <2>2. wq[cur[t]] # <<>> => Tail(wq[cur[t]]) \in Seq(Threads)
    BY <2>1, TailAt
  <2>3. \/ wq' = wq
        \/ wq[cur[t]] # <<>> /\ wq' = [wq EXCEPT ![cur[t]] = Tail(wq[cur[t]])]
    BY <1>13 DEF notify_buffer
  <2>4. wq' \in [Bufs -> Seq(Threads)]
    BY <1>0, <2>1, <2>2, <2>3, Zenon
  <2> QED
    BY <1>0, <1>13, <2>4 DEF notify_buffer
<1>14. CASE done(t)
  BY <1>0, <1>14, CacheAssumption DEF done, NoCall, Calls
<1>15. CASE sync_enter(t)
  BY <1>0, <1>15 DEF sync_enter
<1>16. CASE sync_write(t)
  <2>1. pc[t] = "sync_next" /\ (pc' = pc \/ pc' = [pc EXCEPT ![t] = "sync_clear"])
    BY <1>16, Zenon DEF sync_write
  <2> QED
    BY <1>0, <1>16, <2>1 DEF sync_write
<1>17. CASE sync_clear(t)
  <2>1. /\ flags' \in [Bufs -> SUBSET Flags]
        /\ \A b \in Bufs : /\ "BUSY" \in flags'[b] <=> "BUSY" \in flags[b]
                           /\ "UNUSED" \in flags'[b] <=> "UNUSED" \in flags[b]
    BY <1>0, <1>17, Zenon DEF sync_clear, Flags
  <2> QED
    BY <1>0, <1>17, <2>1 DEF sync_clear
<1>18. CASE sync_leave(t)
  BY <1>0, <1>18, Zenon DEF sync_leave
<1> HIDE DEF TypeOK, Quiet
<1> QED
  BY <1>1, <1>2, <1>3, <1>4, <1>5, <1>6, <1>7, <1>8, <1>9, <1>10, <1>11, <1>12,
     <1>13, <1>14, <1>15, <1>16, <1>17, <1>18, Zenon DEF Step

\* get_buffer gives a buffer to the thread, cached ...
LEMMA get_cached_keeps ==
  ASSUME Shape, NEW t \in Threads, Others(t), get_cached(t)
  PROVE  Shape'
<1>0. TypeOK /\ Place(t)
  BY DEF Shape, Places
<1>1. PICK b \in Bufs :
        /\ Holds(b, call[t].blk) /\ "BUSY" \notin flags[b]
        /\ flags' = [flags EXCEPT ![b] = @ \cup {"BUSY"}]
        /\ usr' = [usr EXCEPT ![b] = t] /\ cur' = [cur EXCEPT ![t] = b]
  BY Zenon DEF get_cached, Set
<1>2. /\ pc[t] = "get" /\ pc'[t] \in {"read", "write"} /\ TypeOK'
      /\ blkno' = blkno /\ call' = call
  BY <1>0, <1>1 DEF get_cached, Set, Goto, TypeOK, Place, Getting, Locations, Flags
<1>3. /\ flags'[b] = flags[b] \cup {"BUSY"} /\ usr'[b] = t /\ cur'[t] = b
      /\ \A c \in Bufs \ {b} : flags'[c] = flags[c] /\ usr'[c] = usr[c]
  BY <1>0, <1>1 DEF TypeOK
<1>4. Places'
  <2>1. Place(t)'
    BY <1>2, <1>3 DEF Place, Using, Getting
  <2> QED
    BY <2>1, PlacesKept DEF Shape
<1>5. ASSUME NEW u \in Threads \ {t}, Using(u)'
      PROVE  /\ usr'[cur'[u]] = u /\ "BUSY" \in flags'[cur'[u]]
             /\ blkno[cur'[u]] = call[u].blk
  BY <1>1, <1>3, <1>5, OtherUsers
<1>6. UserOwnsBuffer'
  BY <1>1, <1>2, <1>3, <1>5 DEF UserOwnsBuffer, Holds
<1>7. UnusedIsFree' /\ OneBufferPerBlock'
  BY <1>1, <1>2, <1>3 DEF Shape, UnusedIsFree, OneBufferPerBlock, Holds
<1> QED
  BY <1>2, <1>4, <1>6, <1>7 DEF Shape

\* ... or taken over from another block, which nobody uses.
LEMMA get_fresh_keeps ==
  ASSUME Shape, NEW t \in Threads, Others(t), get_fresh(t)
  PROVE  Shape'
<1>0. TypeOK /\ Place(t)
  BY DEF Shape, Places
<1>1. PICK b \in Bufs :
        /\ Usable(b) /\ flags' = [flags EXCEPT ![b] = {"BUSY"}]
        /\ blkno' = [blkno EXCEPT ![b] = call[t].blk]
        /\ usr' = [usr EXCEPT ![b] = t] /\ cur' = [cur EXCEPT ![t] = b]
  BY Zenon DEF get_fresh, LastUsable, Set
<1>2. /\ pc[t] = "get" /\ pc'[t] \in {"read", "write"} /\ call' = call
      /\ \A c \in Bufs : ~ Holds(c, call[t].blk)
      /\ call[t].blk \in Blocks
  BY <1>0 DEF get_fresh, Set, Goto, TypeOK, Place, Getting, Calls
<1>3. TypeOK'
  BY <1>0, <1>1, <1>2 DEF get_fresh, Set, Goto, TypeOK, Locations, Flags
<1>4. /\ flags'[b] = {"BUSY"} /\ usr'[b] = t /\ cur'[t] = b /\ blkno'[b] = call[t].blk
      /\ \A c \in Bufs \ {b} : /\ flags'[c] = flags[c] /\ usr'[c] = usr[c]
                               /\ blkno'[c] = blkno[c]
  BY <1>0, <1>1 DEF TypeOK
<1>5. "BUSY" \notin flags[b]
  BY <1>1 DEF Usable, Shape, UnusedIsFree
<1>6. Places'
  <2>1. Place(t)'
    BY <1>2, <1>4 DEF Place, Using, Getting
  <2> QED
    BY <2>1, PlacesKept DEF Shape
<1>7. ASSUME NEW u \in Threads \ {t}, Using(u)'
      PROVE  /\ usr'[cur'[u]] = u /\ "BUSY" \in flags'[cur'[u]]
             /\ blkno'[cur'[u]] = call[u].blk
  BY <1>4, <1>5, <1>7, OtherUsers
<1>8. UserOwnsBuffer'
  BY <1>2, <1>4, <1>7 DEF UserOwnsBuffer
<1>9. UnusedIsFree' /\ OneBufferPerBlock'
  BY <1>2, <1>4 DEF Shape, UnusedIsFree, OneBufferPerBlock, Holds
<1> QED
  BY <1>3, <1>6, <1>8, <1>9 DEF Shape

\* release_buffer takes it back.
LEMMA release_buffer_keeps ==
  ASSUME Shape, NEW t \in Threads, Others(t), release_buffer(t)
  PROVE  Shape'
<1> DEFINE b == cur[t]
<1>0. TypeOK /\ Place(t)
  BY DEF Shape, Places
<1>1. pc[t] = "release" /\ Using(t) /\ b \in Bufs
  BY <1>0, Zenon DEF release_buffer, Using, Place
<1>2. /\ pc'[t] = "notify" /\ TypeOK'
      /\ flags' = [flags EXCEPT ![b] = @ \ {"BUSY"}]
      /\ usr' = [usr EXCEPT ![b] = NULL]
      /\ blkno' = blkno /\ call' = call /\ cur' = cur
  BY <1>0, Zenon DEF release_buffer, Set, Goto, TypeOK, Locations
<1>3. /\ flags'[b] = flags[b] \ {"BUSY"}
      /\ \A c \in Bufs \ {b} : flags'[c] = flags[c] /\ usr'[c] = usr[c]
  BY <1>0, <1>1, <1>2 DEF TypeOK
<1>4. Places'
  <2>1. Place(t)'
    BY <1>1, <1>2 DEF Place, Using, Getting
  <2> QED
    BY <2>1, PlacesKept DEF Shape
<1>5. usr[b] = t /\ ~ Using(t)'
  BY <1>1, <1>2 DEF Shape, UserOwnsBuffer, Using
<1>6. UserOwnsBuffer'
  <2>1. ASSUME NEW u \in Threads \ {t}, Using(u)'
        PROVE  /\ usr'[cur[u]] = u /\ "BUSY" \in flags'[cur[u]]
               /\ blkno[cur[u]] = call[u].blk
    BY <1>3, <1>5, <2>1, OtherUsers
  <2> QED
    BY <1>2, <1>5, <2>1 DEF UserOwnsBuffer
<1>7. UnusedIsFree' /\ OneBufferPerBlock'
  BY <1>1, <1>2, <1>3 DEF Shape, UnusedIsFree, OneBufferPerBlock, Holds
<1> QED
  BY <1>2, <1>4, <1>6, <1>7 DEF Shape

\* The records in the queues of the buffers stay live.
LEMMA WaitersKept ==
  ASSUME IInv, NEW t \in Threads, Others(t), begin(t) \/ Step(t)
  PROVE  WaiterRecordsLive'
<1>0. TypeOK /\ WaiterRecordsLive /\ Place(t)
  BY DEF IInv, Shape, Places
<1>1. ASSUME NEW b \in Bufs, NEW i \in 1 .. Len(wq[b])
      PROVE  wq[b][i] \in Threads
  BY <1>0 DEF TypeOK
<1>2. CASE wait_buffer(t)
  <2>1. /\ cur[t] \in Bufs /\ wq[cur[t]] \in Seq(Threads)
        /\ pc[t] = "wait" /\ pc'[t] = "asleep" /\ cur' = cur
        /\ asleep' = asleep \cup {t}
        /\ wq'[cur[t]] = Append(wq[cur[t]], t)
        /\ \A b \in Bufs \ {cur[t]} : wq'[b] = wq[b]
    BY <1>0, <1>2 DEF wait_buffer, TypeOK, Place, Set, Goto
  <2> SUFFICES ASSUME NEW b \in Bufs, NEW i \in 1 .. Len(wq'[b])
               PROVE  LET u == wq'[b][i] IN
                      /\ pc'[u] = "asleep" /\ u \in asleep' /\ cur'[u] = b
                      /\ \A j \in 1 .. Len(wq'[b]) : wq'[b][j] = u => i = j
    BY DEF WaiterRecordsLive
  <2>2. ASSUME NEW j \in 1 .. Len(wq[b])
        PROVE  wq[b][j] # t /\ pc'[wq[b][j]] = "asleep" /\ wq[b][j] \in asleep'
               /\ cur'[wq[b][j]] = b
    <3>1. wq[b][j] \in Threads
      BY <1>0 DEF TypeOK
    <3>2. pc[wq[b][j]] = "asleep" /\ wq[b][j] \in asleep /\ cur[wq[b][j]] = b
      BY <1>0, <1>1, Zenon DEF WaiterRecordsLive
    <3>3. wq[b][j] # t
      BY <2>1, <3>2, Zenon
    <3> QED
      BY <2>1, <3>1, <3>2, <3>3, Zenon DEF Others
  <2>3. CASE b # cur[t]
    <3>1. wq'[b] = wq[b]
      BY <2>1, <2>3, Zenon
    <3>2. \A j \in 1 .. Len(wq[b]) : wq[b][j] = wq[b][i] => i = j
      BY <1>0, <3>1 DEF WaiterRecordsLive
    <3> QED
      BY <2>2, <3>1, <3>2, Zenon
  <2>4. CASE b = cur[t]
    <3>0. wq[b] \in Seq(Threads) /\ wq'[b] = Append(wq[b], t)
      BY <2>1, <2>4
    <3>1. /\ Len(wq[b]) \in Nat /\ Len(wq'[b]) = Len(wq[b]) + 1
          /\ wq'[b][Len(wq[b]) + 1] = t
          /\ \A j \in 1 .. Len(wq[b]) : wq'[b][j] = wq[b][j]
      BY <3>0
    <3>2. CASE i = Len(wq[b]) + 1
      <4>2. ASSUME NEW j \in 1 .. Len(wq'[b]), wq'[b][j] = t
            PROVE  i = j
        <5>1. j \in 1 .. Len(wq[b]) \/ j = Len(wq[b]) + 1
          BY <3>1
        <5>2. j \notin 1 .. Len(wq[b])
          BY <2>2, <3>1, <4>2
        <5> QED
          BY <3>2, <5>1, <5>2
      <4> QED
        BY <2>1, <2>4, <3>1, <3>2, <4>2, Zenon
    <3>3. CASE i \in 1 .. Len(wq[b])
      <4>1. \A j \in 1 .. Len(wq[b]) : wq[b][j] = wq[b][i] => i = j
        BY <1>0, <3>3 DEF WaiterRecordsLive
      <4>2. ASSUME NEW j \in 1 .. Len(wq'[b]), wq'[b][j] = wq'[b][i]
            PROVE  i = j
        <5>1. j \in 1 .. Len(wq[b]) \/ j = Len(wq[b]) + 1
          BY <3>1
        <5>2. j # Len(wq[b]) + 1
          BY <2>2, <3>1, <3>3, <4>2, Zenon
        <5> QED
          BY <3>1, <3>3, <4>1, <4>2, <5>1, <5>2
      <4> QED
        BY <2>2, <3>1, <3>3, <4>2
    <3>4. i = Len(wq[b]) + 1 \/ i \in 1 .. Len(wq[b])
      BY <3>1
    <3> QED
      BY <3>2, <3>3, <3>4
  <2> QED
    BY <2>3, <2>4
<1>3. CASE notify_buffer(t) /\ wq[cur[t]] # <<>>
  <2>1. /\ cur[t] \in Bufs /\ wq[cur[t]] \in Seq(Threads)
        /\ pc[t] = "notify"
        /\ asleep' = asleep \ {Head(wq[cur[t]])}
        /\ wq'[cur[t]] = Tail(wq[cur[t]])
        /\ \A b \in Bufs \ {cur[t]} : wq'[b] = wq[b]
    BY <1>0, <1>3 DEF notify_buffer, TypeOK, Place, Set, Goto
  <2> DEFINE h == Head(wq[cur[t]])
  <2>2. h = wq[cur[t]][1] /\ 1 \in 1 .. Len(wq[cur[t]])
    BY <1>3, <2>1, HeadAt, Zenon
  <2> SUFFICES ASSUME NEW b \in Bufs, NEW i \in 1 .. Len(wq'[b])
               PROVE  LET u == wq'[b][i] IN
                      /\ pc'[u] = "asleep" /\ u \in asleep' /\ cur'[u] = b
                      /\ \A j \in 1 .. Len(wq'[b]) : wq'[b][j] = u => i = j
    BY DEF WaiterRecordsLive
  <2>3. ASSUME NEW j \in 1 .. Len(wq[b])
        PROVE  /\ pc'[wq[b][j]] = "asleep" /\ cur'[wq[b][j]] = b
               /\ wq[b][j] \in asleep /\ cur[wq[b][j]] = b
    <3>1. wq[b][j] \in Threads
      BY <1>0 DEF TypeOK
    <3>2. pc[wq[b][j]] = "asleep" /\ wq[b][j] \in asleep /\ cur[wq[b][j]] = b
      BY <1>0, <1>1, Zenon DEF WaiterRecordsLive
    <3>3. wq[b][j] # t
      BY <2>1, <3>2
    <3> QED
      BY <3>1, <3>2, <3>3, Zenon DEF Others
  <2>4. CASE b # cur[t]
    <3>1. cur[h] = cur[t]
      BY <1>0, <2>1, <2>2 DEF WaiterRecordsLive
    <3> QED
      <4>1. wq'[b] = wq[b]
        BY <2>1, <2>4
      <4>2. wq[b][i] # h
        BY <2>3, <2>4, <3>1, <4>1
      <4>3. \A j \in 1 .. Len(wq[b]) : wq[b][j] = wq[b][i] => i = j
        BY <1>0, <4>1 DEF WaiterRecordsLive
      <4> QED
        BY <2>1, <2>3, <4>1, <4>2, <4>3, Zenon
  <2>5. CASE b = cur[t]
    <3>1. /\ Len(wq'[b]) = Len(wq[b]) - 1
          /\ \A j \in 1 .. Len(wq[b]) - 1 : wq'[b][j] = wq[b][j + 1]
      <4>1. wq'[b] = Tail(wq[b]) /\ wq[b] \in Seq(Threads) /\ wq[b] # <<>>
        BY <1>3, <2>1, <2>5
      <4> QED
        BY <4>1, TailAt
    <3>2. ASSUME NEW j \in 1 .. Len(wq[b]) - 1
          PROVE  wq[b][j + 1] # h /\ j + 1 \in 1 .. Len(wq[b])
      BY <1>0, <2>1, <2>2, <2>5 DEF WaiterRecordsLive
    <3>3. i + 1 \in 1 .. Len(wq[b]) /\ wq'[b][i] = wq[b][i + 1]
      BY <2>1, <2>5, <3>1
    <3>4. \A j \in 1 .. Len(wq[b]) : wq[b][j] = wq[b][i + 1] => i + 1 = j
      BY <1>0, <3>3, Zenon DEF WaiterRecordsLive
    <3>5. wq[b][i + 1] # h
      BY <2>1, <2>5, <3>1, <3>2
    <3>6. ASSUME NEW j \in 1 .. Len(wq'[b]), wq'[b][j] = wq'[b][i]
          PROVE  i = j
      <4>1. Len(wq[b]) \in Nat
        BY <2>1, <2>5
      <4>2. j + 1 \in 1 .. Len(wq[b]) /\ wq'[b][j] = wq[b][j + 1]
        BY <3>1, <4>1
      <4> QED
        BY <3>3, <3>4, <3>6, <4>1, <4>2
    <3> QED
      BY <2>1, <2>3, <2>5, <3>3, <3>5, <3>6, Zenon
  <2> QED
    BY <2>4, <2>5
<1>4. CASE ~ wait_buffer(t) /\ ~ (notify_buffer(t) /\ wq[cur[t]] # <<>>)
  <2>1. UNCHANGED <<wq, asleep>> /\ (pc[t] # "asleep" \/ t \notin asleep)
    BY <1>4, Zenon DEF Step, begin, get_cached, get_busy, get_fresh, get_none, woken,
       read_check, read_synced, update_buffer, write_begin, write_copy,
       write_mark, cache_buffer, release_buffer, notify_buffer, done,
       sync_enter, sync_write, sync_clear, sync_leave, bufvars
  <2> QED
    BY <1>0, <1>1, <2>1, SMTT(20) DEF WaiterRecordsLive, Others
<1> QED
  BY <1>2, <1>3, <1>4


-----------------------------------------------------------------------------
\* bdev_init_buffer_cache establishes the invariant.
LEMMA InitIInv == Init => IInv
<1> SUFFICES ASSUME Init PROVE IInv
  OBVIOUS
<1>1. NoCall \in Calls
  BY CacheAssumption DEF NoCall, Calls
<1>2. TypeOK
  BY <1>1, CacheAssumption DEF Init, TypeOK, Flags, Locations
<1>3. \A t \in Threads : pc[t] = "idle"
  BY DEF Init
<1>4. \A b \in Bufs : flags[b] = {"UNUSED"} /\ wq[b] = <<>>
  BY DEF Init
<1>5. WaiterRecordsLive
  BY <1>4 DEF WaiterRecordsLive
<1> QED
  BY <1>2, <1>3, <1>4, <1>5 DEF IInv, Shape, Places, Place, Using, Getting,
     UserOwnsBuffer, UnusedIsFree, OneBufferPerBlock, Holds

\* Every step keeps it.
LEMMA StepIInv ==
  ASSUME IInv, NEW t \in Threads, begin(t) \/ Step(t)
  PROVE  IInv'
<1>1. Shape /\ Others(t)
  BY OthersStand DEF IInv, Shape
<1>2. Shape'
  BY <1>1, QuietSteps, QuietStep, get_cached_keeps, get_fresh_keeps,
     release_buffer_keeps
<1>3. WaiterRecordsLive'
  BY <1>1, WaitersKept
<1> QED
  BY <1>2, <1>3 DEF IInv

\* Every step of the cache keeps the invariant.
LEMMA Invariance == Spec => []IInv
<1>1. ASSUME IInv, UNCHANGED vars
      PROVE  IInv'
  <2> USE DEF vars, bufvars, thrvars
  <2>1. TypeOK' /\ Places' /\ UserOwnsBuffer'
    BY <1>1 DEF IInv, Shape, TypeOK, Places, Place, Using, Getting, UserOwnsBuffer
  <2>2. UnusedIsFree' /\ OneBufferPerBlock'
    BY <1>1, Zenon DEF IInv, Shape, UnusedIsFree, OneBufferPerBlock, Holds
  <2>3. WaiterRecordsLive'
    BY <1>1, Zenon DEF IInv, WaiterRecordsLive
  <2> QED
    BY <2>1, <2>2, <2>3 DEF IInv, Shape
<1>2. IInv /\ [Next]_vars => IInv'
  BY <1>1, StepIInv DEF Next
<1> QED
  BY <1>2, InitIInv, PTL DEF Spec

\* A thread's program counter, call and buffer, and the fields of the buffers,
\* keep their types; in particular a thread that leaves sync_buffer returns to
\* where it was called.
THEOREM TypeCorrect == Spec => []TypeOK
<1>1. IInv => TypeOK
  BY DEF IInv, Shape
<1> QED
  BY <1>1, Invariance, PTL

\* However get_buffer's retries interleave, no block is in two buffers, for any
\* number of buffers and threads.
THEOREM NoBlockTwice == Spec => []OneBufferPerBlock
<1>1. IInv => OneBufferPerBlock
  BY DEF IInv, Shape
<1> QED
  BY <1>1, Invariance, PTL

\* The assertions of release_buffer hold: the buffer is BUSY, its recorded user
\* is the caller, and it still holds the block the caller asked for.
THEOREM BuffersHaveOneUser == Spec => []UserOwnsBuffer
<1>1. IInv => UserOwnsBuffer
  BY DEF IInv, Shape
<1> QED
  BY <1>1, Invariance, PTL

\* notify_buffer never touches a record on the stack of a thread that has left
\* wait_buffer.
THEOREM QueueRecordsAreLive == Spec => []WaiterRecordsLive
<1>1. IInv => WaiterRecordsLive
  BY DEF IInv
<1> QED
  BY <1>1, Invariance, PTL
-----------------------------------------------------------------------------
\* What the cache holds.
Contents == Vals \cup {Torn}

DataTypes ==
  /\ io \in Seq(Bufs) /\ todo \in [Threads -> Seq(Bufs)]
  /\ lock \in Threads \cup {NULL}
  /\ data \in [Bufs -> Contents]
  /\ disk \in [Blocks -> Contents] /\ last \in [Blocks -> Contents]
  /\ rv \in [Threads -> Nat]

\* Some thread is at one of the locations L with the buffer b.
Writing(b, L) == \E t \in Threads : cur[t] = b /\ pc[t] \in L

Flushing(t) == pc[t] \in {"sync_next", "sync_clear"}
Locked == \A t \in Threads : Flushing(t) => lock = t

UnusedIsClean == \A b \in Bufs : "UNUSED" \in flags[b] => "DIRTY" \notin flags[b]

\* A DIRTY buffer is queued for writing, or about to be.
DirtyQueued ==
  \A b \in Bufs : "DIRTY" \in flags[b] => In(b, io) \/ Writing(b, {"queue"})

\* sync_buffer between its write and its clearing of the flag: the disk has the
\* content of the buffer, unless its user is writing again.
Flushed(t) ==
  pc[t] = "sync_clear" =>
    /\ todo[t] # <<>>
    /\ "DIRTY" \in flags[Head(todo[t])]
    /\ \/ Writing(Head(todo[t]), {"copy", "mark", "queue"})
       \/ disk[blkno[Head(todo[t])]] = data[Head(todo[t])]

\* bdev_read_buffer before update_buffer has filled the buffer: a flush that
\* ends well has been over the buffer.
Reloads(t) ==
  \/ pc[t] \in {"update", "synced"}
  \/ pc[t] \in {"sync", "sync_next", "sync_clear"} /\ ret[t] = "synced"

Reloading(t) ==
  Reloads(t) =>
    /\ "VALID" \notin flags[cur[t]]
    /\ "DIRTY" \in flags[cur[t]] =>
         \/ pc[t] = "sync"
         \/ pc[t] # "update" /\ rv[t] # 0
         \/ Flushing(t) /\ In(cur[t], todo[t])

Written(t) ==
  pc[t] \in {"mark", "queue"} => data[cur[t]] = last[blkno[cur[t]]]

\* The content of a block is in its buffer if that is VALID or DIRTY, and on
\* the disk if it is not DIRTY, but for a write that is under way.
Faithful ==
  \A b \in Bufs, k \in Blocks : Holds(b, k) /\ k \notin raced =>
    /\ "VALID" \in flags[b] \/ "DIRTY" \in flags[b] =>
         data[b] = last[k] \/ Writing(b, {"copy"})
    /\ "DIRTY" \notin flags[b] =>
         disk[k] = last[k] \/ Writing(b, {"copy", "mark"})

Absent ==
  \A k \in Blocks :
    k \notin raced /\ (\A b \in Bufs : ~ Holds(b, k)) => disk[k] = last[k]

\* The inductive invariant of the contents; Shape is the other half of it.
Kept ==
  /\ DataTypes /\ Locked /\ UnusedIsClean /\ DirtyQueued /\ Faithful /\ Absent
  /\ \A t \in Threads : Flushed(t) /\ Reloading(t) /\ Written(t)
-----------------------------------------------------------------------------
\* Drop keeps the other entries.
LEMMA DropIn ==
  ASSUME NEW S, NEW s \in Seq(S), NEW x
  PROVE  /\ Drop(s, x) \in Seq(S)
         /\ \A y : In(y, s) /\ y # x => In(y, Drop(s, x))
<1>1. CASE ~ In(x, s)
  BY <1>1 DEF Drop
<1>2. CASE In(x, s)
  <2> DEFINE i == CHOOSE j \in 1 .. Len(s) : s[j] = x
             n == Len(s) - 1
             p == [j \in 1 .. n |-> IF j < i THEN s[j] ELSE s[j + 1]]
  <2>1. Drop(s, x) = p
    BY <1>2 DEF Drop
  <2>2. i \in 1 .. Len(s) /\ s[i] = x
    BY <1>2 DEF In
  <2>3. Len(s) \in Nat /\ n \in Nat
    BY <2>2
  <2> HIDE DEF i
  <2>4. p \in [1 .. n -> S]
    BY <2>2, <2>3
  <2>5. p \in Seq(S) /\ Len(p) = n
    BY <2>3, <2>4
  <2>6. \A j \in 1 .. n : p[j] = IF j < i THEN s[j] ELSE s[j + 1]
    OBVIOUS
  <2> HIDE DEF p
  <2>7. ASSUME NEW y, In(y, s), y # x
        PROVE  In(y, p)
    <3>1. PICK j \in 1 .. Len(s) : s[j] = y
      BY <2>7 DEF In
    <3>2. j # i
      BY <2>2, <2>7, <3>1
    <3>3. CASE j < i
      BY <2>2, <2>3, <2>5, <2>6, <3>1, <3>3 DEF In
    <3>4. CASE j > i
      <4>1. j - 1 \in 1 .. n /\ ~ (j - 1 < i) /\ (j - 1) + 1 = j
        BY <2>2, <2>3, <3>1, <3>4
      <4> QED
        BY <2>5, <2>6, <3>1, <4>1 DEF In
    <3> QED
      BY <2>2, <3>1, <3>2, <3>3, <3>4
  <2> QED
    BY <2>1, <2>5, <2>7
<1> QED
  BY <1>1, <1>2

\* queue_buffer has the buffer and all others on the queue.
LEMMA AppendIn ==
  ASSUME NEW S, NEW s \in Seq(S), NEW x \in S
  PROVE  /\ Append(s, x) \in Seq(S) /\ In(x, Append(s, x))
         /\ \A y : In(y, s) => In(y, Append(s, x))
<1> DEFINE p == Append(s, x)
<1>1. /\ p \in Seq(S) /\ Len(s) \in Nat /\ Len(p) = Len(s) + 1
      /\ p[Len(s) + 1] = x /\ \A i \in 1 .. Len(s) : p[i] = s[i]
  OBVIOUS
<1> HIDE DEF p
<1>2. In(x, p)
  BY <1>1 DEF In
<1>3. ASSUME NEW y, In(y, s) PROVE In(y, p)
  BY <1>1, <1>3 DEF In
<1> QED
  BY <1>1, <1>2, <1>3 DEF p

\* What is left of the walk when its first buffer is done.
LEMMA TailIn ==
  ASSUME NEW S, NEW s \in Seq(S), s # <<>>, NEW y, In(y, s), y # Head(s)
  PROVE  In(y, Tail(s))
<1>1. PICK i \in 1 .. Len(s) : s[i] = y
  BY DEF In
<1>2. Len(s) \in Nat /\ i # 1
  BY <1>1, HeadAt
<1>3. i - 1 \in 1 .. Len(s) - 1 /\ (i - 1) + 1 = i
  BY <1>1, <1>2
<1>4. Len(Tail(s)) = Len(s) - 1 /\ Tail(s)[i - 1] = s[(i - 1) + 1]
  BY <1>3, TailAt
<1> QED
  BY <1>1, <1>3, <1>4 DEF In

\* The first buffer of the walk is a buffer.
LEMMA HeadIn ==
  ASSUME NEW S, NEW s \in Seq(S), s # <<>>
  PROVE  Head(s) \in S /\ Tail(s) \in Seq(S)
OBVIOUS

\* Nothing is left of the walk at its end.
LEMMA NotInEmpty == \A y : ~ In(y, <<>>)
BY DEF In

\* Whether somebody writes in a buffer depends on its user.
LEMMA WritingKept ==
  ASSUME NEW t \in Threads, Others(t), NEW b, NEW L,
         cur[t] = b => pc[t] \notin L, cur'[t] = b => pc'[t] \notin L
  PROVE  Writing(b, L)' <=> Writing(b, L)
<1>1. \A u \in Threads : cur'[u] = b /\ pc'[u] \in L <=> cur[u] = b /\ pc[u] \in L
  BY DEF Others
<1> QED
  BY <1>1 DEF Writing

\* Two threads do not use one buffer.
LEMMA OneUser ==
  ASSUME Shape, NEW t \in Threads, NEW u \in Threads \ {t}, Using(t), Using(u)
  PROVE  cur[t] # cur[u] /\ cur[t] \in Bufs /\ cur[u] \in Bufs
BY DEF Shape, UserOwnsBuffer, Places, Place

\* A buffer in use holds its block.
LEMMA UserHolds ==
  ASSUME Shape, NEW t \in Threads, Using(t)
  PROVE  cur[t] \in Bufs /\ Holds(cur[t], blkno[cur[t]]) /\ blkno[cur[t]] \in Blocks
BY DEF Shape, UserOwnsBuffer, Places, Place, Holds, UnusedIsFree, TypeOK

\* The reader of another buffer is not disturbed.
LEMMA ReloadingKept ==
  ASSUME Shape, NEW t \in Threads, Others(t), NEW u \in Threads \ {t}, Reloading(u),
         todo'[u] = todo[u], rv'[u] = rv[u],
         \A b \in Bufs : b # cur[t] \/ ~ Using(t) =>
           /\ "VALID" \in flags'[b] => "VALID" \in flags[b]
           /\ "DIRTY" \in flags'[b] => "DIRTY" \in flags[b]
  PROVE  Reloading(u)'
<1>1. pc'[u] = pc[u] /\ cur'[u] = cur[u] /\ ret'[u] = ret[u]
  BY DEF Others
<1> SUFFICES ASSUME Reloads(u)
             PROVE  /\ "VALID" \notin flags'[cur[u]]
                    /\ "DIRTY" \in flags'[cur[u]] =>
                         \/ pc[u] = "sync"
                         \/ pc[u] # "update" /\ rv[u] # 0
                         \/ Flushing(u) /\ In(cur[u], todo[u])
  BY <1>1, Zenon DEF Reloading, Reloads, Flushing
<1>2. Using(u)
  BY Zenon DEF Reloads, Using
<1>3. cur[u] \in Bufs /\ (Using(t) => cur[u] # cur[t])
  BY <1>2, OneUser, Zenon DEF Shape, Places, Place
<1> QED
  BY <1>3, Zenon DEF Reloading

\* Where bdev_write_buffer writes and has not queued the buffer.
W == {"copy", "mark", "queue"}

\* A buffer that the thread does not write in, before or after the step.
LEMMA NotWriting ==
  ASSUME NEW t \in Threads, Others(t), NEW b,
         cur[t] = b => pc[t] \notin W, cur'[t] = b => pc'[t] \notin W
  PROVE  /\ Writing(b, {"queue"})' <=> Writing(b, {"queue"})
         /\ Writing(b, {"copy"})' <=> Writing(b, {"copy"})
         /\ Writing(b, {"copy", "mark"})' <=> Writing(b, {"copy", "mark"})
         /\ Writing(b, {"copy", "mark", "queue"})'
              <=> Writing(b, {"copy", "mark", "queue"})
<1>1. ASSUME NEW L, L \subseteq W
      PROVE  Writing(b, L)' <=> Writing(b, L)
  BY <1>1, WritingKept
<1>2. /\ {"queue"} \subseteq W /\ {"copy"} \subseteq W
      /\ {"copy", "mark"} \subseteq W /\ {"copy", "mark", "queue"} \subseteq W
  BY DEF W
<1> QED
  BY <1>1, <1>2

\* A step that changes no content, no queue and no flag but BUSY.
LEMMA ContentsKept ==
  ASSUME Shape, Kept, NEW t \in Threads, Others(t), DataTypes', Locked',
         UNCHANGED <<io, data, disk, last, raced, blkno>>,
         \A b \in Bufs : /\ "VALID" \in flags'[b] <=> "VALID" \in flags[b]
                         /\ "DIRTY" \in flags'[b] <=> "DIRTY" \in flags[b]
                         /\ "UNUSED" \in flags'[b] <=> "UNUSED" \in flags[b],
         pc[t] \notin W, pc'[t] \notin W, pc'[t] # "sync_clear",
         \A u \in Threads \ {t} : todo'[u] = todo[u] /\ rv'[u] = rv[u],
         Reloading(t)'
  PROVE  Kept'
<1>1. \A b : /\ Writing(b, {"queue"})' <=> Writing(b, {"queue"})
             /\ Writing(b, {"copy"})' <=> Writing(b, {"copy"})
             /\ Writing(b, {"copy", "mark"})' <=> Writing(b, {"copy", "mark"})
             /\ Writing(b, {"copy", "mark", "queue"})'
                  <=> Writing(b, {"copy", "mark", "queue"})
  BY NotWriting, Zenon
<1>2. \A b \in Bufs : \A k : Holds(b, k)' <=> Holds(b, k)
  BY Zenon DEF Holds
<1>3. UnusedIsClean' /\ DirtyQueued'
  BY <1>1, Zenon DEF Kept, UnusedIsClean, DirtyQueued
<1>4. Faithful' /\ Absent'
  BY <1>1, <1>2, Zenon DEF Kept, Faithful, Absent
<1>5. ASSUME NEW u \in Threads \ {t}
      PROVE  Flushed(u)' /\ Reloading(u)' /\ Written(u)'
  <2>1. pc'[u] = pc[u] /\ cur'[u] = cur[u]
    BY Zenon DEF Others
  <2>2. Reloading(u)'
    BY ReloadingKept, Zenon DEF Kept
  <2>3. Written(u)'
    BY <2>1, Zenon DEF Kept, Written
  <2>4. ASSUME pc[u] = "sync_clear"
        PROVE  Flushed(u)'
    <3>1. todo[u] # <<>> /\ todo[u] \in Seq(Bufs)
      BY <2>4, Zenon DEF Kept, Flushed, DataTypes
    <3>2. Head(todo[u]) \in Bufs
      BY <3>1, HeadIn, Zenon
    <3> QED
      BY <1>1, <2>1, <2>4, <3>2, Zenon DEF Kept, Flushed
  <2> QED
    BY <2>1, <2>2, <2>3, <2>4, Zenon DEF Flushed
<1>6. Flushed(t)' /\ Written(t)'
  BY Zenon DEF Flushed, Written, W
<1> QED
  BY <1>3, <1>4, <1>5, <1>6, Zenon DEF Kept

\* Most steps are of that kind.
LEMMA OtherSteps ==
  ASSUME Shape, Shape', Kept, NEW t \in Threads, Others(t), begin(t) \/ Step(t),
         ~ get_fresh(t), ~ update_buffer(t), ~ write_begin(t), ~ write_copy(t),
         ~ write_mark(t), ~ cache_buffer(t), ~ sync_write(t), ~ sync_clear(t)
  PROVE  Kept'
<1>0. TypeOK /\ DataTypes /\ Locked /\ Reloading(t)
  BY DEF Shape, Kept
<1> DEFINE Same == UNCHANGED <<io, data, disk, last, raced, blkno>>
           Flag == \A b \in Bufs :
                     /\ "VALID" \in flags'[b] <=> "VALID" \in flags[b]
                     /\ "DIRTY" \in flags'[b] <=> "DIRTY" \in flags[b]
                     /\ "UNUSED" \in flags'[b] <=> "UNUSED" \in flags[b]
           Place1 == pc[t] \notin W /\ pc'[t] \notin W /\ pc'[t] # "sync_clear"
           Walk == \A u \in Threads \ {t} : todo'[u] = todo[u] /\ rv'[u] = rv[u]
           Good == /\ Same /\ Flag /\ Place1 /\ Walk /\ DataTypes' /\ Locked'
                   /\ Reloading(t)'
<1> SUFFICES Good
  BY ContentsKept, Zenon
<1>1. ASSUME UNCHANGED <<io, blkno, data, lock, disk, last, raced, todo>>,
             rv' = rv \/ rv' = [rv EXCEPT ![t] = 0],
             Flag, Place1, ~ Flushing(t)', Reloading(t)'
      PROVE  Good
  <2>1. Same /\ Walk
    BY <1>0, <1>1, Zenon DEF DataTypes
  <2>2. DataTypes'
    <3>1. rv \in [Threads -> Nat] /\ 0 \in Nat
      BY <1>0 DEF DataTypes
    <3>2. rv' \in [Threads -> Nat]
      BY <1>1, <3>1, Zenon
    <3> QED
      BY <1>0, <1>1, <3>2, Zenon DEF DataTypes
  <2>3. Locked'
    BY <1>0, <1>1, Zenon DEF Locked, Flushing, Others
  <2> QED
    BY <1>1, <2>1, <2>2, <2>3, Zenon
<1> HIDE DEF Good
<1>2. ASSUME UNCHANGED <<io, blkno, flags, data, lock, disk, last, raced, todo>>,
             rv' = rv \/ rv' = [rv EXCEPT ![t] = 0],
             Place1, ~ Flushing(t)', Reloading(t)'
      PROVE  Good
  BY <1>1, <1>2, Zenon
<1> HIDE DEF Place1, Same, Flag, Walk
<1> USE DEF TypeOK, Set, Goto
<1>3. ASSUME pc[t] \notin W, pc'[t] \notin W, pc'[t] # "sync_clear"
      PROVE  Place1
  BY <1>3, Zenon DEF Place1
<1>4. ASSUME ~ Reloads(t)'
      PROVE  Reloading(t)'
  BY <1>4, Zenon DEF Reloading
<1>5. CASE begin(t)
  <2>1. pc[t] = "idle" /\ pc'[t] \in {"sync", "get"} /\ ret'[t] = "done"
    BY <1>0, <1>5 DEF begin
  <2>2. Place1 /\ ~ Flushing(t)' /\ Reloading(t)'
    BY <1>3, <1>4, <2>1, Zenon DEF W, Flushing, Reloads
  <2>3. UNCHANGED <<io, blkno, flags, data, lock, disk, last, raced, todo>>
    BY <1>5 DEF begin, bufvars, history
  <2>4. rv' = rv
    BY <1>5 DEF begin
  <2> QED
    BY <1>2, <2>2, <2>3, <2>4
<1>6. CASE get_busy(t)
  <2>1. pc[t] = "get" /\ pc'[t] = "wait"
    BY <1>0, <1>6 DEF get_busy
  <2>2. Place1 /\ ~ Flushing(t)' /\ Reloading(t)'
    BY <1>3, <1>4, <2>1, Zenon DEF W, Flushing, Reloads
  <2>3. UNCHANGED <<io, blkno, flags, data, lock, disk, last, raced, todo>>
    BY <1>6, Zenon DEF get_busy, bufvars, history
  <2>4. rv' = rv
    BY <1>6, Zenon DEF get_busy
  <2> QED
    BY <1>2, <2>2, <2>3, <2>4
<1>7. CASE get_none(t)
  <2>1. pc[t] = "get" /\ pc'[t] \in {"sync", "panic"} /\ ret'[t] = "get"
    BY <1>0, <1>7 DEF get_none
  <2>2. Place1 /\ ~ Flushing(t)' /\ Reloading(t)'
    BY <1>3, <1>4, <2>1, Zenon DEF W, Flushing, Reloads
  <2>3. UNCHANGED <<io, blkno, flags, data, lock, disk, last, raced, todo>>
    BY <1>7 DEF get_none, bufvars, history
  <2>4. rv' = rv
    BY <1>7 DEF get_none
  <2> QED
    BY <1>2, <2>2, <2>3, <2>4
<1>8. CASE wait_buffer(t)
  <2>1. pc[t] = "wait" /\ pc'[t] = "asleep"
    BY <1>0, <1>8 DEF wait_buffer
  <2>2. Place1 /\ ~ Flushing(t)' /\ Reloading(t)'
    BY <1>3, <1>4, <2>1, Zenon DEF W, Flushing, Reloads
  <2>3. UNCHANGED <<io, blkno, flags, data, lock, disk, last, raced, todo>>
    BY <1>8 DEF wait_buffer, bufvars, history
  <2>4. rv' = rv
    BY <1>8 DEF wait_buffer
  <2> QED
    BY <1>2, <2>2, <2>3, <2>4
<1>9. CASE woken(t)
  <2>1. pc[t] = "asleep" /\ pc'[t] = "get"
    BY <1>0, <1>9 DEF woken
  <2>2. Place1 /\ ~ Flushing(t)' /\ Reloading(t)'
    BY <1>3, <1>4, <2>1, Zenon DEF W, Flushing, Reloads
  <2>3. UNCHANGED <<io, blkno, flags, data, lock, disk, last, raced, todo>>
    BY <1>9 DEF woken, bufvars, history
  <2>4. rv' = rv
    BY <1>9 DEF woken
  <2> QED
    BY <1>2, <2>2, <2>3, <2>4
<1>10. CASE notify_buffer(t)
  <2>1. pc[t] = "notify" /\ pc'[t] = "done"
    BY <1>0, <1>10 DEF notify_buffer
  <2>2. Place1 /\ ~ Flushing(t)' /\ Reloading(t)'
    BY <1>3, <1>4, <2>1, Zenon DEF W, Flushing, Reloads
  <2>3. UNCHANGED <<io, blkno, flags, data, lock, disk, last, raced, todo>>
    BY <1>10 DEF notify_buffer, bufvars, history
  <2>4. rv' = rv
    BY <1>10 DEF notify_buffer
  <2> QED
    BY <1>2, <2>2, <2>3, <2>4
<1>11. CASE done(t)
  <2>1. pc[t] = "done" /\ pc'[t] = "idle"
    BY <1>0, <1>11 DEF done
  <2>2. Place1 /\ ~ Flushing(t)' /\ Reloading(t)'
    BY <1>3, <1>4, <2>1, Zenon DEF W, Flushing, Reloads
  <2>3. UNCHANGED <<io, blkno, flags, data, lock, disk, last, raced, todo>>
    BY <1>11 DEF done, bufvars, history
  <2>4. rv' = [rv EXCEPT ![t] = 0]
    BY <1>11 DEF done
  <2> QED
    BY <1>2, <2>2, <2>3, <2>4
<1>12. CASE get_cached(t)
  <2>1. PICK b \in Bufs : flags' = [flags EXCEPT ![b] = @ \cup {"BUSY"}]
    BY <1>12, Zenon DEF get_cached
  <2>2. Flag
    BY <1>0, <2>1 DEF Flag
  <2>3. pc[t] = "get" /\ pc'[t] = call[t].op /\ call[t].op \in {"read", "write"}
    BY <1>0, <1>12, Zenon DEF get_cached, Shape, Places, Place, Getting
  <2>4. Place1 /\ ~ Flushing(t)' /\ Reloading(t)'
    BY <1>3, <1>4, <2>3, Zenon DEF W, Flushing, Reloads
  <2>5. UNCHANGED <<io, blkno, data, lock, disk, last, raced, todo, rv>>
    BY <1>12, Zenon DEF get_cached, history
  <2> QED
    BY <1>1, <2>2, <2>4, <2>5
<1>13. CASE release_buffer(t)
  <2>1. flags' = [flags EXCEPT ![cur[t]] = @ \ {"BUSY"}]
    BY <1>13 DEF release_buffer
  <2>2. Flag
    BY <1>0, <2>1 DEF Flag
  <2>3. pc[t] = "release" /\ pc'[t] = "notify"
    BY <1>0, <1>13 DEF release_buffer
  <2>4. Place1 /\ ~ Flushing(t)' /\ Reloading(t)'
    BY <1>3, <1>4, <2>3, Zenon DEF W, Flushing, Reloads
  <2>5. UNCHANGED <<io, blkno, data, lock, disk, last, raced, todo, rv>>
    BY <1>13 DEF release_buffer, history
  <2> QED
    BY <1>1, <2>2, <2>4, <2>5
<1>14. CASE read_check(t)
  <2>1. /\ pc[t] = "read" /\ cur' = cur
        /\ pc'[t] = IF "VALID" \in flags[cur[t]] THEN "release"
                    ELSE IF "DIRTY" \in flags[cur[t]] THEN "sync" ELSE "update"
    BY <1>0, <1>14 DEF read_check
  <2>2. UNCHANGED <<io, blkno, flags, data, lock, disk, last, raced, todo, rv>>
    BY <1>14, Zenon DEF read_check, bufvars, history
  <2>3. Reloading(t)'
    BY <2>1, <2>2, Zenon DEF Reloading, Reloads
  <2>4. Place1 /\ ~ Flushing(t)'
    BY <1>3, <2>1, Zenon DEF W, Flushing
  <2> QED
    BY <1>2, <2>2, <2>3, <2>4
<1>15. CASE read_synced(t)
  <2>1. /\ pc[t] = "synced" /\ cur' = cur
        /\ pc'[t] = IF rv[t] = 0 THEN "update" ELSE "release"
    BY <1>0, <1>15 DEF read_synced
  <2>2. UNCHANGED <<io, blkno, flags, data, lock, disk, last, raced, todo, rv>>
    BY <1>15 DEF read_synced, bufvars, history
  <2>3. Reloading(t)'
    BY <1>0, <2>1, <2>2, Zenon DEF Reloading, Reloads, Flushing
  <2>4. Place1 /\ ~ Flushing(t)'
    BY <1>3, <2>1, Zenon DEF W, Flushing
  <2> QED
    BY <1>2, <2>2, <2>3, <2>4
<1>16. CASE sync_enter(t)
  <2>1. /\ pc[t] = "sync" /\ lock = NULL /\ lock' = t
        /\ pc'[t] = "sync_next" /\ cur' = cur /\ ret' = ret
        /\ todo' = [todo EXCEPT ![t] = io] /\ rv' = [rv EXCEPT ![t] = 0]
    BY <1>0, <1>16 DEF sync_enter
  <2>2. UNCHANGED <<io, blkno, flags, data, disk, last, raced>>
    BY <1>16 DEF sync_enter, history
  <2>3. DataTypes' /\ todo'[t] = io
    BY <1>0, <2>1, <2>2 DEF DataTypes
  <2>4. Locked'
    <3>1. ASSUME NEW u \in Threads \ {t} PROVE ~ Flushing(u)'
      BY <1>0, <2>1, CacheAssumption, Zenon DEF Locked, Flushing, Others
    <3> QED
      BY <2>1, <3>1, Zenon DEF Locked
  <2>5. ASSUME Reloads(t)' PROVE Reloading(t)'
    <3>1. Reloads(t) /\ Using(t)
      BY <2>1, <2>5, Zenon DEF Reloads, Using
    <3>2. ~ Writing(cur[t], {"queue"})
      <4> SUFFICES ASSUME NEW u \in Threads, cur[u] = cur[t], pc[u] = "queue"
                   PROVE  FALSE
        BY Zenon DEF Writing
      <4>1. u # t /\ Using(u)
        BY <2>1, Zenon DEF Using
      <4> QED
        BY <3>1, <4>1, OneUser, Zenon
    <3>3. cur[t] \in Bufs
      BY <3>1, UserHolds, Zenon
    <3>4. "DIRTY" \in flags[cur[t]] => In(cur[t], io)
      BY <3>2, <3>3, Zenon DEF Kept, DirtyQueued
    <3> QED
      BY <1>0, <2>1, <2>2, <2>3, <3>1, <3>4, Zenon DEF Reloading, Flushing
  <2>6. Same /\ Flag /\ Place1 /\ Walk
    BY <1>0, <1>3, <2>1, <2>2, Zenon DEF Same, Flag, Walk, W, DataTypes
  <2> QED
    BY <1>4, <2>3, <2>4, <2>5, <2>6 DEF Good
<1>17. CASE sync_leave(t)
  <2>1. /\ pc[t] = "sync_next" /\ todo[t] = <<>> /\ lock' = NULL
        /\ pc'[t] = ret[t] /\ cur' = cur /\ ret' = ret
        /\ todo' = todo /\ rv' = rv
    BY <1>0, <1>17, Zenon DEF sync_leave
  <2>2. UNCHANGED <<io, blkno, flags, data, disk, last, raced>>
    BY <1>17, Zenon DEF sync_leave, history
  <2>3. DataTypes'
    BY <1>0, <2>1, <2>2 DEF DataTypes
  <2>4. ret[t] \in {"idle", "get", "synced", "done"}
    BY <1>0
  <2>5. Locked'
    <3>1. ASSUME NEW u \in Threads \ {t} PROVE ~ Flushing(u)'
      BY <1>0, <2>1, Zenon DEF Locked, Flushing, Others
    <3>2. ~ Flushing(t)'
      BY <2>1, <2>4, Zenon DEF Flushing
    <3> QED
      BY <3>1, <3>2 DEF Locked
  <2>6. ~ In(cur[t], todo[t])
    BY <2>1, NotInEmpty, Zenon
  <2>7. Reloading(t)'
    BY <1>0, <2>1, <2>2, <2>4, <2>6, Zenon DEF Reloading, Reloads, Flushing
  <2>8. Same /\ Flag /\ Place1 /\ Walk
    BY <1>3, <2>1, <2>2, <2>4, Zenon DEF Same, Flag, Walk, W
  <2> QED
    BY <2>3, <2>5, <2>7, <2>8 DEF Good
<1> HIDE DEF TypeOK
<1> QED
  BY <1>5, <1>6, <1>7, <1>8, <1>9, <1>10, <1>11, <1>12, <1>13, <1>14, <1>15,
     <1>16, <1>17, Zenon DEF Step

\* Nobody else writes in the buffer of a user.
LEMMA UserAlone ==
  ASSUME Shape, NEW t \in Threads, Using(t), NEW L, L \subseteq W, pc[t] \notin L
  PROVE  ~ Writing(cur[t], L)
<1> SUFFICES ASSUME NEW u \in Threads, cur[u] = cur[t], pc[u] \in L
             PROVE  FALSE
  BY Zenon DEF Writing
<1>1. u # t /\ Using(u)
  BY Zenon DEF Using, W
<1> QED
  BY <1>1, OneUser, Zenon

\* While nobody holds the device lock nobody flushes.
LEMMA NoFlush ==
  ASSUME Locked, lock = NULL, NEW t \in Threads, Others(t), NEW u \in Threads \ {t}
  PROVE  Flushed(u)' /\ ~ Flushing(u)'
BY CacheAssumption, Zenon DEF Locked, Flushing, Flushed, Others

\* get_buffer takes over a clean buffer: the content of its old block is on the
\* disk.
LEMMA get_fresh_contents ==
  ASSUME Shape, Shape', Kept, NEW t \in Threads, Others(t), get_fresh(t)
  PROVE  Kept'
<1>0. TypeOK /\ DataTypes /\ Locked /\ Place(t)
  BY DEF Shape, Kept, Places
<1>1. PICK b \in Bufs :
        /\ Usable(b) /\ flags' = [flags EXCEPT ![b] = {"BUSY"}]
        /\ blkno' = [blkno EXCEPT ![b] = call[t].blk]
        /\ usr' = [usr EXCEPT ![b] = t] /\ cur' = [cur EXCEPT ![t] = b]
  BY Zenon DEF get_fresh, LastUsable, Set
<1> DEFINE k == call[t].blk
<1>2. /\ pc[t] = "get" /\ pc'[t] \in {"read", "write"} /\ lock = NULL
      /\ \A c \in Bufs : ~ Holds(c, k)
      /\ k \in Blocks /\ ~ Using(t)
  BY <1>0, Zenon DEF get_fresh, Set, Goto, TypeOK, Place, Getting, Calls, Using
<1>3. /\ flags'[b] = {"BUSY"} /\ cur'[t] = b /\ blkno'[b] = k
      /\ \A c \in Bufs \ {b} : flags'[c] = flags[c] /\ blkno'[c] = blkno[c]
  BY <1>0, <1>1 DEF TypeOK
<1>4. UNCHANGED <<io, data, lock, disk, todo, rv, last, raced>>
  BY Zenon DEF get_fresh, history
<1>5. "BUSY" \notin flags[b] /\ "DIRTY" \notin flags[b]
  BY <1>1 DEF Usable, Shape, UnusedIsFree, Kept, UnusedIsClean
<1>6. ASSUME NEW u \in Threads, cur[u] = b PROVE ~ Using(u)
  BY <1>5, <1>6, Zenon DEF Shape, UserOwnsBuffer
<1>7. \A L : L \subseteq W => ~ Writing(b, L)
  BY <1>6, Zenon DEF Writing, Using, W
<1>8. \A c : /\ Writing(c, {"queue"})' <=> Writing(c, {"queue"})
             /\ Writing(c, {"copy"})' <=> Writing(c, {"copy"})
             /\ Writing(c, {"copy", "mark"})' <=> Writing(c, {"copy", "mark"})
  BY <1>2, NotWriting, Zenon DEF W
<1>9. /\ \A c \in Bufs \ {b} : \A j : Holds(c, j)' <=> Holds(c, j)
      /\ \A j : Holds(b, j)' <=> j = k
  BY <1>3, Zenon DEF Holds
<1>10. DataTypes' /\ Locked'
  <2>1. \A u \in Threads \ {t} : ~ Flushing(u)'
    BY <1>0, <1>2, NoFlush, Zenon
  <2> QED
    BY <1>0, <1>2, <1>4, <2>1, Zenon DEF DataTypes, Locked, Flushing
<1>11. UnusedIsClean' /\ DirtyQueued'
  <2>1. UnusedIsClean'
    <3>1. \A c \in Bufs \ {b} : "UNUSED" \in flags'[c] => "DIRTY" \notin flags'[c]
      BY <1>3, Zenon DEF Kept, UnusedIsClean
    <3>2. "DIRTY" \notin flags'[b]
      BY <1>3, Zenon
    <3> QED
      BY <3>1, <3>2, Zenon DEF UnusedIsClean
  <2>2. ASSUME NEW c \in Bufs, "DIRTY" \in flags'[c]
        PROVE  In(c, io) \/ Writing(c, {"queue"})'
    <3>1. "DIRTY" \notin flags'[b]
      BY <1>3, Zenon
    <3>2. c \in Bufs \ {b}
      BY <2>2, <3>1, Zenon
    <3>3. "DIRTY" \in flags[c]
      BY <1>3, <2>2, <3>2, Zenon
    <3> QED
      BY <1>8, <3>3, Zenon DEF Kept, DirtyQueued
  <2> QED
    BY <1>4, <2>1, <2>2, Zenon DEF DirtyQueued
<1>12. k \notin raced => disk[k] = last[k]
  BY <1>2, Zenon DEF Kept, Absent
<1>13. Faithful'
  <2>1. ASSUME NEW c \in Bufs \ {b}, NEW j \in Blocks, Holds(c, j), j \notin raced
        PROVE  /\ "VALID" \in flags'[c] \/ "DIRTY" \in flags'[c] =>
                    data[c] = last[j] \/ Writing(c, {"copy"})'
               /\ "DIRTY" \notin flags'[c] =>
                    disk[j] = last[j] \/ Writing(c, {"copy", "mark"})'
    BY <1>3, <1>8, <2>1, Zenon DEF Kept, Faithful
  <2>2. "VALID" \notin flags'[b] /\ "DIRTY" \notin flags'[b]
    BY <1>3, Zenon
  <2>3. ASSUME NEW c \in Bufs, NEW j \in Blocks, Holds(c, j)', j \notin raced
        PROVE  /\ "VALID" \in flags'[c] \/ "DIRTY" \in flags'[c] =>
                    data[c] = last[j] \/ Writing(c, {"copy"})'
               /\ "DIRTY" \notin flags'[c] =>
                    disk[j] = last[j] \/ Writing(c, {"copy", "mark"})'
    <3>1. CASE c = b
      BY <1>9, <1>12, <2>2, <2>3, <3>1, Zenon
    <3>2. CASE c \in Bufs \ {b}
      BY <1>9, <2>1, <2>3, <3>2, Zenon
    <3> QED
      BY <3>1, <3>2, Zenon
  <2> QED
    BY <1>4, <2>3, Zenon DEF Faithful
<1>14. Absent'
  <2> SUFFICES ASSUME NEW j \in Blocks, j \notin raced, \A c \in Bufs : ~ Holds(c, j)'
               PROVE  disk[j] = last[j]
    BY <1>4, Zenon DEF Absent
  <2>1. \A c \in Bufs \ {b} : ~ Holds(c, j)
    BY <1>9
  <2>2. CASE Holds(b, j)
    <3>1. {"copy", "mark"} \subseteq W
      BY DEF W
    <3> QED
      BY <1>5, <1>7, <2>2, <3>1, Zenon DEF Kept, Faithful
  <2>3. CASE ~ Holds(b, j)
    BY <2>1, <2>3 DEF Kept, Absent
  <2> QED
    BY <2>2, <2>3, Zenon
<1>15. ASSUME NEW u \in Threads \ {t}
       PROVE  Flushed(u)' /\ Reloading(u)' /\ Written(u)'
  <2>1. Flushed(u)'
    BY <1>0, <1>2, NoFlush
  <2>2. Reloading(u)'
    <3>1. "VALID" \notin flags'[b] /\ "DIRTY" \notin flags'[b]
      BY <1>3
    <3>2. \A c \in Bufs : /\ "VALID" \in flags'[c] => "VALID" \in flags[c]
                          /\ "DIRTY" \in flags'[c] => "DIRTY" \in flags[c]
      BY <1>3, <3>1, Zenon
    <3> QED
      BY <1>4, <3>2, ReloadingKept, Zenon DEF Kept
  <2>3. ASSUME pc[u] \in {"mark", "queue"}
        PROVE  cur[u] \in Bufs \ {b}
    BY <1>6, <2>3, UserHolds, Zenon DEF Using
  <2>4. Written(u)'
    <3> SUFFICES ASSUME pc[u] \in {"mark", "queue"}
                 PROVE  data'[cur[u]] = last'[blkno'[cur[u]]]
      BY Zenon DEF Written, Others
    <3>1. blkno'[cur[u]] = blkno[cur[u]]
      BY <1>3, <2>3, Zenon
    <3>2. data[cur[u]] = last[blkno[cur[u]]]
      BY Zenon DEF Kept, Written
    <3> QED
      BY <1>4, <3>1, <3>2, Zenon
  <2> QED
    BY <2>1, <2>2, <2>4
<1>16. Flushed(t)' /\ Reloading(t)' /\ Written(t)'
  BY <1>2, Zenon DEF Flushed, Reloading, Reloads, Written
<1> QED
  BY <1>10, <1>11, <1>13, <1>14, <1>15, <1>16 DEF Kept

\* update_buffer reads a block whose content is on the disk.
LEMMA update_buffer_contents ==
  ASSUME Shape, Shape', Kept, NEW t \in Threads, Others(t), update_buffer(t)
  PROVE  Kept'
<1> DEFINE b == cur[t]
           k == blkno[b]
<1>0. TypeOK /\ DataTypes /\ Locked /\ Reloading(t)
  BY DEF Shape, Kept
<1>1. /\ pc[t] = "update" /\ lock = NULL /\ pc'[t] = "release"
      /\ UNCHANGED <<io, blkno, lock, disk, todo, rv, last, raced, cur>>
  BY <1>0 DEF update_buffer, TypeOK, Goto, Set, history
<1>2. Using(t) /\ b \in Bufs /\ Holds(b, k) /\ k \in Blocks
  BY <1>1, UserHolds, Zenon DEF Using
<1>3. "VALID" \notin flags[b] /\ "DIRTY" \notin flags[b]
  BY <1>0, <1>1, Zenon DEF Reloading, Reloads, Flushing
<1>4. ~ Flushing(t)' /\ Flushed(t)' /\ Reloading(t)' /\ Written(t)'
  BY <1>1, Zenon DEF Flushing, Flushed, Reloading, Reloads, Written
<1>5. Locked'
  BY <1>0, <1>1, <1>4, NoFlush, Zenon DEF Locked
<1>6. CASE flags' = flags /\ data' = data
  <2>1. DataTypes'
    BY <1>0, <1>1, <1>6, Zenon DEF DataTypes
  <2> QED
    BY <1>1, <1>4, <1>5, <1>6, <2>1, ContentsKept, Zenon DEF W
<1>7. CASE /\ data' = [data EXCEPT ![b] = disk[k]]
           /\ flags' = [flags EXCEPT ![b] = @ \cup {"VALID"}]
  <2>1. /\ data'[b] = disk[k] /\ flags'[b] = flags[b] \cup {"VALID"}
        /\ \A c \in Bufs \ {b} : data'[c] = data[c] /\ flags'[c] = flags[c]
    BY <1>0, <1>2, <1>7 DEF TypeOK, DataTypes
  <2>2. DataTypes'
    BY <1>0, <1>1, <1>2, <1>7, Zenon DEF DataTypes
  <2>3. \A c : /\ Writing(c, {"queue"})' <=> Writing(c, {"queue"})
               /\ Writing(c, {"copy"})' <=> Writing(c, {"copy"})
               /\ Writing(c, {"copy", "mark"})' <=> Writing(c, {"copy", "mark"})
    BY <1>1, NotWriting, Zenon DEF W
  <2> DEFINE Same(c) == /\ "DIRTY" \in flags'[c] <=> "DIRTY" \in flags[c]
                        /\ "UNUSED" \in flags'[c] <=> "UNUSED" \in flags[c]
  <2>0. \A c \in Bufs : Same(c)
    <3>1. Same(b)
      BY <2>1
    <3>2. ASSUME NEW c \in Bufs \ {b} PROVE Same(c)
      BY <2>1, <3>2, Zenon
    <3> QED
      BY <3>1, <3>2, Zenon
  <2>4. \A c \in Bufs : \A j : Holds(c, j)' <=> Holds(c, j)
    BY <1>1, <2>0, Zenon DEF Holds
  <2>5. UnusedIsClean' /\ DirtyQueued'
    <3>1. UnusedIsClean'
      BY <2>0, Zenon DEF Kept, UnusedIsClean
    <3>2. DirtyQueued'
      BY <1>1, <2>0, <2>3, Zenon DEF Kept, DirtyQueued
    <3> QED
      BY <3>1, <3>2, Zenon
  <2>6. k \notin raced => disk[k] = last[k]
    <3>1. ~ Writing(b, {"copy", "mark"})
      BY <1>1, <1>2, UserAlone, Zenon DEF W
    <3> QED
      BY <1>2, <1>3, <3>1, Zenon DEF Kept, Faithful
  <2>7. \A j : Holds(b, j) => j = k
    BY DEF Holds
  <2>8. Faithful'
    <3>1. ASSUME NEW c \in Bufs \ {b}, NEW j \in Blocks, Holds(c, j), j \notin raced
          PROVE  /\ "VALID" \in flags'[c] \/ "DIRTY" \in flags'[c] =>
                      data'[c] = last[j] \/ Writing(c, {"copy"})'
                 /\ "DIRTY" \notin flags'[c] =>
                      disk[j] = last[j] \/ Writing(c, {"copy", "mark"})'
      BY <2>1, <2>3, <3>1, Zenon DEF Kept, Faithful
    <3> QED
      BY <1>1, <2>1, <2>4, <2>6, <2>7, <3>1, Zenon DEF Faithful
  <2>9. Absent'
    BY <1>1, <2>4, Zenon DEF Kept, Absent
  <2>10. ASSUME NEW u \in Threads \ {t}
         PROVE  Flushed(u)' /\ Reloading(u)' /\ Written(u)'
    <3>1. Flushed(u)'
      BY <1>0, <1>1, NoFlush, Zenon
    <3>2. Reloading(u)'
      BY <1>1, <1>2, <2>1, ReloadingKept, Zenon DEF Kept
    <3>3. ASSUME pc[u] \in {"mark", "queue"}
          PROVE  cur[u] \in Bufs \ {b}
      BY <1>2, <3>3, OneUser, Zenon DEF Using
    <3>4. Written(u)'
      BY <1>1, <2>1, <3>3, Zenon DEF Kept, Written, Others
    <3> QED
      BY <3>1, <3>2, <3>4
  <2> QED
    BY <1>4, <1>5, <2>2, <2>5, <2>8, <2>9, <2>10 DEF Kept
<1> QED
  BY <1>6, <1>7, Zenon DEF update_buffer, ramfs_read_block, Set
\* The steps of bdev_write_buffer in its own buffer.
LEMMA WriterStep ==
  ASSUME Shape, Kept, NEW t \in Threads, Others(t), DataTypes', Using(t),
         NEW b, b = cur[t], cur'[t] = b, NEW k, k = blkno[b],
         pc[t] \in {"write", "copy", "mark"}, pc'[t] \in W,
         UNCHANGED <<io, blkno, lock, disk, todo, rv>>,
         \A c \in Bufs \ {b} : data'[c] = data[c] /\ flags'[c] = flags[c],
         \A j \in Blocks \ {k} : last'[j] = last[j] /\ (j \in raced' <=> j \in raced),
         "UNUSED" \notin flags'[b],
         "DIRTY" \in flags[b] => "DIRTY" \in flags'[b],
         "DIRTY" \in flags'[b] => In(b, io) \/ pc'[t] = "queue",
         k \notin raced' =>
           /\ "VALID" \in flags'[b] \/ "DIRTY" \in flags'[b] =>
                data'[b] = last'[k] \/ pc'[t] = "copy"
           /\ "DIRTY" \notin flags'[b] =>
                disk[k] = last'[k] \/ pc'[t] \in {"copy", "mark"},
         Written(t)'
  PROVE  Kept'
<1>1. b \in Bufs /\ Holds(b, k) /\ k \in Blocks
  BY UserHolds, Zenon
<1>2. \A c \in Bufs \ {b} :
        /\ Writing(c, {"queue"})' <=> Writing(c, {"queue"})
        /\ Writing(c, {"copy"})' <=> Writing(c, {"copy"})
        /\ Writing(c, {"copy", "mark"})' <=> Writing(c, {"copy", "mark"})
        /\ Writing(c, {"copy", "mark", "queue"})'
             <=> Writing(c, {"copy", "mark", "queue"})
  BY NotWriting, Zenon
<1>3. \A L : pc'[t] \in L => Writing(b, L)'
  BY Zenon DEF Writing
<1>4. /\ \A c \in Bufs : \A j : Holds(c, j)' <=> Holds(c, j)
      /\ \A c \in Bufs \ {b}, j \in Blocks : Holds(c, j) => j # k
      /\ \A j : Holds(b, j) => j = k
  BY <1>1, Zenon DEF Holds, Shape, OneBufferPerBlock
<1>5. UnusedIsClean'
  BY Zenon DEF Kept, UnusedIsClean
<1>6. DirtyQueued'
  <2>1. ASSUME NEW c \in Bufs \ {b}, "DIRTY" \in flags'[c]
        PROVE  In(c, io) \/ Writing(c, {"queue"})'
    BY <1>2, <2>1, Zenon DEF Kept, DirtyQueued
  <2>2. pc'[t] = "queue" => Writing(b, {"queue"})'
    BY <1>3, Zenon
  <2> QED
    BY <2>1, <2>2, Zenon DEF DirtyQueued
<1>7. Faithful'
  <2>1. ASSUME NEW c \in Bufs \ {b}, NEW j \in Blocks, Holds(c, j), j \notin raced'
        PROVE  /\ "VALID" \in flags'[c] \/ "DIRTY" \in flags'[c] =>
                    data'[c] = last'[j] \/ Writing(c, {"copy"})'
               /\ "DIRTY" \notin flags'[c] =>
                    disk'[j] = last'[j] \/ Writing(c, {"copy", "mark"})'
    <3>1. j # k
      BY <1>4, <2>1, Zenon
    <3>2. /\ flags'[c] = flags[c] /\ data'[c] = data[c] /\ disk'[j] = disk[j]
          /\ last'[j] = last[j] /\ j \notin raced
      BY <2>1, <3>1, Zenon
    <3>3. /\ "VALID" \in flags[c] \/ "DIRTY" \in flags[c] =>
               data[c] = last[j] \/ Writing(c, {"copy"})
          /\ "DIRTY" \notin flags[c] =>
               disk[j] = last[j] \/ Writing(c, {"copy", "mark"})
      BY <2>1, <3>2, Zenon DEF Kept, Faithful
    <3> QED
      BY <1>2, <3>2, <3>3, Zenon
  <2>2. /\ pc'[t] = "copy" => Writing(b, {"copy"})'
        /\ pc'[t] \in {"copy", "mark"} => Writing(b, {"copy", "mark"})'
    BY <1>3, Zenon
  <2> QED
    BY <1>4, <2>1, <2>2, Zenon DEF Faithful
<1>8. Absent'
  <2> SUFFICES ASSUME NEW j \in Blocks, j \notin raced', \A c \in Bufs : ~ Holds(c, j)'
               PROVE  disk[j] = last'[j]
    BY Zenon DEF Absent
  <2>1. j # k /\ \A c \in Bufs : ~ Holds(c, j)
    BY <1>1, <1>4, Zenon
  <2> QED
    BY <2>1, Zenon DEF Kept, Absent
<1>9. ASSUME NEW u \in Threads \ {t}
      PROVE  Flushed(u)' /\ Reloading(u)' /\ Written(u)'
  <2>1. pc'[u] = pc[u] /\ cur'[u] = cur[u]
    BY Zenon DEF Others
  <2>2. Reloading(u)'
    BY ReloadingKept, Zenon DEF Kept
  <2>3. ASSUME pc[u] \in {"mark", "queue"}
        PROVE  Written(u)'
    <3>1. Using(u)
      BY <2>3, Zenon DEF Using
    <3>2. /\ cur[u] \in Bufs \ {b} /\ Holds(cur[u], blkno[cur[u]])
          /\ blkno[cur[u]] \in Blocks
      <4>1. cur[t] # cur[u]
        BY <3>1, OneUser, Zenon
      <4> QED
        BY <3>1, <4>1, UserHolds, Zenon
    <3>3. blkno[cur[u]] # k
      BY <1>4, <3>2, Zenon
    <3>4. data[cur[u]] = last[blkno[cur[u]]]
      BY <2>3, Zenon DEF Kept, Written
    <3>5. data'[cur[u]] = last'[blkno[cur[u]]]
      BY <3>2, <3>3, <3>4, Zenon
    <3> QED
      BY <2>1, <3>5, Zenon DEF Written
  <2>4. ASSUME pc[u] = "sync_clear"
        PROVE  Flushed(u)'
    <3> DEFINE h == Head(todo[u])
    <3>1. todo[u] # <<>> /\ h \in Bufs
      <4>1. todo[u] # <<>>
        BY <2>4, Zenon DEF Kept, Flushed
      <4>2. todo[u] \in Seq(Bufs)
        BY Zenon DEF Kept, DataTypes
      <4> QED
        BY <4>1, <4>2, HeadIn, Zenon
    <3>2. /\ "DIRTY" \in flags[h]
          /\ \/ Writing(h, {"copy", "mark", "queue"})
             \/ disk[blkno[h]] = data[h]
      BY <2>4, Zenon DEF Kept, Flushed
    <3>3. CASE h = b
      <4>1. Writing(h, {"copy", "mark", "queue"})'
        BY <1>3, <3>3, Zenon DEF W
      <4> QED
        BY <2>1, <3>1, <3>2, <3>3, <4>1, Zenon DEF Flushed
    <3>4. CASE h # b
      BY <1>2, <2>1, <3>1, <3>2, <3>4, Zenon DEF Flushed
    <3> QED
      BY <3>3, <3>4, Zenon
  <2>5. Written(u)' /\ Flushed(u)'
    BY <2>1, <2>3, <2>4, Zenon DEF Written, Flushed
  <2> QED
    BY <2>2, <2>5, Zenon
<1>10. ~ Flushing(t)' /\ Flushed(t)' /\ Reloading(t)'
  BY Zenon DEF Flushing, Flushed, Reloading, Reloads, W
<1>11. Locked'
  BY <1>10, Zenon DEF Kept, Locked, Flushing, Others
<1> QED
  BY <1>5, <1>6, <1>7, <1>8, <1>9, <1>10, <1>11, Zenon DEF Kept

\* While the content is copied, the buffer may be written to the disk half way
\* through, but its flag is then set again ...
LEMMA write_begin_contents ==
  ASSUME Shape, Kept, NEW t \in Threads, Others(t), write_begin(t)
  PROVE  Kept'
<1> DEFINE b == cur[t]
<1>0. TypeOK /\ DataTypes
  BY DEF Shape, Kept
<1>1. /\ pc[t] = "write" /\ pc'[t] = "copy" /\ cur' = cur
      /\ data' = [data EXCEPT ![b] = Torn]
      /\ UNCHANGED <<io, blkno, flags, lock, disk, todo, rv, last, raced>>
  BY <1>0 DEF write_begin, TypeOK, Goto, Set, history
<1>2. Using(t) /\ b \in Bufs /\ Holds(b, blkno[b])
  BY <1>1, UserHolds, Zenon DEF Using
<1>3. DataTypes'
  BY <1>0, <1>1, Zenon DEF DataTypes, Contents
<1>4. \A c \in Bufs \ {b} : data'[c] = data[c]
  BY <1>0, <1>1, Zenon DEF DataTypes
<1>5. "DIRTY" \in flags[b] => In(b, io)
  <2>1. ~ Writing(b, {"queue"})
    BY <1>1, <1>2, UserAlone, Zenon DEF W
  <2> QED
    BY <1>2, <2>1, Zenon DEF Kept, DirtyQueued
<1>6. Written(t)' /\ "UNUSED" \notin flags'[b]
  BY <1>1, <1>2, Zenon DEF Written, Holds
<1> HIDE DEF b
<1> QED
  BY <1>1, <1>2, <1>3, <1>4, <1>5, <1>6, WriterStep, Zenon DEF b, W

\* ... by write_copy, which makes the new value the one last written.
LEMMA write_copy_contents ==
  ASSUME Shape, Kept, NEW t \in Threads, Others(t), write_copy(t)
  PROVE  Kept'
<1> DEFINE b == cur[t]
           v == call[t].val
<1>0. TypeOK /\ DataTypes
  BY DEF Shape, Kept
<1>1. /\ pc[t] = "copy" /\ pc'[t] = "mark" /\ cur' = cur
      /\ data' = [data EXCEPT ![b] = v] /\ last' = [last EXCEPT ![blkno[b]] = v]
      /\ UNCHANGED <<io, blkno, flags, lock, disk, todo, rv, raced>>
  BY <1>0 DEF write_copy, TypeOK, Goto, Set
<1>2. Using(t) /\ b \in Bufs /\ Holds(b, blkno[b]) /\ blkno[b] \in Blocks
  BY <1>1, UserHolds, Zenon DEF Using
<1>3. v \in Contents
  BY <1>0 DEF TypeOK, Calls, Contents
<1>4. DataTypes'
  BY <1>0, <1>1, <1>3, Zenon DEF DataTypes
<1>5. /\ data'[b] = v /\ last'[blkno[b]] = v
      /\ \A c \in Bufs \ {b} : data'[c] = data[c]
      /\ \A j \in Blocks \ {blkno[b]} : last'[j] = last[j]
  BY <1>0, <1>1, <1>2, Zenon DEF DataTypes
<1>6. "DIRTY" \in flags[b] => In(b, io)
  <2>1. ~ Writing(b, {"queue"})
    BY <1>1, <1>2, UserAlone, Zenon DEF W
  <2> QED
    BY <1>2, <2>1, Zenon DEF Kept, DirtyQueued
<1>7. Written(t)' /\ "UNUSED" \notin flags'[b]
  BY <1>1, <1>2, <1>5, Zenon DEF Written, Holds
<1>8. /\ pc[t] \in {"write", "copy", "mark"} /\ pc'[t] \in W
      /\ pc'[t] \in {"copy", "mark"}
  BY <1>1, Zenon DEF W
<1> DEFINE k == blkno[b]
<1>9. /\ b = cur[t] /\ cur'[t] = b /\ k = blkno[b]
      /\ UNCHANGED <<io, blkno, lock, disk, todo, rv>>
      /\ \A c \in Bufs \ {b} : data'[c] = data[c] /\ flags'[c] = flags[c]
      /\ \A j \in Blocks \ {k} : last'[j] = last[j] /\ (j \in raced' <=> j \in raced)
      /\ "DIRTY" \in flags[b] => "DIRTY" \in flags'[b]
      /\ "DIRTY" \in flags'[b] => In(b, io)
      /\ data'[b] = last'[k]
  BY <1>1, <1>5, <1>6, Zenon
<1> HIDE DEF b, k, v
<1> QED
  BY <1>2, <1>4, <1>7, <1>8, <1>9, WriterStep, Zenon

\* ... by write_mark, after which the block is no longer raced.
LEMMA write_mark_contents ==
  ASSUME Shape, Kept, NEW t \in Threads, Others(t), write_mark(t)
  PROVE  Kept'
<1> DEFINE b == cur[t]
<1>0. TypeOK /\ DataTypes /\ Written(t)
  BY DEF Shape, Kept
<1>1. /\ pc[t] = "mark" /\ pc'[t] = "queue" /\ cur' = cur
      /\ flags' = [flags EXCEPT ![b] = @ \cup {"DIRTY"}]
      /\ raced' = raced \ {blkno[b]}
      /\ UNCHANGED <<io, blkno, data, lock, disk, todo, rv, last>>
  BY <1>0 DEF write_mark, TypeOK, Goto, Set
<1>2. Using(t) /\ b \in Bufs /\ Holds(b, blkno[b]) /\ blkno[b] \in Blocks
  BY <1>1, UserHolds, Zenon DEF Using
<1>3. DataTypes'
  BY <1>0, <1>1, Zenon DEF DataTypes
<1>4. /\ flags'[b] = flags[b] \cup {"DIRTY"}
      /\ \A c \in Bufs \ {b} : flags'[c] = flags[c]
  BY <1>0, <1>1, <1>2 DEF TypeOK
<1>5. "UNUSED" \notin flags'[b] /\ "DIRTY" \in flags'[b]
  BY <1>2, <1>4, Zenon DEF Holds
<1>6. data[b] = last[blkno[b]] /\ Written(t)'
  BY <1>0, <1>1, Zenon DEF Written
<1>7. \A j \in Blocks \ {blkno[b]} : j \in raced' <=> j \in raced
  BY <1>1, Zenon
<1> HIDE DEF b
<1> QED
  BY <1>1, <1>2, <1>3, <1>4, <1>5, <1>6, <1>7, WriterStep, Zenon DEF b, W
\* cache_buffer puts the DIRTY buffer on the queue.
LEMMA cache_buffer_contents ==
  ASSUME Shape, Kept, NEW t \in Threads, Others(t), cache_buffer(t)
  PROVE  Kept'
<1> DEFINE b == cur[t]
<1>0. TypeOK /\ DataTypes /\ Locked
  BY DEF Shape, Kept
<1>1. /\ pc[t] = "queue" /\ pc'[t] = "release" /\ lock = NULL /\ cur' = cur
      /\ io' = Append(Drop(io, b), b)
      /\ UNCHANGED <<blkno, flags, data, lock, disk, todo, rv, last, raced>>
  BY <1>0 DEF cache_buffer, queue_buffer, TypeOK, Goto, Set, history
<1>2. b \in Bufs
  BY <1>1, UserHolds, Zenon DEF Using
<1>3. io' \in Seq(Bufs) /\ In(b, io') /\ \A c : In(c, io) => In(c, io')
  <2>1. Drop(io, b) \in Seq(Bufs) /\ \A c : In(c, io) /\ c # b => In(c, Drop(io, b))
    BY <1>0, DropIn DEF DataTypes
  <2> QED
    BY <1>1, <1>2, <2>1, AppendIn, Zenon
<1>4. DataTypes'
  BY <1>0, <1>1, <1>3, Zenon DEF DataTypes
<1>5. \A c : /\ Writing(c, {"copy"})' <=> Writing(c, {"copy"})
             /\ Writing(c, {"copy", "mark"})' <=> Writing(c, {"copy", "mark"})
  <2>1. ASSUME NEW c PROVE Writing(c, {"copy"})' <=> Writing(c, {"copy"})
    BY <1>1, WritingKept, Zenon
  <2>2. ASSUME NEW c PROVE Writing(c, {"copy", "mark"})' <=> Writing(c, {"copy", "mark"})
    BY <1>1, WritingKept, Zenon
  <2> QED
    BY <2>1, <2>2
<1>6. ASSUME NEW c \in Bufs, c # b
      PROVE  Writing(c, {"queue"})' <=> Writing(c, {"queue"})
  BY <1>1, <1>6, WritingKept, Zenon
<1>7. \A c \in Bufs : \A j : Holds(c, j)' <=> Holds(c, j)
  BY <1>1, Zenon DEF Holds
<1>8. UnusedIsClean' /\ DirtyQueued'
  BY <1>1, <1>3, <1>6, Zenon DEF Kept, UnusedIsClean, DirtyQueued
<1>9. Faithful' /\ Absent'
  BY <1>1, <1>5, <1>7, Zenon DEF Kept, Faithful, Absent
<1>10. ASSUME NEW u \in Threads \ {t}
       PROVE  Flushed(u)' /\ ~ Flushing(u)' /\ Reloading(u)' /\ Written(u)'
  <2>1. Flushed(u)' /\ ~ Flushing(u)'
    BY <1>0, <1>1, NoFlush, Zenon
  <2>2. Reloading(u)'
    BY <1>1, ReloadingKept, Zenon DEF Kept
  <2>3. Written(u)'
    BY <1>1, Zenon DEF Kept, Written, Others
  <2> QED
    BY <2>1, <2>2, <2>3
<1>11. ~ Flushing(t)' /\ Flushed(t)' /\ Reloading(t)' /\ Written(t)'
  BY <1>1, Zenon DEF Flushing, Flushed, Reloading, Reloads, Written
<1>12. Locked'
  BY <1>10, <1>11 DEF Locked
<1> QED
  BY <1>4, <1>8, <1>9, <1>10, <1>11, <1>12 DEF Kept

\* sync_buffer writes the content of a DIRTY buffer to the disk, or goes on to
\* the next one.
LEMMA sync_write_contents ==
  ASSUME Shape, Kept, NEW t \in Threads, Others(t), sync_write(t)
  PROVE  Kept'
<1> DEFINE b == Head(todo[t])
           k == blkno[b]
<1>0. TypeOK /\ DataTypes /\ Locked /\ Reloading(t)
  BY DEF Shape, Kept
<1>1. /\ pc[t] = "sync_next" /\ todo[t] # <<>> /\ cur' = cur /\ ret' = ret
      /\ UNCHANGED <<io, blkno, flags, data, lock, last, raced>>
  BY Zenon DEF sync_write, history
<1>2. /\ todo[t] \in Seq(Bufs) /\ b \in Bufs /\ Tail(todo[t]) \in Seq(Bufs)
      /\ k \in Blocks
  BY <1>0, <1>1 DEF DataTypes, TypeOK
<1>3. lock = t
  BY <1>0, <1>1, Zenon DEF Locked, Flushing
<1>4. \A u \in Threads \ {t} : ~ Flushing(u)' /\ Flushed(u)'
  BY <1>0, <1>3, Zenon DEF Locked, Flushing, Flushed, Others
<1>5. Locked'
  BY <1>1, <1>3, <1>4, Zenon DEF Locked
<1>6. ASSUME "DIRTY" \in flags[b], disk' = [disk EXCEPT ![k] = data[b]],
             pc' = [pc EXCEPT ![t] = "sync_clear"], todo' = todo, rv' = rv
      PROVE  Kept'
  <2>1. /\ disk'[k] = data[b] /\ \A j \in Blocks \ {k} : disk'[j] = disk[j]
        /\ pc'[t] = "sync_clear"
    BY <1>0, <1>2, <1>6 DEF DataTypes, TypeOK
  <2>2. DataTypes'
    BY <1>0, <1>1, <1>2, <1>6, Zenon DEF DataTypes
  <2>3. \A c : /\ Writing(c, {"queue"})' <=> Writing(c, {"queue"})
               /\ Writing(c, {"copy"})' <=> Writing(c, {"copy"})
               /\ Writing(c, {"copy", "mark"})' <=> Writing(c, {"copy", "mark"})
    BY <1>1, <2>1, NotWriting, Zenon DEF W
  <2>4. /\ \A c \in Bufs : \A j : Holds(c, j)' <=> Holds(c, j)
        /\ Holds(b, k) /\ \A c \in Bufs \ {b} : ~ Holds(c, k)
    BY <1>1, <1>2, <1>6, Zenon DEF Holds, Kept, UnusedIsClean, Shape,
       OneBufferPerBlock
  <2>5. UnusedIsClean' /\ DirtyQueued'
    BY <1>1, <2>3, Zenon DEF Kept, UnusedIsClean, DirtyQueued
  <2>6. Faithful'
    <3> SUFFICES ASSUME NEW c \in Bufs, NEW j \in Blocks, Holds(c, j), j \notin raced
                 PROVE  /\ "VALID" \in flags[c] \/ "DIRTY" \in flags[c] =>
                             data[c] = last[j] \/ Writing(c, {"copy"})
                        /\ "DIRTY" \notin flags[c] =>
                             disk'[j] = last[j] \/ Writing(c, {"copy", "mark"})
      BY <1>1, <2>3, <2>4, Zenon DEF Faithful
    <3>1. CASE c = b
      BY <1>6, <3>1, Zenon DEF Kept, Faithful
    <3>2. CASE c # b
      <4>1. disk'[j] = disk[j]
        BY <2>1, <2>4, <3>2, Zenon
      <4> QED
        BY <4>1, Zenon DEF Kept, Faithful
    <3> QED
      BY <3>1, <3>2, Zenon
  <2>7. Absent'
    <3> SUFFICES ASSUME NEW j \in Blocks, j \notin raced, \A c \in Bufs : ~ Holds(c, j)
                 PROVE  disk'[j] = last[j]
      BY <1>1, <2>4, Zenon DEF Absent
    <3>1. disk'[j] = disk[j]
      BY <1>2, <2>1, <2>4, Zenon
    <3> QED
      BY <3>1, Zenon DEF Kept, Absent
  <2>8. Flushed(t)'
    BY <1>1, <1>6, <2>1, Zenon DEF Flushed
  <2>9. Reloading(t)' /\ Written(t)'
    BY <1>0, <1>1, <1>6, <2>1, Zenon DEF Reloading, Reloads, Flushing, Written
  <2>10. ASSUME NEW u \in Threads \ {t}
         PROVE  Reloading(u)' /\ Written(u)'
    <3>1. Reloading(u)'
      BY <1>1, <1>6, ReloadingKept, Zenon DEF Kept
    <3>2. Written(u)'
      BY <1>1, Zenon DEF Kept, Written, Others
    <3> QED
      BY <3>1, <3>2
  <2> QED
    BY <1>4, <1>5, <2>2, <2>5, <2>6, <2>7, <2>8, <2>9, <2>10 DEF Kept
<1>7. ASSUME disk' = disk, pc' = pc, todo' = [todo EXCEPT ![t] = Tail(todo[t])],
             \/ rv' = [rv EXCEPT ![t] = rv[t] + 1]
             \/ rv' = rv /\ "DIRTY" \notin flags[b]
      PROVE  Kept'
  <2>1. /\ todo'[t] = Tail(todo[t]) /\ rv'[t] \in Nat
        /\ rv'[t] # 0 \/ (rv'[t] = rv[t] /\ "DIRTY" \notin flags[b])
        /\ rv[t] # 0 => rv'[t] # 0
        /\ \A u \in Threads \ {t} : todo'[u] = todo[u] /\ rv'[u] = rv[u]
    <3>1. rv[t] \in Nat /\ rv \in [Threads -> Nat] /\ todo \in [Threads -> Seq(Bufs)]
      BY <1>0 DEF DataTypes
    <3>2. /\ todo'[t] = Tail(todo[t])
          /\ \A u \in Threads \ {t} : todo'[u] = todo[u]
      BY <1>7, <3>1
    <3>3. CASE rv' = [rv EXCEPT ![t] = rv[t] + 1]
      BY <3>1, <3>2, <3>3
    <3>4. CASE rv' = rv /\ "DIRTY" \notin flags[b]
      BY <3>1, <3>2, <3>4, Zenon
    <3> QED
      BY <1>7, <3>3, <3>4, Zenon
  <2>2. DataTypes'
    BY <1>0, <1>1, <1>2, <1>7, <2>1, Zenon DEF DataTypes
  <2>3. Reloading(t)'
    <3> SUFFICES ASSUME Reloads(t), "DIRTY" \in flags[cur[t]], rv'[t] = 0
                 PROVE  In(cur[t], todo'[t])
      BY <1>0, <1>1, <1>7, Zenon DEF Reloading, Reloads, Flushing
    <3>1. In(cur[t], todo[t]) /\ cur[t] # b
      BY <1>0, <1>1, <2>1, Zenon DEF Reloading
    <3> QED
      BY <1>1, <1>2, <2>1, <3>1, TailIn, Zenon
  <2> QED
    BY <1>1, <1>5, <1>7, <2>1, <2>2, <2>3, ContentsKept, Zenon DEF W
<1>8. \/ /\ "DIRTY" \in flags[b] /\ disk' = [disk EXCEPT ![k] = data[b]]
         /\ pc' = [pc EXCEPT ![t] = "sync_clear"] /\ todo' = todo /\ rv' = rv
      \/ /\ disk' = disk /\ pc' = pc /\ todo' = [todo EXCEPT ![t] = Tail(todo[t])]
         /\ \/ rv' = [rv EXCEPT ![t] = rv[t] + 1]
            \/ rv' = rv /\ "DIRTY" \notin flags[b]
  BY Zenon DEF sync_write, ramfs_write_block, Goto, Set
<1> QED
  BY <1>6, <1>7, <1>8, Zenon

\* sync_buffer clears the flag: the disk has the content, or the user of the
\* buffer is about to set the flag again, or the block is raced.
LEMMA sync_clear_contents ==
  ASSUME Shape, Kept, NEW t \in Threads, Others(t), sync_clear(t)
  PROVE  Kept'
<1> DEFINE b == Head(todo[t])
           k == blkno[b]
<1>0. TypeOK /\ DataTypes /\ Locked /\ Reloading(t) /\ Flushed(t)
  BY DEF Shape, Kept
<1>1. /\ pc[t] = "sync_clear" /\ pc'[t] = "sync_next" /\ cur' = cur /\ ret' = ret
      /\ io' = Drop(io, b) /\ flags' = [flags EXCEPT ![b] = @ \ {"DIRTY"}]
      /\ todo' = [todo EXCEPT ![t] = Tail(todo[t])]
      /\ UNCHANGED <<blkno, data, lock, disk, rv, last>>
  BY <1>0, Zenon DEF sync_clear, dequeue_buffer, TypeOK, Goto, Set
<1>2. /\ todo[t] # <<>> /\ todo[t] \in Seq(Bufs) /\ b \in Bufs
      /\ Tail(todo[t]) \in Seq(Bufs) /\ k \in Blocks /\ "DIRTY" \in flags[b]
      /\ Writing(b, {"copy", "mark", "queue"}) \/ disk[k] = data[b]
  <2>1. /\ todo[t] # <<>> /\ "DIRTY" \in flags[b]
        /\ Writing(b, {"copy", "mark", "queue"}) \/ disk[k] = data[b]
    BY <1>0, <1>1, Zenon DEF Flushed
  <2>2. todo[t] \in Seq(Bufs)
    BY <1>0, Zenon DEF DataTypes
  <2>3. b \in Bufs /\ Tail(todo[t]) \in Seq(Bufs)
    BY <2>1, <2>2, HeadIn, Zenon
  <2>4. k \in Blocks
    BY <1>0, <2>3, Zenon DEF TypeOK
  <2> QED
    BY <2>1, <2>2, <2>3, <2>4, Zenon
<1>3. lock = t
  BY <1>0, <1>1, Zenon DEF Locked, Flushing
<1>4. \A u \in Threads \ {t} : ~ Flushing(u)' /\ Flushed(u)'
  BY <1>0, <1>3, Zenon DEF Locked, Flushing, Flushed, Others
<1>5. Locked'
  BY <1>1, <1>3, <1>4, Zenon DEF Locked
<1>6. /\ flags'[b] = flags[b] \ {"DIRTY"}
      /\ \A c \in Bufs \ {b} : flags'[c] = flags[c]
      /\ todo'[t] = Tail(todo[t]) /\ \A u \in Threads \ {t} : todo'[u] = todo[u]
  BY <1>0, <1>1, <1>2, Zenon DEF TypeOK, DataTypes
<1>7. io' \in Seq(Bufs) /\ \A c : In(c, io) /\ c # b => In(c, io')
  BY <1>0, <1>1, DropIn, Zenon DEF DataTypes
<1>8. DataTypes'
  BY <1>0, <1>1, <1>2, <1>7, Zenon DEF DataTypes
<1>9. \A c : /\ Writing(c, {"queue"})' <=> Writing(c, {"queue"})
             /\ Writing(c, {"copy"})' <=> Writing(c, {"copy"})
             /\ Writing(c, {"copy", "mark"})' <=> Writing(c, {"copy", "mark"})
  BY <1>1, NotWriting, Zenon DEF W
<1>10. /\ \A j : j \in raced => j \in raced'
       /\ Writing(b, {"queue"}) => k \in raced'
  BY Zenon DEF sync_clear, Writing
<1>11. /\ \A c \in Bufs : \A j : Holds(c, j)' <=> Holds(c, j)
       /\ \A j : Holds(b, j) => j = k
  BY <1>1, <1>6, Zenon DEF Holds
<1>12. UnusedIsClean' /\ DirtyQueued'
  BY <1>6, <1>7, <1>9, Zenon DEF Kept, UnusedIsClean, DirtyQueued
<1>13. Faithful'
  <2> SUFFICES ASSUME NEW c \in Bufs, NEW j \in Blocks, Holds(c, j), j \notin raced'
               PROVE  /\ "VALID" \in flags'[c] \/ "DIRTY" \in flags'[c] =>
                           data[c] = last[j] \/ Writing(c, {"copy"})
                      /\ "DIRTY" \notin flags'[c] =>
                           disk[j] = last[j] \/ Writing(c, {"copy", "mark"})
    BY <1>1, <1>9, <1>11, Zenon DEF Faithful
  <2>1. j \notin raced
    BY <1>10
  <2>2. CASE c # b
    BY <1>6, <2>1, <2>2, Zenon DEF Kept, Faithful
  <2>3. CASE c = b
    <3>1. j = k /\ ~ Writing(b, {"queue"})
      BY <1>10, <1>11, <2>3
    <3>2. data[b] = last[k] \/ Writing(b, {"copy"})
      BY <1>2, <2>1, <2>3, <3>1, Zenon DEF Kept, Faithful
    <3>3. disk[k] = last[k] \/ Writing(b, {"copy", "mark"})
      BY <1>2, <3>1, <3>2, Zenon DEF Writing
    <3> QED
      BY <2>3, <3>1, <3>2, <3>3, Zenon
  <2> QED
    BY <2>2, <2>3, Zenon
<1>14. Absent'
  BY <1>1, <1>10, <1>11, Zenon DEF Kept, Absent
<1>15. Reloading(t)'
  <2> SUFFICES ASSUME Reloads(t)
               PROVE  /\ "VALID" \notin flags'[cur[t]]
                      /\ "DIRTY" \in flags'[cur[t]] =>
                           rv[t] # 0 \/ In(cur[t], todo'[t])
    BY <1>1, Zenon DEF Reloading, Reloads, Flushing
  <2>1. cur[t] \in Bufs
    BY UserHolds, Zenon DEF Reloads, Using
  <2>2. "VALID" \notin flags'[cur[t]]
    BY <1>0, <1>6, <2>1, Zenon DEF Reloading
  <2>3. ASSUME "DIRTY" \in flags'[cur[t]], rv[t] = 0
        PROVE  In(cur[t], todo'[t])
    <3>1. cur[t] # b /\ In(cur[t], todo[t])
      BY <1>0, <1>1, <1>6, <2>1, <2>3, Zenon DEF Reloading
    <3> QED
      BY <1>2, <1>6, <3>1, TailIn, Zenon
  <2> QED
    BY <2>2, <2>3
<1>16. Flushed(t)' /\ Written(t)'
  BY <1>1, Zenon DEF Flushed, Written
<1>17. ASSUME NEW u \in Threads \ {t}
       PROVE  Reloading(u)' /\ Written(u)'
  <2>1. Reloading(u)'
    BY <1>1, <1>6, ReloadingKept, Zenon DEF Kept
  <2>2. Written(u)'
    BY <1>1, Zenon DEF Kept, Written, Others
  <2> QED
    BY <2>1, <2>2
<1> QED
  BY <1>4, <1>5, <1>8, <1>12, <1>13, <1>14, <1>15, <1>16, <1>17 DEF Kept

\* A fresh cache has nothing that the disk has not.
LEMMA InitKept == Init => Kept
<1> SUFFICES ASSUME Init PROVE Kept
  OBVIOUS
<1>1. Zero \in Contents /\ 0 \in Nat
  BY CacheAssumption DEF Contents
<1>2. DataTypes
  BY <1>1 DEF Init, DataTypes
<1>3. \A t \in Threads : pc[t] = "idle"
  BY DEF Init
<1>4. \A b \in Bufs : flags[b] = {"UNUSED"}
  BY DEF Init
<1>5. \A k \in Blocks : disk[k] = last[k]
  BY DEF Init
<1>6. Locked /\ Absent
  BY <1>3, <1>5, Zenon DEF Locked, Flushing, Absent
<1>7. ASSUME NEW b \in Bufs PROVE "UNUSED" \in flags[b] /\ "DIRTY" \notin flags[b]
  <2>1. flags[b] = {"UNUSED"}
    BY <1>4, Zenon
  <2> QED
    BY <2>1
<1>8. UnusedIsClean /\ DirtyQueued /\ Faithful
  BY <1>7, Zenon DEF UnusedIsClean, DirtyQueued, Faithful, Holds
<1>9. \A t \in Threads : Flushed(t) /\ Reloading(t) /\ Written(t)
  BY <1>3, Zenon DEF Flushed, Reloading, Reloads, Written
<1> QED
  BY <1>2, <1>6, <1>8, <1>9, Zenon DEF Kept

\* The contents are kept, whatever writers, readers and flushes do.
LEMMA ContentsInvariance == Spec => [](IInv /\ Kept)
<1>1. ASSUME Kept, UNCHANGED vars
      PROVE  Kept'
  <2> USE DEF vars, bufvars, thrvars, history
  <2>1. DataTypes' /\ Locked' /\ UnusedIsClean'
    BY <1>1, Zenon DEF Kept, DataTypes, Locked, Flushing, UnusedIsClean
  <2>2. \A b, L : Writing(b, L)' <=> Writing(b, L)
    BY <1>1, Zenon DEF Writing
  <2>3. \A b, k : Holds(b, k)' <=> Holds(b, k)
    BY <1>1 DEF Holds
  <2>4. DirtyQueued' /\ Absent'
    BY <1>1, <2>2, <2>3, Zenon DEF Kept, DirtyQueued, Absent
  <2>5. Faithful'
    BY <1>1, <2>2, <2>3, Zenon DEF Kept, Faithful
  <2>6. ASSUME NEW t \in Threads
        PROVE  Flushed(t)' /\ Reloading(t)' /\ Written(t)'
    BY <1>1, <2>2, Zenon DEF Kept, Flushed, Reloading, Reloads, Flushing, Written
  <2> QED
    BY <2>1, <2>4, <2>5, <2>6 DEF Kept
<1>2. ASSUME IInv, IInv', Kept, NEW t \in Threads, begin(t) \/ Step(t)
      PROVE  Kept'
  <2>1. Shape /\ Shape' /\ Others(t)
    BY <1>2, OthersStand DEF IInv, Shape
  <2> QED
    BY <1>2, <2>1, OtherSteps, get_fresh_contents, update_buffer_contents,
       write_begin_contents, write_copy_contents, write_mark_contents,
       cache_buffer_contents, sync_write_contents, sync_clear_contents
<1>3. IInv /\ Kept /\ IInv' /\ [Next]_vars => Kept'
  BY <1>1, <1>2 DEF Next
<1> QED
  BY <1>3, Invariance, InitKept, PTL DEF Spec

\* A write that no flush overlaps is never lost: once nobody uses its block the
\* content is on the disk or in a DIRTY buffer on the queue of the device.
THEOREM WritesSurvive == Spec => []NothingLost
<1>1. ASSUME IInv, Kept PROVE NothingLost
  <2> SUFFICES ASSUME NEW k \in Blocks \ raced,
                      \A t \in Threads : ~ (Using(t) /\ blkno[cur[t]] = k)
               PROVE  \/ disk[k] = last[k]
                      \/ \E b \in Bufs : /\ Holds(b, k) /\ data[b] = last[k]
                                         /\ "DIRTY" \in flags[b] /\ In(b, io)
    BY Zenon DEF NothingLost
  <2>1. CASE \A b \in Bufs : ~ Holds(b, k)
    BY <1>1, <2>1, Zenon DEF Kept, Absent
  <2>2. ASSUME NEW b \in Bufs, Holds(b, k)
        PROVE  \/ disk[k] = last[k]
               \/ data[b] = last[k] /\ "DIRTY" \in flags[b] /\ In(b, io)
    <3>1. \A L : L \subseteq W => ~ Writing(b, L)
      BY <2>2, Zenon DEF Writing, W, Using, Holds
    <3>2. ~ Writing(b, {"copy"}) /\ ~ Writing(b, {"copy", "mark"}) /\ ~ Writing(b, {"queue"})
      BY <3>1 DEF W
    <3> QED
      BY <1>1, <2>2, <3>2, Zenon DEF Kept, Faithful, DirtyQueued
  <2> QED
    BY <2>1, <2>2, Zenon
<1> QED
  BY <1>1, ContentsInvariance, PTL

\* bdev_read_buffer returns the last content written to the block, from a cached
\* buffer or from the disk, with the same exception.
THEOREM ReadersGetLatest == Spec => []ReadsLatest
<1>1. ASSUME IInv, Kept PROVE ReadsLatest
  <2> SUFFICES ASSUME NEW t \in Threads, pc[t] = "release",
                      "VALID" \in flags[cur[t]], call[t].blk \notin raced
               PROVE  data[cur[t]] = last[call[t].blk]
    BY DEF ReadsLatest
  <2>1. Shape /\ Using(t)
    BY <1>1, Zenon DEF IInv, Using
  <2>2. /\ cur[t] \in Bufs /\ Holds(cur[t], call[t].blk) /\ call[t].blk \in Blocks
    BY <2>1, UserHolds, Zenon DEF Shape, UserOwnsBuffer
  <2>3. ~ Writing(cur[t], {"copy"})
    BY <2>1, UserAlone DEF W
  <2> QED
    BY <1>1, <2>2, <2>3, Zenon DEF Kept, Faithful
<1> QED
  BY <1>1, ContentsInvariance, PTL
=============================================================================
