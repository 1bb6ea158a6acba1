---------------------------- MODULE BufferCache ----------------------------
(***************************************************************************)
(* The block buffer cache of src/bbuf.c over the RAM disk of src/ramfs.c,  *)
(* used by several threads.  The device mutex (checked in Mutex) makes a   *)
(* section one step; the exception is sync_buffer, which writes and clears *)
(* one buffer after another while the owner of a buffer, who needs no lock *)
(* for it, may be writing.  The content of a block is one value.           *)
(***************************************************************************)
EXTENDS Integers, Sequences, FiniteSets

CONSTANTS
  Threads, Bufs,
  Blocks,         \* block numbers callers use
  BadBlocks,      \* those that are not below total_blks
  Vals,           \* contents of a block
  Zero,           \* the content of a fresh buffer and of a fresh disk
  Torn,           \* a content that is half copied
  NULL,
  MaxCalls        \* bound on the number of calls

ASSUME CacheAssumption ==
  /\ 0 \in Blocks /\ BadBlocks \subseteq Blocks
  /\ Zero \in Vals /\ Torn \notin Vals
  /\ NULL \notin Threads \cup Bufs
  /\ MaxCalls \in Nat

MAX_BGET_RETRY == 1

VARIABLES
  list,           \* bdev->list, most recently used first
  io,             \* bdev->io
  blkno, flags, usr, data,   \* the fields of every buffer
  wq,             \* buf->wq, the threads in it
  lock,           \* the thread inside sync_buffer's section of bdev->lock
  disk,           \* the blocks of the RAM disk
  asleep,         \* threads whose status is T_BLOCKED in wait_buffer
  pc,             \* where a thread is
  call,           \* its call: [op, blk, val]
  cur,            \* its buffer
  retry,          \* retry of get_buffer
  ret,            \* where sync_buffer returns to
  todo,           \* what is left of its walk over bdev->io
  rv,             \* sync_buffer's result so far
  last,           \* history: last content written to each block by a caller
  raced,          \* history: blocks whose flag a flush cleared too late
  calls           \* number of calls so far

bufvars == <<list, io, blkno, flags, usr, data, wq, lock, disk>>
thrvars == <<asleep, pc, call, cur, retry, ret, todo, rv>>
history == <<last, raced>>
vars == <<bufvars, thrvars, history, calls>>

Flags == {"BUSY", "VALID", "DIRTY", "UNUSED"}
Calls == [op : {"none", "read", "write", "sync"}, blk : Blocks, val : Vals]
NoCall == [op |-> "none", blk |-> 0, val |-> Zero]

Set(f, x, v) == [f EXCEPT ![x] = v]
Goto(t, loc) == pc' = Set(pc, t, loc)
In(x, s)     == \E i \in 1 .. Len(s) : s[i] = x

\* list_del of an entry that is on the list.
Drop(s, x) ==
  LET i == CHOOSE j \in 1 .. Len(s) : s[j] = x
  IN  IF In(x, s) THEN [j \in 1 .. Len(s) - 1 |-> IF j < i THEN s[j] ELSE s[j + 1]]
      ELSE s

\* bdev_init_buffer_cache
Init ==
  /\ list  \in [1 .. Cardinality(Bufs) -> Bufs]
  /\ \A b \in Bufs : In(b, list)
  /\ io    = <<>>
  /\ blkno = [b \in Bufs |-> 0]
  /\ flags = [b \in Bufs |-> {"UNUSED"}]
  /\ usr   = [b \in Bufs |-> NULL]
  /\ data  = [b \in Bufs |-> Zero]
  /\ wq    = [b \in Bufs |-> <<>>]
  /\ lock  = NULL
  /\ disk  = [k \in Blocks |-> Zero]
  /\ asleep = {}
  /\ pc    = [t \in Threads |-> "idle"]
  /\ call  = [t \in Threads |-> NoCall]
  /\ cur   = [t \in Threads |-> NULL]
  /\ retry = [t \in Threads |-> 0]
  /\ ret   = [t \in Threads |-> "idle"]
  /\ todo  = [t \in Threads |-> <<>>]
  /\ rv    = [t \in Threads |-> 0]
  /\ last  = [k \in Blocks |-> Zero]
  /\ raced = {}
  /\ calls = 0

\* bdev_read_buffer, bdev_write_buffer and bdev_sync_buffer are called
begin(t) ==
  /\ pc[t] = "idle" /\ calls < MaxCalls
  /\ calls' = calls + 1
  /\ \E c \in Calls :
       /\ c.op # "none"
       /\ c.op = "sync" => c.blk = 0
       /\ c.op # "write" => c.val = Zero
       /\ call' = Set(call, t, c)
  /\ Goto(t, IF call'[t].op = "sync" THEN "sync" ELSE "get")
  /\ retry' = Set(retry, t, 0)
  /\ ret' = Set(ret, t, "done")
  /\ UNCHANGED <<bufvars, asleep, cur, todo, rv, history>>

\* The buffers get_buffer's two scans look for.
Holds(b, k) == "UNUSED" \notin flags[b] /\ blkno[b] = k

\* Mutant: a buffer that is still to be written is taken over.
Usable_dirty(b) == "BUSY" \notin flags[b] \/ "UNUSED" \in flags[b]

Usable(b) == flags[b] \cap {"BUSY", "DIRTY"} = {} \/ "UNUSED" \in flags[b]
LastUsable(b) ==
  \E i \in 1 .. Len(list) :
    /\ list[i] = b /\ Usable(b)
    /\ \A j \in i + 1 .. Len(list) : ~ Usable(list[j])

\* Mutant: a cached buffer is taken although it is in use.
get_cached_shared(t) ==
  /\ pc[t] = "get" /\ lock = NULL
  /\ \E b \in Bufs :
       /\ Holds(b, call[t].blk)
       /\ flags' = [flags EXCEPT ![b] = @ \cup {"BUSY"}]
       /\ usr' = Set(usr, b, t)
       /\ cur' = Set(cur, t, b)
  /\ Goto(t, call[t].op)
  /\ UNCHANGED <<list, io, blkno, data, wq, lock, disk, asleep, call, retry,
                 ret, todo, rv, history>>

\* get_buffer: the block is cached and the buffer free
get_cached(t) ==
  /\ pc[t] = "get" /\ lock = NULL
  /\ \E b \in Bufs :
       /\ Holds(b, call[t].blk)
       /\ "BUSY" \notin flags[b] /\ usr[b] = NULL
       /\ flags' = [flags EXCEPT ![b] = @ \cup {"BUSY"}]
       /\ usr' = Set(usr, b, t)
       /\ cur' = Set(cur, t, b)
  /\ Goto(t, call[t].op)
  /\ UNCHANGED <<list, io, blkno, data, wq, lock, disk, asleep, call, retry,
                 ret, todo, rv, history>>

\* get_buffer: cached, but somebody uses the buffer; the lock is given up
get_busy(t) ==
  /\ pc[t] = "get" /\ lock = NULL
  /\ \E b \in Bufs :
       /\ Holds(b, call[t].blk)
       /\ "BUSY" \in flags[b] \/ usr[b] # NULL
       /\ cur' = Set(cur, t, b)
  /\ Goto(t, "wait")
  /\ UNCHANGED <<bufvars, asleep, call, retry, ret, todo, rv, history>>

\* Mutant: a buffer is taken over without the search for the block.
get_fresh_unsearched(t) ==
  /\ pc[t] = "get" /\ lock = NULL
  /\ \E b \in Bufs :
       /\ LastUsable(b)
       /\ blkno' = Set(blkno, b, call[t].blk)
       /\ flags' = Set(flags, b, {"BUSY"})
       /\ usr' = Set(usr, b, t)
       /\ cur' = Set(cur, t, b)
  /\ Goto(t, call[t].op)
  /\ UNCHANGED <<list, io, data, wq, lock, disk, asleep, call, retry, ret,
                 todo, rv, history>>

\* get_buffer: not cached, the last buffer of the list that is free and clean
\* is taken over
get_fresh(t) ==
  /\ pc[t] = "get" /\ lock = NULL
  /\ \A b \in Bufs : ~ Holds(b, call[t].blk)
  /\ \E b \in Bufs :
       /\ LastUsable(b)
       /\ blkno' = Set(blkno, b, call[t].blk)
       /\ flags' = Set(flags, b, {"BUSY"})
       /\ usr' = Set(usr, b, t)
       /\ cur' = Set(cur, t, b)
  /\ Goto(t, call[t].op)
  /\ UNCHANGED <<list, io, data, wq, lock, disk, asleep, call, retry, ret,
                 todo, rv, history>>

\* get_buffer: nothing to take, flush once and PANIC the second time
get_none(t) ==
  /\ pc[t] = "get" /\ lock = NULL
  /\ \A b \in Bufs : ~ Holds(b, call[t].blk) /\ ~ Usable(b)
  /\ retry' = Set(retry, t, retry[t] + 1)
  /\ ret' = Set(ret, t, "get")
  /\ Goto(t, IF retry[t] < MAX_BGET_RETRY THEN "sync" ELSE "panic")
  /\ UNCHANGED <<bufvars, asleep, call, cur, todo, rv, history>>

\* wait_buffer up to schedule(); it does not look at the buffer again
wait_buffer(t) ==
  /\ pc[t] = "wait" /\ lock = NULL
  /\ wq' = [wq EXCEPT ![cur[t]] = Append(@, t)]
  /\ asleep' = asleep \cup {t}
  /\ Goto(t, "asleep")
  /\ UNCHANGED <<list, io, blkno, flags, usr, data, lock, disk, call, cur,
                 retry, ret, todo, rv, history>>

\* schedule() returns, get_buffer starts over
woken(t) ==
  /\ pc[t] = "asleep" /\ t \notin asleep
  /\ Goto(t, "get")
  /\ cur' = Set(cur, t, NULL)
  /\ UNCHANGED <<bufvars, asleep, call, retry, ret, todo, rv, history>>

\* Mutant: a DIRTY buffer is read without a flush.
read_check_unsynced(t) ==
  LET f == flags[cur[t]] IN
  /\ pc[t] = "read"
  /\ Goto(t, IF "VALID" \in f THEN "release"
             ELSE "update")
  /\ ret' = Set(ret, t, "synced")
  /\ UNCHANGED <<bufvars, asleep, call, cur, retry, todo, rv, history>>

\* bdev_read_buffer after get_buffer: a buffer that was written and never read
\* is DIRTY but not VALID, and is flushed first
read_check(t) ==
  LET f == flags[cur[t]] IN
  /\ pc[t] = "read"
  /\ Goto(t, IF "VALID" \in f THEN "release"
             ELSE IF "DIRTY" \in f THEN "sync" ELSE "update")
  /\ ret' = Set(ret, t, "synced")
  /\ UNCHANGED <<bufvars, asleep, call, cur, retry, todo, rv, history>>

read_synced(t) ==
  /\ pc[t] = "synced"
  /\ Goto(t, IF rv[t] = 0 THEN "update" ELSE "release")
  /\ UNCHANGED <<bufvars, asleep, call, cur, retry, ret, todo, rv, history>>

ramfs_validate_rw(b) == blkno[b] \notin BadBlocks
ramfs_read_block(b)  == data' = Set(data, b, disk[blkno[b]])

\* update_buffer: ramfs_read_block, which fails for a bad block number
update_buffer(t) ==
  LET b == cur[t] IN
  /\ pc[t] = "update" /\ lock = NULL
  /\ \/ /\ ramfs_validate_rw(b)
        /\ ramfs_read_block(b)
        /\ flags' = [flags EXCEPT ![b] = @ \cup {"VALID"}]
     \/ ~ ramfs_validate_rw(b) /\ UNCHANGED <<data, flags>>
  /\ Goto(t, "release")
  /\ UNCHANGED <<list, io, blkno, usr, wq, lock, disk, asleep, call, cur,
                 retry, ret, todo, rv, history>>

\* bdev_write_buffer: memcpy, then the flag, then cache_buffer.  The first two
\* are outside of any lock, so a flush may copy a block half way through, and
\* its clearing of the flag may come before or after this setting of it.
write_begin(t) ==
  /\ pc[t] = "write"
  /\ data' = Set(data, cur[t], Torn)
  /\ Goto(t, "copy")
  /\ UNCHANGED <<list, io, blkno, flags, usr, wq, lock, disk, asleep, call,
                 cur, retry, ret, todo, rv, history>>

write_copy(t) ==
  /\ pc[t] = "copy"
  /\ data' = Set(data, cur[t], call[t].val)
  /\ last' = Set(last, blkno[cur[t]], call[t].val)
  /\ Goto(t, "mark")
  /\ UNCHANGED <<list, io, blkno, flags, usr, wq, lock, disk, asleep, call,
                 cur, retry, ret, todo, rv, raced>>

write_mark(t) ==
  /\ pc[t] = "mark"
  /\ flags' = [flags EXCEPT ![cur[t]] = @ \cup {"DIRTY"}]
  /\ raced' = raced \ {blkno[cur[t]]}
  /\ Goto(t, "queue")
  /\ UNCHANGED <<list, io, blkno, usr, data, wq, lock, disk, asleep, call, cur,
                 retry, ret, todo, rv, last>>

\* A buffer that is queued moves to the tail, any other is added there.
queue_buffer(b) == io' = Append(Drop(io, b), b)
dequeue_buffer(b) == io' = Drop(io, b)

cache_buffer(t) ==
  /\ pc[t] = "queue" /\ lock = NULL
  /\ queue_buffer(cur[t])
  /\ Goto(t, "release")
  /\ UNCHANGED <<list, blkno, flags, usr, data, wq, lock, disk, asleep, call,
                 cur, retry, ret, todo, rv, history>>

release_buffer(t) ==
  LET b == cur[t] IN
  /\ pc[t] = "release" /\ lock = NULL
  /\ list' = <<b>> \o Drop(list, b)
  /\ flags' = [flags EXCEPT ![b] = @ \ {"BUSY"}]
  /\ usr' = Set(usr, b, NULL)
  /\ Goto(t, "notify")
  /\ UNCHANGED <<io, blkno, data, wq, lock, disk, asleep, call, cur, retry,
                 ret, todo, rv, history>>

\* Mutant: the waiter that is woken stays in the queue.
notify_buffer_kept(t) ==
  LET b == cur[t] IN
  /\ pc[t] = "notify" /\ lock = NULL
  /\ \/ wq[b] = <<>> /\ UNCHANGED <<wq, asleep>>
     \/ /\ wq[b] # <<>>
        /\ wq' = wq
        /\ asleep' = asleep \ {Head(wq[b])}
  /\ cur' = Set(cur, t, NULL)
  /\ Goto(t, "done")
  /\ UNCHANGED <<list, io, blkno, flags, usr, data, lock, disk, call, retry,
                 ret, todo, rv, history>>

\* notify_buffer: the first waiter, if there is one
notify_buffer(t) ==
  LET b == cur[t] IN
  /\ pc[t] = "notify" /\ lock = NULL
  /\ \/ wq[b] = <<>> /\ UNCHANGED <<wq, asleep>>
     \/ /\ wq[b] # <<>>
        /\ wq' = Set(wq, b, Tail(wq[b]))
        /\ asleep' = asleep \ {Head(wq[b])}
  /\ cur' = Set(cur, t, NULL)
  /\ Goto(t, "done")
  /\ UNCHANGED <<list, io, blkno, flags, usr, data, lock, disk, call, retry,
                 ret, todo, rv, history>>

\* the call returns
done(t) ==
  /\ pc[t] = "done"
  /\ call' = Set(call, t, NoCall)
  /\ retry' = Set(retry, t, 0)
  /\ ret' = Set(ret, t, "idle")
  /\ rv' = Set(rv, t, 0)
  /\ Goto(t, "idle")
  /\ UNCHANGED <<bufvars, asleep, cur, todo, history>>

\* sync_buffer takes the device lock ...
sync_enter(t) ==
  /\ pc[t] = "sync" /\ lock = NULL
  /\ lock' = t
  /\ todo' = Set(todo, t, io)
  /\ rv' = Set(rv, t, 0)
  /\ Goto(t, "sync_next")
  /\ UNCHANGED <<list, io, blkno, flags, usr, data, wq, disk, asleep, call,
                 cur, retry, ret, history>>

\* ... writes the next buffer if it is DIRTY (ramfs_write_block) ...
ramfs_write_block(b) == disk' = Set(disk, blkno[b], data[b])

sync_write(t) ==
  LET b == Head(todo[t]) IN
  /\ pc[t] = "sync_next" /\ todo[t] # <<>>
  /\ \/ /\ "DIRTY" \in flags[b] /\ ramfs_validate_rw(b)
        /\ ramfs_write_block(b)
        /\ Goto(t, "sync_clear")
        /\ UNCHANGED <<todo, rv>>
     \/ /\ "DIRTY" \in flags[b] /\ ~ ramfs_validate_rw(b)
        /\ rv' = Set(rv, t, rv[t] + 1)
        /\ todo' = Set(todo, t, Tail(todo[t]))
        /\ UNCHANGED <<disk, pc>>
     \/ /\ "DIRTY" \notin flags[b]
        /\ todo' = Set(todo, t, Tail(todo[t]))
        /\ UNCHANGED <<disk, pc, rv>>
  /\ UNCHANGED <<list, io, blkno, flags, usr, data, wq, lock, asleep, call,
                 cur, retry, ret, history>>

\* ... clears its flag ...
sync_clear(t) ==
  LET b == Head(todo[t]) IN
  /\ pc[t] = "sync_clear"
  /\ dequeue_buffer(b)
  /\ flags' = [flags EXCEPT ![b] = @ \ {"DIRTY"}]
  /\ raced' = IF \E u \in Threads : cur[u] = b /\ pc[u] = "queue"
              THEN raced \cup {blkno[b]} ELSE raced
  /\ todo' = Set(todo, t, Tail(todo[t]))
  /\ Goto(t, "sync_next")
  /\ UNCHANGED <<list, blkno, usr, data, wq, lock, disk, asleep, call, cur,
                 retry, ret, rv, last>>

\* ... and gives the lock up at the end of the queue.
sync_leave(t) ==
  /\ pc[t] = "sync_next" /\ todo[t] = <<>>
  /\ lock' = NULL
  /\ Goto(t, ret[t])
  /\ UNCHANGED <<list, io, blkno, flags, usr, data, wq, disk, asleep, call,
                 cur, retry, ret, todo, rv, history>>

Step(t) ==
  \/ get_cached(t) \/ get_busy(t) \/ get_fresh(t) \/ get_none(t)
  \/ wait_buffer(t) \/ woken(t)
  \/ read_check(t) \/ read_synced(t) \/ update_buffer(t)
  \/ write_begin(t) \/ write_copy(t) \/ write_mark(t) \/ cache_buffer(t)
  \/ release_buffer(t) \/ notify_buffer(t) \/ done(t)
  \/ sync_enter(t) \/ sync_write(t) \/ sync_clear(t) \/ sync_leave(t)

Next == \E t \in Threads : begin(t) \/ (Step(t) /\ UNCHANGED calls)

Spec == Init /\ [][Next]_vars

\* A call that has begun goes on, and a thread that waits for the device lock
\* gets it (LockIsGranted of Mutex).
Fairness == \A t \in Threads : SF_vars(Step(t) /\ UNCHANGED calls)
FairSpec == Spec /\ Fairness
-----------------------------------------------------------------------------
Locations == {"idle", "get", "wait", "asleep", "read", "synced", "update",
              "write", "copy", "mark", "queue", "release", "notify", "done",
              "sync", "sync_next", "sync_clear", "panic"}

\* The fields of the buffers that several threads change, and the locals.
TypeOK ==
  /\ blkno \in [Bufs -> Blocks]
  /\ flags \in [Bufs -> SUBSET Flags]
  /\ usr \in [Bufs -> Threads \cup {NULL}]
  /\ wq \in [Bufs -> Seq(Threads)]
  /\ pc \in [Threads -> Locations]
  /\ call \in [Threads -> Calls]
  /\ cur \in [Threads -> Bufs \cup {NULL}]
  /\ ret \in [Threads -> {"idle", "get", "synced", "done"}]

\* Where a thread owns its buffer.
Using(t) ==
  \/ pc[t] \in {"read", "synced", "update", "write", "copy", "mark",
               "queue", "release"}
  \/ pc[t] \in {"sync", "sync_next", "sync_clear"} /\ ret[t] = "synced"

\* A block is never in two buffers, although get_buffer gives the lock up and
\* starts over when it waits or flushes.
OneBufferPerBlock ==
  \A b, c \in Bufs, k \in Blocks : Holds(b, k) /\ Holds(c, k) => b = c

\* A buffer has one user at a time, the user is the one it records
\* (release_buffer's assertion), and it stays on the block the user asked for.
UserOwnsBuffer ==
  \A t \in Threads : Using(t) =>
    /\ usr[cur[t]] = t
    /\ "BUSY" \in flags[cur[t]]
    /\ blkno[cur[t]] = call[t].blk

\* The entries of buf->wq are records on the stacks of the threads that wait
\* (bufq_thread_t waiter in wait_buffer): each belongs to a thread that is still
\* in wait_buffer for that buffer, still blocked, and queued once.
WaiterRecordsLive ==
  \A b \in Bufs : \A i \in 1 .. Len(wq[b]) :
    LET t == wq[b][i] IN
    /\ pc[t] = "asleep" /\ t \in asleep /\ cur[t] = b
    /\ \A j \in 1 .. Len(wq[b]) : wq[b][j] = t => i = j

\* "buffer needs to be written to disk": when nobody uses a block, its last
\* content is on the disk or in a DIRTY buffer that is queued for writing.  The
\* one way to lose a write is a flush that clears B_DIRTY after the user of the
\* buffer, who holds no lock, has set it for new data.
NothingLost ==
  \A k \in Blocks \ raced :
    (\A t \in Threads : ~ (Using(t) /\ blkno[cur[t]] = k)) =>
      \/ disk[k] = last[k]
      \/ \E b \in Bufs : /\ Holds(b, k) /\ data[b] = last[k]
                         /\ "DIRTY" \in flags[b] /\ In(b, io)

\* What bdev_read_buffer is about to copy out, from a cached block or from one
\* it has just read, is what was last written to the block, with the same
\* exception.
ReadsLatest ==
  \A t \in Threads :
    /\ pc[t] = "release" /\ call[t].op = "read"
    /\ "VALID" \in flags[cur[t]] /\ call[t].blk \notin raced
    => data[cur[t]] = last[call[t].blk]

\* "wait for the buf to be released": a thread that waits for a buffer wakes
\* up again.
WaiterWakes == \A t \in Threads : pc[t] = "asleep" ~> pc[t] = "get"
=============================================================================
