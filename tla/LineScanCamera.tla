--------------------------- MODULE LineScanCamera ---------------------------
(***************************************************************************)
(* The encoder-triggered camera of gz_linescan.cpp with an asynchronous     *)
(* sampler (cuda_tiles, optix).  Three kinds of thread touch one capture:   *)
(*   - the physics thread runs PostUpdate: it notices a failed sampler,     *)
(*     serves set_enabled, collects the lines of the step and queues them,  *)
(*     or hands over a boundary and waits for it;                           *)
(*   - the sampler (CudaLoop) batches the lines, exposes them, fills a      *)
(*     block and flushes it;                                                *)
(*   - each flushed block is written by a task of its own, two at a time.   *)
(* A line is its capture id.  What a line shows, its pose tags and its      *)
(* radiometry are abstracted; GPU, terrain and disk fail when they like.    *)
(***************************************************************************)
EXTENDS Naturals, Sequences, FiniteSets, SequencesExt

Archive == INSTANCE StripArchive

CONSTANTS Rows,       \* block_rows
          BatchRows,  \* sampling.batch_rows
          MinTail,    \* min_tail_rows
          LineLimit,  \* sampling.queue_capacity_lines
          JobLimit,   \* sampling.queue_capacity_jobs
          StepLines,  \* bound: lines that fall due in one physics step
          LinesMax,   \* bound: lines of a behaviour
          Requests,   \* bound: set_enabled calls
          Breaks      \* bound: motions the gates reject

\* A block or a batch of one row would take the warm-up's line for an image row.
ASSUME CameraAssumption ==
  /\ {MinTail, LineLimit, JobLimit, StepLines} \subseteq Nat \ {0}
  /\ Rows \in Nat \ {0, 1} /\ BatchRows \in 2 .. LineLimit
  /\ {LinesMax, Requests, Breaks} \subseteq Nat

VARIABLES
  pc, request, reply,                 \* the physics thread and the caller
  enabled, next,                      \* enabled_, nextCaptureLine_
  queue, job, busy, error, failed,    \* what mutex_ guards
  sampler, work, lines, buffer, segment, \* the sampler's side
  writes, records,                    \* writer tasks; what became of each block
  breaks, reported,                   \* where Reset fell; lines a failure covers
  asked, broken                       \* the bounds' counters

caller == <<pc, request, reply, asked>>
capture == <<enabled, next, breaks, reported, broken>>
shared == <<queue, job, busy, error, failed>>
render == <<sampler, work, lines, buffer, segment>>
disk == <<writes, records>>
vars == <<caller, capture, shared, render, disk>>

NoJob == [lines |-> <<>>, kind |-> "lines"]

Init ==
  /\ pc = "begin" /\ request = "none" /\ reply = "none" /\ asked = 0
  /\ enabled = FALSE /\ next = 0 /\ breaks = {}
  /\ reported = {} /\ broken = 0
  /\ queue = <<>> /\ job = NoJob /\ busy = FALSE /\ error = FALSE /\ failed = FALSE
  /\ sampler = "waiting" /\ work = NoJob /\ lines = <<>> /\ buffer = <<>>
  /\ segment = 0
  /\ writes = <<>> /\ records = {}

\* One record per block id: a file, the report of a discarded tail, or a write
\* that failed.
Record(rows, seg, what) == [lines |-> rows, segment |-> seg, kind |-> what]
Of(kind) == {r \in records: r.kind = kind}
Kept == UNION {ToSet(r.lines) : r \in Of("file") \cup Of("tail")}
QueuedLines == FoldLeft(LAMBDA n, j: n + Len(j.lines), 0, queue)

-----------------------------------------------------------------------------
(* The physics thread. *)

\* Reset: the encoder phase and the lines not yet due are dropped, so what
\* follows is a new stretch of motion.
Reset(n) == breaks' = breaks \cup {n}

\* Mutant: the flag that tells the sampler to stop is left down.
NoticeWithoutStop(n) ==
  /\ enabled' = FALSE /\ UNCHANGED failed
  /\ IF failed THEN UNCHANGED <<breaks, reported>>
     ELSE Reset(n) /\ reported' = reported \cup ((0 .. n - 1) \ Kept)

\* HandleTerrainError once error_ is set: capture stops and the first look at
\* a failure publishes it.
Notice(n) ==
  /\ enabled' = FALSE /\ failed' = TRUE
  /\ IF failed THEN UNCHANGED <<breaks, reported>>
     ELSE Reset(n) /\ reported' = reported \cup ((0 .. n - 1) \ Kept)

Answer(r) == pc' = "sample" /\ request' = "none" /\ reply' = r /\ UNCHANGED asked
Goto(label) == pc' = label /\ UNCHANGED <<request, reply, asked>>

\* The top of PostUpdate, and the request spin_some finds waiting.
Begin ==
  /\ pc = "begin"
  /\ IF error THEN Notice(next) /\ UNCHANGED <<next, broken, queue, job, busy, error>>
     ELSE UNCHANGED <<capture, shared>>
  /\ \/ Goto("sample")
     \/ \E r \in {"open", "close"}:
          /\ asked < Requests /\ asked' = asked + 1
          /\ pc' = "serve" /\ request' = r /\ reply' = "none"
  /\ UNCHANGED <<render, disk>>

\* set_enabled up to its first wait: contact evidence and, for an opening, a
\* failed sampler to replace.
Serve ==
  /\ pc = "serve"
  /\ \/ request = "open" /\ Answer("refused") /\ UNCHANGED <<capture, shared>>
     \/ /\ request = "open" /\ error
        /\ Notice(next) /\ Goto("join") /\ UNCHANGED <<next, broken, queue, job, busy, error>>
     \/ /\ request = "close" \/ ~error
        /\ Goto("toggle") /\ UNCHANGED <<capture, shared>>
  /\ UNCHANGED <<render, disk>>

\* RecoverSampler: the old thread is joined and its writers collected, the
\* queue and the half-filled block are dropped, a new thread starts.
Recover ==
  /\ pc = "join" /\ sampler = "exited" /\ \A w \in ToSet(writes): w.state # "writing"
  /\ writes' = <<>> /\ queue' = <<>> /\ error' = FALSE /\ failed' = FALSE /\ busy' = FALSE
  /\ buffer' = <<>> /\ lines' = <<>> /\ work' = NoJob /\ segment' = segment + 1
  /\ sampler' = "starting" /\ Goto("restart")
  /\ UNCHANGED <<capture, job, records>>

Restarted ==
  /\ pc = "restart" /\ (sampler = "waiting" \/ error)
  /\ IF error THEN /\ Notice(next) /\ Answer("refused")
                   /\ UNCHANGED <<next, broken, queue, job, busy, error>>
     ELSE Goto("toggle") /\ UNCHANGED <<capture, shared>>
  /\ UNCHANGED <<render, disk>>

\* Dispatch up to its second wait: a failed sampler is noticed and the job is
\* dropped, a live one gets it and the caller waits at `waiting'.
Hand(kind, waiting) ==
  IF error THEN Notice(next) /\ Answer("refused") /\ UNCHANGED <<next, broken, queue, job, busy, error>>
  ELSE /\ job' = [lines |-> <<>>, kind |-> kind] /\ busy' = TRUE
       /\ Goto(waiting) /\ UNCHANGED <<capture, queue, error, failed>>

\* The boundary both directions of the toggle dispatch first.
Toggle == pc = "toggle" /\ Hand("end", "toggled") /\ UNCHANGED <<render, disk>>

Returned == error \/ ~busy

Toggled ==
  /\ pc = "toggled" /\ Returned
  /\ IF error THEN Notice(next) /\ Answer("refused") /\ UNCHANGED <<next, broken>>
     ELSE /\ enabled' = FALSE /\ UNCHANGED <<next, broken, reported, failed>> /\ Reset(next)
          /\ Goto(IF request = "open" THEN "warm" ELSE "drain")
  /\ UNCHANGED <<queue, job, busy, error, render, disk>>

\* Opening prefetches the terrain under the camera before a line is taken; a
\* camera that has no pose yet is refused.
Warm ==
  /\ pc = "warm"
  /\ \/ Answer("refused") /\ UNCHANGED <<capture, shared>>
     \/ Hand("warm", "warmed")
  /\ UNCHANGED <<render, disk>>

Warmed ==
  /\ pc = "warmed" /\ Returned
  /\ IF error THEN Notice(next) /\ Answer("refused") /\ UNCHANGED <<next, broken>>
     ELSE enabled' = TRUE /\ Answer("opened")
          /\ UNCHANGED <<next, breaks, reported, broken, failed>>
  /\ UNCHANGED <<queue, job, busy, error, render, disk>>

\* DrainWrites waits for the writers in their order, up to the first that failed.
Drained ==
  \A i \in DOMAIN writes:
    writes[i].state = "writing" => \E j \in 1 .. i - 1: writes[j].state = "failed"

\* Closing answers after DrainWrites; a write that failed throws out of the
\* callback and takes the simulator with it.
Drain ==
  /\ pc = "drain" /\ Drained
  /\ IF \A w \in ToSet(writes): w.state = "ok"
     THEN writes' = <<>> /\ Answer("closed")
     ELSE Goto("dead") /\ UNCHANGED writes
  /\ UNCHANGED <<capture, shared, render, records>>

Due(k) == [i \in 1 .. k |-> next + i - 1]

\* Mutant: a step that does not fit is dropped and capture goes on.
EnqueueOrDrop(ls, n) ==
  /\ ~error
  /\ queue' = IF QueuedLines + Len(ls) <= LineLimit /\ Len(queue) < JobLimit
              THEN Append(queue, [lines |-> ls, kind |-> "lines"]) ELSE queue
  /\ UNCHANGED <<job, busy, error, failed, enabled, breaks, reported>>

\* Lines of an ordinary step go to the bounded queue.  A queue that is full,
\* or whose oldest job waited too long, fails the sampler, and this step's
\* lines are gone with it.
Enqueue(ls, n) ==
  \/ /\ ~error /\ QueuedLines + Len(ls) <= LineLimit /\ Len(queue) < JobLimit
     /\ queue' = Append(queue, [lines |-> ls, kind |-> "lines"])
     /\ UNCHANGED <<job, busy, error, failed, enabled, breaks, reported>>
  \/ /\ \/ error \/ queue # <<>> \/ Len(ls) > LineLimit
     /\ error' = TRUE /\ Notice(n) /\ UNCHANGED <<queue, job, busy>>

\* The capture part of PostUpdate.  The gates (wheel data, speed, lateral,
\* yaw, residual, motion state) decide freely; k lines fall due.
Exposed ==
  /\ pc = "sample" /\ enabled
  /\ \E k \in 1 .. StepLines:
       next + k <= LinesMax /\ next' = next + k /\ Enqueue(Due(k), next + k)
  /\ Goto("begin") /\ UNCHANGED <<broken, render, disk>>

\* A step whose job carries a boundary is dispatched and waited for: HOLD with
\* nothing pending keeps the capture, a gate that rejects the motion or a pose
\* or encoder error ends the stretch, with the lines already due.  Time that
\* was set back ends it also while the camera is off.
Boundary ==
  /\ pc = "sample" /\ broken < Breaks /\ broken' = broken + 1
  /\ \E k \in 0 .. StepLines, kind \in {"hold", "end"}:
       /\ enabled \/ (k = 0 /\ kind = "end")
       /\ next + k <= LinesMax /\ next' = next + k
       /\ IF error THEN Notice(next + k) /\ Goto("begin") /\ UNCHANGED <<queue, job, busy, error>>
          ELSE /\ job' = [lines |-> Due(k), kind |-> kind] /\ busy' = TRUE
               /\ IF kind = "end" THEN Reset(next + k) ELSE UNCHANGED breaks
               /\ UNCHANGED <<enabled, reported, queue, error, failed>>
               /\ Goto("bounded")
  /\ UNCHANGED <<render, disk>>

Bounded ==
  /\ pc = "bounded" /\ Returned /\ Goto("begin")
  /\ IF error THEN Notice(next) /\ UNCHANGED <<next, broken>> ELSE UNCHANGED <<capture, failed>>
  /\ UNCHANGED <<queue, job, busy, error, render, disk>>

Quiet == pc = "sample" /\ Goto("begin") /\ UNCHANGED <<capture, shared, render, disk>>

Physics ==
  \/ Begin \/ Serve \/ Recover \/ Restarted \/ Toggle \/ Toggled \/ Warm \/ Warmed
  \/ Drain \/ Exposed \/ Boundary \/ Bounded \/ Quiet

-----------------------------------------------------------------------------
(* The sampler thread. *)

To(state) == sampler' = state
\* What an exception leaves: the batch and the rest of the job are locals.
Throw == To("failing") /\ work' = NoJob /\ lines' = <<>>

\* The writers whose future is still to be collected.
Pending ==
  LET i == SelectInSeq(writes, LAMBDA w: w.state # "ok")
  IN  IF i = 0 THEN <<>> ELSE SubSeq(writes, i, Len(writes))
FlushThrows == Pending # <<>> /\ Head(Pending).state = "failed"
FlushWaits == Len(Pending) = 2 /\ Head(Pending).state = "writing"

Short(rows, reason) == reason # "full" /\ Len(rows) < MinTail

\* Flush of a block that is not lost to an earlier failed write: a short tail
\* is discarded with an event, any other block gets a writer of its own.
Flush(rows, reason) ==
  /\ buffer' = <<>>
  /\ IF Short(rows, reason)
     THEN records' = records \cup {Record(rows, segment, "tail")} /\ UNCHANGED writes
     ELSE /\ ~FlushWaits /\ ~FlushThrows /\ UNCHANGED records
          /\ writes' = Append(Pending, [lines |-> rows, segment |-> segment, state |-> "writing"])
FlushFails(rows, reason) == ~Short(rows, reason) /\ FlushThrows

\* Mutant: the job that is waited for overtakes the queue.
TakeBoundaryFirst ==
  /\ sampler = "waiting" /\ work = NoJob
  /\ \/ failed /\ To("stopping") /\ UNCHANGED <<work, lines, queue>>
     \/ /\ ~failed /\ queue # <<>> /\ ~busy
        /\ \/ work' = Head(queue) /\ queue' = Tail(queue) /\ UNCHANGED <<sampler, lines>>
           \/ Throw /\ UNCHANGED queue
     \/ ~failed /\ busy /\ work' = job /\ UNCHANGED <<sampler, lines, queue>>
  /\ UNCHANGED <<caller, capture, job, busy, error, failed, buffer, segment, disk>>

\* Waiting for work: a failure the physics thread saw ends the thread, the
\* queue goes before the job that is waited for, and Pop may find the oldest
\* entry overdue.
Take ==
  /\ sampler = "waiting" /\ work = NoJob
  /\ \/ failed /\ To("stopping") /\ UNCHANGED <<work, lines, queue>>
     \/ /\ ~failed /\ queue # <<>>
        /\ \/ work' = Head(queue) /\ queue' = Tail(queue) /\ UNCHANGED <<sampler, lines>>
           \/ Throw /\ UNCHANGED queue
     \/ ~failed /\ queue = <<>> /\ busy /\ work' = job /\ UNCHANGED <<sampler, lines, queue>>
  /\ UNCHANGED <<caller, capture, job, busy, error, failed, buffer, segment, disk>>

Consecutive(ls) == \A i \in DOMAIN ls: ls[i] = ls[1] + i - 1

\* One line joins the batch; a batch that is full, or completes the block, is
\* exposed unless its capture ids have a hole, and a complete block is flushed.
Batch ==
  /\ sampler = "waiting" /\ work.lines # <<>>
  /\ LET ls == Append(lines, Head(work.lines))
         rows == buffer \o ls
         rest == work' = [work EXCEPT !.lines = Tail(@)]
     IN  \/ /\ Len(ls) < BatchRows /\ Len(rows) < Rows
            /\ rest /\ lines' = ls /\ UNCHANGED <<sampler, buffer, writes, records>>
         \/ /\ Len(ls) = BatchRows \/ Len(rows) = Rows
            /\ \/ Throw /\ UNCHANGED <<buffer, writes, records>>
               \/ /\ Consecutive(ls) /\ rest /\ lines' = <<>> /\ UNCHANGED sampler
                  /\ IF Len(rows) = Rows THEN Flush(rows, "full")
                     ELSE buffer' = rows /\ UNCHANGED <<writes, records>>
               \/ /\ Consecutive(ls) /\ Len(rows) = Rows /\ FlushFails(rows, "full")
                  /\ Throw /\ buffer' = rows /\ UNCHANGED <<writes, records>>
  /\ UNCHANGED <<caller, capture, shared, segment>>

\* Mutant: a boundary that finds no rows opens no segment.
SettleCountsFlushes ==
  /\ sampler = "waiting" /\ work.lines = <<>> /\ work.kind # "lines"
  /\ \/ Throw /\ UNCHANGED <<buffer, segment, writes, records, busy>>
     \/ /\ work' = NoJob /\ lines' = <<>> /\ busy' = FALSE /\ UNCHANGED sampler
        /\ IF work.kind = "end" /\ buffer \o lines # <<>>
           THEN Flush(buffer \o lines, "boundary") /\ segment' = segment + 1
           ELSE buffer' = buffer \o lines /\ UNCHANGED <<segment, writes, records>>
     \/ /\ work.kind = "end" /\ FlushFails(buffer \o lines, "boundary")
        /\ Throw /\ buffer' = buffer \o lines /\ UNCHANGED <<segment, writes, records, busy>>
  /\ UNCHANGED <<caller, capture, queue, job, error, failed>>

\* The end of a job that is waited for: what is left of the batch is exposed,
\* a boundary flushes the block and opens the next segment, a warm-up only
\* reads terrain.
Settle ==
  /\ sampler = "waiting" /\ work.lines = <<>> /\ work.kind # "lines"
  /\ \/ Throw /\ UNCHANGED <<buffer, segment, writes, records, busy>>
     \/ /\ Consecutive(lines)
        /\ work' = NoJob /\ lines' = <<>> /\ busy' = FALSE /\ UNCHANGED sampler
        /\ IF work.kind = "end" /\ buffer \o lines # <<>>
           THEN Flush(buffer \o lines, "boundary")
           ELSE buffer' = buffer \o lines /\ UNCHANGED <<writes, records>>
        /\ segment' = IF work.kind = "end" THEN segment + 1 ELSE segment
     \/ /\ Consecutive(lines) /\ work.kind = "end" /\ FlushFails(buffer \o lines, "boundary")
        /\ Throw /\ buffer' = buffer \o lines /\ UNCHANGED <<segment, writes, records, busy>>
  /\ UNCHANGED <<caller, capture, queue, job, error, failed>>

\* The thread is told to stop: what is left of the batch is exposed first.
Stop ==
  /\ sampler = "stopping" /\ To("failing") /\ lines' = <<>>
  /\ buffer' \in {buffer} \cup IF Consecutive(lines) THEN {buffer \o lines} ELSE {}
  /\ UNCHANGED <<caller, capture, shared, work, segment, disk>>

Exit == To("exited") /\ error' = TRUE /\ busy' = FALSE

\* The block that was being filled is kept if it can be, and error_ is set
\* after its writers are done.
Bury ==
  /\ sampler = "failing"
  /\ \/ buffer # <<>> /\ Flush(buffer, "sampling_failure") /\ To("closing") /\ UNCHANGED <<error, busy>>
     \/ buffer = <<>> /\ To("closing") /\ UNCHANGED <<error, busy, buffer, writes, records>>
     \/ /\ buffer # <<>> /\ FlushFails(buffer, "sampling_failure")
        /\ Exit /\ UNCHANGED <<buffer, writes, records>>
  /\ UNCHANGED <<caller, capture, queue, job, failed, work, lines, segment>>

Leave ==
  /\ sampler = "closing" /\ Drained
  /\ Exit /\ writes' = IF \A w \in ToSet(writes): w.state = "ok" THEN <<>> ELSE writes
  /\ UNCHANGED <<caller, capture, queue, job, failed, work, lines, buffer, segment, records>>

\* A new thread builds its sampler, or fails to.
StartUp ==
  /\ sampler = "starting"
  /\ \/ To("waiting") /\ UNCHANGED <<error, busy>>
     \/ Exit
  /\ UNCHANGED <<caller, capture, queue, job, failed, work, lines, buffer, segment, disk>>

Sampler == Take \/ Batch \/ Settle \/ Stop \/ Bury \/ Leave \/ StartUp

\* A block reaches the disk, or does not.
Write ==
  \E i \in DOMAIN writes, outcome \in {"ok", "failed"}:
    /\ writes[i].state = "writing" /\ writes' = [writes EXCEPT ![i].state = outcome]
    /\ records' = records \cup
         {Record(writes[i].lines, writes[i].segment, IF outcome = "ok" THEN "file" ELSE "lost")}
    /\ UNCHANGED <<caller, capture, shared, render>>

Next == Physics \/ Sampler \/ Write
Spec == Init /\ [][Next]_vars

\* Each thread runs; no request, line or failure is owed.
LiveSpec == Spec /\ WF_vars(Physics) /\ WF_vars(Sampler) /\ WF_vars(Write)

-----------------------------------------------------------------------------
(* Properties. *)

\* What offline_correction.py is given to read: one record per block id, and the
\* order of the ids is that of the lines.
Session ==
  {[segment |-> r.segment, first |-> Head(r.lines), rows |-> Len(r.lines), discarded |-> r.kind = "tail"] :
     r \in records}
Neighbours(blocks) ==
  {v \in blocks \X blocks:
     /\ v[1] # v[2] /\ v[1].first <= v[2].first
     /\ \A b \in blocks: b.first <= v[1].first \/ v[2].first <= b.first}
\* The lines the reader misses between two neighbours.
Hole(v) == v[1].first + v[1].rows .. v[2].first - 1

\* The rows of every block are consecutive capture ids, whatever batch was lost
\* and whichever thread filled the block; and the neighbours in a session that
\* was closed are accepted by the reader (validate_capture_sequence), also after
\* samplers that failed and were replaced.  The one pair it refuses has a
\* discarded tail and lines next to it that the failure lost: every such line was
\* reported, and the segments are in order.  Left out are sessions with a write
\* that failed.
SessionIsReadable ==
  /\ \A r \in records: r.lines = [i \in DOMAIN r.lines |-> r.lines[1] + i - 1]
  /\ reply = "closed" /\ Of("lost") = {}
       => \A v \in Neighbours(Session):
            \/ Archive!Follows(v[1], v[2])
            \/ /\ v[1].discarded \/ v[2].discarded
               /\ v[1].segment <= v[2].segment
               /\ Hole(v) # {} /\ Hole(v) \subseteq reported

\* Blocks that share a segment id belong to one stretch of motion: a rejected
\* motion, a toggle or a failure between two lines puts them in different
\* segments, although the segment is counted by another thread (++segment_).
SegmentIsOneMotion ==
  \A b, c \in Of("file"):
    b.segment = c.segment => breaks \cap (Head(b.lines) + 1 .. Last(c.lines)) = {}

\* A closing that was acknowledged leaves nothing in memory: every line taken
\* so far is in a block file, in a tail that was reported as discarded, or was
\* covered by a published sampling failure ("Disabling acknowledges only after
\* all completed blocks reach storage").
CloseIsComplete ==
  reply = "closed" => 0 .. next - 1 \subseteq Kept \cup reported

\* No handshake of the physics thread with the sampler or the writers waits
\* for ever: every request is answered unless the simulator dies.
RequestAnswered == request # "none" ~> (request = "none" \/ pc = "dead")
=============================================================================
