------------------------ MODULE LineScanCameraProofs ------------------------
(***************************************************************************)
(* Proofs about the camera of LineScanCamera, for any block, batch and      *)
(* queue size and any number of lines, requests and failures: a segment     *)
(* number never covers two stretches of motion, a closing that was          *)
(* acknowledged has every line on record or reported, and what it leaves on *)
(* disk is a session the reader accepts.                                    *)
(*                                                                          *)
(* The two threads and the writers are handled apart.  A step of the        *)
(* sampler or of a writer is summed up by Moves, a step of the physics      *)
(* thread by Strides: what they do to the set of lines in memory            *)
(* (InFlight), the blocks (Blocks), the stretches (breaks, Ending) and the  *)
(* segment.  The invariants are then about these sets alone:                *)
(*   Handshake  what each thread may rely on while the other waits;         *)
(*   Clean      what a toggle that was settled has left behind;             *)
(*   Motion     where the ends of stretches lie among lines and blocks;     *)
(*   Balance    where every line that was taken is.                         *)
(* SessionIsReadable is about the order of lines, which sets do not show.   *)
(* Its invariant follows the lines from block to block and on through the   *)
(* buffer, the batch, the job at hand and the queue, each a strip that      *)
(* begins where the one before it ends:                                     *)
(*   Sorted     the blocks are in order, complete within a segment;         *)
(*   Single     one record for each block;                                  *)
(*   Order      what is not in a block yet goes on from them, up to next;   *)
(*   Settled    a closing that was answered leaves no line to be written.   *)
(***************************************************************************)
EXTENDS LineScanCamera, SequenceTheorems, WellFoundedInduction, TLAPS

Labels == {"begin", "serve", "sample", "join", "restart", "toggle", "toggled", "warm", "warmed",
           "bounded", "drain", "dead"}
Samplers == {"starting", "waiting", "stopping", "failing", "closing", "exited"}
Steps == [lines : Seq(Nat), kind : {"lines"}]
Jobs == [lines : Seq(Nat), kind : {"lines", "hold", "end", "warm"}]
Images == {s \in Seq(Nat) : s # <<>>}
Writers == [lines : Images, segment : Nat, state : {"writing", "ok", "failed"}]
Records == [lines : Images, segment : Nat, kind : {"file", "tail", "lost"}]

CallerOK ==
  /\ pc \in Labels /\ request \in {"none", "open", "close"}
  /\ reply \in {"none", "opened", "closed", "refused"}
CaptureOK == enabled \in BOOLEAN /\ next \in Nat /\ breaks \subseteq Nat /\ reported \subseteq Nat
SharedOK ==
  queue \in Seq(Steps) /\ job \in Jobs /\ busy \in BOOLEAN /\ error \in BOOLEAN /\ failed \in BOOLEAN
RenderOK ==
  sampler \in Samplers /\ work \in Jobs /\ lines \in Seq(Nat) /\ buffer \in Seq(Nat) /\ segment \in Nat
DiskOK == writes \in Seq(Writers) /\ records \subseteq Records
TypeOK == CallerOK /\ CaptureOK /\ SharedOK /\ RenderOK /\ DiskOK

\* The lines that the jobs of a queue, or a list of writers, carry.
LinesOf(q) == UNION {ToSet(e.lines) : e \in ToSet(q)}

\* Every block, written or being written, with the segment it belongs to.
Blocks ==
  {<<r.lines, r.segment>> : r \in Of("file")} \cup {<<w.lines, w.segment>> : w \in ToSet(writes)}

\* What the job that is waited for will hand over.
InHand == IF busy /\ sampler = "waiting" /\ work.kind = "lines" THEN ToSet(job.lines) ELSE {}

\* Every line between the physics thread and a block.
InFlight == ToSet(buffer) \cup ToSet(lines) \cup ToSet(work.lines) \cup LinesOf(queue) \cup InHand

\* A writer that is done has put its block on file.
Filed == \A w \in ToSet(writes) : w.state = "ok" => ToSet(w.lines) \subseteq Kept

-----------------------------------------------------------------------------
(* Sequences as sets *)

\* A nonempty set of naturals has a least member, so Min finds it.
LEMMA Least ==
  ASSUME NEW S \in SUBSET Nat, S # {} PROVE Min(S) \in S /\ \A y \in S : Min(S) <= y
<1> DEFINE R == {p \in Nat \X Nat : p[1] < p[2]}
<1>1. IsWellFoundedOn(R, Nat) BY NatLessThanWellFounded, Zenon DEF OpToRel
<1>2. PICK x \in S : \A y \in S : <<y, x>> \notin R BY <1>1, WFMin, Zenon
<1>3. \A y \in S : x <= y
  <2> SUFFICES ASSUME NEW y \in S, y < x PROVE FALSE OBVIOUS
  <2>1. <<y, x>> \in R OBVIOUS
  <2> QED BY <1>2, <2>1
<1> QED BY <1>3 DEF Min

LEMMA SetOfSeq ==
  ASSUME NEW S, NEW s \in Seq(S)
  PROVE  /\ ToSet(s) \subseteq S
         /\ \A x : x \in ToSet(s) <=> \E i \in 1 .. Len(s) : x = s[i]
         /\ s = <<>> => ToSet(s) = {}
         /\ s # <<>> => Head(s) \in ToSet(s) /\ Last(s) \in ToSet(s)
<1>1. Len(s) \in Nat /\ DOMAIN s = 1 .. Len(s) /\ \A i \in 1 .. Len(s) : s[i] \in S
  BY LenProperties, ElementOfSeq
<1>2. s = <<>> <=> Len(s) = 0 BY EmptySeq
<1>3. s # <<>> => Head(s) = s[1] /\ 1 \in 1 .. Len(s) /\ Len(s) \in 1 .. Len(s) BY <1>1, <1>2
<1> QED BY <1>1, <1>2, <1>3 DEF ToSet, Last

LEMMA SetOfAppend ==
  ASSUME NEW S, NEW s \in Seq(S), NEW e \in S
  PROVE  Append(s, e) \in Seq(S) /\ ToSet(Append(s, e)) = ToSet(s) \cup {e} /\ Append(s, e) # <<>>
<1> DEFINE t == Append(s, e)
<1>1. /\ t \in Seq(S) /\ t # <<>> /\ Len(t) = Len(s) + 1 /\ t[Len(s) + 1] = e
      /\ \A i \in 1 .. Len(s) : t[i] = s[i]
  BY AppendProperties
<1> HIDE DEF t
<1>2. Len(s) \in Nat BY LenProperties
<1>3. \A x : x \in ToSet(t) <=> \E i \in 1 .. Len(s) + 1 : x = t[i] BY <1>1, SetOfSeq
<1>4. \A x : x \in ToSet(s) <=> \E i \in 1 .. Len(s) : x = s[i] BY SetOfSeq
<1>5. ToSet(t) = ToSet(s) \cup {e} BY <1>1, <1>2, <1>3, <1>4
<1> QED BY <1>1, <1>5 DEF t

LEMMA SetOfConcat ==
  ASSUME NEW S, NEW s \in Seq(S), NEW t \in Seq(S)
  PROVE  s \o t \in Seq(S) /\ ToSet(s \o t) = ToSet(s) \cup ToSet(t)
<1> DEFINE c == s \o t
<1>1. /\ c \in Seq(S) /\ Len(c) = Len(s) + Len(t)
      /\ \A i \in 1 .. Len(s) + Len(t) : c[i] = IF i <= Len(s) THEN s[i] ELSE t[i - Len(s)]
  BY ConcatProperties
<1> HIDE DEF c
<1>2. Len(s) \in Nat /\ Len(t) \in Nat BY LenProperties
<1>3. \A x : x \in ToSet(c) <=> \E i \in 1 .. Len(s) + Len(t) : x = c[i]
  <2>1. \A x : x \in ToSet(c) <=> \E i \in 1 .. Len(c) : x = c[i] BY <1>1, SetOfSeq, Zenon
  <2> QED BY <1>1, <2>1
<1>4. \A x : x \in ToSet(s) <=> \E i \in 1 .. Len(s) : x = s[i] BY SetOfSeq
<1>5. \A x : x \in ToSet(t) <=> \E i \in 1 .. Len(t) : x = t[i] BY SetOfSeq
<1>6. ASSUME NEW x \in ToSet(s) \cup ToSet(t) PROVE x \in ToSet(c)
  <2>1. CASE x \in ToSet(s) BY <1>1, <1>2, <1>3, <1>4, <2>1
  <2>2. CASE x \in ToSet(t)
    <3>1. PICK i \in 1 .. Len(t) : x = t[i] BY <1>5, <2>2
    <3>2. i + Len(s) \in 1 .. Len(s) + Len(t) /\ ~(i + Len(s) <= Len(s)) /\ i + Len(s) - Len(s) = i
      BY <1>2
    <3> QED BY <1>1, <1>3, <3>1, <3>2
  <2> QED BY <1>6, <2>1, <2>2
<1>7. ASSUME NEW x \in ToSet(c) PROVE x \in ToSet(s) \cup ToSet(t)
  <2>1. PICK i \in 1 .. Len(s) + Len(t) : x = c[i] BY <1>3
  <2>2. CASE i <= Len(s) BY <1>1, <1>2, <1>4, <2>1, <2>2
  <2>3. CASE ~(i <= Len(s))
    <3>1. i - Len(s) \in 1 .. Len(t) BY <1>2, <2>3
    <3> QED BY <1>1, <1>5, <2>1, <2>3, <3>1
  <2> QED BY <2>2, <2>3
<1>8. ToSet(c) = ToSet(s) \cup ToSet(t) BY <1>6, <1>7
<1> QED BY <1>1, <1>8 DEF c

LEMMA SetOfTail ==
  ASSUME NEW S, NEW s \in Seq(S), s # <<>>
  PROVE  /\ Head(s) \in S /\ Tail(s) \in Seq(S)
         /\ ToSet(s) = {Head(s)} \cup ToSet(Tail(s))
<1> DEFINE t == Tail(s)
<1>1. /\ Head(s) \in S /\ t \in Seq(S) /\ Len(t) = Len(s) - 1
      /\ \A i \in 1 .. Len(t) : t[i] = s[i + 1]
  BY HeadTailProperties
<1> HIDE DEF t
<1>2. Len(s) \in Nat \ {0} BY EmptySeq
<1>3. Head(s) = s[1] BY <1>2
<1>4. \A x : x \in ToSet(s) <=> \E i \in 1 .. Len(s) : x = s[i] BY SetOfSeq
<1>5. \A x : x \in ToSet(t) <=> \E i \in 1 .. Len(s) - 1 : x = t[i] BY <1>1, SetOfSeq
<1>6. ASSUME NEW x \in ToSet(s) PROVE x = Head(s) \/ x \in ToSet(t)
  <2>1. PICK i \in 1 .. Len(s) : x = s[i] BY <1>4
  <2>2. CASE i = 1 BY <1>3, <2>1, <2>2
  <2>3. CASE i # 1
    <3>1. i - 1 \in 1 .. Len(s) - 1 /\ (i - 1) + 1 = i BY <1>2, <2>3
    <3>2. x = t[i - 1] BY <1>1, <2>1, <3>1
    <3> QED BY <1>5, <3>1, <3>2
  <2> QED BY <2>2, <2>3
<1>7. ASSUME NEW x \in ToSet(t) PROVE x \in ToSet(s)
  <2>1. PICK i \in 1 .. Len(s) - 1 : x = s[i + 1] BY <1>1, <1>5
  <2>2. i + 1 \in 1 .. Len(s) BY <1>2
  <2> QED BY <1>4, <2>1, <2>2
<1>8. Head(s) \in ToSet(s) BY SetOfSeq
<1>9. ToSet(s) = {Head(s)} \cup ToSet(t) BY <1>6, <1>7, <1>8
<1> QED BY <1>1, <1>9 DEF t

\* What Pending drops of the writers has reached the disk.
LEMMA PendingDrops ==
  ASSUME writes \in Seq(Writers)
  PROVE  /\ Pending \in Seq(Writers) /\ ToSet(Pending) \subseteq ToSet(writes)
         /\ \A w \in ToSet(writes) : w.state # "ok" => w \in ToSet(Pending)
<1> DEFINE I == {i \in 1 .. Len(writes) : writes[i].state # "ok"}
<1>1. /\ Len(writes) \in Nat /\ \A i \in 1 .. Len(writes) : writes[i] \in Writers
      /\ \A x : x \in ToSet(writes) <=> \E i \in 1 .. Len(writes) : x = writes[i]
  BY LenProperties, ElementOfSeq, SetOfSeq
<1>2. CASE I = {}
  <2>1. Pending = <<>> BY <1>2 DEF Pending, SelectInSeq
  <2>2. \A w \in ToSet(writes) : w.state = "ok" BY <1>1, <1>2
  <2> QED BY <2>1, <2>2, EmptySeq, SetOfSeq
<1>3. CASE I # {}
  <2> DEFINE m == Min(I)
  <2>1. m \in I /\ \A y \in I : m <= y
    <3>1. I \in SUBSET Nat OBVIOUS
    <3> HIDE DEF I
    <3> QED BY <1>3, <3>1, Least
  <2>2. m \in 1 .. Len(writes) BY <2>1
  <2>3. Pending = SubSeq(writes, m, Len(writes))
    <3>1. SelectInSeq(writes, LAMBDA w: w.state # "ok") = m BY <1>3, Zenon DEF SelectInSeq
    <3>2. m # 0 BY <1>1, <2>2
    <3> HIDE DEF m
    <3> QED BY <3>1, <3>2 DEF Pending
  <2> HIDE DEF m
  <2>4. /\ Pending \in Seq(Writers) /\ Len(Pending) = Len(writes) - m + 1
        /\ \A i \in 1 .. Len(writes) - m + 1 : Pending[i] = writes[m + i - 1]
    BY <1>1, <2>2, <2>3, SubSeqProperties
  <2>5. \A x : x \in ToSet(Pending) <=> \E i \in 1 .. Len(writes) - m + 1 : x = Pending[i]
    BY <2>4, SetOfSeq
  <2>6. ASSUME NEW x \in ToSet(Pending) PROVE x \in ToSet(writes)
    <3>1. PICK i \in 1 .. Len(writes) - m + 1 : x = writes[m + i - 1] BY <2>4, <2>5
    <3>2. m + i - 1 \in 1 .. Len(writes) BY <1>1, <2>2
    <3> QED BY <1>1, <3>1, <3>2
  <2>7. ASSUME NEW w \in ToSet(writes), w.state # "ok" PROVE w \in ToSet(Pending)
    <3>1. PICK i \in 1 .. Len(writes) : w = writes[i] BY <1>1
    <3>2. m <= i BY <2>1, <2>7, <3>1
    <3>3. i - m + 1 \in 1 .. Len(writes) - m + 1 /\ m + (i - m + 1) - 1 = i BY <1>1, <2>2, <3>2
    <3>4. Pending[i - m + 1] = writes[i] BY <2>4, <3>3
    <3> QED BY <2>5, <3>1, <3>3, <3>4
  <2> QED BY <2>4, <2>6, <2>7
<1> QED BY <1>2, <1>3

-----------------------------------------------------------------------------
(* Types *)

LEMMA NoticeTypes ==
  ASSUME TypeOK, NEW n \in Nat, Notice(n)
  PROVE  enabled' \in BOOLEAN /\ failed' \in BOOLEAN /\ breaks' \subseteq Nat /\ reported' \subseteq Nat
<1>1. 0 .. n - 1 \subseteq Nat OBVIOUS
<1>2. breaks' = breaks \/ breaks' = breaks \cup {n} BY DEF Notice, Reset
<1>3. reported' = reported \/ reported' = reported \cup ((0 .. n - 1) \ Kept) BY DEF Notice
<1>4. enabled' \in BOOLEAN /\ failed' \in BOOLEAN BY DEF Notice
<1>5. breaks \subseteq Nat /\ reported \subseteq Nat BY DEF TypeOK, CaptureOK
<1> QED BY <1>1, <1>2, <1>3, <1>4, <1>5

LEMMA Empties ==
  /\ <<>> \in Seq(Nat) /\ <<>> \in Seq(Steps) /\ <<>> \in Seq(Writers) /\ NoJob \in Jobs
  /\ \A kind \in {"hold", "end", "warm"} : [lines |-> <<>>, kind |-> kind] \in Jobs
<1>1. <<>> \in Seq(Nat) /\ <<>> \in Seq(Steps) /\ <<>> \in Seq(Writers) BY EmptySeq
<1> QED BY <1>1 DEF NoJob, Jobs

LEMMA DueTypes ==
  ASSUME next \in Nat, NEW k \in Nat
  PROVE  Due(k) \in Seq(Nat) /\ ToSet(Due(k)) = next .. next + k - 1 /\ Len(Due(k)) = k
<1>1. Due(k) \in Seq(Nat) /\ Len(Due(k)) = k /\ \A i \in 1 .. k : Due(k)[i] = next + i - 1 BY DEF Due
<1>2. \A x : x \in ToSet(Due(k)) <=> \E i \in 1 .. k : x = Due(k)[i] BY <1>1, SetOfSeq
<1>3. ASSUME NEW x \in next .. next + k - 1 PROVE x \in ToSet(Due(k))
  <2>1. x - next + 1 \in 1 .. k /\ x = next + (x - next + 1) - 1 OBVIOUS
  <2> QED BY <1>1, <1>2, <2>1
<1>4. ASSUME NEW x \in ToSet(Due(k)) PROVE x \in next .. next + k - 1 BY <1>1, <1>2
<1> QED BY <1>1, <1>3, <1>4

LEMMA InitTypes == Init => TypeOK
<1> SUFFICES ASSUME Init PROVE TypeOK OBVIOUS
<1>1. CallerOK BY DEF Init, CallerOK, Labels
<1>2. CaptureOK BY DEF Init, CaptureOK
<1>3. SharedOK BY Empties DEF Init, SharedOK
<1>4. RenderOK BY Empties DEF Init, RenderOK, Samplers
<1>5. DiskOK BY Empties DEF Init, DiskOK
<1> QED BY <1>1, <1>2, <1>3, <1>4, <1>5 DEF TypeOK

LEMMA PhysicsTypes == TypeOK /\ Physics => TypeOK'
<1> SUFFICES ASSUME TypeOK, Physics PROVE TypeOK' OBVIOUS
<1> USE DEF Goto, Answer, caller, capture, shared, render, disk
<1>2. \A n \in Nat : Notice(n) => /\ enabled' \in BOOLEAN /\ failed' \in BOOLEAN
                                /\ breaks' \subseteq Nat /\ reported' \subseteq Nat
  BY NoticeTypes
<1>3. CallerOK'
  BY DEF Physics, Begin, Serve, Recover, Restarted, Toggle, Toggled, Warm, Warmed, Drain, Exposed, Boundary,
     Bounded, Quiet, Hand, TypeOK, CallerOK, Labels
<1>4. CaptureOK' /\ failed' \in BOOLEAN
  <2> USE DEF TypeOK, CaptureOK, SharedOK, Reset
  <2>1. CASE Begin \/ Serve \/ Recover \/ Restarted \/ Quiet \/ Drain
    BY <1>2, <2>1 DEF Begin, Serve, Recover, Restarted, Quiet, Drain
  <2>2. CASE Toggle \/ Toggled \/ Warm \/ Warmed \/ Bounded
    BY <1>2, <2>2 DEF Toggle, Toggled, Warm, Warmed, Bounded, Hand
  <2>3. CASE Exposed
    <3>1. PICK k \in 1 .. StepLines : next' = next + k /\ Enqueue(Due(k), next + k) BY <2>3 DEF Exposed
    <3>2. next + k \in Nat BY CameraAssumption
    <3> QED BY <1>2, <3>1, <3>2 DEF Enqueue
  <2>4. CASE Boundary
    <3>1. PICK k \in 0 .. StepLines, kind \in {"hold", "end"} :
            /\ next' = next + k
            /\ IF error THEN Notice(next + k)
               ELSE /\ IF kind = "end" THEN Reset(next + k) ELSE UNCHANGED breaks
                    /\ UNCHANGED <<enabled, reported, queue, error, failed>>
      BY <2>4 DEF Boundary
    <3>2. next + k \in Nat BY CameraAssumption
    <3> QED BY <1>2, <3>1, <3>2
  <2> QED BY <2>1, <2>2, <2>3, <2>4 DEF Physics
<1>5. queue' \in Seq(Steps) /\ job' \in Jobs /\ busy' \in BOOLEAN /\ error' \in BOOLEAN
  <2> USE DEF TypeOK, CaptureOK, SharedOK, Reset
  <2>1. CASE Begin \/ Serve \/ Recover \/ Restarted \/ Quiet \/ Drain
    BY Empties, <2>1 DEF Begin, Serve, Recover, Restarted, Quiet, Drain
  <2>2. CASE Toggle \/ Toggled \/ Warm \/ Warmed \/ Bounded
    BY Empties, <2>2 DEF Toggle, Toggled, Warm, Warmed, Bounded, Hand
  <2>3. CASE Exposed
    <3>1. PICK k \in 1 .. StepLines : next' = next + k /\ Enqueue(Due(k), next + k) BY <2>3 DEF Exposed
    <3>2. k \in Nat BY CameraAssumption
    <3>3. [lines |-> Due(k), kind |-> "lines"] \in Steps BY <3>2, DueTypes DEF Steps
    <3>4. Append(queue, [lines |-> Due(k), kind |-> "lines"]) \in Seq(Steps) BY <3>3, SetOfAppend
    <3> QED BY <3>1, <3>4 DEF Enqueue
  <2>4. CASE Boundary
    <3>1. PICK k \in 0 .. StepLines, kind \in {"hold", "end"} :
            IF error THEN UNCHANGED <<queue, job, busy, error>>
            ELSE /\ job' = [lines |-> Due(k), kind |-> kind] /\ busy' = TRUE
                 /\ UNCHANGED <<queue, error>>
      BY <2>4 DEF Boundary
    <3>2. k \in Nat BY CameraAssumption
    <3>3. [lines |-> Due(k), kind |-> kind] \in Jobs BY <3>2, DueTypes DEF Jobs
    <3> QED BY <3>1, <3>3
  <2> QED BY <2>1, <2>2, <2>3, <2>4 DEF Physics
<1>6. RenderOK'
  <2>1. CASE Recover BY Empties, <2>1 DEF Recover, TypeOK, RenderOK, Samplers
  <2>2. CASE ~Recover
    BY <2>2 DEF Physics, Begin, Serve, Restarted, Toggle, Toggled, Warm, Warmed, Drain, Exposed, Boundary,
       Bounded, Quiet, TypeOK, RenderOK
  <2> QED BY <2>1, <2>2
<1>7. DiskOK'
  <2>1. CASE Recover \/ Drain BY Empties, <2>1 DEF Recover, Drain, TypeOK, DiskOK
  <2>2. CASE ~(Recover \/ Drain)
    BY <2>2 DEF Physics, Begin, Serve, Restarted, Toggle, Toggled, Warm, Warmed, Exposed, Boundary,
       Bounded, Quiet, TypeOK, DiskOK
  <2> QED BY <2>1, <2>2
<1> QED BY <1>3, <1>4, <1>5, <1>6, <1>7 DEF TypeOK, SharedOK

-----------------------------------------------------------------------------
(* What a flush and a write leave on disk *)

LEMMA RecordAdds ==
  ASSUME NEW R \in Records, records' = records \cup {R}
  PROVE  /\ Kept \subseteq Kept' /\ (R.kind # "lost" => ToSet(R.lines) \subseteq Kept')
         /\ Of("file")' = Of("file") \cup (IF R.kind = "file" THEN {R} ELSE {})
<1>1. Of("file")' = Of("file") \cup (IF R.kind = "file" THEN {R} ELSE {}) BY DEF Of
<1>2. Of("tail")' = Of("tail") \cup (IF R.kind = "tail" THEN {R} ELSE {}) BY DEF Of
<1>3. R.kind \in {"file", "tail", "lost"} BY DEF Records
<1> QED BY <1>1, <1>2, <1>3 DEF Kept

LEMMA FlushTypes ==
  ASSUME TypeOK, NEW rows \in Images, NEW reason, Flush(rows, reason)
  PROVE  buffer' = <<>> /\ DiskOK'
<1>1. buffer' = <<>> BY DEF Flush
<1>2. rows \in Seq(Nat) /\ segment \in Nat /\ writes \in Seq(Writers) /\ records \subseteq Records
  BY DEF TypeOK, RenderOK, DiskOK, Images
<1>3. CASE Short(rows, reason)
  <2>1. Record(rows, segment, "tail") \in Records BY <1>2 DEF Record, Records
  <2> QED BY <1>1, <1>2, <1>3, <2>1 DEF Flush, DiskOK
<1>4. CASE ~Short(rows, reason)
  <2> DEFINE W == [lines |-> rows, segment |-> segment, state |-> "writing"]
  <2>1. W \in Writers BY <1>2 DEF Writers
  <2>2. writes' = Append(Pending, W) /\ records' = records BY <1>4 DEF Flush
  <2> HIDE DEF W
  <2>3. Append(Pending, W) \in Seq(Writers) BY <1>2, <2>1, PendingDrops, SetOfAppend
  <2> QED BY <1>1, <1>2, <2>2, <2>3 DEF DiskOK
<1> QED BY <1>3, <1>4

LEMMA FlushFacts ==
  ASSUME TypeOK, NEW rows \in Images, NEW reason, Flush(rows, reason)
  PROVE  /\ Blocks' \subseteq Blocks \cup {<<rows, segment>>}
         /\ Kept \subseteq Kept'
         /\ Filed => /\ Filed'
                     /\ Kept \cup LinesOf(writes) \cup ToSet(rows) \subseteq Kept' \cup LinesOf(writes')
<1>1. rows \in Seq(Nat) /\ segment \in Nat /\ writes \in Seq(Writers) /\ records \subseteq Records
  BY DEF TypeOK, RenderOK, DiskOK, Images
<1>2. CASE Short(rows, reason)
  <2> DEFINE R == Record(rows, segment, "tail")
  <2>1. R \in Records /\ R.kind = "tail" /\ R.lines = rows BY <1>1 DEF Record, Records
  <2>2. records' = records \cup {R} /\ writes' = writes BY <1>2 DEF Flush
  <2> HIDE DEF R
  <2>3. Kept \subseteq Kept' /\ ToSet(rows) \subseteq Kept' /\ Of("file")' = Of("file")
    BY <2>1, <2>2, RecordAdds
  <2>4. Filed => Filed' BY <2>2, <2>3 DEF Filed
  <2> QED BY <2>2, <2>3, <2>4 DEF Blocks
<1>3. CASE ~Short(rows, reason)
  <2> DEFINE W == [lines |-> rows, segment |-> segment, state |-> "writing"]
  <2>1. W \in Writers /\ W.lines = rows /\ W.segment = segment /\ W.state = "writing"
    BY <1>1 DEF Writers
  <2>2. writes' = Append(Pending, W) /\ records' = records BY <1>3 DEF Flush
  <2> HIDE DEF W
  <2>3. /\ ToSet(writes') = ToSet(Pending) \cup {W} /\ ToSet(Pending) \subseteq ToSet(writes)
        /\ \A w \in ToSet(writes) : w.state # "ok" => w \in ToSet(Pending)
    BY <1>1, <2>1, <2>2, PendingDrops, SetOfAppend
  <2>4. Kept' = Kept /\ Of("file")' = Of("file") BY <2>2 DEF Kept, Of
  <2>5. Blocks' \subseteq Blocks \cup {<<rows, segment>>} BY <2>1, <2>3, <2>4 DEF Blocks
  <2>6. ASSUME Filed PROVE Filed' BY <2>1, <2>3, <2>4, <2>6 DEF Filed
  <2>7. ASSUME Filed, NEW w \in ToSet(writes)
        PROVE  ToSet(w.lines) \subseteq Kept \cup LinesOf(writes')
    BY <2>3, <2>7 DEF Filed, LinesOf
  <2>8. ToSet(rows) \subseteq LinesOf(writes') BY <2>1, <2>3 DEF LinesOf
  <2>9. Filed => LinesOf(writes) \subseteq Kept \cup LinesOf(writes') BY <2>7 DEF LinesOf
  <2> QED BY <2>4, <2>5, <2>6, <2>8, <2>9
<1> QED BY <1>2, <1>3

LEMMA WriteFacts ==
  ASSUME TypeOK, Write
  PROVE  /\ DiskOK' /\ Blocks' \subseteq Blocks /\ Kept \subseteq Kept' /\ LinesOf(writes') = LinesOf(writes)
         /\ Filed => Filed'
<1>1. PICK i \in DOMAIN writes, outcome \in {"ok", "failed"} :
        /\ writes[i].state = "writing" /\ writes' = [writes EXCEPT ![i].state = outcome]
        /\ records' = records \cup
             {Record(writes[i].lines, writes[i].segment, IF outcome = "ok" THEN "file" ELSE "lost")}
  BY DEF Write
<1>2. /\ writes \in Seq(Writers) /\ Len(writes) \in Nat /\ DOMAIN writes = 1 .. Len(writes)
      /\ \A j \in 1 .. Len(writes) : writes[j] \in Writers
      /\ records \subseteq Records
  BY LenProperties, ElementOfSeq DEF TypeOK, DiskOK
<1> DEFINE v == writes[i]
           W == [v EXCEPT !.state = outcome]
           R == Record(v.lines, v.segment, IF outcome = "ok" THEN "file" ELSE "lost")
<1>3. v \in Writers BY <1>2
<1>4. /\ W \in Writers /\ W.lines = v.lines /\ W.segment = v.segment /\ W.state = outcome
  BY <1>3 DEF Writers
<1>5. R \in Records /\ R.lines = v.lines /\ R.segment = v.segment
      /\ R.kind = IF outcome = "ok" THEN "file" ELSE "lost"
  BY <1>3 DEF Writers, Record, Records
<1>6. writes' = [writes EXCEPT ![i] = W] /\ records' = records \cup {R} BY <1>1
<1>7. v \in ToSet(writes) BY <1>2, SetOfSeq
<1> HIDE DEF v, W, R
<1>8. writes' \in Seq(Writers) /\ Len(writes') = Len(writes)
      /\ \A j \in 1 .. Len(writes) : writes'[j] = IF j = i THEN W ELSE writes[j]
  BY <1>2, <1>4, <1>6, ExceptSeq
<1>9. /\ \A x : x \in ToSet(writes) <=> \E j \in 1 .. Len(writes) : x = writes[j]
      /\ \A x : x \in ToSet(writes') <=> \E j \in 1 .. Len(writes) : x = writes'[j]
  BY <1>2, <1>8, SetOfSeq
<1>10. ToSet(writes') \subseteq ToSet(writes) \cup {W} /\ ToSet(writes) \subseteq ToSet(writes') \cup {v}
       /\ W \in ToSet(writes')
  BY <1>2, <1>8, <1>9 DEF v
<1>11. Kept \subseteq Kept' /\ (outcome = "ok" => ToSet(v.lines) \subseteq Kept')
       /\ Of("file")' \subseteq Of("file") \cup {R}
  BY <1>5, <1>6, RecordAdds
<1>12. DiskOK' BY <1>2, <1>5, <1>6, <1>8 DEF DiskOK
<1>13. Blocks' \subseteq Blocks BY <1>4, <1>5, <1>7, <1>10, <1>11 DEF Blocks
<1>14. LinesOf(writes') = LinesOf(writes) BY <1>4, <1>7, <1>10 DEF LinesOf
<1>15. Filed => Filed' BY <1>4, <1>10, <1>11 DEF Filed
<1> QED BY <1>11, <1>12, <1>13, <1>14, <1>15

-----------------------------------------------------------------------------
(* The handshake of the two threads *)

\* Where the physics thread waits for the sampler.
Waits == {"toggled", "warmed", "bounded"}

\* The job that is waited for is the one the wait is named for, and the sampler
\* settles it with an empty queue; a failure that was seen stops the capture;
\* a thread that is being replaced takes part in nothing.
Handshake ==
  /\ busy => ~error /\ pc \in Waits
  /\ pc = "toggled" => job.kind = "end"
  /\ pc = "warmed" => job.kind = "warm"
  /\ pc = "bounded" => job.kind \in {"hold", "end"}
  /\ work.kind # "lines" => sampler = "waiting" /\ busy /\ queue = <<>> /\ work.kind = job.kind
  /\ failed => error /\ ~enabled
  /\ pc = "join" => failed
  /\ pc = "drain" => ~enabled
  /\ sampler = "starting" => pc = "restart" /\ ~error
  /\ pc = "restart" => /\ queue = <<>> /\ work = NoJob /\ ~failed /\ ~enabled
                       /\ error \/ sampler \in {"starting", "waiting"}
  /\ sampler = "stopping" => failed
  /\ sampler = "exited" => error

\* A stretch of motion has ended and its segment is not closed yet: the boundary
\* is still being waited for, or a failure was seen.
Ending == failed \/ (pc = "bounded" /\ job.kind = "end" /\ (busy \/ error))

\* What was taken may be missing from memory: an exception dropped it.
Excused == error \/ failed \/ sampler \in {"failing", "closing"}

-----------------------------------------------------------------------------
(* What a step of the sampler or of a writer does to lines and blocks *)

\* A new block holds lines that were in flight, under the segment of the moment.
Flushes == Blocks' \subseteq Blocks \cup ({r \in Images : ToSet(r) \subseteq InFlight} \X {segment})

\* Lines only leave; a segment is closed with nothing in flight, and as long as
\* it is not, a stretch that has ended stays so.
Carries ==
  \/ segment' = segment /\ InFlight' \subseteq InFlight /\ (Ending => Ending')
  \/ segment' = segment + 1 /\ InFlight' = {}

\* Short of an exception, what was in flight is there still or went to a writer
\* or to a record.
Keeps ==
  /\ Kept \subseteq Kept' /\ (Excused => Excused')
  /\ Filed => /\ Filed'
              /\ Excused' \/ Kept \cup LinesOf(writes) \cup InFlight
                                \subseteq Kept' \cup LinesOf(writes') \cup InFlight'

Moves == UNCHANGED <<caller, capture, job, failed>> /\ TypeOK' /\ Flushes /\ Carries /\ Keeps

LEMMA NoLines == ToSet(<<>>) = {} /\ LinesOf(<<>>) = {} /\ NoJob.lines = <<>> /\ NoJob.kind = "lines"
<1>1. ToSet(<<>>) = {} BY EmptySeq, SetOfSeq
<1> QED BY <1>1 DEF LinesOf, NoJob

LEMMA TakeMoves == ASSUME TypeOK, Handshake, Take PROVE Moves
<1>1. /\ UNCHANGED <<caller, capture, job, busy, error, failed, buffer, segment, disk>>
      /\ sampler = "waiting" /\ work = NoJob
  BY DEF Take
<1>2. Blocks' = Blocks /\ Kept' = Kept /\ Filed' = Filed /\ LinesOf(writes') = LinesOf(writes)
  BY <1>1 DEF Blocks, Kept, Filed, Of, LinesOf, disk
<1>3. Ending' = Ending /\ (Excused => Excused') BY <1>1 DEF Ending, Excused, caller
<1>4. InFlight = ToSet(buffer) \cup ToSet(lines) \cup LinesOf(queue) \cup (IF busy THEN ToSet(job.lines) ELSE {})
  BY <1>1, NoLines DEF InFlight, InHand
<1>5. /\ InFlight' \subseteq InFlight /\ (Excused' \/ InFlight \subseteq InFlight')
      /\ sampler' \in Samplers /\ work' \in Jobs /\ lines' \in Seq(Nat) /\ queue' \in Seq(Steps)
  <2> USE DEF TypeOK, SharedOK, RenderOK
  <2>1. CASE failed /\ To("stopping") /\ UNCHANGED <<work, lines, queue>>
    BY <1>1, <1>4, <2>1, NoLines DEF To, InFlight, InHand, Excused, Samplers
  <2>2. CASE Throw /\ UNCHANGED queue
    BY <1>1, <1>4, <2>2, NoLines, Empties DEF Throw, To, InFlight, InHand, Excused, Samplers
  <2>3. CASE queue # <<>> /\ work' = Head(queue) /\ queue' = Tail(queue) /\ UNCHANGED <<sampler, lines>>
    <3>1. /\ Head(queue) \in Steps /\ Tail(queue) \in Seq(Steps)
          /\ ToSet(queue) = {Head(queue)} \cup ToSet(Tail(queue))
      BY <2>3, SetOfTail
    <3>2. LinesOf(queue) = ToSet(work'.lines) \cup LinesOf(queue') BY <2>3, <3>1 DEF LinesOf
    <3>3. work' \in Jobs /\ work'.kind = "lines" BY <2>3, <3>1 DEF Steps, Jobs
    <3>4. InFlight' = ToSet(buffer) \cup ToSet(lines) \cup ToSet(work'.lines) \cup LinesOf(queue')
                        \cup (IF busy THEN ToSet(job.lines) ELSE {})
      BY <1>1, <2>3, <3>3 DEF InFlight, InHand
    <3> QED BY <1>1, <1>4, <2>3, <3>1, <3>2, <3>3, <3>4
  <2>4. CASE busy /\ work' = job /\ UNCHANGED <<sampler, lines, queue>>
    BY <1>1, <1>4, <2>4 DEF InFlight, InHand
  <2> QED BY <2>1, <2>2, <2>3, <2>4 DEF Take
<1>6. TypeOK'
  BY <1>1, <1>5 DEF TypeOK, CallerOK, CaptureOK, SharedOK, RenderOK, DiskOK, caller, capture, disk
<1> QED BY <1>1, <1>2, <1>3, <1>5, <1>6 DEF Moves, Flushes, Carries, Keeps

LEMMA BatchMoves == ASSUME TypeOK, Handshake, Batch PROVE Moves
<1> DEFINE h == Head(work.lines)
           ls == Append(lines, h)
           rows == buffer \o ls
<1>1. /\ UNCHANGED <<caller, capture, shared, segment>>
      /\ sampler = "waiting" /\ work.lines # <<>>
  BY DEF Batch
<1>2. /\ work \in Jobs /\ work.lines \in Seq(Nat) /\ lines \in Seq(Nat) /\ buffer \in Seq(Nat)
      /\ sampler \in Samplers /\ segment \in Nat
  BY DEF TypeOK, RenderOK, Jobs
<1>3. /\ h \in Nat /\ Tail(work.lines) \in Seq(Nat)
      /\ ToSet(work.lines) = {h} \cup ToSet(Tail(work.lines))
  BY <1>1, <1>2, SetOfTail
<1>4. ls \in Seq(Nat) /\ ToSet(ls) = ToSet(lines) \cup {h} BY <1>2, <1>3, SetOfAppend
<1>5. rows \in Seq(Nat) /\ ToSet(rows) = ToSet(buffer) \cup ToSet(lines) \cup {h}
  <2> HIDE DEF ls
  <2>1. buffer \o ls \in Seq(Nat) /\ ToSet(buffer \o ls) = ToSet(buffer) \cup ToSet(ls)
    BY <1>2, <1>4, SetOfConcat
  <2> QED BY <1>4, <2>1
<1>6. Len(rows) = Rows => rows \in Images
  <2> HIDE DEF rows
  <2>1. rows # <<>> \/ Len(rows) = 0 BY EmptySeq
  <2> QED BY <1>5, <2>1, CameraAssumption DEF Images
<1> DEFINE rest == work' = [work EXCEPT !.lines = Tail(@)]
<1>7. \/ rest /\ lines' = ls /\ UNCHANGED <<sampler, buffer, writes, records>>
      \/ Throw /\ (buffer' = buffer \/ buffer' = rows) /\ UNCHANGED <<writes, records>>
      \/ rest /\ lines' = <<>> /\ UNCHANGED sampler /\ Len(rows) = Rows /\ Flush(rows, "full")
      \/ rest /\ lines' = <<>> /\ UNCHANGED sampler /\ buffer' = rows /\ UNCHANGED <<writes, records>>
  BY DEF Batch
<1>8. rest => work' \in Jobs /\ work'.lines = Tail(work.lines) /\ work'.kind = work.kind
  BY <1>2, <1>3 DEF Jobs
<1> HIDE DEF h, ls, rows, rest
<1>9. InFlight = ToSet(buffer) \cup ToSet(lines) \cup {h} \cup ToSet(Tail(work.lines)) \cup LinesOf(queue) \cup InHand
  BY <1>3 DEF InFlight
<1>10. LinesOf(queue') = LinesOf(queue) /\ (rest /\ UNCHANGED sampler => InHand' = InHand)
       /\ (Throw => InHand' = {})
  BY <1>1, <1>8 DEF InHand, shared, Throw, To
<1>11. Ending' = Ending /\ (Excused => Excused') BY <1>1 DEF Ending, Excused, caller, shared
<1>12. CASE rest /\ lines' = ls /\ UNCHANGED <<sampler, buffer, writes, records>>
  <2>1. RenderOK' BY <1>1, <1>2, <1>4, <1>8, <1>12 DEF RenderOK
  <2>2. TypeOK' BY <1>1, <1>12, <2>1 DEF TypeOK, CallerOK, CaptureOK, SharedOK, DiskOK, caller, capture, shared
  <2>3. InFlight' = InFlight BY <1>4, <1>8, <1>9, <1>10, <1>12 DEF InFlight
  <2>4. Blocks' = Blocks /\ Kept' = Kept /\ Filed' = Filed BY <1>12 DEF Blocks, Kept, Filed, Of
  <2> QED BY <1>1, <1>11, <1>12, <2>2, <2>3, <2>4 DEF Moves, Flushes, Carries, Keeps, shared
<1>13. CASE Throw /\ (buffer' = buffer \/ buffer' = rows) /\ UNCHANGED <<writes, records>>
  <2>1. sampler' = "failing" /\ work' = NoJob /\ lines' = <<>> BY <1>13 DEF Throw, To
  <2>2. RenderOK' BY <1>1, <1>2, <1>5, <1>13, <2>1, Empties DEF RenderOK, Samplers
  <2>3. TypeOK' BY <1>1, <1>13, <2>2 DEF TypeOK, CallerOK, CaptureOK, SharedOK, DiskOK, caller, capture, shared
  <2>4. InFlight' \subseteq InFlight BY <1>5, <1>9, <1>10, <1>13, <2>1, NoLines DEF InFlight
  <2>5. Blocks' = Blocks /\ Kept' = Kept /\ Filed' = Filed BY <1>13 DEF Blocks, Kept, Filed, Of
  <2> QED BY <1>1, <1>11, <2>1, <2>3, <2>4, <2>5 DEF Moves, Flushes, Carries, Keeps, Excused, shared
<1>14. CASE rest /\ lines' = <<>> /\ UNCHANGED sampler /\ Len(rows) = Rows /\ Flush(rows, "full")
  <2>1. buffer' = <<>> /\ DiskOK' BY <1>6, <1>14, FlushTypes
  <2>2. RenderOK' BY <1>1, <1>2, <1>8, <1>14, <2>1, Empties DEF RenderOK
  <2>3. TypeOK' BY <1>1, <2>1, <2>2 DEF TypeOK, CallerOK, CaptureOK, SharedOK, caller, capture, shared
  <2>4. InFlight' = ToSet(Tail(work.lines)) \cup LinesOf(queue) \cup InHand
    BY <1>8, <1>10, <1>14, <2>1, NoLines DEF InFlight
  <2>5. InFlight' \subseteq InFlight /\ ToSet(rows) \subseteq InFlight /\ InFlight \subseteq InFlight' \cup ToSet(rows)
    BY <1>5, <1>9, <2>4
  <2>6. /\ Blocks' \subseteq Blocks \cup {<<rows, segment>>} /\ Kept \subseteq Kept'
        /\ Filed => /\ Filed'
                    /\ Kept \cup LinesOf(writes) \cup ToSet(rows) \subseteq Kept' \cup LinesOf(writes')
    BY <1>6, <1>14, FlushFacts
  <2>7. Flushes BY <1>6, <1>14, <2>5, <2>6 DEF Flushes
  <2>8. Keeps BY <1>11, <2>5, <2>6 DEF Keeps
  <2> QED BY <1>1, <1>11, <2>3, <2>5, <2>7, <2>8 DEF Moves, Carries, shared
<1>15. CASE rest /\ lines' = <<>> /\ UNCHANGED sampler /\ buffer' = rows /\ UNCHANGED <<writes, records>>
  <2>1. RenderOK' BY <1>1, <1>2, <1>5, <1>8, <1>15, Empties DEF RenderOK
  <2>2. TypeOK' BY <1>1, <1>15, <2>1 DEF TypeOK, CallerOK, CaptureOK, SharedOK, DiskOK, caller, capture, shared
  <2>3. InFlight' = InFlight BY <1>5, <1>8, <1>9, <1>10, <1>15, NoLines DEF InFlight
  <2>4. Blocks' = Blocks /\ Kept' = Kept /\ Filed' = Filed BY <1>15 DEF Blocks, Kept, Filed, Of
  <2> QED BY <1>1, <1>11, <1>15, <2>2, <2>3, <2>4 DEF Moves, Flushes, Carries, Keeps, shared
<1> QED BY <1>7, <1>12, <1>13, <1>14, <1>15

LEMMA SettleMoves == ASSUME TypeOK, Handshake, Settle PROVE Moves
<1> DEFINE rows == buffer \o lines
<1>1. /\ UNCHANGED <<caller, capture, queue, job, error, failed>>
      /\ sampler = "waiting" /\ work.lines = <<>> /\ work.kind # "lines"
  BY DEF Settle
<1>2. /\ work \in Jobs /\ lines \in Seq(Nat) /\ buffer \in Seq(Nat) /\ sampler \in Samplers /\ segment \in Nat
  BY DEF TypeOK, RenderOK
<1>3. rows \in Seq(Nat) /\ ToSet(rows) = ToSet(buffer) \cup ToSet(lines) BY <1>2, SetOfConcat
<1>4. busy /\ queue = <<>> /\ work.kind = job.kind /\ ~failed BY <1>1 DEF Handshake
<1>5. (rows # <<>> => rows \in Images) /\ (Excused => Excused') BY <1>1, <1>3 DEF Images, Excused
<1>6. \/ Throw /\ (buffer' = buffer \/ buffer' = rows) /\ UNCHANGED <<segment, writes, records, busy>>
      \/ /\ work' = NoJob /\ lines' = <<>> /\ busy' = FALSE /\ UNCHANGED sampler
         /\ \/ work.kind = "end" /\ rows # <<>> /\ Flush(rows, "boundary") /\ segment' = segment + 1
            \/ work.kind = "end" /\ rows = <<>> /\ buffer' = rows /\ UNCHANGED <<writes, records>>
               /\ segment' = segment + 1
            \/ work.kind # "end" /\ buffer' = rows /\ UNCHANGED <<writes, records>> /\ segment' = segment
  BY DEF Settle
<1> HIDE DEF rows
<1>7. InFlight = ToSet(rows) /\ LinesOf(queue') = {}
  BY <1>1, <1>3, <1>4, NoLines DEF InFlight, InHand
<1>8. CASE Throw /\ (buffer' = buffer \/ buffer' = rows) /\ UNCHANGED <<segment, writes, records, busy>>
  <2>1. sampler' = "failing" /\ work' = NoJob /\ lines' = <<>> BY <1>8 DEF Throw, To
  <2>2. RenderOK' BY <1>2, <1>3, <1>8, <2>1, Empties DEF RenderOK, Samplers
  <2>3. TypeOK' BY <1>1, <1>8, <2>2 DEF TypeOK, CallerOK, CaptureOK, SharedOK, DiskOK, caller, capture
  <2>4. InFlight' \subseteq InFlight BY <1>3, <1>7, <1>8, <2>1, NoLines DEF InFlight, InHand
  <2>5. Blocks' = Blocks /\ Kept' = Kept /\ Filed' = Filed BY <1>8 DEF Blocks, Kept, Filed, Of
  <2>6. Ending' = Ending BY <1>1, <1>8 DEF Ending, caller
  <2> QED BY <1>1, <1>8, <2>1, <2>3, <2>4, <2>5, <2>6 DEF Moves, Flushes, Carries, Keeps, Excused
<1>9. ASSUME work' = NoJob, lines' = <<>>, busy' = FALSE, UNCHANGED sampler PROVE Moves
  <2>1. InFlight' = ToSet(buffer') BY <1>7, <1>9, NoLines DEF InFlight, InHand
  <2>2. ASSUME buffer' \in Seq(Nat), segment' \in Nat, DiskOK' PROVE TypeOK'
    <3>1. RenderOK' BY <1>2, <1>9, <2>2, Empties DEF RenderOK
    <3> QED BY <1>1, <1>9, <2>2, <3>1 DEF TypeOK, CallerOK, CaptureOK, SharedOK, caller, capture
  <2>3. CASE work.kind = "end" /\ rows # <<>> /\ Flush(rows, "boundary") /\ segment' = segment + 1
    <3>1. buffer' = <<>> /\ DiskOK' BY <1>5, <2>3, FlushTypes
    <3>2. TypeOK' BY <1>2, <2>2, <2>3, <3>1, Empties
    <3>3. /\ Blocks' \subseteq Blocks \cup {<<rows, segment>>} /\ Kept \subseteq Kept'
          /\ Filed => /\ Filed'
                      /\ Kept \cup LinesOf(writes) \cup ToSet(rows) \subseteq Kept' \cup LinesOf(writes')
      BY <1>5, <2>3, FlushFacts
    <3>4. Flushes BY <1>5, <1>7, <2>3, <3>3 DEF Flushes
    <3>5. InFlight' = {} BY <2>1, <3>1, NoLines
    <3> QED BY <1>1, <1>5, <1>7, <2>3, <3>2, <3>3, <3>4, <3>5 DEF Moves, Carries, Keeps
  <2>4. CASE /\ work.kind = "end" /\ rows = <<>> /\ buffer' = rows /\ UNCHANGED <<writes, records>>
             /\ segment' = segment + 1
    <3>1. TypeOK' BY <1>2, <2>2, <2>4, Empties DEF TypeOK, DiskOK
    <3>2. Blocks' = Blocks /\ Kept' = Kept /\ Filed' = Filed BY <2>4 DEF Blocks, Kept, Filed, Of
    <3>3. InFlight' = {} BY <2>1, <2>4, NoLines
    <3> QED BY <1>1, <1>5, <1>7, <2>4, <3>1, <3>2, <3>3, NoLines DEF Moves, Flushes, Carries, Keeps
  <2>5. CASE work.kind # "end" /\ buffer' = rows /\ UNCHANGED <<writes, records>> /\ segment' = segment
    <3>1. TypeOK' BY <1>2, <1>3, <2>2, <2>5 DEF TypeOK, DiskOK
    <3>2. Blocks' = Blocks /\ Kept' = Kept /\ Filed' = Filed BY <2>5 DEF Blocks, Kept, Filed, Of
    <3>3. InFlight' = InFlight BY <1>7, <2>1, <2>5
    <3>4. ~Ending BY <1>4, <2>5 DEF Ending
    <3> QED BY <1>1, <1>5, <2>5, <3>1, <3>2, <3>3, <3>4 DEF Moves, Flushes, Carries, Keeps
  <2> QED BY <1>6, <1>8, <2>3, <2>4, <2>5
<1> QED BY <1>6, <1>8, <1>9

LEMMA StopMoves == ASSUME TypeOK, Handshake, Stop PROVE Moves
<1>1. /\ UNCHANGED <<caller, capture, shared, work, segment, disk>>
      /\ sampler = "stopping" /\ sampler' = "failing" /\ lines' = <<>>
      /\ buffer' = buffer \/ buffer' = buffer \o lines
  BY DEF Stop, To
<1>2. /\ work \in Jobs /\ lines \in Seq(Nat) /\ buffer \in Seq(Nat) BY DEF TypeOK, RenderOK
<1>3. buffer' \in Seq(Nat) /\ ToSet(buffer') \subseteq ToSet(buffer) \cup ToSet(lines)
  <2> DEFINE rows == buffer \o lines
  <2>1. rows \in Seq(Nat) /\ ToSet(rows) = ToSet(buffer) \cup ToSet(lines) BY <1>2, SetOfConcat
  <2> QED BY <1>1, <1>2, <2>1
<1>4. RenderOK' BY <1>1, <1>3, Empties DEF TypeOK, RenderOK, Samplers
<1>5. TypeOK'
  BY <1>1, <1>4 DEF TypeOK, CallerOK, CaptureOK, SharedOK, DiskOK, caller, capture, shared, disk
<1>6. InFlight' \subseteq InFlight BY <1>1, <1>3, NoLines DEF InFlight, InHand, shared
<1>7. Blocks' = Blocks /\ Kept' = Kept /\ Filed' = Filed BY <1>1 DEF Blocks, Kept, Filed, Of, disk
<1>8. Ending' = Ending BY <1>1 DEF Ending, caller, shared
<1> QED BY <1>1, <1>5, <1>6, <1>7, <1>8 DEF Moves, Flushes, Carries, Keeps, Excused, shared

LEMMA BuryMoves == ASSUME TypeOK, Handshake, Bury PROVE Moves
<1>1. /\ UNCHANGED <<caller, capture, queue, job, failed, work, lines, segment>> /\ sampler = "failing"
      /\ \/ UNCHANGED <<error, busy>> /\ sampler' = "closing"
         \/ error' = TRUE /\ busy' = FALSE /\ sampler' = "exited"
      /\ \/ buffer # <<>> /\ Flush(buffer, "sampling_failure")
         \/ UNCHANGED <<buffer, writes, records>>
  BY DEF Bury, To, Exit
<1>2. buffer \in Seq(Nat) /\ (buffer # <<>> => buffer \in Images) BY DEF TypeOK, RenderOK, Images
<1>3. Excused' BY <1>1 DEF Excused
<1>4. Ending => Ending' BY <1>1 DEF Ending, caller
<1>5. InHand' = {} BY <1>1 DEF InHand
<1>6. TypeOK' /\ InFlight' \subseteq InFlight
  <2>1. buffer' \in Seq(Nat) /\ DiskOK' /\ (buffer' = <<>> \/ buffer' = buffer)
    BY <1>1, <1>2, FlushTypes, Empties DEF TypeOK, DiskOK
  <2>2. RenderOK' BY <1>1, <2>1 DEF TypeOK, RenderOK, Samplers
  <2>3. SharedOK' BY <1>1 DEF TypeOK, SharedOK
  <2>4. TypeOK' BY <1>1, <2>1, <2>2, <2>3 DEF TypeOK, CallerOK, CaptureOK, caller, capture
  <2>5. InFlight' \subseteq InFlight BY <1>1, <1>5, <2>1, NoLines DEF InFlight
  <2> QED BY <2>4, <2>5
<1>7. /\ Blocks' \subseteq Blocks \/ (buffer # <<>> /\ Blocks' \subseteq Blocks \cup {<<buffer, segment>>})
      /\ Kept \subseteq Kept' /\ (Filed => Filed')
  <2>1. CASE buffer # <<>> /\ Flush(buffer, "sampling_failure") BY <1>2, <2>1, FlushFacts
  <2>2. CASE UNCHANGED <<buffer, writes, records>> BY <2>2 DEF Blocks, Kept, Filed, Of
  <2> QED BY <1>1, <2>1, <2>2
<1>8. Flushes BY <1>2, <1>7 DEF Flushes, InFlight
<1> QED BY <1>1, <1>3, <1>4, <1>6, <1>7, <1>8 DEF Moves, Carries, Keeps

LEMMA LeaveMoves == ASSUME TypeOK, Handshake, Leave PROVE Moves
<1>1. /\ UNCHANGED <<caller, capture, queue, job, failed, work, lines, buffer, segment, records>>
      /\ sampler = "closing" /\ error' = TRUE /\ busy' = FALSE /\ sampler' = "exited"
      /\ writes' = <<>> \/ writes' = writes
  BY DEF Leave, To, Exit
<1>2. TypeOK'
  <2>1. SharedOK' /\ RenderOK' BY <1>1 DEF TypeOK, SharedOK, RenderOK, Samplers
  <2>2. DiskOK' BY <1>1, Empties DEF TypeOK, DiskOK
  <2> QED BY <1>1, <2>1, <2>2 DEF TypeOK, CallerOK, CaptureOK, caller, capture
<1>3. Kept' = Kept /\ Of("file")' = Of("file") BY <1>1 DEF Kept, Of
<1>4. Blocks' \subseteq Blocks /\ (Filed => Filed') BY <1>1, <1>3, NoLines DEF Blocks, Filed
<1>5. Excused' /\ (Ending => Ending') BY <1>1 DEF Excused, Ending, caller
<1>6. InFlight' \subseteq InFlight BY <1>1 DEF InFlight, InHand
<1> QED BY <1>1, <1>2, <1>3, <1>4, <1>5, <1>6 DEF Moves, Flushes, Carries, Keeps

LEMMA StartUpMoves == ASSUME TypeOK, Handshake, StartUp PROVE Moves
<1>1. /\ UNCHANGED <<caller, capture, queue, job, failed, work, lines, buffer, segment, disk>>
      /\ sampler = "starting"
      /\ \/ UNCHANGED <<error, busy>> /\ sampler' = "waiting"
         \/ error' = TRUE /\ busy' = FALSE /\ sampler' = "exited"
  BY DEF StartUp, To, Exit
<1>2. ~busy BY <1>1 DEF Handshake, Waits
<1>3. TypeOK'
  BY <1>1
  DEF TypeOK, CallerOK, CaptureOK, SharedOK, RenderOK, DiskOK, caller, capture, disk, Samplers
<1>4. InFlight' = InFlight BY <1>1, <1>2 DEF InFlight, InHand
<1>5. /\ Blocks' = Blocks /\ Kept' = Kept /\ Filed' = Filed /\ LinesOf(writes') = LinesOf(writes)
  BY <1>1 DEF Blocks, Kept, Filed, Of, disk
<1>6. (Ending => Ending') /\ (Excused => Excused') BY <1>1, <1>2 DEF Ending, Excused, caller
<1> QED BY <1>1, <1>3, <1>4, <1>5, <1>6 DEF Moves, Flushes, Carries, Keeps

LEMMA WriteMoves == ASSUME TypeOK, Handshake, Write PROVE Moves
<1>1. UNCHANGED <<caller, capture, shared, render>> BY DEF Write
<1>2. TypeOK' BY <1>1, WriteFacts DEF TypeOK, CallerOK, CaptureOK, SharedOK, RenderOK, caller, capture, shared, render
<1>3. InFlight' = InFlight /\ Ending' = Ending /\ Excused' = Excused
  BY <1>1 DEF InFlight, InHand, Ending, Excused, caller, shared, render
<1> QED BY <1>1, <1>2, <1>3, WriteFacts DEF Moves, Flushes, Carries, Keeps, shared, render

LEMMA SamplerMoves == ASSUME TypeOK, Handshake, Sampler \/ Write PROVE Moves
BY TakeMoves, BatchMoves, SettleMoves, StopMoves, BuryMoves, LeaveMoves, StartUpMoves, WriteMoves DEF Sampler

-----------------------------------------------------------------------------
(* What a step of the physics thread does to lines and motion *)

\* Nothing is taken and no stretch ends.
Idles ==
  UNCHANGED <<next, breaks, segment, reported>> /\ InFlight' = InFlight /\ failed' = failed /\ (Ending => Ending')

\* A failure is seen; the lines of this very step, if any, are gone with it.
Fails ==
  /\ UNCHANGED segment /\ InFlight' = InFlight
  /\ next' \in Nat /\ (next' = next \/ (next <= next' /\ ~Ending))
  /\ failed' /\ ~enabled'
  /\ IF failed THEN UNCHANGED <<breaks, reported>>
     ELSE /\ breaks' = breaks \cup {next'}
          /\ reported' = reported \cup ((0 .. next' - 1) \ Kept)

\* The lines of a step join what is in flight, with or without the end of the stretch.
Takes ==
  /\ UNCHANGED <<segment, reported>> /\ next' \in Nat /\ next <= next' /\ ~Ending /\ failed' = failed
  /\ InFlight' \subseteq InFlight \cup (next .. next' - 1)
  /\ InFlight \cup (next .. next' - 1) \subseteq InFlight' \/ Excused'
  /\ breaks' = breaks \/ (breaks' = breaks \cup {next'} /\ Ending')

\* The toggle was settled: nothing is in flight and the segment has no block.
Toggles ==
  /\ UNCHANGED <<segment, next, reported>> /\ failed' = failed
  /\ InFlight = {} /\ InFlight' = {} /\ breaks' = breaks \cup {next}
  /\ \A b \in Blocks : b[2] # segment

\* A new sampler starts with nothing, in a segment of its own.
Replaces ==
  /\ UNCHANGED <<next, breaks, reported>> /\ segment' = segment + 1 /\ InFlight' = {} /\ failed
  /\ \A w \in ToSet(writes) : w.state # "writing"

\* The toggle was settled: the lines of the motion it ends are in blocks, and the
\* segment after it is empty; nothing moves until a closing has been answered.
Clean ==
  (pc = "toggled" /\ ~busy /\ ~error) \/ pc = "drain" =>
     /\ InFlight = {} /\ lines = <<>> /\ work = NoJob /\ queue = <<>> /\ sampler = "waiting"
     /\ ~busy /\ ~error /\ ~failed
     /\ \A b \in Blocks : b[2] # segment

Strides == Idles \/ Fails \/ Takes \/ Toggles \/ Replaces

\* Steps that hand nothing over.
LEMMA PlainStrides ==
  ASSUME TypeOK, Handshake, Begin \/ Serve \/ Restarted \/ Toggle \/ Warm \/ Warmed \/ Drain \/ Bounded \/ Quiet
  PROVE  Idles \/ Fails
<1>1. next \in Nat BY DEF TypeOK, CaptureOK
<1>2. UNCHANGED render /\ UNCHANGED queue
  BY DEF Begin, Serve, Restarted, Toggle, Warm, Warmed, Drain, Bounded, Quiet, Hand, shared, caller
<1>3. UNCHANGED next
  BY DEF Begin, Serve, Restarted, Toggle, Warm, Warmed, Drain, Bounded, Quiet, Hand, capture
<1>4. InHand' = InHand
  <2>1. CASE UNCHANGED <<job, busy>> BY <1>2, <2>1 DEF InHand, render
  <2>2. CASE ~UNCHANGED <<job, busy>>
    <3>1. (Toggle \/ Warm) /\ busy' = TRUE /\ job'.lines = <<>>
      BY <2>2 DEF Begin, Serve, Restarted, Toggle, Warm, Warmed, Drain, Bounded, Quiet, Hand, shared
    <3>2. ~busy BY <3>1 DEF Toggle, Warm, Handshake, Waits
    <3> QED BY <3>1, <3>2, NoLines DEF InHand
  <2> QED BY <2>1, <2>2
<1>5. InFlight' = InFlight BY <1>2, <1>4 DEF InFlight, render
<1>6. \/ Notice(next)
      \/ UNCHANGED <<breaks, reported, failed>>
  BY DEF Begin, Serve, Restarted, Toggle, Warm, Warmed, Drain, Bounded, Quiet, Hand, capture, shared
<1>7. CASE Notice(next) BY <1>1, <1>2, <1>3, <1>5, <1>7 DEF Fails, Notice, Reset, render
<1>8. CASE ~Notice(next)
  <2>1. Ending => Ending'
    <3> failed' = failed BY <1>6, <1>8
    <3>1. CASE failed BY <3>1 DEF Ending
    <3>2. CASE ~failed
      <4>1. pc # "bounded" \/ (~busy /\ ~error) \/ ~Bounded BY <1>8, <3>2 DEF Bounded, Returned
      <4>2. pc = "bounded" => Bounded
        BY DEF Begin, Serve, Restarted, Toggle, Warm, Warmed, Drain, Quiet
      <4> QED BY <3>2, <4>1, <4>2 DEF Ending
    <3> QED BY <3>1, <3>2
  <2> QED BY <1>2, <1>3, <1>5, <1>6, <1>8, <2>1 DEF Idles, render
<1> QED BY <1>7, <1>8

LEMMA ExposedStrides ==
  ASSUME TypeOK, Handshake, Exposed PROVE Fails \/ Takes
<1>1. PICK k \in 1 .. StepLines : next' = next + k /\ Enqueue(Due(k), next + k) BY DEF Exposed
<1>2. k \in Nat /\ next \in Nat /\ next + k \in Nat BY CameraAssumption DEF TypeOK, CaptureOK
<1>3. ~Ending BY DEF Exposed, Ending, Handshake
<1>4. UNCHANGED render BY DEF Exposed
<1>5. CASE Notice(next + k) /\ UNCHANGED <<queue, job, busy>>
  <2>1. InFlight' = InFlight BY <1>4, <1>5 DEF InFlight, InHand, render
  <2> QED BY <1>1, <1>2, <1>3, <1>4, <1>5, <2>1 DEF Fails, Notice, Reset, render
<1>6. CASE /\ queue' = Append(queue, [lines |-> Due(k), kind |-> "lines"])
           /\ UNCHANGED <<job, busy, error, failed, enabled, breaks, reported>>
  <2> DEFINE j == [lines |-> Due(k), kind |-> "lines"]
  <2>1. j \in Steps /\ j.lines = Due(k) BY <1>2, DueTypes DEF Steps
  <2>2. queue \in Seq(Steps) BY DEF TypeOK, SharedOK
  <2> HIDE DEF j
  <2>3. ToSet(Append(queue, j)) = ToSet(queue) \cup {j} BY <2>1, <2>2, SetOfAppend
  <2>4. queue' = Append(queue, j) BY <1>6 DEF j
  <2>5. LinesOf(queue') = LinesOf(queue) \cup ToSet(Due(k)) BY <2>1, <2>3, <2>4 DEF LinesOf
  <2>6. ToSet(Due(k)) = next .. next' - 1 BY <1>1, <1>2, DueTypes
  <2>7. InFlight' = InFlight \cup (next .. next' - 1)
    BY <1>4, <1>6, <2>5, <2>6 DEF InFlight, InHand, render
  <2> QED BY <1>1, <1>2, <1>3, <1>4, <1>6, <2>7 DEF Takes, render
<1> QED BY <1>1, <1>5, <1>6 DEF Enqueue

LEMMA BoundaryStrides ==
  ASSUME TypeOK, Handshake, Boundary PROVE Fails \/ Takes
<1>1. PICK k \in 0 .. StepLines, kind \in {"hold", "end"} :
        /\ enabled \/ k = 0
        /\ next' = next + k
        /\ IF error THEN Notice(next + k) /\ UNCHANGED <<queue, job, busy, error>>
           ELSE /\ job' = [lines |-> Due(k), kind |-> kind] /\ busy' = TRUE
                /\ IF kind = "end" THEN Reset(next + k) ELSE UNCHANGED breaks
                /\ UNCHANGED <<enabled, reported, queue, error, failed>>
                /\ pc' = "bounded"
  BY DEF Boundary, Goto
<1>2. k \in Nat /\ next \in Nat /\ next + k \in Nat BY CameraAssumption DEF TypeOK, CaptureOK
<1>3. ~busy /\ pc = "sample" BY DEF Boundary, Handshake, Waits
<1>4. UNCHANGED render BY DEF Boundary
<1>5. CASE error
  <2>1. InFlight' = InFlight BY <1>1, <1>4, <1>5 DEF InFlight, InHand, render
  <2>2. next' = next \/ ~Ending BY <1>1, <1>2, <1>3 DEF Ending, Handshake
  <2> QED BY <1>1, <1>2, <1>4, <1>5, <2>1, <2>2 DEF Fails, Notice, Reset, render
<1>6. CASE ~error
  <2>0. ~Ending /\ ~failed BY <1>3, <1>6 DEF Ending, Handshake
  <2>1. ToSet(job'.lines) = next .. next' - 1 BY <1>1, <1>2, <1>6, DueTypes
  <2>2. InHand = {} /\ InHand' \subseteq next .. next' - 1 BY <1>3, <2>1 DEF InHand
  <2>3. sampler = "waiting" => work.kind = "lines" BY <1>3 DEF Handshake
  <2>4. sampler = "waiting" => InHand' = next .. next' - 1 BY <1>1, <1>4, <1>6, <2>1, <2>3 DEF InHand, render
  <2>5. sampler # "waiting" => Excused'
    <3>1. sampler \in {"failing", "closing"} \/ sampler = "waiting"
      BY <1>3, <1>6, <2>0 DEF TypeOK, RenderOK, Samplers, Handshake
    <3> QED BY <1>4, <3>1 DEF Excused, render
  <2>6. InFlight' = ToSet(buffer) \cup ToSet(lines) \cup ToSet(work.lines) \cup LinesOf(queue) \cup InHand'
    BY <1>1, <1>4, <1>6 DEF InFlight, render
  <2>7. InFlight = ToSet(buffer) \cup ToSet(lines) \cup ToSet(work.lines) \cup LinesOf(queue)
    BY <2>2 DEF InFlight
  <2>8. /\ InFlight' \subseteq InFlight \cup (next .. next' - 1)
        /\ InFlight \cup (next .. next' - 1) \subseteq InFlight' \/ Excused'
    BY <2>2, <2>4, <2>5, <2>6, <2>7
  <2>9. /\ UNCHANGED <<segment, reported>> /\ next' \in Nat /\ next <= next' /\ failed' = failed
    BY <1>1, <1>2, <1>4, <1>6 DEF render
  <2>10. CASE kind = "end"
    <3>1. Ending' BY <1>1, <1>6, <2>10 DEF Ending
    <3>2. breaks' = breaks \cup {next'} BY <1>1, <1>6, <2>10 DEF Reset
    <3> QED BY <2>0, <2>8, <2>9, <3>1, <3>2 DEF Takes
  <2>11. CASE kind # "end"
    <3>1. breaks' = breaks BY <1>1, <1>6, <2>11
    <3> QED BY <2>0, <2>8, <2>9, <3>1 DEF Takes
  <2> QED BY <2>10, <2>11
<1> QED BY <1>5, <1>6

LEMMA RecoverStrides ==
  ASSUME TypeOK, Handshake, Recover PROVE Replaces /\ failed' = FALSE /\ writes' = <<>>
<1>1. InFlight' = {} BY NoLines DEF Recover, InFlight, InHand
<1> QED BY <1>1 DEF Recover, Replaces, Handshake, capture

LEMMA ToggledStrides ==
  ASSUME TypeOK, Handshake, Clean, Toggled PROVE Fails \/ Toggles
<1>1. /\ pc = "toggled" /\ Returned /\ UNCHANGED <<queue, job, busy, error, render, disk>>
      /\ IF error THEN Notice(next) /\ UNCHANGED next
         ELSE UNCHANGED <<next, reported, failed>> /\ Reset(next)
  BY DEF Toggled
<1>2. InFlight' = InFlight BY <1>1 DEF InFlight, InHand, render
<1>3. CASE error BY <1>1, <1>2, <1>3 DEF Fails, Notice, Reset, render, TypeOK, CaptureOK
<1>4. CASE ~error BY <1>1, <1>2, <1>4 DEF Toggles, render, Returned, Clean, Reset
<1> QED BY <1>3, <1>4

LEMMA PhysicsStrides == ASSUME TypeOK, Handshake, Clean, Physics PROVE Strides
BY PlainStrides, ExposedStrides, BoundaryStrides, RecoverStrides, ToggledStrides DEF Physics, Strides

\* The physics thread writes no record; it forgets writers that are done.
LEMMA PhysicsWrites ==
  ASSUME Physics
  PROVE  /\ records' = records /\ (writes' = writes \/ (writes' = <<>> /\ (Recover \/ Drain)))
         /\ Kept' = Kept /\ Blocks' \subseteq Blocks /\ (Filed => Filed')
<1>1. records' = records /\ (writes' = writes \/ (writes' = <<>> /\ (Recover \/ Drain)))
  <2>1. CASE Recover \/ Drain BY <2>1 DEF Recover, Drain
  <2>2. CASE ~(Recover \/ Drain)
    BY <2>2 DEF Physics, Begin, Serve, Restarted, Toggle, Toggled, Warm, Warmed, Exposed, Boundary,
       Bounded, Quiet, disk
  <2> QED BY <2>1, <2>2
<1>2. Kept' = Kept /\ Of("file")' = Of("file") BY <1>1 DEF Kept, Of
<1> QED BY <1>1, <1>2, NoLines DEF Blocks, Filed

-----------------------------------------------------------------------------
(* The handshake is kept *)

LEMMA InitHandshake == Init => Handshake
BY DEF Init, Handshake, NoJob

LEMMA PhysicsHandshake == ASSUME TypeOK, Handshake, Physics PROVE Handshake'
<1> USE DEF Handshake, Goto, Answer, Notice
<1>1. CASE Begin BY <1>1 DEF Begin, Waits, caller, capture, shared, render
<1>2. CASE Serve BY <1>2 DEF Serve, Waits, caller, capture, shared, render
<1>3. CASE Restarted BY <1>3 DEF Restarted, Waits, caller, capture, shared, render
<1>4. CASE Drain BY <1>4 DEF Drain, Waits, caller, capture, shared, render
<1>5. CASE Quiet BY <1>5 DEF Quiet, Waits, caller, capture, shared, render
<1>6. CASE Toggle BY <1>6 DEF Toggle, Hand, Waits, caller, capture, shared, render
<1>7. CASE Warm BY <1>7 DEF Warm, Hand, Waits, caller, capture, shared, render
<1>8. CASE Toggled BY <1>8 DEF Toggled, Returned, Waits, caller, capture, shared, render
<1>9. CASE Warmed BY <1>9 DEF Warmed, Returned, Waits, caller, capture, shared, render
<1>10. CASE Bounded BY <1>10 DEF Bounded, Returned, Waits, caller, capture, shared, render
<1>11. CASE Recover BY <1>11, NoLines DEF Recover, Waits, caller, capture
<1>12. CASE Exposed
  <2>1. /\ pc = "sample" /\ pc' = "begin" /\ UNCHANGED render /\ UNCHANGED <<job, busy>>
        /\ \/ UNCHANGED <<error, failed, enabled>>
           \/ error' = TRUE /\ failed' = TRUE /\ enabled' = FALSE
    BY <1>12 DEF Exposed, Enqueue
  <2> QED BY <2>1 DEF Waits, render
<1>13. CASE Boundary
  <2>1. PICK k \in 0 .. StepLines, kind \in {"hold", "end"} :
          IF error THEN Notice(next + k) /\ pc' = "begin" /\ UNCHANGED <<queue, job, busy, error>>
          ELSE /\ job' = [lines |-> Due(k), kind |-> kind] /\ busy' = TRUE
               /\ UNCHANGED <<enabled, queue, error, failed>>
               /\ pc' = "bounded"
    BY <1>13 DEF Boundary
  <2>2. pc = "sample" /\ UNCHANGED render BY <1>13 DEF Boundary
  <2>3. CASE error BY <2>1, <2>2, <2>3 DEF Waits, render
  <2>4. CASE ~error
    <3>1. job'.kind = kind BY <2>1, <2>4
    <3> QED BY <2>1, <2>2, <2>4, <3>1 DEF Waits, render
  <2> QED BY <2>3, <2>4
<1> QED BY <1>1, <1>2, <1>3, <1>4, <1>5, <1>6, <1>7, <1>8, <1>9, <1>10, <1>11, <1>12, <1>13 DEF Physics

LEMMA SamplerHandshake == ASSUME TypeOK, Handshake, Sampler \/ Write PROVE Handshake'
<1> USE DEF Handshake, To, Throw, Exit
<1>1. CASE Take
  <2>1. queue # <<>> => Head(queue).kind = "lines"
    <3>1. queue \in Seq(Steps) BY DEF TypeOK, SharedOK
    <3>2. queue # <<>> => Head(queue) \in Steps BY <3>1, SetOfTail
    <3> QED BY <3>2 DEF Steps
  <2> QED BY <1>1, <2>1, NoLines DEF Take, caller, capture, Waits
<1>2. CASE Batch
  <2>1. work' = NoJob \/ work'.kind = work.kind BY <1>2 DEF Batch, TypeOK, RenderOK, Jobs
  <2>2. /\ UNCHANGED <<caller, capture, shared, segment>> /\ sampler = "waiting" /\ work.lines # <<>>
        /\ sampler' = "waiting" \/ (sampler' = "failing" /\ work' = NoJob)
    BY <1>2 DEF Batch
  <2>3. pc # "restart" BY <2>2, NoLines
  <2> QED BY <2>1, <2>2, <2>3, NoLines DEF caller, capture, shared
<1>3. CASE Settle
  <2>1. /\ UNCHANGED <<caller, capture, queue, job, error, failed>>
        /\ sampler = "waiting" /\ work.kind # "lines" /\ work' = NoJob
        /\ busy' = busy \/ busy' = FALSE
        /\ sampler' \in {"waiting", "failing"}
    BY <1>3 DEF Settle
  <2>2. pc # "restart" BY <2>1 DEF Waits
  <2> QED BY <2>1, <2>2, NoLines DEF caller, capture
<1>4. CASE Stop BY <1>4 DEF Stop, caller, capture, shared
<1>5. CASE Bury
  <2>1. /\ UNCHANGED <<caller, capture, queue, job, failed, work, lines, segment>> /\ sampler = "failing"
        /\ \/ UNCHANGED <<error, busy>> /\ sampler' = "closing"
           \/ error' = TRUE /\ busy' = FALSE /\ sampler' = "exited"
    BY <1>5 DEF Bury
  <2> QED BY <2>1 DEF caller, capture
<1>6. CASE Leave BY <1>6 DEF Leave, caller, capture
<1>7. CASE StartUp BY <1>7 DEF StartUp, caller, capture
<1>8. CASE Write BY <1>8 DEF Write, caller, capture, shared, render
<1> QED BY <1>1, <1>2, <1>3, <1>4, <1>5, <1>6, <1>7, <1>8 DEF Sampler

-----------------------------------------------------------------------------
(* Blocks, stretches of motion and segments *)

\* Whatever was taken is behind next, and no block is ahead of the segment.
Bounds ==
  /\ \A n \in InFlight : n < next
  /\ \A b \in Blocks : Last(b[1]) < next /\ b[2] <= segment
  /\ \A x \in breaks : x <= next

\* A stretch that has ended lies behind all that is in flight and behind every
\* block of the current segment, except for one whose boundary is still awaited.
Cut == \A x \in breaks :
  \/ x = next /\ Ending
  \/ /\ \A n \in InFlight : x <= n
     /\ \A b \in Blocks : b[2] = segment => x <= Head(b[1])

\* SegmentIsOneMotion of the blocks that are still being written, too.
Apart == \A b, c \in Blocks : b[2] = c[2] => breaks \cap (Head(b[1]) + 1 .. Last(c[1])) = {}

Motion == Bounds /\ Cut /\ Apart

LEMMA ImageFacts ==
  ASSUME NEW im \in Images PROVE Head(im) \in ToSet(im) /\ Last(im) \in ToSet(im) /\ ToSet(im) \subseteq Nat
BY SetOfSeq DEF Images

LEMMA Numbers ==
  ASSUME TypeOK
  PROVE  /\ next \in Nat /\ segment \in Nat /\ breaks \subseteq Nat /\ InFlight \subseteq Nat
         /\ \A b \in Blocks : b[2] \in Nat /\ Head(b[1]) \in Nat /\ Last(b[1]) \in Nat
<1>1. next \in Nat /\ segment \in Nat /\ breaks \subseteq Nat BY DEF TypeOK, CaptureOK, RenderOK
<1>2. /\ ToSet(buffer) \subseteq Nat /\ ToSet(lines) \subseteq Nat /\ ToSet(work.lines) \subseteq Nat
      /\ ToSet(job.lines) \subseteq Nat
  <2>1. /\ buffer \in Seq(Nat) /\ lines \in Seq(Nat) /\ work.lines \in Seq(Nat) /\ job.lines \in Seq(Nat)
    BY DEF TypeOK, RenderOK, SharedOK, Jobs
  <2> QED BY <2>1, SetOfSeq
<1>3. LinesOf(queue) \subseteq Nat
  <2>1. queue \in Seq(Steps) BY DEF TypeOK, SharedOK
  <2>2. ToSet(queue) \subseteq Steps BY <2>1, SetOfSeq
  <2>3. \A j \in ToSet(queue) : j.lines \in Seq(Nat) BY <2>2 DEF Steps
  <2>4. \A j \in ToSet(queue) : ToSet(j.lines) \subseteq Nat BY <2>3, SetOfSeq
  <2> QED BY <2>4 DEF LinesOf
<1>4. InFlight \subseteq Nat BY <1>2, <1>3 DEF InFlight, InHand
<1>5. ASSUME NEW b \in Blocks PROVE b[2] \in Nat /\ Head(b[1]) \in Nat /\ Last(b[1]) \in Nat
  <2>1. writes \in Seq(Writers) /\ records \subseteq Records BY DEF TypeOK, DiskOK
  <2>2. ToSet(writes) \subseteq Writers BY <2>1, SetOfSeq
  <2>3. b[1] \in Images /\ b[2] \in Nat BY <2>1, <2>2 DEF Blocks, Of, Writers, Records
  <2> QED BY <2>3, ImageFacts
<1> QED BY <1>1, <1>4, <1>5

LEMMA SamplerMotion == ASSUME TypeOK, Motion, Moves PROVE Motion'
<1>1. next' = next /\ breaks' = breaks BY DEF Moves, capture
<1>2. /\ next \in Nat /\ segment \in Nat /\ breaks \subseteq Nat /\ InFlight \subseteq Nat
      /\ \A b \in Blocks : b[2] \in Nat /\ Head(b[1]) \in Nat /\ Last(b[1]) \in Nat
  BY Numbers
<1>3. ASSUME NEW c \in Blocks'
      PROVE  c \in Blocks \/ (c[2] = segment /\ Head(c[1]) \in InFlight /\ Last(c[1]) \in InFlight)
  <2>1. CASE c \in Blocks BY <2>1
  <2>2. CASE c \notin Blocks
    <3>1. c \in {im \in Images : ToSet(im) \subseteq InFlight} \X {segment} BY <2>2 DEF Moves, Flushes
    <3>2. c[1] \in Images /\ ToSet(c[1]) \subseteq InFlight /\ c[2] = segment BY <3>1
    <3> QED BY <3>2, ImageFacts
  <2> QED BY <2>1, <2>2
<1>4. \/ segment' = segment /\ InFlight' \subseteq InFlight /\ (Ending => Ending')
      \/ segment' = segment + 1 /\ InFlight' = {}
  BY DEF Moves, Carries
<1>5. Bounds'
  <2>1. \A n \in InFlight' : n < next' BY <1>1, <1>4 DEF Motion, Bounds
  <2>2. \A b \in Blocks' : Last(b[1]) < next' BY <1>1, <1>3 DEF Motion, Bounds
  <2>3. \A b \in Blocks' : b[2] <= segment BY <1>2, <1>3 DEF Motion, Bounds
  <2>4. \A b \in Blocks' : b[2] <= segment' BY <1>2, <1>3, <1>4, <2>3
  <2>5. \A x \in breaks' : x <= next' BY <1>1 DEF Motion, Bounds
  <2> QED BY <2>1, <2>2, <2>4, <2>5 DEF Bounds
<1>6. Cut'
  <2> SUFFICES ASSUME NEW x \in breaks
               PROVE  \/ x = next /\ Ending'
                      \/ /\ \A n \in InFlight' : x <= n
                         /\ \A b \in Blocks' : b[2] = segment' => x <= Head(b[1])
    BY <1>1 DEF Cut
  <2>1. CASE segment' = segment + 1 /\ InFlight' = {}
    <3>1. \A b \in Blocks' : b[2] # segment' BY <1>2, <1>3, <2>1 DEF Motion, Bounds
    <3> QED BY <2>1, <3>1
  <2>2. CASE segment' = segment /\ InFlight' \subseteq InFlight /\ (Ending => Ending')
    <3>1. CASE x = next /\ Ending BY <2>2, <3>1
    <3>2. CASE ~(x = next /\ Ending)
      <4>1. /\ \A n \in InFlight : x <= n
            /\ \A b \in Blocks : b[2] = segment => x <= Head(b[1])
        BY <3>2 DEF Motion, Cut
      <4> QED BY <1>3, <2>2, <4>1
    <3> QED BY <3>1, <3>2
  <2> QED BY <1>4, <2>1, <2>2
<1>7. Apart'
  <2> SUFFICES ASSUME NEW b \in Blocks', NEW c \in Blocks', b[2] = c[2], NEW x \in breaks,
                      x \in Head(b[1]) + 1 .. Last(c[1])
               PROVE  FALSE
    BY <1>1 DEF Apart
  <2>1. CASE b \in Blocks /\ c \in Blocks BY <2>1 DEF Motion, Apart
  <2>2. CASE ~(b \in Blocks /\ c \in Blocks)
    <3>1. b[2] = segment BY <1>3, <2>2
    <3>2. Last(c[1]) < next BY <1>3 DEF Motion, Bounds
    <3>3. Last(c[1]) \in Nat /\ Head(b[1]) \in Nat BY <1>2, <1>3
    <3>4. x < next /\ ~(x <= Head(b[1])) BY <1>2, <3>2, <3>3
    <3>5. /\ \A n \in InFlight : x <= n
          /\ \A d \in Blocks : d[2] = segment => x <= Head(d[1])
      <4>1. x # next BY <1>2, <3>4
      <4> QED BY <4>1 DEF Motion, Cut
    <3>6. x <= Head(b[1]) BY <1>3, <3>1, <3>5
    <3> QED BY <3>4, <3>6
  <2> QED BY <2>1, <2>2
<1> QED BY <1>5, <1>6, <1>7 DEF Motion

LEMMA PhysicsMotion == ASSUME TypeOK, Motion, Physics, Strides PROVE Motion'
<1>1. Blocks' \subseteq Blocks BY PhysicsWrites
<1>2. /\ next \in Nat /\ segment \in Nat /\ breaks \subseteq Nat /\ InFlight \subseteq Nat
      /\ \A b \in Blocks : b[2] \in Nat /\ Head(b[1]) \in Nat /\ Last(b[1]) \in Nat
  BY Numbers
<1>3. /\ next' \in Nat /\ next <= next' /\ breaks' \subseteq breaks \cup {next'}
      /\ InFlight' \subseteq InFlight \cup (next .. next' - 1)
      /\ segment' = segment \/ segment' = segment + 1
  BY <1>2 DEF Strides, Idles, Fails, Takes, Toggles, Replaces
<1>4. Bounds'
  <2>1. ASSUME NEW n \in InFlight' PROVE n < next'
    <3>1. CASE n \in InFlight
      <4>1. n \in Nat /\ n < next BY <1>2, <3>1 DEF Motion, Bounds
      <4> QED BY <1>2, <1>3, <4>1
    <3>2. CASE n \in next .. next' - 1
      <4>1. next \in Nat /\ next' \in Nat BY <1>2, <1>3
      <4>2. \A a, b \in Nat : \A m \in a .. b - 1 : m < b OBVIOUS
      <4> QED BY <3>2, <4>1, <4>2, Zenon
    <3> QED BY <1>3, <3>1, <3>2
  <2>2. \A b \in Blocks' : Last(b[1]) < next' /\ b[2] <= segment' BY <1>1, <1>2, <1>3 DEF Motion, Bounds
  <2>3. \A x \in breaks' : x <= next' BY <1>2, <1>3 DEF Motion, Bounds
  <2> QED BY <2>1, <2>2, <2>3 DEF Bounds
<1>5. Apart'
  <2> SUFFICES ASSUME NEW b \in Blocks, NEW c \in Blocks, b[2] = c[2], NEW x \in breaks',
                      x \in Head(b[1]) + 1 .. Last(c[1])
               PROVE  FALSE
    BY <1>1 DEF Apart
  <2>1. CASE x \in breaks BY <2>1 DEF Motion, Apart
  <2>2. CASE x = next' BY <1>2, <1>3, <2>2 DEF Motion, Bounds
  <2> QED BY <1>3, <2>1, <2>2
<1>6. Cut'
  <2> SUFFICES ASSUME NEW x \in breaks'
               PROVE  \/ x = next' /\ Ending'
                      \/ /\ \A n \in InFlight' : x <= n
                         /\ \A b \in Blocks : b[2] = segment' => x <= Head(b[1])
    BY <1>1 DEF Cut
  <2>1. CASE Idles
    <3>1. x \in breaks /\ next' = next /\ segment' = segment /\ InFlight' = InFlight BY <2>1 DEF Idles
    <3>2. Ending => Ending' BY <2>1 DEF Idles
    <3> QED BY <3>1, <3>2 DEF Motion, Cut
  <2>2. CASE Fails
    <3>1. Ending' BY <2>2 DEF Fails, Ending
    <3>2. CASE x = next' BY <3>1, <3>2
    <3>3. CASE x # next'
      <4>1. x \in breaks /\ segment' = segment /\ InFlight' = InFlight BY <2>2, <3>3 DEF Fails
      <4>2. ~(x = next /\ Ending) BY <2>2, <3>3 DEF Fails
      <4> QED BY <4>1, <4>2 DEF Motion, Cut
    <3> QED BY <3>2, <3>3
  <2>3. CASE Takes
    <3>1. ~Ending /\ segment' = segment /\ InFlight' \subseteq InFlight \cup (next .. next' - 1) BY <2>3 DEF Takes
    <3>2. CASE x \in breaks
      <4>1. x <= next BY <3>2 DEF Motion, Bounds
      <4>2. /\ \A n \in InFlight : x <= n
            /\ \A b \in Blocks : b[2] = segment => x <= Head(b[1])
        BY <3>1, <3>2 DEF Motion, Cut
      <4>3. ASSUME NEW n \in InFlight' PROVE x <= n
        <5>1. x \in Nat BY <1>2, <3>2
        <5>2. CASE n \in next .. next' - 1 BY <1>2, <1>3, <4>1, <5>1, <5>2
        <5> QED BY <3>1, <4>2, <5>2
      <4> QED BY <3>1, <4>2, <4>3
    <3>3. CASE x \notin breaks BY <2>3, <3>3 DEF Takes
    <3> QED BY <3>2, <3>3
  <2>4. CASE Toggles BY <2>4 DEF Toggles
  <2>5. CASE Replaces
    <3>1. segment' = segment + 1 /\ InFlight' = {} BY <2>5 DEF Replaces
    <3>2. \A b \in Blocks : b[2] # segment' BY <1>2, <3>1 DEF Motion, Bounds
    <3> QED BY <3>1, <3>2
  <2> QED BY <2>1, <2>2, <2>3, <2>4, <2>5 DEF Strides
<1> QED BY <1>4, <1>5, <1>6 DEF Motion

-----------------------------------------------------------------------------
(* A toggle that was settled *)

LEMMA SamplerClean == ASSUME TypeOK, Handshake, Motion, Clean, Sampler \/ Write, Moves PROVE Clean'
<1> SUFFICES ASSUME (pc' = "toggled" /\ ~busy' /\ ~error') \/ pc' = "drain"
             PROVE  /\ InFlight' = {} /\ lines' = <<>> /\ work' = NoJob /\ queue' = <<>> /\ sampler' = "waiting"
                    /\ ~busy' /\ ~error' /\ ~failed'
                    /\ \A b \in Blocks' : b[2] # segment'
  BY DEF Clean
<1>1. pc' = pc /\ failed' = failed BY DEF Moves, caller
<1>2. CASE (pc = "toggled" /\ ~busy /\ ~error) \/ pc = "drain"
  <2>1. /\ InFlight = {} /\ lines = <<>> /\ work = NoJob /\ queue = <<>> /\ sampler = "waiting"
        /\ ~busy /\ ~error /\ ~failed
        /\ \A b \in Blocks : b[2] # segment
    BY <1>2 DEF Clean
  <2>2. Write
    BY <2>1, NoLines DEF Sampler, Take, Batch, Settle, Stop, Bury, Leave, StartUp
  <2>3. UNCHANGED <<lines, work, queue, sampler, busy, error, segment>> BY <2>2 DEF Write, shared, render
  <2>4. InFlight' = {} BY <2>1, <2>3, Numbers DEF Moves, Carries
  <2>5. ASSUME NEW b \in Blocks' PROVE b[2] # segment
    <3>1. b \in Blocks BY <2>2, WriteFacts
    <3> QED BY <2>1, <3>1
  <2> QED BY <1>1, <2>1, <2>3, <2>4, <2>5
<1>3. CASE ~((pc = "toggled" /\ ~busy /\ ~error) \/ pc = "drain")
  <2>1. pc = "toggled" /\ (busy \/ error) /\ ~busy' /\ ~error' BY <1>1, <1>3
  <2>2. Settle
    BY <2>1 DEF Sampler, Take, Batch, Stop, Bury, Leave, StartUp, Exit, Write, shared
  <2>3. work.kind = "end" /\ queue = <<>> /\ ~error /\ ~failed BY <2>1, <2>2 DEF Settle, Handshake
  <2>4. /\ work' = NoJob /\ lines' = <<>> /\ UNCHANGED <<sampler, queue, error>> /\ segment' = segment + 1
        /\ sampler = "waiting"
    <3>1. busy' # busy BY <2>1, <2>3
    <3>2. /\ UNCHANGED <<queue, error>> /\ sampler = "waiting"
          /\ \/ busy' = busy
             \/ /\ work' = NoJob /\ lines' = <<>> /\ UNCHANGED sampler
                /\ segment' = IF work.kind = "end" THEN segment + 1 ELSE segment
      BY <2>2 DEF Settle
    <3> QED BY <2>3, <3>1, <3>2
  <2>5. InFlight' = {} BY <2>4, Numbers DEF Moves, Carries
  <2>6. ASSUME NEW b \in Blocks' PROVE b[2] # segment'
    <3>1. segment' \in Nat BY DEF Moves, TypeOK, RenderOK
    <3>2. segment \in Nat /\ \A c \in Blocks : c[2] \in Nat /\ c[2] <= segment BY Numbers DEF Motion, Bounds
    <3>3. b \in Blocks \/ b \in {im \in Images : ToSet(im) \subseteq InFlight} \X {segment}
      BY DEF Moves, Flushes
    <3>4. b[2] \in Nat /\ b[2] <= segment BY <3>2, <3>3
    <3> QED BY <2>4, <3>2, <3>4
  <2> QED BY <1>1, <2>1, <2>3, <2>4, <2>5, <2>6
<1> QED BY <1>2, <1>3

LEMMA PhysicsClean == ASSUME TypeOK, Handshake, Clean, Physics PROVE Clean'
<1> SUFFICES ASSUME (pc' = "toggled" /\ ~busy' /\ ~error') \/ pc' = "drain" PROVE Clean' BY DEF Clean
<1>1. Toggled /\ ~error /\ ~busy
  <2> USE DEF Goto, Answer
  <2> pc' \in {"toggled", "drain"} /\ (pc' = "toggled" => ~busy') OBVIOUS
  <2>1. ~(Begin \/ Serve \/ Recover) /\ ~(Restarted \/ Quiet \/ Drain)
    BY DEF Begin, Serve, Recover, Restarted, Quiet, Drain
  <2>2. ~Toggle /\ ~Warm /\ ~Warmed /\ ~Bounded BY DEF Toggle, Warm, Warmed, Bounded, Hand
  <2>3. ~(Exposed \/ Boundary) BY DEF Exposed, Boundary
  <2>4. Toggled BY <2>1, <2>2, <2>3 DEF Physics
  <2> QED BY <2>4 DEF Toggled, Returned
<1>2. /\ UNCHANGED <<queue, job, busy, error, render, disk>> /\ failed' = failed BY <1>1 DEF Toggled
<1>3. InFlight' = InFlight /\ Blocks' = Blocks
  BY <1>2 DEF InFlight, InHand, Blocks, Of, render, disk
<1> QED BY <1>1, <1>2, <1>3 DEF Clean, Toggled, render

-----------------------------------------------------------------------------
(* Where the lines are *)

\* Every line that was taken is on record, reported lost, in flight or with a
\* writer, unless an exception is on its way to be seen.
Accounted ==
  /\ failed => 0 .. next - 1 \subseteq Kept \cup reported
  /\ Excused \/ 0 .. next - 1 \subseteq Kept \cup reported \cup InFlight \cup LinesOf(writes)

\* As CloseIsComplete, with why nothing can be added before the next request.
Closed ==
  reply = "closed" => /\ ~enabled /\ pc \in {"begin", "sample", "bounded"}
                      /\ 0 .. next - 1 \subseteq Kept \cup reported

Balance == Filed /\ Accounted /\ Closed

LEMMA SamplerBalance == ASSUME Balance, Moves PROVE Balance'
<1>1. /\ next' = next /\ reported' = reported /\ enabled' = enabled /\ pc' = pc /\ reply' = reply
      /\ failed' = failed
  BY DEF Moves, caller, capture
<1>2. Filed' /\ Kept \subseteq Kept' BY DEF Moves, Keeps, Balance
<1>3. Closed' BY <1>1, <1>2 DEF Balance, Closed
<1>4. failed => 0 .. next - 1 \subseteq Kept' \cup reported BY <1>2 DEF Balance, Accounted
<1>5. Excused' \/ 0 .. next - 1 \subseteq Kept' \cup reported \cup InFlight' \cup LinesOf(writes')
  <2>1. CASE Excused'  BY <2>1
  <2>2. CASE ~Excused'
    <3>1. Kept \cup LinesOf(writes) \cup InFlight \subseteq Kept' \cup LinesOf(writes') \cup InFlight'
      BY <2>2 DEF Moves, Keeps, Balance
    <3>2. ~Excused BY <2>2 DEF Moves, Keeps
    <3> QED BY <3>1, <3>2 DEF Balance, Accounted
  <2> QED BY <2>1, <2>2
<1> QED BY <1>1, <1>2, <1>3, <1>4, <1>5 DEF Balance, Accounted

\* What a physics step other than a replacement keeps.
LEMMA PhysicsKeeps ==
  ASSUME Filed, Physics, ~Recover
  PROVE  /\ UNCHANGED render /\ (Excused => Excused')
         /\ Kept' = Kept /\ LinesOf(writes) \subseteq Kept \cup LinesOf(writes')
<1>1. UNCHANGED render
  BY DEF Physics, Begin, Serve, Restarted, Toggle, Toggled, Warm, Warmed, Drain, Exposed, Boundary, Bounded, Quiet
<1>2. (error => error') /\ (failed => failed')
  <2>1. CASE Begin \/ Serve \/ Restarted \/ Quiet \/ Drain
    BY <2>1 DEF Begin, Serve, Restarted, Quiet, Drain, Notice, shared
  <2>2. CASE Toggle \/ Warm BY <2>2 DEF Toggle, Warm, Hand, Notice, shared
  <2>3. CASE Toggled \/ Warmed \/ Bounded BY <2>3 DEF Toggled, Warmed, Bounded, Notice
  <2>4. CASE Exposed
    <3>1. UNCHANGED <<error, failed>> \/ (error' = TRUE /\ failed' = TRUE) BY <2>4 DEF Exposed, Enqueue, Notice
    <3> QED BY <3>1
  <2>5. CASE Boundary
    <3>1. PICK k \in 0 .. StepLines, kind \in {"hold", "end"} :
            IF error THEN Notice(next + k) /\ UNCHANGED <<queue, job, busy, error>>
            ELSE UNCHANGED <<enabled, reported, queue, error, failed>>
      BY <2>5 DEF Boundary
    <3> QED BY <3>1 DEF Notice
  <2> QED BY <2>1, <2>2, <2>3, <2>4, <2>5 DEF Physics
<1>3. Excused => Excused' BY <1>1, <1>2 DEF Excused, render
<1>4. LinesOf(writes) \subseteq Kept \cup LinesOf(writes')
  <2>1. writes' = writes \/ Drain BY PhysicsWrites
  <2>2. CASE Drain
    <3>1. writes' = writes \/ \A w \in ToSet(writes) : w.state = "ok" BY <2>2 DEF Drain
    <3> QED BY <3>1 DEF Filed, LinesOf
  <2> QED BY <2>1, <2>2
<1> QED BY <1>1, <1>3, <1>4, PhysicsWrites

LEMMA PhysicsBalance == ASSUME TypeOK, Handshake, Clean, Balance, Physics, Strides PROVE Balance'
<1>1. Filed /\ Accounted /\ Closed /\ Filed' /\ Kept' = Kept BY PhysicsWrites DEF Balance
<1>2. next \in Nat /\ segment \in Nat BY DEF TypeOK, CaptureOK, RenderOK
<1>3. CASE Recover
  <2>1. /\ failed /\ reply' = reply /\ reply # "closed" /\ failed' = FALSE
        /\ UNCHANGED <<next, reported>>
    BY <1>1, <1>3 DEF Recover, Handshake, Closed, Goto, capture
  <2>2. 0 .. next' - 1 \subseteq Kept' \cup reported' BY <1>1, <2>1 DEF Accounted
  <2> QED BY <1>1, <2>1, <2>2 DEF Balance, Accounted, Closed
<1>4. CASE ~Recover
  <2>1. /\ UNCHANGED render /\ (Excused => Excused')
        /\ LinesOf(writes) \subseteq Kept \cup LinesOf(writes')
    BY <1>1, <1>4, PhysicsKeeps
  <2>2. Accounted'
    <3>1. CASE Idles
      <4>1. UNCHANGED <<next, reported, failed>> /\ InFlight' = InFlight BY <3>1 DEF Idles
      <4>2. failed => 0 .. next - 1 \subseteq Kept \cup reported BY <1>1 DEF Accounted
      <4>3. Excused \/ 0 .. next - 1 \subseteq Kept \cup reported \cup InFlight \cup LinesOf(writes)
        BY <1>1 DEF Accounted
      <4> QED BY <1>1, <2>1, <4>1, <4>2, <4>3 DEF Accounted
    <3>2. CASE Fails
      <4>1. failed' /\ Excused' BY <3>2 DEF Fails, Excused
      <4>2. CASE failed
        <5>1. next' = next /\ reported' = reported BY <3>2, <4>2 DEF Fails, Ending
        <5>2. 0 .. next - 1 \subseteq Kept \cup reported BY <1>1, <4>2 DEF Accounted
        <5> QED BY <1>1, <4>1, <5>1, <5>2 DEF Accounted
      <4>3. CASE ~failed
        <5>1. reported' = reported \cup ((0 .. next' - 1) \ Kept) BY <3>2, <4>3 DEF Fails
        <5> QED BY <1>1, <4>1, <5>1 DEF Accounted
      <4> QED BY <4>2, <4>3
    <3>3. CASE Takes
      <4>1. /\ UNCHANGED reported /\ next' \in Nat /\ next <= next' /\ ~failed'
            /\ InFlight \cup (next .. next' - 1) \subseteq InFlight' \/ Excused'
        BY <3>3 DEF Takes, Ending
      <4>2. 0 .. next' - 1 \subseteq (0 .. next - 1) \cup (next .. next' - 1)
        <5>1. \A a, b \in Nat : 0 .. b - 1 \subseteq (0 .. a - 1) \cup (a .. b - 1) OBVIOUS
        <5> QED BY <1>2, <4>1, <5>1
      <4>3. CASE Excused' BY <4>1, <4>3 DEF Accounted
      <4>4. CASE ~Excused'
        <5>1. 0 .. next - 1 \subseteq Kept \cup reported \cup InFlight \cup LinesOf(writes)
          BY <1>1, <2>1, <4>4 DEF Accounted
        <5>2. 0 .. next' - 1 \subseteq Kept' \cup reported' \cup InFlight' \cup LinesOf(writes')
          BY <1>1, <2>1, <4>1, <4>2, <4>4, <5>1
        <5> QED BY <4>1, <5>2 DEF Accounted
      <4> QED BY <4>3, <4>4
    <3>4. CASE Toggles
      <4>1. UNCHANGED <<next, reported, failed>> /\ InFlight' = InFlight BY <3>4 DEF Toggles
      <4>2. failed => 0 .. next - 1 \subseteq Kept \cup reported BY <1>1 DEF Accounted
      <4>3. Excused \/ 0 .. next - 1 \subseteq Kept \cup reported \cup InFlight \cup LinesOf(writes)
        BY <1>1 DEF Accounted
      <4> QED BY <1>1, <2>1, <4>1, <4>2, <4>3 DEF Accounted
    <3>5. ~Replaces
      <4>1. segment' = segment BY <2>1 DEF render
      <4> QED BY <1>2, <4>1 DEF Replaces
    <3> QED BY <3>1, <3>2, <3>3, <3>4, <3>5 DEF Strides
  <2>3. Closed'
    <3> SUFFICES ASSUME reply' = "closed"
                 PROVE  /\ ~enabled' /\ pc' \in {"begin", "sample", "bounded"}
                        /\ 0 .. next' - 1 \subseteq Kept' \cup reported'
      BY DEF Closed
    <3>1. CASE Drain
      <4>1. pc = "drain" /\ pc' = "sample" /\ UNCHANGED <<next, enabled, reported>>
            /\ \A w \in ToSet(writes) : w.state = "ok"
        <5>1. /\ pc = "drain" /\ UNCHANGED <<next, enabled, reported>>
              /\ \/ (\A w \in ToSet(writes) : w.state = "ok") /\ pc' = "sample"
                 \/ reply' = reply
          BY <3>1 DEF Drain, Goto, Answer, capture
        <5>2. reply # "closed" BY <1>1, <5>1 DEF Closed
        <5> QED BY <5>1, <5>2
      <4>2. InFlight = {} /\ ~Excused BY <4>1 DEF Clean, Excused
      <4>3. LinesOf(writes) \subseteq Kept BY <1>1, <4>1 DEF Filed, LinesOf
      <4>4. 0 .. next - 1 \subseteq Kept \cup reported BY <1>1, <4>2, <4>3 DEF Accounted
      <4>5. ~enabled BY <4>1 DEF Handshake
      <4> QED BY <1>1, <4>1, <4>4, <4>5
    <3>2. CASE ~Drain
      <4>1. reply = "closed" /\ ~enabled /\ (Begin \/ Quiet \/ Bounded \/ Boundary)
        <5>1. reply = "closed"
          <6> USE DEF Goto, Answer
          <6>1. CASE Begin \/ Serve \/ Restarted \/ Quiet
            BY <6>1 DEF Begin, Serve, Restarted, Quiet
          <6>2. CASE Toggle \/ Warm \/ Toggled \/ Warmed \/ Bounded
            BY <6>2 DEF Toggle, Warm, Toggled, Warmed, Bounded, Hand
          <6>3. CASE Exposed \/ Boundary BY <6>3 DEF Exposed, Boundary
          <6> QED BY <1>4, <3>2, <6>1, <6>2, <6>3 DEF Physics
        <5>2. ~enabled /\ pc \in {"begin", "sample", "bounded"} BY <1>1, <5>1 DEF Closed
        <5> QED BY <1>4, <3>2, <5>1, <5>2
            DEF Physics, Serve, Restarted, Toggle, Toggled, Warm, Warmed, Exposed
      <4>2. 0 .. next - 1 \subseteq Kept \cup reported BY <1>1, <4>1 DEF Closed
      <4>3. pc' \in {"begin", "sample", "bounded"}
        BY <4>1 DEF Begin, Quiet, Bounded, Boundary, Goto
      <4>4. next' = next
        BY <1>2, <4>1 DEF Begin, Quiet, Bounded, Boundary, capture
      <4>5. ~enabled' /\ reported \subseteq reported'
        <5>1. \/ UNCHANGED <<enabled, reported>>
              \/ \E n \in Nat : Notice(n)
          <6>1. CASE Begin \/ Quiet \/ Bounded
            BY <1>2, <6>1 DEF Begin, Quiet, Bounded, capture
          <6>2. CASE Boundary
            <7>1. \E k \in 0 .. StepLines : UNCHANGED <<enabled, reported>> \/ Notice(next + k)
              BY <6>2 DEF Boundary
            <7> QED BY <1>2, <7>1, CameraAssumption
          <6> QED BY <4>1, <6>1, <6>2
        <5> QED BY <4>1, <5>1 DEF Notice
      <4> QED BY <1>1, <4>2, <4>3, <4>4, <4>5
    <3> QED BY <3>1, <3>2
  <2> QED BY <1>1, <2>2, <2>3 DEF Balance
<1> QED BY <1>3, <1>4

-----------------------------------------------------------------------------
(* The sets and their theorems *)

CameraInv == TypeOK /\ Handshake /\ Clean /\ Motion /\ Balance

LEMMA CameraInit == Init => CameraInv
<1> SUFFICES ASSUME Init PROVE CameraInv OBVIOUS
<1>1. TypeOK /\ Handshake BY InitTypes, InitHandshake
<1>2. InFlight = {} /\ Blocks = {} BY NoLines DEF Init, InFlight, InHand, Blocks, Of
<1>3. Clean BY DEF Init, Clean
<1>4. Motion BY <1>2 DEF Init, Motion, Bounds, Cut, Apart
<1>5. Filed /\ Closed BY NoLines DEF Init, Filed, Closed
<1>6. Accounted BY DEF Init, Accounted
<1> QED BY <1>1, <1>3, <1>4, <1>5, <1>6 DEF CameraInv, Balance

LEMMA CameraStep == CameraInv /\ [Next]_vars => CameraInv'
<1> SUFFICES ASSUME CameraInv, [Next]_vars PROVE CameraInv' OBVIOUS
<1> USE DEF CameraInv
<1>1. CASE Physics
  <2>1. Strides BY <1>1, PhysicsStrides
  <2> QED BY <1>1, <2>1, PhysicsTypes, PhysicsHandshake, PhysicsClean, PhysicsMotion, PhysicsBalance
<1>2. CASE Sampler \/ Write
  <2>1. Moves BY <1>2, SamplerMoves
  <2>2. TypeOK' BY <2>1 DEF Moves
  <2> QED BY <1>2, <2>1, <2>2, SamplerHandshake, SamplerClean, SamplerMotion, SamplerBalance
<1>3. CASE UNCHANGED vars
  <2> USE <1>3 DEF vars, caller, capture, shared, render, disk
  <2>1. TypeOK' BY DEF TypeOK, CallerOK, CaptureOK, SharedOK, RenderOK, DiskOK
  <2>2. Handshake' BY DEF Handshake
  <2>3. /\ InFlight' = InFlight /\ Blocks' = Blocks /\ Kept' = Kept
        /\ Excused' = Excused /\ Ending' = Ending
    BY DEF InFlight, InHand, Blocks, Kept, Of, Excused, Ending
  <2>4. Clean' BY <2>3 DEF Clean
  <2>5. Motion' BY <2>3 DEF Motion, Bounds, Cut, Apart
  <2>6. Balance' BY <2>3 DEF Balance, Filed, Accounted, Closed
  <2> QED BY <2>1, <2>2, <2>4, <2>5, <2>6
<1> QED BY <1>1, <1>2, <1>3 DEF Next

LEMMA CameraInvariant == Spec => []CameraInv
BY CameraInit, CameraStep, PTL DEF Spec

\* Every variable of the camera keeps its type: no block without a row reaches a writer.
THEOREM CameraTypeCorrect == Spec => []TypeOK
<1>1. CameraInv => TypeOK BY DEF CameraInv
<1> QED BY <1>1, CameraInvariant, PTL

\* Two blocks of one segment have no rejected motion, toggle or failure between
\* them, although ++segment_ is executed by the sampler long after the physics
\* thread saw the motion end.
THEOREM SegmentsAreOneMotion == Spec => []SegmentIsOneMotion
<1>1. CameraInv => SegmentIsOneMotion
  <2> SUFFICES ASSUME CameraInv, NEW b \in Of("file"), NEW c \in Of("file"), b.segment = c.segment
               PROVE  breaks \cap (Head(b.lines) + 1 .. Last(c.lines)) = {}
    BY DEF SegmentIsOneMotion
  <2> DEFINE bb == <<b.lines, b.segment>>
             cc == <<c.lines, c.segment>>
  <2>1. bb \in Blocks /\ cc \in Blocks BY DEF Blocks
  <2>2. bb[1] = b.lines /\ cc[1] = c.lines /\ bb[2] = cc[2] OBVIOUS
  <2> HIDE DEF bb, cc
  <2> QED BY <2>1, <2>2 DEF CameraInv, Motion, Apart
<1> QED BY <1>1, CameraInvariant, PTL

\* When set_enabled acknowledges a closing, every line ever taken is in a block
\* file, in a tail that was reported as discarded, or covered by a failure report.
THEOREM ClosingIsComplete == Spec => []CloseIsComplete
<1>1. CameraInv => CloseIsComplete BY DEF CameraInv, Balance, Closed, CloseIsComplete
<1> QED BY <1>1, CameraInvariant, PTL

-----------------------------------------------------------------------------
(* The order of the lines *)

\* The sequence is the lines from a on, none left out.
Strip(s, a) == \A i \in 1 .. Len(s) : s[i] = a + i - 1

\* What the ends of a strip are, and which lines lie in it.
LEMMA StripEnds ==
  ASSUME NEW s \in Seq(Nat), NEW a \in Nat, Strip(s, a)
  PROVE  /\ Len(s) \in Nat /\ (s = <<>> <=> Len(s) = 0)
         /\ \A y \in Nat : y \in ToSet(s) <=> a <= y /\ y < a + Len(s)
         /\ s # <<>> => Head(s) = a /\ Last(s) = a + Len(s) - 1 /\ Len(s) >= 1
<1>1. Len(s) \in Nat /\ (s = <<>> <=> Len(s) = 0) BY EmptySeq, LenProperties
<1>2. \A y : y \in ToSet(s) <=> \E i \in 1 .. Len(s) : y = s[i] BY SetOfSeq
<1>3. ASSUME NEW y \in Nat, a <= y, y < a + Len(s) PROVE y \in ToSet(s)
  <2>1. y - a + 1 \in 1 .. Len(s) /\ a + (y - a + 1) - 1 = y BY <1>1, <1>3
  <2>2. s[y - a + 1] = y BY <2>1 DEF Strip
  <2> QED BY <1>2, <2>1, <2>2
<1>4. ASSUME NEW y \in Nat, y \in ToSet(s) PROVE a <= y /\ y < a + Len(s)
  <2>1. PICK i \in 1 .. Len(s) : y = s[i] BY <1>2, <1>4
  <2> QED BY <1>1, <2>1 DEF Strip
<1>5. ASSUME s # <<>> PROVE Head(s) = a /\ Last(s) = a + Len(s) - 1 /\ Len(s) >= 1
  <2>1. Len(s) >= 1 /\ 1 \in 1 .. Len(s) /\ Len(s) \in 1 .. Len(s) BY <1>1, <1>5
  <2>2. Head(s) = s[1] BY <1>5
  <2>3. s[1] = a /\ s[Len(s)] = a + Len(s) - 1 BY <2>1 DEF Strip
  <2> QED BY <2>1, <2>2, <2>3 DEF Last
<1> QED BY <1>1, <1>3, <1>4, <1>5

\* A strip behind a strip.
LEMMA StripJoin ==
  ASSUME NEW s \in Seq(Nat), NEW t \in Seq(Nat), NEW a \in Nat, Strip(s, a), Strip(t, a + Len(s))
  PROVE  s \o t \in Seq(Nat) /\ Len(s \o t) = Len(s) + Len(t) /\ Strip(s \o t, a)
<1>1. Len(s) \in Nat /\ Len(t) \in Nat BY LenProperties
<1>2. /\ s \o t \in Seq(Nat) /\ Len(s \o t) = Len(s) + Len(t)
      /\ \A i \in 1 .. Len(s) + Len(t) : (s \o t)[i] = IF i <= Len(s) THEN s[i] ELSE t[i - Len(s)]
  BY ConcatProperties
<1>3. ASSUME NEW i \in 1 .. Len(s) + Len(t) PROVE (s \o t)[i] = a + i - 1
  <2>1. CASE i <= Len(s) BY <1>1, <1>2, <2>1 DEF Strip
  <2>2. CASE ~(i <= Len(s))
    <3>1. i - Len(s) \in 1 .. Len(t) BY <1>1, <2>2
    <3>2. t[i - Len(s)] = a + Len(s) + (i - Len(s)) - 1 BY <3>1 DEF Strip
    <3> QED BY <1>1, <1>2, <2>2, <3>2
  <2> QED BY <2>1, <2>2
<1> QED BY <1>2, <1>3 DEF Strip

\* One more line.
LEMMA StripAppend ==
  ASSUME NEW s \in Seq(Nat), NEW a \in Nat, Strip(s, a), NEW y \in Nat, y = a + Len(s)
  PROVE  Append(s, y) \in Seq(Nat) /\ Len(Append(s, y)) = Len(s) + 1 /\ Strip(Append(s, y), a)
<1>1. Len(s) \in Nat BY LenProperties
<1>2. /\ Append(s, y) \in Seq(Nat) /\ Len(Append(s, y)) = Len(s) + 1 /\ Append(s, y)[Len(s) + 1] = y
      /\ \A i \in 1 .. Len(s) : Append(s, y)[i] = s[i]
  BY AppendProperties
<1>3. ASSUME NEW i \in 1 .. Len(s) + 1 PROVE Append(s, y)[i] = a + i - 1
  <2>1. CASE i \in 1 .. Len(s) BY <1>2, <2>1 DEF Strip
  <2>2. CASE i = Len(s) + 1 BY <1>1, <1>2, <2>2
  <2> QED BY <1>1, <2>1, <2>2
<1> QED BY <1>2, <1>3 DEF Strip

\* One line less.
LEMMA StripTail ==
  ASSUME NEW s \in Seq(Nat), NEW a \in Nat, Strip(s, a), s # <<>>
  PROVE  /\ Head(s) = a /\ Tail(s) \in Seq(Nat) /\ Len(Tail(s)) = Len(s) - 1 /\ Strip(Tail(s), a + 1)
         /\ Len(s) \in Nat \ {0}
<1>1. Len(s) \in Nat \ {0} BY EmptySeq, LenProperties
<1>2. Tail(s) \in Seq(Nat) /\ Len(Tail(s)) = Len(s) - 1 /\ \A i \in 1 .. Len(Tail(s)) : Tail(s)[i] = s[i + 1]
  BY HeadTailProperties
<1>3. ASSUME NEW i \in 1 .. Len(s) - 1 PROVE Tail(s)[i] = (a + 1) + i - 1
  <2>1. i + 1 \in 1 .. Len(s) BY <1>1
  <2> QED BY <1>2, <2>1 DEF Strip
<1>4. Head(s) = a BY StripEnds
<1> QED BY <1>1, <1>2, <1>3, <1>4 DEF Strip

\* Nothing is a strip from anywhere.
LEMMA StripEmpty == ASSUME NEW a PROVE Strip(<<>>, a) /\ Len(<<>>) = 0
BY EmptySeq DEF Strip

\* Pending cuts the front of the writers off, all of which are done.
LEMMA PendingCuts ==
  ASSUME writes \in Seq(Writers)
  PROVE  /\ Pending \in Seq(Writers) /\ Len(writes) \in Nat
         /\ \E m \in 0 .. Len(writes) :
              /\ Len(Pending) = Len(writes) - m
              /\ \A i \in 1 .. Len(writes) - m : Pending[i] = writes[m + i]
              /\ \A i \in 1 .. m : writes[i].state = "ok"
<1> DEFINE I == {i \in 1 .. Len(writes) : writes[i].state # "ok"}
<1>1. Len(writes) \in Nat BY LenProperties
<1>2. CASE I = {}
  <2>1. Pending = <<>> BY <1>2 DEF Pending, SelectInSeq
  <2>2. Len(Pending) = 0 /\ Pending \in Seq(Writers) BY <2>1, EmptySeq
  <2>3. Len(writes) \in 0 .. Len(writes) /\ Len(writes) - Len(writes) = 0 BY <1>1
  <2> QED BY <1>1, <1>2, <2>2, <2>3
<1>3. CASE I # {}
  <2> DEFINE k == Min(I)
  <2>1. k \in I /\ \A y \in I : k <= y
    <3>1. I \in SUBSET Nat OBVIOUS
    <3> HIDE DEF I
    <3> QED BY <1>3, <3>1, Least
  <2>2. k \in 1 .. Len(writes) BY <2>1
  <2>3. Pending = SubSeq(writes, k, Len(writes))
    <3>1. SelectInSeq(writes, LAMBDA w: w.state # "ok") = k BY <1>3, Zenon DEF SelectInSeq
    <3>2. k # 0 BY <1>1, <2>2
    <3> HIDE DEF k
    <3> QED BY <3>1, <3>2 DEF Pending
  <2>4. \A i \in 1 .. k - 1 : writes[i].state = "ok"
    <3> SUFFICES ASSUME NEW i \in 1 .. k - 1, writes[i].state # "ok" PROVE FALSE OBVIOUS
    <3>1. i \in 1 .. Len(writes) /\ i < k BY <1>1, <2>2
    <3>2. i \in I BY <3>1
    <3> HIDE DEF I, k
    <3>3. k <= i BY <2>1, <3>2
    <3> QED BY <1>1, <2>2, <3>1, <3>3
  <2> HIDE DEF k, I
  <2>5. /\ Pending \in Seq(Writers) /\ Len(Pending) = Len(writes) - k + 1
        /\ \A i \in 1 .. Len(writes) - k + 1 : Pending[i] = writes[k + i - 1]
    BY <1>1, <2>2, <2>3, SubSeqProperties
  <2>6. /\ k - 1 \in 0 .. Len(writes) /\ Len(writes) - (k - 1) = Len(writes) - k + 1
        /\ \A i \in 1 .. Len(writes) : (k - 1) + i = k + i - 1
    BY <1>1, <2>2
  <2>7. \A i \in 1 .. Len(writes) - (k - 1) : Pending[i] = writes[(k - 1) + i]
    <3> TAKE i \in 1 .. Len(writes) - (k - 1)
    <3>1. i \in 1 .. Len(writes) - k + 1 /\ (k - 1) + i = k + i - 1 BY <1>1, <2>2
    <3> QED BY <2>5, <3>1
  <2> QED BY <1>1, <2>4, <2>5, <2>6, <2>7
<1> QED BY <1>2, <1>3

-----------------------------------------------------------------------------
(* The blocks, and what becomes of them *)

\* What became, or becomes, of each block: lines and segment of a record or a writer.
PieceOf(e) == <<e.lines, e.segment>>
Recorded == {PieceOf(r) : r \in records}
Pieces == Recorded \cup {PieceOf(w) : w \in ToSet(writes)}
Before(p, q) == Last(p[1]) < Head(q[1]) /\ p[2] <= q[2]
Covered(y) == \E p \in Pieces : y \in ToSet(p[1])

\* The blocks are in order, and nothing is missing between two of one segment.
Sorted ==
  /\ \A p \in Pieces : Strip(p[1], Head(p[1])) /\ Last(p[1]) < next /\ p[2] <= segment
  /\ \A p, q \in Pieces : p = q \/ Before(p, q) \/ Before(q, p)
  /\ \A p, q \in Pieces : p[2] = q[2] =>
       \A y \in Nat : Last(p[1]) < y /\ y < Head(q[1]) => Covered(y)

\* Each block has one record, written when its writer is done.
Single ==
  /\ \A r, s \in records : r.lines = s.lines => r = s
  /\ \A i \in 1 .. Len(writes) : writes[i].state = "writing" <=> PieceOf(writes[i]) \notin Recorded
  /\ \A i, j \in 1 .. Len(writes) : writes[i].lines = writes[j].lines => i = j

\* Every block lies before a, and those of the current segment reach up to it.
Above(a) == \A p \in Pieces :
  /\ Last(p[1]) < a
  /\ p[2] = segment => \A y \in Nat : Last(p[1]) < y /\ y < a => Covered(y)

\* The types of blocks, writers and records, and where a block comes from.
LEMMA PieceTypes ==
  ASSUME TypeOK
  PROVE  /\ \A p \in Pieces : /\ p[1] \in Images /\ p[1] \in Seq(Nat) /\ p[1] # <<>> /\ p[2] \in Nat
                              /\ Head(p[1]) \in Nat /\ Last(p[1]) \in Nat
         /\ \A i \in 1 .. Len(writes) : PieceOf(writes[i]) \in Pieces /\ writes[i] \in Writers
         /\ \A r \in records : PieceOf(r) \in Pieces /\ r \in Records
         /\ next \in Nat /\ segment \in Nat /\ Len(writes) \in Nat /\ writes \in Seq(Writers)
         /\ \A p \in Pieces : p \in Recorded \/ \E i \in 1 .. Len(writes) : p = PieceOf(writes[i])
<1>1. /\ writes \in Seq(Writers) /\ records \subseteq Records /\ next \in Nat /\ segment \in Nat
  BY DEF TypeOK, DiskOK, CaptureOK, RenderOK
<1>2. Len(writes) \in Nat /\ \A i \in 1 .. Len(writes) : writes[i] \in Writers
  BY <1>1, LenProperties, ElementOfSeq
<1>3. \A x : x \in ToSet(writes) <=> \E i \in 1 .. Len(writes) : x = writes[i]
  BY <1>1, SetOfSeq
<1>4. \A e \in Writers \cup Records : PieceOf(e)[1] \in Images /\ PieceOf(e)[2] \in Nat
  BY DEF PieceOf, Writers, Records
<1>5. \A i \in 1 .. Len(writes) : PieceOf(writes[i]) \in Pieces
  BY <1>3 DEF Pieces
<1>6. \A r \in records : PieceOf(r) \in Pieces
  BY DEF Pieces, Recorded
<1>7. \A p \in Pieces : p \in Recorded \/ \E i \in 1 .. Len(writes) : p = PieceOf(writes[i])
  BY <1>3 DEF Pieces
<1>8. \A p \in Pieces : p[1] \in Images /\ p[2] \in Nat
  BY <1>1, <1>2, <1>4, <1>7 DEF Recorded
<1>9. ASSUME NEW p \in Pieces
      PROVE  p[1] \in Seq(Nat) /\ p[1] # <<>> /\ Head(p[1]) \in Nat /\ Last(p[1]) \in Nat
  BY <1>8, ImageFacts DEF Images
<1> QED BY <1>1, <1>2, <1>5, <1>6, <1>7, <1>8, <1>9

\* A block holds every line between its first and its last.
LEMMA PieceSpans ==
  ASSUME TypeOK, Sorted, NEW p \in Pieces
  PROVE  /\ Head(p[1]) <= Last(p[1])
         /\ \A y \in Nat : y \in ToSet(p[1]) <=> Head(p[1]) <= y /\ y <= Last(p[1])
<1> DEFINE s == p[1] a == Head(p[1])
<1>1. s \in Seq(Nat) /\ s # <<>> /\ a \in Nat /\ Strip(s, a)
  BY PieceTypes DEF Sorted
<1> HIDE DEF s, a
<1>2. /\ Len(s) \in Nat /\ Head(s) = a /\ Last(s) = a + Len(s) - 1 /\ Len(s) >= 1
      /\ \A y \in Nat : y \in ToSet(s) <=> a <= y /\ y < a + Len(s)
  BY <1>1, StripEnds
<1>3. a <= Last(s) /\ \A y \in Nat : y \in ToSet(s) <=> a <= y /\ y <= Last(s)
  BY <1>1, <1>2
<1> QED BY <1>3 DEF s, a

\* A block that begins where the others end keeps the order.
LEMMA GrowSorted ==
  ASSUME TypeOK, Sorted, NEW a \in Nat, Above(a), NEW rows \in Images, Strip(rows, a), a + Len(rows) <= next,
         Pieces' = Pieces \cup {<<rows, segment>>}, next' = next, segment' \in {segment, segment + 1}
  PROVE  Sorted' /\ Above(a + Len(rows))'
<1> DEFINE b == a + Len(rows)
           n == <<rows, segment>>
<1>1. /\ rows \in Seq(Nat) /\ rows # <<>> /\ Len(rows) \in Nat \ {0} /\ Head(rows) = a /\ Last(rows) = b - 1
      /\ b \in Nat /\ a < b
      /\ \A y \in Nat : y \in ToSet(rows) <=> a <= y /\ y < b
  BY StripEnds DEF Images
<1>2. /\ next \in Nat /\ segment \in Nat /\ segment <= segment' /\ segment' \in Nat
      /\ \A p \in Pieces : Head(p[1]) \in Nat /\ Last(p[1]) \in Nat /\ p[2] \in Nat /\ Head(p[1]) <= Last(p[1])
  BY PieceTypes, PieceSpans
<1>3. n[1] = rows /\ n[2] = segment /\ n \in Pieces' /\ \A p \in Pieces : p \in Pieces'
  OBVIOUS
<1>4. \A p \in Pieces' : p \in Pieces \/ p = n
  OBVIOUS
<1> HIDE DEF n
<1>5. \A y : Covered(y) => Covered(y)'
  BY <1>3 DEF Covered
<1>6. \A y \in Nat : a <= y /\ y < b => Covered(y)'
  <2> HIDE DEF b
  <2> QED BY <1>1, <1>3 DEF Covered
<1>7. \A p \in Pieces : /\ Strip(p[1], Head(p[1])) /\ Last(p[1]) < next /\ p[2] <= segment /\ Last(p[1]) < a
                        /\ p[2] = segment => \A y \in Nat : Last(p[1]) < y /\ y < a => Covered(y)
  BY DEF Sorted, Above
<1>8. Strip(n[1], Head(n[1])) /\ Last(n[1]) < next /\ n[2] <= segment
  BY <1>1, <1>2, <1>3
<1>9. \A p \in Pieces' : Strip(p[1], Head(p[1])) /\ Last(p[1]) < next' /\ p[2] <= segment'
  BY <1>2, <1>4, <1>7, <1>8
<1>10. \A p \in Pieces : Before(p, n)
  BY <1>1, <1>3, <1>7 DEF Before
<1>11. \A p, q \in Pieces' : p = q \/ Before(p, q) \/ Before(q, p)
  BY <1>4, <1>10 DEF Sorted
<1>12. ASSUME NEW p \in Pieces', NEW q \in Pieces', p[2] = q[2], NEW y \in Nat, Last(p[1]) < y, y < Head(q[1])
       PROVE  Covered(y)'
  <2>1. CASE p \in Pieces /\ q \in Pieces
    BY <1>5, <1>12, <2>1 DEF Sorted
  <2>2. CASE p \in Pieces /\ q = n
    BY <1>1, <1>3, <1>5, <1>7, <1>12, <2>2
  <2>3. CASE p = n
    <3>1. q \in Pieces => Head(q[1]) <= Last(q[1]) /\ Last(q[1]) < a /\ Head(q[1]) \in Nat /\ Last(q[1]) \in Nat
      BY <1>2, <1>7
    <3>2. b - 1 < y BY <1>1, <1>3, <1>12, <2>3
    <3>3. CASE q = n BY <1>1, <1>3, <1>12, <3>2, <3>3
    <3>4. CASE q \in Pieces BY <1>1, <1>12, <3>1, <3>2, <3>4
    <3> QED BY <1>4, <3>3, <3>4
  <2> QED BY <1>4, <2>1, <2>2, <2>3
<1>13. Sorted'
  BY <1>9, <1>11, <1>12 DEF Sorted, Before
<1>14. ASSUME NEW p \in Pieces'
       PROVE  Last(p[1]) < b /\ (p[2] = segment' => \A y \in Nat : Last(p[1]) < y /\ y < b => Covered(y)')
  <2>1. CASE p = n
    BY <1>1, <1>3, <2>1
  <2>2. CASE p \in Pieces
    <3>1. Last(p[1]) < b BY <1>1, <1>2, <1>7, <2>2
    <3>2. ASSUME p[2] = segment', NEW y \in Nat, Last(p[1]) < y, y < b PROVE Covered(y)'
      <4>1. p[2] = segment BY <1>2, <1>7, <2>2, <3>2
      <4>2. CASE y < a BY <1>5, <1>7, <2>2, <3>2, <4>1, <4>2
      <4>3. CASE ~(y < a) BY <1>6, <3>2, <4>3
      <4> QED BY <4>2, <4>3
    <3> QED BY <3>1, <3>2
  <2> QED BY <1>4, <2>1, <2>2
<1>15. Above(b)'
  BY <1>14 DEF Above
<1> QED BY <1>13, <1>15

\* Steps that leave the blocks alone keep the order.
LEMMA SameSorted ==
  ASSUME TypeOK, Sorted, Pieces' = Pieces, next' \in Nat, next <= next', segment' \in {segment, segment + 1}
  PROVE  Sorted' /\ \A a \in Nat : Above(a) => Above(a)'
<1>1. /\ next \in Nat /\ segment \in Nat /\ segment' \in Nat /\ segment <= segment'
      /\ \A p \in Pieces : Last(p[1]) \in Nat /\ p[2] \in Nat /\ p[2] <= segment
  BY PieceTypes DEF Sorted
<1>2. \A y : Covered(y)' <=> Covered(y)
  BY DEF Covered
<1>3. Sorted'
  BY <1>1, <1>2 DEF Sorted, Before
<1>4. ASSUME NEW a \in Nat, Above(a) PROVE Above(a)'
  BY <1>1, <1>2, <1>4 DEF Above
<1> QED BY <1>3, <1>4

\* No block has the lines of one that begins where they end.
LEMMA FreshLines ==
  ASSUME TypeOK, Sorted, NEW a \in Nat, Above(a), NEW rows \in Images, Strip(rows, a), NEW p \in Pieces
  PROVE  p[1] # rows
<1>1. rows \in Seq(Nat) /\ rows # <<>>
  BY DEF Images
<1>2. Head(rows) = a
  BY <1>1, StripEnds
<1>3. Head(p[1]) <= Last(p[1]) /\ Last(p[1]) < a /\ Head(p[1]) \in Nat /\ Last(p[1]) \in Nat
  BY PieceTypes, PieceSpans DEF Above
<1> QED BY <1>2, <1>3

\* A flush adds one block, by a writer or as a discarded tail.
LEMMA FlushPieces ==
  ASSUME TypeOK, Sorted, Single, NEW a \in Nat, Above(a), NEW rows \in Images, Strip(rows, a),
         NEW reason, Flush(rows, reason)
  PROVE  Pieces' = Pieces \cup {<<rows, segment>>} /\ Single'
<1> DEFINE n == <<rows, segment>>
<1>1. \A p \in Pieces : p[1] # rows
  BY FreshLines
<1>2. /\ writes \in Seq(Writers) /\ Len(writes) \in Nat /\ segment \in Nat
      /\ \A i \in 1 .. Len(writes) : PieceOf(writes[i]) \in Pieces /\ writes[i] \in Writers
      /\ \A r \in records : PieceOf(r) \in Pieces /\ r \in Records
      /\ \A p \in Pieces : p \in Recorded \/ \E i \in 1 .. Len(writes) : p = PieceOf(writes[i])
      /\ \A e : PieceOf(e)[1] = e.lines
  BY PieceTypes DEF PieceOf
<1>3. CASE Short(rows, reason)
  <2> DEFINE R == Record(rows, segment, "tail")
  <2>1. records' = records \cup {R} /\ writes' = writes
    BY <1>3 DEF Flush
  <2>2. PieceOf(R) = n /\ R.lines = rows
    BY DEF PieceOf, Record
  <2> HIDE DEF R
  <2>3. Recorded' = Recorded \cup {n}
    BY <2>1, <2>2 DEF Recorded
  <2>4. Pieces' = Pieces \cup {n}
    BY <2>1, <2>3 DEF Pieces
  <2>5. \A r, s \in records' : r.lines = s.lines => r = s
    BY <1>1, <1>2, <2>1, <2>2 DEF Single
  <2>6. \A i \in 1 .. Len(writes) : PieceOf(writes[i]) # n
    BY <1>1, <1>2
  <2>7. Single'
    BY <2>1, <2>3, <2>5, <2>6 DEF Single
  <2> QED BY <2>4, <2>7
<1>4. CASE ~Short(rows, reason)
  <2> DEFINE W == [lines |-> rows, segment |-> segment, state |-> "writing"]
  <2>1. writes' = Append(Pending, W) /\ records' = records
    BY <1>4 DEF Flush
  <2>2. W \in Writers /\ PieceOf(W) = n /\ W.lines = rows /\ W.state = "writing"
    BY <1>2 DEF Writers, PieceOf
  <2>3. Pending \in Seq(Writers)
    BY <1>2, PendingCuts
  <2>4. PICK m \in 0 .. Len(writes) :
              /\ Len(Pending) = Len(writes) - m
              /\ \A i \in 1 .. Len(writes) - m : Pending[i] = writes[m + i]
              /\ \A i \in 1 .. m : writes[i].state = "ok"
    BY <1>2, PendingCuts
  <2> DEFINE k == Len(writes) - m
  <2>5. k \in Nat /\ \A i \in 1 .. k : m + i \in 1 .. Len(writes)
    BY <1>2
  <2> HIDE DEF W
  <2>6. /\ Len(writes') = k + 1 /\ writes'[k + 1] = W
        /\ \A i \in 1 .. k : writes'[i] = writes[m + i]
        /\ writes' \in Seq(Writers)
    <3>1. /\ Append(Pending, W) \in Seq(Writers) /\ Len(Append(Pending, W)) = Len(Pending) + 1
          /\ Append(Pending, W)[Len(Pending) + 1] = W
          /\ \A i \in 1 .. Len(Pending) : Append(Pending, W)[i] = Pending[i]
      BY <2>2, <2>3, AppendProperties
    <3>2. Len(Pending) = k /\ \A i \in 1 .. k : Pending[i] = writes[m + i]
      BY <2>4
    <3> HIDE DEF k
    <3> QED BY <2>1, <3>1, <3>2
  <2>7. \A x : x \in ToSet(writes') <=> \E i \in 1 .. k + 1 : x = writes'[i]
    <3>1. \A x : x \in ToSet(writes') <=> \E i \in 1 .. Len(writes') : x = writes'[i]
      BY <2>6, SetOfSeq
    <3> QED BY <2>6, <3>1
  <2>8. Recorded' = Recorded
    BY <2>1 DEF Recorded
  <2> HIDE DEF n
  <2>9. ASSUME NEW p \in Pieces PROVE p \in Pieces'
    <3>1. CASE p \in Recorded BY <2>8, <3>1 DEF Pieces
    <3>2. CASE \E i \in 1 .. Len(writes) : p = PieceOf(writes[i])
      <4>1. PICK i \in 1 .. Len(writes) : p = PieceOf(writes[i]) BY <3>2
      <4>2. CASE i <= m
        <5>1. writes[i].state = "ok" BY <1>2, <2>4, <4>2
        <5>2. p \in Recorded BY <4>1, <5>1 DEF Single
        <5> QED BY <2>8, <5>2 DEF Pieces
      <4>3. CASE ~(i <= m)
        <5>1. i - m \in 1 .. k /\ m + (i - m) = i BY <1>2, <4>3
        <5>2. i - m \in 1 .. k + 1 BY <2>5, <5>1
        <5>3. writes'[i - m] = writes[i] BY <2>6, <5>1
        <5>4. writes[i] \in ToSet(writes') BY <2>7, <5>2, <5>3
        <5> QED BY <4>1, <5>4 DEF Pieces
      <4> QED BY <4>2, <4>3
    <3> QED BY <1>2, <3>1, <3>2
  <2>10. n \in Pieces'
    <3>1. W \in ToSet(writes') BY <2>5, <2>6, <2>7
    <3> QED BY <2>2, <3>1 DEF Pieces
  <2>11. ASSUME NEW p \in Pieces' PROVE p \in Pieces \/ p = n
    <3>1. CASE p \in Recorded' BY <2>8, <3>1 DEF Pieces
    <3>2. CASE \E w \in ToSet(writes') : p = PieceOf(w)
      <4>1. PICK i \in 1 .. k + 1 : p = PieceOf(writes'[i]) BY <2>7, <3>2
      <4>2. CASE i = k + 1 BY <2>2, <2>6, <4>1, <4>2
      <4>3. CASE i \in 1 .. k BY <1>2, <2>5, <2>6, <4>1, <4>3
      <4> QED BY <2>5, <4>2, <4>3
    <3> QED BY <3>1, <3>2 DEF Pieces
  <2>12. \A i \in 1 .. k : writes[m + i] \in Writers /\ PieceOf(writes[m + i]) \in Pieces /\ writes[m + i].lines # rows
    BY <1>1, <1>2, <2>5
  <2>13. \A i \in 1 .. k + 1 : writes'[i].state = "writing" <=> PieceOf(writes'[i]) \notin Recorded'
    <3> TAKE i \in 1 .. k + 1
    <3>1. CASE i = k + 1
      <4>1. n \notin Recorded BY <1>1, <2>2, <1>2 DEF Pieces, n
      <4> QED BY <2>2, <2>6, <2>8, <3>1, <4>1
    <3>2. CASE i \in 1 .. k
      <4>1. m + i \in 1 .. Len(writes) BY <2>5, <3>2
      <4> QED BY <2>6, <2>8, <3>2, <4>1 DEF Single
    <3> QED BY <2>5, <3>1, <3>2
  <2>14. \A i, j \in 1 .. k + 1 : writes'[i].lines = writes'[j].lines => i = j
    <3> SUFFICES ASSUME NEW i \in 1 .. k + 1, NEW j \in 1 .. k + 1, writes'[i].lines = writes'[j].lines
                 PROVE  i = j
      OBVIOUS
    <3>1. CASE i \in 1 .. k /\ j \in 1 .. k
      <4>1. m + i \in 1 .. Len(writes) /\ m + j \in 1 .. Len(writes) BY <2>5, <3>1
      <4>2. writes[m + i].lines = writes[m + j].lines BY <2>6, <3>1
      <4>3. m + i = m + j BY <4>1, <4>2 DEF Single
      <4> QED BY <1>2, <2>5, <4>3
    <3>2. CASE i = k + 1 /\ j \in 1 .. k BY <2>2, <2>6, <2>12, <3>2
    <3>3. CASE j = k + 1 /\ i \in 1 .. k BY <2>2, <2>6, <2>12, <3>3
    <3>4. CASE i = k + 1 /\ j = k + 1 BY <3>4
    <3> QED BY <2>5, <3>1, <3>2, <3>3, <3>4
  <2>15. Single'
    <3> HIDE DEF k
    <3> QED BY <2>1, <2>6, <2>13, <2>14 DEF Single
  <2> QED BY <2>9, <2>10, <2>11, <2>15 DEF n
<1> QED BY <1>3, <1>4

\* A block that reaches the disk, or does not, is the one its writer had.
LEMMA WritePieces ==
  ASSUME TypeOK, Sorted, Single, Write
  PROVE  Pieces' = Pieces /\ Single'
<1>1. PICK i \in DOMAIN writes, outcome \in {"ok", "failed"} :
        /\ writes[i].state = "writing" /\ writes' = [writes EXCEPT ![i].state = outcome]
        /\ records' = records \cup
             {Record(writes[i].lines, writes[i].segment, IF outcome = "ok" THEN "file" ELSE "lost")}
  BY DEF Write
<1> DEFINE R == Record(writes[i].lines, writes[i].segment, IF outcome = "ok" THEN "file" ELSE "lost")
<1>2. /\ writes \in Seq(Writers) /\ Len(writes) \in Nat
      /\ \A j \in 1 .. Len(writes) : PieceOf(writes[j]) \in Pieces /\ writes[j] \in Writers
      /\ \A r \in records : PieceOf(r) \in Pieces /\ r \in Records
      /\ \A p \in Pieces : p \in Recorded \/ \E j \in 1 .. Len(writes) : p = PieceOf(writes[j])
      /\ \A e : PieceOf(e)[1] = e.lines
  BY PieceTypes DEF PieceOf
<1>3. i \in 1 .. Len(writes) /\ DOMAIN writes = 1 .. Len(writes)
  BY <1>1, <1>2
<1>4. PieceOf(R) = PieceOf(writes[i]) /\ R.lines = writes[i].lines
  BY DEF PieceOf, Record
<1> HIDE DEF R
<1>5. records' = records \cup {R}
  BY <1>1 DEF R
<1>6. /\ Len(writes') = Len(writes) /\ DOMAIN writes' = 1 .. Len(writes)
      /\ \A j \in 1 .. Len(writes) : /\ writes'[j].lines = writes[j].lines /\ writes'[j].segment = writes[j].segment
                                     /\ j # i => writes'[j].state = writes[j].state
      /\ writes'[i].state = outcome
  BY <1>1, <1>2, <1>3 DEF Writers
<1>7. \A j \in 1 .. Len(writes) : PieceOf(writes'[j]) = PieceOf(writes[j])
  BY <1>6 DEF PieceOf
<1>8. Recorded' = Recorded \cup {PieceOf(writes[i])}
  BY <1>4, <1>5 DEF Recorded
<1>9. Pieces' = Pieces
  <2>1. \A w : w \in ToSet(writes') <=> \E j \in 1 .. Len(writes) : w = writes'[j]
    BY <1>6 DEF ToSet
  <2>2. \A w : w \in ToSet(writes) <=> \E j \in 1 .. Len(writes) : w = writes[j]
    BY <1>3 DEF ToSet
  <2>3. {PieceOf(w) : w \in ToSet(writes')} = {PieceOf(w) : w \in ToSet(writes)}
    BY <1>7, <2>1, <2>2
  <2>4. PieceOf(writes[i]) \in {PieceOf(w) : w \in ToSet(writes)}
    BY <1>3, <2>2
  <2> QED BY <1>8, <2>3, <2>4 DEF Pieces
<1>10. \A j \in 1 .. Len(writes) : j # i => PieceOf(writes[j]) # PieceOf(writes[i])
  BY <1>2, <1>3 DEF Single
<1>11. \A r \in records : r.lines # writes[i].lines
  <2> SUFFICES ASSUME NEW r \in records, r.lines = writes[i].lines PROVE FALSE OBVIOUS
  <2> DEFINE p == PieceOf(r) q == PieceOf(writes[i])
  <2>1. p \in Pieces /\ q \in Pieces /\ p[1] = q[1] BY <1>2, <1>3
  <2>2. Head(p[1]) <= Last(p[1]) /\ Head(p[1]) \in Nat /\ Last(p[1]) \in Nat
    BY <2>1, PieceTypes, PieceSpans
  <2>3. p = q \/ Before(p, q) \/ Before(q, p)
    BY <2>1 DEF Sorted
  <2>4. p = q
    BY <2>1, <2>2, <2>3 DEF Before
  <2>5. q \in Recorded
    BY <2>4 DEF Recorded
  <2> QED BY <1>1, <1>3, <2>5 DEF Single
<1>12. \A r, s \in records' : r.lines = s.lines => r = s
  BY <1>4, <1>5, <1>11 DEF Single
<1>13. \A j \in 1 .. Len(writes) : writes'[j].state = "writing" <=> PieceOf(writes'[j]) \notin Recorded'
  <2> TAKE j \in 1 .. Len(writes)
  <2>1. CASE j = i BY <1>1, <1>6, <1>7, <1>8, <2>1
  <2>2. CASE j # i BY <1>6, <1>7, <1>8, <1>10, <2>2 DEF Single
  <2> QED BY <2>1, <2>2
<1>14. \A j, l \in 1 .. Len(writes) : writes'[j].lines = writes'[l].lines => j = l
  BY <1>6 DEF Single
<1>15. Single'
  BY <1>6, <1>12, <1>13, <1>14 DEF Single
<1> QED BY <1>9, <1>15

\* Writers that are done leave their blocks on record.
LEMMA ClearPieces ==
  ASSUME TypeOK, Single, records' = records,
         writes' = writes \/ (writes' = <<>> /\ \A w \in ToSet(writes) : w.state # "writing")
  PROVE  Pieces' = Pieces /\ Single'
<1>1. CASE writes' = writes
  BY <1>1 DEF Pieces, Recorded, Single
<1>2. CASE writes' = <<>> /\ \A w \in ToSet(writes) : w.state # "writing"
  <2>1. /\ writes \in Seq(Writers)
        /\ \A p \in Pieces : p \in Recorded \/ \E i \in 1 .. Len(writes) : p = PieceOf(writes[i])
    BY PieceTypes
  <2>2. \A i \in 1 .. Len(writes) : writes[i] \in ToSet(writes)
    BY <2>1, SetOfSeq
  <2>3. Pieces = Recorded
    BY <1>2, <2>1, <2>2 DEF Single, Pieces
  <2>4. Recorded' = Recorded
    BY DEF Recorded
  <2>5. Pieces' = Recorded'
    BY <1>2, NoLines DEF Pieces
  <2>6. Single'
    BY <1>2, EmptySeq DEF Single
  <2> QED BY <2>3, <2>4, <2>5, <2>6
<1> QED BY <1>1, <1>2

-----------------------------------------------------------------------------
(* The lines that are not in a block yet *)

\* A number e where the queue ends is the next line's, but for what the job that
\* is waited for hands over, or what was lost with a failure.
Meets(e) ==
  ~error => IF busy /\ work.kind = "lines" THEN Strip(job.lines, e) /\ next = e + Len(job.lines) ELSE next = e

\* The jobs of the queue go on from line d without a hole: cut[i] is where job i ends.
Chained(cut, d) ==
  /\ cut[0] = d /\ Meets(cut[Len(queue)])
  /\ \A i \in 0 .. Len(queue) : cut[i] <= next
  /\ \A i \in 1 .. Len(queue) : Strip(queue[i].lines, cut[i - 1]) /\ cut[i] = cut[i - 1] + Len(queue[i].lines)
Queued(d) == \E cut \in [0 .. Len(queue) -> Nat] : Chained(cut, d)

\* The batch, the job at hand and the queue go on from line b.
Fed(b) == \E c, d \in Nat :
  /\ Strip(lines, b) /\ c = b + Len(lines)
  /\ Strip(work.lines, c) /\ d = c + Len(work.lines) /\ Queued(d)

\* The block being filled goes on from line a, where the blocks before it end.
Held(a) == Strip(buffer, a) /\ a + Len(buffer) <= next /\ Above(a)

\* A sampler that is not failing has its lines in order.
Awake == sampler \in {"starting", "waiting", "stopping"}
Order == \E a, b \in Nat : Held(a) /\ b = a + Len(buffer) /\ (Awake => Fed(b))

\* A closing that was answered leaves no line in memory and none to be written.
Settled == reply = "closed" => InFlight = {} /\ writes = <<>>

\* The types of what is not in a block yet.
LEMMA LineTypes ==
  ASSUME TypeOK
  PROVE  /\ buffer \in Seq(Nat) /\ lines \in Seq(Nat) /\ work.lines \in Seq(Nat) /\ job.lines \in Seq(Nat)
         /\ queue \in Seq(Steps) /\ Len(queue) \in Nat /\ (queue = <<>> <=> Len(queue) = 0)
         /\ \A i \in 1 .. Len(queue) : queue[i].lines \in Seq(Nat) /\ Len(queue[i].lines) \in Nat
         /\ Len(buffer) \in Nat /\ Len(lines) \in Nat /\ Len(work.lines) \in Nat /\ Len(job.lines) \in Nat
         /\ next \in Nat /\ segment \in Nat
<1>1. /\ buffer \in Seq(Nat) /\ lines \in Seq(Nat) /\ work.lines \in Seq(Nat) /\ job.lines \in Seq(Nat)
      /\ queue \in Seq(Steps) /\ next \in Nat /\ segment \in Nat
  BY DEF TypeOK, RenderOK, SharedOK, CaptureOK, Jobs
<1>2. Len(buffer) \in Nat /\ Len(lines) \in Nat /\ Len(work.lines) \in Nat /\ Len(job.lines) \in Nat
  BY <1>1, LenProperties
<1>3. Len(queue) \in Nat /\ (queue = <<>> <=> Len(queue) = 0) /\ \A i \in 1 .. Len(queue) : queue[i] \in Steps
  BY <1>1, LenProperties, ElementOfSeq, EmptySeq
<1>4. \A j \in Steps : j.lines \in Seq(Nat)
  BY DEF Steps
<1>5. \A s \in Seq(Nat) : Len(s) \in Nat
  BY LenProperties
<1> QED BY <1>1, <1>2, <1>3, <1>4, <1>5

\* The oldest job leaves the queue.
LEMMA QueuePop ==
  ASSUME TypeOK, NEW d \in Nat, Queued(d), queue # <<>>, queue' = Tail(queue),
         next' = next, error' = error, busy' = busy, job' = job, work.kind = "lines", work'.kind = "lines"
  PROVE  /\ Strip(Head(queue).lines, d) /\ Len(Head(queue).lines) \in Nat /\ Head(queue).lines \in Seq(Nat)
         /\ \E c \in Nat : c = d + Len(Head(queue).lines) /\ Queued(c)'
<1>1. PICK cut \in [0 .. Len(queue) -> Nat] : Chained(cut, d)
  BY DEF Queued
<1>2. /\ queue \in Seq(Steps) /\ Len(queue) \in Nat \ {0} /\ next \in Nat
      /\ \A i \in 1 .. Len(queue) : queue[i].lines \in Seq(Nat) /\ Len(queue[i].lines) \in Nat
  BY LineTypes
<1>3. Head(queue) = queue[1] /\ 1 \in 1 .. Len(queue)
  BY <1>2
<1>4. Strip(Head(queue).lines, d) /\ cut[1] = d + Len(Head(queue).lines)
  <2>1. cut[0] = d /\ Strip(queue[1].lines, cut[1 - 1]) /\ cut[1] = cut[1 - 1] + Len(queue[1].lines)
    BY <1>1, <1>3 DEF Chained
  <2>2. 1 - 1 = 0
    OBVIOUS
  <2>3. Strip(queue[1].lines, cut[0]) /\ cut[1] = cut[0] + Len(queue[1].lines)
    BY <2>1, <2>2
  <2> QED BY <1>3, <2>1, <2>3
<1>5. PICK n \in Nat : n = Len(queue) - 1
  <2>1. Len(queue) - 1 \in Nat
    BY <1>2
  <2> QED BY <2>1
<1>6. Len(queue') = n /\ \A i \in 1 .. n : queue'[i] = queue[i + 1]
  <2>1. Len(Tail(queue)) = n /\ \A i \in 1 .. Len(Tail(queue)) : Tail(queue)[i] = queue[i + 1]
    BY <1>2, <1>5, HeadTailProperties
  <2> QED BY <2>1
<1>7. \A i \in 0 .. n : i + 1 \in 0 .. Len(queue) /\ i + 1 \in 1 .. Len(queue) /\ (i + 1) - 1 = i
  BY <1>2, <1>5
<1>8. PICK to \in [0 .. n -> Nat] : to[0] = cut[1] /\ to[n] = cut[Len(queue)] /\ \A i \in 0 .. n : to[i] = cut[i + 1]
  <2> DEFINE t == [i \in 0 .. n |-> cut[i + 1]]
  <2>1. 0 \in 0 .. n /\ n \in 0 .. n /\ n + 1 = Len(queue) /\ 0 + 1 = 1
    BY <1>2, <1>5
  <2>2. \A i \in 0 .. n : t[i] = cut[i + 1]
    OBVIOUS
  <2>3. t \in [0 .. n -> Nat]
    BY <1>7
  <2> QED BY <2>1, <2>2, <2>3
<1>9. \A i \in 0 .. n : to[i] <= next'
  BY <1>1, <1>7, <1>8 DEF Chained
<1>10. \A i \in 1 .. n : Strip(queue'[i].lines, to[i - 1]) /\ to[i] = to[i - 1] + Len(queue'[i].lines)
  <2> TAKE i \in 1 .. n
  <2>1. i \in 0 .. n /\ i - 1 \in 0 .. n /\ (i - 1) + 1 = i
    BY <1>5
  <2>2. i + 1 \in 1 .. Len(queue) /\ (i + 1) - 1 = i
    BY <1>7, <2>1
  <2>3. Strip(queue[i + 1].lines, cut[i]) /\ cut[i + 1] = cut[i] + Len(queue[i + 1].lines)
    BY <1>1, <2>2 DEF Chained
  <2>4. to[i] = cut[i + 1] /\ to[i - 1] = cut[i] /\ queue'[i] = queue[i + 1]
    BY <1>6, <1>8, <2>1
  <2> QED BY <2>3, <2>4
<1>11. Meets(to[n])'
  <2>1. Meets(cut[Len(queue)])
    BY <1>1 DEF Chained
  <2>2. Meets(to[n])
    BY <1>8, <2>1
  <2> QED BY <2>2 DEF Meets
<1>12. Chained(to, cut[1])'
  BY <1>6, <1>8, <1>9, <1>10, <1>11 DEF Chained
<1>13. Queued(cut[1])'
  BY <1>6, <1>8, <1>12 DEF Queued
<1> QED BY <1>2, <1>3, <1>4, <1>13

\* The lines that fall due go behind the queue.
LEMMA QueuePush ==
  ASSUME TypeOK, NEW d \in Nat, Queued(d), ~error, ~busy, error' = error, busy' = busy, NEW k \in Nat,
         next' = next + k, queue' = Append(queue, [lines |-> Due(k), kind |-> "lines"])
  PROVE  Queued(d)'
<1>1. PICK cut \in [0 .. Len(queue) -> Nat] : Chained(cut, d)
  BY DEF Queued
<1>2. /\ queue \in Seq(Steps) /\ Len(queue) \in Nat /\ next \in Nat
      /\ \A i \in 1 .. Len(queue) : queue[i].lines \in Seq(Nat) /\ Len(queue[i].lines) \in Nat
  BY LineTypes
<1>3. Due(k) \in Seq(Nat) /\ Len(Due(k)) = k /\ Strip(Due(k), next)
  <2>1. Due(k) \in Seq(Nat) /\ Len(Due(k)) = k BY <1>2, DueTypes
  <2>2. \A i \in 1 .. k : Due(k)[i] = next + i - 1 BY DEF Due
  <2> QED BY <2>1, <2>2 DEF Strip
<1>4. cut[Len(queue)] = next /\ cut[0] = d
  BY <1>1 DEF Chained, Meets
<1>0. PICK n \in Nat : n = Len(queue) + 1
  BY <1>2
<1> DEFINE J == [lines |-> Due(k), kind |-> "lines"]
<1>5. J \in Steps /\ J.lines = Due(k)
  BY <1>3 DEF Steps
<1> HIDE DEF J
<1>6. Len(queue') = n /\ queue'[n] = J /\ \A i \in 1 .. Len(queue) : queue'[i] = queue[i]
  <2>1. queue' = Append(queue, J)
    BY DEF J
  <2> QED BY <1>0, <1>2, <1>5, <2>1, AppendProperties
<1>7. PICK to \in [0 .. n -> Nat] : /\ to[n] = next + k /\ n \in 0 .. n /\ 0 \in 0 .. n
                                    /\ \A i \in 0 .. Len(queue) : i \in 0 .. n /\ to[i] = cut[i]
  <2> DEFINE t == [i \in 0 .. n |-> IF i = n THEN next + k ELSE cut[i]]
  <2>1. n \in 0 .. n /\ 0 \in 0 .. n /\ \A i \in 0 .. Len(queue) : i \in 0 .. n /\ i # n
    BY <1>0, <1>2
  <2>2. \A i \in 0 .. n : i # n => i \in 0 .. Len(queue)
    BY <1>0, <1>2
  <2>3. t \in [0 .. n -> Nat]
    BY <1>2, <2>2
  <2> QED BY <2>1, <2>3
<1>8. to[0] = d
  BY <1>2, <1>4, <1>7
<1>9. \A i \in 0 .. n : to[i] <= next'
  <2> TAKE i \in 0 .. n
  <2>1. CASE i = n BY <1>2, <1>7, <2>1
  <2>2. CASE i \in 0 .. Len(queue)
    <3>1. cut[i] <= next /\ cut[i] \in Nat BY <1>1, <2>2 DEF Chained
    <3> QED BY <1>2, <1>7, <2>2, <3>1
  <2> QED BY <1>0, <1>2, <2>1, <2>2
<1>10. \A i \in 1 .. n : Strip(queue'[i].lines, to[i - 1]) /\ to[i] = to[i - 1] + Len(queue'[i].lines)
  <2> TAKE i \in 1 .. n
  <2>1. CASE i = n
    <3>1. i - 1 = Len(queue) /\ Len(queue) \in 0 .. Len(queue) BY <1>0, <1>2, <2>1
    <3>2. to[i - 1] = next BY <1>4, <1>7, <3>1
    <3> QED BY <1>3, <1>5, <1>6, <1>7, <2>1, <3>2
  <2>2. CASE i \in 1 .. Len(queue)
    <3>1. i \in 0 .. Len(queue) /\ i - 1 \in 0 .. Len(queue) BY <1>2, <2>2
    <3>2. Strip(queue[i].lines, cut[i - 1]) /\ cut[i] = cut[i - 1] + Len(queue[i].lines)
      BY <1>1, <2>2 DEF Chained
    <3> QED BY <1>6, <1>7, <2>2, <3>1, <3>2
  <2> QED BY <1>0, <1>2, <2>1, <2>2
<1>11. Meets(to[n])'
  BY <1>7 DEF Meets
<1>12. Chained(to, d)'
  BY <1>6, <1>8, <1>9, <1>10, <1>11 DEF Chained
<1> QED BY <1>6, <1>7, <1>12 DEF Queued

\* A queue that is left alone.
LEMMA QueueStays ==
  ASSUME TypeOK, NEW d \in Nat, Queued(d), queue' = queue, next' \in Nat, next <= next',
         \A e \in Nat : Meets(e) => Meets(e)'
  PROVE  Queued(d)'
<1>1. PICK cut \in [0 .. Len(queue) -> Nat] : Chained(cut, d)
  BY DEF Queued
<1>2. Len(queue) \in Nat /\ next \in Nat /\ Len(queue) \in 0 .. Len(queue)
  BY LineTypes
<1>3. Meets(cut[Len(queue)])'
  BY <1>1, <1>2 DEF Chained
<1>4. \A i \in 0 .. Len(queue) : cut[i] <= next'
  BY <1>1, <1>2 DEF Chained
<1>5. Chained(cut, d)'
  BY <1>1, <1>3, <1>4 DEF Chained
<1> QED BY <1>5 DEF Queued

\* An empty queue.
LEMMA QueueEmpty ==
  ASSUME TypeOK, queue = <<>>
  PROVE  \A d \in Nat : Queued(d) <=> d <= next /\ Meets(d)
<1>1. Len(queue) = 0 /\ next \in Nat
  BY LineTypes
<1>2. ASSUME NEW d \in Nat, Queued(d) PROVE d <= next /\ Meets(d)
  <2>1. PICK cut \in [0 .. Len(queue) -> Nat] : Chained(cut, d)
    BY <1>2 DEF Queued
  <2> QED BY <1>1, <2>1 DEF Chained
<1>3. ASSUME NEW d \in Nat, d <= next, Meets(d) PROVE Queued(d)
  <2> DEFINE cut == [i \in 0 .. Len(queue) |-> d]
  <2>1. cut \in [0 .. Len(queue) -> Nat] /\ \A i \in 0 .. Len(queue) : cut[i] = d
    OBVIOUS
  <2>2. 0 \in 0 .. Len(queue)
    BY <1>1
  <2> HIDE DEF cut
  <2>3. Chained(cut, d)
    BY <1>1, <1>3, <2>1, <2>2 DEF Chained
  <2> QED BY <2>1, <2>3 DEF Queued
<1> QED BY <1>2, <1>3

\* A queue that was emptied.
LEMMA QueueEmptied ==
  ASSUME queue' = <<>>, NEW d \in Nat, d <= next', Meets(d)'
  PROVE  Queued(d)'
<1>1. Len(queue') = 0
  BY EmptySeq
<1>2. PICK cut \in [0 .. 0 -> Nat] : \A i \in 0 .. 0 : cut[i] = d
  <2>1. [i \in 0 .. 0 |-> d] \in [0 .. 0 -> Nat]
    OBVIOUS
  <2> QED BY <2>1
<1>3. cut[0] = d
  BY <1>2
<1>4. Chained(cut, d)'
  BY <1>1, <1>2, <1>3 DEF Chained
<1> QED BY <1>1, <1>2, <1>4 DEF Queued

\* The lines in hand end before the next one.
LEMMA QueueBehind ==
  ASSUME TypeOK, NEW d \in Nat, Queued(d)
  PROVE  d <= next
<1>1. PICK cut \in [0 .. Len(queue) -> Nat] : Chained(cut, d)
  BY DEF Queued
<1>2. 0 \in 0 .. Len(queue)
  BY LineTypes
<1> QED BY <1>1, <1>2 DEF Chained

-----------------------------------------------------------------------------
(* The order is kept by the sampler and the writers *)

\* What a step leaves to be written, in order.
LEMMA Resumes ==
  ASSUME NEW a \in Nat, Held(a)', NEW b \in Nat, b = a + Len(buffer'),
         NEW c \in Nat, NEW d \in Nat,
         Awake' => /\ Strip(lines', b) /\ c = b + Len(lines')
                   /\ Strip(work'.lines, c) /\ d = c + Len(work'.lines) /\ Queued(d)'
  PROVE  Order'
<1>1. Awake' => Fed(b)'
  BY DEF Fed
<1> QED BY <1>1 DEF Order

\* The block being filled grows, no block is finished.
LEMMA KeepHeld ==
  ASSUME TypeOK, Sorted, Single, NEW a \in Nat, Held(a), NEW rows \in Seq(Nat), buffer' = rows,
         Strip(rows, a), a + Len(rows) <= next, UNCHANGED <<writes, records, next, segment>>
  PROVE  Sorted' /\ Single' /\ Held(a)'
<1>1. Pieces' = Pieces /\ Single'
  BY ClearPieces
<1>2. next \in Nat
  BY PieceTypes
<1>3. Sorted' /\ (Above(a) => Above(a)')
  BY <1>1, <1>2, SameSorted
<1> QED BY <1>1, <1>3 DEF Held

\* The block being filled is flushed.
LEMMA FlushHeld ==
  ASSUME TypeOK, Sorted, Single, NEW a \in Nat, Held(a), NEW rows \in Images, NEW reason,
         Strip(rows, a), a + Len(rows) <= next, Flush(rows, reason), next' = next,
         segment' \in {segment, segment + 1}
  PROVE  /\ Sorted' /\ Single' /\ buffer' = <<>>
         /\ \E b \in Nat : b = a + Len(rows) /\ Held(b)'
<1>1. Above(a)
  BY DEF Held
<1>2. Pieces' = Pieces \cup {<<rows, segment>>} /\ Single'
  BY <1>1, FlushPieces
<1>3. Sorted' /\ Above(a + Len(rows))'
  BY <1>1, <1>2, GrowSorted
<1>4. buffer' = <<>>
  BY DEF Flush
<1>5. rows \in Seq(Nat) /\ Len(rows) \in Nat /\ next \in Nat
  BY PieceTypes, LenProperties DEF Images
<1>6. PICK b \in Nat : b = a + Len(rows)
  BY <1>5
<1>7. Strip(<<>>, b) /\ Len(<<>>) = 0
  BY StripEmpty
<1>8. Above(b)'
  BY <1>3, <1>6
<1>9. Held(b)'
  BY <1>4, <1>5, <1>6, <1>7, <1>8 DEF Held
<1> QED BY <1>2, <1>3, <1>4, <1>6, <1>9

\* The order's parts, with a number each.
LEMMA OrderParts ==
  ASSUME TypeOK, Order, Awake
  PROVE  \E a, b, c, d \in Nat :
           /\ Held(a) /\ Strip(buffer, a) /\ b = a + Len(buffer) /\ Strip(lines, b) /\ c = b + Len(lines)
           /\ Strip(work.lines, c) /\ d = c + Len(work.lines) /\ Queued(d) /\ d <= next
<1>1. PICK a, b \in Nat : Held(a) /\ b = a + Len(buffer) /\ Fed(b)
  BY DEF Order
<1>2. PICK c, d \in Nat :
        /\ Strip(lines, b) /\ c = b + Len(lines)
        /\ Strip(work.lines, c) /\ d = c + Len(work.lines) /\ Queued(d)
  BY <1>1 DEF Fed
<1>3. d <= next
  BY <1>2, QueueBehind
<1>4. Strip(buffer, a)
  BY <1>1 DEF Held
<1> QED BY <1>1, <1>2, <1>3, <1>4

\* The order of blocks and lines.
InOrder == Sorted /\ Single /\ Order

\* The sampler takes a job: from the queue first, so that nothing is overtaken.
LEMMA TakeOrder == ASSUME TypeOK, Handshake, InOrder, Take PROVE InOrder'
<1>1. /\ UNCHANGED <<caller, capture, job, busy, error, failed, buffer, segment, disk>>
      /\ sampler = "waiting" /\ work = NoJob
      /\ \/ sampler' = "stopping" /\ UNCHANGED <<work, lines, queue>>
         \/ queue # <<>> /\ work' = Head(queue) /\ queue' = Tail(queue) /\ UNCHANGED <<sampler, lines>>
         \/ sampler' = "failing"
         \/ queue = <<>> /\ busy /\ work' = job /\ UNCHANGED <<sampler, lines, queue>>
  BY DEF Take, To, Throw
<1>2. next' = next /\ UNCHANGED <<writes, records, next, segment>>
  BY <1>1 DEF capture, disk
<1>3. Sorted /\ Single /\ Order /\ Awake
  BY <1>1 DEF InOrder, Awake
<1>4. PICK a \in Nat, b \in Nat, c \in Nat, d \in Nat :
           /\ Held(a) /\ Strip(buffer, a) /\ b = a + Len(buffer) /\ Strip(lines, b) /\ c = b + Len(lines)
           /\ Strip(work.lines, c) /\ d = c + Len(work.lines) /\ Queued(d) /\ d <= next
  BY <1>3, OrderParts
<1>5. /\ buffer \in Seq(Nat) /\ queue \in Seq(Steps) /\ Len(buffer) \in Nat /\ next \in Nat
      /\ job.lines \in Seq(Nat) /\ Len(job.lines) \in Nat
  BY LineTypes
<1>6. a + Len(buffer) <= next
  BY <1>4 DEF Held
<1>7. Sorted' /\ Single' /\ Held(a)'
  BY <1>1, <1>2, <1>3, <1>4, <1>5, <1>6, KeepHeld
<1>8. work.kind = "lines" /\ work.lines = <<>> /\ d = c
  BY <1>1, <1>4, NoLines, StripEmpty
<1>9. CASE sampler' = "stopping" /\ UNCHANGED <<work, lines, queue>>
  <2>1. Queued(d)'
    <3>1. \A e \in Nat : Meets(e) => Meets(e)'
      BY <1>1, <1>2, <1>9 DEF Meets
    <3>2. queue' = queue /\ next' \in Nat /\ next <= next'
      BY <1>2, <1>5, <1>9
    <3> QED BY <1>4, <3>1, <3>2, QueueStays
  <2>2. Order'
    BY <1>1, <1>4, <1>7, <1>9, <2>1, Resumes
  <2> QED BY <1>7, <2>2 DEF InOrder
<1>10. CASE queue # <<>> /\ work' = Head(queue) /\ queue' = Tail(queue) /\ UNCHANGED <<sampler, lines>>
  <2>1. Head(queue).kind = "lines"
    <3>1. Head(queue) \in Steps BY <1>5, <1>10, SetOfTail
    <3> QED BY <3>1 DEF Steps
  <2>2. /\ Strip(Head(queue).lines, d)
        /\ \E e \in Nat : e = d + Len(Head(queue).lines) /\ Queued(e)'
    BY <1>1, <1>2, <1>4, <1>8, <1>10, <2>1, QueuePop
  <2>3. PICK e \in Nat : e = d + Len(Head(queue).lines) /\ Queued(e)'
    BY <2>2
  <2>4. Order'
    BY <1>1, <1>4, <1>7, <1>8, <1>10, <2>2, <2>3, Resumes
  <2> QED BY <1>7, <2>4 DEF InOrder
<1>11. CASE sampler' = "failing"
  <2>1. ~Awake' BY <1>11 DEF Awake
  <2>2. Order' BY <1>1, <1>4, <1>7, <2>1, Resumes
  <2> QED BY <1>7, <2>2 DEF InOrder
<1>12. CASE queue = <<>> /\ busy /\ work' = job /\ UNCHANGED <<sampler, lines, queue>>
  <2>1. Meets(d)
    BY <1>4, <1>12, QueueEmpty
  <2>2. ~error /\ job.kind # "lines"
    BY <1>12 DEF Handshake, Waits
  <2>3. Strip(job.lines, d) /\ next = d + Len(job.lines)
    BY <1>8, <1>12, <2>1, <2>2 DEF Meets
  <2>4. PICK e \in Nat : e = next
    BY <1>5
  <2>5. Meets(e)'
    BY <1>1, <1>2, <1>12, <2>2, <2>4 DEF Meets
  <2>6. Queued(e)'
    BY <1>2, <1>5, <1>12, <2>4, <2>5, QueueEmptied
  <2>7. Order'
    BY <1>1, <1>4, <1>7, <1>8, <1>12, <2>3, <2>4, <2>6, Resumes
  <2> QED BY <1>7, <2>7 DEF InOrder
<1> QED BY <1>1, <1>9, <1>10, <1>11, <1>12

\* A line goes from the job to the batch, the batch to the block, the block to a writer.
LEMMA BatchOrder == ASSUME TypeOK, Handshake, InOrder, Batch PROVE InOrder'
<1>1. /\ UNCHANGED <<caller, capture, shared, segment>>
      /\ sampler = "waiting" /\ work.lines # <<>>
  BY DEF Batch
<1>2. /\ next' = next /\ segment' = segment
      /\ UNCHANGED <<queue, job, busy, error>>
  BY <1>1 DEF capture, shared
<1>3. Sorted /\ Single /\ Order /\ Awake
  BY <1>1 DEF InOrder, Awake
<1>4. PICK a \in Nat, b \in Nat, c \in Nat, d \in Nat :
           /\ Held(a) /\ Strip(buffer, a) /\ b = a + Len(buffer) /\ Strip(lines, b) /\ c = b + Len(lines)
           /\ Strip(work.lines, c) /\ d = c + Len(work.lines) /\ Queued(d) /\ d <= next
  BY <1>3, OrderParts
<1>5. /\ buffer \in Seq(Nat) /\ lines \in Seq(Nat) /\ work.lines \in Seq(Nat) /\ next \in Nat
      /\ Len(buffer) \in Nat /\ Len(lines) \in Nat /\ work \in Jobs
  BY LineTypes DEF TypeOK, RenderOK
<1>6. PICK rest \in Seq(Nat) :
        rest = Tail(work.lines) /\ Head(work.lines) = c /\ Strip(rest, c + 1) /\ d = (c + 1) + Len(rest)
        /\ Len(rest) \in Nat
  <2>1. /\ Head(work.lines) = c /\ Tail(work.lines) \in Seq(Nat) /\ Len(Tail(work.lines)) = Len(work.lines) - 1
        /\ Strip(Tail(work.lines), c + 1) /\ Len(work.lines) \in Nat \ {0}
    BY <1>1, <1>4, <1>5, StripTail
  <2> DEFINE m == Len(work.lines)
             k == Len(Tail(work.lines))
  <2>2. k = m - 1 /\ m \in Nat \ {0} /\ d = c + m
    BY <1>4, <2>1
  <2>3. k \in Nat /\ d = (c + 1) + k
    <3> HIDE DEF m, k
    <3> QED BY <2>2
  <2> QED BY <2>1, <2>3
<1>7. PICK ls \in Seq(Nat) : ls = Append(lines, Head(work.lines)) /\ Strip(ls, b) /\ c + 1 = b + Len(ls)
  <2>1. Append(lines, c) \in Seq(Nat) /\ Len(Append(lines, c)) = Len(lines) + 1 /\ Strip(Append(lines, c), b)
    BY <1>4, <1>5, StripAppend
  <2>2. c + 1 = b + Len(Append(lines, c))
    BY <1>4, <1>5, <2>1
  <2> QED BY <1>6, <2>1, <2>2
<1>8. PICK rows \in Seq(Nat) : rows = buffer \o ls /\ Strip(rows, a) /\ a + Len(rows) = c + 1
  <2>1. buffer \o ls \in Seq(Nat) /\ Len(buffer \o ls) = Len(buffer) + Len(ls) /\ Strip(buffer \o ls, a)
    BY <1>4, <1>5, <1>7, StripJoin
  <2>2. Len(ls) \in Nat
    BY <1>7, LenProperties
  <2>3. a + Len(buffer \o ls) = c + 1
    BY <1>4, <1>5, <1>7, <2>1, <2>2
  <2> QED BY <2>1, <2>3
<1> DEFINE goes == work' = [work EXCEPT !.lines = Tail(@)]
<1>9. \/ goes /\ lines' = ls /\ UNCHANGED <<sampler, buffer, writes, records>>
      \/ Throw /\ (buffer' = buffer \/ buffer' = rows) /\ UNCHANGED <<writes, records>>
      \/ goes /\ lines' = <<>> /\ UNCHANGED sampler /\ Len(rows) = Rows /\ Flush(rows, "full")
      \/ goes /\ lines' = <<>> /\ UNCHANGED sampler /\ buffer' = rows /\ UNCHANGED <<writes, records>>
  BY <1>7, <1>8 DEF Batch
<1>10. goes => work'.lines = rest /\ work'.kind = work.kind
  BY <1>5, <1>6 DEF Jobs
<1> HIDE DEF goes
<1>11. c + 1 <= next /\ a + Len(buffer) <= next /\ c + 1 \in Nat
  <2>1. c + 1 <= next /\ c + 1 \in Nat
    <3> DEFINE k == Len(rest)
    <3>1. k \in Nat /\ d = (c + 1) + k /\ d <= next /\ next \in Nat
      BY <1>4, <1>5, <1>6
    <3> HIDE DEF k
    <3> QED BY <3>1
  <2>2. a + Len(buffer) <= next
    BY <1>4 DEF Held
  <2> QED BY <2>1, <2>2
<1>12. PICK e \in Nat : e = c + 1
  BY <1>11
<1>13. ASSUME goes PROVE Queued(d)'
  <2>1. \A f \in Nat : Meets(f) => Meets(f)'
    BY <1>2, <1>10, <1>13 DEF Meets
  <2>2. next' \in Nat /\ next <= next'
    BY <1>2, <1>5
  <2> QED BY <1>2, <1>4, <2>1, <2>2, QueueStays
<1>14. CASE goes /\ lines' = ls /\ UNCHANGED <<sampler, buffer, writes, records>>
  <2>1. Sorted' /\ Single' /\ Held(a)'
    BY <1>2, <1>3, <1>4, <1>5, <1>11, <1>14, KeepHeld
  <2>2. Order'
    BY <1>4, <1>6, <1>7, <1>10, <1>12, <1>13, <1>14, <2>1, Resumes
  <2> QED BY <2>1, <2>2 DEF InOrder
<1>15. CASE Throw /\ (buffer' = buffer \/ buffer' = rows) /\ UNCHANGED <<writes, records>>
  <2>1. Sorted' /\ Single' /\ Held(a)'
    <3>1. CASE buffer' = buffer
      BY <1>2, <1>3, <1>4, <1>5, <1>11, <1>15, <3>1, KeepHeld
    <3>2. CASE buffer' = rows
      BY <1>2, <1>3, <1>4, <1>5, <1>8, <1>11, <1>15, <3>2, KeepHeld
    <3> QED BY <1>15, <3>1, <3>2
  <2>2. ~Awake'
    BY <1>15 DEF Awake, Throw, To
  <2>3. PICK f \in Nat : f = a + Len(buffer')
    <3>1. Len(rows) \in Nat BY <1>8, LenProperties
    <3> QED BY <1>4, <1>5, <1>8, <1>15, <3>1
  <2>4. Order'
    BY <2>1, <2>2, <2>3, Resumes
  <2> QED BY <2>1, <2>4 DEF InOrder
<1>16. CASE goes /\ lines' = <<>> /\ UNCHANGED sampler /\ Len(rows) = Rows /\ Flush(rows, "full")
  <2>1. rows \in Images
    <3>1. rows # <<>> \/ Len(rows) = 0 BY EmptySeq
    <3> QED BY <1>8, <1>16, <3>1, CameraAssumption DEF Images
  <2>2. /\ Sorted' /\ Single' /\ buffer' = <<>>
        /\ \E f \in Nat : f = a + Len(rows) /\ Held(f)'
    BY <1>2, <1>3, <1>4, <1>8, <1>11, <1>16, <2>1, FlushHeld
  <2>3. Held(e)'
    BY <1>8, <1>12, <2>2
  <2>4. Strip(<<>>, e) /\ Len(<<>>) = 0 /\ e = e + 0
    BY <1>12, StripEmpty
  <2>5. Order'
    BY <1>4, <1>6, <1>10, <1>12, <1>13, <1>16, <2>2, <2>3, <2>4, Resumes
  <2> QED BY <2>2, <2>5 DEF InOrder
<1>17. CASE goes /\ lines' = <<>> /\ UNCHANGED sampler /\ buffer' = rows /\ UNCHANGED <<writes, records>>
  <2>1. Sorted' /\ Single' /\ Held(a)'
    BY <1>2, <1>3, <1>4, <1>8, <1>11, <1>17, KeepHeld
  <2>2. Strip(<<>>, e) /\ Len(<<>>) = 0 /\ e = e + 0
    BY <1>12, StripEmpty
  <2>3. Order'
    BY <1>4, <1>6, <1>8, <1>10, <1>12, <1>13, <1>17, <2>1, <2>2, Resumes
  <2> QED BY <2>1, <2>3 DEF InOrder
<1> QED BY <1>9, <1>14, <1>15, <1>16, <1>17

\* The job that is waited for ends with the last line taken.
LEMMA SettleOrder == ASSUME TypeOK, Handshake, InOrder, Settle PROVE InOrder'
<1>1. /\ UNCHANGED <<caller, capture, queue, job, error, failed>>
      /\ sampler = "waiting" /\ work.lines = <<>> /\ work.kind # "lines"
  BY DEF Settle
<1>2. next' = next
  BY <1>1 DEF capture
<1>3. Sorted /\ Single /\ Order /\ Awake
  BY <1>1 DEF InOrder, Awake
<1>4. PICK a \in Nat, b \in Nat, c \in Nat, d \in Nat :
           /\ Held(a) /\ Strip(buffer, a) /\ b = a + Len(buffer) /\ Strip(lines, b) /\ c = b + Len(lines)
           /\ Strip(work.lines, c) /\ d = c + Len(work.lines) /\ Queued(d) /\ d <= next
  BY <1>3, OrderParts
<1>5. /\ buffer \in Seq(Nat) /\ lines \in Seq(Nat) /\ next \in Nat /\ segment \in Nat
      /\ Len(buffer) \in Nat /\ Len(lines) \in Nat
  BY LineTypes
<1>6. c = next /\ d = next
  <2>1. queue = <<>> /\ busy /\ ~error
    BY <1>1 DEF Handshake
  <2>2. Meets(d)
    BY <1>4, <2>1, QueueEmpty
  <2>3. d = next
    BY <1>1, <2>1, <2>2 DEF Meets
  <2>4. d = c
    BY <1>1, <1>4, StripEmpty
  <2> QED BY <2>3, <2>4
<1>7. PICK rows \in Seq(Nat) : rows = buffer \o lines /\ Strip(rows, a) /\ a + Len(rows) = next
  <2>1. buffer \o lines \in Seq(Nat) /\ Len(buffer \o lines) = Len(buffer) + Len(lines) /\ Strip(buffer \o lines, a)
    BY <1>4, <1>5, StripJoin
  <2>2. a + Len(buffer \o lines) = next
    BY <1>4, <1>5, <1>6, <2>1
  <2> QED BY <2>1, <2>2
<1>8. a + Len(buffer) <= next /\ a + Len(rows) <= next
  BY <1>4, <1>5, <1>7 DEF Held
<1>9. \/ Throw /\ (buffer' = buffer \/ buffer' = rows) /\ UNCHANGED <<segment, writes, records, busy>>
      \/ /\ work' = NoJob /\ lines' = <<>> /\ busy' = FALSE /\ UNCHANGED sampler
         /\ \/ rows # <<>> /\ Flush(rows, "boundary") /\ segment' = segment + 1
            \/ buffer' = rows /\ UNCHANGED <<writes, records>> /\ segment' \in {segment, segment + 1}
  BY <1>7 DEF Settle
<1>10. PICK e \in Nat : e = next
  BY <1>5
<1>11. ASSUME work' = NoJob, busy' = FALSE PROVE Queued(e)' /\ work'.lines = <<>>
  <2>1. \A f \in Nat : Meets(f) => Meets(f)'
    BY <1>1, <1>2, <1>11 DEF Meets
  <2>2. next' \in Nat /\ next <= next' /\ queue' = queue
    BY <1>1, <1>2, <1>5
  <2>3. Queued(e)
    BY <1>4, <1>6, <1>10
  <2> QED BY <1>11, <2>1, <2>2, <2>3, QueueStays, NoLines
<1>12. Strip(<<>>, e) /\ Len(<<>>) = 0 /\ e = e + 0
  BY <1>10, StripEmpty
<1>13. CASE Throw /\ (buffer' = buffer \/ buffer' = rows) /\ UNCHANGED <<segment, writes, records, busy>>
  <2>1. Sorted' /\ Single' /\ Held(a)'
    <3>1. CASE buffer' = buffer
      BY <1>2, <1>3, <1>4, <1>5, <1>8, <1>13, <3>1, KeepHeld
    <3>2. CASE buffer' = rows
      BY <1>2, <1>3, <1>4, <1>5, <1>7, <1>8, <1>13, <3>2, KeepHeld
    <3> QED BY <1>13, <3>1, <3>2
  <2>2. ~Awake'
    BY <1>13 DEF Awake, Throw, To
  <2>3. PICK f \in Nat : f = a + Len(buffer')
    <3>1. Len(rows) \in Nat BY <1>7, LenProperties
    <3> QED BY <1>4, <1>5, <1>13, <3>1
  <2>4. Order'
    BY <2>1, <2>2, <2>3, Resumes
  <2> QED BY <2>1, <2>4 DEF InOrder
<1>14. CASE /\ work' = NoJob /\ lines' = <<>> /\ busy' = FALSE /\ UNCHANGED sampler
            /\ rows # <<>> /\ Flush(rows, "boundary") /\ segment' = segment + 1
  <2>1. rows \in Images
    BY <1>7, <1>14 DEF Images
  <2>2. /\ Sorted' /\ Single' /\ buffer' = <<>>
        /\ \E f \in Nat : f = a + Len(rows) /\ Held(f)'
    BY <1>2, <1>3, <1>4, <1>7, <1>8, <1>14, <2>1, FlushHeld
  <2>3. Held(e)'
    BY <1>7, <1>10, <2>2
  <2>4. Order'
    BY <1>11, <1>12, <1>14, <2>2, <2>3, Resumes
  <2> QED BY <2>2, <2>4 DEF InOrder
<1>15. CASE /\ work' = NoJob /\ lines' = <<>> /\ busy' = FALSE /\ UNCHANGED sampler
            /\ buffer' = rows /\ UNCHANGED <<writes, records>> /\ segment' \in {segment, segment + 1}
  <2>1. Pieces' = Pieces /\ Single'
    BY <1>3, <1>15, ClearPieces
  <2>2. Sorted' /\ (Above(a) => Above(a)')
    BY <1>2, <1>3, <1>5, <1>15, <2>1, SameSorted
  <2>3. Held(a)'
    BY <1>2, <1>4, <1>7, <1>8, <1>15, <2>2 DEF Held
  <2>4. Order'
    BY <1>7, <1>10, <1>11, <1>12, <1>15, <2>3, Resumes
  <2> QED BY <2>1, <2>2, <2>4 DEF InOrder
<1> QED BY <1>9, <1>13, <1>14, <1>15

\* The sampler's steps after a failure, and the writers'.
LEMMA StopOrder == ASSUME TypeOK, Handshake, InOrder, Stop PROVE InOrder'
<1>1. /\ UNCHANGED <<writes, records, next, segment>>
      /\ sampler = "stopping" /\ sampler' = "failing"
      /\ buffer' = buffer \/ buffer' = buffer \o lines
  BY DEF Stop, To, capture, disk
<1>2. Sorted /\ Single /\ Order /\ Awake /\ ~Awake'
  BY <1>1 DEF InOrder, Awake
<1>3. PICK a \in Nat, b \in Nat, c \in Nat, d \in Nat :
           /\ Held(a) /\ Strip(buffer, a) /\ b = a + Len(buffer) /\ Strip(lines, b) /\ c = b + Len(lines)
           /\ Strip(work.lines, c) /\ d = c + Len(work.lines) /\ Queued(d) /\ d <= next
  BY <1>2, OrderParts
<1>4. /\ buffer \in Seq(Nat) /\ lines \in Seq(Nat) /\ next \in Nat
      /\ Len(buffer) \in Nat /\ Len(lines) \in Nat /\ Len(work.lines) \in Nat
  BY LineTypes
<1>5. PICK rows \in Seq(Nat) : rows = buffer \o lines /\ Strip(rows, a) /\ a + Len(rows) = c
  <2>1. buffer \o lines \in Seq(Nat) /\ Len(buffer \o lines) = Len(buffer) + Len(lines) /\ Strip(buffer \o lines, a)
    BY <1>3, <1>4, StripJoin
  <2>2. a + Len(buffer \o lines) = c
    BY <1>3, <1>4, <2>1
  <2> QED BY <2>1, <2>2
<1>6. a + Len(buffer) <= next /\ a + Len(rows) <= next
  <2> DEFINE k == Len(work.lines)
  <2>1. k \in Nat /\ d = c + k /\ d <= next /\ next \in Nat BY <1>3, <1>4
  <2>2. c <= next
    <3> HIDE DEF k
    <3> QED BY <2>1
  <2>3. a + Len(rows) <= next BY <1>5, <2>2
  <2> QED BY <1>3, <2>3 DEF Held
<1>7. Sorted' /\ Single' /\ Held(a)'
  <2>1. CASE buffer' = buffer
    BY <1>1, <1>2, <1>3, <1>4, <1>6, <2>1, KeepHeld
  <2>2. CASE buffer' = rows
    BY <1>1, <1>2, <1>3, <1>4, <1>5, <1>6, <2>2, KeepHeld
  <2> QED BY <1>1, <1>5, <2>1, <2>2
<1>8. PICK f \in Nat : f = a + Len(buffer')
  <2>1. Len(rows) \in Nat BY <1>5, LenProperties
  <2> QED BY <1>1, <1>4, <1>5, <2>1
<1>9. Order'
  BY <1>2, <1>7, <1>8, Resumes
<1> QED BY <1>7, <1>9 DEF InOrder

\* The block of a failing sampler is the last of what it had in order.
LEMMA BuryOrder == ASSUME TypeOK, Handshake, InOrder, Bury PROVE InOrder'
<1>1. /\ next' = next /\ segment' = segment /\ sampler' \in {"closing", "exited"}
      /\ \/ buffer # <<>> /\ Flush(buffer, "sampling_failure")
         \/ UNCHANGED <<buffer, writes, records>>
  BY DEF Bury, To, Exit, capture
<1>2. Sorted /\ Single /\ Order /\ ~Awake'
  BY <1>1 DEF InOrder, Awake
<1>3. PICK a \in Nat : Held(a)
  BY <1>2 DEF Order
<1>4. buffer \in Seq(Nat) /\ Len(buffer) \in Nat
  BY LineTypes
<1>5. Strip(buffer, a) /\ a + Len(buffer) <= next
  BY <1>3 DEF Held
<1>6. PICK rows \in Seq(Nat) : rows = buffer
  BY <1>4
<1>7. CASE buffer # <<>> /\ Flush(buffer, "sampling_failure")
  <2>1. rows \in Images /\ Flush(rows, "sampling_failure")
    BY <1>6, <1>7 DEF Images
  <2>2. /\ Sorted' /\ Single' /\ buffer' = <<>>
        /\ \E f \in Nat : f = a + Len(rows) /\ Held(f)'
    BY <1>1, <1>2, <1>3, <1>5, <1>6, <2>1, FlushHeld
  <2>3. PICK f \in Nat : Held(f)'
    BY <2>2
  <2>4. f = f + Len(buffer')
    BY <2>2, StripEmpty
  <2>5. Order'
    BY <1>2, <2>3, <2>4, Resumes
  <2> QED BY <2>2, <2>5 DEF InOrder
<1>8. CASE UNCHANGED <<buffer, writes, records>>
  <2>1. Sorted' /\ Single' /\ Held(a)'
    BY <1>1, <1>2, <1>3, <1>5, <1>6, <1>8, KeepHeld
  <2>2. PICK f \in Nat : f = a + Len(buffer')
    BY <1>4, <1>8
  <2>3. Order'
    BY <1>2, <2>1, <2>2, Resumes
  <2> QED BY <2>1, <2>3 DEF InOrder
<1> QED BY <1>1, <1>7, <1>8

\* Steps that leave the lines where they are.
LEMMA IdleOrder ==
  ASSUME TypeOK, InOrder, UNCHANGED <<buffer, lines, segment>>, work' = work, next' \in Nat, next <= next',
         Pieces' = Pieces, Single', Awake' => Awake, \A d \in Nat : Awake' /\ Queued(d) => Queued(d)'
  PROVE  InOrder'
<1>1. Sorted /\ Single /\ Order
  BY DEF InOrder
<1>2. PICK a \in Nat, b \in Nat : Held(a) /\ b = a + Len(buffer) /\ (Awake => Fed(b))
  BY <1>1 DEF Order
<1>3. next \in Nat /\ segment \in Nat /\ Len(buffer) \in Nat
  BY LineTypes
<1>4. Sorted' /\ (Above(a) => Above(a)')
  BY <1>1, <1>3, SameSorted
<1>5. Held(a)'
  BY <1>2, <1>3, <1>4 DEF Held
<1>6. CASE Awake'
  <2>1. PICK c \in Nat, d \in Nat :
          /\ Strip(lines, b) /\ c = b + Len(lines)
          /\ Strip(work.lines, c) /\ d = c + Len(work.lines) /\ Queued(d)
    BY <1>2, <1>6 DEF Fed
  <2>2. Queued(d)'
    BY <1>6, <2>1
  <2>3. Order'
    BY <1>2, <1>5, <2>1, <2>2, Resumes
  <2> QED BY <1>4, <2>3 DEF InOrder
<1>7. CASE ~Awake'
  <2>1. Order'
    BY <1>2, <1>5, <1>7, Resumes
  <2> QED BY <1>4, <2>1 DEF InOrder
<1> QED BY <1>6, <1>7

\* A sampler that leaves forgets writers that are done.
LEMMA LeaveOrder == ASSUME TypeOK, Handshake, InOrder, Leave PROVE InOrder'
<1>1. /\ UNCHANGED <<buffer, lines, segment, next, records>> /\ work' = work /\ sampler' = "exited"
      /\ writes' = writes \/ (writes' = <<>> /\ \A w \in ToSet(writes) : w.state # "writing")
  BY DEF Leave, To, Exit, capture
<1>2. ~Awake'
  BY <1>1 DEF Awake
<1>3. Single
  BY DEF InOrder
<1>4. Pieces' = Pieces /\ Single'
  BY <1>1, <1>3, ClearPieces
<1>5. next \in Nat
  BY PieceTypes
<1> QED BY <1>1, <1>2, <1>4, <1>5, IdleOrder

\* A new sampler begins where the old one left off.
LEMMA StartUpOrder == ASSUME TypeOK, Handshake, InOrder, StartUp PROVE InOrder'
<1>1. /\ UNCHANGED <<buffer, lines, segment, next, queue, job, writes, records>> /\ work' = work
      /\ sampler = "starting"
      /\ UNCHANGED <<error, busy>> \/ sampler' = "exited"
  BY DEF StartUp, To, Exit, capture, disk
<1>2. Single /\ Awake
  BY <1>1 DEF InOrder, Awake
<1>3. Pieces' = Pieces /\ Single'
  BY <1>1, <1>2, ClearPieces
<1>4. next \in Nat
  BY PieceTypes
<1>5. ASSUME Awake', NEW d \in Nat, Queued(d) PROVE Queued(d)'
  <2>1. UNCHANGED <<error, busy>>
    BY <1>1, <1>5 DEF Awake
  <2>2. \A f \in Nat : Meets(f) => Meets(f)'
    BY <1>1, <2>1 DEF Meets
  <2>3. queue' = queue /\ next' \in Nat /\ next <= next'
    BY <1>1, <1>4
  <2> QED BY <1>5, <2>2, <2>3, QueueStays
<1> QED BY <1>1, <1>2, <1>3, <1>4, <1>5, IdleOrder

\* A writer moves no line.
LEMMA WriteOrder == ASSUME TypeOK, Handshake, InOrder, Write PROVE InOrder'
<1>1. /\ UNCHANGED <<buffer, lines, segment, next, queue, job, error, busy, sampler>> /\ work' = work
  BY DEF Write, capture, shared, render
<1>2. Sorted /\ Single
  BY DEF InOrder
<1>3. Pieces' = Pieces /\ Single'
  BY <1>2, WritePieces
<1>4. next \in Nat
  BY PieceTypes
<1>5. ASSUME NEW d \in Nat, Queued(d) PROVE Queued(d)'
  <2>1. \A f \in Nat : Meets(f) => Meets(f)'
    BY <1>1 DEF Meets
  <2>2. queue' = queue /\ next' \in Nat /\ next <= next'
    BY <1>1, <1>4
  <2> QED BY <1>5, <2>1, <2>2, QueueStays
<1>6. Awake' => Awake
  BY <1>1 DEF Awake
<1> QED BY <1>1, <1>3, <1>4, <1>5, <1>6, IdleOrder

\* The sampler and the writers keep the order.
LEMMA SamplerOrder == ASSUME TypeOK, Handshake, InOrder, Sampler \/ Write PROVE InOrder'
BY TakeOrder, BatchOrder, SettleOrder, StopOrder, BuryOrder, LeaveOrder, StartUpOrder, WriteOrder DEF Sampler

-----------------------------------------------------------------------------
(* The order is kept by the physics thread *)

\* What it takes goes behind the queue or into the job that is waited for.
LEMMA PhysicsQueue ==
  ASSUME TypeOK, Handshake, Physics, ~Recover
  PROVE  next' \in Nat /\ next <= next' /\ \A d \in Nat : Queued(d) => Queued(d)'
<1>1. next \in Nat
  BY LineTypes
<1>2. UNCHANGED render
  BY DEF Physics, Begin, Serve, Restarted, Toggle, Toggled, Warm, Warmed, Drain, Exposed, Boundary, Bounded, Quiet
<1>3. work' = work
  BY <1>2 DEF render
<1>4. ASSUME queue' = queue, next' = next, \A e \in Nat : Meets(e) => Meets(e)'
      PROVE  next' \in Nat /\ next <= next' /\ \A d \in Nat : Queued(d) => Queued(d)'
  BY <1>1, <1>4, QueueStays
<1>5. CASE Begin \/ Serve \/ Restarted \/ Toggled \/ Warmed \/ Drain \/ Bounded \/ Quiet
  <2>1. UNCHANGED <<next, queue, job, busy, error>>
    BY <1>5 DEF Begin, Serve, Restarted, Toggled, Warmed, Drain, Bounded, Quiet, capture, shared
  <2>2. \A e \in Nat : Meets(e) => Meets(e)'
    BY <1>3, <2>1 DEF Meets
  <2> QED BY <1>4, <2>1, <2>2
<1>6. CASE Toggle \/ Warm
  <2>1. UNCHANGED <<next, queue>> /\ pc \in {"toggle", "warm"}
        /\ \/ UNCHANGED <<job, busy, error>>
           \/ ~error /\ job'.lines = <<>> /\ error' = error
    BY <1>6 DEF Toggle, Warm, Hand, capture, shared
  <2>2. ~busy
    BY <2>1 DEF Handshake, Waits
  <2>3. ASSUME NEW e \in Nat, Meets(e) PROVE Meets(e)'
    <3>1. CASE UNCHANGED <<job, busy, error>>
      BY <1>3, <2>1, <2>3, <3>1 DEF Meets
    <3>2. CASE ~error /\ job'.lines = <<>> /\ error' = error
      <4>1. next = e
        BY <2>2, <2>3, <3>2 DEF Meets
      <4>2. Strip(<<>>, e) /\ Len(<<>>) = 0 /\ e = e + 0
        BY StripEmpty
      <4> QED BY <2>1, <3>2, <4>1, <4>2 DEF Meets
    <3> QED BY <2>1, <3>1, <3>2
  <2> QED BY <1>4, <2>1, <2>3
<1>7. CASE Exposed
  <2>1. PICK k \in 1 .. StepLines : next' = next + k /\ Enqueue(Due(k), next + k)
    BY <1>7 DEF Exposed
  <2>2. k \in Nat /\ next + k \in Nat /\ next <= next + k
    BY <1>1, CameraAssumption
  <2>3. ~busy
    BY <1>7 DEF Exposed, Handshake, Waits
  <2>4. CASE error' = TRUE /\ queue' = queue
    <3>1. \A e \in Nat : Meets(e) => Meets(e)'
      BY <2>4 DEF Meets
    <3> QED BY <2>1, <2>2, <2>4, <3>1, QueueStays
  <2>5. CASE ~error /\ queue' = Append(queue, [lines |-> Due(k), kind |-> "lines"]) /\ UNCHANGED <<busy, error>>
    BY <2>1, <2>2, <2>3, <2>5, QueuePush
  <2> QED BY <2>1, <2>4, <2>5 DEF Enqueue
<1>8. CASE Boundary
  <2>1. PICK k \in 0 .. StepLines, kind \in {"hold", "end"} :
          /\ next' = next + k
          /\ IF error THEN UNCHANGED <<queue, job, busy, error>>
             ELSE job' = [lines |-> Due(k), kind |-> kind] /\ UNCHANGED <<queue, error>>
    BY <1>8 DEF Boundary
  <2>2. k \in Nat /\ next + k \in Nat /\ next <= next + k
    BY <1>1, CameraAssumption
  <2>3. ~busy /\ work.kind = "lines"
    BY <1>8 DEF Boundary, Handshake, Waits
  <2>4. Strip(Due(k), next) /\ Len(Due(k)) = k
    <3>1. \A i \in 1 .. k : Due(k)[i] = next + i - 1 BY DEF Due
    <3>2. Len(Due(k)) = k BY <1>1, <2>2, DueTypes
    <3> QED BY <3>1, <3>2 DEF Strip
  <2>5. ASSUME NEW e \in Nat, Meets(e) PROVE Meets(e)'
    <3>1. CASE error
      BY <2>1, <3>1 DEF Meets
    <3>2. CASE ~error
      <4>1. next = e
        BY <2>3, <2>5, <3>2 DEF Meets
      <4>2. job'.lines = Due(k) /\ error' = error
        BY <2>1, <3>2
      <4>3. Strip(job'.lines, e) /\ next' = e + Len(job'.lines)
        BY <2>1, <2>4, <4>1, <4>2
      <4>4. busy'
        BY <1>8, <3>2 DEF Boundary
      <4> QED BY <1>3, <2>3, <4>3, <4>4 DEF Meets
    <3> QED BY <3>1, <3>2
  <2>6. queue' = queue
    BY <2>1
  <2> QED BY <2>1, <2>2, <2>5, <2>6, QueueStays
<1> QED BY <1>5, <1>6, <1>7, <1>8 DEF Physics

\* A sampler that is replaced has nothing, and begins with the next line.
LEMMA RecoverOrder == ASSUME TypeOK, Handshake, InOrder, Recover PROVE InOrder'
<1>1. /\ UNCHANGED <<next, records>> /\ segment' = segment + 1
      /\ writes' = <<>> /\ \A w \in ToSet(writes) : w.state # "writing"
      /\ queue' = <<>> /\ ~busy' /\ ~error' /\ buffer' = <<>> /\ lines' = <<>> /\ work' = NoJob
  BY DEF Recover, capture
<1>2. Sorted /\ Single
  BY DEF InOrder
<1>3. /\ next \in Nat /\ segment \in Nat
      /\ \A p \in Pieces : p[2] \in Nat /\ p[2] <= segment /\ Last(p[1]) < next
  BY <1>2, PieceTypes DEF Sorted
<1>4. Pieces' = Pieces /\ Single'
  BY <1>1, <1>2, ClearPieces
<1>5. Sorted'
  BY <1>1, <1>2, <1>3, <1>4, SameSorted
<1>6. PICK a \in Nat : a = next
  BY <1>3
<1>7. Strip(<<>>, a) /\ Len(<<>>) = 0 /\ a = a + 0
  BY <1>6, StripEmpty
<1>8. Above(a)'
  BY <1>1, <1>3, <1>4, <1>6 DEF Above
<1>9. Held(a)'
  BY <1>1, <1>6, <1>7, <1>8 DEF Held
<1>10. Meets(a)'
  BY <1>1, <1>6 DEF Meets
<1>11. Queued(a)'
  BY <1>1, <1>3, <1>6, <1>10, QueueEmptied
<1>12. Order'
  BY <1>1, <1>7, <1>9, <1>11, NoLines, Resumes
<1> QED BY <1>4, <1>5, <1>12 DEF InOrder

\* The physics thread keeps the order.
LEMMA PhysicsOrder == ASSUME TypeOK, Handshake, InOrder, Physics PROVE InOrder'
<1>1. CASE Recover
  BY <1>1, RecoverOrder
<1>2. CASE ~Recover
  <2>1. UNCHANGED <<buffer, lines, segment, sampler>> /\ work' = work
    <3>1. UNCHANGED render
      BY <1>2 DEF Physics, Begin, Serve, Restarted, Toggle, Toggled, Warm, Warmed, Drain, Exposed, Boundary,
         Bounded, Quiet
    <3> QED BY <3>1 DEF render
  <2>2. records' = records /\ (writes' = writes \/ (writes' = <<>> /\ \A w \in ToSet(writes) : w.state = "ok"))
    <3>1. records' = records /\ (writes' = writes \/ (writes' = <<>> /\ Drain))
      BY <1>2, PhysicsWrites
    <3> QED BY <3>1 DEF Drain
  <2>3. Pieces' = Pieces /\ Single'
    BY <2>2, ClearPieces DEF InOrder
  <2>4. Awake' => Awake
    BY <2>1 DEF Awake
  <2>5. next' \in Nat /\ next <= next' /\ \A d \in Nat : Queued(d) => Queued(d)'
    BY <1>2, PhysicsQueue
  <2> QED BY <2>1, <2>3, <2>4, <2>5, IdleOrder
<1> QED BY <1>1, <1>2

-----------------------------------------------------------------------------
(* A closing that was answered *)

\* A closing that was answered leaves the sampler no line to flush.
LEMMA SamplerSettled == ASSUME TypeOK, Settled, Moves, Sampler \/ Write PROVE Settled'
<1> SUFFICES ASSUME reply' = "closed" PROVE InFlight' = {} /\ writes' = <<>>
  BY DEF Settled
<1>1. InFlight = {} /\ writes = <<>>
  BY DEF Moves, caller, Settled
<1>2. InFlight' = {}
  BY <1>1 DEF Moves, Carries
<1>3. buffer = <<>> /\ lines = <<>> /\ work.lines = <<>>
  <2>1. \A t \in {buffer, lines, work.lines} : t \in Seq(Nat) /\ ToSet(t) = {}
    BY <1>1, LineTypes DEF InFlight
  <2> QED BY <2>1, SetOfSeq
<1>4. writes' = writes
  <2>1. buffer \o lines = <<>>
    BY <1>3, EmptySeq
  <2>2. CASE Batch
    BY <1>3, <2>2 DEF Batch
  <2>3. CASE Settle
    BY <2>1, <2>3 DEF Settle
  <2>4. CASE Bury
    BY <1>3, <2>4 DEF Bury
  <2>5. CASE Leave
    BY <1>1, <2>5 DEF Leave
  <2>6. CASE Write
    BY <1>1, <2>6, EmptySeq DEF Write
  <2>7. CASE Take \/ Stop \/ StartUp
    BY <2>7 DEF Take, Stop, StartUp, disk
  <2> QED BY <2>2, <2>3, <2>4, <2>5, <2>6, <2>7 DEF Sampler
<1> QED BY <1>1, <1>2, <1>4

\* The answer comes when the toggle has left nothing behind, and a camera that
\* is closed takes no line.
LEMMA PhysicsSettled == ASSUME TypeOK, Handshake, Clean, Closed, Settled, Physics PROVE Settled'
<1> SUFFICES ASSUME reply' = "closed" PROVE InFlight' = {} /\ writes' = <<>>
  BY DEF Settled
<1>1. CASE reply = "closed"
  <2>1. InFlight = {} /\ writes = <<>> /\ ~enabled /\ pc \in {"begin", "sample", "bounded"}
    BY <1>1 DEF Closed, Settled
  <2>2. Begin \/ Quiet \/ Bounded \/ Boundary
    BY <2>1 DEF Physics, Serve, Recover, Restarted, Toggle, Toggled, Warm, Warmed, Drain, Exposed
  <2>3. UNCHANGED <<render, disk, queue>>
    BY <2>2 DEF Begin, Quiet, Bounded, Boundary, shared
  <2>4. UNCHANGED <<job, busy>> \/ ToSet(job'.lines) = {}
    <3>1. CASE Begin \/ Quiet \/ Bounded
      BY <3>1 DEF Begin, Quiet, Bounded, shared
    <3>2. CASE Boundary
      <4>1. UNCHANGED <<job, busy>> \/ job'.lines = Due(0)
        BY <2>1, <3>2 DEF Boundary
      <4>2. ToSet(Due(0)) = {}
        <5>1. ToSet(Due(0)) = next .. next + 0 - 1
          BY LineTypes, DueTypes
        <5> QED BY <5>1, LineTypes
      <4> QED BY <4>1, <4>2
    <3> QED BY <2>2, <3>1, <3>2
  <2>5. InHand' = {}
    BY <2>1, <2>3, <2>4 DEF InHand, InFlight, render
  <2> QED BY <2>1, <2>3, <2>5 DEF InFlight, render, disk
<1>2. CASE reply # "closed"
  <2>1. Drain /\ writes' = <<>>
    <3> USE <1>2 DEF Goto, Answer
    <3>1. ~(Begin \/ Serve \/ Recover \/ Restarted \/ Quiet)
      BY DEF Begin, Serve, Recover, Restarted, Quiet
    <3>2. ~(Toggle \/ Toggled \/ Warm \/ Warmed \/ Bounded)
      BY DEF Toggle, Toggled, Warm, Warmed, Bounded, Hand
    <3>3. ~(Exposed \/ Boundary)
      BY DEF Exposed, Boundary
    <3>4. Drain
      BY <3>1, <3>2, <3>3 DEF Physics
    <3> QED BY <3>4 DEF Drain
  <2>2. pc = "drain" /\ UNCHANGED shared /\ UNCHANGED render
    BY <2>1 DEF Drain
  <2>3. InFlight = {}
    BY <2>2 DEF Clean
  <2>4. InFlight' = InFlight
    BY <2>2 DEF InFlight, InHand, shared, render
  <2> QED BY <2>1, <2>3, <2>4
<1> QED BY <1>1, <1>2

-----------------------------------------------------------------------------
(* What a reader is given *)

\* A block as the reader sees it.
Seen(t) == [segment |-> t.segment, first |-> Head(t.lines), rows |-> Len(t.lines), discarded |-> t.kind = "tail"]

\* Its fields.
LEMMA SeenFields ==
  ASSUME NEW t
  PROVE  /\ Seen(t).segment = t.segment /\ Seen(t).first = Head(t.lines) /\ Seen(t).rows = Len(t.lines)
         /\ Seen(t).discarded <=> t.kind = "tail"
<1>1. Seen(t).segment = t.segment /\ Seen(t).first = Head(t.lines) /\ Seen(t).rows = Len(t.lines)
  BY Zenon DEF Seen
<1>2. Seen(t).discarded <=> t.kind = "tail"
  BY Zenon DEF Seen
<1> QED BY <1>1, <1>2

\* The session is the records, seen so.
LEMMA SessionSeen == Session = {Seen(t) : t \in records}
BY Zenon DEF Session, Seen

\* The order of the blocks is what the reader asks for.
LEMMA ClosedReads == ASSUME TypeOK, Sorted, Single, Settled, Closed PROVE SessionIsReadable
<1>1. ASSUME NEW r \in records PROVE r.lines = [i \in DOMAIN r.lines |-> r.lines[1] + i - 1]
  <2> DEFINE s == r.lines
  <2>1. PieceOf(r) \in Pieces /\ PieceOf(r)[1] = s
    BY PieceTypes DEF PieceOf
  <2>2. s \in Seq(Nat) /\ s # <<>> /\ Strip(s, Head(s))
    BY <2>1, PieceTypes DEF Sorted
  <2> HIDE DEF s
  <2>3. DOMAIN s = 1 .. Len(s) /\ Head(s) = s[1] /\ s = [i \in DOMAIN s |-> s[i]]
    BY <2>2
  <2>4. \A i \in DOMAIN s : s[i] = s[1] + i - 1
    BY <2>2, <2>3 DEF Strip
  <2>5. s = [i \in DOMAIN s |-> s[1] + i - 1]
    BY <2>3, <2>4
  <2> QED BY <2>5 DEF s
<1>2. ASSUME reply = "closed", NEW v \in Neighbours(Session)
      PROVE  \/ Archive!Follows(v[1], v[2])
             \/ /\ v[1].discarded \/ v[2].discarded
                /\ v[1].segment <= v[2].segment
                /\ Hole(v) # {} /\ Hole(v) \subseteq reported
  <2>1. PICK r \in records, s \in records : v[1] = Seen(r) /\ v[2] = Seen(s)
    BY SessionSeen DEF Neighbours
  <2>2. /\ v[1] # v[2] /\ Head(r.lines) <= Head(s.lines)
        /\ \A t \in records : Head(t.lines) <= Head(r.lines) \/ Head(s.lines) <= Head(t.lines)
    <3>1. /\ v[1] # v[2] /\ v[1].first <= v[2].first
          /\ \A b \in Session : b.first <= v[1].first \/ v[2].first <= b.first
      BY DEF Neighbours
    <3>2. \A t \in records : \E b \in Session : b.first = Head(t.lines)
      BY SessionSeen, SeenFields
    <3> QED BY <2>1, <3>1, <3>2, SeenFields
  <2> DEFINE p == PieceOf(r)
             q == PieceOf(s)
  <2>3. /\ p \in Pieces /\ q \in Pieces /\ p[1] = r.lines /\ q[1] = s.lines /\ p[2] = r.segment /\ q[2] = s.segment
    BY PieceTypes DEF PieceOf
  <2> HIDE DEF p, q
  <2>4. /\ Head(p[1]) \in Nat /\ Last(p[1]) \in Nat /\ Head(p[1]) <= Last(p[1]) /\ p[2] \in Nat
        /\ Head(q[1]) \in Nat /\ Last(q[1]) \in Nat /\ Head(q[1]) <= Last(q[1]) /\ q[2] \in Nat
        /\ Last(q[1]) < next /\ next \in Nat
    BY <2>3, PieceTypes, PieceSpans DEF Sorted
  <2>5. Before(p, q)
    <3>1. p # q
      BY <2>1, <2>2, <2>3 DEF Single
    <3>2. ~Before(q, p)
      BY <2>2, <2>3, <2>4 DEF Before
    <3> QED BY <2>3, <3>1, <3>2 DEF Sorted
  <2>6. Len(p[1]) \in Nat /\ Last(p[1]) = Head(p[1]) + Len(p[1]) - 1
    <3>1. p[1] \in Seq(Nat) /\ p[1] # <<>> /\ Strip(p[1], Head(p[1]))
      BY <2>3, PieceTypes DEF Sorted
    <3> QED BY <2>4, <3>1, StripEnds
  <2>7. ASSUME NEW y \in Nat, Last(p[1]) < y, y < Head(q[1]) PROVE ~Covered(y)
    <3> SUFFICES ASSUME NEW m \in Pieces, y \in ToSet(m[1]) PROVE FALSE
      BY DEF Covered
    <3>1. Head(m[1]) <= y /\ y <= Last(m[1]) /\ Head(m[1]) \in Nat /\ Last(m[1]) \in Nat
      BY PieceTypes, PieceSpans
    <3>2. m \in Recorded
      <4>1. writes = <<>>
        BY <1>2 DEF Settled
      <4> QED BY <4>1, NoLines DEF Pieces
    <3>3. PICK t \in records : m = PieceOf(t)
      BY <3>2 DEF Recorded
    <3>4. Head(m[1]) <= Head(p[1]) \/ Head(q[1]) <= Head(m[1])
      BY <2>2, <2>3, <3>3 DEF PieceOf
    <3>5. Head(m[1]) <= Head(p[1])
      BY <2>4, <2>7, <3>1, <3>4
    <3>6. m # p
      BY <2>7, <2>4, <3>1
    <3>7. Before(m, p) \/ Before(p, m)
      BY <2>3, <3>6 DEF Sorted
    <3> QED BY <2>4, <2>7, <3>1, <3>5, <3>7 DEF Before
  <2>8. \A y \in Kept : Covered(y)
    <3> SUFFICES ASSUME NEW y \in Kept PROVE Covered(y)
      OBVIOUS
    <3>1. PICK t \in records : y \in ToSet(t.lines)
      BY DEF Kept, Of
    <3>2. PieceOf(t) \in Pieces /\ PieceOf(t)[1] = t.lines
      BY PieceTypes DEF PieceOf
    <3> QED BY <3>1, <3>2 DEF Covered
  <2>9. p[2] <= q[2] /\ Last(p[1]) < Head(q[1])
    BY <2>5 DEF Before
  <2>10. /\ v[1].segment = p[2] /\ v[2].segment = q[2]
         /\ v[1].first = Head(p[1]) /\ v[1].rows = Len(p[1]) /\ v[2].first = Head(q[1])
    BY <2>1, <2>3, SeenFields
  <2>11. Archive!End(v[1]) = Last(p[1]) + 1 /\ Hole(v) = Last(p[1]) + 1 .. Head(q[1]) - 1
    <3>1. Archive!End(v[1]) = Head(p[1]) + Len(p[1])
      BY <2>10 DEF Archive!End
    <3>2. Hole(v) = Head(p[1]) + Len(p[1]) .. Head(q[1]) - 1
      BY <2>10 DEF Hole
    <3>3. Head(p[1]) + Len(p[1]) = Last(p[1]) + 1
      BY <2>4, <2>6
    <3> QED BY <3>1, <3>2, <3>3
  <2>12. Archive!End(v[1]) <= v[2].first
    BY <2>4, <2>9, <2>10, <2>11
  <2>13. CASE Head(q[1]) = Last(p[1]) + 1
    <3>1. v[2].first = Archive!End(v[1])
      BY <2>10, <2>11, <2>13
    <3> QED BY <2>9, <2>10, <2>12, <3>1 DEF Archive!Follows
  <2>14. CASE Head(q[1]) # Last(p[1]) + 1
    <3>1. Last(p[1]) + 1 \in Nat /\ Last(p[1]) < Last(p[1]) + 1 /\ Last(p[1]) + 1 < Head(q[1])
      BY <2>4, <2>9, <2>14
    <3>2. p[2] # q[2]
      <4>1. ~Covered(Last(p[1]) + 1)
        BY <2>7, <3>1
      <4> QED BY <2>3, <3>1, <4>1 DEF Sorted
    <3>3. Hole(v) # {}
      BY <2>4, <2>11, <3>1
    <3>4. ASSUME NEW y \in Hole(v) PROVE y \in reported
      <4>1. y \in Nat /\ Last(p[1]) < y /\ y < Head(q[1])
        BY <2>4, <2>11
      <4>2. y \notin Kept
        BY <2>7, <2>8, <4>1
      <4>3. y \in 0 .. next - 1
        BY <2>4, <4>1
      <4> QED BY <1>2, <4>2, <4>3 DEF Closed
    <3>5. CASE v[1].discarded \/ v[2].discarded
      BY <2>9, <2>10, <3>3, <3>4, <3>5
    <3>6. CASE ~(v[1].discarded \/ v[2].discarded)
      BY <2>9, <2>10, <2>12, <3>2, <3>6 DEF Archive!Follows
    <3> QED BY <3>5, <3>6
  <2> QED BY <2>13, <2>14
<1> QED BY <1>1, <1>2, Zenon DEF SessionIsReadable

-----------------------------------------------------------------------------
(* The order and its theorem *)

CameraOrder == CameraInv /\ InOrder /\ Settled

\* An empty session is in order.
LEMMA OrderInit == Init => CameraOrder
<1> SUFFICES ASSUME Init PROVE CameraOrder
  OBVIOUS
<1>1. CameraInv
  BY CameraInit
<1>2. /\ buffer = <<>> /\ lines = <<>> /\ work = NoJob /\ queue = <<>> /\ writes = <<>> /\ records = {}
      /\ next = 0 /\ ~busy /\ ~error /\ reply = "none"
  BY DEF Init
<1>3. TypeOK
  BY <1>1 DEF CameraInv
<1>4. Pieces = {}
  BY <1>2, NoLines DEF Pieces, Recorded
<1>5. Sorted
  BY <1>4 DEF Sorted
<1>6. Single
  BY <1>2, EmptySeq DEF Single
<1>7. PICK a \in Nat : a = 0
  OBVIOUS
<1>8. Strip(<<>>, a) /\ Len(<<>>) = 0 /\ a = a + 0
  BY <1>7, StripEmpty
<1>9. Held(a)
  BY <1>2, <1>4, <1>7, <1>8 DEF Held, Above
<1>10. Meets(a)
  BY <1>2, <1>7 DEF Meets
<1>11. Queued(a)
  BY <1>2, <1>3, <1>7, <1>10, QueueEmpty
<1>12. Fed(a)
  BY <1>2, <1>8, <1>11, NoLines DEF Fed
<1>13. Order
  BY <1>2, <1>8, <1>9, <1>12 DEF Order
<1>14. Settled
  BY <1>2 DEF Settled
<1> QED BY <1>1, <1>5, <1>6, <1>13, <1>14 DEF CameraOrder, InOrder

\* Every step keeps it.
LEMMA OrderStep == CameraOrder /\ [Next]_vars => CameraOrder'
<1> SUFFICES ASSUME CameraOrder, [Next]_vars PROVE CameraOrder'
  OBVIOUS
<1>1. CameraInv'
  BY CameraStep DEF CameraOrder
<1>2. TypeOK /\ Handshake /\ Clean /\ Closed /\ InOrder /\ Settled
  BY DEF CameraOrder, CameraInv, Balance
<1>3. CASE Physics
  BY <1>1, <1>2, <1>3, PhysicsOrder, PhysicsSettled DEF CameraOrder
<1>4. CASE Sampler \/ Write
  BY <1>1, <1>2, <1>4, SamplerMoves, SamplerOrder, SamplerSettled DEF CameraOrder
<1>5. CASE UNCHANGED vars
  <2> USE <1>5 DEF vars, caller, capture, shared, render, disk
  <2>1. Pieces' = Pieces /\ Recorded' = Recorded
    BY DEF Pieces, Recorded
  <2>2. next \in Nat /\ next' \in Nat /\ next <= next'
    BY <1>2, LineTypes
  <2>3. Single'
    BY <1>2, <2>1 DEF Single, InOrder
  <2>4. \A f \in Nat : Meets(f) => Meets(f)'
    BY DEF Meets
  <2>5. \A d \in Nat : Queued(d) => Queued(d)'
    BY <1>2, <2>2, <2>4, QueueStays
  <2>6. Awake' => Awake
    BY DEF Awake
  <2>7. InOrder'
    BY <1>2, <2>1, <2>2, <2>3, <2>5, <2>6, IdleOrder
  <2>8. Settled'
    BY <1>2 DEF Settled, InFlight, InHand
  <2> QED BY <1>1, <2>7, <2>8 DEF CameraOrder
<1> QED BY <1>3, <1>4, <1>5 DEF Next

\* In a session that was closed the blocks are in the order of their lines and of
\* their segments, none is missing between two of one segment, and the reader
\* (validate_capture_sequence) accepts every pair of neighbours, but for a
\* discarded tail next to lines that a sampling failure reported as lost.
THEOREM ClosedSessionIsReadable == Spec => []SessionIsReadable
<1>1. CameraOrder => SessionIsReadable
  BY ClosedReads DEF CameraOrder, CameraInv, InOrder, Balance
<1> QED BY <1>1, OrderInit, OrderStep, PTL DEF Spec
=============================================================================
