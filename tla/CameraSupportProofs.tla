--------------------------- MODULE CameraSupportProofs ---------------------------
(***************************************************************************)
(* Proofs about what works for the camera on either side of it: the tiles   *)
(* it samples (TileCache) and the online correction of its blocks           *)
(* (CorrectionNode), for any number of slots, tiles and blocks.             *)
(***************************************************************************)
EXTENDS TileCache, FiniteSetTheorems, TLAPS

CONSTANTS Published, Segment, First, Final
VARIABLES delivered, held, next, last, refusal

Correction == INSTANCE CorrectionNode WITH error <- refusal

(***************************************************************************)
(* The tiles.                                                              *)
(***************************************************************************)

Occupied(s) == slots[s].state # "EMPTY"
Pinned(s) == sampler = "reading" /\ \E t \in required: mapping[t] = s

\* No tile is held twice, and a ready slot holds its own.
Held ==
  /\ \A s, u \in Slots: Occupied(s) /\ Occupied(u) /\ slots[s].key = slots[u].key => s = u
  /\ \A s \in Slots: Occupied(s) => slots[s].key \in Tiles
  /\ \A s \in Slots: slots[s].state = "READY" => contents[s] = slots[s].key

\* Only the worker's slot is being loaded, while there is a worker.
Loading ==
  /\ \A s \in Slots: slots[s].state = "LOADING" => target = s \/ error
  /\ target # None => slots[target].state = "LOADING" /\ ~error

\* The pins are those of the batch being read, on slots that hold its tiles.
Pins ==
  /\ \A s \in Slots: slots[s].pins = IF Pinned(s) THEN 1 ELSE 0
  /\ sampler = "reading" =>
       \A t \in required: slots[mapping[t]].state = "READY" /\ slots[mapping[t]].key = t

\* What is asked for fits.
Fits == IsFiniteSet(wanted) /\ Cardinality(wanted) <= Cardinality(Slots)

Inductive == TypeOK /\ Held /\ Loading /\ Pins /\ Fits

-----------------------------------------------------------------------------

\* An empty cache satisfies the invariant.
LEMMA InitInductive == ASSUME CacheAssumption, Init PROVE Inductive
<1> USE DEF CacheAssumption, Init
<1>1. TypeOK BY DEF TypeOK, States
<1>2. Held /\ Loading BY DEF Held, Loading, Occupied
<1>3. Pins BY DEF Pins, Pinned
<1>4. Fits BY FS_EmptySet, FS_CardinalityType DEF Fits
<1> QED BY <1>1, <1>2, <1>3, <1>4 DEF Inductive

\* Asking only replaces what is wanted (Begin).
LEMMA AskStep ==
  ASSUME CacheAssumption, Inductive, NEW tiles \in SUBSET Tiles, NEW more \in SUBSET Tiles, Ask(tiles, more)
  PROVE  Inductive'
<1> USE DEF Ask, workerVars, Inductive
<1>1. TypeOK' BY DEF TypeOK
<1>2. Held' /\ Loading' BY DEF Held, Loading, Occupied
<1>3. Pins' BY DEF Pins, Pinned
<1>4. Fits' BY DEF Fits
<1> QED BY <1>1, <1>2, <1>3, <1>4

\* Tiles held once are pinned once, in the slot that holds them (Begin).
LEMMA PinStep == ASSUME CacheAssumption, Inductive, Pin PROVE Inductive'
<1> USE DEF Inductive
<1> DEFINE Slot(t) == CHOOSE s \in Holders(t): TRUE
<1>1. \A t \in required: Slot(t) \in Slots /\ slots[Slot(t)].state = "READY" /\ slots[Slot(t)].key = t
  <2> SUFFICES ASSUME NEW t \in required
      PROVE Slot(t) \in Slots /\ slots[Slot(t)].state = "READY" /\ slots[Slot(t)].key = t
    OBVIOUS
  <2>1. PICK s \in Holders(t): slots[s].state = "READY" BY DEF Pin, Ready
  <2>2. Slot(t) \in Holders(t) BY <2>1
  <2>3. Slot(t) = s BY <2>1, <2>2 DEF Holders, Held, Occupied
  <2> QED BY <2>1, <2>2, <2>3 DEF Holders
<1>2. mapping' = [t \in required |-> Slot(t)] /\ sampler = "waiting" /\ sampler' = "reading"
      /\ UNCHANGED <<contents, target, error, wanted, required>>
  BY DEF Pin, workerVars
<1>3. \A t \in required: mapping'[t] = Slot(t) BY <1>2
<1>4. mapping' \in [required -> Slots] BY <1>1, <1>2
<1>5. slots' = [s \in Slots |-> [slots[s] EXCEPT !.pins = @ + Uses(mapping', s)]]
  BY DEF Pin
<1>6. \A s \in Slots: /\ slots'[s].key = slots[s].key /\ slots'[s].state = slots[s].state
                      /\ slots[s].pins = 0
                      /\ slots'[s].pins = IF \E t \in required: mapping'[t] = s THEN 1 ELSE 0
  <2> SUFFICES ASSUME NEW s \in Slots
      PROVE /\ slots'[s].key = slots[s].key /\ slots'[s].state = slots[s].state
            /\ slots[s].pins = 0
            /\ slots'[s].pins = IF \E t \in required: mapping'[t] = s THEN 1 ELSE 0
    OBVIOUS
  <2>1. slots[s] \in [key: Tiles \cup {None}, state: States, pins: Nat] BY DEF TypeOK
  <2>2. slots[s].pins = 0 BY <1>2 DEF Pins, Pinned
  <2>3. slots'[s] = [slots[s] EXCEPT !.pins = @ + Uses(mapping', s)] BY <1>5
  <2>4. Uses(mapping', s) = IF \E t \in required: mapping'[t] = s THEN 1 ELSE 0 BY <1>4, <1>2 DEF Uses
  <2>5. Uses(mapping', s) \in {0, 1} BY DEF Uses
  <2>6. /\ slots'[s].key = slots[s].key /\ slots'[s].state = slots[s].state
        /\ slots'[s].pins = Uses(mapping', s)
    BY <2>1, <2>2, <2>3, <2>5
  <2> QED BY <2>2, <2>4, <2>6
<1>7. TypeOK'
  <2>1. \A s \in Slots: Uses(mapping', s) \in {0, 1} BY DEF Uses
  <2>2. slots' \in [Slots -> [key: Tiles \cup {None}, state: States, pins: Nat]]
    BY <1>5, <2>1 DEF TypeOK
  <2> QED BY <2>2, <1>2, <1>4 DEF TypeOK
<1>8. Held' BY <1>2, <1>6 DEF Held, Occupied
<1>9. Loading' BY <1>2, <1>6 DEF Loading, TypeOK
<1>10. Pins'
  <2>1. \A s \in Slots: slots'[s].pins = IF Pinned(s)' THEN 1 ELSE 0 BY <1>2, <1>6 DEF Pinned
  <2>2. \A t \in required: slots'[mapping'[t]].state = "READY" /\ slots'[mapping'[t]].key = t
    BY <1>1, <1>3, <1>6
  <2> QED BY <2>1, <2>2, <1>2 DEF Pins
<1>11. Fits' BY <1>2 DEF Fits
<1> QED BY <1>7, <1>8, <1>9, <1>10, <1>11

\* A batch that gives up has pinned nothing yet (Begin).
LEMMA GiveUpStep == ASSUME CacheAssumption, Inductive, GiveUp PROVE Inductive'
<1> USE DEF GiveUp, workerVars, Inductive
<1>1. TypeOK' BY DEF TypeOK
<1>2. Held' /\ Loading' BY DEF Held, Loading, Occupied
<1>3. Pins' BY DEF Pins, Pinned
<1>4. Fits' BY DEF Fits
<1> QED BY <1>1, <1>2, <1>3, <1>4

\* The batch returns exactly the pins it took (End).
LEMMA UnpinStep == ASSUME CacheAssumption, Inductive, Unpin PROVE Inductive'
<1> USE DEF Inductive
<1>1. sampler = "reading" /\ sampler' = "idle" /\ mapping' = <<>>
      /\ UNCHANGED <<contents, target, error, wanted, required>>
  BY DEF Unpin, workerVars
<1>2. slots' = [s \in Slots |-> [slots[s] EXCEPT !.pins = @ - Uses(mapping, s)]]
  BY DEF Unpin
<1>3. \A s \in Slots: /\ slots'[s].key = slots[s].key /\ slots'[s].state = slots[s].state
                      /\ slots'[s].pins = 0
                      /\ slots'[s] \in [key: Tiles \cup {None}, state: States, pins: Nat]
  <2> SUFFICES ASSUME NEW s \in Slots
      PROVE /\ slots'[s].key = slots[s].key /\ slots'[s].state = slots[s].state
            /\ slots'[s].pins = 0
            /\ slots'[s] \in [key: Tiles \cup {None}, state: States, pins: Nat]
    OBVIOUS
  <2>1. slots[s] \in [key: Tiles \cup {None}, state: States, pins: Nat] BY DEF TypeOK
  <2>2. slots[s].pins = Uses(mapping, s) BY <1>1 DEF Pins, Pinned, Uses, TypeOK
  <2>3. slots'[s] = [slots[s] EXCEPT !.pins = @ - Uses(mapping, s)] BY <1>2
  <2>4. slots[s].pins - Uses(mapping, s) = 0 BY <2>1, <2>2
  <2>5. slots'[s] = [slots[s] EXCEPT !.pins = 0] BY <2>3, <2>4
  <2> QED BY <2>1, <2>5
<1>4. TypeOK' BY <1>1, <1>2, <1>3 DEF TypeOK
<1>5. Held' BY <1>1, <1>3 DEF Held, Occupied
<1>6. Loading' BY <1>1, <1>3 DEF Loading, TypeOK
<1>7. Pins' BY <1>1, <1>3 DEF Pins, Pinned
<1>8. Fits' BY <1>1 DEF Fits
<1> QED BY <1>4, <1>5, <1>6, <1>7, <1>8

\* The worker takes no pinned slot, for a tile no slot holds (Worker).
LEMMA ClaimStep ==
  ASSUME CacheAssumption, Inductive, NEW s \in Slots, NEW tile \in Tiles, Claim(s, tile)
  PROVE  Inductive'
<1> USE DEF Inductive
<1>1. /\ target = None /\ target' = s /\ ~error
      /\ UNCHANGED <<error, wanted, sampler, required, mapping>>
      /\ slots' = [slots EXCEPT ![s] = [key |-> tile, state |-> "LOADING", pins |-> 0]]
      /\ contents' = [contents EXCEPT ![s] = None]
      /\ Holders(tile) = {} /\ Free(s) /\ tile \in wanted
  BY DEF Claim, samplerVars
<1>2. slots'[s] = [key |-> tile, state |-> "LOADING", pins |-> 0] BY <1>1 DEF TypeOK
<1>3. \A u \in Slots: u # s => slots'[u] = slots[u] /\ contents'[u] = contents[u] BY <1>1 DEF TypeOK
<1>4. ~Pinned(s)
  BY <1>1 DEF Free, Pins, Pinned
<1>5. TypeOK' BY <1>1 DEF TypeOK, States
<1>6. Held'
  <2>1. \A u \in Slots: Occupied(u) => slots[u].key # tile BY <1>1 DEF Holders, Occupied
  <2> QED BY <2>1, <1>2, <1>3 DEF Held, Occupied
<1>7. Loading' BY <1>1, <1>2, <1>3 DEF Loading, CacheAssumption
<1>8. Pins'
  <2>1. \A u \in Slots: Pinned(u)' <=> Pinned(u) BY <1>1 DEF Pinned
  <2>2. \A u \in Slots: slots'[u].pins = IF Pinned(u)' THEN 1 ELSE 0
    BY <2>1, <1>2, <1>3, <1>4 DEF Pins
  <2>3. ASSUME sampler = "reading", NEW t \in required
        PROVE slots'[mapping[t]].state = "READY" /\ slots'[mapping[t]].key = t
    <3>1. mapping[t] \in Slots /\ mapping[t] # s BY <2>3, <1>4 DEF Pinned, TypeOK
    <3> QED BY <3>1, <2>3, <1>3 DEF Pins
  <2> QED BY <2>2, <2>3, <1>1 DEF Pins
<1>9. Fits' BY <1>1 DEF Fits
<1> QED BY <1>5, <1>6, <1>7, <1>8, <1>9

\* A slot is ready once its tile is complete (Worker).
LEMMA LoadedStep == ASSUME CacheAssumption, Inductive, Loaded PROVE Inductive'
<1> USE DEF Inductive
<1>1. /\ target # None /\ target' = None
      /\ UNCHANGED <<error, wanted, sampler, required, mapping>>
      /\ contents' = [contents EXCEPT ![target] = slots[target].key]
      /\ slots' = [slots EXCEPT ![target].state = "READY"]
  BY DEF Loaded, samplerVars
<1>2. target \in Slots /\ slots[target].state = "LOADING" BY <1>1 DEF TypeOK, Loading
<1>3. /\ slots'[target].key = slots[target].key /\ slots'[target].pins = slots[target].pins
      /\ slots'[target].state = "READY" /\ contents'[target] = slots[target].key
  BY <1>1, <1>2 DEF TypeOK
<1>4. \A u \in Slots: u # target => slots'[u] = slots[u] /\ contents'[u] = contents[u] BY <1>1 DEF TypeOK
<1>5. TypeOK' BY <1>1, <1>2 DEF TypeOK, States
<1>6. Held' BY <1>2, <1>3, <1>4 DEF Held, Occupied
<1>7. Loading' BY <1>1, <1>3, <1>4 DEF Loading
<1>8. Pins'
  <2>1. \A u \in Slots: Pinned(u)' <=> Pinned(u) BY <1>1 DEF Pinned
  <2>2. \A u \in Slots: slots'[u].pins = slots[u].pins BY <1>3, <1>4
  <2>3. \A u \in Slots: slots'[u].pins = IF Pinned(u)' THEN 1 ELSE 0 BY <2>1, <2>2 DEF Pins
  <2>4. ASSUME sampler = "reading", NEW t \in required
        PROVE slots'[mapping[t]].state = "READY" /\ slots'[mapping[t]].key = t
    BY <2>4, <1>3, <1>4 DEF Pins, TypeOK
  <2> QED BY <2>3, <2>4, <1>1 DEF Pins
<1>9. Fits' BY <1>1 DEF Fits
<1> QED BY <1>5, <1>6, <1>7, <1>8, <1>9

\* A failed load leaves its slot as it is (Worker).
LEMMA FailedStep == ASSUME CacheAssumption, Inductive, Failed PROVE Inductive'
<1> USE DEF Failed, samplerVars, Inductive
<1>1. TypeOK' BY DEF TypeOK
<1>2. Held' /\ Loading' BY DEF Held, Loading, Occupied
<1>3. Pins' BY DEF Pins, Pinned
<1>4. Fits' BY DEF Fits
<1> QED BY <1>1, <1>2, <1>3, <1>4

\* The state stays within its types, tiles are held once and pins are honest.
THEOREM CacheInvariant == ASSUME CacheAssumption PROVE Spec => []Inductive
<1>1. Init => Inductive BY InitInductive
<1>2. Inductive /\ [Next]_vars => Inductive'
  <2>1. ASSUME Inductive, UNCHANGED vars PROVE Inductive'
    BY <2>1 DEF Inductive, TypeOK, Held, Loading, Pins, Fits, Occupied, Pinned, vars, workerVars, samplerVars
  <2> QED
    BY <2>1, AskStep, PinStep, GiveUpStep, UnpinStep, ClaimStep, LoadedStep, FailedStep
    DEF Next, Sampler, Worker
<1> QED BY <1>1, <1>2, PTL DEF Spec

\* The kernel reads complete tiles, and the right ones, whatever the worker does
\* meanwhile (MaterialCache::Begin, Worker).
THEOREM ReadsAreWhole == ASSUME CacheAssumption PROVE Spec => []ReadsItsTiles
<1>1. Inductive => ReadsItsTiles
  BY DEF Inductive, Held, Pins, TypeOK, ReadsItsTiles
<1> QED BY <1>1, CacheInvariant, PTL

\* As many slots as tiles asked for are enough: with a tile missing, some slot
\* holds none that is wanted, or the worker is loading (MaterialCache::Worker).
THEOREM WaitsAreServed == ASSUME CacheAssumption PROVE Spec => []WaitIsServed
<1>1. ASSUME Inductive PROVE WaitIsServed
  <2> USE <1>1 DEF Inductive
  <2> SUFFICES ASSUME sampler = "waiting", ~error, ~Ready(wanted), target = None
               PROVE  \E s \in Slots, t \in wanted: Free(s) /\ Holders(t) = {}
    BY DEF WaitIsServed
  <2>1. \A s \in Slots: slots[s].state # "LOADING" /\ slots[s].pins = 0
    BY DEF Loading, Pins, Pinned, CacheAssumption
  <2>2. \A s \in Slots: Occupied(s) => slots[s].state = "READY" BY <2>1 DEF TypeOK, States, Occupied
  <2>3. PICK t \in wanted: Holders(t) = {} BY <2>2 DEF Ready, Holders, Occupied
  <2>4. ASSUME \A s \in Slots: ~Free(s) PROVE FALSE
    <3> DEFINE key == [s \in Slots |-> slots[s].key]
               rest == wanted \ {t}
    <3>1. \A s \in Slots: Occupied(s) /\ slots[s].key \in rest
      BY <2>1, <2>2, <2>3, <2>4 DEF Free, Occupied, Holders
    <3>2. key \in Injection(Slots, rest) BY <3>1 DEF Held, Injection, IsInjective
    <3>3. IsFiniteSet(rest) /\ Cardinality(rest) = Cardinality(wanted) - 1
      BY FS_RemoveElement DEF Fits
    <3>4. Cardinality(Slots) <= Cardinality(rest) BY <3>2, <3>3, FS_Injection
    <3> QED BY <3>3, <3>4, FS_CardinalityType DEF Fits, CacheAssumption
  <2> QED BY <2>3, <2>4
<1> QED BY <1>1, CacheInvariant, PTL

(***************************************************************************)
(* The correction.                                                         *)
(***************************************************************************)

\* The blocks corrected are those before `next', and they were published.
Behind == last = next - 1 /\ \A k \in Nat: k < next => k \in Published

\* While the node works, the halves delivered are those of the blocks corrected
\* and those held, and what is held is still to come.
Remembered ==
  refusal = "none" => \A kind \in Correction!Kinds, k \in Published:
                      /\ k \in delivered[kind] <=> k < next \/ k \in held[kind]
                      /\ k \in held[kind] => next <= k

CorrectionInductive == Correction!TypeOK /\ Behind /\ Remembered /\ Correction!NoFalseAccusation

-----------------------------------------------------------------------------

\* Before the first block there is nothing to remember.
LEMMA CorrectionInitInductive == ASSUME Correction!SessionAssumption, Correction!Init PROVE CorrectionInductive
<1> USE DEF Correction!Init
<1>1. Correction!TypeOK BY DEF Correction!TypeOK, Correction!Kinds, Correction!None
<1>2. Behind /\ Remembered
  BY DEF Correction!SessionAssumption, Behind, Remembered, Correction!Kinds, Correction!None
<1> QED BY <1>1, <1>2 DEF CorrectionInductive, Correction!NoFalseAccusation

\* Giving up for a reason that accuses nobody.
LEMMA FailStep ==
  ASSUME CorrectionInductive, NEW what \in {"overflow", "timeout", "storage"}, Correction!Fail(what),
         delivered' \in [Correction!Kinds -> SUBSET Published]
  PROVE  CorrectionInductive'
<1> USE DEF CorrectionInductive, Correction!Fail
<1>1. Correction!TypeOK' BY DEF Correction!TypeOK, Correction!Kinds
<1>2. Behind' BY DEF Behind
<1>3. Remembered' /\ Correction!NoFalseAccusation' BY DEF Remembered, Correction!NoFalseAccusation
<1> QED BY <1>1, <1>2, <1>3

\* A half that was not delivered before is neither held nor of a block corrected.
LEMMA ReceiveStep ==
  ASSUME Correction!SessionAssumption, CorrectionInductive, NEW kind \in Correction!Kinds, NEW k \in Published,
           Correction!Receive(kind, k)
  PROVE  CorrectionInductive'
<1> USE DEF CorrectionInductive
<1>1. delivered' \in [Correction!Kinds -> SUBSET Published] BY DEF Correction!Receive, Correction!TypeOK
<1>2. CASE refusal # "none" /\ UNCHANGED <<held, next, last, refusal>>
  BY <1>1, <1>2 DEF Correction!TypeOK, Behind, Remembered, Correction!NoFalseAccusation
<1>3. CASE refusal = "none" /\ (k <= last \/ k \in held[kind]) /\ Correction!Fail("order")
  BY <1>3 DEF Correction!Receive, Behind, Remembered, Correction!TypeOK, Correction!SessionAssumption
<1>4. CASE Correction!Fail("overflow") BY <1>1, <1>4, FailStep
<1>5. CASE /\ refusal = "none" /\ k > last
           /\ held' = [held EXCEPT ![kind] = @ \cup {k}]
           /\ UNCHANGED <<next, last, refusal>>
  <2>1. Correction!TypeOK' BY <1>1, <1>5 DEF Correction!TypeOK
  <2>2. Behind' BY <1>5 DEF Behind
  <2>3. Remembered'
    BY <1>5 DEF Correction!Receive, Remembered, Behind, Correction!TypeOK, Correction!SessionAssumption
  <2> QED BY <2>1, <2>2, <2>3, <1>5 DEF Correction!NoFalseAccusation
<1> QED BY <1>2, <1>3, <1>4, <1>5 DEF Correction!Receive

\* What is held was to come, and neighbours in a segment fit.
LEMMA NeverMisplaced ==
  ASSUME Correction!SessionAssumption, CorrectionInductive, NEW k \in Published PROVE ~Correction!Misplaced(k)
<1> SUFFICES ASSUME Correction!Misplaced(k) PROVE FALSE
  OBVIOUS
<1> USE DEF CorrectionInductive
<1>1. k \in held["image"] /\ refusal = "none" BY DEF Correction!Misplaced, Correction!Complete, Correction!Kinds
<1>2. next <= k BY <1>1 DEF Remembered, Correction!Kinds
<1>3. k = next /\ Correction!Broken(k)
  BY <1>2 DEF Correction!Misplaced, Correction!SessionAssumption, Correction!TypeOK
<1>4. last \in Nat /\ last \in Published /\ k = last + 1
  BY <1>3 DEF Correction!Broken, Behind, Correction!TypeOK, Correction!None
<1> QED BY <1>3, <1>4 DEF Correction!Broken, Correction!SessionAssumption

\* The block corrected is the next, and both halves are taken out.
LEMMA CorrectStep ==
  ASSUME Correction!SessionAssumption, CorrectionInductive, NEW k \in Published, Correction!Correct(k)
  PROVE  CorrectionInductive'
<1> USE DEF CorrectionInductive, Correction!Correct
<1>1. Correction!TypeOK' BY DEF Correction!TypeOK, Correction!SessionAssumption
<1>2. Behind' BY DEF Behind, Correction!TypeOK
<1>3. \A kind \in Correction!Kinds: held'[kind] = held[kind] \ {k} OBVIOUS
<1>4. Remembered' BY <1>3 DEF Correction!Complete, Remembered, Correction!TypeOK, Correction!SessionAssumption
<1> QED BY <1>1, <1>2, <1>4 DEF Correction!NoFalseAccusation

\* Every step preserves the invariant.
LEMMA CorrectionNextInductive ==
  ASSUME Correction!SessionAssumption, CorrectionInductive, [Correction!Next]_(Correction!vars)
  PROVE  CorrectionInductive'
<1>1. CASE UNCHANGED Correction!vars
 
    BY <1>1 DEF Correction!vars, CorrectionInductive, Correction!TypeOK, Behind, Remembered, Correction!NoFalseAccusation
<1>2. CASE \E kind \in Correction!Kinds, k \in Published: Correction!Receive(kind, k) BY <1>2, ReceiveStep
<1>3. CASE Correction!Expire BY <1>3, FailStep DEF Correction!Expire, CorrectionInductive, Correction!TypeOK
<1>4. CASE \E k \in Published: Correction!Misplaced(k) BY <1>4, NeverMisplaced
<1>5. CASE \E k \in Published: Correction!Rejected(k)
  BY <1>5, FailStep DEF Correction!Rejected, CorrectionInductive, Correction!TypeOK
<1>6. CASE \E k \in Published: Correction!Correct(k) BY <1>6, CorrectStep
<1> QED BY <1>1, <1>2, <1>3, <1>4, <1>5, <1>6 DEF Correction!Next, Correction!Process

\* The invariant of the node, for any session.
THEOREM CorrectionInvariant ==
  ASSUME Correction!SessionAssumption
  PROVE  Correction!Spec => []CorrectionInductive
<1>1. Correction!Init => CorrectionInductive BY CorrectionInitInductive
<1>2. CorrectionInductive /\ [Correction!Next]_(Correction!vars) => CorrectionInductive'
  BY CorrectionNextInductive
<1> QED BY <1>1, <1>2, PTL DEF Correction!Spec

\* No order of arrival and no loss is mistaken for a duplicate, a block out of
\* order or a hole: a late, early or missing half only makes the node wait.
THEOREM NoOrderIsAccused ==
  ASSUME Correction!SessionAssumption
  PROVE  Correction!Spec => []Correction!NoFalseAccusation
<1>1. CorrectionInductive => Correction!NoFalseAccusation BY DEF CorrectionInductive
<1> QED BY <1>1, CorrectionInvariant, PTL

\* The node waits only for what has not come: once both halves of the next block
\* were delivered, that block is the oldest it holds, and complete.
THEOREM WaitsForWhatIsMissing ==
  ASSUME Correction!SessionAssumption
  PROVE  Correction!Spec => []Correction!WaitsForTheNext
<1>1. ASSUME CorrectionInductive PROVE Correction!WaitsForTheNext
  <2> SUFFICES ASSUME refusal = "none", NEW k \in Published, Correction!Oldest(k),
           ~(Correction!Complete(k) /\ k = next),
                      \A kind \in Correction!Kinds: next \in delivered[kind]
      PROVE FALSE
    BY DEF Correction!WaitsForTheNext
  <2> USE <1>1 DEF CorrectionInductive
  <2>1. next \in Published BY DEF Correction!TypeOK, Correction!Kinds
  <2>2. \A kind \in Correction!Kinds: next \in held[kind] BY <2>1 DEF Remembered, Correction!TypeOK
  <2>3. k <= next BY <2>2 DEF Correction!Oldest, Correction!Arrived, Correction!Kinds
  <2>4. next <= k BY DEF Correction!Oldest, Correction!Arrived, Remembered, Correction!Kinds
  <2>5. k = next BY <2>1, <2>3, <2>4 DEF Correction!SessionAssumption
  <2> QED BY <2>2, <2>5 DEF Correction!Complete
<1> QED BY <1>1, CorrectionInvariant, PTL

\* A block that is never published stops the correction at itself: every short
\* tail that is discarded ends the online correction of its session.
THEOREM MissingBlockStops ==
  ASSUME Correction!SessionAssumption
  PROVE  Correction!Spec => []Correction!StopsAtTheMissing
<1>1. CorrectionInductive => Correction!StopsAtTheMissing
  BY DEF CorrectionInductive, Behind, Correction!StopsAtTheMissing, Correction!TypeOK
<1> QED BY <1>1, CorrectionInvariant, PTL
==================================================================================
