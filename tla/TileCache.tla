------------------------------- MODULE TileCache -------------------------------
(***************************************************************************)
(* The tiles of ground material on the device (optix/material_cache.cpp;    *)
(* cuda_tiles.cu keeps its terrain the same way).  The sampler asks for the *)
(* tiles under a batch and some ahead of it, waits, pins the slots it found *)
(* and lets the kernel read them with no lock held; a worker thread loads   *)
(* one wanted tile at a time into a slot, with no lock held either.  What   *)
(* keeps the two apart are the states and the pins of the slots.            *)
(*                                                                         *)
(* `contents` is what the memory of a slot really holds.  How long the      *)
(* sampler waits is not modelled: it may give up at any time.               *)
(***************************************************************************)
EXTENDS Integers, FiniteSets

CONSTANTS Slots, Tiles, None

CacheAssumption == IsFiniteSet(Slots) /\ None \notin Slots \cup Tiles

VARIABLES
  slots,     \* Slot: the tile it is for, EMPTY, LOADING or READY, its pins
  contents,  \* the tile whose pixels the slot holds, or None
  wanted,    \* the tiles asked for last
  target,    \* the slot the worker is filling, or None
  error,     \* a load failed: the worker has ended
  sampler,   \* "idle", "waiting" or "reading"
  required,  \* the tiles under the batch
  mapping    \* while reading: the slot of each of them

workerVars == <<contents, target, error>>
samplerVars == <<wanted, sampler, required, mapping>>
vars == <<slots, workerVars, samplerVars>>

States == {"EMPTY", "LOADING", "READY"}

\* Find: the slots that are, or will be, the tile's.
Holders(tile) == {s \in Slots: slots[s].state # "EMPTY" /\ slots[s].key = tile}
Ready(tiles) == \A t \in tiles: \E s \in Holders(t): slots[s].state = "READY"

\* A slot the worker may overwrite.
Free(s) ==
  \/ slots[s].state = "EMPTY"
  \/ slots[s].state = "READY" /\ slots[s].pins = 0 /\ slots[s].key \notin wanted

\* The pins a batch has on a slot: the tiles under it differ.
Uses(map, s) == IF \E t \in DOMAIN map: map[t] = s THEN 1 ELSE 0

Init ==
  /\ slots = [s \in Slots |-> [key |-> None, state |-> "EMPTY", pins |-> 0]]
  /\ contents = [s \in Slots |-> None]
  /\ target = None /\ error = FALSE
  /\ wanted = {} /\ sampler = "idle" /\ required = {} /\ mapping = <<>>

\* Begin: the footprint of the batch, then as much ahead as there is room for.
Ask(tiles, more) ==
  /\ sampler = "idle" /\ ~error
  /\ tiles # {} /\ IsFiniteSet(tiles \cup more)
  /\ Cardinality(tiles \cup more) <= Cardinality(Slots)
  /\ wanted' = tiles \cup more /\ required' = tiles
  /\ sampler' = "waiting"
  /\ UNCHANGED <<slots, workerVars, mapping>>

\* Every tile is there: pin them and map each to its slot.
Pin ==
  /\ sampler = "waiting" /\ ~error /\ Ready(required)
  /\ mapping' = [t \in required |-> CHOOSE s \in Holders(t): TRUE]
  /\ slots' = [s \in Slots |-> [slots[s] EXCEPT !.pins = @ + Uses(mapping', s)]]
  /\ sampler' = "reading"
  /\ UNCHANGED <<workerVars, wanted, required>>

\* The wait is over without them, or the worker failed: the batch fails.
GiveUp ==
  /\ sampler = "waiting"
  /\ sampler' = "idle"
  /\ UNCHANGED <<slots, workerVars, wanted, required, mapping>>

\* End: the kernel is through with the batch, or failed in it.
Unpin ==
  /\ sampler = "reading"
  /\ slots' = [s \in Slots |-> [slots[s] EXCEPT !.pins = @ - Uses(mapping, s)]]
  /\ sampler' = "idle" /\ mapping' = <<>>
  /\ UNCHANGED <<workerVars, wanted, required>>

\* The worker takes a slot for a tile that is wanted and nowhere, and begins to
\* overwrite it.
Claim(s, tile) ==
  /\ target = None /\ ~error
  /\ tile \in wanted /\ Holders(tile) = {}
  /\ Free(s)
  /\ slots' = [slots EXCEPT ![s] = [key |-> tile, state |-> "LOADING", pins |-> 0]]
  /\ contents' = [contents EXCEPT ![s] = None]
  /\ target' = s
  /\ UNCHANGED <<error, samplerVars>>

\* The upload is complete.
Loaded ==
  /\ target # None
  /\ contents' = [contents EXCEPT ![target] = slots[target].key]
  /\ slots' = [slots EXCEPT ![target].state = "READY"]
  /\ target' = None
  /\ UNCHANGED <<error, samplerVars>>

\* The file is missing, wrong or too short, or the upload fails: the slot stays
\* as it is, and the worker ends.
Failed ==
  /\ target # None
  /\ error' = TRUE /\ target' = None
  /\ UNCHANGED <<slots, contents, samplerVars>>

Sampler == (\E tiles, more \in SUBSET Tiles: Ask(tiles, more)) \/ Pin \/ GiveUp \/ Unpin
Worker == (\E s \in Slots, tile \in Tiles: Claim(s, tile)) \/ Loaded \/ Failed
Next == Sampler \/ Worker

Spec == Init /\ [][Next]_vars

-----------------------------------------------------------------------------
\* The state stays within its types.
TypeOK ==
  /\ slots \in [Slots -> [key: Tiles \cup {None}, state: States, pins: Nat]]
  /\ contents \in [Slots -> Tiles \cup {None}]
  /\ target \in Slots \cup {None} /\ error \in BOOLEAN
  /\ wanted \in SUBSET Tiles /\ required \in SUBSET wanted
  /\ sampler \in {"idle", "waiting", "reading"}
  /\ sampler = "reading" => mapping \in [required -> Slots]

\* What the kernel reads through its map is, for every tile under the batch, that
\* tile complete: the worker neither replaces nor half replaces it meanwhile
\* (Begin, End and the predicate of Worker).
ReadsItsTiles == sampler = "reading" => \A t \in required: contents[mapping[t]] = t

\* A batch that waits for a tile never waits for nothing: as long as no load has
\* failed the worker is loading or has a slot to load a missing tile into, so
\* neither pins left behind nor a tile held twice can wedge the cache (Worker).
WaitIsServed ==
  sampler = "waiting" /\ ~error /\ ~Ready(wanted) =>
    \/ target # None
    \/ \E s \in Slots, t \in wanted: Free(s) /\ Holders(t) = {}
===============================================================================
