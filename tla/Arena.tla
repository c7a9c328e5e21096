-------------------------------- MODULE Arena --------------------------------
(***************************************************************************)
(* pma::ArenaMemoryResource: blocks are cut from the current region, one     *)
(* behind the other; when the region is exhausted another one is obtained    *)
(* from the upstream resource and the allocation is tried again.  Nothing is *)
(* given back before the arena is destroyed, except a region that turns out  *)
(* to be too small for the first block asked of it.                        *)
(***************************************************************************)
EXTENDS Integers

CONSTANTS
    InitialSize, RegionSize,
    Growth(_),          \* lroundf(size * growthFactor)
    MaxAlign,           \* alignof(std::max_align_t)
    Sizes, Alignments,  \* what callers ask for
    Addresses,          \* where upstream finds memory (bound)
    MaxBlocks           \* blocks asked for (bound)

ASSUME ArenaAssumption ==
    /\ InitialSize \in Nat \ {0} /\ RegionSize \in Nat \ {0}
    /\ MaxAlign \in Nat \ {0} /\ Alignments \subseteq Nat \ {0}
    /\ Sizes \subseteq Nat /\ Addresses \subseteq Nat /\ MaxBlocks \in Nat

VARIABLES
    alive,     \* until the destructor runs
    earlier,   \* arenas, without the last
    current,   \* arenas.back()
    ptr,
    request,   \* the allocation under way, in a singleton, or {}
    blocks, served,  \* history: what was allocated, and how often
    upstream   \* regions that upstream has handed out and not got back

vars == <<alive, earlier, current, ptr, request, blocks, served, upstream>>

Arenas == earlier \cup {current}
End(region) == region.memory + region.size

\* the smallest multiple of the alignment from p on
AlignPointer(p, alignment) == p + ((- p) % alignment)

Disjoint(r, s) == End(r) <= s.memory \/ End(s) <= r.memory

\* What upstream may return for a positive size: memory for any object, apart
\* from what it has handed out before.
Available(size, held) ==
    {r \in [memory : {a \in Addresses : a % MaxAlign = 0}, size : {size} \cap (Nat \ {0})] :
        \A s \in held : Disjoint(r, s)}

Init ==
    /\ alive = TRUE
    /\ current \in Available(InitialSize, {})
    /\ earlier = {}
    /\ ptr = current.memory
    /\ request = {}
    /\ blocks = {} /\ served = 0
    /\ upstream = {current}

Allocate(size, alignment) ==
    /\ alive /\ request = {} /\ served < MaxBlocks
    /\ request' = {[size |-> size, alignment |-> alignment]}
    /\ UNCHANGED <<alive, earlier, current, ptr, blocks, served, upstream>>

\* Faulty variant of Fits: the padding is not counted.
FitsUnpadded(r) == ptr + r.size <= End(current)

Fits(r) == AlignPointer(ptr, r.alignment) + r.size <= End(current)

\* Faulty variant of Serve: the padding in front of the block is not counted.
ServeUnpadded ==
    \E r \in request :
        /\ Fits(r)
        /\ ptr' = ptr + r.size
        /\ blocks' = blocks \cup {[nr |-> served, start |-> AlignPointer(ptr, r.alignment),
                                   size |-> r.size]}
        /\ served' = served + 1
        /\ request' = {}
        /\ UNCHANGED <<alive, earlier, current, upstream>>

Serve ==
    \E r \in request :
        /\ Fits(r)
        /\ ptr' = AlignPointer(ptr, r.alignment) + r.size
        /\ blocks' = blocks \cup {[nr |-> served, start |-> AlignPointer(ptr, r.alignment),
                                   size |-> r.size]}
        /\ served' = served + 1
        /\ request' = {}
        /\ UNCHANGED <<alive, earlier, current, upstream>>

\* Nothing was allocated in the current region: it is discarded.
Unused == ptr = current.memory

\* Faulty variant of NewSize: regions do not grow.
FixedSize == RegionSize

NewSize == IF earlier = {} THEN RegionSize ELSE Growth(current.size)

\* Faulty variant of Grow: the unused region is dropped and not returned.
GrowLeaking ==
    \E r \in request :
        /\ ~ Fits(r)
        /\ current' \in Available(NewSize, upstream)
        /\ upstream' = upstream \cup {current'}
        /\ earlier' = IF Unused THEN earlier ELSE Arenas
        /\ ptr' = current'.memory
        /\ UNCHANGED <<alive, request, blocks, served>>

\* allocateArena, after which the allocation is tried again.  An unused region
\* goes back first, so that upstream may use its memory for the new one.
Grow ==
    \E r \in request :
        LET held == IF Unused THEN upstream \ {current} ELSE upstream
        IN  /\ ~ Fits(r)
            /\ current' \in Available(NewSize, held)
            /\ upstream' = held \cup {current'}
            /\ earlier' = IF Unused THEN earlier ELSE Arenas
            /\ ptr' = current'.memory
            /\ UNCHANGED <<alive, request, blocks, served>>

Destroy ==
    /\ alive /\ request = {}
    /\ alive' = FALSE
    /\ upstream' = upstream \ Arenas
    /\ UNCHANGED <<earlier, current, ptr, request, blocks, served>>

Next ==
    \/ \E size \in Sizes, alignment \in Alignments : Allocate(size, alignment)
    \/ Serve
    \/ Grow
    \/ Destroy

Spec == Init /\ [][Next]_vars

\* A call of allocate runs until it returns.
FairSpec == Spec /\ WF_vars(Serve) /\ WF_vars(Grow)
-----------------------------------------------------------------------------
(* Properties                                                               *)

(* Type invariant: pointers and sizes are natural numbers, and the free       *)
(* pointer points into the current region, or at its end.                   *)
TypeOK ==
    /\ alive \in BOOLEAN
    /\ current \in [memory : Nat, size : Nat \ {0}]
    /\ earlier \subseteq [memory : Nat, size : Nat \ {0}]
    /\ ptr \in current.memory .. End(current)
    /\ served \in Nat
    /\ request \subseteq [size : Sizes, alignment : Alignments]
    /\ blocks \subseteq [nr : Nat, start : Nat, size : Sizes]

Within(b, region) == region.memory <= b.start /\ b.start + b.size <= End(region)

(* Blocks do not overlap, and each lies in a region that upstream has not    *)
(* got back (ArenaMemoryResource::allocate, and the discarding of regions). *)
BlocksApart ==
    alive =>
        /\ \A b \in blocks : b.size > 0 => \E region \in upstream : Within(b, region)
        /\ \A b, c \in blocks : b # c /\ b.size > 0 /\ c.size > 0 =>
               b.start + b.size <= c.start \/ c.start + c.size <= b.start

(* Regions come and go in pairs: upstream holds what the arena knows of,     *)
(* and the destructor returns all (allocateArena against the destructor).   *)
RegionsReturned == upstream = IF alive THEN Arenas ELSE {}

\* A new region would do, or regions grow from now on.
Serviceable(r) ==
    \/ r.size <= RegionSize /\ r.alignment <= MaxAlign
    \/ earlier # {}
    \/ ~ Unused

(* An allocation returns, if a region of the usual size is large enough or   *)
(* if the first region is in use, so that further ones grow.               *)
AllocationReturns == (\E r \in request : Serviceable(r)) ~> (request = {})
=============================================================================
