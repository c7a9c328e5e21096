---------------------------- MODULE MemoryProofs ----------------------------
(***************************************************************************)
(* What lies in memory stays where it is looked for.  Blocks of an arena    *)
(* never overlap, for every upstream, every growth of regions and every     *)
(* sequence of requests.  A proxy of an archive follows its markers, for    *)
(* any number of markers, places and proxies: the two sides agree, a proxy  *)
(* points at the places of the markers it was made for, and the objects     *)
(* there, and no others, point back.                                        *)
(***************************************************************************)
EXTENDS Arena, ArchiveMarkers, TLAPS

(* A pointer is aligned upwards. *)
LEMMA AlignUp ==
    ASSUME NEW p \in Nat, NEW a \in Nat \ {0}
    PROVE  AlignPointer(p, a) \in Nat /\ AlignPointer(p, a) >= p
BY DEF AlignPointer

(* What upstream returns is a region, apart from those it has handed out. *)
LEMMA AvailableRegion ==
    ASSUME NEW size, NEW held, NEW r \in Available(size, held)
    PROVE  /\ r \in [memory : Nat, size : Nat \ {0}]
           /\ \A s \in held : Disjoint(r, s)
BY ArenaAssumption DEF Available

-----------------------------------------------------------------------------
(* The arena starts with a region, at whose beginning the pointer is. *)
LEMMA ArenaInitTypes == Init => TypeOK
<1> SUFFICES ASSUME Init PROVE TypeOK
    OBVIOUS
<1>1. current \in [memory : Nat, size : Nat \ {0}]
    BY AvailableRegion DEF Init
<1>2. ptr \in current.memory .. End(current)
    BY <1>1 DEF Init, End
<1> QED BY <1>1, <1>2 DEF Init, TypeOK

(* Pointers and regions keep their types. *)
THEOREM ArenaTypes == Spec => []TypeOK
<1>1. Init => TypeOK
    BY ArenaInitTypes
<1>2. TypeOK /\ [Next]_vars => TypeOK'
    <2> SUFFICES ASSUME TypeOK, [Next]_vars PROVE TypeOK'
        OBVIOUS
    <2>1. ASSUME NEW size \in Sizes, NEW alignment \in Alignments, Allocate(size, alignment)
          PROVE  TypeOK'
        <3>1. request' \subseteq [size : Sizes, alignment : Alignments]
            BY <2>1 DEF Allocate
        <3> QED BY <2>1, <3>1 DEF TypeOK, Allocate, End
    <2>2. CASE Serve
        <3>1. PICK r \in request : Serve!(r)
            BY <2>2 DEF Serve
        <3>2. r.size \in Nat /\ r.alignment \in Nat \ {0} /\ ptr \in Nat
            <4>1. r \in [size : Sizes, alignment : Alignments]
                BY DEF TypeOK
            <4>2. ptr \in Nat
                BY DEF TypeOK, End
            <4> QED BY <4>1, <4>2, ArenaAssumption
        <3>3. AlignPointer(ptr, r.alignment) \in Nat /\ AlignPointer(ptr, r.alignment) >= ptr
            BY <3>2, AlignUp
        <3>4. ptr' \in current'.memory .. End(current')
            BY <3>1, <3>2, <3>3 DEF TypeOK, Fits, End
        <3>5. [nr |-> served, start |-> AlignPointer(ptr, r.alignment), size |-> r.size]
                  \in [nr : Nat, start : Nat, size : Sizes]
            BY <3>3 DEF TypeOK
        <3> QED BY <3>1, <3>4, <3>5 DEF TypeOK
    <2>3. CASE Grow
        <3>1. PICK r \in request : Grow!(r)
            BY <2>3 DEF Grow
        <3>2. current' \in [memory : Nat, size : Nat \ {0}]
            BY <3>1, AvailableRegion
        <3> QED BY <3>1, <3>2 DEF TypeOK, End, Arenas
    <2>4. CASE Destroy
        BY <2>4 DEF TypeOK, Destroy, End
    <2>5. CASE UNCHANGED vars
        BY <2>5 DEF TypeOK, vars, End
    <2> QED BY <2>1, <2>2, <2>3, <2>4, <2>5 DEF Next
<1> QED BY <1>1, <1>2, PTL DEF Spec
-----------------------------------------------------------------------------
(* The inductive invariant: regions are apart, and the blocks of the current *)
(* region lie before the free pointer.                                      *)
RegionsApart == \A r, s \in Arenas : r # s => Disjoint(r, s)

BlocksHoused == \A b \in blocks : b.size > 0 => \E region \in Arenas : Within(b, region)

BlocksBeforePtr ==
    \A b \in blocks : b.size > 0 /\ Within(b, current) => b.start + b.size <= ptr

BlockPairsApart ==
    \A b, c \in blocks : b # c /\ b.size > 0 /\ c.size > 0 =>
        b.start + b.size <= c.start \/ c.start + c.size <= b.start

ArenaInv ==
    /\ TypeOK
    /\ ~ alive => request = {}
    /\ RegionsReturned
    /\ current \notin earlier
    /\ RegionsApart
    /\ BlocksHoused
    /\ BlocksBeforePtr
    /\ BlockPairsApart

(* Serve puts a block behind those of the current region. *)
LEMMA ServeInv ==
    ASSUME ArenaInv, TypeOK', Serve
    PROVE  ArenaInv'
<1>1. PICK r \in request : Serve!(r)
    BY DEF Serve
<1>2. r.size \in Nat /\ r.alignment \in Nat \ {0} /\ ptr \in Nat /\ served \in Nat
    <2>1. r \in [size : Sizes, alignment : Alignments]
        BY DEF ArenaInv, TypeOK
    <2>2. ptr \in Nat /\ served \in Nat
        BY DEF ArenaInv, TypeOK, End
    <2> QED BY <2>1, <2>2, ArenaAssumption
<1> DEFINE start == AlignPointer(ptr, r.alignment)
           n == [nr |-> served, start |-> start, size |-> r.size]
<1>3. start \in Nat /\ start >= ptr
    BY <1>2, AlignUp
<1>4. /\ n.start = start /\ n.size = r.size
      /\ blocks' = blocks \cup {n} /\ ptr' = start + r.size
      /\ start + r.size <= End(current)
      /\ Arenas' = Arenas
    BY <1>1 DEF Fits, Arenas
<1> HIDE DEF n, start
<1>5. /\ current \in [memory : Nat, size : Nat \ {0}]
      /\ earlier \subseteq [memory : Nat, size : Nat \ {0}]
      /\ ptr \in current.memory .. End(current)
      /\ blocks \subseteq [nr : Nat, start : Nat, size : Sizes]
    BY DEF ArenaInv, TypeOK
<1>6. Within(n, current)
    BY <1>2, <1>3, <1>4, <1>5 DEF Within, End
<1>7. ASSUME NEW b \in blocks, b.size > 0, r.size > 0
      PROVE  b.start + b.size <= n.start \/ n.start + n.size <= b.start
    <2>1. PICK region \in Arenas : Within(b, region)
        BY <1>7 DEF ArenaInv, BlocksHoused
    <2>2. b.start \in Nat /\ b.size \in Nat
        BY <1>5, ArenaAssumption
    <2>3. CASE region = current
        <3>1. b.start + b.size <= ptr
            BY <1>7, <2>1, <2>3 DEF ArenaInv, BlocksBeforePtr
        <3> QED BY <3>1, <2>2, <1>2, <1>3, <1>4
    <2>4. CASE region # current
        <3>1. Disjoint(region, current)
            BY <2>4 DEF ArenaInv, RegionsApart, Arenas
        <3>2. region \in [memory : Nat, size : Nat \ {0}]
            BY <2>4, <1>5 DEF Arenas
        <3> QED BY <3>1, <3>2, <2>1, <2>2, <1>2, <1>3, <1>4, <1>5, <1>6 DEF Disjoint, Within, End
    <2> QED BY <2>3, <2>4
<1>8. RegionsReturned' /\ current' \notin earlier' /\ RegionsApart'
    BY <1>1, <1>4 DEF ArenaInv, RegionsReturned, RegionsApart
<1>9. BlocksHoused'
    BY <1>4, <1>6 DEF ArenaInv, BlocksHoused, Arenas
<1>10. BlocksBeforePtr'
    <2> SUFFICES ASSUME NEW b \in blocks', b.size > 0, Within(b, current)
                 PROVE  b.start + b.size <= ptr'
        BY <1>1 DEF BlocksBeforePtr, Within, End
    <2>1. CASE b = n
        BY <2>1, <1>4, <1>2, <1>3
    <2>2. CASE b \in blocks
        <3>1. b.start + b.size <= ptr
            BY <2>2 DEF ArenaInv, BlocksBeforePtr
        <3>2. b.start \in Nat /\ b.size \in Nat
            BY <2>2, <1>5, ArenaAssumption
        <3> QED BY <3>1, <3>2, <1>2, <1>3, <1>4
    <2> QED BY <2>1, <2>2, <1>4
<1>11. BlockPairsApart'
    <2> SUFFICES ASSUME NEW b \in blocks', NEW c \in blocks', b # c, b.size > 0, c.size > 0
                 PROVE  b.start + b.size <= c.start \/ c.start + c.size <= b.start
        BY DEF BlockPairsApart
    <2>1. CASE b \in blocks /\ c \in blocks
        BY <2>1 DEF ArenaInv, BlockPairsApart
    <2>2. CASE b = n /\ c \in blocks
        BY <2>2, <1>4, <1>7
    <2>3. CASE c = n /\ b \in blocks
        BY <2>3, <1>4, <1>7
    <2> QED BY <2>1, <2>2, <2>3, <1>4
<1> QED BY <1>1, <1>8, <1>9, <1>10, <1>11 DEF ArenaInv

(* Grow takes a region apart from all others; a discarded one holds nothing. *)
LEMMA GrowInv ==
    ASSUME ArenaInv, TypeOK', Grow
    PROVE  ArenaInv'
<1> DEFINE held == IF Unused THEN upstream \ {current} ELSE upstream
<1>1. /\ current' \in Available(NewSize, held)
      /\ upstream' = held \cup {current'}
      /\ earlier' = IF Unused THEN earlier ELSE Arenas
      /\ ptr' = current'.memory
      /\ UNCHANGED <<alive, blocks>>
      /\ alive /\ alive'
    BY DEF Grow, ArenaInv
<1>2. held = earlier'
    BY <1>1 DEF ArenaInv, RegionsReturned, Arenas
<1>3. /\ current' \in [memory : Nat, size : Nat \ {0}]
      /\ \A s \in earlier' : Disjoint(current', s)
    BY <1>1, <1>2, AvailableRegion
<1> HIDE DEF held
<1>4. /\ current \in [memory : Nat, size : Nat \ {0}]
      /\ earlier' \subseteq [memory : Nat, size : Nat \ {0}]
      /\ blocks \subseteq [nr : Nat, start : Nat, size : Sizes]
    BY DEF ArenaInv, TypeOK
<1>5. current' \notin earlier'
    BY <1>3 DEF Disjoint, End
<1>6. RegionsReturned'
    BY <1>1, <1>2 DEF RegionsReturned, Arenas
<1>7. RegionsApart'
    <2> SUFFICES ASSUME NEW r \in Arenas', NEW s \in Arenas', r # s
                 PROVE  Disjoint(r, s)
        BY DEF RegionsApart, Disjoint, End
    <2>1. CASE r \in earlier' /\ s \in earlier'
        BY <2>1, <1>1 DEF ArenaInv, RegionsApart, Arenas
    <2>2. CASE r = current' /\ s \in earlier'
        BY <2>2, <1>3
    <2>3. CASE s = current' /\ r \in earlier'
        BY <2>3, <1>3 DEF Disjoint
    <2> QED BY <2>1, <2>2, <2>3 DEF Arenas
<1>8. ASSUME NEW b \in blocks, b.size > 0
      PROVE  \E region \in earlier' : Within(b, region)
    <2>1. PICK region \in Arenas : Within(b, region)
        BY <1>8 DEF ArenaInv, BlocksHoused
    <2>2. b.start \in Nat /\ b.size \in Nat
        BY <1>4, ArenaAssumption
    <2>3. CASE Unused
        <3>1. region # current
            <4> SUFFICES ASSUME region = current PROVE FALSE
                OBVIOUS
            <4>1. b.start + b.size <= current.memory
                BY <1>8, <2>1, <2>3 DEF ArenaInv, BlocksBeforePtr, Unused
            <4> QED BY <4>1, <2>1, <2>2, <1>4, <1>8 DEF Within
        <3> QED BY <3>1, <2>1, <2>3, <1>1 DEF Arenas
    <2>4. CASE ~ Unused
        BY <2>1, <2>4, <1>1
    <2> QED BY <2>3, <2>4
<1>9. BlocksHoused'
    BY <1>1, <1>8 DEF BlocksHoused, Arenas, Within, End
<1>10. BlocksBeforePtr'
    <2> SUFFICES ASSUME NEW b \in blocks, b.size > 0, Within(b, current')
                 PROVE  FALSE
        BY <1>1 DEF BlocksBeforePtr, Within, End
    <2>1. PICK region \in earlier' : Within(b, region)
        BY <1>8
    <2>2. Disjoint(current', region)
        BY <1>3
    <2>3. region \in [memory : Nat, size : Nat \ {0}] /\ b.start \in Nat /\ b.size \in Nat
        BY <1>4, ArenaAssumption
    <2> QED BY <2>1, <2>2, <2>3, <1>3 DEF Disjoint, Within, End
<1>11. BlockPairsApart'
    BY <1>1 DEF ArenaInv, BlockPairsApart
<1> QED BY <1>1, <1>5, <1>6, <1>7, <1>9, <1>10, <1>11 DEF ArenaInv

(* The inductive invariant holds always: a destroyed arena keeps its blocks  *)
(* and regions in the model, and upstream has none of them.                *)
THEOREM ArenaInvariant == Spec => []ArenaInv
<1>1. Init => ArenaInv
    <2> SUFFICES ASSUME Init PROVE ArenaInv
        OBVIOUS
    <2>1. TypeOK
        BY ArenaInitTypes
    <2>2. Arenas = {current} /\ blocks = {} /\ alive /\ upstream = {current} /\ earlier = {}
        BY DEF Init, Arenas
    <2>3. RegionsReturned /\ RegionsApart
        BY <2>2 DEF RegionsReturned, RegionsApart
    <2>4. BlocksHoused /\ BlocksBeforePtr /\ BlockPairsApart
        BY <2>2 DEF BlocksHoused, BlocksBeforePtr, BlockPairsApart
    <2> QED BY <2>1, <2>2, <2>3, <2>4 DEF ArenaInv
<1>2. ArenaInv /\ TypeOK' /\ [Next]_vars => ArenaInv'
    <2> SUFFICES ASSUME ArenaInv, TypeOK', [Next]_vars PROVE ArenaInv'
        OBVIOUS
    <2>1. ASSUME NEW size \in Sizes, NEW alignment \in Alignments, Allocate(size, alignment)
          PROVE  ArenaInv'
        <3>1. UNCHANGED <<earlier, current, ptr, blocks, upstream>> /\ alive /\ alive'
            BY <2>1 DEF Allocate
        <3>2. Arenas' = Arenas
            BY <3>1 DEF Arenas
        <3> QED BY <3>1, <3>2 DEF ArenaInv, RegionsReturned, RegionsApart, BlocksHoused,
                                 BlocksBeforePtr, BlockPairsApart, Within, End
    <2>2. CASE Serve
        BY <2>2, ServeInv
    <2>3. CASE Grow
        BY <2>3, GrowInv
    <2>4. CASE Destroy
        <3>1. UNCHANGED <<earlier, current, ptr, blocks, request>> /\ alive /\ ~ alive'
              /\ request = {} /\ upstream' = upstream \ Arenas
            BY <2>4 DEF Destroy
        <3>2. Arenas' = Arenas /\ upstream' = {}
            BY <3>1 DEF Arenas, ArenaInv, RegionsReturned
        <3> QED BY <3>1, <3>2 DEF ArenaInv, RegionsReturned, RegionsApart, BlocksHoused,
                                 BlocksBeforePtr, BlockPairsApart, Within, End
    <2>5. CASE UNCHANGED vars
        <3>1. Arenas' = Arenas
            BY <2>5 DEF vars, Arenas
        <3> QED BY <2>5, <3>1 DEF vars, ArenaInv, RegionsReturned, RegionsApart, BlocksHoused,
                                 BlocksBeforePtr, BlockPairsApart, Within, End
    <2> QED BY <2>1, <2>2, <2>3, <2>4, <2>5 DEF Next
<1> QED BY <1>1, <1>2, ArenaTypes, PTL DEF Spec

(* Live blocks never overlap, and each lies in a region that the arena still *)
(* has from upstream, whatever is asked of it.                              *)
THEOREM ArenaBlocksApart == Spec => []BlocksApart
<1>1. ArenaInv => BlocksApart
    BY DEF ArenaInv, BlocksApart, BlocksHoused, BlockPairsApart, RegionsReturned
<1> QED BY <1>1, ArenaInvariant, PTL

(* What the arena knows of and what upstream has handed out are the same, up *)
(* to the destructor, which returns all of it.                              *)
THEOREM ArenaRegionsReturned == Spec => []RegionsReturned
<1>1. ArenaInv => RegionsReturned
    BY DEF ArenaInv
<1> QED BY <1>1, ArenaInvariant, PTL

-----------------------------------------------------------------------------
(* Archive markers and proxies *)

MarkerTypes ==
    /\ built \subseteq Slots
    /\ place \in [MarkerIds -> Slots]
    /\ proxyOf \in [Slots -> SUBSET Proxies]
    /\ proxies \subseteq Proxies
    /\ points \in [Proxies -> [Pointers -> SUBSET Slots]]
    /\ aims \in [Proxies -> SUBSET MarkerIds]

\* Markers live in places of their own.
Apart ==
    /\ \A m, n \in MarkerIds : place[m] = place[n] => m = n
    /\ \A m \in MarkerIds : place[m] \in built

\* A marker knows the proxy that was made for it; nothing else knows one.
PointsBack ==
    /\ \A m \in MarkerIds, p \in Proxies : p \in proxyOf[place[m]] <=> m \in aims[p]
    /\ \A s \in Slots : proxyOf[s] # {} => \E m \in MarkerIds : place[m] = s

\* A proxy points at its markers' places with a pointer for each.
PointsThere ==
    \A p \in Proxies : \A e \in Pointers : \A s \in Slots :
        s \in points[p][e] <=> \E m \in aims[p] : PointerTo(m) = e /\ place[m] = s

\* A marker is the aim of one proxy at a time, and each pointer has one aim.
OneAim ==
    /\ \A p, q \in Proxies : \A m \in aims[p] \cap aims[q] : p = q
    /\ \A p \in Proxies : \A m, n \in aims[p] : PointerTo(m) = PointerTo(n) => m = n
    /\ \A p \in Proxies \ proxies : aims[p] = {}

Agree == MarkerTypes /\ Apart /\ PointsBack /\ PointsThere /\ OneAim

LEMMA PointerKinds == \A m : PointerTo(m) \in Pointers
BY DEF PointerTo, Pointers

\* Markers and proxies agree at first, and each way of making, moving and dropping them keeps that.
LEMMA AgreeInit == MarkersInit => Agree
<1> SUFFICES ASSUME MarkersInit PROVE Agree
  OBVIOUS
<1>1. MarkerTypes
  BY DEF MarkersInit, MarkerTypes, NoPointers
<1>2. Apart
  BY DEF MarkersInit, Apart
<1>3. PointsBack
  BY DEF MarkersInit, PointsBack
<1>4. PointsThere
  BY DEF MarkersInit, PointsThere, NoPointers
<1>5. OneAim
  BY DEF MarkersInit, OneAim
<1> QED
  BY <1>1, <1>2, <1>3, <1>4, <1>5 DEF Agree

\* Whether it is built anew or assigned, a marker that moves to a place without
\* a proxy takes its own along.
LEMMA AgreeMoved ==
    ASSUME Agree, NEW m \in MarkerIds, NEW t \in Slots, t # place[m], proxyOf[t] = {},
           proxyOf' = [proxyOf EXCEPT ![t] = proxyOf[place[m]], ![place[m]] = {}],
           points' = Followed(m, t), UNCHANGED <<proxies, aims>>,
           built' \subseteq Slots, place' \in [MarkerIds -> Slots], place'[m] = t,
           \A n \in MarkerIds \ {m} : place'[n] = place[n] \/ (place[n] = t /\ place'[n] = place[m]),
           Apart'
    PROVE  Agree'
<1> USE DEF Agree
<1>1. MarkerTypes'
  <2>1. points' \in [Proxies -> [Pointers -> SUBSET Slots]]
    BY PointerKinds DEF MarkerTypes, Followed
  <2> QED
    BY <2>1 DEF MarkerTypes
<1>2. \A n \in MarkerIds : aims' = aims /\ (n # m /\ place'[n] # place[n] => \A p \in Proxies : n \notin aims[p])
  BY DEF PointsBack, MarkerTypes
<1>3. PointsBack'
  <2>1. ASSUME NEW n \in MarkerIds, NEW p \in Proxies
        PROVE  p \in proxyOf'[place'[n]] <=> n \in aims'[p]
    <3>1. CASE n = m
      BY <3>1 DEF PointsBack, MarkerTypes
    <3>2. CASE n # m /\ place'[n] = place[n]
      <4>1. place[n] # t /\ place[n] # place[m]
        BY <3>2 DEF Apart, MarkerTypes
      <4> QED
        BY <4>1, <3>2 DEF PointsBack, MarkerTypes
    <3>3. CASE n # m /\ place'[n] # place[n]
      <4>1. place'[n] = place[m] /\ n \notin aims[p]
        BY <3>3, <1>2
      <4> QED
        BY <4>1 DEF MarkerTypes
    <3> QED
      BY <3>1, <3>2, <3>3
  <2>2. ASSUME NEW s \in Slots, proxyOf'[s] # {}
        PROVE  \E n \in MarkerIds : place'[n] = s
    <3>1. s = t \/ (s # t /\ s # place[m] /\ proxyOf[s] # {})
      BY <2>2 DEF MarkerTypes
    <3>2. CASE s = t
      BY <3>2
    <3>3. CASE s # t /\ s # place[m] /\ proxyOf[s] # {}
      <4>1. PICK n \in MarkerIds : place[n] = s
        BY <3>3 DEF PointsBack
      <4>2. n # m /\ place[n] # t
        BY <4>1, <3>3
      <4> QED
        BY <4>1, <4>2
    <3> QED
      BY <3>1, <3>2, <3>3
  <2> QED
    BY <2>1, <2>2 DEF PointsBack
<1>4. PointsThere'
  <2> SUFFICES ASSUME NEW p \in Proxies, NEW e \in Pointers, NEW s \in Slots
               PROVE  s \in points'[p][e] <=> \E n \in aims[p] : PointerTo(n) = e /\ place'[n] = s
    BY DEF PointsThere
  <2>1. \A n \in aims[p] : n \in MarkerIds /\ (n # m => place'[n] = place[n])
    BY <1>2 DEF MarkerTypes
  <2>2. CASE m \notin aims[p]
    <3>1. points'[p] = points[p]
      BY <2>2 DEF PointsBack, Followed, MarkerTypes
    <3>2. \A n \in aims[p] : place'[n] = place[n]
      BY <2>1, <2>2
    <3> QED
      BY <3>1, <3>2 DEF PointsThere
  <2>3. CASE m \in aims[p] /\ PointerTo(m) = e
    <3>1. points'[p][e] = {t}
      BY <2>3, PointerKinds DEF PointsBack, Followed, MarkerTypes
    <3>2. \A n \in aims[p] : PointerTo(n) = e => n = m
      BY <2>3 DEF OneAim
    <3> QED
      BY <3>1, <3>2, <2>3
  <2>4. CASE m \in aims[p] /\ PointerTo(m) # e
    <3>1. points'[p][e] = points[p][e]
      BY <2>4, PointerKinds DEF PointsBack, Followed, MarkerTypes
    <3>2. \A n \in aims[p] : PointerTo(n) = e => place'[n] = place[n]
      BY <2>1, <2>4
    <3> QED
      BY <3>1, <3>2 DEF PointsThere
  <2> QED
    BY <2>2, <2>3, <2>4
<1>5. OneAim'
  BY DEF OneAim
<1> QED
  BY <1>1, <1>3, <1>4, <1>5

LEMMA AgreeConstructed ==
    ASSUME Agree, NEW m \in MarkerIds, NEW t \in Slots, MoveConstruct(m, t)
    PROVE  Agree'
<1> USE DEF Agree
<1>1. t # place[m] /\ \A n \in MarkerIds : place[n] # t
  BY DEF MoveConstruct, Apart
<1>2. proxyOf[t] = {}
  BY <1>1 DEF PointsBack
<1>3. /\ built' \subseteq Slots /\ place' \in [MarkerIds -> Slots] /\ place'[m] = t
      /\ \A n \in MarkerIds \ {m} : place'[n] = place[n]
  BY DEF MoveConstruct, MarkerTypes
<1>4. Apart'
  BY <1>1, <1>3 DEF Apart, MoveConstruct
<1> QED
  BY <1>1, <1>2, <1>3, <1>4, AgreeMoved DEF MoveConstruct

LEMMA AgreeAssigned ==
    ASSUME Agree, NEW m \in MarkerIds, NEW t \in Slots, MoveAssign(m, t)
    PROVE  Agree'
<1> USE DEF Agree
<1>1. t # place[m] /\ proxyOf[t] = {} /\ built' = built
  BY DEF MoveAssign
<1>2. \A n \in MarkerIds :
          place'[n] = IF n = m THEN t ELSE IF place[n] = t THEN place[m] ELSE place[n]
  BY DEF MoveAssign
<1>3. place' \in [MarkerIds -> Slots] /\ built' \subseteq Slots
  BY <1>1 DEF MoveAssign, MarkerTypes
<1>4. Apart'
  <2>1. \A n \in MarkerIds : place'[n] \in built
    BY <1>2 DEF Apart, MoveAssign
  <2>2. \A n, o \in MarkerIds : place'[n] = place'[o] => n = o
    BY <1>1, <1>2 DEF Apart
  <2> QED
    BY <2>1, <2>2, <1>1 DEF Apart
<1> QED
  BY <1>1, <1>2, <1>3, <1>4, AgreeMoved DEF MoveAssign

LEMMA AgreeDestroyed ==
    ASSUME Agree, NEW s \in Slots, DestroySlot(s)
    PROVE  Agree'
BY DEF Agree, DestroySlot, MarkerTypes, Apart, PointsBack, PointsThere, OneAim

\* The slots a proxy points at are the places of its aims.
LEMMA PointedSlots ==
    ASSUME Agree, NEW p \in Proxies, NEW s \in Slots
    PROVE  (\E e \in Pointers : s \in points[p][e]) <=> \E m \in aims[p] : place[m] = s
BY PointerKinds DEF Agree, PointsThere

\* The proxies of the markers change hands: from one proxy to another, or to
\* none, each with the aims it is given.
LEMMA AgreeHanded ==
    ASSUME Agree, UNCHANGED <<built, place>>,
           proxies' \subseteq Proxies,
           aims' \in [Proxies -> SUBSET MarkerIds],
           points' \in [Proxies -> [Pointers -> SUBSET Slots]],
           proxyOf' \in [Slots -> SUBSET Proxies],
           \A m \in MarkerIds, p \in Proxies : p \in proxyOf'[place[m]] <=> m \in aims'[p],
           \A s \in Slots : proxyOf'[s] # {} => \E m \in MarkerIds : place[m] = s,
           PointsThere', OneAim'
    PROVE  Agree'
BY DEF Agree, MarkerTypes, Apart, PointsBack

LEMMA AgreeMade ==
    ASSUME Agree, NEW p \in Proxies, NEW ms \in SUBSET MarkerIds, MakeProxy(p, ms)
    PROVE  Agree'
<1> USE DEF Agree
<1>1. aims[p] = {} /\ \A m \in ms, q \in Proxies : m \notin aims[q]
  BY DEF MakeProxy, HasProxy, PointsBack, OneAim, MarkerTypes
<1>2. \A q \in Proxies : aims'[q] = IF q = p THEN ms ELSE aims[q]
  BY DEF MakeProxy, MarkerTypes
<1>3. aims' \in [Proxies -> SUBSET MarkerIds] /\ proxies' \subseteq Proxies
  BY DEF MakeProxy, MarkerTypes
<1>4. points' \in [Proxies -> [Pointers -> SUBSET Slots]] /\ proxyOf' \in [Slots -> SUBSET Proxies]
  BY DEF MakeProxy, MarkerTypes
<1>5. ASSUME NEW m \in MarkerIds, NEW q \in Proxies
      PROVE  q \in proxyOf'[place[m]] <=> m \in aims'[q]
  <2>1. proxyOf'[place[m]] = IF m \in ms THEN {p} ELSE proxyOf[place[m]]
    BY DEF MakeProxy, MarkerTypes, Apart
  <2> QED
    BY <2>1, <1>1, <1>2 DEF PointsBack
<1>6. ASSUME NEW s \in Slots, proxyOf'[s] # {} PROVE \E m \in MarkerIds : place[m] = s
  BY <1>6 DEF MakeProxy, PointsBack, MarkerTypes
<1>7. PointsThere'
  <2>1. /\ \A q \in Proxies \ {p} : points'[q] = points[q]
        /\ \A e \in Pointers : \A s \in Slots :
               s \in points'[p][e] <=> \E m \in ms : PointerTo(m) = e /\ place[m] = s
    BY DEF MakeProxy, MarkerTypes
  <2>2. place' = place
    BY DEF MakeProxy
  <2>3. ASSUME NEW q \in Proxies, NEW e \in Pointers, NEW s \in Slots
        PROVE  s \in points'[q][e] <=> \E m \in aims'[q] : PointerTo(m) = e /\ place[m] = s
    <3>1. CASE q = p
      BY <3>1, <2>1, <1>2
    <3>2. CASE q # p
      BY <3>2, <2>1, <1>2 DEF PointsThere
    <3> QED
      BY <3>1, <3>2
  <2> QED
    BY <2>2, <2>3 DEF PointsThere
<1>8. OneAim'
  BY <1>1, <1>2 DEF OneAim, MakeProxy
<1> QED
  BY <1>3, <1>4, <1>5, <1>6, <1>7, <1>8, AgreeHanded DEF MakeProxy

\* What the objects under a proxy's pointers are told is told to its aims.
LEMMA ToldAims ==
    ASSUME Agree, NEW p \in Proxies, NEW who \in SUBSET Proxies
    PROVE  /\ Told(p, who) \in [Slots -> SUBSET Proxies]
           /\ \A m \in MarkerIds :
                  Told(p, who)[place[m]] = IF m \in aims[p] THEN who ELSE proxyOf[place[m]]
           /\ \A s \in Slots : Told(p, who)[s] # {} => \E m \in MarkerIds : place[m] = s
<1> USE DEF Agree
<1>1. \A s \in Slots : Told(p, who)[s] = IF \E m \in aims[p] : place[m] = s THEN who ELSE proxyOf[s]
  BY PointedSlots DEF Told
<1>2. Told(p, who) \in [Slots -> SUBSET Proxies]
  BY DEF Told, MarkerTypes
<1>3. \A m \in MarkerIds : (\E n \in aims[p] : place[n] = place[m]) <=> m \in aims[p]
  BY DEF Apart, MarkerTypes
<1>4. \A m \in MarkerIds :
          Told(p, who)[place[m]] = IF m \in aims[p] THEN who ELSE proxyOf[place[m]]
  BY <1>1, <1>3 DEF MarkerTypes
<1>5. \A s \in Slots : Told(p, who)[s] # {} => \E m \in MarkerIds : place[m] = s
  BY <1>1 DEF PointsBack, MarkerTypes
<1> QED
  BY <1>2, <1>4, <1>5

LEMMA AgreeDropped ==
    ASSUME Agree, NEW p \in Proxies, DropProxy(p)
    PROVE  Agree'
<1> USE DEF Agree
<1>1. \A q \in Proxies : /\ aims'[q] = IF q = p THEN {} ELSE aims[q]
                         /\ points'[q] = IF q = p THEN NoPointers ELSE points[q]
  BY DEF DropProxy, MarkerTypes
<1>2. /\ aims' \in [Proxies -> SUBSET MarkerIds] /\ proxies' \subseteq Proxies
      /\ points' \in [Proxies -> [Pointers -> SUBSET Slots]]
  BY DEF DropProxy, MarkerTypes, NoPointers
<1>3. ASSUME NEW m \in MarkerIds, NEW q \in Proxies
      PROVE  q \in proxyOf'[place[m]] <=> m \in aims'[q]
  <2>1. proxyOf'[place[m]] = IF m \in aims[p] THEN {} ELSE proxyOf[place[m]]
    BY ToldAims DEF DropProxy
  <2> QED
    BY <2>1, <1>1 DEF PointsBack, OneAim
<1>4. PointsThere'
  BY <1>1 DEF PointsThere, DropProxy, NoPointers
<1>5. OneAim'
  BY <1>1 DEF OneAim, DropProxy
<1> QED
  BY <1>2, <1>3, <1>4, <1>5, ToldAims, AgreeHanded DEF DropProxy

\* Pointers and aims that pass from one proxy to another still agree.
LEMMA PassedOn ==
    ASSUME Agree, NEW p \in Proxies, NEW q \in Proxies, p # q, place' = place,
           \A r \in Proxies :
               /\ aims'[r] = IF r = p THEN {} ELSE IF r = q THEN aims[p] ELSE aims[r]
               /\ points'[r] = IF r = p THEN NoPointers ELSE IF r = q THEN points[p] ELSE points[r]
    PROVE  /\ PointsThere'
           /\ proxies \ {p} \subseteq proxies' /\ q \in proxies' => OneAim'
<1> USE DEF Agree
<1>1. PointsThere'
  <2> SUFFICES ASSUME NEW r \in Proxies, NEW e \in Pointers, NEW s \in Slots
               PROVE  s \in points'[r][e] <=> \E m \in aims'[r] : PointerTo(m) = e /\ place[m] = s
    BY DEF PointsThere
  <2>1. CASE r = p
    BY <2>1 DEF NoPointers
  <2>2. CASE r = q
    BY <2>2 DEF PointsThere
  <2>3. CASE r # p /\ r # q
    BY <2>3 DEF PointsThere
  <2> QED
    BY <2>1, <2>2, <2>3
<1>2. ASSUME proxies \ {p} \subseteq proxies', q \in proxies' PROVE OneAim'
  <2>1. \A r, s \in Proxies : \A m \in aims'[r] \cap aims'[s] : r = s
    BY DEF OneAim
  <2>2. \A r \in Proxies : \A m, n \in aims'[r] : PointerTo(m) = PointerTo(n) => m = n
    BY DEF OneAim
  <2>3. \A r \in Proxies \ proxies' : aims'[r] = {}
    BY <1>2 DEF OneAim
  <2> QED
    BY <2>1, <2>2, <2>3 DEF OneAim
<1> QED
  BY <1>1, <1>2

LEMMA AgreeMovedProxy ==
    ASSUME Agree, NEW p \in Proxies, NEW q \in Proxies, MoveProxy(p, q)
    PROVE  Agree'
<1> USE DEF Agree
<1>1. p # q /\ aims[q] = {}
  BY DEF MoveProxy, OneAim
<1>2. \A r \in Proxies : /\ aims'[r] = IF r = p THEN {} ELSE IF r = q THEN aims[p] ELSE aims[r]
                         /\ points'[r] = IF r = p THEN NoPointers ELSE IF r = q THEN points[p] ELSE points[r]
  BY <1>1 DEF MoveProxy, MarkerTypes
<1>3. /\ aims' \in [Proxies -> SUBSET MarkerIds] /\ proxies' \subseteq Proxies
      /\ points' \in [Proxies -> [Pointers -> SUBSET Slots]]
  BY DEF MoveProxy, MarkerTypes, NoPointers
<1>4. ASSUME NEW m \in MarkerIds, NEW r \in Proxies
      PROVE  r \in proxyOf'[place[m]] <=> m \in aims'[r]
  <2>1. proxyOf'[place[m]] = IF m \in aims[p] THEN {q} ELSE proxyOf[place[m]]
    BY ToldAims DEF MoveProxy
  <2> QED
    BY <2>1, <1>1, <1>2 DEF PointsBack, OneAim
<1>5. PointsThere'
  BY <1>1, <1>2, PassedOn DEF MoveProxy
<1>6. OneAim'
  <2>1. proxies' = proxies \cup {q} /\ place' = place
    BY DEF MoveProxy
  <2> QED
    BY <2>1, <1>1, <1>2, PassedOn
<1> QED
  BY <1>3, <1>4, <1>5, <1>6, ToldAims, AgreeHanded DEF MoveProxy

LEMMA AgreeAssignedProxy ==
    ASSUME Agree, NEW p \in Proxies, NEW q \in Proxies, AssignProxy(p, q)
    PROVE  Agree'
<1> USE DEF Agree
<1>1. p # q
  BY DEF AssignProxy
<1>2. \A r \in Proxies : /\ aims'[r] = IF r = p THEN {} ELSE IF r = q THEN aims[p] ELSE aims[r]
                         /\ points'[r] = IF r = p THEN NoPointers ELSE IF r = q THEN points[p] ELSE points[r]
  BY <1>1 DEF AssignProxy, MarkerTypes
<1>3. /\ aims' \in [Proxies -> SUBSET MarkerIds] /\ proxies' \subseteq Proxies
      /\ points' \in [Proxies -> [Pointers -> SUBSET Slots]] /\ proxyOf' \in [Slots -> SUBSET Proxies]
  BY DEF AssignProxy, MarkerTypes, NoPointers
<1>4. \A s \in Slots : proxyOf'[s] = IF \E m \in aims[p] : place[m] = s THEN {q}
                                    ELSE IF \E m \in aims[q] : place[m] = s THEN {} ELSE proxyOf[s]
  BY PointedSlots DEF AssignProxy
<1>5. \A m \in MarkerIds : \A r \in Proxies :
          (\E n \in aims[r] : place[n] = place[m]) <=> m \in aims[r]
  BY DEF Apart, MarkerTypes
<1>6. ASSUME NEW m \in MarkerIds, NEW r \in Proxies
      PROVE  r \in proxyOf'[place[m]] <=> m \in aims'[r]
  <2>1. proxyOf'[place[m]] = IF m \in aims[p] THEN {q} ELSE IF m \in aims[q] THEN {} ELSE proxyOf[place[m]]
    BY <1>4, <1>5 DEF MarkerTypes
  <2> QED
    BY <2>1, <1>1, <1>2 DEF PointsBack, OneAim
<1>7. \A s \in Slots : proxyOf'[s] # {} => \E m \in MarkerIds : place[m] = s
  BY <1>4 DEF PointsBack, MarkerTypes
<1>8. PointsThere'
  BY <1>1, <1>2, PassedOn DEF AssignProxy
<1>9. OneAim'
  <2>1. proxies' = proxies \ {p} /\ q \in proxies /\ place' = place
    BY DEF AssignProxy
  <2> QED
    BY <2>1, <1>1, <1>2, PassedOn
<1> QED
  BY <1>3, <1>6, <1>7, <1>8, <1>9, AgreeHanded DEF AssignProxy

LEMMA AgreeStep == Agree /\ [MarkersNext]_markerVars => Agree'
<1> SUFFICES ASSUME Agree, [MarkersNext]_markerVars PROVE Agree'
  OBVIOUS
<1>1. CASE UNCHANGED markerVars
  BY <1>1 DEF markerVars, Agree, MarkerTypes, Apart, PointsBack, PointsThere, OneAim
<1>2. ASSUME NEW m \in MarkerIds, NEW t \in Slots, MoveConstruct(m, t) PROVE Agree'
  BY <1>2, AgreeConstructed
<1>3. ASSUME NEW m \in MarkerIds, NEW t \in Slots, MoveAssign(m, t) PROVE Agree'
  BY <1>3, AgreeAssigned
<1>4. ASSUME NEW s \in Slots, DestroySlot(s) PROVE Agree'
  BY <1>4, AgreeDestroyed
<1>5. ASSUME NEW p \in Proxies, DropProxy(p) PROVE Agree'
  BY <1>5, AgreeDropped
<1>6. ASSUME NEW p \in Proxies, NEW ms \in SUBSET MarkerIds, MakeProxy(p, ms) PROVE Agree'
  BY <1>6, AgreeMade
<1>7. ASSUME NEW p \in Proxies, NEW q \in Proxies, MoveProxy(p, q) PROVE Agree'
  BY <1>7, AgreeMovedProxy
<1>8. ASSUME NEW p \in Proxies, NEW q \in Proxies, AssignProxy(p, q) PROVE Agree'
  BY <1>8, AgreeAssignedProxy
<1> QED
  BY <1>1, <1>2, <1>3, <1>4, <1>5, <1>6, <1>7, <1>8 DEF MarkersNext

LEMMA AgreeFollows == Agree => ProxyFollowsMarker
<1> SUFFICES ASSUME Agree, NEW p \in proxies, NEW m \in aims[p]
             PROVE  points[p][PointerTo(m)] = {place[m]}
  BY DEF ProxyFollowsMarker
<1>1. p \in Proxies /\ m \in MarkerIds /\ place[m] \in Slots /\ points[p][PointerTo(m)] \subseteq Slots
  BY PointerKinds DEF Agree, MarkerTypes
<1>2. \A s \in Slots : s \in points[p][PointerTo(m)] <=> s = place[m]
  BY <1>1, PointerKinds DEF Agree, PointsThere, OneAim
<1> QED
  BY <1>1, <1>2

\* However offsets, sizes, anchors and proxies are moved, a proxy points at the
\* markers it was made for, wherever they are (ArchiveOffset.h, ArchiveSize.h).
THEOREM ProxiesFollowMarkers == MarkersSpec => []ProxyFollowsMarker
<1>1. MarkersInit => Agree
  BY AgreeInit
<1>2. Agree /\ [MarkersNext]_markerVars => Agree'
  BY AgreeStep
<1>3. Agree => ProxyFollowsMarker
  BY AgreeFollows
<1> QED
  BY <1>1, <1>2, <1>3, PTL DEF MarkersSpec

=============================================================================
