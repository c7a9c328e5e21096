--------------------------- MODULE ArchiveMarkers ---------------------------
(***************************************************************************)
(* Offsets, sizes and anchors, and the proxies that fill them in, are         *)
(* objects that point at each other and may be moved: a marker within the    *)
(* list it is an element of, a proxy out of the function that makes it.      *)
(* Whoever moves tells the other side.                                      *)
(***************************************************************************)
EXTENDS Integers, FiniteSets

CONSTANTS
    MarkerIds,  \* the markers of an archive
    Anchors,    \* those of them that are anchors
    Slots,      \* places in memory
    Proxies

VARIABLES
    built,    \* the slots that hold an object
    place,    \* the slot of each marker
    proxyOf,  \* what the object in a slot points at: no proxy or one
    proxies,  \* the proxies there are
    points,   \* what a proxy points at with each of its pointers: no slot or one
    aims      \* the markers a proxy was made for, to say what it should point at

markerVars == <<built, place, proxyOf, proxies, points, aims>>

\* The pointer of a proxy to a marker
PointerTo(m) == IF m \in Anchors THEN "base" ELSE "target"
Pointers     == {"target", "base"}

HasProxy(m) == proxyOf[place[m]] # {}
NoPointers  == [e \in Pointers |-> {}]

MarkersInit ==
    /\ place \in [MarkerIds -> Slots]
    /\ \A m, n \in MarkerIds : place[m] = place[n] => m = n
    /\ built = {place[m] : m \in MarkerIds}
    /\ proxyOf = [s \in Slots |-> {}]
    /\ proxies = {}
    /\ points = [p \in Proxies |-> NoPointers]
    /\ aims = [p \in Proxies |-> {}]

-----------------------------------------------------------------------------
\* The pointers of the marker's proxy once the marker lives in slot t
Followed(m, t) ==
    [p \in Proxies |-> IF p \in proxyOf[place[m]] THEN [points[p] EXCEPT ![PointerTo(m)] = {t}] ELSE points[p]]

\* Faulty variant of MoveConstruct: the proxy is not told.
MoveConstructSilently(m, t) ==
    /\ t \notin built
    /\ built' = built \cup {t}
    /\ place' = [place EXCEPT ![m] = t]
    /\ proxyOf' = [proxyOf EXCEPT ![t] = proxyOf[place[m]], ![place[m]] = {}]
    /\ UNCHANGED <<proxies, points, aims>>

\* Marker(Marker&&): a list that grows builds its elements in a new place.
MoveConstruct(m, t) ==
    /\ t \notin built
    /\ built' = built \cup {t}
    /\ place' = [place EXCEPT ![m] = t]
    /\ proxyOf' = [proxyOf EXCEPT ![t] = proxyOf[place[m]], ![place[m]] = {}]
    /\ points' = Followed(m, t)
    /\ UNCHANGED <<proxies, aims>>

\* operator=(Marker&&): the two objects change places.  A proxy of the marker
\* that was assigned to would not be told; indices are erased from their table
\* while there is no proxy.
MoveAssign(m, t) ==
    /\ t \in built \ {place[m]}
    /\ proxyOf[t] = {}
    /\ place' = [n \in MarkerIds |-> IF n = m THEN t ELSE IF place[n] = t THEN place[m] ELSE place[n]]
    /\ proxyOf' = [proxyOf EXCEPT ![t] = proxyOf[place[m]], ![place[m]] = {}]
    /\ points' = Followed(m, t)
    /\ UNCHANGED <<built, proxies, aims>>

\* What a marker was moved out of is destroyed.
DestroySlot(s) ==
    /\ s \in built
    /\ \A m \in MarkerIds : place[m] # s
    /\ built' = built \ {s}
    /\ UNCHANGED <<place, proxyOf, proxies, points, aims>>

-----------------------------------------------------------------------------
\* What the objects a proxy points at are told
Told(p, who) ==
    [s \in Slots |-> IF \E e \in Pointers : s \in points[p][e] THEN who ELSE proxyOf[s]]

\* proxy(offset), or proxy(size, base): one pointer for each of them
MakeProxy(p, ms) ==
    /\ p \notin proxies
    /\ \E m \in ms : PointerTo(m) = "target"
    /\ \A m \in ms : ~HasProxy(m)
    /\ \A m, n \in ms : PointerTo(m) = PointerTo(n) => m = n
    /\ proxies' = proxies \cup {p}
    /\ aims' = [aims EXCEPT ![p] = ms]
    /\ points' = [points EXCEPT ![p] =
                      [e \in Pointers |-> {s \in Slots : \E m \in ms : PointerTo(m) = e /\ place[m] = s}]]
    /\ proxyOf' = [s \in Slots |-> IF \E m \in ms : place[m] = s THEN {p} ELSE proxyOf[s]]
    /\ UNCHANGED <<built, place>>

\* Proxy(Proxy&&): the new one has the pointers, the old one none.
MoveProxy(p, q) ==
    /\ p \in proxies /\ q \notin proxies
    /\ proxies' = proxies \cup {q}
    /\ points' = [points EXCEPT ![q] = points[p], ![p] = NoPointers]
    /\ aims' = [aims EXCEPT ![q] = aims[p], ![p] = {}]
    /\ proxyOf' = Told(p, {q})
    /\ UNCHANGED <<built, place>>

\* operator=(Proxy&&) from a proxy that is destroyed next, with the pointers it
\* was given in exchange
AssignProxy(p, q) ==
    /\ p \in proxies /\ q \in proxies \ {p}
    /\ proxies' = proxies \ {p}
    /\ points' = [points EXCEPT ![q] = points[p], ![p] = NoPointers]
    /\ aims' = [aims EXCEPT ![q] = aims[p], ![p] = {}]
    /\ proxyOf' = [s \in Slots |-> IF \E e \in Pointers : s \in points[p][e] THEN {q}
                                   ELSE IF \E e \in Pointers : s \in points[q][e] THEN {} ELSE proxyOf[s]]
    /\ UNCHANGED <<built, place>>

\* ~Proxy()
DropProxy(p) ==
    /\ p \in proxies
    /\ proxies' = proxies \ {p}
    /\ proxyOf' = Told(p, {})
    /\ points' = [points EXCEPT ![p] = NoPointers]
    /\ aims' = [aims EXCEPT ![p] = {}]
    /\ UNCHANGED <<built, place>>

MarkersNext ==
    \/ \E m \in MarkerIds, t \in Slots : MoveConstruct(m, t) \/ MoveAssign(m, t)
    \/ \E s \in Slots : DestroySlot(s)
    \/ \E p \in Proxies : DropProxy(p)
    \/ \E p \in Proxies, ms \in SUBSET MarkerIds : MakeProxy(p, ms)
    \/ \E p, q \in Proxies : MoveProxy(p, q) \/ AssignProxy(p, q)

MarkersSpec == MarkersInit /\ [][MarkersNext]_markerVars

-----------------------------------------------------------------------------
\* However markers and proxies are moved, a proxy points at the markers it was
\* made for, where they live now: an archive seeks and writes there.
ProxyFollowsMarker ==
    \A p \in proxies : \A m \in aims[p] : points[p][PointerTo(m)] = {place[m]}

=============================================================================
