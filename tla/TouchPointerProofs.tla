------------------------- MODULE TouchPointerProofs -------------------------
(* Theorems about TouchPointer, for any number of popups and fingers.       *)
EXTENDS TouchPointer, Trees

(* Popups form a forest, in which Offset and JavaOrigin are sums.           *)
Nodes == Surfaces \cup {None}

Forest ==
  /\ \A p \in Pops : parent[p] \in Pops => Created(parent[p])
  /\ \E n, rank : IsForest(Nodes, Pops, parent, n, rank)

(* The list of popups has no popup twice.                                   *)
Listed == stack \in Seq(Pops) /\ \A k, l \in DOMAIN stack : stack[k] = stack[l] => k = l

Sound == TypeOK /\ Forest /\ Listed

AllRects == Rects \cup {NoRect}

LEMMA OriginIsSum ==
  ASSUME Forest, NEW rect \in [Pops -> AllRects]
  PROVE  /\ Origin(rect) \in [Nodes -> Int]
         /\ \A s \in Nodes :
              Origin(rect)[s] = IF s \in Pops THEN rect[s].x + Origin(rect)[parent[s]] ELSE 0
  <1> DEFINE F == [z \in Pops \X Int |-> rect[z[1]].x + z[2]]
             base == [s \in Nodes |-> 0]
             o == Origin(rect)
  <1>1. PICK n, rank : IsForest(Nodes, Pops, parent, n, rank)
    BY DEF Forest
  <1>2. \A p \in Pops : rect[p].x \in Int /\ parent[p] \in Nodes
    BY <1>1, SpaceAssumption DEF AllRects, NoRect, IsForest
  <1>3. IsStep(Nodes, Pops, Int, base, F)
    BY <1>2 DEF IsStep
  <1>4. \A p \in Pops, i \in Int : F[<<p, i>>] = rect[p].x + i
    OBVIOUS
  <1>5. \A s \in Nodes : base[s] = 0
    OBVIOUS
  <1> HIDE DEF F, base
  <1>6. PICK g \in [Nodes -> Int] :
          \A s \in Nodes : g[s] = IF s \in Pops THEN F[<<s, g[parent[s]]>>] ELSE base[s]
    BY <1>1, <1>3, TreeFunction
  <1>7. g = [s \in Nodes |-> IF s \in Pops THEN rect[s].x + g[parent[s]] ELSE 0]
    BY <1>2, <1>4, <1>5, <1>6
  <1>8. o = [s \in Nodes |-> IF s \in Pops THEN rect[s].x + o[parent[s]] ELSE 0]
    BY <1>7 DEF Origin, Nodes
  <1> DEFINE G == {s \in Nodes : o[s] \in Int}
  <1> HIDE DEF o
  <1>9. \A s \in Nodes : (s \in Pops => parent[s] \in G) => s \in G
    BY <1>2, <1>8
  <1>10. Nodes \subseteq G
    <2> HIDE DEF G
    <2> QED
      BY <1>1, <1>9, AllNodes
  <1>11. o \in [Nodes -> Int]
    BY <1>8, <1>10
  <1> QED
    BY <1>8, <1>11 DEF o


LEMMA MinIsLeast ==
  ASSUME NEW T \in SUBSET Nat, T # {}
  PROVE  Min(T) \in T /\ \A m \in T : Min(T) <= m
  BY Least DEF Min

LEMMA Prepended ==
  ASSUME NEW S, NEW s \in Seq(S), NEW e \in S
  PROVE  /\ <<e>> \o s \in Seq(S) /\ Len(<<e>> \o s) = Len(s) + 1 /\ (<<e>> \o s)[1] = e
         /\ \A k \in 1 .. Len(s) : (<<e>> \o s)[k + 1] = s[k]
  OBVIOUS

LEMMA Concatenated ==
  ASSUME NEW S, NEW s \in Seq(S), NEW t \in Seq(S)
  PROVE  /\ s \o t \in Seq(S) /\ Len(s \o t) = Len(s) + Len(t)
         /\ \A k \in 1 .. Len(s) + Len(t) :
              (s \o t)[k] = IF k <= Len(s) THEN s[k] ELSE t[k - Len(s)]
  OBVIOUS

LEMMA RemovedAt ==
  ASSUME NEW S, NEW s \in Seq(S), NEW k \in 1 .. Len(s)
  PROVE  /\ RemoveAt(s, k) \in Seq(S) /\ Len(RemoveAt(s, k)) = Len(s) - 1
         /\ \A j \in 1 .. Len(s) - 1 : RemoveAt(s, k)[j] = IF j < k THEN s[j] ELSE s[j + 1]
  <1> DEFINE a == SubSeq(s, 1, k - 1)
             b == SubSeq(s, k + 1, Len(s))
  <1>1. a \in Seq(S) /\ Len(a) = k - 1 /\ \A j \in 1 .. k - 1 : a[j] = s[j]
    OBVIOUS
  <1>2. b \in Seq(S) /\ Len(b) = Len(s) - k /\ \A j \in 1 .. Len(s) - k : b[j] = s[k + j]
    OBVIOUS
  <1>3. RemoveAt(s, k) = a \o b
    BY DEF RemoveAt
  <1> HIDE DEF a, b
  <1>4. /\ a \o b \in Seq(S) /\ Len(a \o b) = Len(a) + Len(b)
        /\ \A j \in 1 .. Len(a) + Len(b) :
             (a \o b)[j] = IF j <= Len(a) THEN a[j] ELSE b[j - Len(a)]
    BY <1>1, <1>2, Concatenated
  <1>5. Len(a) + Len(b) = Len(s) - 1 /\ Len(s) \in Nat
    BY <1>1, <1>2
  <1>6. \A j \in 1 .. Len(s) - 1 : j <= Len(a) <=> j < k
    BY <1>1, <1>5
  <1>7. \A j \in 1 .. Len(s) - 1 : ~(j < k) => b[j - Len(a)] = s[j + 1]
    <2> TAKE j \in 1 .. Len(s) - 1
    <2> SUFFICES ASSUME ~(j < k) PROVE b[j - Len(a)] = s[j + 1]
      OBVIOUS
    <2>1. j - Len(a) \in 1 .. Len(s) - k /\ k + (j - Len(a)) = j + 1
      BY <1>1, <1>5
    <2> QED
      BY <1>2, <2>1
  <1>8. \A j \in 1 .. Len(s) - 1 : j < k => a[j] = s[j]
    BY <1>1, <1>5
  <1> QED
    BY <1>3, <1>4, <1>5, <1>6, <1>7, <1>8

(* The nodes pick_child goes through. *)
Start == [node |-> Top, at |-> 0]

LEMMA PathSteps ==
  ASSUME NEW x
  PROVE  /\ Path(x)[0] = Start
         /\ \A d \in 0 .. MaxDepth : Path(x)[d + 1] = Enter(Path(x)[d], x)
  <1> DEFINE IsPath(f, k) == f = [d \in 0 .. k |-> IF d = 0 THEN Start ELSE Enter(f[d - 1], x)]
             T == {k \in Nat : \E f : IsPath(f, k)}
  <1>1. 0 \in T
    <2>1. IsPath([d \in 0 .. 0 |-> Start], 0)
      OBVIOUS
    <2> QED
      BY <2>1
  <1>2. ASSUME NEW k \in Nat, k \in T PROVE k + 1 \in T
    <2>1. PICK f : IsPath(f, k)
      BY <1>2
    <2> DEFINE g == [d \in 0 .. k + 1 |-> IF d = k + 1 THEN Enter(f[k], x) ELSE f[d]]
    <2>2. \A d \in 0 .. k + 1 : g[d] = IF d = 0 THEN Start ELSE Enter(g[d - 1], x)
      BY <2>1
    <2>3. IsPath(g, k + 1)
      BY <2>2
    <2> HIDE DEF g, IsPath
    <2> QED
      BY <2>3
  <1> HIDE DEF T
  <1>3. MaxDepth + 1 \in T
    BY <1>1, <1>2, AllNaturals DEF MaxDepth
  <1>4. IsPath(Path(x), MaxDepth + 1)
    BY <1>3 DEF T, Path, Start
  <1> QED
    BY <1>4 DEF MaxDepth

LEMMA EnterNode ==
  ASSUME stack \in Seq(Pops), NEW n, n.node \in Surfaces, NEW x
  PROVE  Enter(n, x).node \in Surfaces
  <1>1. CASE Hits(n, x) = {}
    BY <1>1 DEF Enter
  <1>2. CASE Hits(n, x) # {}
    <2>1. Hits(n, x) \in SUBSET Nat /\ Hits(n, x) \subseteq DOMAIN stack
      BY DEF Hits
    <2>2. Min(Hits(n, x)) \in DOMAIN stack
      BY <1>2, <2>1, MinIsLeast
    <2> QED
      BY <1>2, <2>2 DEF Enter, Surfaces
  <1> QED
    BY <1>1, <1>2

LEMMA PickIsSurface ==
  ASSUME stack \in Seq(Pops), NEW x
  PROVE  Pick(x) \in Surfaces
  <1> DEFINE T == {d \in Nat : d <= MaxDepth + 1 => Path(x)[d].node \in Surfaces}
  <1>1. 0 \in T
    BY PathSteps DEF Start, Surfaces
  <1>2. ASSUME NEW d \in Nat, d \in T PROVE d + 1 \in T
    BY <1>2, PathSteps, EnterNode DEF MaxDepth
  <1> HIDE DEF T
  <1>3. MaxDepth + 1 \in T
    BY <1>1, <1>2, AllNaturals DEF MaxDepth
  <1> QED
    BY <1>3 DEF T, Pick, MaxDepth

-----------------------------------------------------------------------------
(* TypeOK, by the parts that steps change together. *)
PopupsOK ==
  /\ parent \in [Pops -> Nodes] /\ ToSet(stack) = {p \in Pops : Created(p)}
  /\ bounds \in [Pops -> AllRects] /\ java \in [Pops -> AllRects]
FingersOK == touch \in [Surfaces -> SUBSET Fingers] /\ pos \in [Fingers -> X]
GestureOK ==
  /\ down \in BOOLEAN /\ downX \in Int /\ (IF down THEN target \in Surfaces ELSE target = None)
  /\ out \in [kind : {"none", "press", "motion", "release"},
              to : Surfaces \cup {None}, at : Int]
  /\ press \in [held : SUBSET Surfaces, at : Int, landed : X,
                steady : BOOLEAN, orphan : BOOLEAN]

LEMMA TypeParts == TypeOK <=> PopupsOK /\ FingersOK /\ GestureOK
  BY DEF TypeOK, PopupsOK, FingersOK, GestureOK, Nodes, AllRects

LEMMA Offsets ==
  ASSUME Sound, NEW v \in Nodes
  PROVE  /\ Offset(v) \in Int /\ JavaOrigin(v) \in Int
         /\ \A x \in X : ToToplevel(v, x) \in Int
  <1>1. Offset(v) \in Int /\ JavaOrigin(v) \in Int
    BY TypeParts, OriginIsSum DEF Sound, PopupsOK, Offset, JavaOrigin
  <1>2. X \subseteq Int
    BY SpaceAssumption DEF X
  <1> QED
    BY <1>1, <1>2 DEF ToToplevel

LEMMA EmitType ==
  ASSUME Sound, NEW kind \in {"press", "motion", "release"}, NEW to \in Surfaces,
         NEW x \in Int, Emit(kind, to, x)
  PROVE  out' \in [kind : {"none", "press", "motion", "release"},
                  to : Surfaces \cup {None}, at : Int]
  BY Offsets DEF Emit, Nodes

LEMMA SilenceType ==
  Silence \in [kind : {"none", "press", "motion", "release"},
              to : Surfaces \cup {None}, at : Int]
  BY DEF Silence

LEMMA QuietType ==
  /\ GestureOK /\ Ignored => GestureOK'
  /\ GestureOK /\ Disturbed => GestureOK'
  <1>1. GestureOK /\ Ignored => GestureOK'
    BY SilenceType DEF GestureOK, Ignored, gesture
  <1>2. ASSUME GestureOK, Disturbed PROVE GestureOK'
    <2>1. press' \in [held : SUBSET Surfaces, at : Int, landed : X,
                     steady : BOOLEAN, orphan : BOOLEAN]
      BY <1>2 DEF GestureOK, Disturbed
    <2>2. out' \in [kind : {"none", "press", "motion", "release"},
                   to : Surfaces \cup {None}, at : Int]
      BY <1>2, SilenceType DEF Disturbed
    <2> QED
      BY <1>2, <2>1, <2>2 DEF GestureOK, Disturbed, gesture
  <1> QED
    BY <1>1, <1>2

LEMMA OnDownType ==
  ASSUME Sound, NEW v \in Surfaces, NEW x \in X, OnDown(v, x)
  PROVE  GestureOK'
  <1>0. GestureOK
    BY TypeParts DEF Sound
  <1>1. CASE down /\ Disturbed
    BY <1>0, <1>1, QuietType
  <1>2. CASE ~down
    <2>1. /\ down' = TRUE /\ downX' = ToToplevel(v, x) /\ target' = Pick(downX')
          /\ Emit("press", target', downX')
          /\ press' = [press EXCEPT !.held = @ \cup {target'}, !.at = out'.at,
                                    !.landed = x, !.steady = Alone, !.orphan = FALSE]
      BY <1>2 DEF OnDown
    <2>2. downX' \in Int /\ target' \in Surfaces
      BY <2>1, Offsets, PickIsSurface DEF Nodes, Sound, Listed
    <2>3. out' \in [kind : {"none", "press", "motion", "release"},
                   to : Surfaces \cup {None}, at : Int]
      BY <2>1, <2>2, EmitType
    <2>4. Alone \in BOOLEAN
      BY DEF Alone
    <2>5. press' \in [held : SUBSET Surfaces, at : Int, landed : X,
                     steady : BOOLEAN, orphan : BOOLEAN]
      BY <1>0, <2>1, <2>2, <2>3, <2>4 DEF GestureOK
    <2> QED
      BY <2>1, <2>2, <2>3, <2>5 DEF GestureOK
  <1> QED
    BY <1>1, <1>2 DEF OnDown

LEMMA OnMoveType ==
  ASSUME Sound, NEW v \in Surfaces, NEW x \in X, OnMove(v, x)
  PROVE  GestureOK'
  <1>0. GestureOK
    BY TypeParts DEF Sound
  <1>1. CASE ~down /\ Ignored
    BY <1>0, <1>1, QuietType
  <1>2. CASE down /\ Emit("motion", target, ToToplevel(v, x)) /\ UNCHANGED <<gesture, press>>
    <2>1. target \in Surfaces /\ ToToplevel(v, x) \in Int
      BY <1>0, <1>2, Offsets DEF GestureOK, Nodes
    <2> QED
      BY <1>0, <1>2, <2>1, EmitType DEF GestureOK, gesture
  <1> QED
    BY <1>1, <1>2 DEF OnMove

LEMMA OnUpType ==
  ASSUME Sound, NEW v \in Surfaces, NEW x \in X, OnUp(v, x)
  PROVE  GestureOK'
  <1>0. GestureOK
    BY TypeParts DEF Sound
  <1>1. CASE ~down /\ Ignored
    BY <1>0, <1>1, QuietType
  <1>2. CASE down
    <2>1. /\ target \in Surfaces /\ ReleaseX(ToToplevel(v, x)) \in Int
      BY <1>0, <1>2, Offsets DEF GestureOK, Nodes, ReleaseX
    <2>2. /\ Emit("release", target, ReleaseX(ToToplevel(v, x)))
          /\ press' = [NoPress EXCEPT !.held = press.held \ {target}]
          /\ EndGesture
      BY <1>2 DEF OnUp
    <2>3. out' \in [kind : {"none", "press", "motion", "release"},
                   to : Surfaces \cup {None}, at : Int]
      BY <2>1, <2>2, EmitType
    <2>4. press' \in [held : SUBSET Surfaces, at : Int, landed : X,
                     steady : BOOLEAN, orphan : BOOLEAN]
      <3>1. press' = [held |-> press.held \ {target}, at |-> 0, landed |-> 0,
                      steady |-> FALSE, orphan |-> FALSE]
        BY <2>2 DEF NoPress
      <3>2. press.held \ {target} \in SUBSET Surfaces /\ 0 \in X
        BY <1>0, SpaceAssumption DEF GestureOK, X
      <3> QED
        BY <3>1, <3>2
    <2> QED
      BY <1>0, <2>2, <2>3, <2>4 DEF GestureOK, EndGesture
  <1> QED
    BY <1>1, <1>2 DEF OnUp

LEMMA PrimaryIsFinger ==
  ASSUME FingersOK, NEW v \in Surfaces, touch[v] # {}, NEW at \in [Fingers -> X]
  PROVE  Min(touch[v]) \in touch[v] /\ Primary(v, at) \in X
  BY MinIsLeast, SpaceAssumption DEF FingersOK, Primary

LEMMA InitSound == Init => Sound
  <1> SUFFICES ASSUME Init PROVE Sound
    OBVIOUS
  <1> USE DEF Init
  <1>a. PopupsOK
    <2>1. ToSet(stack) = {}
      BY DEF ToSet
    <2> QED
      BY <2>1 DEF PopupsOK, Nodes, Created, AllRects
  <1>b. FingersOK /\ 0 \in X
    BY SpaceAssumption DEF FingersOK, X
  <1>c. GestureOK
    <2>1. press \in [held : SUBSET Surfaces, at : Int, landed : X,
                    steady : BOOLEAN, orphan : BOOLEAN]
      BY <1>b DEF NoPress
    <2>2. ~down /\ down \in BOOLEAN
      BY Zenon
    <2>3. downX \in Int /\ target = None /\ out = Silence
      OBVIOUS
    <2> HIDE DEF Init
    <2> QED
      BY <2>1, <2>2, <2>3, SilenceType DEF GestureOK
  <1>1. TypeOK
    BY <1>a, <1>b, <1>c, TypeParts
  <1>2. IsForest(Nodes, Pops, parent, 1, [p \in Pops |-> 0])
    BY SurfacesAssumption DEF Init, IsForest, Nodes, Surfaces
  <1>3. Forest
    BY <1>2, SurfacesAssumption DEF Init, Forest
  <1>4. Listed
    BY DEF Init, Listed
  <1> QED
    BY <1>1, <1>3, <1>4 DEF Sound

(* Popups come and go at the leaves of the forest. *)
LEMMA CreateSound ==
  ASSUME Sound, NEW p \in Pops, NEW q \in Surfaces, Create(p, q)
  PROVE  PopupsOK' /\ Forest' /\ Listed'
  <1>0. PopupsOK /\ Forest /\ Listed /\ p \notin ToSet(stack)
    BY TypeParts DEF Sound, Create, PopupsOK
  <1>1. /\ ~Created(p) /\ (q \in Pops => Created(q)) /\ UNCHANGED <<bounds, java>>
        /\ parent' = [parent EXCEPT ![p] = q] /\ stack' = <<p>> \o stack
    BY DEF Create
  <1>2. q # p /\ q # None /\ q \in Nodes
    BY <1>1, SurfacesAssumption DEF Surfaces, Nodes
  <1>3. parent' \in [Pops -> Nodes] /\ \A r \in Pops : parent'[r] = IF r = p THEN q ELSE parent[r]
    BY <1>0, <1>1, <1>2 DEF PopupsOK
  <1>4. \A r \in Pops : parent[r] # p
    BY <1>0, <1>1 DEF Forest
  <1>5. /\ stack' \in Seq(Pops) /\ Len(stack') = Len(stack) + 1 /\ stack'[1] = p
        /\ \A k \in 1 .. Len(stack) : stack'[k + 1] = stack[k]
    BY <1>0, <1>1, Prepended DEF Listed
  <1>6. \A k \in DOMAIN stack' : k = 1 \/ (k - 1 \in DOMAIN stack /\ stack'[k] = stack[k - 1])
    BY <1>0, <1>5 DEF Listed
  <1>7. ToSet(stack') = ToSet(stack) \cup {p}
    <2>1. \A e \in ToSet(stack') : e \in ToSet(stack) \cup {p}
      BY <1>5, <1>6 DEF ToSet
    <2>2. \A k \in DOMAIN stack : k + 1 \in DOMAIN stack' /\ stack'[k + 1] = stack[k]
      BY <1>0, <1>5 DEF Listed
    <2>3. \A e \in ToSet(stack) \cup {p} : e \in ToSet(stack')
      BY <1>5, <2>2 DEF ToSet
    <2> QED
      BY <2>1, <2>3
  <1>8. Listed'
    <2>1. \A k \in DOMAIN stack : stack[k] # p
      BY <1>0 DEF ToSet
    <2>2. \A k, l \in DOMAIN stack' : stack'[k] = stack'[l] => k = l
      BY <1>0, <1>5, <1>6, <2>1 DEF Listed
    <2> QED
      BY <1>5, <2>2 DEF Listed
  <1>9. Forest'
    <2>1. PICK n, rank : IsForest(Nodes, Pops, parent, n, rank)
      BY <1>0 DEF Forest
    <2> DEFINE rankp == [rank EXCEPT ![p] = IF q \in Pops THEN rank[q] + 1 ELSE 0]
    <2>2. IsForest(Nodes, Pops, parent', n + 1, rankp)
      BY <1>2, <1>3, <1>4, <2>1 DEF IsForest
    <2>3. \A r \in Pops : parent'[r] \in Pops => parent'[parent'[r]] # None
      BY <1>0, <1>1, <1>2, <1>3, <1>4 DEF Forest, Created
    <2> HIDE DEF rankp
    <2> QED
      BY <2>2, <2>3 DEF Forest, Created
  <1> QED
    BY <1>0, <1>1, <1>2, <1>3, <1>7, <1>8, <1>9 DEF PopupsOK, Created

LEMMA CloseSound ==
  ASSUME Sound, NEW p \in Pops, Close(p)
  PROVE  PopupsOK' /\ Forest' /\ Listed'
  <1>0. PopupsOK /\ Forest /\ Listed
    BY TypeParts DEF Sound
  <1>1. bounds' \in [Pops -> AllRects] /\ java' \in [Pops -> AllRects]
    BY <1>0 DEF Close, PopupsOK, AllRects
  <1>2. CASE UNCHANGED <<parent, stack>>
    BY <1>0, <1>1, <1>2 DEF PopupsOK, Forest, Listed, Created
  <1>3. CASE /\ \A q \in Pops : parent[q] # p
             /\ parent' = [parent EXCEPT ![p] = None]
             /\ \E k \in DOMAIN stack : stack[k] = p /\ stack' = RemoveAt(stack, k)
    <2>1. PICK k \in DOMAIN stack : stack[k] = p /\ stack' = RemoveAt(stack, k)
      BY <1>3
    <2>2. /\ stack \in Seq(Pops) /\ Len(stack) \in Nat /\ k \in 1 .. Len(stack)
          /\ DOMAIN stack = 1 .. Len(stack)
      BY <1>0 DEF Listed
    <2>3. /\ stack' \in Seq(Pops) /\ Len(stack') = Len(stack) - 1
          /\ \A j \in 1 .. Len(stack) - 1 : stack'[j] = IF j < k THEN stack[j] ELSE stack[j + 1]
      BY <2>1, <2>2, RemovedAt
    <2> DEFINE old(j) == IF j < k THEN j ELSE j + 1
    <2>4. DOMAIN stack' = 1 .. Len(stack) - 1
      BY <2>3
    <2>5. \A j \in DOMAIN stack' :
            old(j) \in DOMAIN stack /\ old(j) # k /\ stack'[j] = stack[old(j)]
      BY <2>2, <2>3, <2>4
    <2>6. \A i \in DOMAIN stack : i # k => \E j \in DOMAIN stack' : i = old(j)
      <3> TAKE i \in DOMAIN stack
      <3> SUFFICES ASSUME i # k PROVE \E j \in DOMAIN stack' : i = old(j)
        OBVIOUS
      <3>1. CASE i < k
        BY <3>1, <2>2, <2>4
      <3>2. CASE i > k
        <4>1. i - 1 \in DOMAIN stack' /\ i = old(i - 1)
          BY <3>2, <2>2, <2>4
        <4> QED
          BY <4>1
      <3> QED
        BY <3>1, <3>2, <2>2
    <2>7. \A i, j \in DOMAIN stack' : old(i) = old(j) => i = j
      BY <2>2, <2>4
    <2> HIDE DEF old
    <2>8. ToSet(stack') = ToSet(stack) \ {p}
      <3>1. \A e \in ToSet(stack') : e \in ToSet(stack) /\ e # p
        BY <1>0, <2>1, <2>5 DEF ToSet, Listed
      <3>2. \A e \in ToSet(stack) : e # p => e \in ToSet(stack')
        BY <2>1, <2>5, <2>6 DEF ToSet
      <3> QED
        BY <3>1, <3>2
    <2>9. Listed'
      BY <1>0, <2>3, <2>5, <2>7 DEF Listed
    <2>10. parent' \in [Pops -> Nodes] /\ \A r \in Pops : parent'[r] = IF r = p THEN None ELSE parent[r]
      BY <1>0, <1>3 DEF PopupsOK, Nodes
    <2>11. Forest'
      <3>1. PICK n, rank : IsForest(Nodes, Pops, parent, n, rank)
        BY <1>0 DEF Forest
      <3>2. IsForest(Nodes, Pops, parent', n, rank)
        BY <3>1, <2>10, SurfacesAssumption DEF IsForest
      <3>3. \A r \in Pops : parent'[r] \in Pops => parent'[parent'[r]] # None
        BY <1>0, <1>3, <2>10, SurfacesAssumption DEF Forest, Created
      <3> QED
        BY <3>2, <3>3 DEF Forest, Created
    <2> QED
      BY <1>0, <1>1, <2>8, <2>9, <2>10, <2>11 DEF PopupsOK, Created
  <1> QED
    BY <1>2, <1>3 DEF Close

LEMMA StepSound == Sound /\ [Next]_vars => Sound'
  <1> SUFFICES ASSUME Sound, [Next]_vars PROVE Sound'
    OBVIOUS
  <1>0. PopupsOK /\ FingersOK /\ GestureOK /\ Forest /\ Listed
    BY TypeParts DEF Sound
  <1>q. ASSUME UNCHANGED popups, FingersOK', GestureOK' PROVE Sound'
    <2>1. PopupsOK' /\ Forest' /\ Listed'
      BY <1>0, <1>q DEF popups, PopupsOK, Forest, Listed, Created
    <2> QED
      BY <1>q, <2>1, TypeParts, PTL DEF Sound
  <1>1. ASSUME NEW v \in Surfaces, NEW x \in X, FingerDown(v, x) PROVE Sound'
    <2> DEFINE f == Min(Fingers \ Touching)
    <2>1. f \in Fingers
      BY <1>1, MinIsLeast, SpaceAssumption DEF FingerDown
    <2>2. FingersOK'
      BY <1>0, <1>1, <2>1 DEF FingerDown, FingersOK
    <2>3. GestureOK'
      BY <1>0, <1>1, OnDownType, QuietType DEF FingerDown
    <2> QED
      BY <1>1, <1>q, <2>2, <2>3 DEF FingerDown
  <1>2. ASSUME NEW v \in Surfaces, NEW f \in Fingers, NEW x \in X, FingerMove(v, f, x)
        PROVE  Sound'
    <2>1. pos' \in [Fingers -> X] /\ touch' = touch /\ touch[v] # {}
      BY <1>0, <1>2 DEF FingerMove, FingersOK
    <2>2. Primary(v, pos') \in X
      BY <1>0, <2>1, PrimaryIsFinger
    <2>3. GestureOK'
      BY <1>2, <2>2, OnMoveType DEF FingerMove
    <2> QED
      BY <1>0, <1>2, <1>q, <2>1, <2>3 DEF FingerMove, FingersOK
  <1>3. ASSUME NEW v \in Surfaces, NEW f \in Fingers, FingerUp(v, f) PROVE Sound'
    <2>1. FingersOK' /\ pos[f] \in X
      BY <1>0, <1>3 DEF FingerUp, FingersOK
    <2>2. GestureOK'
      BY <1>0, <1>3, <2>1, OnUpType, QuietType DEF FingerUp
    <2> QED
      BY <1>3, <1>q, <2>1, <2>2 DEF FingerUp
  <1>4. ASSUME NEW v \in Surfaces, Cancel(v) PROVE Sound'
    <2>1. FingersOK' /\ touch[v] # {}
      BY <1>0, <1>4 DEF Cancel, FingersOK
    <2>2. Primary(v, pos) \in X
      BY <1>0, <2>1, PrimaryIsFinger DEF FingersOK
    <2>3. GestureOK'
      BY <1>4, <2>2, OnUpType DEF Cancel, OnCancel
    <2> QED
      BY <1>4, <1>q, <2>1, <2>3 DEF Cancel
  <1>5. ASSUME NEW p \in Pops, NEW q \in Surfaces, Create(p, q) PROVE Sound'
    <2>1. PopupsOK' /\ Forest' /\ Listed'
      BY <1>5, CreateSound
    <2>2. FingersOK' /\ GestureOK'
      BY <1>0, <1>5, QuietType DEF Create, FingersOK
    <2> QED
      BY <2>1, <2>2, TypeParts, PTL DEF Sound
  <1>6. ASSUME NEW p \in Pops, (\E r \in Rects : Present(p, r)) \/ Layout(p) PROVE Sound'
    <2>1. /\ bounds' \in [Pops -> AllRects] /\ java' \in [Pops -> AllRects]
          /\ UNCHANGED <<parent, stack>>
      BY <1>0, <1>6 DEF Present, Layout, PopupsOK, AllRects
    <2>2. FingersOK' /\ GestureOK'
      BY <1>0, <1>6, QuietType DEF Present, Layout, FingersOK
    <2>3. PopupsOK' /\ Forest' /\ Listed'
      BY <1>0, <2>1 DEF PopupsOK, Forest, Listed, Created
    <2> QED
      BY <2>2, <2>3, TypeParts, PTL DEF Sound
  <1>7. ASSUME NEW p \in Pops, Close(p) PROVE Sound'
    <2>1. PopupsOK' /\ Forest' /\ Listed'
      BY <1>7, CloseSound
    <2>2. /\ touch' = [touch EXCEPT ![p] = {}] /\ out' = Silence /\ UNCHANGED <<gesture, pos>>
          /\ press' = [press EXCEPT !.steady = FALSE,
                                    !.orphan = down /\ (@ \/ touch[p] # {})]
      BY <1>7 DEF Close
    <2>3. FingersOK'
      BY <1>0, <2>2 DEF FingersOK
    <2>4. press' \in [held : SUBSET Surfaces, at : Int, landed : X,
                     steady : BOOLEAN, orphan : BOOLEAN]
      <3>1. (down /\ (press.orphan \/ touch[p] # {})) \in BOOLEAN
        BY <1>0 DEF GestureOK
      <3> QED
        BY <1>0, <2>2, <3>1 DEF GestureOK
    <2>5. GestureOK'
      BY <1>0, <2>2, <2>4, SilenceType DEF GestureOK, gesture
    <2> QED
      BY <2>1, <2>3, <2>5, TypeParts, PTL DEF Sound
  <1>8. CASE UNCHANGED vars
    BY <1>0, <1>8, <1>q DEF vars, fingers, gesture, FingersOK, GestureOK
  <1> QED
    BY <1>1, <1>2, <1>3, <1>4, <1>5, <1>6, <1>7, <1>8 DEF Next, TouchNext

LEMMA Soundness == Spec => []Sound
  BY InitSound, StepSound, PTL DEF Spec

(* The state is made of what the patch, Android and the popups hold; the    *)
(* places the C code adds up are numbers because popups form a forest.      *)
THEOREM Typing == Spec => []TypeOK
  <1>1. Sound => TypeOK
    BY DEF Sound
  <1> QED
    BY <1>1, Soundness, PTL
-----------------------------------------------------------------------------
(* What GTK holds pressed is the target of the gesture in progress, and     *)
(* nothing without one; a gesture has a finger in some view, or its view    *)
(* has closed.                                                              *)
Shape ==
  /\ touch = [v \in Surfaces |-> touch[v]]
  /\ press = [held |-> press.held, at |-> press.at, landed |-> press.landed,
              steady |-> press.steady, orphan |-> press.orphan]
HoldsTarget == press.held = IF down THEN {target} ELSE {}
HasFinger   == down => press.orphan \/ \E v \in Surfaces : touch[v] # {}

Gesture == Shape /\ HoldsTarget /\ HasFinger

(* What the steps of the patch do to a press, whatever the event. *)
LEMMA OnDownShape ==
  ASSUME Gesture, NEW v, NEW x, OnDown(v, x)
  PROVE  /\ press' = [held |-> press'.held, at |-> press'.at, landed |-> press'.landed,
                      steady |-> press'.steady, orphan |-> press'.orphan]
         /\ HoldsTarget'
         /\ out'.kind \in {"none", "press"} /\ (out'.kind = "press" => press.held = {})
  <1>1. CASE down /\ Disturbed
    BY <1>1 DEF Gesture, Shape, HoldsTarget, Disturbed, Silence, gesture
  <1>2. CASE ~down
    <2>1. /\ press.held = {} /\ down' = TRUE
          /\ press = [held |-> press.held, at |-> press.at, landed |-> press.landed,
                      steady |-> press.steady, orphan |-> press.orphan]
      BY <1>2 DEF OnDown, Disturbed, Gesture, Shape, HoldsTarget
    <2>2. press' = [press EXCEPT !.held = @ \cup {target'}, !.at = out'.at,
                                 !.landed = x, !.steady = Alone, !.orphan = FALSE]
      BY <1>2 DEF OnDown
    <2>3. press' = [held |-> {target'}, at |-> out'.at, landed |-> x,
                    steady |-> Alone, orphan |-> FALSE]
      BY <2>1, <2>2
    <2>4. out'.kind = "press"
      BY <1>2 DEF OnDown, Emit
    <2> QED
      BY <2>1, <2>3, <2>4 DEF HoldsTarget
  <1> QED
    BY <1>1, <1>2 DEF OnDown

LEMMA OnUpShape ==
  ASSUME Gesture, NEW v, NEW x, OnUp(v, x)
  PROVE  /\ press' = [held |-> press'.held, at |-> press'.at, landed |-> press'.landed,
                      steady |-> press'.steady, orphan |-> press'.orphan]
         /\ HoldsTarget' /\ ~down'
         /\ out'.kind \in {"none", "release"}
         /\ out'.kind = "release" => press.held = {out'.to}
  <1>1. CASE ~down /\ Ignored
    BY <1>1 DEF Gesture, Shape, HoldsTarget, Ignored, Silence, gesture
  <1>2. CASE down
    BY <1>2 DEF OnUp, Emit, EndGesture, Gesture, Shape, HoldsTarget, NoPress
  <1> QED
    BY <1>1, <1>2 DEF OnUp

LEMMA OnMoveShape ==
  ASSUME Gesture, NEW v, NEW x, OnMove(v, x)
  PROVE  /\ UNCHANGED <<gesture, press>> /\ out'.kind \in {"none", "motion"}
         /\ out'.kind = "motion" => press.held = {out'.to}
  BY DEF OnMove, Ignored, Silence, Emit, Gesture, HoldsTarget

LEMMA DisturbedShape ==
  ASSUME Gesture, Disturbed
  PROVE  /\ press' = [press EXCEPT !.steady = FALSE] /\ UNCHANGED gesture
         /\ press' = [held |-> press'.held, at |-> press'.at, landed |-> press'.landed,
                      steady |-> press'.steady, orphan |-> press'.orphan]
         /\ HoldsTarget' /\ press'.orphan = press.orphan
         /\ out'.kind = "none"
  BY DEF Gesture, Shape, HoldsTarget, Disturbed, Silence, gesture

LEMMA InitGesture == Init => Gesture
  BY DEF Init, Gesture, Shape, HoldsTarget, HasFinger, NoPress

(* A step keeps the invariant, and emits only what fits what is held. *)
Fits == /\ out'.kind = "press" => press.held = {}
        /\ out'.kind \in {"motion", "release"} => press.held = {out'.to}

LEMMA Step == Gesture /\ Next => Gesture' /\ Fits
  <1> SUFFICES ASSUME Gesture, Next PROVE Gesture' /\ Fits
    OBVIOUS
  <1>0. Shape /\ HoldsTarget /\ HasFinger
    BY DEF Gesture
  <1>1. ASSUME NEW v \in Surfaces, NEW x \in X, FingerDown(v, x) PROVE Gesture' /\ Fits
    <2>1. PICK f : touch' = [touch EXCEPT ![v] = @ \cup {f}]
      BY <1>1 DEF FingerDown
    <2>2. /\ touch' = [w \in Surfaces |-> touch'[w]] /\ touch'[v] # {}
      BY <2>1, <1>0 DEF Shape
    <2>3. CASE touch[v] = {}
      <3>1. OnDown(v, x)
        BY <1>1, <2>3 DEF FingerDown
      <3> QED
        BY <3>1, <2>2, OnDownShape DEF Gesture, Shape, HasFinger, Fits
    <2>4. CASE touch[v] # {}
      <3>1. Disturbed
        BY <1>1, <2>4 DEF FingerDown
      <3> QED
        BY <3>1, <2>2, DisturbedShape DEF Gesture, Shape, HasFinger, Fits
    <2> QED
      BY <2>3, <2>4
  <1>2. ASSUME NEW v \in Surfaces, NEW f \in Fingers, NEW x \in X, FingerMove(v, f, x)
        PROVE  Gesture' /\ Fits
    <2>1. OnMove(v, Primary(v, pos')) /\ touch' = touch
      BY <1>2 DEF FingerMove
    <2> QED
      BY <2>1, <1>0, OnMoveShape DEF Gesture, Shape, HoldsTarget, HasFinger, gesture, Fits
  <1>3. ASSUME NEW v \in Surfaces, NEW f \in Fingers, FingerUp(v, f)
        PROVE  Gesture' /\ Fits
    <2>1. f \in touch[v] /\ touch' = [touch EXCEPT ![v] = @ \ {f}]
      BY <1>3 DEF FingerUp
    <2>2. touch' = [w \in Surfaces |-> touch'[w]] /\ touch'[v] = touch[v] \ {f}
      BY <2>1, <1>0 DEF Shape
    <2>3. CASE touch[v] = {f}
      <3>1. OnUp(v, pos[f])
        BY <1>3, <2>3 DEF FingerUp
      <3> QED
        BY <3>1, <2>2, OnUpShape DEF Gesture, Shape, HasFinger, Fits
    <2>4. CASE touch[v] # {f}
      <3>1. Ignored
        BY <1>3, <2>4 DEF FingerUp
      <3>2. touch'[v] # {}
        BY <2>1, <2>2, <2>4
      <3> QED
        BY <3>1, <3>2, <2>2, <1>0
           DEF Ignored, Silence, Gesture, Shape, HoldsTarget, HasFinger, gesture, Fits
    <2> QED
      BY <2>3, <2>4
  <1>4. ASSUME NEW v \in Surfaces, Cancel(v) PROVE Gesture' /\ Fits
    <2>1. OnUp(v, Primary(v, pos)) /\ touch' = [touch EXCEPT ![v] = {}]
      BY <1>4 DEF Cancel, OnCancel
    <2>2. touch' = [w \in Surfaces |-> touch'[w]]
      BY <2>1, <1>0 DEF Shape
    <2> QED
      BY <2>1, <2>2, OnUpShape DEF Gesture, Shape, HasFinger, Fits
  <1>5. ASSUME NEW p \in Pops,
               \/ \E q \in Surfaces : Create(p, q)
               \/ \E r \in Rects : Present(p, r)
               \/ Layout(p)
        PROVE  Gesture' /\ Fits
    <2>1. Disturbed /\ touch' = touch
      BY <1>5 DEF Create, Present, Layout
    <2>2. UNCHANGED gesture /\ press'.orphan = press.orphan
      BY <2>1, DisturbedShape
    <2> QED
      BY <2>1, <2>2, <1>0, DisturbedShape DEF Gesture, Shape, HasFinger, gesture, Fits
  <1>6. ASSUME NEW p \in Pops, Close(p) PROVE Gesture' /\ Fits
    <2>1. /\ touch' = [touch EXCEPT ![p] = {}] /\ out' = Silence /\ UNCHANGED gesture
          /\ press' = [press EXCEPT !.steady = FALSE,
                                    !.orphan = down /\ (@ \/ touch[p] # {})]
      BY <1>6 DEF Close
    <2>2. p \in Surfaces /\ touch' = [w \in Surfaces |-> touch'[w]]
      BY <2>1, <1>0 DEF Shape, Surfaces
    <2>3. /\ press' = [held |-> press'.held, at |-> press'.at, landed |-> press'.landed,
                       steady |-> press'.steady, orphan |-> press'.orphan]
          /\ press'.held = press.held
      BY <2>1, <1>0 DEF Shape
    <2>4. press'.orphan = (down /\ (press.orphan \/ touch[p] # {}))
      BY <2>1, <1>0 DEF Shape
    <2>5. HoldsTarget'
      BY <2>1, <2>3, <1>0 DEF HoldsTarget, gesture
    <2>6. HasFinger'
      <3>1. SUFFICES ASSUME down, ~press'.orphan PROVE \E v \in Surfaces : touch'[v] # {}
        BY <2>1 DEF HasFinger, gesture
      <3>2. ~press.orphan /\ touch[p] = {}
        BY <3>1, <2>4, Zenon
      <3>3. PICK v \in Surfaces : touch[v] # {}
        BY <3>1, <3>2, <1>0 DEF HasFinger
      <3> QED
        BY <3>2, <3>3, <2>1, <1>0 DEF Shape
    <2> QED
      BY <2>1, <2>2, <2>3, <2>5, <2>6 DEF Gesture, Shape, Fits, Silence
  <1> QED
    BY <1>1, <1>2, <1>3, <1>4, <1>5, <1>6 DEF Next, TouchNext

LEMMA Invariance == Spec => []Gesture
  <1>1. Gesture /\ [Next]_vars => Gesture'
    <2>1. CASE UNCHANGED vars
      BY <2>1 DEF vars, gesture, fingers, Gesture, Shape, HoldsTarget, HasFinger
    <2> QED
      BY <2>1, Step
  <1> QED
    BY InitGesture, <1>1, PTL DEF Spec

(* The gesture is sticky: whatever popups do and however many fingers come, *)
(* GTK sees a press only when none is held, and motion and release only on  *)
(* the surface that holds it.                                               *)
THEOREM Sticky == Spec => GestureIsSticky
  <1>1. Gesture /\ [Next]_vars => [Fits]_vars
    BY Step
  <1> QED
    BY Invariance, <1>1, PTL DEF Spec, GestureIsSticky, Fits

(* When no view has a finger nothing is held, unless a view closed with a   *)
(* finger in it.                                                            *)
THEOREM Disarmed == Spec => []NothingStaysArmed
  <1>1. Gesture => NothingStaysArmed
    BY DEF Gesture, HoldsTarget, HasFinger, NothingStaysArmed
  <1> QED
    BY Invariance, <1>1, PTL
-----------------------------------------------------------------------------
(* A press that nothing has disturbed is anchored: its only finger is in    *)
(* the view it came down on, and f13_down_x and the place GTK was told are  *)
(* both where it landed.                                                    *)
Anchor(v, f) ==
  /\ \A w \in Surfaces : touch[w] = IF w = v THEN {f} ELSE {}
  /\ downX = ToToplevel(v, press.landed) /\ press.at = downX - Offset(target)

Anchored == press.steady => down /\ \E v \in Surfaces, f \in Fingers : Anchor(v, f)

LEMMA PlacesStay ==
  ASSUME UNCHANGED popups
  PROVE  /\ \A s : Offset(s)' = Offset(s)
         /\ \A v, x : ToToplevel(v, x)' = ToToplevel(v, x)
  <1>1. Origin(bounds)' = Origin(bounds) /\ Origin(java)' = Origin(java)
    BY DEF popups, Origin
  <1> QED
    BY <1>1 DEF Offset, JavaOrigin, ToToplevel

(* What the steps of the patch and of the popups do to an anchor. *)
LEMMA DownAnchors ==
  ASSUME Sound, NEW v \in Surfaces, NEW x \in X, NEW f \in Fingers, OnDown(v, x), UNCHANGED popups,
         touch' = [touch EXCEPT ![v] = @ \cup {f}]
  PROVE  Anchored'
  <1>0. GestureOK /\ FingersOK
    BY TypeParts DEF Sound
  <1>1. CASE down /\ Disturbed
    BY <1>0, <1>1 DEF Disturbed, GestureOK, Anchored
  <1>2. CASE ~down
    <2>1. /\ down' = TRUE /\ downX' = ToToplevel(v, x)
          /\ out'.at = downX' - Offset(target')
          /\ press' = [press EXCEPT !.held = @ \cup {target'}, !.at = out'.at,
                                    !.landed = x, !.steady = Alone, !.orphan = FALSE]
      BY <1>2 DEF OnDown, Emit
    <2>2. press'.at = out'.at /\ press'.landed = x /\ press'.steady = Alone
      BY <1>0, <2>1 DEF GestureOK
    <2>3. Alone => \A w \in Surfaces : touch'[w] = IF w = v THEN {f} ELSE {}
      BY <1>0 DEF Alone, FingersOK
    <2>4. ToToplevel(v, x)' = ToToplevel(v, x) /\ Offset(target)' = Offset(target')
      BY PlacesStay DEF Offset, Origin, popups
    <2>5. Alone => Anchor(v, f)'
      BY <2>1, <2>2, <2>3, <2>4 DEF Anchor
    <2> QED
      BY <2>1, <2>2, <2>5 DEF Anchored
  <1> QED
    BY <1>1, <1>2 DEF OnDown

LEMMA UpLooses ==
  ASSUME Sound, Anchored, NEW v, NEW x, OnUp(v, x)
  PROVE  ~press'.steady
  BY DEF OnUp, Ignored, Anchored, NoPress

LEMMA DisturbedLooses ==
  ASSUME Sound, Disturbed
  PROVE  ~press'.steady
  BY TypeParts DEF Sound, GestureOK, Disturbed

LEMMA InitAnchored == Init => Anchored
  BY DEF Init, Anchored, NoPress

LEMMA StepAnchored == Sound /\ Anchored /\ [Next]_vars => Anchored'
  <1> SUFFICES ASSUME Sound, Anchored, [Next]_vars PROVE Anchored'
    OBVIOUS
  <1>0. GestureOK /\ FingersOK
    BY TypeParts DEF Sound
  <1>q. ASSUME ~press'.steady PROVE Anchored'
    BY <1>q DEF Anchored
  <1>s. ASSUME UNCHANGED <<popups, touch, gesture, press>> PROVE Anchored'
    <2>1. \A v, f : Anchor(v, f)' <=> Anchor(v, f)
      BY <1>s, PlacesStay DEF Anchor, gesture
    <2> QED
      BY <1>s, <2>1 DEF Anchored, gesture
  <1>1. ASSUME NEW v \in Surfaces, NEW x \in X, FingerDown(v, x) PROVE Anchored'
    <2> DEFINE f == Min(Fingers \ Touching)
    <2>1. /\ f \in Fingers /\ UNCHANGED popups
          /\ touch' = [touch EXCEPT ![v] = @ \cup {f}]
          /\ OnDown(v, x) \/ Disturbed
      BY <1>1, MinIsLeast, SpaceAssumption DEF FingerDown
    <2> HIDE DEF f
    <2> QED
      BY <1>q, <2>1, DownAnchors, DisturbedLooses
  <1>2. ASSUME NEW v \in Surfaces, NEW f \in Fingers, NEW x \in X, FingerMove(v, f, x)
        PROVE  Anchored'
    BY <1>2, <1>s DEF FingerMove, OnMove, Ignored
  <1>3. ASSUME NEW v \in Surfaces, NEW f \in Fingers, FingerUp(v, f) PROVE Anchored'
    <2>1. CASE touch[v] = {f}
      BY <1>3, <1>q, <2>1, UpLooses DEF FingerUp
    <2>2. CASE touch[v] # {f}
      <3>1. ~press.steady
        BY <1>3, <2>2 DEF FingerUp, Anchored, Anchor
      <3> QED
        BY <1>3, <1>q, <2>2, <3>1 DEF FingerUp, Ignored
    <2> QED
      BY <2>1, <2>2
  <1>4. ASSUME NEW v \in Surfaces, Cancel(v) PROVE Anchored'
    BY <1>4, <1>q, UpLooses DEF Cancel, OnCancel
  <1>5. ASSUME NEW p \in Pops,
               \/ \E q \in Surfaces : Create(p, q)
               \/ \E r \in Rects : Present(p, r)
               \/ Layout(p)
        PROVE  Anchored'
    BY <1>5, <1>q, DisturbedLooses DEF Create, Present, Layout
  <1>6. ASSUME NEW p \in Pops, Close(p) PROVE Anchored'
    BY <1>0, <1>6, <1>q DEF Close, GestureOK
  <1>7. CASE UNCHANGED vars
    BY <1>7, <1>s DEF vars, fingers
  <1> QED
    BY <1>1, <1>2, <1>3, <1>4, <1>5, <1>6, <1>7 DEF Next, TouchNext

(* The slop is a distance: the C code compares squares. *)
LEMMA SlopIsDistance ==
  ASSUME NEW d \in Int, NEW r \in Nat
  PROVE  d * d <= r * r <=> d \in -r .. r
  <1>1. ASSUME NEW a \in Nat, NEW b \in Nat PROVE a * a <= b * b <=> a <= b
    <2>1. a <= b => a * a <= a * b /\ a * b <= b * b
      OBVIOUS
    <2>2. b < a => b * b <= a * b /\ a * b < a * a
      OBVIOUS
    <2> QED
      BY <2>1, <2>2
  <1>2. CASE d >= 0
    BY <1>1, <1>2
  <1>3. CASE d < 0
    <2>1. -d \in Nat /\ (-d) * (-d) = d * d
      BY <1>3
    <2>2. (-d) * (-d) <= r * r <=> -d <= r
      BY <1>1, <2>1
    <2> QED
      BY <1>3, <2>1, <2>2
  <1> QED
    BY <1>2, <1>3
(* An event of an anchored gesture is at the finger's distance from where   *)
(* it landed, and a release within the slop at no distance.                 *)
Follows ==
  press.steady => \A v \in Surfaces : \A f \in touch[v] :
    LET moved == pos'[f] - press.landed IN
      /\ out'.kind = "motion"  => out'.at - press.at = moved
      /\ out'.kind = "release" => out'.at - press.at = IF Near(moved) THEN 0 ELSE moved

LEMMA EventFollows ==
  ASSUME Sound, NEW v \in Surfaces, NEW f \in Fingers, Anchor(v, f), down, NEW x \in X
  PROVE  /\ Emit("motion", target, ToToplevel(v, x)) =>
              out'.kind = "motion" /\ out'.at - press.at = x - press.landed
         /\ Emit("release", target, ReleaseX(ToToplevel(v, x))) =>
              /\ out'.kind = "release"
              /\ out'.at - press.at = IF Near(x - press.landed) THEN 0 ELSE x - press.landed
  <1>0. GestureOK
    BY TypeParts DEF Sound
  <1>1. /\ press.landed \in X /\ press.landed \in Int /\ x \in Int /\ target \in Nodes /\ v \in Nodes
    BY <1>0, SpaceAssumption DEF GestureOK, X, Nodes
  <1>2. PICK a \in Int : a = Offset(v) - JavaOrigin(v)
    BY <1>1, Offsets
  <1>3. PICK b \in Int : b = Offset(target)
    BY <1>1, Offsets
  <1>4. ToToplevel(v, x) = x + a /\ downX = press.landed + a /\ press.at = downX - b
    BY <1>1, <1>2, <1>3, Offsets DEF Anchor, ToToplevel
  <1>5. ToToplevel(v, x) - downX = x - press.landed
    BY <1>1, <1>4
  <1>6. IsTap(ToToplevel(v, x)) <=> Near(x - press.landed)
    BY <1>1, <1>5, SlopIsDistance, SpaceAssumption DEF IsTap, Near
  <1>7. Emit("motion", target, ToToplevel(v, x)) =>
          out'.kind = "motion" /\ out'.at - press.at = x - press.landed
    BY <1>1, <1>3, <1>4 DEF Emit
  <1>8. ASSUME Emit("release", target, ReleaseX(ToToplevel(v, x)))
        PROVE  /\ out'.kind = "release"
               /\ out'.at - press.at = IF Near(x - press.landed) THEN 0 ELSE x - press.landed
    <2>1. ReleaseX(ToToplevel(v, x)) = IF Near(x - press.landed) THEN downX ELSE x + a
      BY <1>4, <1>6 DEF ReleaseX
    <2>2. out'.kind = "release" /\ out'.at = ReleaseX(ToToplevel(v, x)) - b
      BY <1>3, <1>8 DEF Emit
    <2> QED
      BY <1>1, <1>3, <1>4, <2>1, <2>2
  <1> QED
    BY <1>7, <1>8

LEMMA StepFollows == Sound /\ Anchored /\ Next => Follows
  <1> SUFFICES ASSUME Sound, Anchored, Next, press.steady, out'.kind \in {"motion", "release"}
               PROVE  Follows
    BY DEF Follows
  <1>0. FingersOK /\ GestureOK
    BY TypeParts DEF Sound
  <1>1. PICK v \in Surfaces, f \in Fingers : Anchor(v, f)
    BY DEF Anchored
  <1>2. /\ down /\ touch[v] = {f} /\ \A w \in Surfaces : touch[w] # {} => w = v
    BY <1>1 DEF Anchored, Anchor
  <1>3. Follows <=>
          /\ out'.kind = "motion"  => out'.at - press.at = pos'[f] - press.landed
          /\ out'.kind = "release" =>
               out'.at - press.at = IF Near(pos'[f] - press.landed) THEN 0
                                    ELSE pos'[f] - press.landed
    BY <1>1, <1>2 DEF Follows, Anchor
  <1>4. \A at : Primary(v, at) = at[f]
    BY <1>1, <1>2, PrimaryIsFinger, MinIsLeast, SpaceAssumption DEF Primary
  <1>5. ASSUME NEW g \in Fingers, NEW x \in X, FingerMove(v, g, x) PROVE Follows
    <2>1. g = f /\ pos'[f] = x /\ OnMove(v, pos'[f])
      BY <1>0, <1>2, <1>4, <1>5 DEF FingerMove, FingersOK
    <2>2. Emit("motion", target, ToToplevel(v, x))
      BY <1>2, <2>1 DEF OnMove
    <2> QED
      BY <1>1, <1>2, <1>3, <2>1, <2>2, EventFollows
  <1>6. ASSUME NEW g \in Fingers, FingerUp(v, g) PROVE Follows
    <2>1. g = f /\ pos' = pos /\ pos[f] \in X /\ OnUp(v, pos[f])
      BY <1>0, <1>2, <1>6 DEF FingerUp, FingersOK
    <2>2. Emit("release", target, ReleaseX(ToToplevel(v, pos[f])))
      BY <1>2, <2>1 DEF OnUp
    <2> QED
      BY <1>1, <1>2, <1>3, <2>1, <2>2, EventFollows
  <1>7. ASSUME Cancel(v) PROVE Follows
    <2>1. pos' = pos /\ pos[f] \in X /\ OnUp(v, pos[f])
      BY <1>0, <1>1, <1>4, <1>7 DEF Cancel, OnCancel, FingersOK
    <2>2. Emit("release", target, ReleaseX(ToToplevel(v, pos[f])))
      BY <1>2, <2>1 DEF OnUp
    <2> QED
      BY <1>1, <1>2, <1>3, <2>1, <2>2, EventFollows
  <1>8. ASSUME NEW w \in Surfaces, NEW x \in X, FingerDown(w, x) PROVE FALSE
    BY <1>2, <1>8 DEF FingerDown, OnDown, Disturbed, Silence
  <1>9. ASSUME NEW p \in Pops,
               \/ \E q \in Surfaces : Create(p, q)
               \/ \E r \in Rects : Present(p, r)
               \/ Layout(p) \/ Close(p)
        PROVE  FALSE
    BY <1>9 DEF Create, Present, Layout, Close, Disturbed, Silence
  <1>10. \A w \in Surfaces : \A g \in Fingers, x \in X :
           (FingerMove(w, g, x) \/ FingerUp(w, g) \/ Cancel(w)) => w = v
    BY <1>2 DEF FingerMove, FingerUp, Cancel
  <1> QED
    BY <1>0, <1>5, <1>6, <1>7, <1>8, <1>9, <1>10, SpaceAssumption DEF Next, TouchNext, GestureOK

(* What GTK sees is a mouse: an undisturbed finger clicks in one place when *)
(* it is lifted within the slop, and drags by as much as it has moved, in   *)
(* whichever view, popup or toplevel the press went to.                     *)
THEOREM MouseFollows == Spec => MouseFollowsFinger
  <1>1. Spec => []Anchored
    BY Soundness, InitAnchored, StepAnchored, PTL DEF Spec
  <1>2. Sound /\ Anchored /\ [Next]_vars => [Follows]_vars
    BY StepFollows
  <1> QED
    BY <1>1, <1>2, Soundness, PTL DEF Spec, MouseFollowsFinger, Follows
-----------------------------------------------------------------------------
(* The popups under a place, without the recursion. *)
LEMMA StackedIsChain ==
  ASSUME Sound, NEW x
  PROVE  /\ Stacked(x) \subseteq Pops
         /\ \A p \in Pops : p \in Stacked(x) <=>
              Covers(p, x) /\ (parent[p] = Top \/ parent[p] \in Stacked(x))
  <1> DEFINE F == [z \in Pops \X BOOLEAN |-> Covers(z[1], x) /\ z[2]]
             base == [s \in Nodes |-> s = Top]
             in == CHOOSE i : i = [s \in Surfaces \cup {None} |->
                                    IF s \in Pops THEN Covers(s, x) /\ i[parent[s]] ELSE s = Top]
  <1>1. PICK n, rank : IsForest(Nodes, Pops, parent, n, rank)
    BY DEF Sound, Forest
  <1>2. IsStep(Nodes, Pops, BOOLEAN, base, F)
    BY DEF IsStep, Covers
  <1>3. \A p \in Pops : \A b \in BOOLEAN : F[<<p, b>>] = (Covers(p, x) /\ b)
    OBVIOUS
  <1>4. \A s \in Nodes : base[s] = (s = Top)
    OBVIOUS
  <1> HIDE DEF F, base
  <1>5. PICK g \in [Nodes -> BOOLEAN] :
          \A s \in Nodes : g[s] = IF s \in Pops THEN F[<<s, g[parent[s]]>>] ELSE base[s]
    BY <1>1, <1>2, TreeFunction
  <1>6. g = [s \in Nodes |-> IF s \in Pops THEN Covers(s, x) /\ g[parent[s]] ELSE s = Top]
    <2> DEFINE h(s) == IF s \in Pops THEN Covers(s, x) /\ g[parent[s]] ELSE s = Top
    <2>1. ASSUME NEW s \in Nodes PROVE g[s] = h(s)
      <3>1. CASE s \in Pops
        <4>1. parent[s] \in Nodes /\ g[parent[s]] \in BOOLEAN
          BY <1>1, <3>1 DEF IsForest
        <4>2. F[<<s, g[parent[s]]>>] = (Covers(s, x) /\ g[parent[s]])
          BY <1>3, <3>1, <4>1
        <4>3. g[s] = F[<<s, g[parent[s]]>>]
          BY <1>5, <3>1
        <4>4. h(s) = (Covers(s, x) /\ g[parent[s]])
          BY <3>1, Zenon
        <4> QED
          BY <4>2, <4>3, <4>4, Zenon
      <3>2. CASE s \notin Pops
        <4>1. g[s] = base[s]
          BY <1>5, <3>2
        <4>2. h(s) = (s = Top)
          BY <3>2, Zenon
        <4> QED
          BY <1>4, <4>1, <4>2, Zenon
      <3> QED
        BY <3>1, <3>2
    <2> HIDE DEF h
    <2>2. g = [s \in Nodes |-> h(s)]
      BY <2>1, Zenon
    <2> QED
      BY <2>2, Zenon DEF h
  <1>7. in = [s \in Nodes |-> IF s \in Pops THEN Covers(s, x) /\ in[parent[s]] ELSE s = Top]
    BY <1>6 DEF Nodes
  <1>8. Stacked(x) = {p \in Pops : in[p]}
    BY DEF Stacked
  <1> HIDE DEF in
  <1>9. /\ \A p \in Pops : in[p] <=> Covers(p, x) /\ in[parent[p]]
        /\ \A s \in Nodes : s \notin Pops => (in[s] <=> s = Top)
        /\ \A p \in Pops : parent[p] \in Nodes
    BY <1>1, <1>7 DEF Nodes, Surfaces, IsForest
  <1> QED
    BY <1>8, <1>9, SurfacesAssumption

(* A node of pick_child's way under the place x: at the place GTK draws it, *)
(* covered like all it is in, and the newest of its siblings that are.      *)
Topmost(t, x) ==
  t # Top => \A p \in Stacked(x) : parent[p] = parent[t] => ~Newer(p, t)
Reached(n, x) ==
  /\ n.node \in Surfaces /\ n.at = Place(n.node)
  /\ n.node = Top \/ n.node \in Stacked(x)
  /\ Topmost(n.node, x)

KnownToGtk == \A p \in Pops : java[p] # NoRect => bounds[p] # NoRect

LEMMA InsideIsCovers ==
  ASSUME Sound, KnownToGtk, NEW p \in Pops, NEW x \in Int
  PROVE  /\ Inside(Place(parent[p]), p, x) <=> Covers(p, x)
         /\ Covers(p, x) => Place(parent[p]) + Rect(p).x = Place(p)
  <1>1. /\ bounds \in [Pops -> AllRects] /\ parent[p] \in Nodes /\ p \in Nodes
    BY TypeParts DEF Sound, PopupsOK, Nodes, Surfaces
  <1>2. PICK a \in Int : a = Place(parent[p]) /\ Place(p) = bounds[p].x + a
    BY <1>1, OriginIsSum DEF Sound, Place
  <1>3. CASE bounds[p] = NoRect
    <2>1. Rect(p) = [x |-> 0, w |-> 0]
      BY <1>3 DEF Rect, KnownToGtk, NoRect
    <2> QED
      BY <1>2, <1>3, <2>1 DEF Inside, Covers
  <1>4. CASE bounds[p] # NoRect
    <2>1. bounds[p].x \in Int /\ bounds[p].w \in Int /\ bounds[p].w > 0
      BY <1>1, <1>4, SpaceAssumption DEF AllRects
    <2>2. Rect(p) = bounds[p]
      BY <2>1 DEF Rect
    <2> QED
      BY <1>2, <1>4, <2>1, <2>2 DEF Inside, Covers
  <1> QED
    BY <1>3, <1>4

LEMMA HitsAreCovering ==
  ASSUME Sound, KnownToGtk, NEW x \in Int, NEW n, Reached(n, x)
  PROVE  Hits(n, x) =
           {k \in DOMAIN stack : parent[stack[k]] = n.node /\ Covers(stack[k], x)}
  <1>1. \A k \in DOMAIN stack : stack[k] \in Pops
    BY DEF Sound, Listed
  <1>2. \A k \in DOMAIN stack : parent[stack[k]] = n.node =>
          (Inside(n.at, stack[k], x) <=> Covers(stack[k], x))
    BY <1>1, InsideIsCovers DEF Reached
  <1> QED
    BY <1>2 DEF Hits

LEMMA EnterReaches ==
  ASSUME Sound, KnownToGtk, NEW x \in Int, NEW n, Reached(n, x)
  PROVE  /\ Reached(Enter(n, x), x)
         /\ Hits(n, x) = {} => Enter(n, x) = n
         /\ Hits(n, x) # {} =>
              Enter(n, x).node \in Pops /\ parent[Enter(n, x).node] = n.node
  <1>1. CASE Hits(n, x) = {}
    BY <1>1 DEF Enter
  <1>2. CASE Hits(n, x) # {}
    <2> DEFINE k == Min(Hits(n, x))
               p == stack[k]
    <2>1. Hits(n, x) \in SUBSET Nat /\ Hits(n, x) \subseteq DOMAIN stack /\ stack \in Seq(Pops)
      BY DEF Hits, Sound, Listed
    <2>2. /\ k \in DOMAIN stack /\ k \in Nat /\ p \in Pops /\ parent[p] = n.node /\ Covers(p, x)
          /\ \A m \in Hits(n, x) : k <= m
      BY <1>2, <2>1, MinIsLeast, HitsAreCovering
    <2>3. Enter(n, x) = [node |-> p, at |-> n.at + Rect(p).x]
      BY <1>2 DEF Enter
    <2> HIDE DEF k, p
    <2>4. n.at + Rect(p).x = Place(p)
      BY <2>2, InsideIsCovers DEF Reached
    <2>5. p \in Stacked(x)
      BY <2>2, StackedIsChain DEF Reached
    <2>6. ASSUME NEW q \in Stacked(x), parent[q] = parent[p], Newer(q, p) PROVE FALSE
      <3>1. PICK i, j \in DOMAIN stack : i < j /\ stack[i] = q /\ stack[j] = p
        BY <2>6 DEF Newer
      <3>2. j = k
        BY <2>2, <3>1 DEF Sound, Listed, p
      <3>3. i \in Hits(n, x)
        BY <2>2, <2>6, <3>1, HitsAreCovering, StackedIsChain
      <3>4. k <= i /\ i \in Nat
        BY <2>1, <2>2, <3>3
      <3> QED
        BY <2>2, <3>1, <3>2, <3>4
    <2>7. Topmost(p, x)
      BY <2>6 DEF Topmost
    <2> QED
      BY <1>2, <2>2, <2>3, <2>4, <2>5, <2>7 DEF Reached, Surfaces
  <1> QED
    BY <1>1, <1>2

LEMMA PathReaches ==
  ASSUME Sound, KnownToGtk, NEW x \in Int, NEW d \in 0 .. MaxDepth + 1
  PROVE  Reached(Path(x)[d], x)
  <1> DEFINE T == {k \in Nat : k <= MaxDepth + 1 => Reached(Path(x)[k], x)}
  <1>1. 0 \in T
    <2>1. Top \in Nodes /\ Place(Top) = 0
      BY OriginIsSum, TypeParts, SurfacesAssumption
         DEF Sound, PopupsOK, Place, Nodes, Surfaces
    <2> QED
      BY <2>1, PathSteps DEF Reached, Start, Topmost, Surfaces
  <1>2. ASSUME NEW k \in Nat, k \in T PROVE k + 1 \in T
    BY <1>2, PathSteps, EnterReaches DEF MaxDepth
  <1> HIDE DEF T
  <1>3. d \in T
    BY <1>1, <1>2, AllNaturals DEF MaxDepth
  <1> QED
    BY <1>3 DEF T, MaxDepth

(* The way ends at a popup with none stacked in it, or because of the guard *)
(* on its depth. *)
LEMMA PathEndsOnTop ==
  ASSUME Sound, KnownToGtk, ~TooDeep, NEW x \in Int, NEW p \in Stacked(x)
  PROVE  parent[p] # Pick(x)
  <1> SUFFICES ASSUME parent[p] = Pick(x) PROVE FALSE
    OBVIOUS
  <1> DEFINE n(d) == Path(x)[d]
             last == MaxDepth + 1
  <1>1. /\ \A d \in 0 .. last : Reached(n(d), x)
        /\ \A d \in 0 .. MaxDepth : n(d + 1) = Enter(n(d), x)
    BY PathReaches, PathSteps
  <1>2. p \in Pops /\ Covers(p, x) /\ parent[p] = n(last).node
    BY StackedIsChain DEF Pick
  <1>3. Hits(n(last), x) # {}
    <2>1. Reached(n(last), x)
      BY <1>1 DEF MaxDepth
    <2>2. parent[p] \in Surfaces
      BY <1>2, <2>1 DEF Reached
    <2>3. Created(p)
      BY <2>2, SurfacesAssumption DEF Created, Surfaces
    <2>4. p \in ToSet(stack)
      BY <1>2, <2>3, TypeParts DEF Sound, PopupsOK
    <2>5. PICK k \in DOMAIN stack : stack[k] = p
      BY <2>4 DEF ToSet
    <2> QED
      BY <1>2, <2>1, <2>5, HitsAreCovering
  <1>4. ASSUME NEW d \in 0 .. last PROVE Hits(n(d), x) # {}
    <2> SUFFICES ASSUME Hits(n(d), x) = {} PROVE FALSE
      OBVIOUS
    <2> DEFINE T == {k \in Nat : d + k <= last => n(d + k) = n(d)}
    <2>1. 0 \in T
      BY DEF MaxDepth
    <2>2. ASSUME NEW k \in Nat, k \in T PROVE k + 1 \in T
      <3> SUFFICES ASSUME d + (k + 1) <= last PROVE n(d + (k + 1)) = n(d)
        OBVIOUS
      <3>1. d + k \in 0 .. MaxDepth /\ d + (k + 1) = (d + k) + 1 /\ d + k <= last
        BY DEF MaxDepth
      <3>2. n(d + k) = n(d)
        BY <2>2, <3>1
      <3>3. n((d + k) + 1) = Enter(n(d), x)
        BY <1>1, <3>1, <3>2
      <3>4. Enter(n(d), x) = n(d)
        BY DEF Enter
      <3> QED
        BY <3>1, <3>3, <3>4
    <2> HIDE DEF T
    <2>3. last - d \in T
      BY <2>1, <2>2, AllNaturals DEF MaxDepth
    <2>4. n(last) = n(d)
      <3>1. d + (last - d) = last /\ last - d \in Nat
        BY DEF MaxDepth
      <3> QED
        BY <2>3, <3>1 DEF T, MaxDepth
    <2> QED
      BY <1>3, <2>4
  <1>5. \A d \in 0 .. MaxDepth : n(d + 1).node \in Pops /\ parent[n(d + 1).node] = n(d).node
    BY <1>1, <1>4, EnterReaches DEF MaxDepth
  <1> HIDE DEF n
  <1> DEFINE c == [d \in 0 .. last |-> IF d = last THEN p ELSE n(d + 1).node]
  <1>6. c \in [0 .. MaxDepth + 1 -> Pops]
    BY <1>2, <1>5 DEF MaxDepth
  <1>7. \A d \in 0 .. MaxDepth : parent[c[d + 1]] = c[d]
    BY <1>2, <1>5 DEF MaxDepth
  <1> HIDE DEF c
  <1> QED
    BY <1>6, <1>7 DEF TooDeep

(* A step that emits a press is the DOWN of a finger, on one view. *)
LEMMA PressIsDown ==
  ASSUME Sound, Next, out'.kind = "press"
  PROVE  \E v \in Surfaces, x \in X :
           /\ ~down /\ OnDown(v, x) /\ touch'[v] # touch[v]
  <1>0. FingersOK /\ GestureOK
    BY TypeParts DEF Sound
  <1>1. ASSUME NEW v \in Surfaces, NEW x \in X, FingerDown(v, x)
        PROVE  ~down /\ OnDown(v, x) /\ touch'[v] # touch[v]
    <2>1. touch[v] = {} /\ OnDown(v, x)
      BY <1>1 DEF FingerDown, Disturbed, Silence
    <2>2. ~down
      BY <2>1 DEF OnDown, Disturbed, Silence
    <2>3. touch'[v] # {}
      BY <1>0, <1>1 DEF FingerDown, FingersOK
    <2> QED
      BY <2>1, <2>2, <2>3
  <1>2. ASSUME NEW v, NEW x PROVE ~OnUp(v, x) /\ ~OnMove(v, x) /\ ~Ignored /\ ~Disturbed
    BY DEF OnUp, OnMove, Ignored, Disturbed, Emit, Silence
  <1>3. ASSUME NEW v \in Surfaces, NEW f \in Fingers
        PROVE  ~FingerUp(v, f) /\ \A x \in X : ~FingerMove(v, f, x)
    BY <1>2 DEF FingerUp, FingerMove
  <1>4. ASSUME NEW v \in Surfaces PROVE ~Cancel(v)
    BY <1>2 DEF Cancel, OnCancel
  <1>5. ASSUME NEW p \in Pops
        PROVE  /\ \A q : ~Create(p, q)
               /\ \A r : ~Present(p, r)
               /\ ~Layout(p)
    BY <1>2 DEF Create, Present, Layout
  <1>6. ASSUME NEW p \in Pops PROVE ~Close(p)
    BY DEF Close, Silence
  <1>7. PICK v \in Surfaces, x \in X : FingerDown(v, x)
    BY <1>3, <1>4, <1>5, <1>6 DEF Next, TouchNext
  <1> QED
    BY <1>1, <1>7

(* What PressReachesPopup says of a step. *)
ReachesPopup ==
  Presses =>
    LET x == press'.landed  t == target' IN
      /\ t = Top \/ t \in Stacked(x)
      /\ \A p \in Stacked(x) :
           parent[p] # t /\ (t # Top /\ parent[p] = parent[t] => ~Newer(p, t))
      /\ out'.at = x - Place(t)

LEMMA StepReaches == Sound /\ Next => ReachesPopup
  <1> SUFFICES ASSUME Sound, Next, Presses
               PROVE  LET x == press'.landed  t == target' IN
                        /\ t = Top \/ t \in Stacked(x)
                        /\ \A p \in Stacked(x) :
                             parent[p] # t /\ (t # Top /\ parent[p] = parent[t] => ~Newer(p, t))
                        /\ out'.at = x - Place(t)
    BY DEF ReachesPopup
  <1>0. GestureOK /\ KnownToGtk /\ ~TooDeep
    BY TypeParts DEF Sound, Presses, KnownToGtk
  <1>1. PICK v \in Surfaces, x \in X : ~down /\ OnDown(v, x) /\ touch'[v] # touch[v]
    BY PressIsDown DEF Presses
  <1>2. /\ downX' = ToToplevel(v, x) /\ target' = Pick(downX')
        /\ out'.at = downX' - Offset(target') /\ press'.landed = x
    <2>1. /\ downX' = ToToplevel(v, x) /\ target' = Pick(downX')
          /\ Emit("press", target', downX')
          /\ press' = [press EXCEPT !.held = @ \cup {target'}, !.at = out'.at,
                                    !.landed = x, !.steady = Alone, !.orphan = FALSE]
      BY <1>1 DEF OnDown
    <2>2. press'.landed = x
      BY <1>0, <2>1 DEF GestureOK
    <2>3. out'.at = downX' - Offset(target')
      BY <2>1 DEF Emit
    <2> QED
      BY <2>1, <2>2, <2>3
  <1>3. x \in Int /\ ToToplevel(v, x) = x
    <2>1. JavaOrigin(v) = Offset(v)
      BY <1>1 DEF Presses, Place, Offset
    <2> QED
      BY <2>1, Offsets, SpaceAssumption DEF ToToplevel, X, Nodes
  <1>4. target' = Pick(x) /\ out'.at = x - Place(target')
    BY <1>2, <1>3 DEF Place, Offset
  <1>5. Reached(Path(x)[MaxDepth + 1], x)
    BY <1>0, <1>3, PathReaches DEF MaxDepth
  <1>6. (Pick(x) = Top \/ Pick(x) \in Stacked(x)) /\ Topmost(Pick(x), x)
    BY <1>5 DEF Reached, Pick
  <1>7. \A p \in Stacked(x) : parent[p] # Pick(x)
    BY <1>0, <1>3, PathEndsOnTop
  <1> QED
    BY <1>2, <1>4, <1>6, <1>7 DEF Topmost

(* A press goes to the topmost popup under the finger, at the finger's      *)
(* place in it, whether or not Java has laid it out: unless popups are      *)
(* nested deeper than pick_child goes.                                      *)
THEOREM PressReaches == Spec => PressReachesPopup
  <1>1. Sound /\ [Next]_vars => [ReachesPopup]_vars
    BY StepReaches
  <1> QED
    BY <1>1, Soundness, PTL DEF Spec, PressReachesPopup, ReachesPopup

=============================================================================
