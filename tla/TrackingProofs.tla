--------------------------- MODULE TrackingProofs ---------------------------
(***************************************************************************)
(* What compute() finds, for every number of peers, every position and     *)
(* every alert distance.  The inner loop is a recursion over the peers:    *)
(* its loop invariant IsClosest is shown by induction, and the induction   *)
(* from the least counterexample.  The state's invariant IInv is its types *)
(* with the shown friend being the closest one, isolation having been      *)
(* noticed, and an own emergency having come from an echo.                 *)
(***************************************************************************)
EXTENDS Tracking, TLAPS, WellFoundedInduction

-----------------------------------------------------------------------------
\* Induction over a set of numbers, without an operator as parameter.
LEMMA Induction ==
  ASSUME NEW S, 0 \in S, \A n \in Nat : n \in S => n + 1 \in S
  PROVE  \A n \in Nat : n \in S
<1> DEFINE T == Nat \ S
<1>1. SUFFICES ASSUME T # {} PROVE FALSE
  OBVIOUS
<1>2. IsWellFoundedOn(OpToRel(<, Nat), Nat)
  BY NatLessThanWellFounded
<1>3. PICK x \in T : \A y \in T : ~(<<y, x>> \in OpToRel(<, Nat))
  <2>1. T \subseteq Nat
    OBVIOUS
  <2> QED  BY <1>1, <1>2, <2>1, WFMin
<1>4. \A y \in T : ~(y < x)
  BY <1>3 DEF OpToRel
<1>5. x # 0 /\ x - 1 \in Nat
  OBVIOUS
<1>6. x - 1 \in S
  BY <1>4, <1>5
<1>7. (x - 1) + 1 \in S
  BY <1>5, <1>6
<1> QED  BY <1>7

-----------------------------------------------------------------------------
\* f[k] is what the inner loop has in hand after k peers.
IsRun(f, pos, i, n) ==
  f = [k \in 0..n |-> IF k = 0 THEN Nobody ELSE Compare(pos, i, k - 1, f[k-1])]

\* The loop runs over any number of peers.
LEMMA RunExists ==
  ASSUME NEW pos, NEW i
  PROVE  \A n \in Nat : \E f : IsRun(f, pos, i, n)
<1> DEFINE S == {n \in Nat : \E f : IsRun(f, pos, i, n)}
<1>1. 0 \in S
  <2>1. IsRun([k \in 0..0 |-> Nobody], pos, i, 0)
    BY DEF IsRun
  <2> QED  BY <2>1
<1>2. ASSUME NEW n \in Nat, n \in S PROVE n + 1 \in S
  <2>1. PICK f : IsRun(f, pos, i, n)
    BY <1>2
  <2> DEFINE g == [k \in 0..(n+1) |->
                     IF k <= n THEN f[k] ELSE Compare(pos, i, n, f[n])]
  <2>2. ASSUME NEW k \in 0..(n+1)
        PROVE  g[k] = IF k = 0 THEN Nobody ELSE Compare(pos, i, k - 1, g[k-1])
    <3>1. CASE k = 0
      BY <2>1, <3>1 DEF IsRun
    <3>2. CASE k \in 1..n
      <4>1. g[k] = f[k] /\ g[k-1] = f[k-1]
        BY <3>2
      <4>2. f[k] = Compare(pos, i, k - 1, f[k-1])
        BY <2>1, <3>2 DEF IsRun
      <4> QED  BY <3>2, <4>1, <4>2
    <3>3. CASE k = n + 1
      <4>1. g[k] = Compare(pos, i, n, f[n]) /\ g[n] = f[n] /\ k - 1 = n /\ k # 0
        BY <3>3
      <4> HIDE DEF g
      <4> QED  BY <4>1
    <3> QED  BY <3>1, <3>2, <3>3
  <2>3. IsRun(g, pos, i, n + 1)
    <3>1. g = [k \in 0..(n+1) |-> g[k]]
      OBVIOUS
    <3> HIDE DEF g
    <3> QED  BY <2>2, <3>1, Zenon DEF IsRun
  <2> QED  BY <2>3
<1>3. \A n \in Nat : n \in S
  <2> HIDE DEF S
  <2> QED  BY <1>1, <1>2, Induction
<1> QED  BY <1>3

LEMMA ClosestIsRun ==
  ASSUME NEW pos, NEW i
  PROVE  \E f : IsRun(f, pos, i, MaxPeers) /\ Closest(pos, i) = f[MaxPeers]
<1> DEFINE min == CHOOSE f : IsRun(f, pos, i, MaxPeers)
<1>1. MaxPeers \in Nat
  BY TrackingAssumption
<1>2. \E f : IsRun(f, pos, i, MaxPeers)
  BY <1>1, RunExists
<1>3. IsRun(min, pos, i, MaxPeers)
  BY <1>2
<1>4. Closest(pos, i) = min[MaxPeers]
  BY Zenon DEF Closest, IsRun
<1> HIDE DEF min
<1> QED  BY <1>3, <1>4

-----------------------------------------------------------------------------
\* The loop invariant: m is the closest of the first n peers that device i can
\* be compared with, the lowest id among equals, and Nobody if there is none.
Comparable(pos, i, n) == {j \in 0..(n - 1) : j # i /\ pos[i] > 0 /\ pos[j] > 0}
IsClosest(m, pos, i, n) ==
  \/ Comparable(pos, i, n) = {} /\ m = Nobody
  \/ /\ m.id \in Comparable(pos, i, n)
     /\ m.dist = Distance(pos[i], pos[m.id])
     /\ \A j \in Comparable(pos, i, n) :
          /\ m.dist <= Distance(pos[i], pos[j])
          /\ m.dist = Distance(pos[i], pos[j]) => m.id <= j

LEMMA Metric == \A a, b \in Nat : Distance(a, b) \in Nat
BY DEF Distance

\* One iteration keeps it.
LEMMA CompareKeeps ==
  ASSUME NEW n \in Nat, n < MaxPeers, NEW pos \in [Peers -> Nat], NEW i \in Peers,
         NEW m, IsClosest(m, pos, i, n)
  PROVE  IsClosest(Compare(pos, i, n, m), pos, i, n + 1)
<1> DEFINE C == Comparable(pos, i, n)
           D == Comparable(pos, i, n + 1)
           d == Distance(pos[i], pos[n])
           new == [id |-> n, dist |-> d]
           far(j) == Distance(pos[i], pos[j])
<1>0. MaxPeers \in Nat /\ n \in Peers
  BY TrackingAssumption DEF Peers
<1>1. D = IF n # i /\ pos[i] > 0 /\ pos[n] > 0 THEN C \cup {n} ELSE C
  BY <1>0 DEF Comparable
<1>2. C \subseteq 0..(n-1) /\ C \subseteq Peers
  BY <1>0 DEF Comparable, Peers
<1>3. \A j \in Peers : far(j) \in Nat
  BY Metric
<1>4. CASE ~(n # i /\ pos[i] > 0 /\ pos[n] > 0)
  <2>1. D = C /\ Compare(pos, i, n, m) = m
    BY <1>1, <1>4 DEF Compare
  <2> QED  BY <2>1 DEF IsClosest
<1>5. CASE n # i /\ pos[i] > 0 /\ pos[n] > 0
  <2>1. D = C \cup {n}
    BY <1>1, <1>5
  <2>2. CASE C = {} /\ m = Nobody
    <3>1. Compare(pos, i, n, m) = new
      BY <1>5, <2>2 DEF Compare, Closer, Nobody
    <3>2. D = {n}
      BY <2>1, <2>2
    <3>3. IsClosest(new, pos, i, n + 1)
      BY <1>0, <1>3, <3>2 DEF IsClosest
    <3> QED  BY <3>1, <3>3
  <2>3. CASE /\ m.id \in C /\ m.dist = far(m.id)
             /\ \A j \in C : m.dist <= far(j) /\ (m.dist = far(j) => m.id <= j)
    <3>1. m.id # PEERID_NONE /\ m.id < n /\ m.dist \in Nat /\ d \in Nat
      BY <1>0, <1>2, <1>3, <2>3 DEF PEERID_NONE
    <3>2. CASE d < m.dist
      <4>1. Compare(pos, i, n, m) = new
        BY <1>5, <3>2 DEF Compare, Closer
      <4>2. \A j \in D : d <= far(j) /\ (d = far(j) => n <= j)
        BY <1>0, <1>2, <1>3, <2>1, <2>3, <3>1, <3>2
      <4>3. IsClosest(new, pos, i, n + 1)
        BY <2>1, <4>2 DEF IsClosest
      <4> QED  BY <4>1, <4>3
    <3>3. CASE ~(d < m.dist)
      <4>1. Compare(pos, i, n, m) = m
        BY <3>1, <3>3 DEF Compare, Closer
      <4>2. \A j \in D : m.dist <= far(j) /\ (m.dist = far(j) => m.id <= j)
        BY <1>2, <1>3, <2>1, <2>3, <3>1, <3>3
      <4> QED  BY <2>1, <2>3, <4>1, <4>2 DEF IsClosest
    <3> QED  BY <3>2, <3>3
  <2> QED  BY <2>2, <2>3 DEF IsClosest
<1> QED  BY <1>4, <1>5

\* The loop finds the closest peer, whatever the number of peers.
LEMMA ClosestIsClosest ==
  ASSUME NEW pos \in [Peers -> Nat], NEW i \in Peers
  PROVE  IsClosest(Closest(pos, i), pos, i, MaxPeers)
<1>1. PICK f : IsRun(f, pos, i, MaxPeers) /\ Closest(pos, i) = f[MaxPeers]
  BY ClosestIsRun
<1>2. MaxPeers \in Nat
  BY TrackingAssumption
<1> DEFINE S == {n \in Nat : n <= MaxPeers => IsClosest(f[n], pos, i, n)}
<1>3. 0 \in S
  <2>1. f[0] = Nobody
    BY <1>1, <1>2 DEF IsRun
  <2>2. Comparable(pos, i, 0) = {}
    BY DEF Comparable
  <2> QED  BY <2>1, <2>2 DEF IsClosest
<1>4. ASSUME NEW n \in Nat, n \in S PROVE n + 1 \in S
  <2>1. SUFFICES ASSUME n + 1 <= MaxPeers PROVE IsClosest(f[n+1], pos, i, n + 1)
    OBVIOUS
  <2>2. f[n+1] = Compare(pos, i, n, f[n])
    BY <1>1, <1>2, <2>1 DEF IsRun
  <2>3. n < MaxPeers /\ IsClosest(f[n], pos, i, n)
    BY <1>2, <1>4, <2>1
  <2> QED  BY <2>2, <2>3, CompareKeeps
<1>5. \A n \in Nat : n \in S
  <2> HIDE DEF S
  <2> QED  BY <1>3, <1>4, Induction
<1> QED  BY <1>1, <1>2, <1>5

-----------------------------------------------------------------------------
\* Once the device has been too far from everybody the alarm has been raised,
\* and its own message is an emergency only after an echo of its id.
IsolationNoticed == Isolated => selfDetected
EmergencyEchoed == msgs[Me] = MSG_EMERGENCY => echoed
IInv == TypeOK /\ NearestIsNearest /\ IsolationNoticed /\ EmergencyEchoed

LEMMA Constants ==
  /\ MaxPeers \in Nat /\ Me \in Peers /\ AlertDistance \in Nat
  /\ Positions \subseteq Nat /\ OwnPosition \in Positions
  /\ Positions \cup {NoPosition} \subseteq Nat /\ NoPosition = 0
BY TrackingAssumption DEF NoPosition

LEMMA FriendsAreComparable ==
  ASSUME NEW i PROVE Friends(i) = Comparable(position, i, MaxPeers)
BY Constants DEF Friends, Comparable, Peers

\* What a round does, by what compute() finds in the positions and messages it
\* has just updated.
LEMMA ComputeStep ==
  ASSUME TypeOK, TypeOK', Compute(position', msgs')
  PROVE  /\ Friends(Me)' = {} => UNCHANGED <<nearest, panel>>
         /\ Friends(Me)' # {} =>
              /\ NearestIsNearest'
              /\ IF nearest'.dist > AlertDistance \/ msgs'[Me] = MSG_EMERGENCY
                 THEN AlertToFriends ELSE UNCHANGED panel
<1> DEFINE c == Closest(position', Me)
           F == Friends(Me)'
<1>1. position' \in [Peers -> Nat]
  BY Constants DEF TypeOK
<1>2. F = Comparable(position', Me, MaxPeers)
  BY Constants DEF Friends, Comparable, Peers
<1>3. IsClosest(c, position', Me, MaxPeers)
  BY <1>1, Constants, ClosestIsClosest
<1>4. F \subseteq Peers /\ PEERID_NONE \notin Peers
  BY Constants DEF Friends, Peers, PEERID_NONE
<1>5. (c.id # PEERID_NONE) <=> F # {}
  BY <1>2, <1>3, <1>4 DEF IsClosest, Nobody
<1>6. F # {} => nearest' = c
  BY <1>5 DEF Compute
<1>7. CASE F = {}
  BY <1>5, <1>7 DEF Compute
<1>8. CASE F # {}
  <2>1. /\ c.id \in F
        /\ c.dist = Distance(position'[Me], position'[c.id])
        /\ \A j \in F : /\ c.dist <= Distance(position'[Me], position'[j])
                        /\ c.dist = Distance(position'[Me], position'[j]) => c.id <= j
    BY <1>2, <1>3, <1>8 DEF IsClosest
  <2>2. NearestIsNearest'
    <3> HIDE DEF c
    <3> QED  BY <1>6, <1>8, <2>1 DEF NearestIsNearest
  <2>3. IF c.dist > AlertDistance \/ msgs'[Me] = MSG_EMERGENCY
        THEN AlertToFriends ELSE UNCHANGED panel
    BY <1>5, <1>8 DEF Compute, Alerting
  <2> QED  BY <1>6, <1>8, <2>2, <2>3
<1> QED  BY <1>7, <1>8

\* A round keeps the invariant, raises the alarm on isolation, and does not
\* raise it otherwise.
LEMMA RoundStep ==
  ASSUME IInv, TypeOK', Compute(position', msgs'),
         EmergencyEchoed', position'[Me] = OwnPosition \/ echoed'
  PROVE  /\ IInv'
         /\ ~selfDetected /\ Isolated' => panicking' /\ menu' = "PANIC_MODE"
         /\ ~selfDetected /\ selfDetected' =>
              echoed' \/ (Friends(Me) # {} /\ FarFromAll(Me, OwnPosition))'
<1> DEFINE F == Friends(Me)'
           dist(j) == Distance(position'[Me], position'[j])
<1>1. /\ F = {} => UNCHANGED <<nearest, panel>>
      /\ F # {} =>
           /\ NearestIsNearest'
           /\ IF nearest'.dist > AlertDistance \/ msgs'[Me] = MSG_EMERGENCY
              THEN AlertToFriends ELSE UNCHANGED panel
  BY ComputeStep DEF IInv
<1>2. CASE F = {}
  <2>1. NearestIsNearest' /\ ~Isolated' /\ selfDetected' = selfDetected
    BY <1>1, <1>2 DEF NearestIsNearest, Isolated, panel
  <2> QED  BY <2>1 DEF IInv, IsolationNoticed
<1>3. CASE F # {}
  <2>1. /\ nearest'.id \in F
        /\ nearest'.dist = dist(nearest'.id)
        /\ \A j \in F : nearest'.dist <= dist(j)
    BY <1>1, <1>3 DEF NearestIsNearest
  <2>2. \A j \in F : dist(j) \in Nat
    <3>1. position' \in [Peers -> Nat] /\ F \subseteq Peers
      BY Constants DEF TypeOK, Friends
    <3> QED  BY <3>1, Constants, Metric
  <2>3. Isolated' <=> nearest'.dist > AlertDistance
    <3>1. Isolated' <=> \A j \in F : dist(j) > AlertDistance
      BY <1>3 DEF Isolated, FarFromAll
    <3> HIDE DEF F, dist
    <3> QED  BY <2>1, <2>2, <3>1, Constants
  <2>4. Isolated' => AlertToFriends
    BY <1>1, <1>3, <2>3
  <2>5. Isolated' => selfDetected'
    BY <2>4 DEF AlertToFriends
  <2>6. ~selfDetected /\ Isolated' => panicking' /\ menu' = "PANIC_MODE"
    BY <2>4 DEF AlertToFriends
  <2>7. ~selfDetected /\ selfDetected' => Isolated' \/ echoed'
    BY <1>1, <1>3, <2>3 DEF EmergencyEchoed, panel
  <2>8. Isolated' => echoed' \/ (Friends(Me) # {} /\ FarFromAll(Me, OwnPosition))'
    BY DEF Isolated
  <2> QED  BY <1>1, <1>3, <2>5, <2>6, <2>7, <2>8 DEF IInv, IsolationNoticed
<1> QED  BY <1>2, <1>3

-----------------------------------------------------------------------------
LEMMA InitHolds == Init => IInv
<1> SUFFICES ASSUME Init PROVE IInv
  OBVIOUS
<1>1. TypeOK
  BY Constants DEF Init, TypeOK, Nobody, Menus, MsgTypes
<1>2. \A i \in Peers : Friends(i) = {}
  BY DEF Init, Friends, NoPosition
<1>3. NearestIsNearest /\ IsolationNoticed
  BY <1>2, Constants DEF NearestIsNearest, IsolationNoticed, Isolated
<1>4. EmergencyEchoed
  BY Constants DEF Init, EmergencyEchoed, MSG_EMERGENCY
<1> QED  BY <1>1, <1>3, <1>4 DEF IInv

\* What compute() stores is of its type.
LEMMA ComputeTypes ==
  ASSUME TypeOK, NEW pos \in [Peers -> Positions \cup {NoPosition}],
         NEW m \in [Peers -> MsgTypes], Compute(pos, m)
  PROVE  /\ nearest'.id \in Peers \cup {PEERID_NONE} /\ nearest'.dist \in Nat
         /\ menu' \in Menus /\ selfDetected' \in BOOLEAN /\ panicking' \in BOOLEAN
<1> DEFINE c == Closest(pos, Me)
<1>1. pos \in [Peers -> Nat]
  BY Constants
<1>2. IsClosest(c, pos, Me, MaxPeers)
  BY <1>1, Constants, ClosestIsClosest
<1>3. c.id \in Peers \cup {PEERID_NONE} /\ c.dist \in Nat
  <2>1. Comparable(pos, Me, MaxPeers) \subseteq Peers
    BY Constants DEF Comparable, Peers
  <2>2. CASE c = Nobody
    BY <2>2 DEF Nobody
  <2>3. CASE c.id \in Comparable(pos, Me, MaxPeers)
             /\ c.dist = Distance(pos[Me], pos[c.id])
    <3>1. c.id \in Peers
      BY <2>1, <2>3
    <3> HIDE DEF c
    <3> QED  BY <1>1, <2>3, <3>1, Constants, Metric
  <2> QED  BY <1>2, <2>2, <2>3 DEF IsClosest
<1>4. nearest' = c \/ nearest' = nearest
  BY DEF Compute
<1>5. AlertToFriends \/ UNCHANGED panel
  BY DEF Compute
<1>6. menu' \in Menus /\ selfDetected' \in BOOLEAN /\ panicking' \in BOOLEAN
  BY <1>5 DEF TypeOK, AlertToFriends, panel, Menus
<1> HIDE DEF c
<1> QED  BY <1>3, <1>4, <1>6 DEF TypeOK

\* The rounds of tdComp,
LEMMA MessageStep ==
  ASSUME IInv, NEW f \in Frames, RoundWithMessage(f)
  PROVE  /\ TypeOK' /\ Compute(position', msgs') /\ EmergencyEchoed'
         /\ position'[Me] = OwnPosition \/ echoed'
<1> DEFINE own == [position EXCEPT ![Me] = OwnPosition]
<1>1. f.id \in Peers /\ f.pos \in Positions /\ f.msg \in MsgTypes
  BY DEF Frames
<1>2. own \in [Peers -> Positions \cup {NoPosition}] /\ own[Me] = OwnPosition
  BY Constants DEF IInv, TypeOK
<1>3. position' \in [Peers -> Positions \cup {NoPosition}]
  BY <1>1, <1>2 DEF RoundWithMessage
<1>4. msgs' \in [Peers -> MsgTypes]
  BY <1>1 DEF RoundWithMessage, IInv, TypeOK
<1>5. Compute(position', msgs')
  BY DEF RoundWithMessage
<1>6. echoed' = (echoed \/ f.id = Me) /\ echoed' \in BOOLEAN
  BY DEF RoundWithMessage, IInv, TypeOK
<1>7. TypeOK'
  BY <1>3, <1>4, <1>5, <1>6, ComputeTypes DEF IInv, TypeOK
<1>8. f.id # Me => position'[Me] = OwnPosition /\ msgs'[Me] = msgs[Me]
  BY <1>1, <1>2, Constants DEF RoundWithMessage, IInv, TypeOK
<1>9. EmergencyEchoed'
  BY <1>6, <1>8 DEF IInv, EmergencyEchoed
<1> QED  BY <1>5, <1>6, <1>7, <1>8, <1>9

LEMMA TimeoutStep ==
  ASSUME IInv, RoundWithTimeout
  PROVE  /\ TypeOK' /\ Compute(position', msgs') /\ EmergencyEchoed'
         /\ position'[Me] = OwnPosition \/ echoed'
<1>1. /\ position' \in [Peers -> Positions \cup {NoPosition}]
      /\ position'[Me] = OwnPosition
  BY Constants DEF RoundWithTimeout, IInv, TypeOK
<1>2. msgs' = msgs /\ echoed' = echoed /\ Compute(position', msgs')
  BY DEF RoundWithTimeout
<1>3. TypeOK'
  BY <1>1, <1>2, ComputeTypes DEF IInv, TypeOK
<1> QED  BY <1>1, <1>2, <1>3 DEF IInv, EmergencyEchoed

\* and the buttons, which touch neither positions nor the detection.
LEMMA ButtonStep ==
  ASSUME IInv, (\E screen \in Menus : Turn(screen)) \/ Cancel \/ Ok \/ UNCHANGED vars
  PROVE  IInv' /\ selfDetected' = selfDetected /\ Isolated' = Isolated
<1>1. UNCHANGED <<params, nearest, selfDetected, echoed>>
  BY DEF Turn, Cancel, Ok, vars, panel
<1>2. menu' \in Menus /\ panicking' \in BOOLEAN
  BY DEF IInv, TypeOK, Turn, Cancel, Ok, vars, panel
<1>3. TypeOK'
  BY <1>1, <1>2 DEF IInv, TypeOK, params
<1>4. NearestIsNearest' /\ Isolated' = Isolated
  BY <1>1 DEF IInv, NearestIsNearest, Isolated, Friends, FarFromAll, params
<1> QED  BY <1>1, <1>3, <1>4 DEF IInv, IsolationNoticed, EmergencyEchoed, params

\* Every step does what RoundStep says, or leaves isolation and detection.
LEMMA NextStep ==
  ASSUME IInv, [Next]_vars
  PROVE  /\ IInv'
         /\ ~selfDetected /\ Isolated' => panicking' /\ menu' = "PANIC_MODE"
         /\ ~selfDetected /\ selfDetected' =>
              echoed' \/ (Friends(Me) # {} /\ FarFromAll(Me, OwnPosition))'
<1>1. CASE \E f \in Frames : RoundWithMessage(f)
  <2>1. PICK f \in Frames : RoundWithMessage(f)
    BY <1>1
  <2> QED  BY <2>1, MessageStep, RoundStep
<1>2. CASE RoundWithTimeout
  BY <1>2, TimeoutStep, RoundStep
<1>3. CASE (\E screen \in Menus : Turn(screen)) \/ Cancel \/ Ok \/ UNCHANGED vars
  <2>1. IInv' /\ selfDetected' = selfDetected /\ Isolated' = Isolated
    BY <1>3, ButtonStep
  <2>2. Isolated' => selfDetected
    BY <2>1 DEF IInv, IsolationNoticed
  <2> QED  BY <2>1, <2>2
<1> QED  BY <1>1, <1>2, <1>3 DEF Next

THEOREM Invariance == Spec => []IInv
<1>1. IInv /\ [Next]_vars => IInv'
  BY NextStep
<1> QED  BY InitHolds, <1>1, PTL DEF Spec

\* No position, message or shown friend leaves its type, and compute() shows
\* no id that is not an index of params (computationThread.c).
THEOREM TypeCorrect == Spec => []TypeOK
<1>1. IInv => TypeOK
  BY DEF IInv
<1> QED  BY <1>1, Invariance, PTL

\* The friend on the panel is the closest of all that have a position, for
\* any number of peers: compute()'s loop does not miss one, nor the device
\* itself, and what is shown is of its last round.
THEOREM ShowsTheNearest == Spec => []NearestIsNearest
<1>1. IInv => NearestIsNearest
  BY DEF IInv
<1> QED  BY <1>1, Invariance, PTL

\* The first isolation raises the alarm in the round that finds it (compute()
\* and UIAlertToFriends).
THEOREM IsolationAlarms == Spec => FirstIsolationAlarms
<1>1. IInv /\ [Next]_vars =>
        [ ~selfDetected /\ Isolated' => panicking' /\ menu' = "PANIC_MODE" ]_vars
  BY NextStep
<1> QED  BY <1>1, Invariance, PTL DEF Spec, FirstIsolationAlarms

\* And compute() raises it for no other reason, an echoed own id apart.
THEOREM AlarmIsTrue == Spec => NoFalseAlarm
<1>1. IInv /\ [Next]_vars =>
        [ ~selfDetected /\ selfDetected' =>
            echoed' \/ (Friends(Me) # {} /\ FarFromAll(Me, OwnPosition))' ]_vars
  BY NextStep
<1> QED  BY <1>1, Invariance, PTL DEF Spec, NoFalseAlarm
=============================================================================
