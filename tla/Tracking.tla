------------------------------ MODULE Tracking ------------------------------
(***************************************************************************)
(* What tdComp makes of peer messages: one round of its loop takes the own *)
(* position, waits up to a second for a message, records it, and runs      *)
(* compute(), which looks for the closest peer of every device and raises  *)
(* the alarm when the own one is too far away.  The panel's flags that     *)
(* compute() and the buttons share are here with whole callbacks as steps; *)
(* UiPanel takes them apart.                                               *)
(*                                                                         *)
(* A position is a point on a line, 0 when a coordinate is not positive:   *)
(* distance() is used as a metric and for nothing else.                    *)
(***************************************************************************)
EXTENDS Integers, FiniteSets

CONSTANTS
  MaxPeers,       \* MAX_PEERS
  Me,             \* g_myID
  OwnPosition,    \* what getGPSLongitude and getGPSLatitude return (GPS_HACK)
  Positions,      \* positions a message may carry
  AlertDistance   \* params.alert_distance

VARIABLES
  position,         \* params.longitudes and params.latitudes
  msgs,             \* params.msgs
  nearest,          \* g_nearestFriendInfo.id and g_nearestFriendDistance
  menu,             \* mCurMenu
  selfDetected,     \* IS_SELFDETECT_PANICKING
  panicking,        \* IS_PANICKING
  echoed            \* history: a message has carried the own id

params == <<position, msgs>>
panel == <<menu, selfDetected, panicking>>
vars == <<params, nearest, panel, echoed>>

Peers == 0..(MaxPeers - 1)
NoPosition == 0
PEERID_NONE == -1
MSG_EMERGENCY == 1
MsgTypes == {0, MSG_EMERGENCY}
Menus == {"MY_INFO", "FRIEND_INFO", "PANIC_MODE", "FRIEND_ALERT", "CONTRAST_SETTING"}

ASSUME TrackingAssumption ==
  /\ MaxPeers \in Nat /\ Me \in Peers
  /\ Positions \subseteq Nat /\ OwnPosition \in Positions \ {NoPosition}
  /\ AlertDistance \in Nat

\* Messages whose peer id is an index of params; see the hazards for the rest.
Frames == [id : Peers, pos : Positions, msg : MsgTypes]

Distance(a, b) == IF a > b THEN a - b ELSE b - a

-----------------------------------------------------------------------------
\* Slips that the properties below must notice.
CloserOrEqual(d, m) == m.id = PEERID_NONE \/ d <= m.dist
ClosestByCount(pos, i) ==   \* the loop counter after its increment
  IF \E j \in Peers \ {i} : pos[i] > 0 /\ pos[j] > 0
  THEN [id |-> MaxPeers, dist |-> 0] ELSE [id |-> PEERID_NONE, dist |-> 0]
TooFarOrEqual(c, m) == c.dist >= AlertDistance \/ m = MSG_EMERGENCY
AlertWithoutMenu ==
  /\ selfDetected' = TRUE
  /\ panicking' = (panicking \/ ~selfDetected)
  /\ UNCHANGED menu

\* d < min_dist, where min_dist starts at INFINITY.
Closer(d, m) == m.id = PEERID_NONE \/ d < m.dist

\* The inner loop of compute(): the closest peer of device i, the lowest id
\* among equals, PEERID_NONE while min_dist is INFINITY.
Nobody == [id |-> PEERID_NONE, dist |-> 0]
Compare(pos, i, j, m) ==
  LET d == Distance(pos[i], pos[j])
  IN  IF pos[i] > 0 /\ pos[j] > 0 /\ i # j /\ Closer(d, m)
      THEN [id |-> j, dist |-> d] ELSE m
Closest(pos, i) ==
  LET min[n \in 0..MaxPeers] ==
        IF n = 0 THEN Nobody ELSE Compare(pos, i, n - 1, min[n-1])
  IN  min[MaxPeers]

\* The condition for an alert, of device i with closest peer c.
Alerting(c, m) == c.dist > AlertDistance \/ m = MSG_EMERGENCY

\* UIAlertToFriends.
AlertToFriends ==
  /\ selfDetected' = TRUE
  /\ IF selfDetected THEN UNCHANGED <<menu, panicking>>
     ELSE menu' = "PANIC_MODE" /\ panicking' = TRUE

\* compute(), on the updated params.  The iterations for the other devices
\* call nothing: the alert for a friend is commented out.
Compute(pos, m) ==
  LET c == Closest(pos, Me)
      known == c.id # PEERID_NONE
  IN  /\ nearest' = IF known THEN c ELSE nearest
      /\ IF known /\ Alerting(c, m[Me])
         THEN AlertToFriends
         ELSE UNCHANGED panel

\* One round of tdComp, with a message and without.
RoundWithMessage(f) ==
  LET own == [position EXCEPT ![Me] = OwnPosition]
  IN  /\ position' = [own EXCEPT ![f.id] = f.pos]
      /\ msgs' = [msgs EXCEPT ![f.id] = f.msg]
      /\ Compute(position', msgs')
      /\ echoed' = (echoed \/ f.id = Me)

RoundWithTimeout ==
  /\ position' = [position EXCEPT ![Me] = OwnPosition]
  /\ Compute(position', msgs)
  /\ UNCHANGED <<msgs, echoed>>

\* The buttons that matter to the alarm: the user turns to another screen, and
\* presses Cancel and Ok.  (On FRIEND_ALERT Cancel clears IS_FRIEND_PANICKING,
\* which nothing ever sets: UIAlertFromFriend is not called.)
Turn(screen) ==
  /\ menu' = screen
  /\ UNCHANGED <<params, nearest, selfDetected, panicking, echoed>>
Cancel ==
  /\ panicking' = (panicking /\ menu # "PANIC_MODE")
  /\ UNCHANGED <<params, nearest, menu, selfDetected, echoed>>
Ok ==
  /\ panicking' = (panicking \/ menu = "PANIC_MODE")
  /\ UNCHANGED <<params, nearest, menu, selfDetected, echoed>>

Init ==
  /\ position = [p \in Peers |-> NoPosition]
  /\ msgs = [p \in Peers |-> 0]
  /\ nearest = Nobody
  /\ menu = "MY_INFO"
  /\ selfDetected = FALSE /\ panicking = FALSE
  /\ echoed = FALSE

Next ==
  \/ \E f \in Frames : RoundWithMessage(f)
  \/ RoundWithTimeout
  \/ \E screen \in Menus : Turn(screen)
  \/ Cancel
  \/ Ok

Spec == Init /\ [][Next]_vars

-----------------------------------------------------------------------------
TypeOK ==
  /\ position \in [Peers -> Positions \cup {NoPosition}]
  /\ msgs \in [Peers -> MsgTypes]
  /\ nearest.id \in Peers \cup {PEERID_NONE} /\ nearest.dist \in Nat
  /\ menu \in Menus
  /\ selfDetected \in BOOLEAN /\ panicking \in BOOLEAN
  /\ echoed \in BOOLEAN

\* The devices i can be compared with, and whether it is far from all of them.
Friends(i) == {j \in Peers \ {i} : position[i] > 0 /\ position[j] > 0}
FarFromAll(i, at) == \A j \in Friends(i) : Distance(at, position[j]) > AlertDistance
Isolated == Friends(Me) # {} /\ FarFromAll(Me, position[Me])

\* After every round with a friend in sight the panel shows the one that is
\* closest, with its present distance, and never the device itself.
NearestIsNearest ==
  Friends(Me) # {} =>
    /\ nearest.id \in Friends(Me)
    /\ nearest.dist = Distance(position[Me], position[nearest.id])
    /\ \A j \in Friends(Me) :
         /\ nearest.dist <= Distance(position[Me], position[j])
         /\ nearest.dist = Distance(position[Me], position[j]) => nearest.id <= j

\* The first time the device is too far from every friend the alarm is raised
\* and the panel turned to it, in the very round that finds it out.
FirstIsolationAlarms ==
  [][ ~selfDetected /\ Isolated' => panicking' /\ menu' = "PANIC_MODE" ]_vars

\* The alarm is never raised by itself while a friend is within the distance,
\* unless a message with the device's own id has come in, which overwrites its
\* own position and message until the next round, and its message for good.
NoFalseAlarm ==
  [][ ~selfDetected /\ selfDetected' =>
        echoed' \/ (Friends(Me) # {} /\ FarFromAll(Me, OwnPosition))' ]_vars

\* What "If someone is too far away or if they set emergency flag, alert"
\* (computationThread.c:91) says of the device itself, whenever it gets lost.
\* It does not hold: nothing clears IS_SELFDETECT_PANICKING.
EveryIsolationAlarms ==
  [][ ~echoed' /\ ~Isolated /\ Isolated' => panicking' ]_vars
=============================================================================
