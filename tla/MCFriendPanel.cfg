CONSTANT Updates = {"u1"}
SPECIFICATION Spec
INVARIANT DirectionsAgree
PROPERTY FriendShownWhole
