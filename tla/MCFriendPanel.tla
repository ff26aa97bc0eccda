--------------------------- MODULE MCFriendPanel ----------------------------
(* One update of interest; Junk stands for every other.                     *)
EXTENDS FriendPanel
=============================================================================
