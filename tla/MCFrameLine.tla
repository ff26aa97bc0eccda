---------------------------- MODULE MCFrameLine ----------------------------
(***************************************************************************)
(* FrameLine with the sizes of the code and frames of the format string of *)
(* UISendMessage, "%02d,%03d%02d%04d,%03d%02d%04d,%d$".  Its widths are    *)
(* the least ones: the minutes, in which degrees and radians are mixed,    *)
(* may have five digits, and a part may have a sign.  One frame has empty  *)
(* numbers, which the parser takes as well.                                *)
(***************************************************************************)
EXTENDS FrameLine

D(n) == [i \in 1..n |-> "digit"]
Comma == <<"comma">>
Frame(longitude, latitude) ==
  D(2) \o Comma \o longitude \o Comma \o latitude \o Comma \o D(1) \o <<"dollar">>

MCFrames ==
  { Frame(D(9), D(9)),
    Frame(D(10), D(10)),              \* the longest that is parsed
    Frame(D(11), D(9)),               \* as long, but no message: DegMax
    Frame(D(11), D(11)),              \* cut
    Frame(<<"text">> \o D(9), D(9)),  \* no message: a sign
    Frame(<<>>, <<>>) }
=============================================================================
