----------------------------- MODULE MCThreads ------------------------------
(* The threads of the program; delays and transfers are the bounds.         *)
EXTENDS Threads
MCThreadSet == {"idle", "main", "tdUI", "tdParser", "tdComp"}
MCPriority == [t \in MCThreadSet |->
  CASE t = "idle" -> 1 [] t = "tdUI" -> 3 [] OTHER -> 2]
\* tdUI sleeps shorter, as long as and longer than the others.
MCDelays == [t \in MCThreadSet |->
  CASE t = "main" -> {2} [] t = "tdUI" -> {1, 3} [] t = "tdComp" -> {2} [] OTHER -> {}]
\* A command to the display, a reading of the compass.
MCTransfers == {[tx |-> 2, rx |-> 0], [tx |-> 1, rx |-> 2]}
=============================================================================
