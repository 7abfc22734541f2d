---------------------------- MODULE MCStructures ----------------------------
(* The open files of the drive, and what the library keeps such things in: *)
(* the balanced tree and the interval trees built on it.  As modelled the  *)
(* three share no state, so a behaviour is one of them, as `which' chooses. *)
EXTENDS FsFiles, PIntervalTree, TLC

CONSTANT MaxNodes

VARIABLES which, t, order

B == INSTANCE PTree WITH Nodes <- 1 .. MaxNodes, NULL <- 0

treeVars == <<t, order>>

StructuresInit == which \in {"files", "intervals", "nodes"} /\ Init /\ IntervalsInit /\ B!Init
FilesNext == which = "files" /\ Next /\ UNCHANGED <<which, intervalsVars, treeVars>>
TreesNext == which = "intervals" /\ IntervalsNext /\ UNCHANGED <<which, vars, treeVars>>
NodesNext == which = "nodes" /\ B!Next /\ UNCHANGED <<which, vars, intervalsVars>>
StructuresSpec ==
  /\ StructuresInit
  /\ [][FilesNext \/ TreesNext \/ NodesNext]_<<which, vars, intervalsVars, treeVars>>

(* Handles are interchangeable, and so are nodes: they are named by their  *)
(* place in the order.  After an odd event no property speaks of what the  *)
(* user wants, and only three kinds of events are told apart.              *)
Symmetric == Permutations(Handles)
FilesView ==
  <<rows, data, overlay, table, memory, wake, upload, server, bounds, changed,
    IF odd = {} THEN <<want>> ELSE <<odd \cap {"raced", "late", "gone"}>> >>
StructuresView ==
  CASE which = "nodes" -> <<which, B!ShapeOfTree>>
    [] which = "intervals" -> <<which, intervalsVars>>
    [] OTHER -> <<which, FilesView>>

(* The tree holds what was put in and not deleted, in order and balanced,  *)
(* its parent pointers lead through it both ways, and freeing it while     *)
(* walking it reads no freed node.                                         *)
TreeOK == which = "nodes" => B!TreeOK /\ B!FreesChildrenFirst
=============================================================================
