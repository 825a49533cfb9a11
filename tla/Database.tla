------------------------------ MODULE Database ------------------------------
(***************************************************************************)
(* The database: the store of objects (ObjectStore), and in behaviours of  *)
(* its own the file of one thing (DataFile), of which the store only knows *)
(* whether it is there and what it refers to.                              *)
(***************************************************************************)
EXTENDS ObjectStore, DataFile

VARIABLE which

NoStore ==
  /\ heap = <<>> /\ table = NewArray(StartSize) /\ disk = [i \in Id |-> NoFile]
  /\ stack = <<>> /\ saving = None /\ births = 0 /\ writes = 0 /\ dirty = {}

BothInit ==
  \/ which = "file" /\ FileInit /\ NoStore
  \/ which = "store" /\ Init /\ NothingSaved /\ thing = Nothing

(* A saved thing may stay as it is: nothing else may stop.                  *)
Finished == which = "file" /\ step = "running" /\ UNCHANGED <<which, vars, fileVars>>

BothNext ==
  \/ Finished
  \/ which = "file" /\ FileNext /\ UNCHANGED <<which, vars>>
  \/ which = "store" /\ Next /\ UNCHANGED <<which, fileVars>>

BothSpec == BothInit /\ [][BothNext]_<<which, vars, fileVars>>

-----------------------------------------------------------------------------
(* Properties, besides those of the two modules.                            *)

(* The table, the objects and the files refer to each other only as their   *)
(* types allow; the cursor is on a node of the file, and what is being read *)
(* nests as the file does.                                                  *)
TypesOK == TypeOK /\ FileTypeOK

=============================================================================
