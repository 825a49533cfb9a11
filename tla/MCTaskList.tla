----------------------------- MODULE MCTaskList -----------------------------
(* LinkedQueue on one frame (the list never looks at it), four addresses of *)
(* entries and a clock of three ticks: lists of four entries with ties.     *)
EXTENDS LinkedQueue

=============================================================================
