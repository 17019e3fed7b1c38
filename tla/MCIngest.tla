------------------------------ MODULE MCIngest ------------------------------
(* The syncs of one dataset.  The two ways to read rows by a property differ in the steps of the *)
(* read, so one event beside it is enough there; files and overwrites meet two.                  *)
EXTENDS IncrementalSync

MCMaxEvents == [overwrite |-> 2, property |-> 1, pages |-> 1, files |-> 2]
=============================================================================
