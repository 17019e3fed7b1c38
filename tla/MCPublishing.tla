---------------------------- MODULE MCPublishing ----------------------------
(* OntologyPublishing with two definitions that differ in key, project and life cycle. *)
EXTENDS OntologyPublishing

MCDefs == {[pk |-> "id", life |-> "active", project |-> None],
           [pk |-> "code", life |-> "deprecated", project |-> "p"]}
=============================================================================
