--------------------------- MODULE MCIncidentPages ---------------------------
(* Listings of the incidents that the events of MCIncidentManager make.     *)
EXTENDS IncidentPages, MCIncidentManager

(* Everything, and what a publication made investigating.                   *)
Listings ==
    {NoFilter, [status |-> "investigating", entity |-> "any", severity |-> 80]}
=============================================================================
