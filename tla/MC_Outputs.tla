----------------------------- MODULE MC_Outputs -----------------------------
(* The layout of the drive's outputs, one register for each tag. *)
EXTENDS MGateOutputs

MCTags   == {"control", "target", "velocity", "override"}
MCOffset == [t \in MCTags |->
               CASE t = "control" -> 0 [] t = "target" -> 2
                 [] t = "velocity" -> 4 [] OTHER -> 6]
MCLength == [t \in MCTags |-> 2]
=============================================================================
