------------------------------ MODULE MC_Drive ------------------------------
(* The two tags that decide what the drive does. *)
EXTENDS IndraDrive, TLC

MCValues    == Words \cup Positions
MCTags      == {"control", "target"}
MCOffset    == [t \in MCTags |-> IF t = "control" THEN 0 ELSE 2]
MCLength    == [t \in MCTags |-> 2]
MCInputs    == Telegrams
MCSymmetry  == Permutations(Positions)
=============================================================================
