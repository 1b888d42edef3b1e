---------------------------- MODULE MCSessions ----------------------------
(***************************************************************************)
(* Sessions on small sets. A behaviour either has chains of three tokens,  *)
(* with sign-ins, rotations, replays and sign-outs, or chains of two and   *)
(* every operation: part says which, and WithinBudget keeps it so.         *)
(***************************************************************************)
EXTENDS Sessions, TLC

VARIABLE part

MCInit == Init /\ part \in {"chains", "endings"}

MCNext == Next /\ UNCHANGED part

MCSpec == MCInit /\ [][MCNext]_<<vars, part>>

WithinBudget ==
    IF part = "chains" THEN \A r \in Request : pc'[r] \notin {"end", "ending", "update"}
    ELSE \E t \in Token : rows'[t].state = "unused"

SessionSymmetry == Permutations(Request) \cup Permutations(Token)
===========================================================================
