----------------------------- MODULE MCProfile -----------------------------
(***************************************************************************)
(* Model-checking instance of an account's contact channels and of its     *)
(* files. They share no state: a behaviour is one of the component it      *)
(* starts with.                                                            *)
(***************************************************************************)
EXTENDS MCAccounts, Files

VARIABLE part

MCInit == part \in {"accounts", "files"} /\ AccountsInit /\ Init

(* The channels may come to rest; a request about files must never get stuck. *)
MCNext ==
    \/ part = "accounts" /\ (AccountsNext \/ UNCHANGED accountVars) /\ UNCHANGED <<part, vars>>
    \/ part = "files" /\ Next /\ UNCHANGED <<part, accountVars>>

MCSpec == MCInit /\ [][MCNext]_<<part, accountVars, vars>>

Symmetry == AccountSymmetry \union Permutations(Files) \union Permutations(Requests)
=============================================================================
