----------------------------- MODULE MCRoster -----------------------------
(* Roster on small sets. *)
EXTENDS Roster, TLC

RequestSymmetry == Permutations(Requests)
AllSymmetry == Permutations(Requests) \cup Permutations(Users)
InvitationSymmetry == Permutations(Requests) \cup Permutations(Invitations)
=============================================================================
