---------------------------- MODULE MCAccounts ----------------------------
(* Accounts for TLC: the forms administrators send, and the symmetry. *)
EXTENDS Accounts, TLC

ContactForm(e, n, x) == [email |-> e, phoneNumber |-> n, isActive |-> x]

(* An administrator changes the address, the number or the state. *)
MCUpdateForms ==
    {ContactForm(e, NoValue, NoValue) : e \in Email}
    \union {ContactForm(NoValue, n, NoValue) : n \in Phone}
    \union {ContactForm(NoValue, NoValue, x) : x \in BOOLEAN}

AccountSymmetry == Permutations(Task) \union Permutations(Phone) \union Permutations(Secret)
=============================================================================
