---------------------------- MODULE MCAdminRoles ----------------------------
(* AdminRoles on two commands in flight among two users. *)
EXTENDS AdminRoles, TLC

Symmetries == Permutations(Task) \cup Permutations(User)
=============================================================================
