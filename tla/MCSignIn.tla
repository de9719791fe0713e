------------------------------ MODULE MCSignIn ------------------------------
(* SignIn: one phone, two requests at a time, two codes and three tokens.  *)
EXTENDS SignIn, TLC

AnyCall == Permutations(Calls)

=============================================================================
