--------------------------- MODULE MCAuthService ---------------------------
(* Symmetry sets for the model values of the AuthService configurations.   *)
EXTENDS AuthService, TLC

Symmetry ==
    Permutations(Client) \cup Permutations(Username)
        \cup Permutations(Password) \cup Permutations(ResourceId)
=============================================================================
