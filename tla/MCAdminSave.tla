---------------------------- MODULE MCAdminSave -----------------------------
(* AdminSave on small instances: two derived files, the secret first, as   *)
(* os.walk meets them.                                                     *)
EXTENDS AdminSave, TLC

MCWalk == <<"bridge-secret", "bridge/.env">>
Symmetry == Permutations(Request)
=============================================================================
