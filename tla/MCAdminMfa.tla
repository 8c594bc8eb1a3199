----------------------------- MODULE MCAdminMfa -----------------------------
(***************************************************************************)
(* Instances of AdminMfa for TLC.  Requests, tokens and secrets are only   *)
(* ever compared for equality.                                             *)
(***************************************************************************)
EXTENDS AdminMfa, TLC

Interchangeable ==
    Permutations(Requests) \cup Permutations(Tokens)
      \cup Permutations(TotpSecrets)
=============================================================================
