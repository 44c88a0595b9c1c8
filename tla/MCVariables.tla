---------------------------- MODULE MCVariables ----------------------------
(* Variables for TLC: a shell started with a home directory, and one started by another
   shell that has set OLDPWD and UID but no HOME. *)
EXTENDS Variables, TLC

MCEnvirons == {"HOME" :> "/home", "OLDPWD" :> "/" @@ "UID" :> "1"}
=============================================================================
