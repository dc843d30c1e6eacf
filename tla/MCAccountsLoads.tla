-------------------------- MODULE MCAccountsLoads --------------------------
(***************************************************************************)
(* Two loads, told apart by the password of the account.  In the first     *)
(* everything that opens, renews and ends sessions overlaps while the      *)
(* password changes.  In the second, where it never changes, codes are     *)
(* generated and redeemed while administrators change the status of their  *)
(* owner, who logs in when no session is left and nothing else goes on.    *)
(***************************************************************************)
EXTENDS MCAccounts

CONSTANT LastingPassword

MCInit == Registered(FirstPassword) \/ Registered(LastingPassword)

MCSpec == MCInit /\ [][Next]_vars

Runs(ops) == \A h \in Handlers : task'[h].op \in ops \cup {Idle.op}

Sessions ==
  /\ Runs({"login", "refreshToken", "logout", "changePassword", "recoverPassword",
           "forceLogoutUser", "clearUserData"})
  /\ user'.password # LastingPassword
  /\ \A h \in Handlers : task'[h].password # LastingPassword

LoginAlone ==
  \A h \in Handlers : task'[h].op = "login" =>
    /\ task[h].op # "login" => tokens = {}
    /\ \A g \in Handlers \ {h} : task'[g] = Idle

Invites ==
  /\ Runs({"login", "generateInviteCode", "register", "updateUserStatus"})
  /\ LoginAlone

OneLoad == IF user.password = LastingPassword THEN Invites ELSE Sessions

\* Without the codes, whose permutations cost more than they save here.
SymmetricLoads == Permutations(Handlers) \cup Permutations(Keys \ {FirstKey})
=============================================================================
