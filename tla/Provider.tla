------------------------------ MODULE Provider ------------------------------
(***************************************************************************)
(* The start of the server (src/provider/provider.go) on top of the silo: *)
(* NewProvider opens the silo on the data file and then always calls      *)
(* createDefaultResources, which inserts the admin group and then the     *)
(* admin user, each through Silo.Insert in its own transaction.  The      *)
(* process may stop at any point (a crash, a kill, or its exit after      *)
(* NewProvider returned an error) and be started again on the same file;  *)
(* what the silo committed stays, the rest is gone.                       *)
(*                                                                         *)
(* CreateResource and DeleteResource hand the request to Silo.Insert and  *)
(* Silo.Remove unchanged; those are the Silo model's actions.             *)
(***************************************************************************)
EXTENDS Silo

CONSTANTS
  AdminName,       \* "admin", the userName of the default user
  AdminEmail,      \* "admin@<domain>"
  AdminGroupName,  \* "Administrators", the displayName of the default group
  MaxRestarts      \* bound on the times the process stops and is started

ASSUME {"username", "emails", "displayname"} \subseteq Attrs
ASSUME {AdminName, AdminEmail, AdminGroupName} \subseteq Vals
ASSUME MaxRestarts \in Nat

(* The parsed templates of createDefaultResources.  The "groups" entry    *)
(* the code adds to the user with AddCA is readOnly, and Insert strips it *)
(* (RemoveReadOnlyAt) before anything is stored.                          *)
AdminGroup ==
  [rt |-> "Group", members |-> {}, groups |-> {},
   at |-> [a \in Attrs |-> IF a = "displayname" THEN {AdminGroupName} ELSE {}]]
AdminUser ==
  [rt |-> "User", members |-> {}, groups |-> {},
   at |-> [a \in Attrs |-> CASE a = "username" -> {AdminName}
                             [] a = "emails"   -> {AdminEmail}
                             [] OTHER          -> {}]]

VARIABLES
  phase,     \* "down", "opened", "grpDone" (in NewProvider), "up" or "failed"
  restarts   \* the times the process has stopped so far

pvars == <<vars, phase, restarts>>

(* A data file that no process has opened yet.                           *)
ProviderInit == Init /\ phase = "down" /\ restarts = 0

(* NewProvider: silo.Open on the data file with the configuration, which *)
(* does not change between starts here.                                   *)
Start ==
  /\ phase = "down"
  /\ \E conf \in Configs : Reopen(conf)
  /\ phase' = "opened"
  /\ UNCHANGED restarts

(* createDefaultResources, first insert: the admin group.  An error is   *)
(* returned to NewProvider, which returns it to its caller.               *)
CreateAdminGroup ==
  /\ phase = "opened"
  /\ \E rid \in Rids : Insert(rid, AdminGroup)
  /\ phase' = IF resp'.err = "nil" THEN "grpDone" ELSE "failed"
  /\ UNCHANGED restarts

(* createDefaultResources, second insert: the admin user; NewProvider    *)
(* returns the provider with the error of this insert.                    *)
CreateAdminUser ==
  /\ phase = "grpDone"
  /\ \E rid \in Rids : Insert(rid, AdminUser)
  /\ phase' = IF resp'.err = "nil" THEN "up" ELSE "failed"
  /\ UNCHANGED restarts

(* The process stops wherever it is and is started again later.  Every   *)
(* operation is one bolt transaction, so a stop falls between two of     *)
(* them and leaves the committed state as it is.                          *)
Restart ==
  /\ phase # "down"
  /\ restarts < MaxRestarts
  /\ phase' = "down"
  /\ restarts' = restarts + 1
  /\ UNCHANGED vars

ProviderNext == Start \/ CreateAdminGroup \/ CreateAdminUser \/ Restart

(* NewProvider runs its steps one after the other in one goroutine, and  *)
(* a stopped server is started again: these steps are weakly fair.  A    *)
(* restart is not: nothing makes the process stop.                         *)
ProviderSpec ==
  /\ ProviderInit /\ [][ProviderNext]_pvars
  /\ WF_pvars(Start \/ CreateAdminGroup \/ CreateAdminUser)

-----------------------------------------------------------------------------
IsAdminUser(r)  == r \in LiveOf("User") /\ AdminName \in store[r].at["username"]
IsAdminGroup(g) == g \in LiveOf("Group") /\ AdminGroupName \in store[g].at["displayname"]

StartLeadsToUp == phase = "down" ~> phase = "up"

=============================================================================
