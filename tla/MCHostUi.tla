------------------------------- MODULE MCHostUi -------------------------------
(* HostUi with a directory of a file and a folder, for TLC.  A run takes one of *)
(* the budgets: each has what it takes for one kind of trouble, and the last a   *)
(* little of everything.                                                         *)
EXTENDS HostUi
MCDirs == {"home", "sub"}
MCListing == [d \in MCDirs |-> IF d = "home" THEN <<"file", "sub">> ELSE <<"deep">>]
MCParent == [d \in MCDirs |-> "home"]
MCTyped == {<<"/send">>, <<"/send", Path("home", "sub")>>, <<"/send", Path("home", "file")>>,
            <<"/send", Path("home", "gone")>>, <<"/exit">>}
Budget(keys, copies, moves, offers) ==
  [keys |-> keys, copies |-> copies, moves |-> moves, offers |-> offers]
MCBudgets == {Budget(1, 2, 1, 0), Budget(10, 0, 0, 1), Budget(0, 0, 4, 0), Budget(3, 0, 2, 1),
              Budget(3, 1, 1, 1)}
==============================================================================
