-------------------------------- MODULE Tips --------------------------------
(***************************************************************************)
(* The tips of a repository in the reftable format, seen from two sides:   *)
(* the tables that hold them (Reftable), and the commits they lead to, with *)
(* what walks over these (Bisect, History).  A run looks from one side; the *)
(* two share no state, as the code of neither calls the other.              *)
(***************************************************************************)
EXTENDS Reftable, Bisect

VARIABLE side

tipVars == <<vars, historyVars, bisectVars, side>>

NoTables  == Init /\ cmd = [p \in Proc |-> CHOOSE c \in Commands : TRUE]
NoHistory == BisectInit /\ parents = <<>> /\ detached = None

TipsInit ==
  \/ side = "tables"  /\ Init     /\ NoHistory
  \/ side = "history" /\ NoTables /\ BisectInit

TipsNext ==
  /\ UNCHANGED side
  /\ \/ side = "tables"  /\ Next       /\ UNCHANGED <<historyVars, bisectVars>>
     \/ side = "history" /\ BisectNext /\ UNCHANGED vars

TipsSpec == TipsInit /\ [][TipsNext]_tipVars
=============================================================================
