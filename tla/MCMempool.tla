------------------------------ MODULE MCMempool ------------------------------
(* Two transactions at a time: long-lived ones, ones that depend on or       *)
(* exclude each other, custom operations of one account, a privileged one.   *)
EXTENDS Mempool, TLC

CONSTANTS t1, t2, t3, t4, t5, alice

AllTx == {t1, t2, t3, t4, t5}
expirations == (t1 :> 6) @@ (t2 :> 3) @@ (t3 :> 4) @@ (t4 :> 6) @@ (t5 :> 5)
sizes == (t1 :> 1) @@ (t2 :> 2) @@ (t3 :> 1) @@ (t4 :> 1) @@ (t5 :> 1)
customs == [t \in AllTx |-> IF t \in {t3, t5} THEN alice ELSE NoAccount]
needs == [t \in AllTx |-> IF t = t4 THEN {t1} ELSE {}]
excludes == [t \in AllTx |-> IF t = t3 THEN {t2} ELSE {}]
SmallWorlds == {{t1, t2}, {t1, t4}, {t2, t3}, {t3, t5}}
===============================================================================
