----------------------------- MODULE MCKnowledge -----------------------------
(* Three transactions, two of them on one knowledge item.                 *)
EXTENDS KnowledgeTransaction, TLC

CONSTANTS x1, x2, x3, a, b

MCKiOf == (x1 :> a) @@ (x2 :> a) @@ (x3 :> b)
=============================================================================
