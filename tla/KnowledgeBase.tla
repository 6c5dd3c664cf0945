---------------------------- MODULE KnowledgeBase ----------------------------
(***************************************************************************)
(* What knowledge/transaction.py promises whoever reads the knowledge: one *)
(* current index that changes by one whole transaction at a time, each at  *)
(* most once, and keeps every item no later transaction replaced.  No      *)
(* journal, staging, snapshot, lock or crash in sight.                     *)
(***************************************************************************)
CONSTANTS Tx,     \* transactions; each brings one knowledge item
          Ki,     \* identifiers of knowledge items
          KiOf,   \* the identifier a transaction writes
          None    \* no transaction

VARIABLES items,    \* items[k]: the transaction that wrote item k, or None
          outcome   \* what became of each transaction

baseVars == <<items, outcome>>

BaseInit ==
  /\ items = [k \in Ki |-> None]
  /\ outcome = [tx \in Tx |-> "open"]

Put(tx) ==
  /\ outcome[tx] = "open"
  /\ items' = [items EXCEPT ![KiOf[tx]] = tx]
  /\ outcome' = [outcome EXCEPT ![tx] = "published"]

GiveUp(tx) ==
  /\ outcome[tx] = "open"
  /\ outcome' = [outcome EXCEPT ![tx] = "aborted"]
  /\ UNCHANGED items

BaseNext == \E tx \in Tx : Put(tx) \/ GiveUp(tx)

BaseSpec == BaseInit /\ [][BaseNext]_baseVars
=============================================================================
