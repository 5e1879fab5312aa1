---------------------------- MODULE LedgerStore ----------------------------
(***************************************************************************)
(* What the ledger of one run promises, without processes, temporary files *)
(* or crashes: the published document changes only by the whole effect of  *)
(* one valid command.  An update may start from any document that has been *)
(* published, since the store takes no lock; this is the honest promise of *)
(* a read, a merge and an atomic replacement.                              *)
(***************************************************************************)
EXTENDS LedgerShape

CONSTANTS
  Changes,   \* the changes files an update may be given
  Legacies   \* the documents an older version may have left under .git

VARIABLES
  ledger,     \* the published document, or None
  published,  \* every document that has been published
  legacy      \* the ledger under .git: a document, None, or Wrong

storeVars == <<ledger, published, legacy>>

StoreTypeOK ==
  /\ ledger \in Document \union {None}
  /\ published \subseteq Document
  /\ legacy \in Legacies \union {None, Wrong}

StoreInit ==
  /\ ledger = None
  /\ published = {}
  /\ legacy \in Legacies \union {None, Wrong}

Publish(doc) ==
  /\ ledger' = doc
  /\ published' = published \union {doc}
  /\ UNCHANGED legacy

CreateLedger == HardValid(NewLedger("valid")) /\ Publish(NewLedger("valid"))

UpdateLedger(doc, change, id) ==
  /\ UpdateOutcome(doc, change, id) = "ok"
  /\ Publish(ApplyChanges(doc, change, id))

MigrateLedger(id) ==
  /\ legacy \in Legacies
  /\ HardValid(legacy)
  /\ Publish(Migrated(legacy, id))

StoreNext ==
  \/ CreateLedger
  \/ \E doc \in published, change \in Changes, id \in EventIds :
       UpdateLedger(doc, change, id)
  \/ \E id \in EventIds : MigrateLedger(id)

StoreSpec == StoreInit /\ [][StoreNext]_storeVars
=============================================================================
