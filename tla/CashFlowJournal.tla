--------------------------- MODULE CashFlowJournal ---------------------------
(***************************************************************************)
(* scripts/cash_flow_journal.py: the pure journal of attributable external *)
(* transfers.  An event carries its transfer id, the signed amount and the *)
(* effective time (the identity that may never change), the time it was    *)
(* observed, its status, and whether it is well formed, for this account   *)
(* and from an approved source (ok).  A batch is a set: the code walks a   *)
(* list, but a batch is accepted only when all events of one transfer      *)
(* agree, and then the order they are listed in changes nothing.           *)
(***************************************************************************)
EXTENDS Integers, FiniteSetsExt, Functions

CONSTANT Transfers      \* transfer ids

NoEntry == [amount |-> 0, effective |-> 0, status |-> "absent", applied |-> FALSE]

\* empty_journal: asOf = 0 stands for as_of None.
EmptyJournal ==
  [entries |-> [t \in Transfers |-> NoEntry], blocked |-> FALSE, asOf |-> 0]

\* _same: identity is everything but observed_at and status.
SameIdentity(e, f) == e.amount = f.amount /\ e.effective = f.effective

\* An observation from the future, or a settlement effective in the future.
FromFuture(e, asOf) == e.observed > asOf \/ (e.status = "settled" /\ e.effective > asOf)

Valid(e, asOf) == e.ok /\ ~FromFuture(e, asOf)

Conflicts(journal, batch, asOf, e) ==
  \/ /\ journal.entries[e.id] # NoEntry
     /\ ~SameIdentity(journal.entries[e.id], e)
  \/ \E f \in batch : f.id = e.id /\ Valid(f, asOf) /\ ~SameIdentity(f, e)

Quarantined(journal, batch, asOf) ==
  {e \in batch : ~Valid(e, asOf) \/ Conflicts(journal, batch, asOf, e)}

\* _journal refuses (raises) a journal observed later than this snapshot.
Refused(journal, asOf) == journal.asOf > asOf

\* Mutation: a clean batch lifts the quarantine of an earlier one.
BlocksThisBatch(journal, batch, asOf) == Quarantined(journal, batch, asOf) # {}

Blocks(journal, batch, asOf) == journal.blocked \/ Quarantined(journal, batch, asOf) # {}

\* Mutation: the last status reported wins, so settled can regress.
SettleLatest(entry, events) ==
  IF events = {} THEN entry
  ELSE LET e == CHOOSE e \in events : TRUE
       IN  [amount |-> e.amount, effective |-> e.effective,
            status |-> e.status, applied |-> e.status = "settled"]

\* One transfer after an accepted batch: pending may settle, settled never
\* regresses, and a settled transfer is applied.
Settle(entry, events) ==
  IF events = {} THEN entry
  ELSE LET e       == CHOOSE e \in events : TRUE
           settled == entry.status = "settled" \/ \E f \in events : f.status = "settled"
       IN  [amount |-> e.amount, effective |-> e.effective,
            status |-> IF settled THEN "settled" ELSE "pending",
            applied |-> entry.applied \/ settled]

\* reconcile(...).journal
Reconciled(journal, batch, asOf) ==
  IF Blocks(journal, batch, asOf)
  THEN [entries |-> journal.entries, blocked |-> TRUE, asOf |-> asOf]
  ELSE [entries |-> [t \in Transfers |->
                       Settle(journal.entries[t], {e \in batch : e.id = t})],
        blocked |-> FALSE, asOf |-> asOf]

\* The signed sum of everything the journal has acknowledged as applied.
Applied(journal) ==
  SumFunctionOnSet([t \in Transfers |-> journal.entries[t].amount],
                   {t \in Transfers : journal.entries[t].applied})

\* Mutation: every settled event of a batch counts, also a repeated one.
NetFlowOfBatch(journal, batch, asOf) ==
  IF Blocks(journal, batch, asOf) THEN 0
  ELSE SumFunction([t \in {u \in Transfers : \E e \in batch : e.id = u /\ e.status = "settled"} |->
                      (CHOOSE e \in batch : e.id = t).amount])

\* The transfers a batch settles for the first time.
Settling(journal, batch) ==
  {t \in Transfers : /\ ~journal.entries[t].applied
                     /\ \E e \in batch : e.id = t /\ e.status = "settled"}

\* reconcile(...).net_flow
NetFlow(journal, batch, asOf) ==
  IF Blocks(journal, batch, asOf) THEN 0
  ELSE SumFunction([t \in Settling(journal, batch) |-> (CHOOSE e \in batch : e.id = t).amount])
==============================================================================
