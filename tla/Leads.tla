------------------------------- MODULE Leads -------------------------------
(***************************************************************************)
(* Leads of the CRM that are merged, converted, deleted and worked on at   *)
(* the same time: apps/crm/src/server/records/merge.ts, conversion.ts,     *)
(* leads.ts and tasks.ts.                                                  *)
(*                                                                         *)
(* Every command looks at its leads first, outside any transaction, and    *)
(* writes in a transaction afterwards.  PostgreSQL runs the transactions   *)
(* READ COMMITTED; the interleavings that matter are those of the looks    *)
(* with the transactions of others, so that a transaction is one step.     *)
(* Work stands for the open tasks and the notes, which follow a lead to    *)
(* its survivor and to its contact; closed tasks, the copied events and    *)
(* the accounts and customers of a conversion are left out, as is the      *)
(* scope in which a person may see a lead.                                 *)
(***************************************************************************)
EXTENDS FiniteSets, Functions

CONSTANTS
  Lead,
  Work,        \* open tasks and notes, those yet to be created included
  Staff        \* requests handled at the same time

VARIABLES
  lead,        \* [Lead -> [converted, deleted: BOOLEAN]], the timestamps
  subject,     \* [Work -> what it is attached to, or Nothing]
  mergeRecord, \* rows of MergeRecord
  call         \* [Staff -> the command it handles]

vars == <<lead, subject, mergeRecord, call>>

Nothing == <<>>
OnLead(l) == <<"LEAD", l>>
OnContact(l) == <<"CONTACT", l>>     \* the contact l was converted to
Idle == [op |-> "idle"]

Init ==
  /\ lead = [l \in Lead |-> [converted |-> FALSE, deleted |-> FALSE]]
  /\ subject \in [Work -> {Nothing} \cup {OnLead(l) : l \in Lead}]
  /\ mergeRecord = {}
  /\ call = [s \in Staff |-> Idle]

(* getLead, and the reads of a merge, do not find a deleted lead *)
Found(l) == ~lead[l].deleted

(* Work attached to one of the subjects in from is attached to to instead *)
Repoint(from, to) ==
  subject' = [w \in Work |-> IF subject[w] \in from THEN to ELSE subject[w]]

Answered(s) == call' = [call EXCEPT ![s] = Idle]

(* A command of s on one lead starts with a look at it *)
Look(s, op, l) ==
  /\ call[s] = Idle
  /\ Found(l)
  /\ call' = [call EXCEPT ![s] = [op |-> op, lead |-> l]]
  /\ UNCHANGED <<lead, subject, mergeRecord>>

-----------------------------------------------------------------------------
(* mergeLeads: the survivor is read and must not be converted, ...         *)
MergeBegin(s, p, M) ==
  /\ call[s] = Idle
  /\ M # {} /\ p \notin M
  /\ Found(p) /\ ~lead[p].converted
  /\ call' = [call EXCEPT ![s] = [op |-> "load", primary |-> p, merged |-> M]]
  /\ UNCHANGED <<lead, subject, mergeRecord>>

(* ... then the others are, or the merge is refused.                       *)
MergeLoad(s) ==
  /\ call[s].op = "load"
  /\ IF \A m \in call[s].merged : Found(m)
       THEN call' = [call EXCEPT ![s].op = "merge"]
       ELSE Answered(s)
  /\ UNCHANGED <<lead, subject, mergeRecord>>

(* The transaction looks at none of them again.                            *)
MergeCommit(s) ==
  LET p == call[s].primary
      M == call[s].merged
  IN /\ call[s].op = "merge"
     /\ mergeRecord' =
          mergeRecord \cup {[primary |-> p, merged |-> m] : m \in M}
     /\ Repoint({OnLead(m) : m \in M}, OnLead(p))
     /\ lead' = [l \in Lead |->
                   IF l \in M THEN [lead[l] EXCEPT !.deleted = TRUE]
                              ELSE lead[l]]
     /\ Answered(s)

(* convertLead, up to its transaction                                      *)
ConvertBegin(s, l) == ~lead[l].converted /\ Look(s, "convert", l)

(* The claim is guarded: the loser of two conversions is rolled back.      *)
ConvertCommit(s) ==
  LET l == call[s].lead
  IN /\ call[s].op = "convert"
     /\ \/ /\ ~lead[l].converted
           /\ lead' = [lead EXCEPT ![l].converted = TRUE]
           /\ Repoint({OnLead(l)}, OnContact(l))
        \/ lead[l].converted /\ UNCHANGED <<lead, subject>>
     /\ Answered(s)
     /\ UNCHANGED mergeRecord

(* softDeleteLead                                                          *)
DeleteBegin(s, l) == Look(s, "delete", l)

DeleteCommit(s) ==
  /\ call[s].op = "delete"
  /\ lead' = [lead EXCEPT ![call[s].lead].deleted = TRUE]
  /\ Answered(s)
  /\ UNCHANGED <<subject, mergeRecord>>

(* createTask for a lead                                                   *)
TaskBegin(s, l) == Look(s, "task", l)

TaskCommit(s) ==
  /\ call[s].op = "task"
  /\ \E w \in Work :
       /\ subject[w] = Nothing
       /\ subject' = [subject EXCEPT ![w] = OnLead(call[s].lead)]
  /\ Answered(s)
  /\ UNCHANGED <<lead, mergeRecord>>

(* bulkLeads, deletion and tasks: the leads are looked at in the           *)
(* transaction.  The other bulk actions change nothing that is kept here.  *)
BulkLeads(L) ==
  LET found == {l \in L : Found(l)}
  IN /\ \/ /\ lead' = [l \in Lead |->
                IF l \in found THEN [lead[l] EXCEPT !.deleted = TRUE]
                               ELSE lead[l]]
           /\ UNCHANGED subject
        \/ /\ \E new \in SUBSET {w \in Work : subject[w] = Nothing} :
                \E of \in Bijection(new, found) :
                  subject' = [w \in Work |->
                    IF w \in new THEN OnLead(of[w]) ELSE subject[w]]
           /\ UNCHANGED lead
     /\ UNCHANGED <<mergeRecord, call>>

Next ==
  \/ \E L \in SUBSET Lead : BulkLeads(L)
  \/ \E s \in Staff :
      \/ \E p \in Lead, M \in SUBSET Lead : MergeBegin(s, p, M)
      \/ MergeLoad(s) \/ MergeCommit(s)
      \/ \E l \in Lead :
           ConvertBegin(s, l) \/ DeleteBegin(s, l) \/ TaskBegin(s, l)
      \/ ConvertCommit(s) \/ DeleteCommit(s) \/ TaskCommit(s)

Spec == Init /\ [][Next]_vars

-----------------------------------------------------------------------------
(* What merge.ts says of its check of the survivor, "never merge into a    *)
(* converted lead": at the moment a merge takes effect its survivor is not *)
(* converted.  The check is made before the transaction, a conversion in   *)
(* between is not noticed, and the work of the merged leads ends on a lead *)
(* whose own work has gone to the contact.                                 *)
NeverMergedIntoConverted ==
  [][\A r \in mergeRecord' \ mergeRecord :
       ~lead[r.primary].converted]_mergeRecord
=============================================================================
