--------------------------- MODULE AccountDeletion ---------------------------
(***************************************************************************)
(* The deletion of one account at its owner's request: what blocks it, the *)
(* anonymisation, and the requests of the same person, of a tutor or a     *)
(* walker, that are under way meanwhile.                                   *)
(*                                                                         *)
(* Code: app/routes/data_rights.py and deletion_blockers and               *)
(* anonymize_account in app/services/data_subject_rights_service.py; the   *)
(* walk, the subscription and the withdrawal are what these read of them.  *)
(***************************************************************************)
CONSTANT Handlers   \* requests in flight at once

VARIABLES
  account,   \* role; gone, anonymised and inactive; hurried, a ghost: a request overlapped
  outing,    \* a walk of the person; address, the row still tells where they live
  recurring, \* status of their subscription
  purse,     \* a walker's earning: none, held (payable later), free; payout, a withdrawal
  form       \* what each request in flight has read

deletionVars == <<account, outing, recurring, purse, form>>

Blank == [op |-> "idle"]

Init == /\ account = [role |-> "tutor", gone |-> FALSE, hurried |-> FALSE]
           \/ account = [role |-> "walker", gone |-> FALSE, hurried |-> FALSE]
        /\ outing = [st |-> "none", address |-> FALSE]
        /\ recurring = "none"
        /\ purse = [earning |-> "none", payout |-> "none"]
        /\ form = [h \in Handlers |-> Blank]

\* get_current_user: the account is active when the request comes in, and not asked again.
Opens(h, op) ==
  /\ form[h] = Blank /\ ~account.gone
  /\ form' = [form EXCEPT ![h] = [op |-> op]]
  /\ UNCHANGED <<account, outing, recurring, purse>>

\* A tutor books a walk or subscribes, a walker accepts a walk or withdraws.
AsksWalk(h)      == Opens(h, "walk")
AsksPlan(h)      == account.role = "tutor" /\ Opens(h, "plan")
AsksWithdraw(h)  == account.role = "walker" /\ purse.earning = "free" /\ Opens(h, "withdraw")

\* Whoever looked for blockers before this commit did not see what it made.
Closes(h) == form' = [g \in Handlers |-> IF g = h THEN Blank
                       ELSE IF form[g].op = "delete" THEN [form[g] EXCEPT !.overtaken = TRUE]
                       ELSE form[g]]

Books(h) == /\ form[h].op = "walk" /\ outing.st = "none"
            /\ outing' = [st |-> "live", address |-> account.role = "tutor"]
            /\ Closes(h) /\ UNCHANGED <<account, recurring, purse>>

Subscribes(h) == /\ form[h].op = "plan" /\ recurring' = "active"
                 /\ Closes(h) /\ UNCHANGED <<account, outing, purse>>

Withdraws(h) == /\ form[h].op = "withdraw"
                /\ purse' = [earning |-> "none", payout |-> "pending"]
                /\ Closes(h) /\ UNCHANGED <<account, outing, recurring>>

Refused(h) == /\ form[h].op \notin {"idle", "delete"} /\ form' = [form EXCEPT ![h] = Blank]
              /\ UNCHANGED <<account, outing, recurring, purse>>

\* Mutant of Blocked: a walk counts only once it is under way.
BlockedLate == \/ recurring \in {"active", "overdue"}
               \/ purse.payout = "pending"
               \/ account.role = "walker" /\ purse.earning # "none"

\* deletion_blockers.
Blocked == \/ outing.st = "live"
           \/ recurring \in {"active", "overdue"}
           \/ purse.payout = "pending"
           \/ account.role = "walker" /\ purse.earning # "none"

\* delete_my_account: the row is locked against another deletion, not against the rest.
AsksDeletion(h) ==
  /\ form[h] = Blank /\ ~account.gone /\ ~Blocked
  /\ \A g \in Handlers : form[g].op # "delete"
  /\ form' = [form EXCEPT ![h] = [op |-> "delete", walk |-> outing, overtaken |-> FALSE]]
  /\ UNCHANGED <<account, outing, recurring, purse>>

\* Mutant of Scrubbed: only a walk still open loses the address.
ScrubbedIfOpen(read) == IF outing.st = "live" THEN [outing EXCEPT !.address = FALSE] ELSE outing

\* The walks anonymize_account found lose their address.
Scrubbed(read) == IF read.st = "none" THEN outing ELSE [outing EXCEPT !.address = FALSE]

Deletes(h) ==
  /\ form[h].op = "delete"
  /\ account' = [account EXCEPT !.gone = TRUE,
                   !.hurried = form[h].overtaken \/ \E g \in Handlers \ {h} : form[g] # Blank]
  /\ outing' = Scrubbed(form[h].walk)
  /\ form' = [form EXCEPT ![h] = Blank]
  /\ UNCHANGED <<recurring, purse>>

\* The walk ends, completed or cancelled; a walker earns by it.
Ends(paid) == /\ outing.st = "live" /\ outing' = [outing EXCEPT !.st = "over"]
              /\ purse' = IF paid /\ account.role = "walker" THEN [purse EXCEPT !.earning = "held"]
                          ELSE purse
              /\ UNCHANGED <<account, recurring, form>>

\* The hold of an earning runs out; a withdrawal is paid, or refused and the money back.
Matures == /\ purse.earning = "held" /\ purse' = [purse EXCEPT !.earning = "free"]
           /\ UNCHANGED <<account, outing, recurring, form>>
Transfers(ok) ==
  /\ purse.payout = "pending"
  /\ purse' = [payout |-> "none", earning |-> IF ok THEN purse.earning ELSE "free"]
  /\ UNCHANGED <<account, outing, recurring, form>>

\* The gateway, and the tutor, about the subscription.
Bills(to) == /\ <<recurring, to>> \in {"active", "overdue"} \X {"active", "overdue", "cancelled"}
             /\ to # recurring /\ recurring' = to
             /\ UNCHANGED <<account, outing, purse, form>>

Next == \/ \E h \in Handlers :
             \/ AsksWalk(h) \/ AsksPlan(h) \/ AsksWithdraw(h) \/ AsksDeletion(h)
             \/ Books(h) \/ Subscribes(h) \/ Withdraws(h) \/ Refused(h) \/ Deletes(h)
        \/ \E ok \in BOOLEAN : Ends(ok) \/ Transfers(ok)
        \/ Matures
        \/ \E to \in {"active", "overdue", "cancelled"} : Bills(to)

Spec == Init /\ [][Next]_deletionVars

----------------------------------------------------------------------------
TypeOK == /\ account \in [role : {"tutor", "walker"}, gone : BOOLEAN, hurried : BOOLEAN]
          /\ outing \in [st : {"none", "live", "over"}, address : BOOLEAN]
          /\ recurring \in {"none", "active", "overdue", "cancelled"}
          /\ purse \in [earning : {"none", "held", "free"}, payout : {"none", "pending"}]

\* A deleted account has no walk to serve, no subscription that bills, no money on its
\* way; a request that came in before the deletion and ended after its check is the
\* exception, deletion_blockers holds no lock on what it counts.
DeletedLeavesNothing ==
  account.gone /\ ~account.hurried =>
    /\ outing.st # "live" /\ recurring \notin {"active", "overdue"}
    /\ purse = [earning |-> "none", payout |-> "none"]

\* And no walk that still tells where the person lives.
AddressIsGone == account.gone /\ ~account.hurried => ~outing.address

\* A deleted person leaves no obligation and no address behind.
DeletionIsComplete == DeletedLeavesNothing /\ AddressIsGone
=============================================================================
