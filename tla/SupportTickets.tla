--------------------------- MODULE SupportTickets ---------------------------
(***************************************************************************)
(* One support ticket: opened by a person whose tenant has the feature,    *)
(* worked on and answered by staff, two at once.                           *)
(*                                                                         *)
(* Code: app/routes/support_tickets.py.  Each PATCH loads the ticket,      *)
(* writes the columns it was given that differ, and tells the author of    *)
(* a new answer after its commit (what becomes of that notice: Inbox).     *)
(***************************************************************************)
EXTENDS Naturals, FiniteSets

CONSTANTS Handlers, Replies,
          Statuses             \* of those a ticket may have, those staff gives here

None == "none"

VARIABLES
  ticket,   \* its row: status, answer, author
  enabled,  \* the tenant's feature support_tickets
  desk,     \* requests, with what they read and were asked to write
  told,     \* ghost: the answer the author was told of last
  crossed   \* ghost: the answer changed between the read and the commit of a request, or
            \* telling failed

deskVars == <<ticket, enabled, desk, told, crossed>>

NoTicket == [st |-> None, reply |-> None, author |-> FALSE]
Idle == [st |-> "idle"]

Init == /\ ticket = NoTicket /\ enabled \in BOOLEAN
        /\ desk = [h \in Handlers |-> Idle] /\ told = None /\ crossed = FALSE

\* user_create_support_ticket and create_support_ticket: that of staff has no author.
Open(author) == /\ ticket.st = None /\ (author => enabled)
                /\ ticket' = [st |-> "open", reply |-> None, author |-> author]
                /\ UNCHANGED <<enabled, desk, told, crossed>>

\* update_support_ticket: status and answer may each be left out of the request.
Update(h) == \E st \in Statuses \cup {None}, reply \in Replies \cup {"", None} :
  /\ desk[h] = Idle /\ ticket.st # None
  /\ desk' = [desk EXCEPT ![h] = [st |-> "update", to |-> st, reply |-> reply, read |-> ticket]]
  /\ UNCHANGED <<ticket, enabled, told, crossed>>

\* Mutant of IsNew: only a first answer is new.
IsNewIfFirst(d) == d.reply \in Replies /\ d.read.reply = None

IsNew(d) == d.reply \in Replies /\ d.reply # d.read.reply

\* What the request asked for, over what it read.
Asked(d) == [d.read EXCEPT !.st = IF d.to = None THEN @ ELSE d.to,
                           !.reply = IF d.reply = None THEN @ ELSE IF d.reply = "" THEN None ELSE d.reply]

\* The columns that differ from what was read are written.
Flushed(old, read, new) == [st |-> IF new.st = read.st THEN old.st ELSE new.st,
                            reply |-> IF new.reply = read.reply THEN old.reply ELSE new.reply,
                            author |-> old.author]

CommitUpdate(h) == LET d == desk[h] IN
  /\ d.st = "update"
  /\ ticket' = Flushed(ticket, d.read, Asked(d))
  /\ crossed' = (crossed \/ ticket.reply # d.read.reply)
  /\ desk' = [desk EXCEPT ![h] = IF IsNew(d) THEN [st |-> "tell", reply |-> d.reply] ELSE Idle]
  /\ UNCHANGED <<enabled, told>>

\* _notify_support_reply, of the ticket as it is refreshed; a failure is only logged.
Tell(h) == \E ok \in BOOLEAN :
  /\ desk[h].st = "tell" /\ desk' = [desk EXCEPT ![h] = Idle]
  /\ told' = IF ok /\ ticket.author /\ ticket.reply # None THEN ticket.reply ELSE told
  /\ crossed' = (crossed \/ ~ok) /\ UNCHANGED <<ticket, enabled>>

Switch == enabled' = ~enabled /\ UNCHANGED <<ticket, desk, told, crossed>>

Next == \/ \E author \in BOOLEAN : Open(author)
        \/ \E h \in Handlers : Update(h) \/ CommitUpdate(h) \/ Tell(h)
        \/ Switch

Spec == Init /\ [][Next]_deskVars

----------------------------------------------------------------------------
TypeOK == /\ ticket.st \in Statuses \cup {"open", None} /\ ticket.reply \in Replies \cup {None}
          /\ told \in Replies \cup {None}

\* The author was told of the answer that stands, whatever staff wrote before, took back or
\* wrote again, unless two answers crossed or the telling is still to come.
AnswerIsTold == ticket.author /\ ticket.reply # None =>
  \/ told = ticket.reply \/ crossed
  \/ \E h \in Handlers : desk[h].st = "tell"
=============================================================================
