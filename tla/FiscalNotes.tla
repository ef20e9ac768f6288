----------------------------- MODULE FiscalNotes -----------------------------
(***************************************************************************)
(* The fiscal note of one bill a tenant paid: asked of the gateway at each *)
(* event of the bill, and followed by the events of the note itself, that  *)
(* come in any order.                                                      *)
(*                                                                         *)
(* Code: app/services/nfse_service.py, and its callers in                  *)
(* app/routes/payments.py.  The gateway is external.                       *)
(***************************************************************************)
EXTENDS Naturals, Sequences

CONSTANTS
  MaxEvents,   \* bound: events of the bill delivered
  Handlers     \* webhooks in flight at once

\* What is assumed of the bound.
EventsAssumption == MaxEvents \in Nat

VARIABLES
  nfse,    \* the rows, oldest first: status, and the gateway's invoice, 0 when unknown
  issued,  \* the invoices at the gateway, by number: their status there
  post,    \* events of invoices on their way
  asking,  \* the webhooks that wait for the gateway's answer
  trace    \* count of events; ghosts: twice, two asked at once; lost, an answer was;
           \* hidden, a failed row stood before a live one

fiscalVars == <<nfse, issued, post, asking, trace>>

Init == /\ nfse = <<>> /\ issued = <<>> /\ post = {} /\ asking = {}
        /\ trace = [events |-> 0, twice |-> FALSE, lost |-> FALSE, hidden |-> FALSE]

Dead == {"error", "canceled"}

Live == {i \in DOMAIN nfse : nfse[i].st \notin Dead}

\* Mutant of Asks: the rows there are, are not looked at.
AsksAlways(i) == TRUE

\* issue_nfse_for_saas_payment: any row of the payment is looked at (first() of an
\* unordered query), and a live one ends it.
Asks(i) == i \notin Live

Settle(h) ==
  /\ h \notin asking /\ trace.events < MaxEvents
  /\ \/ /\ nfse = <<>> /\ asking' = asking \cup {h}
        /\ trace' = [trace EXCEPT !.events = @ + 1, !.twice = @ \/ asking # {}]
     \/ \E i \in DOMAIN nfse :
          /\ asking' = IF Asks(i) THEN asking \cup {h} ELSE asking
          /\ trace' = [trace EXCEPT !.events = @ + 1,
                         !.twice  = @ \/ (Asks(i) /\ asking # {}),
                         !.hidden = @ \/ (i \notin Live /\ Live # {})]
  /\ UNCHANGED <<nfse, issued, post>>

\* The answer: the invoice is scheduled; or refused; or made, and the answer lost.  A row
\* records it either way.
Answer(h, how) ==
  /\ h \in asking /\ asking' = asking \ {h}
  /\ issued' = IF how = "refused" THEN issued ELSE Append(issued, "scheduled")
  /\ nfse' = Append(nfse, IF how = "made" THEN [st |-> "scheduled", id |-> Len(issued')]
                          ELSE [st |-> "error", id |-> 0])
  /\ trace' = [trace EXCEPT !.lost = @ \/ how = "lost"]
  /\ UNCHANGED post

\* The gateway moves an invoice on, and tells.  (external)
Moves(k, to) ==
  /\ <<issued[k], to>> \in {<<"scheduled", "synchronized">>, <<"scheduled", "error">>,
                            <<"synchronized", "authorized">>, <<"synchronized", "error">>,
                            <<"authorized", "canceled">>}
  /\ issued' = [issued EXCEPT ![k] = to]
  /\ post' = post \cup {[id |-> k, st |-> to]}
  /\ UNCHANGED <<nfse, asking, trace>>

\* handle_nfse_webhook_event: the row that knows the invoice takes the status; without
\* one the event is used up.
Hears(e) ==
  /\ e \in post /\ post' = post \ {e}
  /\ nfse' = [i \in DOMAIN nfse |-> IF nfse[i].id = e.id THEN [nfse[i] EXCEPT !.st = e.st]
                                    ELSE nfse[i]]
  /\ UNCHANGED <<issued, asking, trace>>

Next == \/ \E h \in Handlers : \/ Settle(h)
                               \/ \E how \in {"made", "refused", "lost"} : Answer(h, how)
        \/ \E k \in DOMAIN issued, to \in {"synchronized", "authorized", "canceled", "error"} :
             Moves(k, to)
        \/ \E e \in post : Hears(e)

Spec == Init /\ [][Next]_fiscalVars

----------------------------------------------------------------------------
TypeOK == /\ \A i \in DOMAIN nfse : nfse[i] \in
               [st : {"scheduled", "synchronized", "authorized"} \cup Dead, id : 0..Len(issued)]
          /\ asking \subseteq Handlers /\ trace.events \in 0..MaxEvents

Standing == {k \in DOMAIN issued : issued[k] \notin Dead}

\* A bill has one fiscal note that stands at the gateway, however its events and the
\* note's come.  Two webhooks that both asked before either had a row, an answer that was
\* lost and a failed row seen in place of a live one are the exceptions.
OneNoteStands ==
  ~trace.twice /\ ~trace.lost /\ ~trace.hidden /\ asking = {} =>
    \A j, k \in Standing : j = k
=============================================================================
