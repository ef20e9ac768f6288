--------------------------- MODULE WalkerBackground ---------------------------
(***************************************************************************)
(* The background check of one walker: certificates sent by the walker,    *)
(* validated by staff and expired by a sweep, and the status aggregated    *)
(* from them, which is a column of the profile and a seal for tutors.      *)
(*                                                                         *)
(* Code: app/services/background_check_service.py, background/manual.py,   *)
(* background_reverification_service.py, update_background_certificate in  *)
(* app/routes/admin.py and the certificates in app/routes/walker.py.       *)
(***************************************************************************)
EXTENDS FiniteSets

CONSTANTS
  Required,   \* REQUIRED_CERT_TYPES
  Handlers    \* requests in flight at once

VARIABLES
  cert,     \* status of the certificate of each required type
  seal,     \* background_check_status; split, a ghost: two recomputations overlapped
  clerk     \* what each request in flight has read

backgroundVars == <<cert, seal, clerk>>

Vacant == [op |-> "idle"]

Init == /\ cert  = [t \in Required |-> "missing"]
        /\ seal  = [st |-> "none", split |-> FALSE]
        /\ clerk = [h \in Handlers |-> Vacant]

\* compute_background_status
Aggregate(c) ==
  LET ok == {t \in Required : c[t] = "validated"}
  IN IF \E t \in Required : c[t] = "rejected" THEN "flagged"
     ELSE IF \A t \in Required : c[t] = "missing" THEN "none"
     ELSE IF ok = Required THEN "verified"
     ELSE IF ok # {} THEN "partial" ELSE "submitted"

\* submit_certificate: one row per type, pending again.  update_background_certificate:
\* staff gives it any of three statuses.
Begin(h, t, st) ==
  /\ clerk[h] = Vacant /\ (st = "pending" \/ cert[t] # "missing")
  /\ clerk' = [clerk EXCEPT ![h] = [op |-> "cert", type |-> t, to |-> st, read |-> cert,
                                    was |-> seal.st, stale |-> FALSE]]
  /\ UNCHANGED <<cert, seal>>

Overtake(h) == clerk' = [g \in Handlers |-> IF g = h \/ clerk[g] = Vacant THEN Vacant
                                            ELSE [clerk[g] EXCEPT !.stale = TRUE]]

\* Mutant of Seen: the aggregate is computed from what was there before.
SeenBefore(d) == d.read

\* The aggregate is computed from the certificates as read, with the change made.
Seen(d) == [d.read EXCEPT ![d.type] = d.to]

\* The column is written when it differs from what was loaded.
Commit(h) ==
  /\ clerk[h].op = "cert"
  /\ LET d == clerk[h]
         new == Aggregate(Seen(d))
     IN /\ cert' = [cert EXCEPT ![d.type] = d.to]
        /\ seal' = [st    |-> IF new = d.was THEN seal.st ELSE new,
                    split |-> seal.split \/ d.stale]
  /\ Overtake(h)

\* sweep_stale_certificates: what was validated long ago, all of a walker's at once.
Expire(old) ==
  /\ old # {} /\ \A t \in old : cert[t] = "validated"
  /\ cert'  = [t \in Required |-> IF t \in old THEN "expired" ELSE cert[t]]
  /\ seal'  = [seal EXCEPT !.st = Aggregate(cert')]
  /\ clerk' = [g \in Handlers |-> IF clerk[g] = Vacant THEN Vacant
                                  ELSE [clerk[g] EXCEPT !.stale = TRUE]]

\* get_background_status: whoever looks computes it anew and stores it.
Look == /\ \A h \in Handlers : clerk[h] = Vacant
        /\ seal' = [st |-> Aggregate(cert), split |-> FALSE] /\ seal' # seal
        /\ UNCHANGED <<cert, clerk>>

Next == \/ \E h \in Handlers, t \in Required, st \in {"pending", "validated", "rejected", "expired"} :
             Begin(h, t, st)
        \/ \E h \in Handlers : Commit(h)
        \/ \E old \in SUBSET Required : Expire(old)
        \/ Look

Spec == Init /\ [][Next]_backgroundVars

----------------------------------------------------------------------------
TypeOK == /\ cert \in [Required -> {"missing", "pending", "validated", "rejected", "expired"}]
          /\ seal \in [split : BOOLEAN,
                       st : {"none", "submitted", "partial", "verified", "flagged"}]

\* The seal tutors are shown is what the certificates say now, not what they said before
\* one was rejected, sent again or expired; two certificates handled at once are the
\* exception, until the walker looks.
SealIsCurrent == ~seal.split => seal.st = Aggregate(cert)
=============================================================================
