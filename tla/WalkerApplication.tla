-------------------------- MODULE WalkerApplication --------------------------
(***************************************************************************)
(* The application of one walker: the status that staff gives it and the   *)
(* walker's own requests change, and the flag that lets the walker work.   *)
(*                                                                         *)
(* Code: the decisions in app/routes/admin.py and                          *)
(* app/routes/partner_application.py, the application there, the profile   *)
(* in app/routes/walker.py.                                                *)
(*                                                                         *)
(* A request loads the profile, and its commit writes the columns whose    *)
(* value differs from the loaded one.                                      *)
(***************************************************************************)
CONSTANTS
  Given,      \* statuses staff gives
  Handlers    \* requests in flight at once

VARIABLES
  profile,  \* status, active_as_walker; crossed, a ghost: two requests overlapped
  verified, \* the certificates are (WalkerBackground)
  desk      \* what each request in flight has read

applicationVars == <<profile, verified, desk>>

Clear == [op |-> "idle"]

Init == /\ profile  = [st |-> "submitted", active |-> FALSE, crossed |-> FALSE]
        /\ verified = FALSE
        /\ desk     = [h \in Handlers |-> Clear]

Loads(h, who, st, works) ==
  /\ desk[h] = Clear
  /\ desk' = [desk EXCEPT ![h] = [op |-> who, to |-> st, works |-> works, st |-> profile.st,
                                  active |-> profile.active, stale |-> FALSE]]
  /\ UNCHANGED <<profile, verified>>

Verify == verified' = ~verified /\ UNCHANGED <<profile, desk>>

\* Activating asks for an approved profile in the admin fields; approve_walker asks for
\* verified certificates in a tenant whose mode is gate, unless staff overrides it; the
\* endpoints for the status ask for neither.
MayDecide(st, by, gate, override) ==
  CASE by = "fields"  -> /\ st \in {"approved", "active"}
                         /\ st = "active" => profile.st \in {"approved", "active"}
    [] by = "approve" -> st = "active" /\ (gate => verified \/ override)
    [] OTHER          -> TRUE

\* Mutant of FlagFor: a status that is not active leaves the flag.
FlagForKept(st) == st = "active" \/ profile.active

\* _apply_application_status, _apply_profile_status, _apply_partner_application_payload
FlagFor(st) == st = "active"

BeginDecide(h, st, by, gate, override) ==
  MayDecide(st, by, gate, override) /\ Loads(h, "staff", st, FlagFor(st))

\* create_partner_application of a known walker: the application is submitted again,
\* and an approved one gets its status and flag back.
BeginReapply(h) ==
  IF profile.st \in {"approved", "active"} THEN Loads(h, "walker", profile.st, profile.active)
                                          ELSE Loads(h, "walker", "submitted", FALSE)

\* update_profile: documents of a rejected walker put the application under review.
BeginResubmit(h) ==
  profile.st \in {"resubmission_requested", "rejected"} /\ Loads(h, "walker", "under_review", profile.active)

\* Mutant of Changed: every column is written.
ChangedAlways(new, loaded, now) == new

\* A column is written when its value differs from the one loaded.
Changed(new, loaded, now) == IF new = loaded THEN now ELSE new

Commit(h) ==
  /\ desk[h] # Clear
  /\ LET d == desk[h] IN
     profile' = [st      |-> Changed(d.to, d.st, profile.st),
                 active  |-> Changed(d.works, d.active, profile.active),
                 crossed |-> profile.crossed \/ d.stale]
  /\ desk' = [g \in Handlers |-> IF g = h \/ desk[g] = Clear THEN Clear
                                 ELSE [desk[g] EXCEPT !.stale = TRUE]]
  /\ UNCHANGED verified

Next ==
  \/ Verify
  \/ \E h \in Handlers :
       \/ \E st \in Given, by \in {"status", "fields", "approve"}, gate, override \in BOOLEAN :
            BeginDecide(h, st, by, gate, override)
       \/ BeginReapply(h) \/ BeginResubmit(h) \/ Commit(h)

Spec == Init /\ [][Next]_applicationVars

----------------------------------------------------------------------------
TypeOK == /\ profile \in [st : Given \cup {"submitted", "under_review"}, active : BOOLEAN,
                          crossed : BOOLEAN]
          /\ verified \in BOOLEAN
          /\ \A h \in Handlers : desk[h].op \in {"idle", "staff", "walker"}

\* Only an active application lets its walker work, however it was blocked, sent again
\* or resubmitted in between, unless two requests wrote over each other.
OnlyActiveWorks == profile.active /\ ~profile.crossed => profile.st = "active"

\* Nothing a walker sends makes the application active, not even a request that was
\* loaded while it was, and is committed after staff has blocked it.
StaffActivates ==
  [][\A h \in Handlers : desk[h].op = "walker" /\ desk'[h] = Clear =>
       /\ profile'.active => profile.active
       /\ profile'.st = "active" => profile.st = "active"]_applicationVars

\* A walker works by leave of the staff only: never on an application that is not
\* active, and never by a request of their own.
WorksByLeave == []OnlyActiveWorks /\ StaffActivates
=============================================================================
