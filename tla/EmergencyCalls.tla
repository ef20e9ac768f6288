--------------------------- MODULE EmergencyCalls ---------------------------
(***************************************************************************)
(* The emergency button of one walk: the walker who has the dog presses    *)
(* it, is given a number to dial or is bridged to the tutor, and the call  *)
(* is recorded and told to the tutor and to the staff, each in a           *)
(* transaction of its own.                                                 *)
(*                                                                         *)
(* Code: app/services/walk_emergency_service.py.  The calls of the last    *)
(* ten minutes are counted without a lock; nothing may keep the walker     *)
(* from the answer.                                                        *)
(***************************************************************************)
EXTENDS Naturals, Sequences, FiniteSets

CONSTANTS Handlers, MaxCalls,  \* RATE_LIMIT_MAX_CALLS
          MaxRows              \* bound: calls of one behaviour

ParametersAssumption == IsFiniteSet(Handlers) /\ MaxCalls \in Nat \ {0}

VARIABLES
  walk,   \* whether the dog is with the walker
  phones, \* whether the tutor has a phone, and telephony is on
  calls,  \* rows of walk_emergency_calls; ghosts: who was told, and who could not be
  press   \* requests

callVars == <<walk, phones, calls, press>>

Idle == [st |-> "idle"]

Init == /\ walk = "before" /\ phones \in [tutor : BOOLEAN, telephony : BOOLEAN]
        /\ calls = <<>> /\ press = [h \in Handlers |-> Idle]

Lately == Cardinality({i \in DOMAIN calls : calls[i].recent})

\* Mutant of Limited: one call more.
LimitedLate == Lately > MaxCalls

Limited == Lately >= MaxCalls

\* _plan_call: a provider that fails leaves the number to dial.
Modes == IF ~phones.tutor THEN {"unavailable"}
         ELSE {"direct"} \cup IF phones.telephony THEN {"masked"} ELSE {}

\* trigger_walk_emergency, up to the record; beyond the limit the last call is given again.
Press(h) == \E mode \in Modes :
  /\ press[h] = Idle /\ walk = "custody" /\ Len(calls) < MaxRows
  /\ press' = IF Limited THEN press ELSE [press EXCEPT ![h] = [st |-> "record", mode |-> mode]]
  /\ UNCHANGED <<walk, phones, calls>>

\* The row and its event; when they fail the answer goes out all the same.
Keep(h) == \E ok \in BOOLEAN :
  /\ press[h].st = "record"
  /\ calls' = IF ok THEN Append(calls, [mode |-> press[h].mode, recent |-> TRUE, told |-> {}, failed |-> {}]) ELSE calls
  /\ press' = [press EXCEPT ![h] = IF ok THEN [st |-> "tutor", row |-> Len(calls) + 1] ELSE Idle]
  /\ UNCHANGED <<walk, phones>>

Told(row, who, ok) == IF ok THEN [calls EXCEPT ![row].told = @ \cup {who}]
                      ELSE [calls EXCEPT ![row].failed = @ \cup {who}]

\* Mutant of AfterTutor: when the tutor cannot be told, nobody is.
AfterTutorIfTold(ok) == IF ok THEN "staff" ELSE "idle"

AfterTutor(ok) == "staff"

\* _notify_tutor and _notify_admins.
TellTutor(h) == \E ok \in BOOLEAN : LET p == press[h] IN
  /\ p.st = "tutor" /\ calls' = Told(p.row, "tutor", ok)
  /\ press' = [press EXCEPT ![h] = IF AfterTutor(ok) = "staff" THEN [p EXCEPT !.st = "staff"] ELSE Idle]
  /\ UNCHANGED <<walk, phones>>

TellStaff(h) == \E ok \in BOOLEAN : LET p == press[h] IN
  /\ p.st = "staff" /\ calls' = Told(p.row, "staff", ok)
  /\ press' = [press EXCEPT ![h] = Idle] /\ UNCHANGED <<walk, phones>>

WalkMoves == /\ walk # "over" /\ walk' = IF walk = "before" THEN "custody" ELSE "over"
             /\ UNCHANGED <<phones, calls, press>>

Elapse == /\ calls' = [i \in DOMAIN calls |-> [calls[i] EXCEPT !.recent = FALSE]]
          /\ UNCHANGED <<walk, phones, press>>

Next == \/ \E h \in Handlers : Press(h) \/ Keep(h) \/ TellTutor(h) \/ TellStaff(h)
        \/ WalkMoves \/ Elapse

Spec == Init /\ [][Next]_callVars

----------------------------------------------------------------------------
TypeOK == /\ walk \in {"before", "custody", "over"}
          /\ \A i \in DOMAIN calls : calls[i].told \cup calls[i].failed \subseteq {"tutor", "staff"}

\* In ten minutes no more calls are recorded than the limit and the requests at work allow;
\* when a request is over, both the tutor and the staff were told of its call, or telling that
\* one failed: neither failure hides the call from the other.
CallsAreTold ==
  /\ Lately < MaxCalls + Cardinality(Handlers)
  /\ \A i \in DOMAIN calls : \/ calls[i].told \cup calls[i].failed = {"tutor", "staff"}
                             \/ \E h \in Handlers : press[h].st \in {"tutor", "staff"} /\ press[h].row = i
=============================================================================
