------------------------------ MODULE Complaints ------------------------------
(***************************************************************************)
(* The complaints about one person or pet and the risk score they add up   *)
(* to, which blocks a pet from shared walks and ranks the cases.           *)
(*                                                                         *)
(* Code: app/services/complaint_service.py, RiskScore and Complaint in     *)
(* app/models/complaint.py.                                                *)
(***************************************************************************)
EXTENDS Naturals, Sequences

CONSTANTS
  Bases,          \* scores of the text, the category and the evidence of a complaint
  MaxComplaints,  \* bound: complaints filed
  Handlers        \* complaints filed at once

\* What the parameters must be.
ParametersAssumption == Bases \subseteq Nat

VARIABLES
  filed,     \* the complaints, in the order they were committed: score, severity
  risk,      \* the rows of RiskScore, oldest first: no key forbids a second one
  filing,    \* what each request in flight has computed and read
  collided   \* a ghost: two requests overlapped

complaintVars == <<filed, risk, filing, collided>>

Low(a, b) == IF a <= b THEN a ELSE b

\* classify_complaint: recurrences add up to 30.
ScoreOf(base, earlier) == Low(100, base + Low(30, earlier * 10))

SeverityOf(score) == IF score >= 75 THEN "critica" ELSE IF score >= 55 THEN "alta"
                     ELSE IF score >= 30 THEN "media" ELSE "baixa"

PointsOf(severity) == IF severity = "critica" THEN 40 ELSE IF severity = "alta" THEN 24
                      ELSE IF severity = "media" THEN 12 ELSE 5

LevelOf(score, critical) == IF score >= 75 \/ critical > 0 THEN "critico"
                            ELSE IF score >= 45 THEN "alto"
                            ELSE IF score >= 20 THEN "atencao" ELSE "normal"

NoRisk == [score |-> 0, count |-> 0, critical |-> 0, blocked |-> FALSE, level |-> "normal"]

\* Mutant of Summed: points add up without end.
SummedOver(score, sev) == score + PointsOf(sev)

Summed(score, sev) == Low(100, score + PointsOf(sev))

RaisedTo(score, r, sev, blocked) ==
  LET critical == r.critical + (IF sev = "critica" THEN 1 ELSE 0)
  IN [score |-> score, count |-> r.count + 1, critical |-> critical, blocked |-> blocked,
      level |-> LevelOf(score, critical)]

\* Mutant of Raised: the block is what this complaint says.
RaisedAnew(r, sev) == RaisedTo(Summed(r.score, sev), r, sev, sev \in {"alta", "critica"})

\* _upsert_risk on the row read, for a pet.
Raised(r, sev) == RaisedTo(Summed(r.score, sev), r, sev, r.blocked \/ sev \in {"alta", "critica"})

NoFiling == [op |-> "idle"]

Init == /\ filed = <<>> /\ risk = <<>> /\ collided = FALSE
        /\ filing = [h \in Handlers |-> NoFiling]

\* create_complaint reads the earlier complaints and the risk row there is, the first.
File(h, base) ==
  /\ filing[h] = NoFiling /\ Len(filed) < MaxComplaints
  /\ filing' = [filing EXCEPT ![h] =
       [op |-> "filing", score |-> ScoreOf(base, Len(filed)),
        row |-> IF risk = <<>> THEN 0 ELSE 1,
        read |-> IF risk = <<>> THEN NoRisk ELSE risk[1], late |-> FALSE]]
  /\ UNCHANGED <<filed, risk, collided>>

\* A column is written when it differs from what was loaded.
Over(new, loaded, now) ==
  [f \in DOMAIN now |-> IF new[f] = loaded[f] THEN now[f] ELSE new[f]]

Commit(h) ==
  /\ filing[h].op = "filing"
  /\ LET d   == filing[h]
         sev == SeverityOf(d.score)
         new == Raised(d.read, sev)
     IN /\ filed' = Append(filed, [score |-> d.score, severity |-> sev])
        /\ risk'  = IF d.row = 0 THEN Append(risk, new)
                    ELSE [risk EXCEPT ![1] = Over(new, d.read, @)]
        /\ collided' = (collided \/ d.late)
        /\ filing' = [g \in Handlers |-> IF g = h \/ filing[g] = NoFiling THEN NoFiling
                                         ELSE [filing[g] EXCEPT !.late = TRUE]]

\* admin_update_complaint: the severity staff sets stays on the complaint.
Restate(i, sev) ==
  /\ filed[i].severity # sev /\ filed' = [filed EXCEPT ![i].severity = sev]
  /\ UNCHANGED <<risk, filing, collided>>

Next == \/ \E h \in Handlers : Commit(h) \/ \E base \in Bases : File(h, base)
        \/ \E i \in DOMAIN filed, sev \in {"baixa", "critica"} : Restate(i, sev)

Spec == Init /\ [][Next]_complaintVars

----------------------------------------------------------------------------
TypeOK == /\ \A i \in DOMAIN risk : risk[i] \in
               [score : 0..100, count : Nat, critical : Nat,
                blocked : BOOLEAN, level : {"normal", "atencao", "alto", "critico"}]
          /\ \A i \in DOMAIN filed : filed[i].score \in 0..100 /\ filed[i].severity \in {"baixa", "media", "alta", "critica"}

\* The severity each complaint was filed with.
Filed(i) == SeverityOf(filed[i].score)

\* The points of the first n complaints.
PointsUpTo[n \in 0..Len(filed)] ==
  IF n = 0 THEN 0 ELSE PointsUpTo[n - 1] + PointsOf(Filed(n))

Numbers(s) == {i \in DOMAIN filed : Filed(i) \in s}

\* There is one risk row and it says what the complaints filed add up to: their points up
\* to 100, one critical complaint makes it critical for good, a grave one blocks the pet
\* for good.  Two complaints filed at once are the exception.
RiskAddsUp ==
  ~collided /\ filed # <<>> =>
    /\ Len(risk) = 1 /\ risk[1].count = Len(filed)
    /\ risk[1].score = Low(100, PointsUpTo[Len(filed)])
    /\ risk[1].blocked = (Numbers({"alta", "critica"}) # {})
    /\ Numbers({"critica"}) # {} => risk[1].level = "critico"
=============================================================================
