----------------------------- MODULE LegalTerms -----------------------------
(***************************************************************************)
(* One legal document of a tenant: its texts, published by staff or given  *)
(* up for the platform's model, and one person who accepts what is in      *)
(* force before booking, paying or walking.                                *)
(*                                                                         *)
(* Code: app/services/tenant_legal_document_service.py and                 *)
(* legal_status_service.py, app/routes/admin_legal_documents.py and        *)
(* legal.py, app/dependencies/legal_gate.py.  Nothing is locked: a         *)
(* publication counts and deactivates the rows it read.                    *)
(***************************************************************************)
EXTENDS Naturals, Sequences, FiniteSets

CONSTANTS Handlers, MaxTexts

\* What the parameters must be.
ParametersAssumption == MaxTexts \in Nat

VARIABLES
  texts,     \* rows of tenant_legal_documents: version (v1, v2, ...) and is_active
  accepted,  \* the person's last acceptance for the tenant; ghost: of which text
  desk,      \* requests, with the rows they read
  passed,    \* ghost: the text the person had accepted when last let through, and the one
             \* in force
  crossed    \* ghost: a publication came between the read and the commit of another

termVars == <<texts, accepted, desk, passed, crossed>>

Model == [version |-> 0, text |-> 0]    \* BASE_VERSION; text n is the n-th row
Idle == [st |-> "idle"]

Init == /\ texts = <<>> /\ accepted = [version |-> MaxTexts + 1, text |-> 0]
        /\ desk = [h \in Handlers |-> Idle]
        /\ passed = [held |-> 0, due |-> 0] /\ crossed = FALSE

Active == {n \in DOMAIN texts : texts[n].active}

\* effective_version: the active text that was updated last, or the model.
InForce == IF Active = {} THEN {Model}
           ELSE {[version |-> texts[n].version, text |-> n] : n \in Active}

\* Mutant of NextVersion: only texts in force are counted.
NextVersionActive(rows) == Cardinality({n \in DOMAIN rows : rows[n].active}) + 1

\* _next_version.
NextVersion(rows) == Len(rows) + 1

\* upsert_custom or restore_base, before the commit.
Edit(h) == \E op \in {"publish", "restore"} :
  /\ desk[h] = Idle /\ (op = "publish" => Len(texts) < MaxTexts)
  /\ desk' = [desk EXCEPT ![h] = [st |-> op, read |-> texts]]
  /\ UNCHANGED <<texts, accepted, passed, crossed>>

\* The rows that were read as active are updated, by id.
Without(rows, read) == [n \in DOMAIN rows |->
  IF n \in DOMAIN read /\ read[n].active THEN [rows[n] EXCEPT !.active = FALSE] ELSE rows[n]]

CommitEdit(h) == LET d == desk[h] IN
  /\ d.st \in {"publish", "restore"} /\ (d.st = "publish" => Len(texts) < MaxTexts)
  /\ texts' = IF d.st = "restore" THEN Without(texts, d.read)
              ELSE Append(Without(texts, d.read), [version |-> NextVersion(d.read), active |-> TRUE])
  /\ desk' = [desk EXCEPT ![h] = Idle]
  /\ crossed' = (crossed \/ texts # d.read)
  /\ UNCHANGED <<accepted, passed>>

\* accept_documents with the tenant's scope: the version in force as it is read.
Accept(h) == \E t \in InForce :
  /\ desk[h] = Idle /\ desk' = [desk EXCEPT ![h] = [st |-> "accept", of |-> t]]
  /\ UNCHANGED <<texts, accepted, passed, crossed>>

CommitAccept(h) == /\ desk[h].st = "accept" /\ accepted' = desk[h].of
                   /\ desk' = [desk EXCEPT ![h] = Idle]
                   /\ UNCHANGED <<texts, passed, crossed>>

\* enforce_legal_acceptance, at the door of each operation.
Pass == \E t \in InForce : /\ accepted.version = t.version
                           /\ passed' = [held |-> accepted.text, due |-> t.text]
                           /\ UNCHANGED <<texts, accepted, desk, crossed>>

Next == \/ \E h \in Handlers : Edit(h) \/ CommitEdit(h) \/ Accept(h) \/ CommitAccept(h)
        \/ Pass

Spec == Init /\ [][Next]_termVars

----------------------------------------------------------------------------
TypeOK == /\ \A n \in DOMAIN texts : texts[n] \in [version : 1..MaxTexts, active : BOOLEAN]
          /\ Len(texts) <= MaxTexts
          /\ accepted.version \in 0..(MaxTexts + 1) /\ accepted.text \in 0..Len(texts)

\* Unless publications crossed, one text at most is in force and who is let through had
\* accepted that very text, whatever was published, given up and accepted before.  (Crossed,
\* two texts bear one version and stay active: the acceptance of one passes for the other.)
TermsWereAccepted == ~crossed => Cardinality(Active) <= 1 /\ passed.held = passed.due
=============================================================================
