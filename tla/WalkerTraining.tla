---------------------------- MODULE WalkerTraining ----------------------------
(***************************************************************************)
(* The training of one walker: quizzes passed module by module in the      *)
(* active version of the manual, the mark of completion on the profile     *)
(* and the gate that keeps an untrained walker from being offered a walk.  *)
(*                                                                         *)
(* Code: app/services/walker_training_service.py, training_content.py and  *)
(* walker_training_policy.py.                                              *)
(***************************************************************************)
EXTENDS Naturals

CONSTANTS
  Manuals,    \* versions of the manual whose bundle is deployed
  Topics(_),  \* required_modules of a version
  Handlers    \* quizzes graded at once

\* What the parameters must be: every manual asks for something.
ParametersAssumption == \A v \in Manuals : Topics(v) # {} /\ v # "none"

VARIABLES
  manual,   \* active_version: a setting of the deployment
  score,    \* progress rows: the modules passed, per version; best score of each
  diploma,  \* training_completed_version; of, the versions ever marked; a ghost
  quiz      \* each request grading a quiz; alone, no other of the version overlapped

trainingVars == <<manual, score, diploma, quiz>>

AllTopics == UNION {Topics(v) : v \in Manuals}
NoQuiz    == [op |-> "idle"]
Pass      == 2   \* a score that reaches PASS_THRESHOLD_PERCENT; below it, 1

Init == /\ manual \in Manuals
        /\ score = [v \in Manuals |-> [t \in Topics(v) |-> [passed |-> FALSE, best |-> 0]]]
        /\ diploma = [version |-> "none", of |-> {}]
        /\ quiz = [h \in Handlers |-> NoQuiz]

\* The deployment changes the version it requires.
Deploy(v) == manual # v /\ manual' = v /\ UNCHANGED <<score, diploma, quiz>>

\* grade_quiz up to the flush: the answers are scored against the active version, the
\* row of the module is read.  Requests for one module wait for its row lock, or for the
\* unique key of a first row, and then write over what they read.
Grade(h, t, s) ==
  /\ quiz[h] = NoQuiz /\ t \in Topics(manual)
  /\ quiz' = [quiz EXCEPT ![h] = [op |-> "graded", v |-> manual, t |-> t,
                                    s |-> s, read |-> score[manual][t]]]
  /\ UNCHANGED <<manual, score, diploma>>

PassedIn(v) == {t \in Topics(v) : score[v][t].passed}

\* Mutant of Seen: the rows as they were before this quiz was graded.
SeenBefore(q, passed) == PassedIn(q.v)

\* The rows _maybe_complete_training counts: the others as they are committed now, its
\* own as it holds it.
Seen(q, passed) == (PassedIn(q.v) \ {q.t}) \cup (IF passed THEN {q.t} ELSE {})

\* The flush writes the row, and _maybe_complete_training looks whether the manual is complete.
Flush(h) ==
  /\ quiz[h].op = "graded"
  /\ \A g \in Handlers : quiz[g].op = "flushed" => <<quiz[g].v, quiz[g].t>> # <<quiz[h].v, quiz[h].t>>
  /\ LET q == quiz[h]
         new == [passed |-> q.s >= Pass \/ q.read.passed,
                 best   |-> IF q.s > q.read.best THEN q.s ELSE q.read.best]
     IN quiz' = [quiz EXCEPT ![h] =
          [op |-> "flushed", v |-> q.v, t |-> q.t, new |-> new, was |-> q.read,
           seen |-> Seen(q, new.passed), alone |-> TRUE]]
  /\ UNCHANGED <<manual, score, diploma>>

\* Mutant of Complete: one module may be missing.
CompleteButOne(v, seen) == \E t \in Topics(v) : Topics(v) \ {t} \subseteq seen

Complete(v, seen) == Topics(v) # {} /\ Topics(v) \subseteq seen

\* The columns that changed are written, the mark with them.  Whoever else is between
\* its flush and its commit did not see this.
Commit(h) ==
  /\ quiz[h].op = "flushed"
  /\ LET q == quiz[h]
         row == score[q.v][q.t]
     IN /\ score' = [score EXCEPT ![q.v][q.t] =
              [passed |-> IF q.new.passed # q.was.passed THEN TRUE ELSE row.passed,
               best   |-> IF q.new.best # q.was.best THEN q.new.best ELSE row.best]]
        /\ diploma' = IF Complete(q.v, q.seen)
                      THEN [version |-> q.v, of |-> diploma.of \cup {q.v}]
                      ELSE [diploma EXCEPT !.of = IF q.alone THEN @ ELSE @ \cup {q.v}]
        /\ quiz' = [g \in Handlers |->
             IF g = h THEN NoQuiz
             ELSE IF quiz[g].op = "flushed" /\ quiz[g].v = q.v THEN [quiz[g] EXCEPT !.alone = FALSE]
             ELSE quiz[g]]
  /\ UNCHANGED manual

Next == \/ \E v \in Manuals : Deploy(v)
        \/ \E h \in Handlers, t \in AllTopics, s \in {1, Pass} : Grade(h, t, s)
        \/ \E h \in Handlers : Flush(h) \/ Commit(h)

Spec == Init /\ [][Next]_trainingVars

\* is_walker_trained, and get_enforcement when the mode is on, the content approved by
\* the vet and the grace period over: who may be offered a walk.
Trained == diploma.version = manual

----------------------------------------------------------------------------
TypeOK ==
  /\ manual \in Manuals
  /\ \A v \in Manuals : score[v] \in [Topics(v) -> [passed : BOOLEAN, best : 0..Pass]]
  /\ diploma.version \in Manuals \cup {"none"} /\ diploma.of \subseteq Manuals

\* Whoever counts as trained passed every module that the version in force requires,
\* whatever versions came and went and however the quizzes overlapped.
TrainedPassedAll == Trained => PassedIn(manual) = Topics(manual)

\* Whoever passed every module of a version was marked for it; two last modules graded
\* at once are the exception, neither sees the other pass.
PassedAllIsMarked == \A v \in Manuals : PassedIn(v) = Topics(v) => v \in diploma.of

\* The mark of training and the quizzes passed say the same, in both directions.
DiplomaIsEarned == TrainedPassedAll /\ PassedAllIsMarked
=============================================================================
