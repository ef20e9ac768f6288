------------------------------- MODULE Accounts -------------------------------
(***************************************************************************)
(* The password and the sessions of one account: login with its rehash of  *)
(* old hashes, refresh, change, reset by a code sent by mail, logout, and  *)
(* the token_version that ends the sessions issued before.                 *)
(*                                                                         *)
(* Code: app/routes/auth.py, app/core/security.py and get_current_user in  *)
(* app/dependencies/auth.py.  Expiry by time and the rate limiters are     *)
(* left out.                                                               *)
(***************************************************************************)
EXTENDS Naturals, Sequences

CONSTANTS
  MaxPasswords,   \* bound: passwords ever set
  MaxVersion,     \* bound: token_version
  MaxCodes,       \* bound: codes mailed
  MaxAttempts,    \* _PASSWORD_RESET_MAX_ATTEMPTS
  Handlers        \* requests in flight at once

\* What the parameters must be.
ParametersAssumption == MaxVersion \in Nat /\ MaxAttempts \in Nat \ {0}

VARIABLES
  user,      \* pw, the password stored, by number; old, its hash is to be redone; ver
  codes,     \* the reset codes mailed so far, oldest first: used, attempts
  sessions,  \* the tokens issued: ver, and past, a ghost: how many revocations came before
  log,       \* ghosts: set, passwords set; revoked, revocations; by, resets; crossed, two writes overlapped
  call       \* what each request in flight has read

accountVars == <<user, codes, sessions, log, call>>

Hung == [op |-> "idle"]

Init == /\ user = [pw |-> 1, old |-> TRUE, ver |-> 0]
        /\ codes = <<>> /\ sessions = {}
        /\ log = [set |-> 1, revoked |-> 0, by |-> 0, crossed |-> FALSE]
        /\ call = [h \in Handlers |-> Hung]

Holding(h, r) == call' = [call EXCEPT ![h] = r]

\* Whoever read the user before this commit works on an old row.
Commits(h) == call' = [g \in Handlers |-> IF g = h \/ call[g] = Hung THEN Hung
                                          ELSE [call[g] EXCEPT !.late = TRUE]]

\* build_session of a row as it was read.
Issued(ver) == sessions \cup {[ver |-> ver, past |-> log.revoked]}

Valid == {s \in sessions : s.ver = user.ver}

\* login: the password matches what is read.  Unless the hash is an old one, nothing is
\* written.
Login == /\ ~user.old /\ sessions' = Issued(user.ver) /\ UNCHANGED <<user, codes, log, call>>

\* refresh: the token is as old as the row read, a new one takes its version.
Refresh == \E s \in Valid : /\ sessions' = Issued(user.ver)
                            /\ UNCHANGED <<user, codes, log, call>>

Reads(h, op) ==
  /\ call[h] = Hung
  /\ Holding(h, [op |-> op, row |-> user, late |-> FALSE])
  /\ UNCHANGED <<user, codes, sessions, log>>

LoginAnew(h) == user.old /\ Reads(h, "rehash")
Change(h)    == Valid # {} /\ log.set < MaxPasswords /\ user.ver < MaxVersion /\ Reads(h, "change")
Logout(h)    == Valid # {} /\ user.ver < MaxVersion /\ Reads(h, "logout")

\* password_needs_rehash: the password that matched is stored again, over what is there.
\* The session is built from the row as it is after the commit.
Rehash(h) ==
  /\ call[h].op = "rehash"
  /\ user' = [user EXCEPT !.pw = call[h].row.pw, !.old = FALSE]
  /\ sessions' = Issued(user.ver)
  /\ log' = [log EXCEPT !.crossed = @ \/ call[h].late]
  /\ Commits(h) /\ UNCHANGED codes

\* Mutant of Bumped: the version stays.
BumpedNot(row) == row.ver

\* token_version + 1 on the value read: change, reset and logout.
Bumped(row) == row.ver + 1

Revoke(h, op) ==
  /\ call[h].op = op
  /\ log' = [set     |-> log.set + (IF op = "logout" THEN 0 ELSE 1),
             revoked |-> log.revoked + 1,
             by      |-> log.by + (IF op = "reset" THEN 1 ELSE 0),
             crossed |-> log.crossed \/ call[h].late]
  /\ user' = IF op = "logout" THEN [user EXCEPT !.ver = Bumped(call[h].row)]
             ELSE [pw |-> log.set + 1, old |-> FALSE, ver |-> Bumped(call[h].row)]
  /\ Commits(h) /\ UNCHANGED sessions

CommitChange(h) == Revoke(h, "change") /\ UNCHANGED codes
CommitLogout(h) == Revoke(h, "logout") /\ UNCHANGED codes

\* forgot_password: the earlier codes are used up, a new one is mailed.
Forgot == /\ Len(codes) < MaxCodes
          /\ codes' = Append([i \in DOMAIN codes |-> [codes[i] EXCEPT !.used = TRUE]],
                             [used |-> FALSE, attempts |-> 0])
          /\ UNCHANGED <<user, sessions, log, call>>

Open == {i \in DOMAIN codes : ~codes[i].used}

\* reset_password: the latest open code, and the attempt is counted on what was read.
Reset(h, right) ==
  /\ call[h] = Hung /\ Open # {} /\ log.set < MaxPasswords /\ user.ver < MaxVersion
  /\ LET i == CHOOSE i \in Open : \A j \in Open : j <= i
     IN Holding(h, [op |-> IF right THEN "reset" ELSE "wrong", row |-> user, late |-> FALSE,
                    code |-> i, tries |-> codes[i].attempts + 1])
  /\ UNCHANGED <<user, codes, sessions, log>>

\* Mutant of Spent: a code that worked stays open.
SpentIfWrong(h) == call[h].tries >= MaxAttempts

\* The code is used up by success and by the last wrong guess.
Spent(h) == call[h].op = "reset" \/ call[h].tries >= MaxAttempts

Counted(h) == codes' = [codes EXCEPT ![call[h].code] =
                [used |-> @.used \/ Spent(h), attempts |-> call[h].tries]]

WrongCode(h) == /\ call[h].op = "wrong" /\ Counted(h) /\ Holding(h, Hung)
                /\ UNCHANGED <<user, sessions, log>>
CommitReset(h) == Revoke(h, "reset") /\ Counted(h)

Next == \/ Login \/ Refresh \/ Forgot
        \/ \E h \in Handlers : \/ LoginAnew(h) \/ Change(h) \/ Logout(h)
                               \/ \E right \in BOOLEAN : Reset(h, right)
                               \/ Rehash(h) \/ CommitChange(h) \/ CommitLogout(h)
                               \/ WrongCode(h) \/ CommitReset(h)

Spec == Init /\ [][Next]_accountVars
----------------------------------------------------------------------------
TypeOK == /\ user.pw \in Nat \ {0} /\ user.old \in BOOLEAN /\ user.ver \in 0..MaxVersion
          /\ \A i \in DOMAIN codes : codes[i].attempts \in 0..MaxAttempts
          /\ \A s \in sessions : s.ver \in 0..MaxVersion

\* No session issued before a change, a reset or a logout is accepted after it; two of
\* these that both read the version before either wrote it count as one.
SessionsEnd == ~log.crossed => \A s \in Valid : s.past = log.revoked

\* A code mailed sets one password; two requests with it at once are the exception.
CodeWorksOnce == ~log.crossed => log.by <= Len(codes)

\* What a change of password ends stays ended: sessions, and the codes that made it.
OldSecretsFail == SessionsEnd /\ CodeWorksOnce
=============================================================================
