------------------------------- MODULE Inbox -------------------------------
(***************************************************************************)
(* Notifications of a tenant and the pushes that ring for them.            *)
(*                                                                         *)
(* Code: app/routes/notifications.py, app/services/push_notifications.py,  *)
(* the notices of app/routes/protected_chat.py and support_tickets.py.     *)
(* A push is made up while the request is at work and sent by a thread of  *)
(* the process: it neither waits for the commit nor dies with the request. *)
(***************************************************************************)
EXTENDS Naturals, Sequences

CONSTANTS Handlers, Devices, Users, Admins, MaxNotes

Nobody == "nobody"
Everyone == "admins"   \* user_id is NULL and user_role an admin's

VARIABLES
  tokens,  \* rows of push_tokens
  phone,   \* who uses the app on each device, as far as the device told; Nobody: it is gone
  notes,   \* rows of notifications and what became of them
  jobs,    \* pushes in the executor; ghost moved: the device changed hands meanwhile
  desk,    \* requests that wrote a notification and have not ended, and the pushes of each
  on,      \* the tenant's feature push_notifications
  rang,    \* ghost: the last push that rang
  late     \* ghost: devices registered while a worker held the answer that they are gone

inboxVars == <<tokens, phone, notes, jobs, desk, on, rang, late>>

Kinds == {"safety", "critical", "plain"}
Idle == [st |-> "idle"]

Init == /\ tokens = {} /\ phone = [d \in Devices |-> Nobody]
        /\ notes = <<>> /\ jobs = {} /\ desk = [h \in Handlers |-> Idle]
        /\ on \in BOOLEAN /\ rang = {} /\ late = {}

Addressed(n, u) == n.to = u \/ (n.to = Everyone /\ u \in Admins)

\* Mutant of Registered: the row is looked up by device and user.
RegisteredBeside(rows, d, u) == rows \cup {[device |-> d, user |-> u]}

\* register_push_token: the row of the token changes hands.
Registered(rows, d, u) == {r \in rows : r.device # d} \cup {[device |-> d, user |-> u]}

Register(d, u) ==
  /\ tokens' = Registered(tokens, d, u) /\ phone' = [phone EXCEPT ![d] = u]
  /\ jobs' = {IF j.device = d /\ ~Addressed(notes[j.note], u) THEN [j EXCEPT !.moved = TRUE] ELSE j : j \in jobs}
  /\ late' = IF \E j \in jobs : j.device = d /\ j.gone THEN late \cup {d} ELSE late \ {d}
  /\ UNCHANGED <<notes, desk, on, rang>>

\* _push_notifications_enabled_for and _should_push.
Rings(kind) == kind # "plain" /\ (on \/ kind = "safety")

\* _tokens_for_notification, of the notification in row i.
Pushes(i, n) == IF ~Rings(n.kind) THEN {}
                ELSE {[note |-> i, device |-> r.device, moved |-> FALSE, gone |-> FALSE]
                        : r \in {t \in tokens : Addressed(n, t.user)}}

\* Mutant of AtOnce: the chat pushes before it commits, as the others do.
AtOnceAlways(from) == TRUE

\* _create_notification sends within the request; create_message of the chat after its commit.
AtOnce(from) == from # "chat"

\* A handler that writes a notification, up to the flush.
Write(h, from) == \E to \in Users \cup {Everyone}, kind \in Kinds :
  /\ desk[h] = Idle /\ Len(notes) < MaxNotes
  /\ from \in {"chat", "reply"} => kind = "critical" /\ to \in Users
  /\ LET n == [to |-> to, kind |-> kind, from |-> from, st |-> "flushed", read |-> FALSE, failed |-> FALSE]
     IN /\ notes' = Append(notes, n)
        /\ jobs' = jobs \cup IF AtOnce(from) THEN Pushes(Len(notes) + 1, n) ELSE {}
  /\ desk' = [desk EXCEPT ![h] = [st |-> from, note |-> Len(notes) + 1]]
  /\ UNCHANGED <<tokens, phone, on, rang, late>>

Ended(h, st) == /\ notes' = [notes EXCEPT ![desk[h].note].st = st]
                /\ desk' = [desk EXCEPT ![h] = Idle]
                /\ UNCHANGED <<tokens, phone, on, rang, late>>

Commit(h) == /\ desk[h].st \in {"create", "chat"} /\ Ended(h, "kept")
             /\ jobs' = jobs \cup IF AtOnce(desk[h].st) THEN {} ELSE Pushes(desk[h].note, notes[desk[h].note])

\* The request fails and its session is rolled back.
Fail(h) == desk[h].st \in {"create", "chat"} /\ Ended(h, "failed") /\ UNCHANGED jobs

\* update_support_ticket: the answer was committed before its notification was written.
EndReply(h) == desk[h].st = "reply" /\ Ended(h, "undone") /\ UNCHANGED jobs

\* Mutant of Invalid: any error of the gateway makes the device invalid.
InvalidIfAny(answer) == answer # "ok"

Invalid(answer) == answer = "gone"   \* DeviceNotRegistered

\* _do_send: what the push service answers of one device.
Send(j, answer) ==
  /\ j \in jobs /\ ~j.gone
  /\ answer = "ok" => phone[j.device] # Nobody
  /\ answer = "gone" => phone[j.device] = Nobody
  /\ jobs' = (jobs \ {j}) \cup IF Invalid(answer) THEN {[j EXCEPT !.gone = TRUE]} ELSE {}
  /\ rang' = IF answer = "ok" THEN {[of |-> notes[j.note], user |-> phone[j.device], moved |-> j.moved]} ELSE rang
  /\ notes' = IF answer = "error" THEN [notes EXCEPT ![j.note].failed = TRUE] ELSE notes
  /\ UNCHANGED <<tokens, phone, desk, on, late>>

\* The worker deletes the row of the token, whoever has it now.
Forget(j) == /\ j \in jobs /\ j.gone /\ jobs' = jobs \ {j}
             /\ tokens' = {r \in tokens : r.device # j.device}
             /\ UNCHANGED <<phone, notes, desk, on, rang, late>>

\* send_push_for_notification, which the scheduler calls once for what failed.
Retry(i) == /\ notes[i].failed /\ notes[i].st = "kept"
            /\ jobs' = jobs \cup Pushes(i, notes[i])
            /\ notes' = [notes EXCEPT ![i].failed = FALSE]
            /\ UNCHANGED <<tokens, phone, desk, on, rang, late>>

\* _mark_as_read; the row of all admins is one.
Read(i, u) == /\ notes[i].st = "kept" /\ Addressed(notes[i], u)
              /\ notes' = [notes EXCEPT ![i].read = TRUE]
              /\ UNCHANGED <<tokens, phone, jobs, desk, on, rang, late>>

\* _mark_all_as_read.
ReadAll(u) == /\ notes' = [i \in DOMAIN notes |->
                   IF notes[i].st = "kept" /\ Addressed(notes[i], u) THEN [notes[i] EXCEPT !.read = TRUE] ELSE notes[i]]
              /\ UNCHANGED <<tokens, phone, jobs, desk, on, rang, late>>

Uninstall(d) == /\ phone' = [phone EXCEPT ![d] = Nobody]
                /\ UNCHANGED <<tokens, notes, jobs, desk, on, rang, late>>

\* The process stops: what its executor holds is lost, its requests fail.
Crash == /\ jobs' = {} /\ desk' = [h \in Handlers |-> Idle]
         /\ notes' = [i \in DOMAIN notes |-> IF notes[i].st = "flushed" THEN [notes[i] EXCEPT !.st = "failed"] ELSE notes[i]]
         /\ UNCHANGED <<tokens, phone, on, rang, late>>

Next == \/ \E d \in Devices : Uninstall(d) \/ \E u \in Users : Register(d, u)
        \/ \E h \in Handlers : \/ \E from \in {"create", "chat", "reply"} : Write(h, from)
                               \/ Commit(h) \/ Fail(h) \/ EndReply(h)
        \/ \E j \in jobs : Forget(j) \/ \E answer \in {"ok", "gone", "error"} : Send(j, answer)
        \/ \E i \in DOMAIN notes : Retry(i) \/ \E u \in Users : Read(i, u)
        \/ \E u \in Users : ReadAll(u)
        \/ Crash

Spec == Init /\ [][Next]_inboxVars

----------------------------------------------------------------------------
TypeOK == /\ tokens \subseteq [device : Devices, user : Users]
          /\ \A i \in DOMAIN notes : notes[i].st \in {"flushed", "kept", "failed", "undone"}
          /\ \A j \in jobs : j.note \in DOMAIN notes

\* A device rings for who uses it, unless it changed hands after the push was made up; the
\* chat rings for messages that were kept.
RingsTrue == \A r \in rang : /\ r.moved \/ Addressed(r.of, r.user)
                             /\ r.of.from = "chat" => r.of.st = "kept"

\* A device that told who uses it can be reached, unless it told while a worker had just been
\* answered that it is gone.
LiveIsReached == \A d \in Devices \ late :
  phone[d] # Nobody => [device |-> d, user |-> phone[d]] \in tokens
=============================================================================
