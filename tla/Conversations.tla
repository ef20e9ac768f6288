--------------------------- MODULE Conversations ---------------------------
(***************************************************************************)
(* The chat of one walk, whose walker may be replaced.                     *)
(*                                                                         *)
(* Code: app/routes/protected_chat.py.  Messages are read, and marked by   *)
(* primary key.                                                            *)
(***************************************************************************)
EXTENDS Naturals, Sequences

CONSTANTS Handlers, Walkers, MaxMessages

Tutor == "tutor"
Nobody == "nobody"

VARIABLES
  walk,   \* status of the walk as the chat groups it, its walker, and the clock: "early"
          \* until 30 minutes before the start, "over" from 30 minutes after the end
  chat,   \* rows of protected_chat_messages; ghosts: who was served or marked each, and
          \* whether it came too late
  desk    \* readers, with the rows they loaded

talkVars == <<walk, chat, desk>>

Idle == [st |-> "idle"]

Init == /\ walk = [st |-> "searching", walker |-> Nobody, clock |-> "early"]
        /\ chat = <<>> /\ desk = [h \in Handlers |-> Idle]

Participants == {Tutor, walk.walker} \ {Nobody}

\* Mutant of Available: the chat of a walk stays open once it is completed.
AvailableAfter == walk.walker # Nobody /\ walk.st \in {"chatting", "completed"} /\ walk.clock # "early"

\* _assert_chat_available: the end of the walk closes the chat of a completed one.
Available == /\ walk.walker # Nobody /\ walk.st \in {"chatting", "completed"}
             /\ walk.clock # "early" /\ (walk.st = "completed" => walk.clock # "over")

\* create_message; its notification is in Inbox.
Say(u) == /\ Available /\ u \in Participants /\ Len(chat) < MaxMessages
          /\ chat' = Append(chat, [by |-> u, read |-> FALSE, seen |-> {},
                                   late |-> walk.st = "completed" /\ walk.clock = "over"])
          /\ UNCHANGED <<walk, desk>>

\* Mutant of Unread: a listing marks one's own messages too.
UnreadOfAnyone(m, u) == ~m.read

\* What u has not read: any message of the walk by somebody else.
Unread(m, u) == m.by # u /\ ~m.read

\* list_messages and mark_messages_read, before the commit.
List(h, u) == /\ desk[h] = Idle /\ Available /\ u \in Participants
              /\ desk' = [desk EXCEPT ![h] = [st |-> "list", by |-> u, upto |-> Len(chat),
                                              mark |-> {i \in DOMAIN chat : Unread(chat[i], u)}]]
              /\ UNCHANGED <<walk, chat>>

\* Mutant of Marked: what is unread by the time of the UPDATE.
MarkedByNow(d) == {i \in DOMAIN chat : Unread(chat[i], d.by)}

Marked(d) == d.mark

CommitList(h) == LET d == desk[h] IN
  /\ d.st = "list"
  /\ chat' = [i \in DOMAIN chat |->
       [chat[i] EXCEPT !.read = (@ \/ i \in Marked(d)), !.seen = IF i <= d.upto THEN @ \cup {d.by} ELSE @]]
  /\ desk' = [desk EXCEPT ![h] = Idle] /\ UNCHANGED walk

\* The walk as other handlers move it: accepted, given to another, completed, cancelled.
WalkMoves == \E st \in {"searching", "chatting", "completed", "cancelled"}, w \in Walkers \cup {Nobody} :
  /\ walk.st \notin {"completed", "cancelled"}
  /\ st = "chatting" => w # Nobody
  /\ st = "completed" => walk.st = "chatting" /\ w = walk.walker
  /\ walk' = [walk EXCEPT !.st = st, !.walker = w]
  /\ UNCHANGED <<chat, desk>>

Elapse == /\ walk.clock # "over"
          /\ walk' = [walk EXCEPT !.clock = IF @ = "early" THEN "open" ELSE "over"]
          /\ UNCHANGED <<chat, desk>>

Next == \/ \E u \in Walkers \cup {Tutor} : Say(u) \/ \E h \in Handlers : List(h, u)
        \/ \E h \in Handlers : CommitList(h)
        \/ WalkMoves \/ Elapse

Spec == Init /\ [][Next]_talkVars

----------------------------------------------------------------------------
TypeOK == /\ walk.walker \in Walkers \cup {Nobody}
          /\ \A i \in DOMAIN chat : /\ chat[i].by \in Walkers \cup {Tutor}
                                    /\ chat[i].seen \subseteq Walkers \cup {Tutor}

\* A message marked read was loaded for somebody else than its author - which, after a change
\* of walker, need not be the one it was for - and nothing is said in a chat that is over.
ReadIsSeen == \A i \in DOMAIN chat : /\ chat[i].read => chat[i].seen \ {chat[i].by} # {}
                                     /\ ~chat[i].late
=============================================================================
