---------------------------- MODULE LiveTracking ----------------------------
(***************************************************************************)
(* The track of one walk: the walker's phone records positions and sends   *)
(* them in batches, late, and again when an answer is lost; the tutor's    *)
(* app polls for what is newer than the last it saw; who has the public    *)
(* link sees the track without the surroundings of its start.              *)
(*                                                                         *)
(* Code: app/routes/walk_locations.py, live_share.py and                   *)
(* app/services/live_share_service.py.                                     *)
(***************************************************************************)
EXTENDS Naturals, Sequences, FiniteSets

CONSTANTS Handlers, Records,
          MaxPings, Batch, Page,  \* MAX_PINGS_PER_WALK, pings of one request, limit
          AtHome                  \* positions within 200 m of the pick-up

ParametersAssumption == /\ IsFiniteSet(Handlers) /\ Records \subseteq Nat \ {0}
                        /\ MaxPings \in Nat \ {0} /\ Batch \in Nat /\ Page \in Nat

VARIABLES
  walk,   \* whether it is active or over, and whether the tenant has live_gps
  phone,  \* positions recorded, in order, and those not known to be saved
  rows,   \* walk_location_pings, in the order they arrived
  desk,   \* requests past their checks, with their batch
  tutor,  \* what the app saw and the time it asks from; ghost: what was saved behind that time
  link,   \* the share link: "none", "live", "expired"
  shown   \* ghost: what the last public view showed, and whether the first position was in

trackVars == <<walk, phone, rows, desk, tutor, link, shown>>

Idle == [st |-> "idle"]
Saved == {rows[i] : i \in DOMAIN rows}

Init == /\ walk = [st |-> "waiting", gps |-> TRUE]
        /\ phone = [last |-> 0, unsent |-> {}] /\ rows = <<>>
        /\ desk = [h \in Handlers |-> Idle]
        /\ tutor = [seen |-> {}, since |-> 0, late |-> {}]
        /\ link = "none" /\ shown = [what |-> {}, first |-> FALSE]

\* The app, external: it records while the walk is active.
Record == /\ walk.st = "active" /\ phone.last + 1 \in Records
          /\ phone' = [last |-> phone.last + 1, unsent |-> phone.unsent \cup {phone.last + 1}]
          /\ UNCHANGED <<walk, rows, desk, tutor, link, shown>>

\* Mutant of Full: the last batch may make it full twice.
FullLate == Len(rows) > MaxPings

Full == Len(rows) >= MaxPings

\* _post_locations, past its checks.
Post(h) == \E batch \in SUBSET phone.unsent \ {{}} :
  /\ desk[h] = Idle /\ Cardinality(batch) <= Batch
  /\ walk.st = "active" /\ walk.gps /\ ~Full
  /\ desk' = [desk EXCEPT ![h] = [st |-> "post", batch |-> batch]]
  /\ UNCHANGED <<walk, phone, rows, tutor, link, shown>>

InSomeOrder(S) == {f \in [1..Cardinality(S) -> S] : \A i, j \in DOMAIN f : f[i] = f[j] => i = j}

\* The commit; without the answer the app sends the batch again.
CommitPost(h) == LET d == desk[h] IN
  /\ d.st = "post" /\ desk' = [desk EXCEPT ![h] = Idle]
  /\ \E order \in InSomeOrder(d.batch) : rows' = rows \o order
  /\ \E answered \in BOOLEAN :
       phone' = IF answered THEN [phone EXCEPT !.unsent = @ \ d.batch] ELSE phone
  /\ tutor' = [tutor EXCEPT !.late = @ \cup {n \in d.batch : n <= tutor.since}]
  /\ UNCHANGED <<walk, link, shown>>

\* Mutant of Answer: the newest of them.
AnswerNewest(since) ==
  {n \in Saved : n > since /\ Cardinality({i \in DOMAIN rows : rows[i] > n}) < Page}

\* _get_locations: the oldest rows after since, at most as many as the limit.
Answer(since) ==
  {n \in Saved : n > since /\ Cardinality({i \in DOMAIN rows : since < rows[i] /\ rows[i] < n}) < Page}

Poll == LET new == Answer(tutor.since) IN
  /\ new # {} /\ UNCHANGED <<walk, phone, rows, desk, link, shown>>
  /\ tutor' = [tutor EXCEPT !.seen = @ \cup new, !.since = CHOOSE n \in new : \A m \in new : m <= n]

\* _create_share_link: a live one is given again.
Share == /\ walk.gps /\ link' = "live"
         /\ UNCHANGED <<walk, phone, rows, desk, tutor, shown>>

\* Mutant of Origin: the position that arrived first.
OriginArrived == rows[1]

Origin == CHOOSE n \in Saved : \A m \in Saved : n <= m

\* obfuscate_origin: positions are at the pick-up or away from it.
Public == IF rows = <<>> THEN {} ELSE {n \in Saved : (n \in AtHome) # (Origin \in AtHome)}

\* _public_live.
View == /\ link = "live" /\ walk.st = "active" /\ shown' = [what |-> Public, first |-> 1 \in Saved]
        /\ UNCHANGED <<walk, phone, rows, desk, tutor, link>>

Expire == /\ link = "live" /\ link' = "expired"
          /\ UNCHANGED <<walk, phone, rows, desk, tutor, shown>>

WalkMoves == \/ /\ walk.st # "over" /\ walk' = [walk EXCEPT !.st = IF @ = "waiting" THEN "active" ELSE "over"]
                /\ UNCHANGED <<phone, rows, desk, tutor, link, shown>>
             \/ /\ walk' = [walk EXCEPT !.gps = ~@]
                /\ UNCHANGED <<phone, rows, desk, tutor, link, shown>>

Next == \/ \E h \in Handlers : Post(h) \/ CommitPost(h)
        \/ Record \/ Poll \/ Share \/ View \/ Expire \/ WalkMoves

Spec == Init /\ [][Next]_trackVars

----------------------------------------------------------------------------
TypeOK == /\ Saved \subseteq 1..phone.last /\ tutor.seen \subseteq Saved /\ shown.what \subseteq Saved

\* The app has seen every position up to the time it asks from, but those that were saved when
\* it was past them; and the table is full but for the batches already let in.
TrackIsFollowed == /\ \A n \in Saved : n <= tutor.since => n \in tutor.seen \cup tutor.late
                   /\ Len(rows) < MaxPings + Batch * Cardinality(Handlers)

\* Once the first position of a walk that begins at the pick-up has arrived, in whatever order
\* and however often, a view shows no position at the pick-up.
HomeIsHidden == 1 \in AtHome /\ shown.first => shown.what \cap AtHome = {}
=============================================================================
