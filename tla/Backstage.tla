----------------------------- MODULE Backstage ------------------------------
(*****************************************************************************)
(* What runs behind every request: the scheduler, the answers to an offer    *)
(* transaction by transaction, the tenant a request works under and its      *)
(* cached configuration, cost alerts; and what people are told:              *)
(* notifications, the chat, support, positions, emergency calls, and the     *)
(* limiter of logins.  The components share no row, so a behaviour picks the *)
(* one that works.                                                           *)
(*****************************************************************************)
CONSTANTS
  Handlers, Solo,                                  \* requests at once; where one will do
  Offers, Walks, Notices, MaxReminders, LogWindow, RetryBatch, MaxSignals, MaxCrashes,
                                                   \* of Scheduler
  Walkers, MaxOffers,                              \* of OfferRaces
  Workers, TTL, Patience, Lag, MaxEdits,           \* of ConfigCache
  Processes, Tenants, Home, Strict, Slowness, MaxChanges,   \* of TenantScope
  Budgets, Thresholds, MaxSpend, MaxPeriods, MaxVersion,    \* of CostAlerts
  Devices, Users, Admins, MaxNotes,                \* of Inbox
  Talkers, MaxMessages,                            \* of Conversations
  Replies, Statuses,                               \* of SupportTickets
  MaxFailures, Window, WithRedis,                  \* of RateLimiter
  Records, MaxPings, Batch, Page, AtHome,          \* of LiveTracking
  MaxCalls, MaxRows                                \* of EmergencyCalls

VARIABLES
  part,   \* the component at work
  lock, cycle, offer, journal, tried, crashes,
  search, offers, request, locker, overlaid,
  version, gone, replica, redis, up, fallback, reading,
  owner, changes, ago, identity, session,
  alert, spent, events, alerted, sweep, edit, edited, died,
  tokens, phone, notes, jobs, writing, on, rang, late,
  talk, chat, listing,
  query, enabled, answering, heard, mixed,
  reachable, counter, ages, attempt, quiet, failed, lost,
  stroll, tracker, rows, posting, tutor, shared, shown,
  custody, phones, calls, press

\* The tasks of the scheduler share nothing but the lock: with offers alone, and with walks
\* and pushes alone.
Reminding  == INSTANCE Scheduler WITH
  Workers <- Handlers, Walks <- {}, Pushes <- {}, MaxSignals <- 0
Recovering == INSTANCE Scheduler WITH Workers <- Handlers, Offers <- {}, Pushes <- Notices
Races      == INSTANCE OfferRaces WITH walk <- search, crossed <- overlaid
Config     == INSTANCE ConfigCache
Scope      == INSTANCE TenantScope WITH Default <- Home, Patience <- Slowness
Cost       == INSTANCE CostAlerts WITH
  Handlers <- Solo, told <- alerted, crossed <- edited, crashes <- died
Notified   == INSTANCE Inbox WITH Handlers <- Solo, desk <- writing
Chat       == INSTANCE Conversations WITH
  Handlers <- Solo, Walkers <- Talkers, walk <- talk, desk <- listing
Support    == INSTANCE SupportTickets WITH
  ticket <- query, desk <- answering, told <- heard, crossed <- mixed
Limiter    == INSTANCE RateLimiter WITH redis <- counter, up <- reachable, desk <- attempt
Tracking   == INSTANCE LiveTracking WITH
  Handlers <- Solo, walk <- stroll, phone <- tracker, desk <- posting, link <- shared
Emergency  == INSTANCE EmergencyCalls WITH walk <- custody

ASSUME RacesParameters  == Races!ParametersAssumption
ASSUME ConfigParameters == Config!ParametersAssumption
ASSUME ScopeParameters  == Scope!ParametersAssumption
ASSUME RemindParameters == Reminding!ParametersAssumption
ASSUME RecoverParameters == Recovering!ParametersAssumption
ASSUME CostParameters   == Cost!ParametersAssumption
ASSUME LimiterParameters == Limiter!ParametersAssumption
ASSUME TrackingParameters == Tracking!ParametersAssumption
ASSUME EmergencyParameters == Emergency!ParametersAssumption

OfScheduler == <<lock, cycle, offer, journal, tried, crashes>>
OfRaces     == <<search, offers, request, locker, overlaid>>
OfConfig    == <<version, gone, replica, redis, up, fallback, reading>>
OfScope     == <<owner, changes, ago, identity, session>>
OfCost      == <<alert, spent, events, alerted, sweep, edit, edited, died>>
OfNotified  == <<tokens, phone, notes, jobs, writing, on, rang, late>>
OfChat      == <<talk, chat, listing>>
OfSupport   == <<query, enabled, answering, heard, mixed>>
OfLimiter   == <<reachable, counter, ages, attempt, quiet, failed, lost>>
OfTracking  == <<stroll, tracker, rows, posting, tutor, shared, shown>>
OfEmergency == <<custody, phones, calls, press>>

vars == <<part, OfScheduler, OfRaces, OfConfig, OfScope, OfCost, OfNotified, OfChat,
          OfSupport, OfLimiter, OfTracking, OfEmergency>>

Init ==
  /\ part \in {"reminding", "recovering", "offers", "config", "scope", "cost", "inbox",
               "chat", "support", "limiter", "tracking", "emergency"}
  /\ Races!Init /\ Config!Init /\ Scope!Init /\ Cost!Init /\ Notified!Init /\ Chat!Init
  /\ Support!Init /\ Limiter!Init /\ Tracking!Init /\ Emergency!Init
  /\ IF part = "reminding" THEN Reminding!Init ELSE Recovering!Init
  \* Of the initial states those parts that rest have one.
  /\ part # "offers"    => search.walker = CHOOSE w \in Walkers : TRUE
  /\ part # "scope"     => owner = Home
  /\ part # "cost"      => alert.budget = CHOOSE b \in Budgets : TRUE
  /\ part # "inbox"     => on
  /\ part # "support"   => enabled
  /\ part # "emergency" => phones.tutor /\ phones.telephony

\* What the part p leaves as it is: all of the others.
Rest(p) ==
  /\ UNCHANGED part
  /\ p \notin {"reminding", "recovering"} => UNCHANGED OfScheduler
  /\ p # "offers"    => UNCHANGED OfRaces
  /\ p # "config"    => UNCHANGED OfConfig
  /\ p # "scope"     => UNCHANGED OfScope
  /\ p # "cost"      => UNCHANGED OfCost
  /\ p # "inbox"     => UNCHANGED OfNotified
  /\ p # "chat"      => UNCHANGED OfChat
  /\ p # "support"   => UNCHANGED OfSupport
  /\ p # "limiter"   => UNCHANGED OfLimiter
  /\ p # "tracking"  => UNCHANGED OfTracking
  /\ p # "emergency" => UNCHANGED OfEmergency

Next ==
  \/ part = "reminding" /\ Reminding!Next  /\ Rest("reminding")
  \/ part = "recovering" /\ Recovering!Next /\ Rest("recovering")
  \/ part = "offers"    /\ Races!Next      /\ Rest("offers")
  \/ part = "config"    /\ Config!Next     /\ Rest("config")
  \/ part = "scope"     /\ Scope!Next      /\ Rest("scope")
  \/ part = "cost"      /\ Cost!Next       /\ Rest("cost")
  \/ part = "inbox"     /\ Notified!Next   /\ Rest("inbox")
  \/ part = "chat"      /\ Chat!Next       /\ Rest("chat")
  \/ part = "support"   /\ Support!Next    /\ Rest("support")
  \/ part = "limiter"   /\ Limiter!Next    /\ Rest("limiter")
  \/ part = "tracking"  /\ Tracking!Next   /\ Rest("tracking")
  \/ part = "emergency" /\ Emergency!Next  /\ Rest("emergency")

Spec == Init /\ [][Next]_vars

----------------------------------------------------------------------------
\* The state of the part at work has its type.
TypeOK == /\ part = "reminding" => Reminding!TypeOK
          /\ part = "recovering" => Recovering!TypeOK
          /\ part = "offers"    => Races!TypeOK
          /\ part = "config"    => Config!TypeOK
          /\ part = "scope"     => Scope!TypeOK
          /\ part = "cost"      => Cost!TypeOK
          /\ part = "inbox"     => Notified!TypeOK
          /\ part = "chat"      => Chat!TypeOK
          /\ part = "support"   => Support!TypeOK
          /\ part = "limiter"   => Limiter!TypeOK
          /\ part = "tracking"  => Tracking!TypeOK
          /\ part = "emergency" => Emergency!TypeOK

\* Of OfferRaces: a walk and its offers tell the same.
OffersAgree == part = "offers" => Races!OffersAgree

\* Of Scheduler: reminders are paced, a walk is signalled once, a push retried once.  Of
\* CostAlerts: what was crossed is told, and once.
TasksAreDoneOnce ==
  /\ part = "reminding"  => Reminding!RemindersArePaced
  /\ part = "recovering" => Recovering!SignalledOnce /\ Recovering!RetriedOnce
  /\ part = "cost"       => Cost!AlertsAreTold

\* Of TenantScope: a transaction works under the tenant last given, and of it and of
\* ConfigCache: what is remembered is stale for no longer than its life.
TenantIsCurrent == /\ part = "scope"  => Scope!ScopeHolds /\ Scope!AnswerIsFresh
                   /\ part = "config" => Config!StaleIsBounded

\* Of Inbox, Conversations, SupportTickets, LiveTracking, EmergencyCalls and RateLimiter: a
\* push rings where it should, what is marked read was seen, an answer is told, the track is
\* followed and home is hidden, of a call both the tutor and the staff are told, and guesses
\* are bounded while who was turned away is let in again.
PeopleAreServed ==
  /\ part = "inbox"     => Notified!RingsTrue /\ Notified!LiveIsReached
  /\ part = "chat"      => Chat!ReadIsSeen
  /\ part = "support"   => Support!AnswerIsTold
  /\ part = "tracking"  => Tracking!TrackIsFollowed /\ Tracking!HomeIsHidden
  /\ part = "emergency" => Emergency!CallsAreTold
  /\ part = "limiter"   => Limiter!AttemptsAreBounded /\ Limiter!BlockEnds
=============================================================================
