------------------------------- MODULE Office -------------------------------
(*****************************************************************************)
(* What staff, walkers and tutors settle away from any walk: the tenant's    *)
(* plan; a walker's application, certificates, network, training and         *)
(* credits; accounts, their deletion and the terms they accept; and          *)
(* complaints.  The components share no row, so a behaviour picks the one    *)
(* that works, and the states add up instead of multiplying.                 *)
(*****************************************************************************)
CONSTANTS
  Handlers, Solo,                                     \* requests at once; where one will do
  Subs, Kinds, Cap, MaxUsed, Deals,                   \* of TenantPlans
  Given, Required,                                    \* of WalkerApplication, WalkerBackground
  Tenants, Home,                                      \* of WalkerNetwork
  Manuals, Topics(_),                                 \* of WalkerTraining
  Deeds, Missions, Gain, Prize, Fine, Fee, MaxBoosts, \* of WalkerCredits
  MaxPasswords, MaxVersion, MaxCodes, MaxAttempts,    \* of Accounts
  Bases, MaxComplaints,                               \* of Complaints
  MaxTexts                                            \* of LegalTerms

VARIABLES
  part,   \* the component at work
  plan, trial, rate, used, held, tsub, moved, ticket,
  profile, verified, desk,
  cert, seal, clerk,
  link, network, demands, answer,
  manual, score, diploma, quiz,
  wallet, earns, fined, boosts, mission, metric, duty,
  user, codes, sessions, log, call,
  account, outing, recurring, purse, form,
  texts, accepted, publisher, passed, republished,
  filed, risk, filing, collided

Tenant      == INSTANCE TenantPlans
Application == INSTANCE WalkerApplication
Background  == INSTANCE WalkerBackground
Network     == INSTANCE WalkerNetwork WITH Handlers <- Solo
Training    == INSTANCE WalkerTraining
CR          == INSTANCE WalkerCredits WITH Cost <- Fee
Account     == INSTANCE Accounts
Deletion    == INSTANCE AccountDeletion
Terms       == INSTANCE LegalTerms WITH desk <- publisher, crossed <- republished
Complaint   == INSTANCE Complaints

ASSUME TenantParameters    == Tenant!ParametersAssumption
ASSUME TrainingParameters  == Training!ParametersAssumption
ASSUME CreditParameters    == CR!ParametersAssumption
ASSUME AccountParameters   == Account!ParametersAssumption
ASSUME ComplaintParameters == Complaint!ParametersAssumption
ASSUME TermsParameters     == Terms!ParametersAssumption

OfTenant      == <<plan, trial, rate, used, held, tsub, moved, ticket>>
OfApplication == <<profile, verified, desk>>
OfBackground  == <<cert, seal, clerk>>
OfNetwork     == <<link, network, demands, answer>>
OfTraining    == <<manual, score, diploma, quiz>>
OfCR          == <<wallet, earns, fined, boosts, mission, metric, duty>>
OfAccount     == <<user, codes, sessions, log, call>>
OfDeletion    == <<account, outing, recurring, purse, form>>
OfTerms       == <<texts, accepted, publisher, passed, republished>>
OfComplaint   == <<filed, risk, filing, collided>>

vars == <<part, OfTenant, OfApplication, OfBackground, OfNetwork, OfTraining, OfCR,
          OfAccount, OfDeletion, OfTerms, OfComplaint>>

Init ==
  /\ part \in {"tenant", "application", "background", "network", "training", "cr",
               "account", "deletion", "terms", "complaint"}
  /\ Tenant!Init /\ Application!Init /\ Background!Init /\ Network!Init /\ Training!Init
  /\ CR!Init /\ Account!Init /\ Deletion!Init /\ Terms!Init /\ Complaint!Init
  \* Of the initial states those parts that rest have one.
  /\ part # "training" => manual = CHOOSE v \in Manuals : TRUE
  /\ part # "deletion" => account.role = "tutor"

\* What the part p leaves as it is: all of the others.
Rest(p) ==
  /\ UNCHANGED part
  /\ p # "tenant"      => UNCHANGED OfTenant
  /\ p # "application" => UNCHANGED OfApplication
  /\ p # "background"  => UNCHANGED OfBackground
  /\ p # "network"     => UNCHANGED OfNetwork
  /\ p # "training"    => UNCHANGED OfTraining
  /\ p # "cr"          => UNCHANGED OfCR
  /\ p # "account"     => UNCHANGED OfAccount
  /\ p # "deletion"    => UNCHANGED OfDeletion
  /\ p # "terms"       => UNCHANGED OfTerms
  /\ p # "complaint"   => UNCHANGED OfComplaint

Next ==
  \/ part = "tenant"      /\ Tenant!Next      /\ Rest("tenant")
  \/ part = "application" /\ Application!Next /\ Rest("application")
  \/ part = "background"  /\ Background!Next  /\ Rest("background")
  \/ part = "network"     /\ Network!Next     /\ Rest("network")
  \/ part = "training"    /\ Training!Next    /\ Rest("training")
  \/ part = "cr"          /\ CR!Next          /\ Rest("cr")
  \/ part = "account"     /\ Account!Next     /\ Rest("account")
  \/ part = "deletion"    /\ Deletion!Next    /\ Rest("deletion")
  \/ part = "terms"       /\ Terms!Next       /\ Rest("terms")
  \/ part = "complaint"   /\ Complaint!Next   /\ Rest("complaint")

Spec == Init /\ [][Next]_vars

----------------------------------------------------------------------------
\* The state of the part at work has its type.
TypeOK == /\ part = "tenant"      => Tenant!TypeOK
          /\ part = "application" => Application!TypeOK
          /\ part = "background"  => Background!TypeOK
          /\ part = "network"     => Network!TypeOK
          /\ part = "training"    => Training!TypeOK
          /\ part = "cr"          => CR!TypeOK
          /\ part = "account"     => Account!TypeOK
          /\ part = "deletion"    => Deletion!TypeOK
          /\ part = "terms"       => Terms!TypeOK
          /\ part = "complaint"   => Complaint!TypeOK

\* Of TenantPlans: the commission is the plan's, limits are kept, and the end of a trial
\* ends what it gave.
PlanIsInForce == part = "tenant" => Tenant!PlanIsInForce

\* Of WalkerApplication: a walker works by leave of the staff.
WorksByLeave == Application!WorksByLeave

\* Of WalkerCredits: a deed is awarded once, and the wallet is the sum of its entries.  Of
\* Complaints: the risk is the sum of the complaints.
TotalsAddUp == /\ part = "cr"        => CR!WalletIsEarned
               /\ part = "complaint" => Complaint!RiskAddsUp

\* Who gets in is entitled to.  Of Accounts: a new password ends the sessions of the old
\* one, a code works once.  Of AccountDeletion: nothing is pending for a deleted person, nor
\* their address left.  Of LegalTerms: who is let through accepted the text in force.  Of
\* WalkerBackground: the seal is that of the certificates.  Of WalkerNetwork: who is in a
\* tenant's pool met what it asks for.  Of WalkerTraining: a diploma means every module
\* passed, and the other way round.
AccessIsEarned == /\ part = "account"    => Account!OldSecretsFail
                  /\ part = "deletion"   => Deletion!DeletionIsComplete
                  /\ part = "terms"      => Terms!TermsWereAccepted
                  /\ part = "background" => Background!SealIsCurrent
                  /\ part = "network"    => Network!PoolMeetsRequirements
                  /\ part = "training"   => Training!DiplomaIsEarned
=============================================================================
