------------------------------ MODULE Engagement ------------------------------
(***************************************************************************)
(* One member's reading sessions, credits, consent and profiles.           *)
(*                                                                         *)
(* Requests of the member overlap.  A row lock (SELECT ... FOR UPDATE)     *)
(* excludes other requests that ask for the same lock until the commit;    *)
(* rows read without a lock may be stale when the transaction commits.     *)
(***************************************************************************)
EXTENDS Integers, FiniteSets

CONSTANTS
  Read,          \* identifiers of reading sessions
  MemberRequest,       \* requests in flight
  Ttl,           \* 30 minutes
  MinElapsed,    \* 15 seconds
  SecondTicks,   \* clock ticks in a second: token expiry has whole seconds
  MaxClock         \* bound: time stops here

ASSUME EngagementAssumption ==
  /\ Ttl \in Nat /\ MinElapsed \in Nat /\ MinElapsed <= Ttl
  /\ SecondTicks \in Nat \ {0} /\ MaxClock \in Nat

VARIABLES
  clock,
  read,        \* read_sessions
  credited,    \* credit_ledger: QUALIFIED_READ entries, by session
  consent,     \* the current SENSITIVE_POLITICAL consent is granted
  self,        \* an active SELF_REPORTED profile exists
  behavioral,  \* an active BEHAVIORAL profile exists
  pending      \* local state of each request

engageVars == <<clock, read, credited, consent, self, behavioral, pending>>

ReadStatus == {"NONE", "CREATED", "OUTBOUND", "ELIGIBLE", "REJECTED", "EXPIRED"}
ReadRow == [status: ReadStatus, outbound: Nat, expires: Nat]
NoRow == [status |-> "NONE", outbound |-> 0, expires |-> 0]

ReadPhase == {"idle", "creating", "returning", "scoring"}
NoRequest == [phase |-> "idle", read |-> {}, at |-> 0, consent |-> FALSE]

EngageInit ==
  /\ clock = 0
  /\ read = [s \in Read |-> NoRow]
  /\ credited = [s \in Read |-> 0]
  /\ consent \in BOOLEAN
  /\ self = FALSE /\ behavioral = FALSE
  /\ pending = [r \in MemberRequest |-> NoRequest]

Holding(phases) == {r \in MemberRequest : pending[r].phase \in phases}
Locked(s) == \E r \in Holding({"returning"}) : s \in pending[r].read

\* Mutant: no lock on the user row.
UserLocked_Never == FALSE

UserLocked == Holding({"creating", "scoring"}) # {}

-----------------------------------------------------------------------------
Active(s) == read[s].status \in {"CREATED", "OUTBOUND"} /\ read[s].expires > clock

\* The user row is locked, then active sessions are looked up with a locking
\* read, which waits for returns in progress.  The expiry was computed before.
BeginRead(r, s) ==
  /\ pending[r].phase = "idle"
  /\ ~UserLocked /\ Holding({"returning"}) = {}
  /\ read[s].status = "NONE" /\ \A q \in MemberRequest : s \notin pending[q].read
  /\ ~\E a \in Read : Active(a)
  /\ pending' = [pending EXCEPT ![r] = [NoRequest EXCEPT !.phase = "creating",
                                                    !.read = {s}, !.at = clock]]
  /\ UNCHANGED <<clock, read, credited, consent, self, behavioral>>

CreateRead(r) ==
  /\ pending[r].phase = "creating"
  /\ read' = [s \in Read |->
       IF s \in pending[r].read
       THEN [NoRow EXCEPT !.status = "CREATED", !.expires = pending[r].at + Ttl]
       ELSE read[s]]
  /\ pending' = [pending EXCEPT ![r] = NoRequest]
  /\ UNCHANGED <<clock, credited, consent, self, behavioral>>

\* The signed token names its expiry in whole seconds, the row exactly: for the
\* rest of that second the token still opens the row.
TokenValid(s) == read[s].expires \div SecondTicks >= clock \div SecondTicks

\* Expiry is looked at before the status.
UseRedirect(s) ==
  /\ read[s].status # "NONE" /\ ~Locked(s) /\ TokenValid(s)
  /\ \/ /\ read[s].expires <= clock
        /\ read' = [read EXCEPT ![s].status = "EXPIRED"]
     \/ /\ read[s].expires > clock
        /\ read[s].status = "CREATED"
        /\ read' = [read EXCEPT ![s].status = "OUTBOUND", ![s].outbound = clock]
  /\ UNCHANGED <<clock, credited, consent, self, behavioral, pending>>

\* evaluate_read_eligibility: the server's clock decides.
Eligible(s) == clock - read[s].outbound \in MinElapsed .. Ttl

Settle(s, status) ==
  /\ read' = [read EXCEPT ![s].status = status]
  /\ UNCHANGED <<clock, credited, consent, self, behavioral, pending>>

Settled == {"RETURNED", "ELIGIBLE", "REJECTED"}

\* A return that earns nothing commits at once.
ReturnIdle(s) ==
  /\ read[s].status \notin {"NONE"} \cup Settled /\ ~Locked(s)
  /\ \/ read[s].expires <= clock /\ Settle(s, "EXPIRED")
     \/ /\ read[s].expires > clock /\ read[s].status = "OUTBOUND" /\ ~Eligible(s)
        /\ Settle(s, "REJECTED")

\* Mutant: an earlier outcome does not stop a second return.
MayReturn_Again(s) == read[s].status \in {"OUTBOUND"} \cup Settled

MayReturn(s) == read[s].status = "OUTBOUND"

\* A return that earns credit holds the session row while it reads the consent.
ReturnEligible(r, s) ==
  /\ pending[r].phase = "idle"
  /\ MayReturn(s) /\ ~Locked(s)
  /\ read[s].expires > clock /\ Eligible(s)
  /\ pending' = [pending EXCEPT ![r] = [phase |-> "returning", read |-> {s},
                                        at |-> clock, consent |-> consent]]
  /\ UNCHANGED <<clock, read, credited, consent, self, behavioral>>

PostCredit(r) ==
  LET mine == pending[r].read IN
  /\ pending[r].phase = "returning"
  /\ read' = [s \in Read |-> IF s \in mine THEN [read[s] EXCEPT !.status = "ELIGIBLE"]
                                           ELSE read[s]]
  /\ credited' = [s \in Read |-> IF s \in mine THEN credited[s] + 1 ELSE credited[s]]
  /\ behavioral' = (behavioral \/ pending[r].consent)
  /\ pending' = [pending EXCEPT ![r] = NoRequest]
  /\ UNCHANGED <<clock, consent, self>>

-----------------------------------------------------------------------------
\* Withdrawing deactivates the profiles that are committed by then.
SetConsent(granted) ==
  /\ consent' = granted
  /\ self' = (self /\ granted)
  /\ behavioral' = (behavioral /\ granted)
  /\ UNCHANGED <<clock, read, credited, pending>>

\* A questionnaire locks the user row and reads the consent before it scores.
BeginQuestionnaire(r) ==
  /\ pending[r].phase = "idle"
  /\ ~UserLocked
  /\ consent
  /\ pending' = [pending EXCEPT ![r] = [NoRequest EXCEPT !.phase = "scoring",
                                                    !.consent = TRUE]]
  /\ UNCHANGED <<clock, read, credited, consent, self, behavioral>>

SaveProfile(r) ==
  /\ pending[r].phase = "scoring"
  /\ self' = TRUE
  /\ pending' = [pending EXCEPT ![r] = NoRequest]
  /\ UNCHANGED <<clock, read, credited, consent, behavioral>>

\* An error rolls the open transaction back and releases its locks.
DropRequest(r) ==
  /\ pending[r].phase # "idle"
  /\ pending' = [pending EXCEPT ![r] = NoRequest]
  /\ UNCHANGED <<clock, read, credited, consent, self, behavioral>>

\* Time stops at the bound.
ClockTick ==
  /\ clock' = IF clock < MaxClock THEN clock + 1 ELSE clock
  /\ UNCHANGED <<read, credited, consent, self, behavioral, pending>>

EngageNext ==
  \/ \E r \in MemberRequest :
       \/ CreateRead(r) \/ PostCredit(r) \/ BeginQuestionnaire(r) \/ SaveProfile(r)
       \/ DropRequest(r)
       \/ \E s \in Read : BeginRead(r, s) \/ ReturnEligible(r, s)
  \/ \E s \in Read : UseRedirect(s) \/ ReturnIdle(s)
  \/ \E granted \in BOOLEAN : SetConsent(granted)
  \/ ClockTick

EngageSpec == EngageInit /\ [][EngageNext]_engageVars

-----------------------------------------------------------------------------
EngageTypeOK ==
  /\ clock \in 0 .. MaxClock
  /\ read \in [Read -> ReadRow]
  /\ credited \in [Read -> Nat]
  /\ consent \in BOOLEAN /\ self \in BOOLEAN /\ behavioral \in BOOLEAN
  /\ pending \in [MemberRequest -> [phase: ReadPhase, read: SUBSET Read, at: Nat,
                                    consent: BOOLEAN]]

\* Concurrent requests never give a member two sessions that are both usable
\* (create_read_session_row serializes on the user row).
OneActiveRead == Cardinality({s \in Read : Active(s)}) <= 1

\* The ledger and the sessions agree: every qualified read was credited exactly
\* once, and a credit belongs to a session that was qualified.
CreditMatchesRead ==
  \A s \in Read : /\ read[s].status = "ELIGIBLE" => credited[s] = 1
                  /\ credited[s] > 0 => /\ credited[s] = 1
                                        /\ read[s].status \in {"ELIGIBLE", "EXPIRED"}

\* Credits cannot be earned faster than reading takes, whatever the order of
\* requests: the qualified intervals of a member do not overlap.
PacedCredits == Cardinality({s \in Read : credited[s] > 0}) * MinElapsed <= clock

\* A qualified read stays qualified as long as its session lasts: no replayed
\* link or return takes it back.  (In the rest of the second in which the
\* session expires a replayed link turns it into EXPIRED, see TokenValid.)
QualifiedStays ==
  [][\A s \in Read : read[s].status = "ELIGIBLE" /\ clock < read[s].expires
       => read'[s].status = "ELIGIBLE"]_engageVars
=============================================================================
