------------------------------ MODULE MCMembers ------------------------------
(***************************************************************************)
(* Small instances of SignIn and Engagement for TLC; a behaviour is of one  *)
(* of them.  In SignIn it is about members and their deletion, or about     *)
(* challenges whose rows administrators and workers get at as well; members *)
(* that callbacks create and the accounts that need no identity (adminis-   *)
(* trators, the demonstration member) share only the challenge rows, so a   *)
(* behaviour has one kind.  Engagement's requests and reads are named like  *)
(* SignIn's requests and states.                                            *)
(***************************************************************************)
EXTENDS SignIn, Engagement, TLC

CONSTANT MaxReopen     \* bound: retries of one challenge

VARIABLE about

Symmetry == Permutations(State) \cup Permutations(Request) \cup Permutations(User)
              \cup Permutations(Token) \cup Permutations(Admin)

OneKind ==
  /\ \/ \A u \in Admin \cup {Demo} : user[u] = "NONE"
     \/ \A u \in User : origin[u] = NoSubject
  /\ about = "members" => now < MaxNow /\ \A s \in State : reopened[s] = 0
  /\ about = "challenges" =>
       /\ \A s \in State : reopened[s] <= MaxReopen
       /\ \A u \in Admin \cup {Demo} : user[u] = "NONE"
       /\ \A u \in Account : user[u] \in {"NONE", "ACTIVE"}

MCInit == Init /\ EngageInit /\ about \in {"members", "challenges", "reading"}
          /\ (about # "reading" => consent)
MCNext ==
  /\ UNCHANGED about
  /\ \/ about # "reading" /\ Next /\ OneKind' /\ UNCHANGED engageVars
     \/ about = "reading" /\ EngageNext /\ UNCHANGED vars
     \/ about = "members" /\ UNCHANGED <<vars, engageVars>>     \* time stops earlier
MCSpec == MCInit /\ [][MCNext]_<<vars, engageVars, about>>
=============================================================================
