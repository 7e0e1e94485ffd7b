-------------------------------- MODULE Ballot --------------------------------
(***************************************************************************)
(* What contracts/GrantWorkflow.sol promises about a decision, without its *)
(* policies, tiers, clocks and emergencies: somebody puts a paper to the   *)
(* vote, others vote for it one by one, and while it is open it is carried *)
(* with enough votes, or vetoed, for good.  GrantWorkflow implements it.   *)
(***************************************************************************)
EXTENDS Naturals, FiniteSets

CONSTANTS Paper, Voter

VARIABLES
  text,     \* text[p]: what p asks for
  author,   \* author[p]: who put p to the vote
  needs,    \* needs[p]: the votes it takes
  votes,    \* votes[p]: who voted for p
  outcome

ballotVars == <<text, author, needs, votes, outcome>>

Outcome == {"blank", "open", "carried", "vetoed"}

\* The paper p is the only one a step is about.
OthersStand(p) ==
  \A q \in Paper \ {p} :
    /\ text'[q] = text[q] /\ author'[q] = author[q] /\ needs'[q] = needs[q]
    /\ votes'[q] = votes[q] /\ outcome'[q] = outcome[q]

Settled(p) == text'[p] = text[p] /\ author'[p] = author[p] /\ needs'[p] = needs[p]

Open(p) ==
  /\ outcome[p] = "blank" /\ outcome'[p] = "open"
  /\ author'[p] \in Voter
  /\ votes'[p] = {}

Vote(p) ==
  /\ outcome[p] = "open" /\ outcome'[p] = "open"
  /\ \E v \in Voter \ (votes[p] \cup {author[p]}) : votes'[p] = votes[p] \cup {v}
  /\ Settled(p)

Carry(p) ==
  /\ outcome[p] = "open" /\ outcome'[p] = "carried"
  /\ Cardinality(votes[p]) >= needs[p]
  /\ votes'[p] = votes[p]
  /\ Settled(p)

Veto(p) ==
  /\ outcome[p] = "open" /\ outcome'[p] = "vetoed"
  /\ votes'[p] = votes[p]
  /\ Settled(p)

BallotInit ==
  /\ \A p \in Paper : outcome[p] = "blank"
  /\ \A p \in Paper : votes[p] = {}

BallotNext ==
  \E p \in Paper :
    /\ Open(p) \/ Vote(p) \/ Carry(p) \/ Veto(p)
    /\ OthersStand(p)

BallotSpec == BallotInit /\ [][BallotNext]_ballotVars
=============================================================================
