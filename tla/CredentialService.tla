------------------------- MODULE CredentialService -------------------------
(***************************************************************************)
(* What the platform promises the agents of an organization about          *)
(* enrollment tokens and the credentials they are exchanged for, whatever  *)
(* the operators do meanwhile: the abstract specification of Connector,    *)
(* and the platform that ConnectorAgent works with.                        *)
(*                                                                         *)
(* A token yields one credential, so a credential goes by its token.       *)
(***************************************************************************)
CONSTANT Name   \* tokens

VARIABLES
  token,       \* how far each token has come
  accepted     \* the credentials that authenticate a call

service == <<token, accepted>>

TokenState == {"new", "open", "consumed", "issued", "closed"}

ServiceInit ==
  /\ token = [t \in Name |-> "new"]
  /\ accepted = {}

Open == {t \in Name : token[t] = "open"}
Moves(t, from, to) == token[t] = from /\ token' = [token EXCEPT ![t] = to]

\* Credentials are refused that were accepted.
Refuse == accepted' \in SUBSET accepted

\* An operator creates a connector or rotates one: a token is open, and the credentials
\* of the connector are refused.  One that comes late, or whose connector was revoked
\* meanwhile, is closed from the start.
Offer(t) == (Moves(t, "new", "open") \/ Moves(t, "new", "closed")) /\ Refuse

\* Rotation, revocation and time close tokens; revocation refuses credentials.
Close(S) ==
  /\ token' = [t \in Name |-> IF t \in S THEN "closed" ELSE token[t]]
  /\ Refuse

\* An agent presents a token.
Consume(t) == Moves(t, "open", "consumed") /\ UNCHANGED accepted

\* Its credential is stored, in place of another one; of a connector revoked meanwhile
\* it is refused at once.
Issue(t) == Moves(t, "consumed", "issued") /\ accepted' \in SUBSET (accepted \cup {t})

\* The handler fails before it stores a credential.
Abandon(t) == Moves(t, "consumed", "closed") /\ UNCHANGED accepted

ServiceNext ==
  \/ \E t \in Name : Offer(t) \/ Consume(t) \/ Issue(t) \/ Abandon(t)
  \/ \E S \in SUBSET Open : Close(S)

\* A step that leaves token and accepted alone is a stutter, which TLC sees first.
ServiceSpec == ServiceInit /\ [][service' # service /\ ServiceNext]_service
=============================================================================
