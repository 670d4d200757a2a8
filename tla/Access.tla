------------------------------- MODULE Access -------------------------------
(***************************************************************************)
(* Who may read and write what: config.go (Bootstrap, IssueCapability,     *)
(* RotateIssuerCredential, RevokeGrant, authorize) and the data plane of   *)
(* dataplane.go (Remember, Recall, GetReceiptStatus) as far as it depends  *)
(* on that.                                                                *)
(*                                                                         *)
(* Text is abstracted to where it may come from.  The origins of a receipt *)
(* are the partitions (Space and LabelSet) whose contents its text may     *)
(* repeat: its own, and those of everything the writing session had been   *)
(* answered.  A session is a capability, and a query matches every receipt *)
(* it may, the worst case for what a session learns.  Records derive from  *)
(* receipts of their own partition (module Forgetting) and add no origin.  *)
(***************************************************************************)
EXTENDS Integers

CONSTANTS
    Realms, Identities, Spaces, Views, Grants, Principals, Actors, LabelSets,
    Receipts,          \* identities that Remember draws
    Capabilities,      \* tokens that IssueCapability draws
    Requests,          \* Bootstrap requests the owner sends
    OperationSets,     \* operations asked for
    Lifetimes,         \* TTLs asked for
    MaxTime,           \* bound: the clock
    MaxRotations,      \* bound: rotations of an issuer credential
    None

Operations == {"remember", "recall", "receipt_status"}
Audiences == {"private", "shared"}

(* The rows of a topology; a Space is private or shared as an audience is.  *)
SpaceType == [realm : Realms, identity : Identities \union {None}, class : Audiences]
ViewType == [realm : Realms, reads : SUBSET Spaces, write : Spaces \union {None},
             class : Audiences, version : Nat]
GrantType == [principal : Principals, actor : Actors, view : Views, audiences : SUBSET Audiences,
              operations : SUBSET Operations, expires : Nat, revoked : BOOLEAN]

ASSUME AccessAssumption ==
    /\ MaxTime \in Nat /\ MaxRotations \in Nat /\ Lifetimes \subseteq Nat \ {0}
    /\ None \notin Realms \union Identities \union Spaces \union Views \union Grants
    /\ None \notin SpaceType /\ None \notin ViewType /\ None \notin GrantType
    /\ \A O \in OperationSets : O \subseteq Operations

ASSUME RequestsAssumption ==
    \A q \in Requests :
        /\ DOMAIN q.spaces \subseteq Spaces /\ \A s \in DOMAIN q.spaces : q.spaces[s] \in SpaceType
        /\ DOMAIN q.views \subseteq Views /\ \A v \in DOMAIN q.views : q.views[v] \in ViewType
        /\ DOMAIN q.grants \subseteq Grants /\ \A g \in DOMAIN q.grants : q.grants[g] \in GrantType

VARIABLES
    now,          \* s.now()
    realms, identities, spaces, views, grants,   \* the tables of those names
    issuers,      \* issuer_credentials: the number of the current credential
    capabilities, \* with their operations; seen is the history of answers
    receipts      \* with their consistency_cursors

accessVars == <<now, realms, identities, spaces, views, grants, issuers, capabilities, receipts>>
Topology == <<realms, identities, spaces, views, grants>>

AccessInit ==
    /\ now = 0
    /\ realms = {} /\ identities = {}
    /\ spaces = [s \in Spaces |-> None]
    /\ views = [v \in Views |-> None]
    /\ grants = [g \in Grants |-> None]
    /\ issuers = [p \in Principals |-> None]
    /\ capabilities = [c \in Capabilities |-> None]
    /\ receipts = [r \in Receipts |-> None]

-----------------------------------------------------------------------------
(* Bootstrap: one transaction that inserts a whole topology or nothing *)

Known(table, id) == table[id] # None
Inserted(table, rows) == [id \in DOMAIN table |-> IF id \in DOMAIN rows THEN rows[id] ELSE table[id]]

ValidateSpace(space, R, I) ==
    /\ space.realm \in R
    /\ space.class = "private" => <<space.identity, space.realm>> \in I
    /\ space.class = "shared" => space.identity = None

(* Mutant: the class of what a View writes stands for what it reads. *)
MostRestrictiveWritten(view, S) ==
    IF view.write = None THEN "shared" ELSE S[view.write].class

MostRestrictive(view, S) ==
    IF \E s \in view.reads : S[s].class = "private" THEN "private" ELSE "shared"

CreateView(view, S) ==
    /\ view.reads # {}
    /\ \A s \in view.reads : Known(S, s) /\ S[s].realm = view.realm
    /\ view.write # None => view.write \in view.reads
    /\ view.class = MostRestrictive(view, S)

CreateGrant(grant, S, V) ==
    /\ grant.expires > now /\ grant.operations # {} /\ grant.audiences # {}
    /\ Known(V, grant.view)
    /\ "shared" \in grant.audiences => V[grant.view].class = "shared"
    /\ "private" \in grant.audiences /\ "remember" \in grant.operations =>
          V[grant.view].write # None /\ S[V[grant.view].write].class = "private"

(* What the transaction leaves if nothing in it fails. *)
Populate(q) ==
    LET R == realms \union q.realms
        I == identities \union q.identities
        S == Inserted(spaces, q.spaces)
        V == Inserted(views, q.views)
    IN  /\ \A i \in q.identities : i[2] \in R
        /\ \A s \in DOMAIN q.spaces : ValidateSpace(q.spaces[s], R, I)
        /\ \A v \in DOMAIN q.views : CreateView(q.views[v], S)
        /\ \A g \in DOMAIN q.grants : CreateGrant(q.grants[g], S, V)
        /\ realms' = R /\ identities' = I /\ spaces' = S /\ views' = V
        /\ grants' = Inserted(grants, q.grants)
        /\ issuers' = [p \in Principals |-> IF p \in q.issuers THEN 0 ELSE issuers[p]]

(* Mutant: a row that exists is replaced. *)
BootstrapReplacing(q) ==
    /\ Populate(q)
    /\ UNCHANGED <<now, capabilities, receipts>>

(* Every INSERT is of a new key. *)
Bootstrap(q) ==
    /\ q.realms \intersect realms = {}
    /\ \A i \in q.identities, j \in identities : i[1] # j[1]
    /\ \A s \in DOMAIN q.spaces : ~Known(spaces, s)
    /\ \A v \in DOMAIN q.views : ~Known(views, v)
    /\ \A g \in DOMAIN q.grants : ~Known(grants, g)
    /\ \A p \in q.issuers : ~Known(issuers, p)
    /\ Populate(q)
    /\ UNCHANGED <<now, capabilities, receipts>>

-----------------------------------------------------------------------------
(* Delegation *)

(* A principal is authenticated by its current credential. *)
ValidateCapabilityAuthority(p, credential, g, actor, audience, operations) ==
    /\ Known(issuers, p) /\ credential = issuers[p]
    /\ Known(grants, g)
    /\ ~grants[g].revoked /\ grants[g].expires > now /\ grants[g].principal = p
    /\ actor = grants[g].actor
    /\ audience \in grants[g].audiences
    /\ operations # {} /\ operations \subseteq grants[g].operations

Earlier(t, u) == IF t < u THEN t ELSE u

IssueCapability(c, p, credential, g, actor, audience, operations, labels, ttl) ==
    /\ ~Known(capabilities, c)
    /\ ValidateCapabilityAuthority(p, credential, g, actor, audience, operations)
    /\ capabilities' = [capabilities EXCEPT ![c] =
          [grant |-> g, principal |-> p, version |-> views[grants[g].view].version,
           actor |-> actor, audience |-> audience, operations |-> operations, labels |-> labels,
           expires |-> Earlier(now + ttl, grants[g].expires), seen |-> {}]]
    /\ UNCHANGED <<now, Topology, issuers, receipts>>

RotateIssuerCredential(p) ==
    /\ Known(issuers, p) /\ issuers[p] < MaxRotations
    /\ issuers' = [issuers EXCEPT ![p] = @ + 1]
    /\ UNCHANGED <<now, Topology, capabilities, receipts>>

RevokeGrant(g) ==
    /\ Known(grants, g)
    /\ grants' = [grants EXCEPT ![g].revoked = TRUE]
    /\ UNCHANGED <<now, realms, identities, spaces, views, issuers, capabilities, receipts>>

ViewOf(c) == views[grants[capabilities[c].grant].view]

(* The capability and, again, the Grant behind it have to allow the call. *)
Authorize(c, actor, audience, operation) ==
    /\ Known(capabilities, c)
    /\ LET capability == capabilities[c]
           grant == grants[capability.grant]
           view == ViewOf(c)
       IN  /\ capability.expires > now
           /\ ~grant.revoked /\ grant.expires > now /\ capability.principal = grant.principal
           /\ actor = capability.actor /\ actor = grant.actor
           /\ audience = capability.audience /\ audience \in grant.audiences
           /\ operation \in capability.operations \intersect grant.operations
           /\ view.version = capability.version
           /\ ~(audience = "shared" /\ view.class = "private")
           /\ operation = "remember" /\ audience = "private" =>
                 view.write # None /\ spaces[view.write].class = "private"

-----------------------------------------------------------------------------
(* The data plane *)

Readable(c, r) ==
    /\ Known(receipts, r)
    /\ receipts[r].space \in ViewOf(c).reads /\ receipts[r].labels = capabilities[c].labels

Learns(c, origins) == capabilities' = [capabilities EXCEPT ![c].seen = @ \union origins]

(* A new effect; retries and deleted effects are module Ingestion's.  The   *)
(* receipt falls into the View's write Space under the capability's labels. *)
Remember(c, actor, audience, r) ==
    /\ Authorize(c, actor, audience, "remember")
    /\ ViewOf(c).write # None /\ ~Known(receipts, r)
    /\ receipts' = [receipts EXCEPT ![r] =
          [space |-> ViewOf(c).write, labels |-> capabilities[c].labels,
           origins |-> {<<ViewOf(c).write, capabilities[c].labels>>} \union capabilities[c].seen]]
    /\ UNCHANGED <<now, Topology, issuers, capabilities>>

(* With or without a consistency token, whose partition must be readable    *)
(* too; tokens of other generations are module Restore's.                   *)
Recall(c, actor, audience, token) ==
    /\ Authorize(c, actor, audience, "recall")
    /\ token # None => Readable(c, token)
    /\ Learns(c, UNION {receipts[r].origins : r \in {r \in Receipts : Readable(c, r)}})
    /\ UNCHANGED <<now, Topology, issuers, receipts>>

(* The state of a receipt tells that its partition holds it. *)
GetReceiptStatus(c, actor, audience, r) ==
    /\ Authorize(c, actor, audience, "receipt_status")
    /\ Readable(c, r)
    /\ Learns(c, {<<receipts[r].space, receipts[r].labels>>})
    /\ UNCHANGED <<now, Topology, issuers, receipts>>

TimePasses ==
    /\ now < MaxTime
    /\ now' = now + 1
    /\ UNCHANGED <<Topology, issuers, capabilities, receipts>>

-----------------------------------------------------------------------------
Manage ==
    \/ \E g \in Grants : RevokeGrant(g)
    \/ \E p \in Principals : RotateIssuerCredential(p)

Delegate ==
    \E c \in Capabilities, p \in Principals, g \in Grants, actor \in Actors, audience \in Audiences,
       operations \in OperationSets, labels \in LabelSets, ttl \in Lifetimes :
       \E credential \in 0..MaxRotations :
          IssueCapability(c, p, credential, g, actor, audience, operations, labels, ttl)

Call ==
    \E c \in Capabilities, actor \in Actors, audience \in Audiences :
        \/ \E r \in Receipts : \/ Remember(c, actor, audience, r)
                               \/ GetReceiptStatus(c, actor, audience, r)
        \/ \E token \in Receipts \union {None} : Recall(c, actor, audience, token)

Serve == Manage \/ Delegate \/ Call \/ TimePasses
AccessNext == (\E q \in Requests : Bootstrap(q)) \/ Serve

AccessSpec == AccessInit /\ [][AccessNext]_accessVars

-----------------------------------------------------------------------------
Private(o) == spaces[o[1]].class = "private"

(* What may hold or be told of a partition: one of the same Realm and       *)
(* LabelSet, and for a private Space one that is private itself.            *)
Confined(origins, realm, labels, class) ==
    \A o \in origins : /\ spaces[o[1]].realm = realm /\ o[2] = labels
                       /\ Private(o) => class = "private"

(* Contents never leave their Realm, their LabelSet, or, once they are in a *)
(* private Space, the sessions of private audience: not by one answer, and  *)
(* not by any chain of answers that sessions remember elsewhere.  createView*)
(* and createGrant refuse the topologies that would let them, and authorize *)
(* lets a private session write only where no shared one reads.             *)
NothingCrosses ==
    /\ \A c \in Capabilities : Known(capabilities, c) =>
          Confined(capabilities[c].seen, ViewOf(c).realm, capabilities[c].labels,
                   capabilities[c].audience)
    /\ \A r \in Receipts : Known(receipts, r) =>
          Confined(receipts[r].origins, spaces[receipts[r].space].realm, receipts[r].labels,
                   spaces[receipts[r].space].class)

(* "RevokeGrant durably invalidates all capabilities derived from one       *)
(* Grant" (config.go:469), and expiry is as final: a call that has been     *)
(* refused to a capability is never allowed to it again, whatever else the  *)
(* owner bootstraps, issues or rotates.                                     *)
AuthorityNeverReturns ==
    [][\A c \in Capabilities, actor \in Actors, audience \in Audiences, operation \in Operations :
          Known(capabilities, c) /\ Authorize(c, actor, audience, operation)' =>
              Authorize(c, actor, audience, operation)]_accessVars
=============================================================================
