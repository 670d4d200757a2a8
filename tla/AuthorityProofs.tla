-------------------------- MODULE AuthorityProofs ---------------------------
(***************************************************************************)
(* What lets a caller in.  No content crosses a Realm, a LabelSet or the   *)
(* private boundary, for every topology that Bootstrap accepts and any     *)
(* number of sessions, and no capability regains a call that was once      *)
(* refused to it.  The management credential survives every stop that finds*)
(* its digest settled, and a token that was replaced never opens the Store *)
(* again, for any number of rotations.                                     *)
(***************************************************************************)
EXTENDS Credentials, Access, TLAPS

Partitions == Spaces \X LabelSets
CapabilityType ==
    [grant : Grants, principal : Principals, version : Nat, actor : Actors, audience : Audiences,
     operations : SUBSET Operations, labels : LabelSets, expires : Nat, seen : SUBSET Partitions]
ReceiptType == [space : Spaces, labels : LabelSets, origins : SUBSET Partitions]

AccessTypes ==
    /\ now \in Nat
    /\ spaces \in [Spaces -> SpaceType \union {None}]
    /\ views \in [Views -> ViewType \union {None}]
    /\ grants \in [Grants -> GrantType \union {None}]
    /\ capabilities \in [Capabilities -> CapabilityType \union {None}]
    /\ receipts \in [Receipts -> ReceiptType \union {None}]

(* Every View stored is one createView accepts, every Grant is for a View   *)
(* and every capability for a Grant that are there.                         *)
Wellformed ==
    /\ \A v \in Views : Known(views, v) => CreateView(views[v], spaces)
    /\ \A g \in Grants : Known(grants, g) => Known(views, grants[g].view)
    /\ \A c \in Capabilities : Known(capabilities, c) => Known(grants, capabilities[c].grant)

(* What is in a text comes from Spaces that are there. *)
Grounded(origins) == \A o \in origins : Known(spaces, o[1])
AllGrounded ==
    /\ \A c \in Capabilities : Known(capabilities, c) => Grounded(capabilities[c].seen)
    /\ \A r \in Receipts : Known(receipts, r) =>
          Known(spaces, receipts[r].space) /\ Grounded(receipts[r].origins)

AccessInv == AccessTypes /\ Wellformed /\ AllGrounded /\ NothingCrosses

-----------------------------------------------------------------------------
(* Rows stay: a step changes no Space and no View that is there, and of a   *)
(* Grant only whether it is revoked.                                        *)
RowsStay ==
    /\ \A s \in Spaces : Known(spaces, s) => spaces'[s] = spaces[s]
    /\ \A v \in Views : Known(views, v) => views'[v] = views[v]
    /\ \A g \in Grants : Known(grants, g) => Known(grants', g) /\ grants'[g].view = grants[g].view

(* The topology as it should be after a step. *)
SoundTopology ==
    /\ spaces' \in [Spaces -> SpaceType \union {None}]
    /\ views' \in [Views -> ViewType \union {None}]
    /\ grants' \in [Grants -> GrantType \union {None}]
    /\ \A v \in Views : Known(views', v) => CreateView(views'[v], spaces')
    /\ \A g \in Grants : Known(grants', g) => Known(views', grants'[g].view)

LEMMA BootstrapSound ==
    ASSUME AccessInv, NEW q \in Requests, Bootstrap(q)
    PROVE  RowsStay /\ SoundTopology
  <1>1. /\ spaces' = Inserted(spaces, q.spaces) /\ views' = Inserted(views, q.views)
        /\ grants' = Inserted(grants, q.grants)
        /\ \A s \in DOMAIN q.spaces : ~Known(spaces, s)
        /\ \A v \in DOMAIN q.views : ~Known(views, v)
        /\ \A g \in DOMAIN q.grants : ~Known(grants, g)
        /\ \A v \in DOMAIN q.views : CreateView(q.views[v], spaces')
        /\ \A g \in DOMAIN q.grants : Known(views', q.grants[g].view)
    BY DEF Bootstrap, Populate, CreateGrant
  <1>2. /\ \A s \in DOMAIN q.spaces : q.spaces[s] \in SpaceType
        /\ \A v \in DOMAIN q.views : q.views[v] \in ViewType
        /\ \A g \in DOMAIN q.grants : q.grants[g] \in GrantType
    BY RequestsAssumption
  <1>3. /\ spaces \in [Spaces -> SpaceType \union {None}]
        /\ views \in [Views -> ViewType \union {None}]
        /\ grants \in [Grants -> GrantType \union {None}]
    BY DEF AccessInv, AccessTypes
  <1>4. /\ spaces' = [s \in Spaces |-> IF s \in DOMAIN q.spaces THEN q.spaces[s] ELSE spaces[s]]
        /\ views' = [v \in Views |-> IF v \in DOMAIN q.views THEN q.views[v] ELSE views[v]]
        /\ grants' = [g \in Grants |-> IF g \in DOMAIN q.grants THEN q.grants[g] ELSE grants[g]]
    BY <1>1, <1>3 DEF Inserted
  <1>5. /\ spaces' \in [Spaces -> SpaceType \union {None}]
        /\ views' \in [Views -> ViewType \union {None}]
        /\ grants' \in [Grants -> GrantType \union {None}]
    BY <1>2, <1>3, <1>4
  <1>6. RowsStay
    BY <1>1, <1>4 DEF RowsStay, Known
  <1>7. ASSUME NEW v \in Views, Known(views', v)
        PROVE  CreateView(views'[v], spaces')
    <2>1. CASE v \in DOMAIN q.views
      BY <1>1, <1>4, <2>1
    <2>2. CASE v \notin DOMAIN q.views
      <3>1. views'[v] = views[v] /\ Known(views, v)
        BY <1>4, <1>7, <2>2 DEF Known
      <3>2. CreateView(views[v], spaces) /\ views[v] \in ViewType
        BY <1>3, <3>1 DEF AccessInv, Wellformed, Known
      <3>3. \A s \in views[v].reads : s \in Spaces /\ spaces'[s] = spaces[s]
        BY <1>6, <3>2 DEF CreateView, RowsStay, ViewType
      <3> QED  BY <3>1, <3>2, <3>3 DEF CreateView, MostRestrictive, Known
    <2> QED  BY <2>1, <2>2
  <1>8. ASSUME NEW g \in Grants, Known(grants', g)
        PROVE  Known(views', grants'[g].view)
    <2>1. CASE g \in DOMAIN q.grants
      BY <1>1, <1>4, <2>1
    <2>2. CASE g \notin DOMAIN q.grants
      <3>1. grants'[g] = grants[g] /\ Known(grants, g)
        BY <1>4, <1>8, <2>2 DEF Known
      <3>2. Known(views, grants[g].view) /\ grants[g].view \in Views
        BY <1>3, <3>1 DEF AccessInv, Wellformed, Known, GrantType
      <3> QED  BY <1>6, <3>1, <3>2 DEF RowsStay, Known
    <2> QED  BY <2>1, <2>2
  <1> QED  BY <1>5, <1>6, <1>7, <1>8 DEF SoundTopology

LEMMA RevokeSound ==
    ASSUME AccessInv, NEW g \in Grants, RevokeGrant(g)
    PROVE  RowsStay /\ SoundTopology
  <1>1. /\ grants \in [Grants -> GrantType \union {None}] /\ grants[g] \in GrantType
        /\ UNCHANGED <<spaces, views>> /\ grants' = [grants EXCEPT ![g].revoked = TRUE]
    BY DEF AccessInv, AccessTypes, RevokeGrant, Known
  <1>2. grants'[g] \in GrantType /\ grants'[g].view = grants[g].view
    BY <1>1, Zenon DEF GrantType
  <1>3. \A h \in Grants : h # g => grants'[h] = grants[h]
    BY <1>1
  <1>4. grants' \in [Grants -> GrantType \union {None}]
    BY <1>1, <1>2
  <1>5. RowsStay
    BY <1>1, <1>2, <1>3, AccessAssumption, Zenon DEF RowsStay, Known
  <1>6. \A h \in Grants : Known(grants', h) => Known(grants, h) /\ grants'[h].view = grants[h].view
    BY <1>1, <1>2, <1>3, AccessAssumption DEF Known
  <1> QED  BY <1>1, <1>4, <1>5, <1>6 DEF SoundTopology, AccessInv, AccessTypes, Wellformed, Known

LEMMA UnchangedSound ==
    ASSUME AccessInv, UNCHANGED <<spaces, views, grants>>
    PROVE  RowsStay /\ SoundTopology
  BY DEF RowsStay, SoundTopology, AccessInv, AccessTypes, Wellformed, Known

-----------------------------------------------------------------------------
(* The invariant, for one session and for one receipt. *)
SessionSafe(c) ==
    Known(capabilities, c) =>
        /\ Known(grants, capabilities[c].grant)
        /\ Grounded(capabilities[c].seen)
        /\ Confined(capabilities[c].seen, ViewOf(c).realm, capabilities[c].labels,
                    capabilities[c].audience)

ReceiptSafe(r) ==
    Known(receipts, r) =>
        /\ Known(spaces, receipts[r].space)
        /\ Grounded(receipts[r].origins)
        /\ Confined(receipts[r].origins, spaces[receipts[r].space].realm, receipts[r].labels,
                    spaces[receipts[r].space].class)

LEMMA Safe ==
    AccessInv => (\A c \in Capabilities : SessionSafe(c)) /\ (\A r \in Receipts : ReceiptSafe(r))
  BY DEF AccessInv, Wellformed, AllGrounded, NothingCrosses, SessionSafe, ReceiptSafe

LEMMA Assembled ==
    ASSUME SoundTopology, now' \in Nat,
           (capabilities \in [Capabilities -> CapabilityType \union {None}])',
           (receipts \in [Receipts -> ReceiptType \union {None}])',
           \A c \in Capabilities : SessionSafe(c)',
           \A r \in Receipts : ReceiptSafe(r)'
    PROVE  AccessInv'
  BY DEF AccessInv, AccessTypes, Wellformed, AllGrounded, NothingCrosses, SessionSafe, ReceiptSafe,
         SoundTopology, Known, CreateView, MostRestrictive

(* A capability keeps its View. *)
LEMMA StaysView ==
    ASSUME AccessInv, RowsStay, NEW c \in Capabilities, Known(capabilities, c),
           capabilities'[c].grant = capabilities[c].grant
    PROVE  ViewOf(c)' = ViewOf(c) /\ Known(grants', capabilities'[c].grant)
  <1>1. capabilities[c] \in CapabilityType /\ capabilities[c].grant \in Grants
    BY DEF AccessInv, AccessTypes, Known, CapabilityType
  <1>2. /\ Known(grants, capabilities[c].grant)
        /\ Known(views, grants[capabilities[c].grant].view)
        /\ grants[capabilities[c].grant].view \in Views
    BY <1>1 DEF AccessInv, AccessTypes, Wellformed, Known, GrantType
  <1> QED  BY <1>1, <1>2 DEF RowsStay, ViewOf

(* Sessions and receipts that a step leaves alone stay safe. *)
LEMMA SessionStays ==
    ASSUME AccessInv, RowsStay, NEW c \in Capabilities, capabilities'[c] = capabilities[c]
    PROVE  SessionSafe(c)'
  <1> SUFFICES ASSUME Known(capabilities, c)
               PROVE  SessionSafe(c)'
    BY DEF SessionSafe, Known
  <1>1. SessionSafe(c) /\ capabilities[c].seen \in SUBSET Partitions
    BY Safe DEF AccessInv, AccessTypes, Known, CapabilityType
  <1>2. ViewOf(c)' = ViewOf(c) /\ Known(grants', capabilities'[c].grant)
    BY StaysView
  <1> DEFINE X == capabilities[c].seen
             realm == ViewOf(c).realm
             labels == capabilities[c].labels
             class == capabilities[c].audience
  <1>3. X \in SUBSET Partitions /\ Grounded(X) /\ Confined(X, realm, labels, class)
    BY <1>1 DEF SessionSafe
  <1>4. \A o \in X : /\ Known(spaces', o[1]) /\ spaces'[o[1]] = spaces[o[1]]
                     /\ spaces[o[1]].realm = realm /\ o[2] = labels
                     /\ spaces[o[1]].class = "private" => class = "private"
    BY <1>3 DEF Grounded, Confined, Private, Known, RowsStay, Partitions
  <1> QED  BY <1>2, <1>4 DEF SessionSafe, Grounded, Confined, Private, Known

Issued(d) ==
    ~Known(capabilities, d) /\ \E new : capabilities' = [capabilities EXCEPT ![d] = new]

LEMMA IssuesOnly ==
    ASSUME Delegate
    PROVE  UNCHANGED <<now, Topology>> /\ \E d \in Capabilities : Issued(d)
  <1>1. ASSUME NEW c, NEW p, NEW credential, NEW g, NEW actor, NEW audience, NEW operations, NEW labels,
               NEW ttl, IssueCapability(c, p, credential, g, actor, audience, operations, labels, ttl)
        PROVE  UNCHANGED <<now, Topology>> /\ Issued(c)
    BY <1>1, Zenon DEF IssueCapability, Issued
  <1> QED  BY <1>1, Zenon DEF Delegate

LEMMA ReceiptStays ==
    ASSUME AccessInv, RowsStay, NEW r \in Receipts, receipts'[r] = receipts[r]
    PROVE  ReceiptSafe(r)'
  <1> SUFFICES ASSUME Known(receipts, r)
               PROVE  ReceiptSafe(r)'
    BY DEF ReceiptSafe, Known
  <1>1. /\ ReceiptSafe(r)
        /\ receipts[r].origins \in SUBSET Partitions /\ receipts[r].space \in Spaces
    BY Safe DEF AccessInv, AccessTypes, Known, ReceiptType
  <1>2. spaces'[receipts[r].space] = spaces[receipts[r].space]
    BY <1>1 DEF ReceiptSafe, RowsStay, Known
  <1>3. \A o \in receipts[r].origins :
           /\ Known(spaces', o[1]) /\ spaces'[o[1]] = spaces[o[1]]
           /\ spaces[o[1]].realm = spaces[receipts[r].space].realm /\ o[2] = receipts[r].labels
           /\ spaces[o[1]].class = "private" => spaces[receipts[r].space].class = "private"
    BY <1>1 DEF ReceiptSafe, Grounded, Confined, Private, Known, RowsStay, Partitions
  <1> QED  BY <1>1, <1>2, <1>3 DEF ReceiptSafe, Grounded, Confined, Private, Known

(* Steps that only change the topology, an issuer or the clock. *)
LEMMA Quiet ==
    ASSUME AccessInv, RowsStay, SoundTopology, now' \in Nat, UNCHANGED <<capabilities, receipts>>
    PROVE  AccessInv'
  <1>1. (capabilities \in [Capabilities -> CapabilityType \union {None}])'
    BY DEF AccessInv, AccessTypes
  <1>2. (receipts \in [Receipts -> ReceiptType \union {None}])'
    BY DEF AccessInv, AccessTypes
  <1>3. \A c \in Capabilities : SessionSafe(c)'
    BY SessionStays
  <1>4. \A r \in Receipts : ReceiptSafe(r)'
    BY ReceiptStays
  <1> QED  BY <1>1, <1>2, <1>3, <1>4, Assembled

-----------------------------------------------------------------------------
(* A new capability has been answered nothing. *)
LEMMA IssueKeeps ==
    ASSUME AccessInv,
           NEW c \in Capabilities, NEW p \in Principals, NEW credential, NEW g \in Grants,
           NEW actor \in Actors, NEW audience \in Audiences, NEW operations \in OperationSets,
           NEW labels \in LabelSets, NEW ttl \in Lifetimes,
           IssueCapability(c, p, credential, g, actor, audience, operations, labels, ttl)
    PROVE  AccessInv'
  <1> DEFINE row == [grant |-> g, principal |-> p, version |-> views[grants[g].view].version,
                     actor |-> actor, audience |-> audience, operations |-> operations,
                     labels |-> labels, expires |-> Earlier(now + ttl, grants[g].expires),
                     seen |-> {}]
  <1>1. /\ UNCHANGED <<now, spaces, views, grants, receipts>>
        /\ capabilities' = [capabilities EXCEPT ![c] = row] /\ Known(grants, g)
    BY DEF IssueCapability, ValidateCapabilityAuthority, Topology
  <1>2. RowsStay /\ SoundTopology
    BY <1>1, UnchangedSound
  <1>3. row \in CapabilityType
    <2>1. grants[g] \in GrantType /\ views[grants[g].view] \in ViewType
      BY <1>1 DEF AccessInv, AccessTypes, Wellformed, Known, GrantType
    <2>2. Earlier(now + ttl, grants[g].expires) \in Nat
      BY <2>1, AccessAssumption DEF AccessInv, AccessTypes, GrantType, Earlier
    <2>3. views[grants[g].view].version \in Nat
      BY <2>1 DEF ViewType
    <2> QED  BY <2>2, <2>3, AccessAssumption DEF CapabilityType
  <1>4. row.seen = {} /\ row.grant = g
    OBVIOUS
  <1> HIDE DEF row
  <1>5. (capabilities \in [Capabilities -> CapabilityType \union {None}])' /\ capabilities'[c] = row
    BY <1>1, <1>3 DEF AccessInv, AccessTypes
  <1>6. (receipts \in [Receipts -> ReceiptType \union {None}])' /\ now' \in Nat
    BY <1>1 DEF AccessInv, AccessTypes
  <1>7. SessionSafe(c)'
    BY <1>1, <1>4, <1>5 DEF SessionSafe, Grounded, Confined, Known
  <1>8. \A d \in Capabilities : SessionSafe(d)'
    <2>1. \A d \in Capabilities : d # c => capabilities'[d] = capabilities[d]
      BY <1>1
    <2> QED  BY <1>2, <1>7, <2>1, SessionStays
  <1>9. \A r \in Receipts : ReceiptSafe(r)'
    BY <1>1, <1>2, ReceiptStays
  <1> QED  BY <1>2, <1>5, <1>6, <1>8, <1>9, Assembled

(* The View of a session that is allowed a call. *)
LEMMA AllowedView ==
    ASSUME AccessInv, NEW c \in Capabilities, NEW actor, NEW audience, NEW operation,
           Authorize(c, actor, audience, operation)
    PROVE  /\ capabilities[c] \in CapabilityType /\ ViewOf(c) \in ViewType
           /\ \A s \in ViewOf(c).reads : /\ s \in Spaces /\ Known(spaces, s)
                                         /\ spaces[s].realm = ViewOf(c).realm
                                         /\ spaces[s].class = "private" =>
                                               capabilities[c].audience = "private"
           /\ ViewOf(c).write # None => ViewOf(c).write \in ViewOf(c).reads
  <1>1. Known(capabilities, c) /\ capabilities[c] \in CapabilityType
    BY DEF Authorize, Known, AccessInv, AccessTypes
  <1>2. capabilities[c].grant \in Grants /\ Known(grants, capabilities[c].grant)
    BY <1>1 DEF CapabilityType, AccessInv, Wellformed
  <1>3. /\ grants[capabilities[c].grant].view \in Views
        /\ Known(views, grants[capabilities[c].grant].view)
    BY <1>2 DEF AccessInv, AccessTypes, Wellformed, Known, GrantType
  <1>4. ViewOf(c) \in ViewType /\ CreateView(ViewOf(c), spaces)
    BY <1>3 DEF ViewOf, AccessInv, AccessTypes, Wellformed, Known
  <1>5. capabilities[c].audience \in Audiences
        /\ ~(capabilities[c].audience = "shared" /\ ViewOf(c).class = "private")
    BY <1>1 DEF Authorize, CapabilityType
  <1>6. ASSUME NEW s \in ViewOf(c).reads
        PROVE  spaces[s].class = "private" => capabilities[c].audience = "private"
    BY <1>4, <1>5 DEF CreateView, MostRestrictive, Audiences
  <1> QED  BY <1>1, <1>4, <1>6 DEF CreateView, ViewType

(* A receipt is written where all that its session saw may be. *)
LEMMA RememberKeeps ==
    ASSUME AccessInv, NEW c \in Capabilities, NEW actor, NEW audience, NEW r \in Receipts,
           Remember(c, actor, audience, r)
    PROVE  AccessInv'
  <1> DEFINE write == ViewOf(c).write
             labels == capabilities[c].labels
             seen == capabilities[c].seen
             row == [space |-> write, labels |-> labels, origins |-> {<<write, labels>>} \union seen]
  <1>1. /\ UNCHANGED <<now, spaces, views, grants, capabilities>> /\ write # None
        /\ receipts' = [receipts EXCEPT ![r] = row] /\ Authorize(c, actor, audience, "remember")
    BY DEF Remember, Topology
  <1>2. RowsStay /\ SoundTopology
    BY <1>1, UnchangedSound
  <1>3. /\ capabilities[c] \in CapabilityType /\ write \in Spaces /\ Known(spaces, write)
        /\ spaces[write].realm = ViewOf(c).realm
    <2>1. /\ capabilities[c] \in CapabilityType
          /\ \A s \in ViewOf(c).reads : /\ s \in Spaces /\ Known(spaces, s)
                                        /\ spaces[s].realm = ViewOf(c).realm
          /\ ViewOf(c).write # None => ViewOf(c).write \in ViewOf(c).reads
      BY <1>1, AllowedView
    <2> QED  BY <1>1, <2>1
  <1>4. capabilities[c].audience = "private" => spaces[write].class = "private"
    BY <1>1 DEF Authorize
  <1>5. row \in ReceiptType /\ labels \in LabelSets /\ seen \in SUBSET Partitions
    BY <1>3 DEF ReceiptType, CapabilityType, Partitions
  <1>6. SessionSafe(c) /\ Known(capabilities, c)
    BY <1>1, Safe, Zenon DEF Authorize
  <1>7. \A o \in row.origins :
           /\ Known(spaces, o[1]) /\ spaces[o[1]].realm = spaces[write].realm /\ o[2] = labels
           /\ spaces[o[1]].class = "private" => spaces[write].class = "private"
    BY <1>3, <1>4, <1>6 DEF SessionSafe, Grounded, Confined, Private
  <1>8. row.space = write /\ row.labels = labels
    OBVIOUS
  <1> HIDE DEF row
  <1>9. (receipts \in [Receipts -> ReceiptType \union {None}])' /\ receipts'[r] = row
    BY <1>1, <1>5 DEF AccessInv, AccessTypes
  <1>10. (capabilities \in [Capabilities -> CapabilityType \union {None}])' /\ now' \in Nat
    BY <1>1 DEF AccessInv, AccessTypes
  <1>11. ReceiptSafe(r)'
    BY <1>1, <1>3, <1>7, <1>8, <1>9 DEF ReceiptSafe, Grounded, Confined, Private, Known
  <1>12. \A q \in Receipts : ReceiptSafe(q)'
    <2>1. \A q \in Receipts : q # r => receipts'[q] = receipts[q]
      BY <1>1
    <2> QED  BY <1>2, <1>11, <2>1, ReceiptStays
  <1>13. \A d \in Capabilities : SessionSafe(d)'
    BY <1>1, <1>2, SessionStays
  <1> QED  BY <1>2, <1>9, <1>10, <1>12, <1>13, Assembled

(* A session may be answered what stays within its View, LabelSet and       *)
(* audience.                                                                *)
LEMMA LearnKeeps ==
    ASSUME AccessInv, NEW c \in Capabilities, NEW X \in SUBSET Partitions,
           UNCHANGED <<now, spaces, views, grants, receipts>>, Learns(c, X),
           Known(capabilities, c), Grounded(X),
           Confined(X, ViewOf(c).realm, capabilities[c].labels, capabilities[c].audience)
    PROVE  AccessInv'
  <1>1. RowsStay /\ SoundTopology
    BY UnchangedSound
  <1>2. capabilities[c] \in CapabilityType /\ SessionSafe(c)
    BY Safe DEF AccessInv, AccessTypes, Known
  <1>3. capabilities' = [capabilities EXCEPT ![c].seen = @ \union X]
    BY DEF Learns
  <1>4. /\ capabilities'[c] \in CapabilityType
        /\ capabilities'[c].seen = capabilities[c].seen \union X
        /\ capabilities'[c].grant = capabilities[c].grant
        /\ capabilities'[c].labels = capabilities[c].labels
        /\ capabilities'[c].audience = capabilities[c].audience
    BY <1>2, <1>3 DEF AccessInv, AccessTypes, CapabilityType
  <1>5. (capabilities \in [Capabilities -> CapabilityType \union {None}])'
    BY <1>3, <1>4 DEF AccessInv, AccessTypes
  <1>6. (receipts \in [Receipts -> ReceiptType \union {None}])' /\ now' \in Nat
    BY DEF AccessInv, AccessTypes
  <1>7. ViewOf(c)' = ViewOf(c) /\ Known(grants', capabilities'[c].grant)
    BY <1>1, <1>4, StaysView
  <1>8. SessionSafe(c)'
    <2>1. UNCHANGED spaces  OBVIOUS
    <2>2. PICK S : S = capabilities[c].seen \union X  BY Zenon
    <2>3. PICK realm : realm = ViewOf(c).realm  OBVIOUS
    <2>4. PICK labels : labels = capabilities[c].labels  OBVIOUS
    <2>5. PICK class : class = capabilities[c].audience  OBVIOUS
    <2>6. Grounded(S) /\ Confined(S, realm, labels, class)
      BY <1>2, <2>2, <2>3, <2>4, <2>5, Zenon DEF SessionSafe, Grounded, Confined
    <2>7. Grounded(S)' /\ Confined(S, realm, labels, class)'
      BY <2>1, <2>6, Zenon DEF Grounded, Known, Confined, Private
    <2>8. /\ capabilities'[c].seen = S /\ ViewOf(c)'.realm = realm
          /\ capabilities'[c].labels = labels /\ capabilities'[c].audience = class
      BY <1>4, <1>7, <2>2, <2>3, <2>4, <2>5, Zenon
    <2> QED  BY <1>7, <2>7, <2>8, Zenon DEF SessionSafe
  <1>9. \A d \in Capabilities : SessionSafe(d)'
    <2>1. \A d \in Capabilities : d # c => capabilities'[d] = capabilities[d]
      BY <1>3
    <2>2. ASSUME NEW d \in Capabilities, d # c PROVE SessionSafe(d)'
      BY <1>1, <2>1, <2>2, SessionStays, Zenon
    <2> QED  BY <1>8, <2>2, Zenon
  <1>10. \A r \in Receipts : ReceiptSafe(r)'
    BY <1>1, ReceiptStays
  <1> QED  BY <1>1, <1>5, <1>6, <1>9, <1>10, Assembled

(* What a readable receipt holds is within the reader's bounds. *)
LEMMA ReadableConfined ==
    ASSUME AccessInv, NEW c \in Capabilities, NEW actor, NEW audience, NEW operation,
           Authorize(c, actor, audience, operation), NEW r \in Receipts, Readable(c, r)
    PROVE  LET X == receipts[r].origins \union {<<receipts[r].space, receipts[r].labels>>}
           IN  /\ X \in SUBSET Partitions /\ Grounded(X)
               /\ Confined(X, ViewOf(c).realm, capabilities[c].labels, capabilities[c].audience)
  <1>1. receipts[r] \in ReceiptType /\ ReceiptSafe(r) /\ Known(receipts, r)
    BY Safe, Zenon DEF Readable, Known, AccessInv, AccessTypes
  <1>2. /\ receipts[r].space \in ViewOf(c).reads /\ receipts[r].labels = capabilities[c].labels
        /\ Known(spaces, receipts[r].space)
        /\ spaces[receipts[r].space].realm = ViewOf(c).realm
        /\ spaces[receipts[r].space].class = "private" => capabilities[c].audience = "private"
    <2>1. \A s \in ViewOf(c).reads : /\ s \in Spaces /\ Known(spaces, s)
                                     /\ spaces[s].realm = ViewOf(c).realm
                                     /\ spaces[s].class = "private" =>
                                           capabilities[c].audience = "private"
      BY AllowedView
    <2>2. receipts[r].space \in ViewOf(c).reads /\ receipts[r].labels = capabilities[c].labels
      BY DEF Readable
    <2> QED  BY <2>1, <2>2
  <1>3. /\ receipts[r].origins \in SUBSET Partitions
        /\ <<receipts[r].space, receipts[r].labels>> \in Partitions
    BY <1>1 DEF ReceiptType, Partitions
  <1> DEFINE X == receipts[r].origins \union {<<receipts[r].space, receipts[r].labels>>}
  <1>4. X \in SUBSET Partitions
    BY <1>3, Zenon
  <1>5. ASSUME NEW o \in X
        PROVE  /\ Known(spaces, o[1]) /\ spaces[o[1]].realm = ViewOf(c).realm
               /\ o[2] = capabilities[c].labels
               /\ spaces[o[1]].class = "private" => capabilities[c].audience = "private"
    <2>1. CASE o = <<receipts[r].space, receipts[r].labels>>
      BY <1>2, <2>1
    <2>2. CASE o \in receipts[r].origins
      <3>1. Grounded(receipts[r].origins)
            /\ Confined(receipts[r].origins, spaces[receipts[r].space].realm, receipts[r].labels,
                        spaces[receipts[r].space].class)
        BY <1>1, Zenon DEF ReceiptSafe
      <3> QED  BY <1>2, <2>2, <3>1, Zenon DEF Grounded, Confined, Private
    <2> QED  BY <2>1, <2>2
  <1>6. Grounded(X)
    BY <1>5, Zenon DEF Grounded
  <1>7. Confined(X, ViewOf(c).realm, capabilities[c].labels, capabilities[c].audience)
    BY <1>5, Zenon DEF Confined, Private
  <1> QED  BY <1>4, <1>6, <1>7, Zenon

LEMMA RecallKeeps ==
    ASSUME AccessInv, NEW c \in Capabilities, NEW actor, NEW audience, NEW token,
           Recall(c, actor, audience, token)
    PROVE  AccessInv'
  <1> DEFINE readable == {r \in Receipts : Readable(c, r)}
             X == UNION {receipts[r].origins : r \in readable}
  <1>1. /\ UNCHANGED <<now, spaces, views, grants, receipts>> /\ Learns(c, X)
        /\ Authorize(c, actor, audience, "recall") /\ Known(capabilities, c)
    BY Zenon DEF Recall, Topology, Authorize
  <1>2. ASSUME NEW r \in readable
        PROVE  /\ receipts[r].origins \in SUBSET Partitions /\ Grounded(receipts[r].origins)
               /\ Confined(receipts[r].origins, ViewOf(c).realm, capabilities[c].labels,
                           capabilities[c].audience)
    BY <1>1, ReadableConfined, Zenon DEF Grounded, Confined
  <1>3. X \in SUBSET Partitions
    BY <1>2, Zenon
  <1>4. Grounded(X)
    BY <1>2 DEF Grounded
  <1>5. Confined(X, ViewOf(c).realm, capabilities[c].labels, capabilities[c].audience)
    BY <1>2 DEF Confined
  <1> HIDE DEF X
  <1> QED  BY <1>1, <1>3, <1>4, <1>5, LearnKeeps

LEMMA StatusKeeps ==
    ASSUME AccessInv, NEW c \in Capabilities, NEW actor, NEW audience, NEW r \in Receipts,
           GetReceiptStatus(c, actor, audience, r)
    PROVE  AccessInv'
  <1> DEFINE X == {<<receipts[r].space, receipts[r].labels>>}
  <1>1. /\ UNCHANGED <<now, spaces, views, grants, receipts>> /\ Learns(c, X)
        /\ Authorize(c, actor, audience, "receipt_status") /\ Known(capabilities, c)
        /\ Readable(c, r)
    BY Zenon DEF GetReceiptStatus, Topology, Authorize
  <1>2. /\ X \in SUBSET Partitions /\ Grounded(X)
        /\ Confined(X, ViewOf(c).realm, capabilities[c].labels, capabilities[c].audience)
    BY <1>1, ReadableConfined, Zenon DEF Grounded, Confined
  <1> HIDE DEF X
  <1> QED  BY <1>1, <1>2, LearnKeeps

LEMMA AccessInvInit == AccessInit => AccessInv
  BY DEF AccessInit, AccessInv, AccessTypes, Wellformed, AllGrounded, NothingCrosses, Known

LEMMA AccessInvKept ==
    ASSUME AccessInv, [AccessNext]_accessVars
    PROVE  AccessInv'
  <1>1. ASSUME NEW q \in Requests, Bootstrap(q)
        PROVE  AccessInv'
    BY <1>1, BootstrapSound, Quiet, Zenon DEF Bootstrap, AccessInv, AccessTypes
  <1>2. CASE Manage
    <2>1. ASSUME NEW g \in Grants, RevokeGrant(g)
          PROVE  AccessInv'
      BY <2>1, RevokeSound, Quiet, Zenon DEF RevokeGrant, AccessInv, AccessTypes
    <2>2. ASSUME NEW p \in Principals, RotateIssuerCredential(p)
          PROVE  AccessInv'
      BY <2>2, UnchangedSound, Quiet DEF RotateIssuerCredential, Topology, AccessInv, AccessTypes
    <2> QED  BY <1>2, <2>1, <2>2 DEF Manage
  <1>3. CASE Delegate
    BY <1>3, IssueKeeps DEF Delegate
  <1>4. CASE Call
    BY <1>4, RememberKeeps, RecallKeeps, StatusKeeps DEF Call
  <1>5. CASE TimePasses
    BY <1>5, UnchangedSound, Quiet DEF TimePasses, Topology, AccessInv, AccessTypes
  <1>6. CASE UNCHANGED accessVars
    BY <1>6, UnchangedSound, Quiet DEF accessVars, AccessInv, AccessTypes
  <1> QED  BY <1>1, <1>2, <1>3, <1>4, <1>5, <1>6 DEF AccessNext, Serve

(* NothingCrosses of Access, for every topology Bootstrap accepts: what      *)
(* createView, createGrant and authorize test is enough to keep contents in  *)
(* their Realm and LabelSet, and private contents among private sessions,    *)
(* through any chain of answers that are remembered elsewhere.               *)
THEOREM Confinement == AccessSpec => []NothingCrosses
  <1>1. AccessInit => AccessInv
    BY AccessInvInit
  <1>2. AccessInv /\ [AccessNext]_accessVars => AccessInv'
    BY AccessInvKept
  <1>3. AccessInv => NothingCrosses
    BY DEF AccessInv
  <1> QED  BY <1>1, <1>2, <1>3, PTL DEF AccessSpec

-----------------------------------------------------------------------------
(* What a step leaves of a capability and of a Grant that are there. *)
CapabilityKept(c) ==
    LET old == capabilities[c]  new == capabilities'[c]
    IN  /\ new.grant = old.grant /\ new.principal = old.principal /\ new.version = old.version
        /\ new.actor = old.actor /\ new.audience = old.audience
        /\ new.operations = old.operations /\ new.expires = old.expires

GrantKept(g) ==
    LET old == grants[g]  new == grants'[g]
    IN  /\ new.view = old.view /\ new.principal = old.principal /\ new.actor = old.actor
        /\ new.audiences = old.audiences /\ new.operations = old.operations
        /\ new.expires = old.expires /\ (old.revoked => new.revoked)

LEMMA GrantsKept ==
    ASSUME AccessInv, [AccessNext]_accessVars, NEW g \in Grants, Known(grants, g)
    PROVE  GrantKept(g) /\ now <= now'
  <1>1. now \in Nat /\ grants \in [Grants -> GrantType \union {None}] /\ grants[g] \in GrantType
    BY DEF AccessInv, AccessTypes, Known
  <1>2. ASSUME NEW q \in Requests, Bootstrap(q)
        PROVE  GrantKept(g) /\ now <= now'
    <2>1. grants' = Inserted(grants, q.grants) /\ g \notin DOMAIN q.grants /\ now' = now
      BY <1>2, Zenon DEF Bootstrap, Populate
    <2>2. grants'[g] = grants[g]
      BY <1>1, <2>1 DEF Inserted
    <2> QED  BY <1>1, <2>1, <2>2 DEF GrantKept
  <1>3. ASSUME NEW h \in Grants, RevokeGrant(h)
        PROVE  GrantKept(g) /\ now <= now'
    <2>1. CASE h = g
      <3>1. grants'[g] = [grants[g] EXCEPT !.revoked = TRUE] /\ now' = now
        BY <1>1, <1>3, <2>1 DEF RevokeGrant
      <3> QED  BY <1>1, <3>1 DEF GrantKept, GrantType
    <2>2. CASE h # g
      BY <1>1, <1>3, <2>2 DEF RevokeGrant, GrantKept
    <2> QED  BY <2>1, <2>2
  <1>4. CASE grants' = grants /\ now' \in {now, now + 1}
    BY <1>1, <1>4 DEF GrantKept
  <1>5. CASE Manage
    <2>1. CASE \E p \in Principals : RotateIssuerCredential(p)
      <3>1. grants' = grants /\ now' = now  BY <2>1, Zenon DEF RotateIssuerCredential, Topology
      <3> QED  BY <3>1, <1>4, Zenon
    <2> QED  BY <2>1, <1>3, <1>5, Zenon DEF Manage
  <1>6. CASE Delegate
    <2>1. grants' = grants /\ now' = now
      BY <1>6, IssuesOnly, Zenon DEF Topology
    <2> QED  BY <2>1, <1>4, Zenon
  <1>7. CASE Call
    BY <1>4, <1>7, Zenon DEF Call, Remember, Recall, GetReceiptStatus, Topology
  <1>8. CASE TimePasses
    BY <1>4, <1>8 DEF TimePasses, Topology
  <1>9. CASE UNCHANGED accessVars
    BY <1>4, <1>9 DEF accessVars
  <1> QED  BY <1>2, <1>5, <1>6, <1>7, <1>8, <1>9 DEF AccessNext, Serve

LEMMA CapabilitiesKept ==
    ASSUME AccessInv, [AccessNext]_accessVars, NEW c \in Capabilities, Known(capabilities, c)
    PROVE  CapabilityKept(c)
  <1>1. /\ capabilities \in [Capabilities -> CapabilityType \union {None}]
        /\ capabilities[c] \in CapabilityType
    BY DEF AccessInv, AccessTypes, Known
  <1>2. CASE capabilities'[c] = capabilities[c]
    BY <1>2 DEF CapabilityKept
  <1>3. ASSUME NEW d \in Capabilities, NEW X, Learns(d, X)
        PROVE  CapabilityKept(c)
    <2>1. CASE d = c
      BY <1>1, <1>3, <2>1 DEF Learns, CapabilityKept, CapabilityType
    <2>2. CASE d # c
      BY <1>1, <1>2, <1>3, <2>2 DEF Learns
    <2> QED  BY <2>1, <2>2
  <1>4. ASSUME NEW q \in Requests, Bootstrap(q)
        PROVE  CapabilityKept(c)
    BY <1>2, <1>4 DEF Bootstrap
  <1>5. CASE Manage
    BY <1>2, <1>5 DEF Manage, RotateIssuerCredential, RevokeGrant
  <1>6. CASE Delegate
    <2>1. PICK d \in Capabilities : ~Known(capabilities, d)
                                   /\ \A e \in Capabilities \ {d} :
                                         capabilities'[e] = capabilities[e]
      <3>1. PICK d \in Capabilities : Issued(d)
        BY <1>6, IssuesOnly, Zenon
      <3>2. PICK new : ~Known(capabilities, d) /\ capabilities' = [capabilities EXCEPT ![d] = new]
        BY <3>1, Zenon DEF Issued
      <3> QED  BY <1>1, <3>2
    <2> QED  BY <1>2, <2>1
  <1>7. CASE Call
    <2>1. ASSUME NEW d \in Capabilities, NEW actor, NEW audience, NEW r, Remember(d, actor, audience, r)
          PROVE  CapabilityKept(c)
      BY <1>2, <2>1 DEF Remember
    <2>2. ASSUME NEW d \in Capabilities, NEW actor, NEW audience, NEW r,
                 GetReceiptStatus(d, actor, audience, r)
          PROVE  CapabilityKept(c)
      BY <1>3, <2>2 DEF GetReceiptStatus
    <2>3. ASSUME NEW d \in Capabilities, NEW actor, NEW audience, NEW token,
                 Recall(d, actor, audience, token)
          PROVE  CapabilityKept(c)
      BY <1>3, <2>3 DEF Recall
    <2> QED  BY <1>7, <2>1, <2>2, <2>3 DEF Call
  <1>8. CASE TimePasses
    BY <1>2, <1>8 DEF TimePasses
  <1>9. CASE UNCHANGED accessVars
    BY <1>2, <1>9 DEF accessVars
  <1> QED  BY <1>4, <1>5, <1>6, <1>7, <1>8, <1>9 DEF AccessNext, Serve

LEMMA RowsKept ==
    ASSUME AccessInv, [AccessNext]_accessVars
    PROVE  RowsStay
  <1>1. CASE UNCHANGED <<spaces, views, grants>>
    BY <1>1, UnchangedSound
  <1>2. CASE Manage
    <2>1. ASSUME NEW p \in Principals, RotateIssuerCredential(p)
          PROVE  RowsStay
      BY <1>1, <2>1, Zenon DEF RotateIssuerCredential, Topology
    <2> QED  BY <1>2, <2>1, RevokeSound, Zenon DEF Manage
  <1>3. CASE Delegate
    BY <1>1, <1>3, IssuesOnly, Zenon DEF Topology
  <1>4. CASE Call
    BY <1>1, <1>4, Zenon DEF Call, Remember, Recall, GetReceiptStatus, Topology
  <1>5. CASE TimePasses \/ UNCHANGED accessVars
    BY <1>1, <1>5 DEF TimePasses, Topology, accessVars
  <1> QED  BY BootstrapSound, <1>2, <1>3, <1>4, <1>5 DEF AccessNext, Serve

LEMMA NothingRegained ==
    ASSUME AccessInv, [AccessNext]_accessVars, NEW c \in Capabilities, NEW actor, NEW audience,
           NEW operation, Known(capabilities, c), Authorize(c, actor, audience, operation)'
    PROVE  Authorize(c, actor, audience, operation)
  <1> DEFINE g == capabilities[c].grant
             view == ViewOf(c)
  <1>1. capabilities[c] \in CapabilityType /\ g \in Grants /\ Known(grants, g)
    BY DEF AccessInv, AccessTypes, Wellformed, Known, CapabilityType
  <1>2. /\ grants[g] \in GrantType /\ now \in Nat
        /\ grants[g].view \in Views /\ Known(views, grants[g].view)
    BY <1>1 DEF AccessInv, AccessTypes, Wellformed, Known, GrantType
  <1>3. view \in ViewType /\ CreateView(view, spaces)
    BY <1>2, Zenon DEF AccessInv, AccessTypes, Wellformed, Known, ViewOf
  <1>4. CapabilityKept(c) /\ GrantKept(g) /\ now <= now' /\ RowsStay
    BY <1>1, CapabilitiesKept, GrantsKept, RowsKept
  <1>5. ViewOf(c)' = view /\ capabilities'[c].grant = g
    BY <1>4, StaysView, Zenon DEF CapabilityKept
  <1>6. view.write # None => spaces'[view.write] = spaces[view.write]
    BY <1>3, <1>4, Zenon DEF CreateView, ViewType, RowsStay
  <1>7. now' \in Nat /\ capabilities[c].expires \in Nat /\ grants[g].expires \in Nat
    BY <1>1, <1>2, AccessInvKept, Zenon DEF CapabilityType, GrantType, AccessInv, AccessTypes
  <1>8. /\ capabilities'[c].expires > now'
        /\ ~grants'[g].revoked /\ grants'[g].expires > now'
        /\ capabilities'[c].principal = grants'[g].principal
        /\ actor = capabilities'[c].actor /\ actor = grants'[g].actor
        /\ audience = capabilities'[c].audience /\ audience \in grants'[g].audiences
        /\ operation \in capabilities'[c].operations \intersect grants'[g].operations
        /\ view.version = capabilities'[c].version
        /\ ~(audience = "shared" /\ view.class = "private")
        /\ operation = "remember" /\ audience = "private" =>
              view.write # None /\ spaces'[view.write].class = "private"
    BY <1>5, Zenon DEF Authorize
  <1>9. /\ capabilities[c].expires > now /\ grants[g].expires > now
    <2>1. capabilities'[c].expires = capabilities[c].expires /\ grants'[g].expires = grants[g].expires
      BY <1>4, Zenon DEF CapabilityKept, GrantKept
    <2>2. capabilities'[c].expires > now' /\ grants'[g].expires > now'
      BY <1>8, Zenon
    <2>3. now \in Nat /\ now <= now'
      BY <1>2, <1>4, Zenon
    <2> HIDE DEF g
    <2> QED  BY <1>7, <2>1, <2>2, <2>3
  <1>10. ~grants[g].revoked
    BY <1>4, <1>8, Zenon DEF GrantKept
  <1> QED  BY <1>4, <1>6, <1>8, <1>9, <1>10, Zenon DEF Authorize, CapabilityKept, GrantKept

(* AuthorityNeverReturns of Access, for every topology: once authorize has   *)
(* refused a call to a capability, no later Bootstrap, RevokeGrant, issue or *)
(* rotation makes it allowed again.                                          *)
THEOREM RevocationIsFinal == AccessSpec => AuthorityNeverReturns
  <1>1. AccessInit => AccessInv
    BY AccessInvInit
  <1>2. AccessInv /\ [AccessNext]_accessVars => AccessInv'
    BY AccessInvKept
  <1>3. AccessInv /\ [AccessNext]_accessVars =>
           [\A c \in Capabilities, actor \in Actors, audience \in Audiences, operation \in Operations :
              Known(capabilities, c) /\ Authorize(c, actor, audience, operation)' =>
                  Authorize(c, actor, audience, operation)]_accessVars
    BY NothingRegained
  <1> QED  BY <1>1, <1>2, <1>3, PTL DEF AccessSpec, AuthorityNeverReturns

-----------------------------------------------------------------------------
(* The management credential *)

Steps == {"down", "creating", "created", "open", "staged", "announced", "renamed", "known", "synced"}

(* The token a rotation has written is fresh, and from the rename on the    *)
(* file, the digest in memory and at last what a power loss brings back are *)
(* that token.  So a rotation that returns leaves no other one in use.      *)
OutInv ==
    /\ created \in Nat /\ temporary \in 0..created
    /\ step \in Steps
    /\ retired \subseteq 1..created
    /\ \A t \in {file, previous, sum, temporary} : t \notin retired
    /\ step \in {"renamed", "known", "synced"} => file = temporary
    /\ step \in {"known", "synced"} => sum = temporary
    /\ step = "synced" => previous = temporary

(* Where a stop may strike, as long as every rotation began with the digest *)
(* of the file stored: what a power loss brings back has the stored digest  *)
(* until the directory is synced, and the renamed file has the pending one. *)
SettledInv ==
    /\ step \in Steps
    /\ step \in {"creating", "created"} => stored = Absent
    /\ step \in {"down", "creating", "created", "synced"} => previous = file
    /\ step \in {"renamed", "known", "synced"} => file = temporary
    /\ settled =>
          /\ Reconcilable
          /\ step = "open" /\ stored = file => previous = file
          /\ step \in {"staged", "announced"} => file = stored
          /\ step \in {"staged", "announced", "renamed", "known"} => previous = stored
          /\ step \in {"announced", "renamed", "known", "synced"} => pending = temporary

-----------------------------------------------------------------------------
LEMMA OutInit == Init => OutInv
  BY DEF Init, OutInv, Steps, Absent

LEMMA OutStep == OutInv /\ [Next]_vars => OutInv'
  <1> SUFFICES ASSUME OutInv, [Next]_vars
               PROVE  OutInv'
    OBVIOUS
  <1> USE DEF OutInv, Steps, Absent, Empty, Rows
  <1>1. CASE CreateFile
    BY <1>1 DEF CreateFile
  <1>2. CASE WriteFile
    BY <1>2 DEF WriteFile
  <1>3. CASE StoreDigest
    BY <1>3 DEF StoreDigest
  <1>4. CASE AdoptFile
    BY <1>4 DEF AdoptFile
  <1>5. CASE Reconcile
    BY <1>5 DEF Reconcile
  <1>6. CASE Stage
    BY <1>6 DEF Stage
  <1>7. CASE Announce
    BY <1>7 DEF Announce
  <1>8. CASE Rename
    BY <1>8 DEF Rename
  <1>9. CASE Learn
    BY <1>9 DEF Learn
  <1>10. CASE SyncDirectory
    BY <1>10 DEF SyncDirectory
  <1>11. CASE Finish
    BY <1>11 DEF Finish
  <1>12. CASE RotationFails
    BY <1>12 DEF RotationFails
  <1>13. CASE CreateBackupSnapshot
    BY <1>13 DEF CreateBackupSnapshot
  <1>14. CASE RestoreSnapshot
    BY <1>14 DEF RestoreSnapshot
  <1>15. ASSUME NEW powerLoss \in BOOLEAN, Stop(powerLoss)
         PROVE  OutInv'
    <2>1. file' \in {file, previous} /\ previous' = file'
      BY <1>15 DEF Stop
    <2> QED  BY <1>15, <2>1 DEF Stop
  <1>16. CASE UNCHANGED vars
    BY <1>16 DEF vars
  <1> QED
    BY <1>1, <1>2, <1>3, <1>4, <1>5, <1>6, <1>7, <1>8, <1>9, <1>10, <1>11, <1>12, <1>13, <1>14,
       <1>15, <1>16, Zenon
    DEF Next, InitializeManagementCredential, RotateManagementCredential

(* A replaced token never returns: RotateManagementCredential syncs the     *)
(* directory before it withdraws the old digest, and every Open and restore *)
(* takes the digest of the file.                                            *)
THEOREM ReplacedStaysOut == Spec => []RetiredStaysOut
  <1>1. OutInv => RetiredStaysOut
    BY DEF OutInv, RetiredStaysOut
  <1> QED  BY OutInit, OutStep, <1>1, PTL DEF Spec

-----------------------------------------------------------------------------
LEMMA SettledInit == Init => SettledInv
  BY DEF Init, SettledInv, Steps, Reconcilable, Absent

LEMMA SettledStep == SettledInv /\ [Next]_vars => SettledInv'
  <1> SUFFICES ASSUME SettledInv, [Next]_vars
               PROVE  SettledInv'
    OBVIOUS
  <1> USE DEF SettledInv, Reconcilable, Steps, Rows
  <1>0. Empty \notin Tokens /\ Absent \notin Tokens
    BY CredentialsAssumption DEF Empty, Absent, Tokens
  <1>1. CASE CreateFile
    BY <1>0, <1>1 DEF CreateFile
  <1>2. CASE WriteFile
    BY <1>2 DEF WriteFile
  <1>3. CASE StoreDigest
    BY <1>3 DEF StoreDigest
  <1>4. CASE AdoptFile
    BY <1>4 DEF AdoptFile
  <1>5. CASE Reconcile
    BY <1>5 DEF Reconcile
  <1>6. CASE Stage
    BY <1>6, Zenon DEF Stage
  <1>7. CASE Announce
    BY <1>7 DEF Announce
  <1>8. CASE Rename
    BY <1>8 DEF Rename
  <1>9. CASE Learn
    BY <1>9 DEF Learn
  <1>10. CASE SyncDirectory
    BY <1>10 DEF SyncDirectory
  <1>11. CASE Finish
    BY <1>11 DEF Finish
  <1>12. CASE RotationFails
    BY <1>12 DEF RotationFails
  <1>13. CASE CreateBackupSnapshot
    BY <1>13 DEF CreateBackupSnapshot
  <1>14. CASE RestoreSnapshot
    BY <1>14 DEF RestoreSnapshot
  <1>15. ASSUME NEW powerLoss \in BOOLEAN, Stop(powerLoss)
         PROVE  SettledInv'
    <2>1. file' \in {file, previous} /\ previous' = file'
      BY <1>15 DEF Stop
    <2> QED  BY <1>15, <2>1 DEF Stop
  <1>16. CASE UNCHANGED vars
    BY <1>16 DEF vars
  <1> QED
    BY <1>1, <1>2, <1>3, <1>4, <1>5, <1>6, <1>7, <1>8, <1>9, <1>10, <1>11, <1>12, <1>13, <1>14,
       <1>15, <1>16, Zenon
    DEF Next, InitializeManagementCredential, RotateManagementCredential

(* Whatever step of Open or of a rotation a stop or a power loss strikes,   *)
(* the token file it leaves is one that initializeManagementCredential      *)
(* accepts, provided no rotation began on an unreconciled digest.           *)
THEOREM StopsAreSurvived == Spec => []RecoversFromStops
  <1>1. SettledInv => RecoversFromStops
    BY DEF SettledInv, RecoversFromStops
  <1> QED  BY SettledInit, SettledStep, <1>1, PTL DEF Spec
=============================================================================
