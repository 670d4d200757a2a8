----------------------------- MODULE MCAuthority -----------------------------
(* Credentials and Access for TLC, in one run.  They share no variable: a    *)
(* behaviour is one of theirs, and the other part stays in its initial state.*)
EXTENDS Credentials, Access, TLC

CONSTANTS a, b, i, p, s, q, v1, v2, g1, g2, h, m

Nothing == [x \in {} |-> None]
Topologies(R, I, S, V, G, P) ==
    [realms |-> R, identities |-> I, spaces |-> S, views |-> V, grants |-> G, issuers |-> P]

(* Realm a has the private Space p of identity i and the shared Space s;     *)
(* realm b has the shared Space q.                                           *)
SpaceRow(realm, identity, class) == [realm |-> realm, identity |-> identity, class |-> class]
TwoRealms ==
    Topologies({a, b}, {<<i, a>>},
        [x \in Spaces |-> IF x = p THEN SpaceRow(a, i, "private")
                          ELSE SpaceRow(IF x = s THEN a ELSE b, None, "shared")],
        Nothing, Nothing, {h})

(* Views, well-formed or not, each with a Grant.                             *)
ViewRows(realm, reads) ==
    {[realm |-> realm, reads |-> R, write |-> w, class |-> k, version |-> 1] :
        R \in reads, w \in {None, p, s, q}, k \in {"private", "shared"}}
GrantRows(v) ==
    {[principal |-> h, actor |-> m, view |-> v, audiences |-> A, operations |-> O,
      expires |-> 2, revoked |-> FALSE] :
        A \in {{"private"}, {"shared"}}, O \in {Operations, {"recall"}}}
Entry(id, line) == [x \in {id} |-> line]
Granting(v, g, V) ==
    {Topologies({}, {}, Nothing, Entry(v, w), Entry(g, y), {}) : w \in V, y \in GrantRows(v)}
SmallRequests ==
    {TwoRealms} \union Granting(v1, g1, ViewRows(a, {{p}, {s}, {p, s}, {s, q}}))
        \union Granting(v2, g2, ViewRows(a, {{p}, {s}, {p, s}}) \union ViewRows(b, {{q}}))
SmallOperationSets == {{"remember", "recall"}, {"recall", "receipt_status"}}

VARIABLE part
allVars == <<part, vars, accessVars>>

EitherInit == part \in {"credentials", "access"} /\ Init /\ AccessInit
CredentialsStep == part = "credentials" /\ Next /\ UNCHANGED <<part, accessVars>>
AccessStep ==
    \/ \E x \in Requests : part = "access" /\ Bootstrap(x) /\ UNCHANGED <<part, vars>>
    \/ part = "access" /\ Serve /\ UNCHANGED <<part, vars>>
EitherSpec == EitherInit /\ [][CredentialsStep \/ AccessStep]_allVars

Symmetry ==
    Permutations(LabelSets) \union Permutations(Receipts) \union Permutations(Capabilities)
=============================================================================
