--------------------------- MODULE DiscoveryProofs ---------------------------
(***************************************************************************)
(* For any objects and options: the edges of a workload summarise the      *)
(* references to each Secret, in whatever order they are merged, and what  *)
(* follows for ignore lists, explicit lists and pull Secrets; and owners   *)
(* are declared.  The invariant is that at every iteration of the merge    *)
(* loop the edges so far summarise the references so far.                  *)
(***************************************************************************)
EXTENDS Discovery, WellFoundedInduction, TLAPS

-----------------------------------------------------------------------------
(* Summaries.                                                              *)

\* The mode of a summary is the mode of each reference, or hybrid.
LEMMA SummaryMode ==
  ASSUME NEW es, NEW e \in es
  PROVE  Summary(es).mode = IF \A f, g \in es : f.mode = g.mode THEN e.mode ELSE "hybrid"
<1>1. (CHOOSE f \in es : TRUE) \in es
  OBVIOUS
<1> QED
  BY <1>1 DEF Summary

\* The edge of a first reference is the summary of that reference.
LEMMA FirstIsSummary ==
  ASSUME NEW e \in EdgeType
  PROVE  First(e) = Summary({e})
<1>1. (CHOOSE f \in {e} : TRUE) = e
  OBVIOUS
<1>2. {f.place : f \in {e}} = {e.place}
  OBVIOUS
<1>3. (\A f \in {e} : f.optional) = e.optional
  <2>1. e.optional \in BOOLEAN
    BY DEF EdgeType
  <2> QED
    BY <2>1
<1> QED
  BY <1>1, <1>2, <1>3 DEF First, Summary

\* Joining one more reference to a summary summarises both.
LEMMA JoinIsSummary ==
  ASSUME NEW es \in SUBSET EdgeType, es # {}, NEW e \in EdgeType
  PROVE  Join(Summary(es), e) = Summary(es \cup {e})
<1> DEFINE more == es \cup {e}
<1>1. (Summary(es).optional /\ e.optional) = (\A f \in more : f.optional)
  <2>1. e.optional \in BOOLEAN
    BY DEF EdgeType
  <2>2. Summary(es).optional = (\A f \in es : f.optional)
    BY DEF Summary
  <2> QED
    BY <2>1, <2>2
<1>2. Summary(es).places \cup {e.place} = {f.place : f \in more}
  BY DEF Summary
<1>3. (IF Summary(es).mode = e.mode THEN e.mode ELSE "hybrid") = Summary(more).mode
  <2>1. PICK f \in es : TRUE
    OBVIOUS
  <2>2. Summary(es).mode = IF \A g, h \in es : g.mode = h.mode THEN f.mode ELSE "hybrid"
    BY <2>1, SummaryMode
  <2>3. Summary(more).mode = IF \A g, h \in more : g.mode = h.mode THEN e.mode ELSE "hybrid"
    BY SummaryMode
  <2>4. e.mode # "hybrid"
    BY DEF EdgeType
  <2> QED
    BY <2>1, <2>2, <2>3, <2>4
<1>4. Join(Summary(es), e) =
        [optional |-> \A f \in more : f.optional, mode |-> Summary(more).mode,
         places |-> {f.place : f \in more}]
  BY <1>1, <1>2, <1>3 DEF Join
<1> QED
  BY <1>4 DEF Summary

-----------------------------------------------------------------------------
(* Types.                                                                  *)

\* An edge of well-typed parts: from a reference of the object, which may be
\* optional, and from a place that has no optional references.
LEMMA ReferenceTyped ==
  ASSUME NEW o, o.namespace \in Namespace, NEW ref \in Reference, ref.name # Blank,
         NEW place \in Place, NEW i \in Nat
  PROVE  Inferred(o, ref.name, ref.optional, <<place, i>>) \in EdgeType
<1>1. ref.name \in Name /\ ref.optional \in BOOLEAN
  BY DEF Reference
<1> QED
  BY <1>1 DEF Inferred, Edge, EdgeType, Secret

LEMMA RequiredTyped ==
  ASSUME NEW ns \in Namespace, NEW name \in Name, NEW mode \in {"infer", "explicit"},
         NEW place \in Place, NEW i \in Nat
  PROVE  Edge(ns, name, FALSE, mode, <<place, i>>) \in EdgeType
BY DEF Edge, EdgeType, Secret

LEMMA InferredTyped ==
  ASSUME NEW o, o.namespace \in Namespace, NEW name \in Name, NEW place \in Place, NEW i \in Nat
  PROVE  Inferred(o, name, FALSE, <<place, i>>) \in EdgeType
BY DEF Inferred, Edge, EdgeType, Secret

\* The parts of the annotations in effect.
LEMMA EffectiveTyped ==
  ASSUME NEW opts \in OptionType, NEW o \in ObjectType
  PROVE  LET a == Effective(opts, o).annotations
         IN  /\ a.watch \in Seq(Token) \cup {Absent}
             /\ a.watchJSON \in Seq(Token) \cup {Absent, NotJSON}
             /\ a.ignore \in Seq(Token) \cup {Absent}
             /\ a.ownerTeam \in RawTeam \cup {Absent}
             /\ a.mode \in Mode \cup {Absent, "other"}
<1>1. o.own \in Metadata /\ o.template \in Metadata
  BY DEF ObjectType
<1>2. \A m \in Metadata :
        /\ DOMAIN m.annotations = {"enabled", "mode", "watch", "watchJSON", "ignore", "ownerTeam"}
        /\ m.annotations.watch \in Seq(Token) \cup {Absent}
        /\ m.annotations.watchJSON \in Seq(Token) \cup {Absent, NotJSON}
        /\ m.annotations.ignore \in Seq(Token) \cup {Absent}
        /\ m.annotations.ownerTeam \in RawTeam \cup {Absent}
        /\ m.annotations.mode \in Mode \cup {Absent, "other"}
  BY DEF Metadata, Annotations
<1>3. CASE ReadsTemplate(opts, o)
  <2> DEFINE own == o.own.annotations  template == o.template.annotations
  <2>1. Effective(opts, o).annotations = Override(own, template)
    BY <1>3 DEF Effective
  <2>2. \A k \in DOMAIN own :
          Override(own, template)[k] = IF own[k] # Absent THEN own[k] ELSE template[k]
    BY DEF Override
  <2> QED
    BY <1>1, <1>2, <2>1, <2>2
<1>4. CASE ~ReadsTemplate(opts, o)
  BY <1>1, <1>2, <1>4 DEF Effective
<1> QED
  BY <1>3, <1>4

\* The edges of a list of tokens.
LEMMA TokenEdgesTyped ==
  ASSUME NEW o \in ObjectType, NEW tokens \in Seq(Token),
         NEW mode \in {"infer", "explicit"}, NEW place \in Place
  PROVE  TokenEdges(o, tokens, mode, place) \subseteq EdgeType
<1> SUFFICES ASSUME NEW i \in DOMAIN tokens, ~Malformed(o, tokens[i])
             PROVE  Edge(Resolved(o, tokens[i]).namespace, tokens[i].name, FALSE, mode, <<place, i>>)
                      \in EdgeType
  BY DEF TokenEdges
<1>1. Resolved(o, tokens[i]).namespace \in Namespace /\ tokens[i].name \in Name
  BY DEF Malformed, Resolved, Secret
<1>2. i \in Nat
  OBVIOUS
<1> QED
  BY <1>1, <1>2, RequiredTyped

\* The edges of a Pod spec.
LEMMA PodSpecEdgesTyped ==
  ASSUME NEW opts \in OptionType, NEW o \in ObjectType, o.kind \in PodSpecKind
  PROVE  PodSpecEdges(opts, o) \subseteq EdgeType
<1>1. o.spec \in PodSpec /\ o.namespace \in Namespace
  BY DEF ObjectType, PodSpecKind, TemplateKind, CustomKind, ConnectorKind
<1>2. ASSUME NEW section \in ReadSections(opts)
      PROVE  SpecEdges(o, section) \subseteq EdgeType
  <2>1. o.spec.refs[section] \in Seq(Reference)
    BY <1>1, <1>2 DEF ReadSections, PodSpec
  <2> SUFFICES ASSUME NEW i \in DOMAIN o.spec.refs[section], o.spec.refs[section][i].name # Blank
               PROVE  Inferred(o, o.spec.refs[section][i].name,
                               o.spec.refs[section][i].optional, <<section, i>>) \in EdgeType
    BY DEF SpecEdges
  <2>2. o.spec.refs[section][i] \in Reference /\ i \in Nat
    BY <2>1
  <2>3. section \in Place
    BY <1>2 DEF ReadSections, Place
  <2> QED
    BY <1>1, <2>2, <2>3, ReferenceTyped
<1>3. \A i \in Named(o.spec.pull) : Inferred(o, o.spec.pull[i], FALSE, <<"pull", i>>) \in EdgeType
  <2> SUFFICES ASSUME NEW i \in Named(o.spec.pull)
               PROVE  Inferred(o, o.spec.pull[i], FALSE, <<"pull", i>>) \in EdgeType
    OBVIOUS
  <2>1. o.spec.pull \in Seq(Name \cup {Blank})
    BY <1>1 DEF PodSpec
  <2>2. i \in Nat /\ o.spec.pull[i] \in Name
    BY <2>1 DEF Named
  <2> QED
    BY <1>1, <2>2, InferredTyped DEF Place
<1>4. \A i \in DOMAIN AccountPulls(opts, o) :
        Inferred(o, AccountPulls(opts, o)[i], FALSE, <<"account", i>>) \in EdgeType
  <2> SUFFICES ASSUME NEW i \in DOMAIN AccountPulls(opts, o)
               PROVE  Inferred(o, AccountPulls(opts, o)[i], FALSE, <<"account", i>>) \in EdgeType
    OBVIOUS
  <2>1. o.spec.account \in Name \cup {Blank}
    BY <1>1 DEF PodSpec
  <2>2. AccountPulls(opts, o) \in Seq(Name)
    BY <1>1, <2>1 DEF AccountPulls, OptionType
  <2>3. i \in Nat /\ AccountPulls(opts, o)[i] \in Name
    BY <2>2
  <2> QED
    BY <1>1, <2>3, InferredTyped DEF Place
<1>5. PullEdges(opts, o) \subseteq EdgeType
  BY <1>3, <1>4 DEF PullEdges
<1>6. \A section \in ReadSections(opts) : SpecEdges(o, section) \subseteq EdgeType
  BY <1>2
<1> DEFINE read == UNION {SpecEdges(o, section) : section \in ReadSections(opts)}
<1>7. read \subseteq EdgeType
  BY <1>6, Zenon
<1>8. PodSpecEdges(opts, o) = read \cup PullEdges(opts, o)
  BY DEF PodSpecEdges
<1> HIDE DEF read
<1> QED
  BY <1>5, <1>7, <1>8

\* The edges of the other kinds.
LEMMA TargetEdgesTyped ==
  ASSUME NEW o \in ObjectType, o.kind \notin PodSpecKind
  PROVE  /\ IngressEdges(o) \subseteq EdgeType
         /\ ExternalSecretEdges(o) \subseteq EdgeType
         /\ KafkaConnectorEdges(o) \subseteq EdgeType
         /\ ConnectorEdges(o) \subseteq EdgeType
<1>1. o.spec \in TargetSpec /\ o.namespace \in Namespace /\ o.name \in Name
  BY DEF ObjectType
<1>2. o.spec.targets \in Seq(Token) /\ o.spec.mounted \in Seq(Name \cup {Blank})
  BY <1>1 DEF TargetSpec
<1>3. IngressEdges(o) \subseteq EdgeType
  <2> SUFFICES ASSUME NEW i \in DOMAIN o.spec.targets, o.spec.targets[i].name # Blank
               PROVE  Inferred(o, o.spec.targets[i].name, FALSE, <<"targets", i>>) \in EdgeType
    BY DEF IngressEdges
  <2>1. i \in Nat /\ o.spec.targets[i] \in Token
    BY <1>2
  <2>2. o.spec.targets[i].name \in Name
    BY <2>1 DEF Token
  <2> QED
    BY <1>1, <2>1, <2>2, InferredTyped DEF Place
<1>4. ExternalSecretEdges(o) \subseteq EdgeType
  BY <1>1, <1>3, InferredTyped DEF ExternalSecretEdges, CertificateEdges, Place
<1>5. KafkaConnectorEdges(o) \subseteq EdgeType
  BY <1>2, TokenEdgesTyped DEF KafkaConnectorEdges, Place
<1>6. SecretRefEdges(o) \subseteq EdgeType
  <2> DEFINE ts == o.spec.targets
             us == [i \in DOMAIN ts |-> Unblanked(ts[i])]
  <2>1. us \in Seq(Token)
    <3>1. \A i \in DOMAIN ts : ts[i] \in Token
      BY <1>2
    <3>2. \A t \in Token : Unblanked(t) \in Token
      BY DEF Token, Unblanked
    <3>3. \A i \in DOMAIN us : us[i] \in Token
      BY <3>1, <3>2
    <3>4. DOMAIN us = 1..Len(ts) /\ Len(ts) \in Nat
      BY <1>2
    <3>5. us = [i \in 1..Len(ts) |-> us[i]]
      BY <3>4
    <3> HIDE DEF us
    <3> QED
      BY <3>3, <3>4, <3>5
  <2> QED
    BY <2>1, TokenEdgesTyped DEF SecretRefEdges, Place
<1>7. MountedEdges(o) \subseteq EdgeType
  <2> SUFFICES ASSUME NEW i \in Named(o.spec.mounted)
               PROVE  Inferred(o, o.spec.mounted[i], FALSE, <<"mounted", i>>) \in EdgeType
    BY DEF MountedEdges
  <2>1. i \in Nat /\ o.spec.mounted[i] \in Name
    BY <1>2 DEF Named
  <2> QED
    BY <1>1, <2>1, InferredTyped DEF Place
<1> QED
  BY <1>3, <1>4, <1>5, <1>6, <1>7 DEF ConnectorEdges

\* Every edge that is collected has a Secret with a name and a namespace: what a
\* malformed token or a blank name refers to is never an edge.
LEMMA CollectedTyped ==
  ASSUME NEW opts \in OptionType, NEW o \in ObjectType
  PROVE  InferredEdges(opts, o) \subseteq EdgeType /\ ExplicitEdges(opts, o) \subseteq EdgeType
<1>1. InferredEdges(opts, o) \subseteq EdgeType
  <2>1. CASE o.kind \in PodSpecKind
    <3>1. o.kind \notin {"Ingress", "Certificate", "ExternalSecret", "SecretProviderClass",
                         "KafkaConnector", "Connector"}
      BY <2>1 DEF PodSpecKind, TemplateKind
    <3>2. InferredEdges(opts, o) = PodSpecEdges(opts, o)
      BY <2>1, <3>1 DEF InferredEdges
    <3> QED
      BY <2>1, <3>2, PodSpecEdgesTyped
  <2>2. CASE o.kind \notin PodSpecKind
    <3>1. o.kind \in {"Ingress", "Certificate", "ExternalSecret", "SecretProviderClass",
                      "KafkaConnector", "Connector"}
      BY <2>2 DEF ObjectType, CustomKind, ConnectorKind
    <3>2. InferredEdges(opts, o) \in {IngressEdges(o), CertificateEdges(o), ExternalSecretEdges(o),
                                      SecretProviderClassEdges(o), KafkaConnectorEdges(o),
                                      ConnectorEdges(o)}
      BY <2>2, <3>1 DEF InferredEdges
    <3> QED
      BY <2>2, <3>2, TargetEdgesTyped DEF CertificateEdges, SecretProviderClassEdges
  <2> QED
    BY <2>1, <2>2
<1>2. ExplicitEdges(opts, o) \subseteq EdgeType
  BY EffectiveTyped, TokenEdgesTyped DEF ExplicitEdges, Place
<1> QED
  BY <1>1, <1>2

\* A non-empty set of positions has a first one.
LEMMA LeastExists ==
  ASSUME NEW n \in Nat, NEW ps \in SUBSET (1..n), ps # {}
  PROVE  \E i \in ps : \A j \in ps : i <= j
<1> DEFINE less == {p \in Nat \X Nat : p[1] < p[2]}
<1>1. IsWellFoundedOn(less, Nat)
  BY NatLessThanWellFounded DEF OpToRel
<1>2. ps \subseteq Nat
  OBVIOUS
<1>3. \A i, j \in Nat : <<j, i>> \in less <=> j < i
  OBVIOUS
<1> HIDE DEF less
<1>4. PICK i \in ps : \A j \in ps : <<j, i>> \notin less
  BY <1>1, <1>2, WFMin
<1>5. \A j \in ps : ~(j < i)
  BY <1>2, <1>3, <1>4
<1> QED
  BY <1>2, <1>5

\* Of a label that the object and its template carry the object's counts.
LEMMA LabelsOverridden ==
  ASSUME NEW opts, NEW o \in ObjectType
  PROVE  LET labels == Effective(opts, o).labels
         IN  /\ labels \in Labels
             /\ o.own.labels \in Labels /\ o.template.labels \in Labels
             /\ \A k \in 1..LabelKeys :
                  labels[k] = IF ReadsTemplate(opts, o) /\ o.own.labels[k] = Absent
                              THEN o.template.labels[k] ELSE o.own.labels[k]
<1>1. o.own.labels \in Labels /\ o.template.labels \in Labels
  BY DEF ObjectType, Metadata
<1>2. CASE ReadsTemplate(opts, o)
  <2>1. Effective(opts, o).labels = Override(o.own.labels, o.template.labels)
    BY <1>2 DEF Effective
  <2> QED
    BY <1>1, <1>2, <2>1, ZenonT(30) DEF Override, Labels
<1>3. CASE ~ReadsTemplate(opts, o)
  <2>1. Effective(opts, o).labels = o.own.labels
    BY <1>3 DEF Effective
  <2> QED
    BY <1>1, <1>3, <2>1
<1> QED
  BY <1>2, <1>3

\* The first label with a value is a label with a value, if there is one, and
\* none before it has one.
LEMMA FirstLabelNames ==
  ASSUME NEW labels \in Labels
  PROVE  /\ Named(labels) \subseteq 1..LabelKeys
         /\ \A i \in Named(labels) : labels[i] \in Team
         /\ Named(labels) = {} => FirstLabel(labels) = Blank
         /\ Named(labels) # {} => FirstLabel(labels) \in {labels[i] : i \in Named(labels)}
         /\ FirstLabel(labels) \in Team \cup {Blank}
         /\ \A k \in Named(labels) :
              (\A j \in Named(labels) : k <= j) => FirstLabel(labels) = labels[k]
<1>1. Named(labels) \subseteq 1..LabelKeys /\ \A i \in Named(labels) : labels[i] \in Team
  BY DEF Named, Labels
<1>2. CASE Named(labels) = {}
  BY <1>1, <1>2 DEF FirstLabel
<1>3. CASE Named(labels) # {}
  <2>1. \E i \in Named(labels) : \A j \in Named(labels) : i <= j
    BY <1>1, <1>3, LeastExists, ValueAssumption
  <2>2. FirstLabel(labels) \in {labels[i] : i \in Named(labels)}
    BY <1>3, <2>1 DEF FirstLabel
  <2>3. ASSUME NEW k \in Named(labels), \A j \in Named(labels) : k <= j
        PROVE  FirstLabel(labels) = labels[k]
    <3> DEFINE least == CHOOSE i \in Named(labels) : \A j \in Named(labels) : i <= j
    <3>1. least \in Named(labels) /\ \A j \in Named(labels) : least <= j
      BY <2>1
    <3>2. FirstLabel(labels) = labels[least]
      BY <1>3 DEF FirstLabel
    <3> HIDE DEF least
    <3>3. least \in Int /\ k \in Int /\ least <= k /\ k <= least
      BY <1>1, <2>3, <3>1, ValueAssumption
    <3> QED
      BY <3>2, <3>3
  <2> QED
    BY <1>1, <1>3, <2>2, <2>3
<1> QED
  BY <1>2, <1>3

-----------------------------------------------------------------------------
(* The merge loop.                                                         *)

\* The edges so far summarise the references so far.
Merged(seen) ==
  /\ DOMAIN merged = {e.secret : e \in seen} \ Ignored(options, object)
  /\ \A s \in DOMAIN merged : merged[s] = Summary(References(s, seen))

MergeInv ==
  /\ options \in OptionType
  /\ pc \in {"idle", "collect", "merge", "returned"}
  /\ pc # "idle" => object \in ObjectType
  /\ edges \subseteq EdgeType
  /\ rest \subseteq edges
  /\ pc \in {"idle", "collect"} => edges = {} /\ merged = Nothing
  /\ pc = "returned" => rest = {}
  /\ pc \in {"merge", "returned"} => Merged(edges \ rest)

\* Initially nothing is collected.
LEMMA MergeInit == Init => MergeInv
BY TypeAssumption DEF Init, MergeInv

\* One iteration takes the summary from the references before it to those after.
LEMMA MergeStep ==
  ASSUME MergeInv, NEW e \in edges, Merge(e)
  PROVE  Merged(edges \ rest)'
<1> DEFINE seen == edges \ rest
           ignored == Ignored(options, object)
<1>1. pc = "merge" /\ e \in rest /\ Merged(seen)
  BY DEF MergeInv, Merge
<1>2. edges' = edges /\ options' = options /\ object' = object /\ rest' = rest \ {e}
  BY DEF Merge
<1>3. (edges \ rest)' = seen \cup {e} /\ e \notin seen
  BY <1>1, <1>2 DEF MergeInv
<1>4. Ignored(options, object)' = ignored
  BY <1>2
<1>5. seen \subseteq EdgeType /\ e \in EdgeType
  BY DEF MergeInv
<1>6. CASE e.secret \in ignored
  <2>1. merged' = merged
    BY <1>6 DEF Merge
  <2>2. {f.secret : f \in seen \cup {e}} \ ignored = {f.secret : f \in seen} \ ignored
    BY <1>6
  <2>3. \A s \in DOMAIN merged : References(s, seen \cup {e}) = References(s, seen)
    BY <1>1, <1>6 DEF Merged, References
  <2> QED
    BY <1>1, <1>3, <1>4, <2>1, <2>2, <2>3 DEF Merged
<1>7. CASE e.secret \notin ignored
  <2>1. merged' = [s \in DOMAIN merged \cup {e.secret} |->
                     IF s # e.secret THEN merged[s]
                     ELSE IF s \in DOMAIN merged THEN Join(merged[s], e) ELSE First(e)]
    BY <1>7 DEF Merge
  <2>2. DOMAIN merged' = {f.secret : f \in seen \cup {e}} \ ignored
    BY <1>1, <1>7, <2>1 DEF Merged
  <2>3. ASSUME NEW s \in DOMAIN merged, s # e.secret
        PROVE  merged'[s] = Summary(References(s, seen \cup {e}))
    <3>1. References(s, seen \cup {e}) = References(s, seen)
      BY <2>3 DEF References
    <3> QED
      BY <1>1, <2>1, <2>3, <3>1 DEF Merged
  <2>4. merged'[e.secret] = Summary(References(e.secret, seen \cup {e}))
    <3>1. References(e.secret, seen \cup {e}) = References(e.secret, seen) \cup {e}
      BY DEF References
    <3>2. CASE e.secret \in DOMAIN merged
      <4>1. References(e.secret, seen) # {} /\ References(e.secret, seen) \subseteq EdgeType
        BY <1>1, <1>5, <3>2 DEF Merged, References
      <4>2. merged'[e.secret] = Join(Summary(References(e.secret, seen)), e)
        BY <1>1, <2>1, <3>2 DEF Merged
      <4> QED
        BY <1>5, <3>1, <4>1, <4>2, JoinIsSummary
    <3>3. CASE e.secret \notin DOMAIN merged
      <4>1. References(e.secret, seen) = {}
        BY <1>1, <1>7, <3>3 DEF Merged, References
      <4>2. merged'[e.secret] = First(e)
        BY <2>1, <3>3
      <4> QED
        BY <1>5, <3>1, <4>1, <4>2, FirstIsSummary
    <3> QED
      BY <3>2, <3>3
  <2>5. \A s \in DOMAIN merged' : merged'[s] = Summary(References(s, seen \cup {e}))
    BY <2>1, <2>3, <2>4
  <2> QED
    BY <1>3, <1>4, <2>2, <2>5 DEF Merged
<1> QED
  BY <1>6, <1>7

\* Every step keeps the loop's invariant.
LEMMA MergeNext == MergeInv /\ [Next]_vars => MergeInv'
<1> SUFFICES ASSUME MergeInv, [Next]_vars PROVE MergeInv'
  OBVIOUS
<1>1. ASSUME NEW o \in Objects, Discover(o) PROVE MergeInv'
  <2>1. o \in ObjectType
    BY TypeAssumption
  <2>2. pc' = "returned" => Merged(edges \ rest)'
    <3> SUFFICES ASSUME pc' = "returned" PROVE Merged(edges \ rest)'
      OBVIOUS
    <3>1. edges' = {} /\ merged' = Nothing /\ DOMAIN Nothing = {}
      BY <1>1 DEF Discover, MergeInv, Nothing
    <3> QED
      BY <3>1 DEF Merged
  <2> QED
    BY <1>1, <2>1, <2>2 DEF Discover, MergeInv
<1>2. ASSUME Collect PROVE MergeInv'
  <2>1. edges' \subseteq EdgeType
    <3>1. object \in ObjectType /\ options \in OptionType
      BY <1>2 DEF Collect, MergeInv
    <3> QED
      BY <1>2, <3>1, CollectedTyped DEF Collect
  <2>2. Merged(edges \ rest)'
    <3>1. (edges \ rest)' = {} /\ merged' = Nothing /\ DOMAIN Nothing = {}
      BY <1>2 DEF Collect, MergeInv, Nothing
    <3> QED
      BY <3>1 DEF Merged
  <2> QED
    BY <1>2, <2>1, <2>2 DEF Collect, MergeInv
<1>3. ASSUME NEW e \in edges, Merge(e) PROVE MergeInv'
  <2>1. Merged(edges \ rest)'
    BY <1>3, MergeStep
  <2> QED
    BY <1>3, <2>1 DEF Merge, MergeInv
<1>4. ASSUME Return PROVE MergeInv'
  <2>1. Merged(edges \ rest)'
    BY <1>4 DEF Return, MergeInv, Merged
  <2> QED
    BY <1>4, <2>1 DEF Return, MergeInv
<1>5. ASSUME AppendWorkload PROVE MergeInv'
  BY <1>5 DEF AppendWorkload, MergeInv
<1>6. ASSUME UNCHANGED vars PROVE MergeInv'
  <2>1. Merged(edges \ rest)' = Merged(edges \ rest)
    BY <1>6 DEF vars, Merged
  <2> QED
    BY <1>6, <2>1 DEF vars, MergeInv
<1> QED
  BY <1>1, <1>2, <1>3, <1>4, <1>5, <1>6 DEF Next

\* The invariant of the merge loop.
LEMMA MergeInvariant == Spec => []MergeInv
BY MergeInit, MergeNext, PTL DEF Spec

-----------------------------------------------------------------------------
(* What a discovered workload says.                                        *)

\* At the end of the loop nothing is left to merge.
LEMMA SummariseStep == MergeInv => OneEdgePerSecret
<1> SUFFICES ASSUME MergeInv, pc = "returned"
             PROVE  /\ DOMAIN merged = {e.secret : e \in edges} \ Ignored(options, object)
                    /\ \A s \in DOMAIN merged : merged[s] = Summary(References(s, edges))
  BY DEF OneEdgePerSecret, Returned
<1>1. edges \ rest = edges /\ Merged(edges \ rest)
  BY DEF MergeInv
<1> QED
  BY <1>1 DEF Merged

\* filterAndMergeEdges, for any object and in any order: one edge for each Secret
\* that is not ignored, which summarises all references to it.
THEOREM EdgesSummarise == Spec => []OneEdgePerSecret
BY MergeInvariant, SummariseStep, PTL

\* What is ignored is named by a well-formed token of the list, and each such
\* Secret is ignored when the list has no other tokens.
LEMMA IgnoredAreNamed ==
  LET ignore == Effective(options, object).annotations.ignore
  IN  /\ Ignored(options, object) \subseteq NamedToIgnore(object)
      /\ ignore # Absent /\ WellFormed(object, ignore) =>
           Ignored(options, object) = NamedToIgnore(object)
<1> DEFINE ignore == Effective(options, object).annotations.ignore
<1>1. Ignored(options, object) = {Resolved(object, ignore[i]) : i \in Watched(object, ignore)}
  BY DEF Ignored
<1>2. Watched(object, ignore) =
        IF ignore # Absent /\ WellFormed(object, ignore) THEN DOMAIN ignore ELSE {}
  BY DEF Watched, WellFormed
<1>3. NamedToIgnore(object) =
        IF ignore = Absent THEN {}
        ELSE {Resolved(object, ignore[i]) : i \in {j \in DOMAIN ignore : ~Malformed(object, ignore[j])}}
  BY DEF NamedToIgnore
<1>4. CASE ignore # Absent /\ WellFormed(object, ignore)
  <2>1. {j \in DOMAIN ignore : ~Malformed(object, ignore[j])} = DOMAIN ignore
    BY <1>4 DEF WellFormed
  <2> QED
    BY <1>1, <1>2, <1>3, <1>4, <2>1
<1>5. CASE ~(ignore # Absent /\ WellFormed(object, ignore))
  <2>1. Ignored(options, object) = {}
    BY <1>1, <1>2, <1>5
  <2> QED
    BY <1>5, <2>1
<1> QED
  BY <1>4, <1>5

\* No Secret disappears that the list of Secrets to ignore does not name, and of
\* a well-formed list each Secret does that is only inferred.
THEOREM IgnoreListRead == Spec => []IgnoreHidesWhatItNames
<1>1. MergeInv => IgnoreHidesWhatItNames
  <2> DEFINE found == {e.secret : e \in edges}
  <2>1. ASSUME MergeInv, Returned
        PROVE  DOMAIN merged = found \ Ignored(options, object)
    BY <2>1, SummariseStep DEF OneEdgePerSecret
  <2> QED
    BY <2>1, IgnoredAreNamed DEF IgnoreHidesWhatItNames
<1> QED
  BY <1>1, MergeInvariant, PTL

\* The types of the loop's state.
THEOREM TypeCorrect == Spec => []TypeOK
<1> DEFINE Rest ==
      /\ options \in Options
      /\ IF pc = "idle" THEN object = Absent ELSE object \in ObjectType
      /\ owner \in RawTeam
<1>1. Init => Rest
  BY ValueAssumption DEF Init
<1>2. Rest /\ [Next]_vars => Rest'
  <2>1. ASSUME NEW opts \in Options, NEW o \in Objects
        PROVE  OwnerTeam(opts, o) \in RawTeam
    <3> DEFINE given == Effective(opts, o).annotations.ownerTeam
               label == FirstLabel(Effective(opts, o).labels)
    <3>1. o \in ObjectType /\ opts \in OptionType
      BY TypeAssumption
    <3>2. given \in RawTeam \cup {Absent}
      BY <3>1, EffectiveTyped
    <3>3. Effective(opts, o).labels \in Labels
      BY <3>1, LabelsOverridden
    <3>4. label \in RawTeam /\ Blank \in RawTeam
      BY <3>3, FirstLabelNames, ValueAssumption
    <3>5. given # Absent => Trim[given] \in RawTeam
      BY <3>2, ValueAssumption
    <3>6. OwnerTeam(opts, o) \in {Blank, given, Trim[given], label}
            /\ (given = Absent => OwnerTeam(opts, o) \in {Blank, label})
      BY DEF OwnerTeam, ConnectorOwner
    <3> HIDE DEF given, label
    <3> QED
      BY <3>2, <3>4, <3>5, <3>6
  <2> SUFFICES ASSUME Rest, [Next]_vars PROVE Rest'
    OBVIOUS
  <2>2. ASSUME NEW o \in Objects, Discover(o) PROVE Rest'
    BY <2>1, <2>2, TypeAssumption DEF Discover
  <2>3. CASE Collect \/ Return \/ \E e \in edges : Merge(e)
    BY <2>3 DEF Collect, Return, Merge
  <2>4. CASE AppendWorkload \/ UNCHANGED vars
    BY <2>4, ValueAssumption DEF AppendWorkload, vars
  <2> QED
    BY <2>2, <2>3, <2>4 DEF Next
<1>3. MergeInv /\ Rest => TypeOK
  <2> SUFFICES ASSUME MergeInv, Rest PROVE TypeOK
    OBVIOUS
  <2>1. Merged(edges \ rest) \/ merged = Nothing
    BY DEF MergeInv
  <2>2. DOMAIN merged \subseteq {e.secret : e \in edges}
    BY <2>1 DEF Merged, Nothing
  <2>3. ASSUME NEW s \in DOMAIN merged
        PROVE  merged[s] \in [optional : BOOLEAN, mode : {"infer", "explicit", "hybrid"},
                              places : SUBSET {e.place : e \in edges}]
    <3> DEFINE es == References(s, edges \ rest)
    <3>1. Merged(edges \ rest)
      BY <2>1, <2>3 DEF Nothing
    <3>2. merged[s] = Summary(es) /\ es # {} /\ es \subseteq edges
      BY <2>3, <3>1 DEF Merged, References
    <3>3. PICK e \in es : TRUE
      BY <3>2
    <3>4. Summary(es).mode \in {e.mode, "hybrid"}
      BY <3>3, SummaryMode
    <3>5. e.mode \in {"infer", "explicit"}
      BY <3>2, <3>3 DEF MergeInv, EdgeType
    <3>6. {f.place : f \in es} \subseteq {f.place : f \in edges}
      BY <3>2
    <3> HIDE DEF es
    <3> QED
      BY <3>2, <3>4, <3>5, <3>6 DEF Summary
  <2> QED
    BY <2>2, <2>3 DEF TypeOK, MergeInv
<1> QED
  BY <1>1, <1>2, <1>3, MergeInvariant, PTL DEF Spec

\* What was collected is what the mode asks for.
Collected(opts, o) ==
  LET mode == ObjectMode(opts, o)
  IN  (IF mode = "explicit" THEN {} ELSE InferredEdges(opts, o))
      \cup (IF mode = "infer" THEN {} ELSE ExplicitEdges(opts, o))

CollectedInv ==
  /\ pc = "merge" => edges = Collected(options, object)
  /\ pc = "merge" => ObjectMode(options, object) # "disabled"
  /\ pc = "returned" => edges = IF ObjectMode(options, object) = "disabled" THEN {}
                                ELSE Collected(options, object)
  /\ pc = "collect" => ObjectMode(options, object) # "disabled"
  /\ pc \in {"idle", "collect"} => edges = {}

\* Nothing but Collect sets the edges, from the object it was called with.
LEMMA CollectedInvariant == Spec => []CollectedInv
<1>1. Init => CollectedInv
  BY DEF Init, CollectedInv
<1>2. CollectedInv /\ [Next]_vars => CollectedInv'
  <2> SUFFICES ASSUME CollectedInv, [Next]_vars PROVE CollectedInv'
    OBVIOUS
  <2>1. ASSUME NEW o \in Objects, Discover(o) PROVE CollectedInv'
    BY <2>1 DEF Discover, CollectedInv
  <2>2. CASE Collect
    BY <2>2 DEF Collect, CollectedInv, Collected
  <2>3. ASSUME NEW e \in edges, Merge(e) PROVE CollectedInv'
    BY <2>3 DEF Merge, CollectedInv
  <2>4. CASE Return
    BY <2>4 DEF Return, CollectedInv
  <2>5. CASE AppendWorkload
    BY <2>5 DEF AppendWorkload, CollectedInv
  <2>6. CASE UNCHANGED vars
    BY <2>6 DEF vars, CollectedInv
  <2> QED
    BY <2>1, <2>2, <2>3, <2>4, <2>5, <2>6 DEF Next
<1> QED
  BY <1>1, <1>2, PTL DEF Spec

\* Pull Secrets come from nowhere else.
LEMMA PullPlaces ==
  ASSUME NEW opts \in OptionType, NEW o \in ObjectType, o.kind \in PodSpecKind,
         NEW e \in Collected(opts, o), e.place[1] \in {"pull", "account"}
  PROVE  e \in PullEdges(opts, o)
<1>1. \A section \in ReadSections(opts) : \A f \in SpecEdges(o, section) : f.place[1] \in Section
  BY DEF SpecEdges, Inferred, Edge, ReadSections
<1>2. \A f \in ExplicitEdges(opts, o) : f.place[1] \in {"watch", "watchJSON"}
  BY DEF ExplicitEdges, TokenEdges, Edge
<1>3. InferredEdges(opts, o) = PodSpecEdges(opts, o)
  <2>1. o.kind \notin {"Ingress", "Certificate", "ExternalSecret", "SecretProviderClass",
                       "KafkaConnector", "Connector"}
    BY DEF PodSpecKind, TemplateKind
  <2> QED
    BY <2>1 DEF InferredEdges
<1>4. e \notin ExplicitEdges(opts, o)
  BY <1>2
<1>5. e \in PodSpecEdges(opts, o)
  BY <1>3, <1>4 DEF Collected
<1> DEFINE read == UNION {SpecEdges(o, section) : section \in ReadSections(opts)}
<1>6. \A f \in read : f.place[1] \in Section
  BY <1>1, Zenon
<1>7. PodSpecEdges(opts, o) = read \cup PullEdges(opts, o)
  BY DEF PodSpecEdges
<1> HIDE DEF read
<1>8. e \notin read
  BY <1>6 DEF Section
<1> QED
  BY <1>5, <1>7, <1>8

\* A Pod with pull Secrets of its own has none of its ServiceAccount's; one
\* without has all of them, but for those it ignores.
THEOREM PullSecretsFallBack == Spec => []PullSecretsHaveOneOrigin
<1>1. MergeInv /\ CollectedInv => PullSecretsHaveOneOrigin
  <2> DEFINE pull == object.spec.pull
             accounts == AccountPulls(options, object)
             From(place) == {e \in edges : e.place[1] = place}
  <2> SUFFICES ASSUME MergeInv, CollectedInv, pc = "returned", object.kind \in PodSpecKind
               PROVE  /\ pull # <<>> => From("account") = {}
                      /\ ~(From("pull") # {} /\ From("account") # {})
                      /\ pull = <<>> /\ options.imagePullSecrets
                           /\ ObjectMode(options, object) \in {"infer", "hybrid"} =>
                           \A i \in DOMAIN accounts :
                             [namespace |-> object.namespace, name |-> accounts[i]]
                               \in DOMAIN merged \cup Ignored(options, object)
    BY DEF PullSecretsHaveOneOrigin, Returned
  <2>1. options \in OptionType /\ object \in ObjectType
    BY DEF MergeInv
  <2>2. \A e \in edges : e.place[1] \in {"pull", "account"} => e \in PullEdges(options, object)
    <3> SUFFICES ASSUME NEW e \in edges, e.place[1] \in {"pull", "account"}
                 PROVE  e \in PullEdges(options, object)
      OBVIOUS
    <3>1. e \in Collected(options, object)
      BY DEF CollectedInv
    <3> QED
      BY <2>1, <3>1, PullPlaces
  <2>3. pull # <<>> => \A e \in PullEdges(options, object) : e.place[1] = "pull"
    BY DEF PullEdges, Inferred, Edge
  <2>4. pull = <<>> => \A e \in PullEdges(options, object) : e.place[1] = "account"
    BY DEF PullEdges, Inferred, Edge
  <2>5. ASSUME pull = <<>>, options.imagePullSecrets,
               ObjectMode(options, object) \in {"infer", "hybrid"}, NEW i \in DOMAIN accounts
        PROVE  [namespace |-> object.namespace, name |-> accounts[i]]
                 \in DOMAIN merged \cup Ignored(options, object)
    <3> DEFINE e == Inferred(object, accounts[i], FALSE, <<"account", i>>)
    <3>1. e \in PullEdges(options, object)
      BY <2>5 DEF PullEdges
    <3>2. PullEdges(options, object) \subseteq InferredEdges(options, object)
      <4>1. object.kind \notin {"Ingress", "Certificate", "ExternalSecret", "SecretProviderClass",
                                "KafkaConnector", "Connector"}
        BY DEF PodSpecKind, TemplateKind
      <4>2. InferredEdges(options, object) = PodSpecEdges(options, object)
        BY <4>1 DEF InferredEdges
      <4> QED
        BY <4>2 DEF PodSpecEdges
    <3>3. InferredEdges(options, object) \subseteq edges
      BY <2>5 DEF CollectedInv, Collected
    <3>4. e.secret = [namespace |-> object.namespace, name |-> accounts[i]]
      BY DEF Inferred, Edge
    <3>5. e.secret \in {f.secret : f \in edges}
      BY <3>1, <3>2, <3>3
    <3>6. DOMAIN merged = {f.secret : f \in edges} \ Ignored(options, object)
      BY SummariseStep DEF OneEdgePerSecret, Returned
    <3> QED
      BY <3>4, <3>5, <3>6
  <2>6. pull # <<>> => From("account") = {}
    BY <2>2, <2>3
  <2>7. pull = <<>> => From("pull") = {}
    BY <2>2, <2>4
  <2> QED
    BY <2>5, <2>6, <2>7
<1> QED
  BY <1>1, MergeInvariant, CollectedInvariant, PTL

\* Only the two explicit lists are places of the edges they name.
LEMMA InferredPlaces ==
  ASSUME NEW opts, NEW o \in ObjectType, NEW e \in InferredEdges(opts, o)
  PROVE  e.place[1] \notin {"watch", "watchJSON"}
<1>1. CASE o.kind \in PodSpecKind
  <2>1. o.kind \notin {"Ingress", "Certificate", "ExternalSecret", "SecretProviderClass",
                       "KafkaConnector", "Connector"}
    BY <1>1 DEF PodSpecKind, TemplateKind
  <2>2. e \in PodSpecEdges(opts, o)
    BY <1>1, <2>1 DEF InferredEdges
  <2>3. \A section \in ReadSections(opts) : \A f \in SpecEdges(o, section) : f.place[1] \in Section
    BY DEF SpecEdges, Inferred, Edge, ReadSections
  <2>4. \A f \in PullEdges(opts, o) : f.place[1] \in {"pull", "account"}
    BY DEF PullEdges, Inferred, Edge
  <2>5. \/ e \in PullEdges(opts, o)
        \/ \E section \in ReadSections(opts) : e \in SpecEdges(o, section)
    BY <2>2, Zenon DEF PodSpecEdges
  <2> QED
    BY <2>3, <2>4, <2>5 DEF Section
<1>2. CASE o.kind \notin PodSpecKind
  <2>1. o.kind \in {"Ingress", "Certificate", "ExternalSecret", "SecretProviderClass",
                    "KafkaConnector", "Connector"}
    BY <1>2 DEF ObjectType, CustomKind, ConnectorKind
  <2>2. e \in IngressEdges(o) \cup CertificateEdges(o) \cup ExternalSecretEdges(o)
               \cup SecretProviderClassEdges(o) \cup KafkaConnectorEdges(o) \cup ConnectorEdges(o)
    BY <1>2, <2>1 DEF InferredEdges
  <2>3. \A f \in IngressEdges(o) : f.place[1] = "targets"
    BY DEF IngressEdges, Inferred, Edge
  <2>4. \A f \in CertificateEdges(o) \cup SecretProviderClassEdges(o) : f.place[1] = "targets"
    BY <2>3 DEF CertificateEdges, SecretProviderClassEdges
  <2>5. \A f \in ExternalSecretEdges(o) : f.place[1] = "targets"
    BY <2>4 DEF ExternalSecretEdges, Inferred, Edge
  <2>6. \A f \in KafkaConnectorEdges(o) \cup SecretRefEdges(o) : f.place[1] = "targets"
    <3>1. \A tokens : \A f \in TokenEdges(o, tokens, "infer", "targets") : f.place[1] = "targets"
      BY DEF TokenEdges, Edge
    <3>2. \A f \in KafkaConnectorEdges(o) : f.place[1] = "targets"
      BY <3>1 DEF KafkaConnectorEdges
    <3> DEFINE unblanked == [i \in DOMAIN o.spec.targets |-> Unblanked(o.spec.targets[i])]
    <3>3. SecretRefEdges(o) = TokenEdges(o, unblanked, "infer", "targets")
      BY DEF SecretRefEdges
    <3> HIDE DEF unblanked
    <3>4. \A f \in SecretRefEdges(o) : f.place[1] = "targets"
      BY <3>1, <3>3
    <3> QED
      BY <3>2, <3>4
  <2>7. \A f \in MountedEdges(o) : f.place[1] = "mounted"
    BY DEF MountedEdges, Inferred, Edge
  <2> QED
    BY <2>2, <2>3, <2>4, <2>5, <2>6, <2>7 DEF ConnectorEdges
<1> QED
  BY <1>1, <1>2

\* A token of an explicit list is the place of one edge, that of its Secret.
LEMMA ExplicitPlaces ==
  ASSUME NEW opts, NEW o
  PROVE  LET a == Effective(opts, o).annotations
         IN  /\ \A i : \A e \in ExplicitEdges(opts, o) : e.place = <<"watch", i>> =>
                  /\ a.watch # Absent /\ i \in Watched(o, a.watch) /\ i \in DOMAIN a.watch
                  /\ ~Malformed(o, a.watch[i]) /\ e.secret = Resolved(o, a.watch[i])
             /\ a.watch # Absent =>
                  \A i \in Watched(o, a.watch) \cap DOMAIN a.watch : ~Malformed(o, a.watch[i]) =>
                    \E e \in ExplicitEdges(opts, o) : e.place = <<"watch", i>>
             /\ \A i : \A e \in ExplicitEdges(opts, o) : e.place = <<"watchJSON", i>> =>
                  /\ i \in DOMAIN a.watchJSON
                  /\ ~Malformed(o, a.watchJSON[i]) /\ e.secret = Resolved(o, a.watchJSON[i])
             /\ a.watchJSON \notin {Absent, NotJSON} =>
                  \A i \in DOMAIN a.watchJSON : ~Malformed(o, a.watchJSON[i]) =>
                    \E e \in ExplicitEdges(opts, o) : e.place = <<"watchJSON", i>>
<1> DEFINE a == Effective(opts, o).annotations
           Of(tokens, place, i) ==
             Edge(Resolved(o, tokens[i]).namespace, tokens[i].name, FALSE, "explicit", <<place, i>>)
           first == {e \in (IF a.watch = Absent THEN {}
                            ELSE TokenEdges(o, a.watch, "explicit", "watch"))
                       : e.place[2] \in Watched(o, a.watch)}
           second == IF a.watchJSON \in {Absent, NotJSON} THEN {}
                     ELSE TokenEdges(o, a.watchJSON, "explicit", "watchJSON")
<1>1. ExplicitEdges(opts, o) = first \cup second
  BY DEF ExplicitEdges
<1>2. \A tokens, place, i : /\ Of(tokens, place, i).place = <<place, i>>
                            /\ Of(tokens, place, i).secret = Resolved(o, tokens[i])
  BY DEF Edge, Resolved
<1>3. \A tokens, place : TokenEdges(o, tokens, "explicit", place)
                           = {Of(tokens, place, i) : i \in {j \in DOMAIN tokens : ~Malformed(o, tokens[j])}}
  BY DEF TokenEdges
<1> HIDE DEF a, Of
<1>4. ASSUME NEW e \in first
      PROVE  \E i \in DOMAIN a.watch :
               /\ a.watch # Absent /\ ~Malformed(o, a.watch[i]) /\ i \in Watched(o, a.watch)
               /\ e.place = <<"watch", i>> /\ e.secret = Resolved(o, a.watch[i])
  <2>1. a.watch # Absent /\ e \in TokenEdges(o, a.watch, "explicit", "watch")
        /\ e.place[2] \in Watched(o, a.watch)
    OBVIOUS
  <2>2. PICK i \in DOMAIN a.watch : ~Malformed(o, a.watch[i]) /\ e = Of(a.watch, "watch", i)
    BY <1>3, <2>1
  <2> QED
    BY <1>2, <2>1, <2>2
<1>5. ASSUME NEW e \in second
      PROVE  \E i \in DOMAIN a.watchJSON :
               /\ ~Malformed(o, a.watchJSON[i])
               /\ e.place = <<"watchJSON", i>> /\ e.secret = Resolved(o, a.watchJSON[i])
  <2>1. e \in TokenEdges(o, a.watchJSON, "explicit", "watchJSON")
    OBVIOUS
  <2>2. PICK i \in DOMAIN a.watchJSON :
          ~Malformed(o, a.watchJSON[i]) /\ e = Of(a.watchJSON, "watchJSON", i)
    BY <1>3, <2>1
  <2> QED
    BY <1>2, <2>2
<1>6. ASSUME a.watch # Absent, NEW i \in Watched(o, a.watch) \cap DOMAIN a.watch,
             ~Malformed(o, a.watch[i])
      PROVE  Of(a.watch, "watch", i) \in first
  BY <1>2, <1>3, <1>6
<1>7. ASSUME a.watchJSON \notin {Absent, NotJSON}, NEW i \in DOMAIN a.watchJSON,
             ~Malformed(o, a.watchJSON[i])
      PROVE  Of(a.watchJSON, "watchJSON", i) \in second
  BY <1>3, <1>7
<1> HIDE DEF first, second
<1>8. \A i : \A e \in ExplicitEdges(opts, o) : e.place = <<"watch", i>> =>
        /\ a.watch # Absent /\ i \in Watched(o, a.watch) /\ i \in DOMAIN a.watch
        /\ ~Malformed(o, a.watch[i]) /\ e.secret = Resolved(o, a.watch[i])
  BY <1>1, <1>4, <1>5
<1>9. \A i : \A e \in ExplicitEdges(opts, o) : e.place = <<"watchJSON", i>> =>
        /\ i \in DOMAIN a.watchJSON
        /\ ~Malformed(o, a.watchJSON[i]) /\ e.secret = Resolved(o, a.watchJSON[i])
  BY <1>1, <1>4, <1>5
<1>10. a.watch # Absent =>
         \A i \in Watched(o, a.watch) \cap DOMAIN a.watch : ~Malformed(o, a.watch[i]) =>
           \E e \in ExplicitEdges(opts, o) : e.place = <<"watch", i>>
  BY <1>1, <1>2, <1>6
<1>11. a.watchJSON \notin {Absent, NotJSON} =>
         \A i \in DOMAIN a.watchJSON : ~Malformed(o, a.watchJSON[i]) =>
           \E e \in ExplicitEdges(opts, o) : e.place = <<"watchJSON", i>>
  BY <1>1, <1>2, <1>7
<1> QED
  BY <1>8, <1>9, <1>10, <1>11 DEF a

\* A place is shown exactly when an edge has it whose Secret is not ignored.
LEMMA ShownPlaces ==
  ASSUME OneEdgePerSecret, Returned, NEW o, NEW tokens, NEW place, NEW i \in DOMAIN tokens
  PROVE  i \in Shown(o, tokens, place)
           <=> \E e \in edges : /\ e.place = <<place, i>>
                                /\ e.secret \notin Ignored(options, object)
<1>1. \A s \in DOMAIN merged : merged[s].places = {e.place : e \in References(s, edges)}
  BY DEF OneEdgePerSecret, Summary
<1>2. DOMAIN merged = {e.secret : e \in edges} \ Ignored(options, object)
  BY DEF OneEdgePerSecret
<1>3. i \in Shown(o, tokens, place)
        <=> \E s \in DOMAIN merged : \E e \in References(s, edges) : e.place = <<place, i>>
  BY <1>1 DEF Shown
<1> QED
  BY <1>2, <1>3 DEF References

\* No malformed token is shown, each well-formed one of watch-secrets-json is,
\* and so is a watch-secrets that is well-formed, but for the Secrets that the
\* object names to be ignored.
THEOREM ExplicitListsRead == Spec => []ExplicitListsAreShown
<1>1. MergeInv /\ CollectedInv => ExplicitListsAreShown
  <2> DEFINE a == Effective(options, object).annotations
             Valid(tokens) == {i \in DOMAIN tokens : ~Malformed(object, tokens[i])}
             Kept(tokens) == {i \in Valid(tokens) :
                                Resolved(object, tokens[i]) \notin NamedToIgnore(object)}
             Left(tokens) == {i \in DOMAIN tokens : /\ ~Malformed(object, tokens[i])
                                                   /\ Resolved(object, tokens[i])
                                                        \notin Ignored(options, object)}
  <2> SUFFICES ASSUME MergeInv, CollectedInv, Returned,
                      ObjectMode(options, object) \in {"explicit", "hybrid"}
               PROVE  /\ a.watch # Absent =>
                           /\ Shown(object, a.watch, "watch") \subseteq Valid(a.watch)
                           /\ WellFormed(object, a.watch) =>
                                Kept(a.watch) \subseteq Shown(object, a.watch, "watch")
                      /\ a.watchJSON \notin {Absent, NotJSON} =>
                           /\ Shown(object, a.watchJSON, "watchJSON") \subseteq Valid(a.watchJSON)
                           /\ Kept(a.watchJSON) \subseteq Shown(object, a.watchJSON, "watchJSON")
    BY DEF ExplicitListsAreShown
  <2>1. object \in ObjectType /\ OneEdgePerSecret
    BY SummariseStep DEF MergeInv, Returned
  <2>2. edges = Collected(options, object)
    BY DEF CollectedInv, Returned
  <2>3. \A e \in edges : /\ e \in ExplicitEdges(options, object)
                         \/ e.place[1] \notin {"watch", "watchJSON"}
    BY <2>1, <2>2, InferredPlaces DEF Collected
  <2>4. ExplicitEdges(options, object) \subseteq edges
    BY <2>2 DEF Collected
  <2>5. ASSUME NEW i, NEW place \in {"watch", "watchJSON"}
        PROVE  \A e \in edges : e.place = <<place, i>> => e \in ExplicitEdges(options, object)
    BY <2>3
  <2>6. ASSUME NEW tokens, NEW place, NEW i \in DOMAIN tokens
        PROVE  i \in Shown(object, tokens, place)
                 <=> \E e \in edges : /\ e.place = <<place, i>>
                                      /\ e.secret \notin Ignored(options, object)
    BY <2>1, ShownPlaces
  <2> HIDE DEF a
  <2>7. ASSUME a.watch # Absent
        PROVE  Shown(object, a.watch, "watch")
                 = IF WellFormed(object, a.watch) THEN Left(a.watch) ELSE {}
    <3>1. Watched(object, a.watch) = IF WellFormed(object, a.watch) THEN DOMAIN a.watch ELSE {}
      BY <2>7 DEF Watched, WellFormed
    <3>2. ASSUME NEW i \in DOMAIN a.watch
          PROVE  i \in Shown(object, a.watch, "watch")
                   <=> /\ i \in Watched(object, a.watch) /\ ~Malformed(object, a.watch[i])
                       /\ Resolved(object, a.watch[i]) \notin Ignored(options, object)
      <4>1. i \in Shown(object, a.watch, "watch")
              <=> \E e \in edges : /\ e.place = <<"watch", i>>
                                   /\ e.secret \notin Ignored(options, object)
        BY <2>6
      <4>2. \A e \in edges : e.place = <<"watch", i>> => e \in ExplicitEdges(options, object)
        BY <2>5
      <4>3. \A e \in ExplicitEdges(options, object) : e.place = <<"watch", i>> =>
              /\ i \in Watched(object, a.watch) /\ ~Malformed(object, a.watch[i])
              /\ e.secret = Resolved(object, a.watch[i])
        BY ExplicitPlaces DEF a
      <4>4. i \in Watched(object, a.watch) /\ ~Malformed(object, a.watch[i]) =>
              \E e \in ExplicitEdges(options, object) : e.place = <<"watch", i>>
        BY <2>7, ExplicitPlaces DEF a
      <4> QED
        BY <2>4, <4>1, <4>2, <4>3, <4>4
    <3>3. Shown(object, a.watch, "watch") \subseteq DOMAIN a.watch
      BY DEF Shown
    <3> QED
      BY <3>1, <3>2, <3>3
  <2>8. ASSUME a.watchJSON \notin {Absent, NotJSON}
        PROVE  Shown(object, a.watchJSON, "watchJSON") = Left(a.watchJSON)
    <3>1. ASSUME NEW i \in DOMAIN a.watchJSON
          PROVE  i \in Shown(object, a.watchJSON, "watchJSON")
                   <=> /\ ~Malformed(object, a.watchJSON[i])
                       /\ Resolved(object, a.watchJSON[i]) \notin Ignored(options, object)
      <4>1. i \in Shown(object, a.watchJSON, "watchJSON")
              <=> \E e \in edges : /\ e.place = <<"watchJSON", i>>
                                   /\ e.secret \notin Ignored(options, object)
        BY <2>6
      <4>2. \A e \in edges : e.place = <<"watchJSON", i>> => e \in ExplicitEdges(options, object)
        BY <2>5
      <4>3. \A e \in ExplicitEdges(options, object) : e.place = <<"watchJSON", i>> =>
              /\ ~Malformed(object, a.watchJSON[i])
              /\ e.secret = Resolved(object, a.watchJSON[i])
        BY ExplicitPlaces DEF a
      <4>4. ~Malformed(object, a.watchJSON[i]) =>
              \E e \in ExplicitEdges(options, object) : e.place = <<"watchJSON", i>>
        BY <2>8, ExplicitPlaces DEF a
      <4> QED
        BY <2>4, <4>1, <4>2, <4>3, <4>4
    <3>2. Shown(object, a.watchJSON, "watchJSON") \subseteq DOMAIN a.watchJSON
      BY DEF Shown
    <3> QED
      BY <3>1, <3>2
  <2>9. ASSUME NEW tokens
        PROVE  Left(tokens) \subseteq Valid(tokens) /\ Kept(tokens) \subseteq Left(tokens)
    BY IgnoredAreNamed
  <2> QED
    BY <2>7, <2>8, <2>9 DEF a
<1> QED
  BY <1>1, MergeInvariant, CollectedInvariant, PTL

\* The annotation in effect says what the object's does, or the template's if
\* the object has none.
LEMMA AnnotationSays ==
  ASSUME NEW o \in ObjectType, NEW opts
  PROVE  Says(o, Effective(opts, o).annotations.ownerTeam)
           = IF o.own.annotations.ownerTeam # Absent THEN Says(o, o.own.annotations.ownerTeam)
             ELSE IF ReadsTemplate(opts, o) THEN Says(o, o.template.annotations.ownerTeam)
             ELSE Blank
<1> DEFINE own == o.own.annotations.ownerTeam
           given == Effective(opts, o).annotations.ownerTeam
<1>1. o.own.annotations \in Annotations /\ o.template.annotations \in Annotations
  BY DEF ObjectType, Metadata
<1>2. CASE ReadsTemplate(opts, o)
  <2>1. Effective(opts, o).annotations = Override(o.own.annotations, o.template.annotations)
    BY <1>2 DEF Effective
  <2>2. given = IF own # Absent THEN own ELSE o.template.annotations.ownerTeam
    BY <1>1, <2>1 DEF Override, Annotations
  <2> QED
    BY <1>2, <2>2
<1>3. CASE ~ReadsTemplate(opts, o)
  <2>1. given = own
    BY <1>3 DEF Effective
  <2> QED
    BY <1>3, <2>1 DEF Says
<1> QED
  BY <1>2, <1>3

\* The owner is what the annotation in effect says, else the first label of the
\* kinds that look at labels.
LEMMA OwnerSays ==
  ASSUME NEW o, NEW opts
  PROVE  LET said == Says(o, Effective(opts, o).annotations.ownerTeam)
         IN  OwnerTeam(opts, o)
               = IF said # Blank THEN said
                 ELSE IF opts.metadataLabels /\ o.kind \notin ConnectorKind
                      THEN FirstLabel(Effective(opts, o).labels) ELSE Blank
BY DEF OwnerTeam, Says, ConnectorOwner

\* The labels in effect and those that the object and its template declare.
LEMMA LabelsDeclared ==
  ASSUME NEW o \in ObjectType, NEW k \in 1..LabelKeys
  PROVE  LET label == Effective(options, o).labels[k]
             named == k \in Named(Effective(options, o).labels)
         IN  /\ named => label \in LabelledAt(o, k)
             /\ o.own.labels[k] \in Team => named /\ label = o.own.labels[k]
             /\ o.own.labels[k] # Blank /\ ~named => LabelledAt(o, k) = {}
<1> DEFINE t == ReadsTemplate(options, o)
           labels == Effective(options, o).labels
           own == o.own.labels[k]
           template == o.template.labels[k]
<1>1. labels \in Labels /\ o.own.labels \in Labels /\ o.template.labels \in Labels
  BY LabelsOverridden
<1>2. labels[k] = IF t /\ own = Absent THEN template ELSE own
  BY LabelsOverridden
<1>3. /\ own \in Team \cup {Blank, Absent} /\ template \in Team \cup {Blank, Absent}
      /\ k \in Named(labels) <=> labels[k] \notin {Blank, Absent}
  BY <1>1 DEF Labels, Named
<1>4. Blank \notin Team /\ Absent \notin Team
  BY ValueAssumption
<1>5. LabelledAt(o, k) = ({own} \cup IF t THEN {template} ELSE {}) \cap Team
  BY DEF LabelledAt
<1> HIDE DEF t, labels, own, template
<1>6. /\ k \in Named(labels) => labels[k] \in LabelledAt(o, k)
      /\ own \in Team => k \in Named(labels) /\ labels[k] = own
      /\ own # Blank /\ k \notin Named(labels) => LabelledAt(o, k) = {}
  BY <1>2, <1>3, <1>4, <1>5
<1> QED
  BY <1>6 DEF labels, own

\* The owner is the one that the object, its template or their labels name.
LEMMA OwnerOfObject ==
  ASSUME NEW o \in ObjectType
  PROVE  LET team     == OwnerTeam(options, o)
             own      == Says(o, o.own.annotations.ownerTeam)
             template == IF ReadsTemplate(options, o)
                         THEN Says(o, o.template.annotations.ownerTeam) ELSE Blank
             keys     == IF options.metadataLabels /\ o.kind \notin ConnectorKind
                         THEN 1..LabelKeys ELSE {}
         IN  /\ team \in {Blank, own, template} \cup UNION {LabelledAt(o, k) : k \in keys}
             /\ own # Blank => team = own
             /\ o.own.annotations.ownerTeam = Absent /\ template # Blank => team = template
             /\ own = Blank /\ template = Blank =>
                  \A k \in keys :
                    /\ o.own.labels[k] \in Team
                    /\ \A j \in 1..(k - 1) : LabelledAt(o, j) = {}
                    => team = o.own.labels[k]
             /\ team = Blank =>
                  \A k \in keys : o.own.labels[k] # Blank => LabelledAt(o, k) = {}
<1> DEFINE team == OwnerTeam(options, o)
           own == Says(o, o.own.annotations.ownerTeam)
           template == IF ReadsTemplate(options, o)
                       THEN Says(o, o.template.annotations.ownerTeam) ELSE Blank
           reads == options.metadataLabels /\ o.kind \notin ConnectorKind
           keys == IF reads THEN 1..LabelKeys ELSE {}
           labels == Effective(options, o).labels
           said == IF o.own.annotations.ownerTeam # Absent THEN own ELSE template
<1>1. team = IF said # Blank THEN said ELSE IF reads THEN FirstLabel(labels) ELSE Blank
  BY AnnotationSays, OwnerSays
<1>2. o.own.annotations.ownerTeam = Absent => own = Blank
  BY DEF Says
<1>3. labels \in Labels
  BY LabelsOverridden
<1>4. /\ Named(labels) \subseteq 1..LabelKeys
      /\ Named(labels) = {} => FirstLabel(labels) = Blank
      /\ Named(labels) # {} => FirstLabel(labels) \in {labels[k] : k \in Named(labels)}
      /\ \A k \in Named(labels) :
           (\A j \in Named(labels) : k <= j) => FirstLabel(labels) = labels[k]
  BY <1>3, FirstLabelNames
<1>5. \A k \in Named(labels) : labels[k] # Blank
  BY DEF Named
<1>6. \A k \in 1..LabelKeys :
        /\ k \in Named(labels) => labels[k] \in LabelledAt(o, k)
        /\ o.own.labels[k] \in Team => k \in Named(labels) /\ labels[k] = o.own.labels[k]
        /\ o.own.labels[k] # Blank /\ k \notin Named(labels) => LabelledAt(o, k) = {}
  BY LabelsDeclared
<1> HIDE DEF team, own, template, reads, labels
<1>7. team \in {Blank, own, template} \cup UNION {LabelledAt(o, k) : k \in keys}
  <2>1. CASE said = Blank /\ reads /\ Named(labels) # {}
    <3>1. PICK k \in Named(labels) : team = labels[k]
      BY <1>1, <1>4, <2>1
    <3>2. k \in keys /\ team \in LabelledAt(o, k)
      BY <1>4, <1>6, <2>1, <3>1
    <3> QED
      BY <3>2
  <2>2. CASE ~(said = Blank /\ reads /\ Named(labels) # {})
    BY <1>1, <1>4, <2>2
  <2> QED
    BY <2>1, <2>2
<1>8. own # Blank => team = own
  BY <1>1, <1>2
<1>9. o.own.annotations.ownerTeam = Absent /\ template # Blank => team = template
  BY <1>1
<1>10. ASSUME own = Blank, template = Blank, NEW k \in keys, o.own.labels[k] \in Team,
              \A j \in 1..(k - 1) : LabelledAt(o, j) = {}
       PROVE  team = o.own.labels[k]
  <2>1. k \in 1..LabelKeys /\ team = FirstLabel(labels)
    BY <1>1, <1>10
  <2>2. k \in Named(labels) /\ labels[k] = o.own.labels[k]
    BY <1>6, <1>10, <2>1
  <2>3. ASSUME NEW j \in Named(labels) PROVE k <= j
    <3>1. j \in 1..LabelKeys /\ LabelledAt(o, j) # {}
      BY <1>4, <1>6
    <3>2. j \notin 1..(k - 1)
      BY <1>10, <3>1
    <3> QED
      BY <2>1, <3>1, <3>2, ValueAssumption
  <2> QED
    BY <1>4, <2>1, <2>2, <2>3
<1>11. ASSUME team = Blank, NEW k \in keys, o.own.labels[k] # Blank
       PROVE  LabelledAt(o, k) = {}
  <2>1. k \in 1..LabelKeys /\ FirstLabel(labels) = Blank
    BY <1>1, <1>11
  <2>2. Named(labels) = {}
    BY <1>4, <1>5, <2>1
  <2> QED
    BY <1>6, <1>11, <2>1, <2>2
<1> QED
  BY <1>7, <1>8, <1>9, <1>10, <1>11 DEF team, own, template, reads

\* The owner of a workload is computed once, from the object that it is made of.
OwnerInv == pc # "idle" => owner = OwnerTeam(options, object)

\* The owner that impact is attributed to is declared, and declared before any
\* other; an unowned workload declares none.
THEOREM OwnersDeclared == Spec => []OwnerIsDeclared
<1>1. Init => OwnerInv
  BY DEF Init, OwnerInv
<1>2. OwnerInv /\ [Next]_vars => OwnerInv'
  <2> SUFFICES ASSUME OwnerInv, [Next]_vars PROVE OwnerInv'
    OBVIOUS
  <2>1. ASSUME NEW o \in Objects, Discover(o) PROVE OwnerInv'
    BY <2>1 DEF Discover, OwnerInv
  <2>2. CASE Collect
    BY <2>2 DEF Collect, OwnerInv
  <2>3. ASSUME NEW e \in edges, Merge(e) PROVE OwnerInv'
    BY <2>3 DEF Merge, OwnerInv
  <2>4. CASE Return
    BY <2>4 DEF Return, OwnerInv
  <2>5. CASE AppendWorkload
    BY <2>5 DEF AppendWorkload, OwnerInv
  <2>6. CASE UNCHANGED vars
    BY <2>6 DEF vars, OwnerInv
  <2> QED
    BY <2>1, <2>2, <2>3, <2>4, <2>5, <2>6 DEF Next
<1>3. MergeInv /\ OwnerInv => OwnerIsDeclared
  <2>1. ASSUME MergeInv, OwnerInv, Returned
        PROVE  object \in ObjectType /\ owner = OwnerTeam(options, object)
    BY <2>1 DEF MergeInv, OwnerInv, Returned
  <2> QED
    BY <2>1, OwnerOfObject DEF OwnerIsDeclared
<1> QED
  BY <1>1, <1>2, <1>3, MergeInvariant, PTL DEF Spec

=============================================================================
