------------------------------ MODULE Discovery ------------------------------
(***************************************************************************)
(* Discovery of the Secrets one object refers to: internal/discovery.      *)
(* rebuild calls WorkloadFrom<Kind> with every object it has listed and    *)
(* gets back the workload's owner and one edge per Secret.  The references *)
(* come from the object itself (inferred) and from annotations (explicit), *)
(* and filterAndMergeEdges folds them into edges one by one.               *)
(*                                                                         *)
(* A name is a value or Blank, what strings.TrimSpace leaves of it, except *)
(* the owner annotation, which not every kind trims; values a map need not *)
(* have are Absent.  A token of an annotation is the pair   *)
(* that parseSecretRef splits it into; its key, which edges do not keep,   *)
(* is left out.  The edges of an object are a set, each with the place it  *)
(* comes from, and are merged in any order.                                *)
(***************************************************************************)
EXTENDS Naturals, Sequences

CONSTANTS
  Namespace, Name, Team,  \* non-blank values
  RawTeam, Trim,          \* owner annotations, and what is left without spaces
  Blank, Absent, NotJSON, \* model values
  LabelKeys,              \* the number of label keys configured for the owner
  Options,                \* the discovery options an agent may run with
  Objects                 \* the objects that may be listed

\* The workloads whose Pods are made from a template, which the object carries.
TemplateKind == {"Deployment", "StatefulSet", "DaemonSet", "Job", "CronJob"}
PodSpecKind  == TemplateKind \cup {"Pod"}
ConnectorKind == {"KafkaConnector", "Connector"}
CustomKind   == {"Certificate", "ExternalSecret", "SecretProviderClass"} \cup ConnectorKind

Token == [namespace : Namespace \cup {Blank, Absent}, name : Name \cup {Blank}]
Secret == [namespace : Namespace, name : Name]

Mode == {"infer", "explicit", "hybrid", "disabled"}

\* What an annotation may hold: "other" is a value the code does not know, and
\* a list of tokens is the value split at its commas, or the elements of the
\* JSON array.  A blank list is <<>>.
Annotations ==
  [enabled   : {Absent, "false", "other"},
   mode      : Mode \cup {Absent, "other"},
   watch     : Seq(Token) \cup {Absent},
   watchJSON : Seq(Token) \cup {Absent, NotJSON},
   ignore    : Seq(Token) \cup {Absent},
   ownerTeam : RawTeam \cup {Absent}]

\* The labels that may name the owner, in the order their keys are configured.
Labels == [1..LabelKeys -> Team \cup {Blank, Absent}]

Metadata == [annotations : Annotations, labels : Labels]

\* The references of a Pod spec: env and envFrom container by container, the
\* volumes, and the names of its pull Secrets.
Reference == [name : Name \cup {Blank}, optional : BOOLEAN]
Section == {"containers", "initContainers", "ephemeralContainers", "volumes", "projected"}
PodSpec ==
  [refs : [Section -> Seq(Reference)], pull : Seq(Name \cup {Blank}), account : Name \cup {Blank}]

\* The references of the other kinds, in document order.  For a Connector,
\* targets are the secretRefs below spec.connectRest.authentication and mounted
\* the Secrets of the ${file:/mnt/secrets/...} values.
TargetSpec == [targets : Seq(Token), mounted : Seq(Name \cup {Blank})]

ObjectType ==
  [kind : PodSpecKind, namespace : Namespace, name : Name, own : Metadata,
   template : Metadata, spec : PodSpec]
  \cup
  [kind : CustomKind \cup {"Ingress"}, namespace : Namespace, name : Name, own : Metadata,
   template : Metadata, spec : TargetSpec]

\* accounts are the non-blank pull Secrets of each listed ServiceAccount.
DefaultAccount == "default"
OptionType ==
  [defaultMode : Mode \cup {Blank}, imagePullSecrets : BOOLEAN, initContainers : BOOLEAN,
   ephemeralContainers : BOOLEAN, templateMetadata : BOOLEAN, metadataLabels : BOOLEAN,
   accounts : [Namespace -> [Name \cup {DefaultAccount} -> Seq(Name)]]]

ASSUME TypeAssumption == Objects \subseteq ObjectType /\ Options \subseteq OptionType
ASSUME ValueAssumption ==
  /\ LabelKeys \in Nat
  /\ Blank \notin Name \cup Namespace \cup Team
  /\ Absent \notin Name \cup Namespace \cup RawTeam
  /\ Team \cup {Blank} \subseteq RawTeam
  /\ Trim \in [RawTeam -> Team \cup {Blank}]
  /\ \A t \in Team \cup {Blank} : Trim[t] = t

VARIABLES
  options,  \* the options of this agent
  pc,       \* the step of WorkloadFrom<Kind>
  object,   \* its argument
  owner,    \* the team of the result
  edges,    \* the edges collected
  rest,     \* those not yet merged
  merged    \* the edges of the result, by Secret

vars == <<options, pc, object, owner, edges, rest, merged>>

-----------------------------------------------------------------------------
(* Metadata.                                                               *)

\* effectiveAnnotations and effectiveLabels: the template's, overridden key by
\* key by the object's, also where the object's value is blank or unknown.
Override(own, template) ==
  [k \in DOMAIN own |-> IF own[k] # Absent THEN own[k] ELSE template[k]]

ReadsTemplate(opts, o) == o.kind \in TemplateKind /\ opts.templateMetadata

Effective(opts, o) ==
  IF ReadsTemplate(opts, o)
  THEN [annotations |-> Override(o.own.annotations, o.template.annotations),
        labels      |-> Override(o.own.labels, o.template.labels)]
  ELSE o.own

\* discoveryModeFor.
ModeFor(annotations, fallback) ==
  IF annotations.enabled = "false" THEN "disabled"
  ELSE IF annotations.mode \in Mode THEN annotations.mode
  ELSE IF fallback = Blank THEN "hybrid" ELSE fallback

ObjectMode(opts, o) == ModeFor(Effective(opts, o).annotations, opts.defaultMode)

Named(values) == {i \in DOMAIN values : values[i] \notin {Blank, Absent}}

\* firstLabelValue.
FirstLabel(labels) ==
  IF Named(labels) = {} THEN Blank
  ELSE labels[CHOOSE i \in Named(labels) : \A j \in Named(labels) : i <= j]

\* The two connectors take the annotation as it is, and no label
\* (kafkaconnector.go:57, confluentconnector.go:58).
ConnectorOwner(given) == IF given = Absent THEN Blank ELSE given

\* Bug: the labels are looked at in the template first.
OwnerTeamTemplateFirst(opts, o) ==
  LET m == Effective(opts, o)
      given == m.annotations.ownerTeam
  IN  IF o.kind \in ConnectorKind THEN ConnectorOwner(given)
      ELSE IF given # Absent /\ Trim[given] # Blank THEN Trim[given]
      ELSE IF ~opts.metadataLabels THEN Blank
      ELSE IF ReadsTemplate(opts, o) /\ Named(o.template.labels) # {}
           THEN FirstLabel(o.template.labels) ELSE FirstLabel(m.labels)

\* metadataValue, for the other kinds.
OwnerTeam(opts, o) ==
  LET m == Effective(opts, o)
      given == m.annotations.ownerTeam
  IN  IF o.kind \in ConnectorKind THEN ConnectorOwner(given)
      ELSE IF given # Absent /\ Trim[given] # Blank THEN Trim[given]
      ELSE IF opts.metadataLabels THEN FirstLabel(m.labels) ELSE Blank

-----------------------------------------------------------------------------
(* The references of an object.                                            *)

\* newEdge: place tells the sources of an edge apart.
Edge(namespace, name, optional, mode, place) ==
  [secret   |-> [namespace |-> namespace, name |-> name],
   optional |-> optional, mode |-> mode, place |-> place]

Inferred(o, name, optional, place) == Edge(o.namespace, name, optional, "infer", place)

\* The sections of the Pod spec that are read: inferPodSpecEdges.
ReadSections(opts) ==
  Section \ ((IF opts.initContainers THEN {} ELSE {"initContainers"})
             \cup (IF opts.ephemeralContainers THEN {} ELSE {"ephemeralContainers"}))

\* containerEdges and the two loops over the volumes.
SpecEdges(o, section) ==
  LET refs == o.spec.refs[section]
  IN  {Inferred(o, refs[i].name, refs[i].optional, <<section, i>>)
         : i \in {j \in DOMAIN refs : refs[j].name # Blank}}

\* serviceAccountNameForPodSpec, serviceAccountImagePullSecretNames.
AccountPulls(opts, o) ==
  opts.accounts[o.namespace][IF o.spec.account = Blank THEN DefaultAccount ELSE o.spec.account]

\* Bug: the account's pull Secrets are added to the Pod's own.
PullEdgesOfBoth(opts, o) ==
  IF ~opts.imagePullSecrets THEN {}
  ELSE {Inferred(o, o.spec.pull[i], FALSE, <<"pull", i>>) : i \in Named(o.spec.pull)}
       \cup {Inferred(o, AccountPulls(opts, o)[i], FALSE, <<"account", i>>)
               : i \in DOMAIN AccountPulls(opts, o)}

\* The Pod's pull Secrets, or its account's if it lists none, blank or not.
PullEdges(opts, o) ==
  IF ~opts.imagePullSecrets THEN {}
  ELSE IF o.spec.pull = <<>>
  THEN {Inferred(o, AccountPulls(opts, o)[i], FALSE, <<"account", i>>)
          : i \in DOMAIN AccountPulls(opts, o)}
  ELSE {Inferred(o, o.spec.pull[i], FALSE, <<"pull", i>>) : i \in Named(o.spec.pull)}

PodSpecEdges(opts, o) ==
  (UNION {SpecEdges(o, section) : section \in ReadSections(opts)}) \cup PullEdges(opts, o)

\* Ingress.spec.tls, Certificate.spec.secretName and each of
\* SecretProviderClass.spec.secretObjects name Secrets of their own namespace.
IngressEdges(o) ==
  {Inferred(o, o.spec.targets[i].name, FALSE, <<"targets", i>>)
     : i \in {j \in DOMAIN o.spec.targets : o.spec.targets[j].name # Blank}}
CertificateEdges(o) == {e \in IngressEdges(o) : e.place[2] = 1}
SecretProviderClassEdges(o) == IngressEdges(o)

\* ExternalSecret.spec.target.name, or the object's own name.
ExternalSecretEdges(o) ==
  IF CertificateEdges(o) # {} THEN CertificateEdges(o)
  ELSE {Inferred(o, o.name, FALSE, <<"targets", 1>>)}

\* A token with a namespace of its own or that of the object: an unqualified
\* one is not the same as one whose namespace is blank.
Resolved(o, token) ==
  [namespace |-> IF token.namespace = Absent THEN o.namespace ELSE token.namespace,
   name      |-> token.name]
Malformed(o, token) == Resolved(o, token) \notin Secret

TokenEdges(o, tokens, mode, place) ==
  {Edge(Resolved(o, tokens[i]).namespace, tokens[i].name, FALSE, mode, <<place, i>>)
     : i \in {j \in DOMAIN tokens : ~Malformed(o, tokens[j])}}

\* ${secrets:namespace/name:key} in the values of spec.config.
KafkaConnectorEdges(o) == TokenEdges(o, o.spec.targets, "infer", "targets")

\* parseConfluentConnectorSecretRef: a secretRef whose namespace is blank means
\* the object's namespace, as if it had none.
Unblanked(token) == IF token.namespace = Blank THEN [token EXCEPT !.namespace = Absent] ELSE token

SecretRefEdges(o) ==
  TokenEdges(o, [i \in DOMAIN o.spec.targets |-> Unblanked(o.spec.targets[i])], "infer", "targets")
MountedEdges(o) ==
  {Inferred(o, o.spec.mounted[i], FALSE, <<"mounted", i>>) : i \in Named(o.spec.mounted)}

ConnectorEdges(o) == SecretRefEdges(o) \cup MountedEdges(o)

InferredEdges(opts, o) ==
  CASE o.kind \in PodSpecKind          -> PodSpecEdges(opts, o)
    [] o.kind = "Ingress"              -> IngressEdges(o)
    [] o.kind = "Certificate"          -> CertificateEdges(o)
    [] o.kind = "ExternalSecret"       -> ExternalSecretEdges(o)
    [] o.kind = "SecretProviderClass"  -> SecretProviderClassEdges(o)
    [] o.kind = "KafkaConnector"       -> KafkaConnectorEdges(o)
    [] o.kind = "Connector"            -> ConnectorEdges(o)

-----------------------------------------------------------------------------
(* Annotations.                                                            *)

\* ParseWatchSecrets: one malformed token invalidates the whole list.
Watched(o, tokens) ==
  IF tokens = Absent \/ \E i \in DOMAIN tokens : Malformed(o, tokens[i]) THEN {}
  ELSE DOMAIN tokens

\* Bug: a malformed token invalidates the JSON array, too.
ExplicitEdgesAllOrNothing(opts, o) ==
  LET a == Effective(opts, o).annotations
  IN  {e \in (IF a.watch = Absent THEN {} ELSE TokenEdges(o, a.watch, "explicit", "watch"))
         : e.place[2] \in Watched(o, a.watch)}
      \cup {e \in (IF a.watchJSON \in {Absent, NotJSON} THEN {}
                   ELSE TokenEdges(o, a.watchJSON, "explicit", "watchJSON"))
              : e.place[2] \in Watched(o, a.watchJSON)}

\* explicitAnnotationEdges: of the JSON array malformed tokens are skipped.
ExplicitEdges(opts, o) ==
  LET a == Effective(opts, o).annotations
  IN  {e \in (IF a.watch = Absent THEN {} ELSE TokenEdges(o, a.watch, "explicit", "watch"))
         : e.place[2] \in Watched(o, a.watch)}
      \cup (IF a.watchJSON \in {Absent, NotJSON} THEN {}
            ELSE TokenEdges(o, a.watchJSON, "explicit", "watchJSON"))

\* Bug: Secrets are ignored by name, in whatever namespace.
IgnoredByName(opts, o) ==
  LET a == Effective(opts, o).annotations
  IN  {s \in Secret : \E i \in Watched(o, a.ignore) : a.ignore[i].name = s.name}

\* ignoredSecrets.
Ignored(opts, o) ==
  LET a == Effective(opts, o).annotations
  IN  {Resolved(o, a.ignore[i]) : i \in Watched(o, a.ignore)}

-----------------------------------------------------------------------------
(* Discovery of one object after another.                                  *)

Nothing == [secret \in {} |-> {}]

Init ==
  /\ options \in Options
  /\ pc = "idle"
  /\ object = Absent
  /\ owner = Blank
  /\ edges = {}
  /\ rest = {}
  /\ merged = Nothing

\* rebuild goes on to an object of its lists.
Discover(o) ==
  /\ pc = "idle"
  /\ object' = o
  /\ owner' = OwnerTeam(options, o)
  /\ pc' = IF ObjectMode(options, o) = "disabled" THEN "returned" ELSE "collect"
  /\ UNCHANGED <<options, edges, rest, merged>>

Collect ==
  /\ pc = "collect"
  /\ LET mode == ObjectMode(options, object)
     IN  edges' = (IF mode = "explicit" THEN {} ELSE InferredEdges(options, object))
                  \cup (IF mode = "infer" THEN {} ELSE ExplicitEdges(options, object))
  /\ rest' = edges'
  /\ pc' = "merge"
  /\ UNCHANGED <<options, object, owner, merged>>

\* The edge of a Secret from its first reference, and from one more.
First(e) == [optional |-> e.optional, mode |-> e.mode, places |-> {e.place}]

\* Bug: the last reference decides whether the Secret is optional.
JoinLast(known, e) ==
  [optional |-> e.optional,
   mode     |-> IF known.mode = e.mode THEN e.mode ELSE "hybrid",
   places   |-> known.places \cup {e.place}]

Join(known, e) ==
  [optional |-> known.optional /\ e.optional,
   mode     |-> IF known.mode = e.mode THEN e.mode ELSE "hybrid",
   places   |-> known.places \cup {e.place}]

\* One iteration of the loop of filterAndMergeEdges.
Merge(e) ==
  /\ pc = "merge"
  /\ e \in rest
  /\ rest' = rest \ {e}
  /\ merged' = IF e.secret \in Ignored(options, object) THEN merged
               ELSE [s \in DOMAIN merged \cup {e.secret} |->
                       IF s # e.secret THEN merged[s]
                       ELSE IF s \in DOMAIN merged THEN Join(merged[s], e) ELSE First(e)]
  /\ UNCHANGED <<options, pc, object, owner, edges>>

Return ==
  /\ pc = "merge"
  /\ rest = {}
  /\ pc' = "returned"
  /\ UNCHANGED <<options, object, owner, edges, rest, merged>>

\* rebuild appends the workload to its snapshot and keeps nothing else.
AppendWorkload ==
  /\ pc = "returned"
  /\ pc' = "idle"
  /\ object' = Absent
  /\ owner' = Blank
  /\ edges' = {}
  /\ rest' = {}
  /\ merged' = Nothing
  /\ UNCHANGED options

Next ==
  \/ \E o \in Objects : Discover(o)
  \/ Collect
  \/ \E e \in edges : Merge(e)
  \/ Return
  \/ AppendWorkload

Spec == Init /\ [][Next]_vars

-----------------------------------------------------------------------------
(* Properties.                                                             *)

Place == Section \cup {"pull", "account", "targets", "mounted", "watch", "watchJSON"}

EdgeType ==
  [secret : Secret, optional : BOOLEAN, mode : {"infer", "explicit"}, place : Place \X Nat]

TypeOK ==
  /\ options \in Options
  /\ pc \in {"idle", "collect", "merge", "returned"}
  /\ IF pc = "idle" THEN object = Absent ELSE object \in ObjectType
  /\ owner \in RawTeam
  /\ edges \subseteq EdgeType
  /\ rest \subseteq edges
  /\ DOMAIN merged \subseteq {e.secret : e \in edges}
  /\ \A s \in DOMAIN merged :
       merged[s] \in [optional : BOOLEAN, mode : {"infer", "explicit", "hybrid"},
                      places : SUBSET {e.place : e \in edges}]

Returned == pc = "returned"

References(s, seen) == {e \in seen : e.secret = s}

\* What the references to one Secret amount to, whatever their order.
Summary(es) ==
  [optional |-> \A e \in es : e.optional,
   mode     |-> IF \A e, f \in es : e.mode = f.mode THEN (CHOOSE e \in es : TRUE).mode
                ELSE "hybrid",
   places   |-> {e.place : e \in es}]

\* filterAndMergeEdges merges the references to a Secret one after another, into
\* an edge that may be hybrid by then.  Whatever order discovery finds them in,
\* there is one edge per Secret that is not ignored, it is optional only if
\* every reference is, hybrid exactly if found both ways, and has every source.
OneEdgePerSecret ==
  Returned =>
    /\ DOMAIN merged = {e.secret : e \in edges} \ Ignored(options, object)
    /\ \A s \in DOMAIN merged : merged[s] = Summary(References(s, edges))

WellFormed(o, tokens) == \A i \in DOMAIN tokens : ~Malformed(o, tokens[i])

Shown(o, tokens, place) ==
  {i \in DOMAIN tokens : \E s \in DOMAIN merged : <<place, i>> \in merged[s].places}

\* The Secrets of the well-formed tokens of ignore-secrets.
NamedToIgnore(o) ==
  LET tokens == Effective(options, o).annotations.ignore
  IN  IF tokens = Absent THEN {}
      ELSE {Resolved(o, tokens[i]) : i \in {j \in DOMAIN tokens : ~Malformed(o, tokens[j])}}

\* An explicit list is shown: no malformed token of either form gives an edge, a
\* well-formed one of watch-secrets-json does, whatever the tokens beside it are,
\* and so does each of a watch-secrets that is well-formed throughout.  What of a
\* watch-secrets with a malformed token is shown is left open, and so is what
\* ignore-secrets does to an explicit reference (explicitAnnotationEdges,
\* ParseWatchSecrets).
ExplicitListsAreShown ==
  LET a == Effective(options, object).annotations
      Valid(tokens) == {i \in DOMAIN tokens : ~Malformed(object, tokens[i])}
      Kept(tokens) == {i \in Valid(tokens) :
                         Resolved(object, tokens[i]) \notin NamedToIgnore(object)}
  IN  Returned /\ ObjectMode(options, object) \in {"explicit", "hybrid"} =>
        /\ a.watch # Absent =>
             /\ Shown(object, a.watch, "watch") \subseteq Valid(a.watch)
             /\ WellFormed(object, a.watch) =>
                  Kept(a.watch) \subseteq Shown(object, a.watch, "watch")
        /\ a.watchJSON \notin {Absent, NotJSON} =>
             /\ Shown(object, a.watchJSON, "watchJSON") \subseteq Valid(a.watchJSON)
             /\ Kept(a.watchJSON) \subseteq Shown(object, a.watchJSON, "watchJSON")

\* ignore-secrets hides what it names: no Secret it does not name disappears,
\* whatever its tokens are, and a list that is well-formed hides each Secret it
\* names that is only inferred.  What it does to explicit references, and what
\* one malformed token does to the others, is left open (ignoredSecrets,
\* filterAndMergeEdges).
IgnoreHidesWhatItNames ==
  LET a == Effective(options, object).annotations
      found == {e.secret : e \in edges}
      onlyInferred == {s \in found : \A e \in References(s, edges) : e.mode = "infer"}
  IN  Returned =>
        /\ found \ DOMAIN merged \subseteq NamedToIgnore(object)
        /\ a.ignore # Absent /\ WellFormed(object, a.ignore) =>
             onlyInferred \cap NamedToIgnore(object) \cap DOMAIN merged = {}

\* As the kubelet does: a Pod that lists pull Secrets does not get those of its
\* ServiceAccount, and no edge has a source in both.
PullSecretsHaveOneOrigin ==
  Returned /\ object.kind \in PodSpecKind =>
    LET From(place) == {e \in edges : e.place[1] = place}
    IN  /\ object.spec.pull # <<>> => From("account") = {}
        /\ ~(From("pull") # {} /\ From("account") # {})
        /\ object.spec.pull = <<>> /\ options.imagePullSecrets
             /\ ObjectMode(options, object) \in {"infer", "hybrid"} =>
             \A i \in DOMAIN AccountPulls(options, object) :
               LET s == [namespace |-> object.namespace, name |-> AccountPulls(options, object)[i]]
               IN  s \in DOMAIN merged \cup Ignored(options, object)

\* What an owner annotation says: without spaces, except at a connector.
Says(o, a) == IF a = Absent THEN Blank ELSE IF o.kind \in ConnectorKind THEN a ELSE Trim[a]

\* The teams that labels under the k-th key say, of the object and its template.
LabelledAt(o, k) ==
  ({o.own.labels[k]} \cup IF ReadsTemplate(options, o) THEN {o.template.labels[k]} ELSE {})
    \cap Team

\* The owner that impact is attributed to is one that the object or its template
\* declares: by its own annotation, else by the template's, else by its labels,
\* in the order of their keys; an object that declares one is not unowned.  A
\* template's label under an earlier key than the object's own is left open, and
\* so is what a blank value hides (effectiveAnnotations, effectiveLabels,
\* metadataValue).
OwnerIsDeclared ==
  Returned =>
    LET own      == Says(object, object.own.annotations.ownerTeam)
        template == IF ReadsTemplate(options, object)
                    THEN Says(object, object.template.annotations.ownerTeam) ELSE Blank
        keys     == IF options.metadataLabels /\ object.kind \notin ConnectorKind
                    THEN 1..LabelKeys ELSE {}
    IN  /\ owner \in {Blank, own, template} \cup UNION {LabelledAt(object, k) : k \in keys}
        /\ own # Blank => owner = own
        /\ object.own.annotations.ownerTeam = Absent /\ template # Blank => owner = template
        /\ own = Blank /\ template = Blank =>
             \A k \in keys :
               /\ object.own.labels[k] \in Team
               /\ \A j \in 1..(k - 1) : LabelledAt(object, j) = {}
               => owner = object.own.labels[k]
        /\ owner = Blank =>
             \A k \in keys : object.own.labels[k] # Blank => LabelledAt(object, k) = {}

=============================================================================
