---------------------------- MODULE MCDiscovery ----------------------------
(***************************************************************************)
(* Instances of Discovery: one namespace beside the object's own, two      *)
(* Secrets, two teams.  Pod specs are tried with many annotations, and     *)
(* annotations with many Pod specs, but not all with all.                  *)
(***************************************************************************)
EXTENDS Discovery

CONSTANTS Pay, Ops, PadPay, Spaces, Db, Tls, None, NoJSON, NoValue

Namespaces == {Pay, Ops}
Names == {Db, Tls}
Teams == {Pay, Ops}

\* A team with spaces around it, and spaces alone.
RawTeams == Teams \cup {NoValue, PadPay, Spaces}
Trimmed ==
  [t \in RawTeams |-> IF t = PadPay THEN Pay ELSE IF t = Spaces THEN NoValue ELSE t]

\* payments/db in full, unqualified, and a token parseSecretRef rejects.
Full  == [namespace |-> Ops, name |-> Db]
Local == [namespace |-> None, name |-> Db]
Other == [namespace |-> None, name |-> Tls]
NoName == [namespace |-> None, name |-> NoValue]
NoNs   == [namespace |-> NoValue, name |-> Tls]

Silent == [enabled |-> None, mode |-> None, watch |-> None, watchJSON |-> None,
           ignore |-> None, ownerTeam |-> None]
NoLabels == <<None, None>>
Bare == [annotations |-> Silent, labels |-> NoLabels]

ListAnnotations ==
  {[Silent EXCEPT !.watch = w, !.watchJSON = j, !.ignore = i, !.mode = m] :
     w \in {None, <<Local, Full>>, <<Local, NoName>>},
     j \in {None, NoJSON, <<Other, NoNs, Local>>},
     i \in {None, <<Local>>, <<Other, NoNs>>, <<Full>>},
     m \in {None, "explicit", "infer"}}
ModeAnnotations ==
  {[Silent EXCEPT !.enabled = e, !.mode = m, !.watch = w] :
     e \in {None, "false", "other"}, m \in {None, "other", "disabled", "hybrid"},
     w \in {None, <<>>, <<Local>>}}
FewAnnotations ==
  {Silent, [Silent EXCEPT !.watch = <<Local, Other>>],
   [Silent EXCEPT !.ignore = <<Local>>, !.mode = "infer"]}

Ref(name, optional) == [name |-> name, optional |-> optional]
NoRefs == [section \in Section |-> <<>>]
PlainSpec == [refs |-> NoRefs, pull |-> <<>>, account |-> NoValue]

PodSpecs ==
  {[refs |-> [NoRefs EXCEPT !["containers"] = c, !["initContainers"] = c,
                            !["ephemeralContainers"] = e, !["volumes"] = v],
    pull |-> p, account |-> a] :
     c \in {<<>>, <<Ref(Db, TRUE), Ref(Tls, FALSE)>>},
     e \in {<<>>, <<Ref(Db, FALSE)>>},
     v \in {<<>>, <<Ref(Db, TRUE), Ref(NoValue, FALSE)>>},
     p \in {<<>>, <<NoValue>>, <<Tls, Tls>>},
     a \in {NoValue, Db}}
FewSpecs ==
  {PlainSpec,
   [PlainSpec EXCEPT !.refs["containers"] = <<Ref(Db, TRUE)>>,
                     !.refs["projected"] = <<Ref(Db, TRUE), Ref(Tls, FALSE)>>]}

Pods(kind, specs, annotations) ==
  {[kind |-> kind, namespace |-> Pay, name |-> Db, template |-> Bare, spec |-> s,
    own |-> [annotations |-> a, labels |-> NoLabels]] : s \in specs, a \in annotations}

\* The template has metadata of its own, which the object overrides in part.
Templated ==
  {[kind |-> k, namespace |-> Pay, name |-> Db, spec |-> PlainSpec,
    own |-> [annotations |-> [Silent EXCEPT !.watch = w, !.ownerTeam = t], labels |-> l],
    template |->
      [annotations |-> [Silent EXCEPT !.watch = <<Local>>, !.mode = m, !.ownerTeam = t2],
       labels |-> <<Ops, None>>]] :
     k \in {"Deployment", "Pod"}, w \in {None, <<>>, <<Other>>}, m \in {None, "infer"},
     t \in {None, Spaces, PadPay}, t2 \in {None, Spaces, PadPay},
     l \in {NoLabels, <<None, Pay>>, <<NoValue, None>>, <<Pay, Ops>>}}

Custom ==
  {[kind |-> k, namespace |-> Pay, name |-> Db, template |-> Bare,
    own |-> [annotations |-> a, labels |-> <<None, Ops>>],
    spec |-> [targets |-> t, mounted |-> m]] :
     k \in CustomKind \cup {"Ingress"},
     a \in FewAnnotations \cup {[Silent EXCEPT !.ownerTeam = t] : t \in {NoValue, PadPay, Spaces}},
     t \in {<<>>, <<Local>>, <<NoName, Other>>, <<Full, NoNs>>},
     m \in {<<>>, <<NoValue, Tls>>}}

SomeObjects ==
  Pods("Deployment", PodSpecs, FewAnnotations) \cup Pods("Pod", FewSpecs, FewAnnotations)
  \cup Pods("Deployment", FewSpecs, ListAnnotations \cup ModeAnnotations)
  \cup Templated \cup Custom

\* The default account of the namespace pulls with Tls, the account Db with both.
Accounts ==
  [n \in Namespaces |->
     [a \in Names \cup {"default"} |->
        IF n = Ops \/ a = Tls THEN <<>> ELSE IF a = Db THEN <<Db, Tls>> ELSE <<Tls>>]]

SomeOptions ==
  {[defaultMode |-> m, imagePullSecrets |-> b, initContainers |-> b,
    ephemeralContainers |-> ~b, templateMetadata |-> b, metadataLabels |-> l,
    accounts |-> Accounts] : m \in {NoValue, "explicit"}, b, l \in BOOLEAN}

=============================================================================
