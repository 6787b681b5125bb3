----------------------------- MODULE MCBuilders -----------------------------
(* Instances of Builders for TLC, with a few nodes of a foreign implementation. *)
EXTENDS Builders

CONSTANTS h1, h2, a, b, t1, t2, d1, d2, none, noKey

MCLink == [Hash |-> h2, Name |-> none, Tsize |-> t1]
MCTypedLinks == {MCLink}
MCTypedNodes == {[Links |-> <<MCLink>>, Data |-> none]}

Null == [kind |-> "null"]
Other == [kind |-> "other"]
Own(x) == [kind |-> "own", value |-> x]
Entry(k, v) == [key |-> k, value |-> v]
Map(es, broken) == [kind |-> "map", entries |-> es, broken |-> broken]
List(vs) ==
  [kind |-> "list", entries |-> [i \in 1..Len(vs) |-> Entry(noKey, vs[i])], broken |-> FALSE]

HashE == Entry("Hash", [kind |-> "link", value |-> h1])
NameE == Entry("Name", [kind |-> "string", value |-> a])

MCLists == {Null, Other, Own(<<MCLink>>), List(<<Map(<<HashE>>, FALSE)>>), List(<<Map(<<NameE>>, FALSE)>>)}
MCRows == {Null, Other, Own(MCLink), Map(<<HashE, NameE>>, FALSE), Map(<<NameE>>, FALSE),
           Map(<<HashE>>, TRUE)}
=============================================================================
