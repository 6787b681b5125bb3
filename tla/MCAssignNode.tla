---------------------------- MODULE MCAssignNode ----------------------------
(* Instances of AssignNode for TLC: nodes of a foreign implementation. *)
EXTENDS AssignNode

SX == INSTANCE SequencesExt

CONSTANTS h1, h2, a, t1, d1, none, noKey

MCLink == [Hash |-> h2, Name |-> none, Tsize |-> t1]
MCNode == [Links |-> <<MCLink>>, Data |-> none]
MCTypedLinks == {MCLink}
MCTypedNodes == {MCNode}

Null == [kind |-> "null"]
Other == [kind |-> "other"]
Own(x) == [kind |-> "own", value |-> x]
Leaf(kind, x) == [kind |-> kind, value |-> x]
Entry(k, v) == [key |-> k, value |-> v]
Map(es, broken) == [kind |-> "map", entries |-> es, broken |-> broken]
List(vs, broken) ==
  [kind |-> "list", entries |-> [i \in 1..Len(vs) |-> Entry(NoKey, vs[i])], broken |-> broken]

HashE == Entry("Hash", Leaf("link", h1))
NameE == Entry("Name", Leaf("string", a))
TsizeE == Entry("Tsize", Leaf("int", t1))

\* Maps of up to three entries for a link, of every kind of entry; and of three good
\* ones in every order, whole or cut off by an error.
LinkEntries ==
  SX!SeqOf({HashE, NameE, Entry("Hash", Null), Entry("Name", Other), Entry("Links", Null),
            Entry(NoKey, Null)}, 2)
  \cup [1..3 -> {HashE, NameE, TsizeE}]
Links == {Null, Other, Own(MCLink), Leaf("link", h1)}
         \cup {Map(es, broken) : es \in LinkEntries, broken \in BOOLEAN}

GoodLink == Map(<<HashE>>, FALSE)
BadLink == Map(<<NameE>>, FALSE)
Lists ==
  {Null, Other, Own(<<MCLink>>), Own(<<>>)}
  \cup {List(vs, broken) : vs \in SX!SeqOf({GoodLink, BadLink, Own(MCLink)}, 2), broken \in BOOLEAN}

DataE == Entry("Data", Leaf("bytes", d1))
LinksE(v) == Entry("Links", v)
SomeLists == {Null, Own(<<MCLink>>), List(<<GoodLink>>, FALSE), List(<<BadLink>>, FALSE)}
NodeEntries ==
  SX!SeqOf({DataE, Entry("Data", Null), Entry("Data", Leaf("string", a)), Entry("Hash", Null),
            Entry(NoKey, Null)} \cup {LinksE(v) : v \in SomeLists}, 2)
  \cup [1..3 -> {DataE, LinksE(List(<<GoodLink>>, FALSE)), LinksE(List(<<>>, FALSE))}]

\* Every node with one list of one link of every kind, every kind of list with and
\* without Data, and every kind of map.
AllSources ==
  {Null, Other, Own(MCNode), Leaf("bytes", d1), List(<<>>, FALSE)}
  \cup {Map(<<LinksE(List(<<l>>, FALSE))>>, FALSE) : l \in Links}
  \cup {Map(<<LinksE(v), DataE>>, FALSE) : v \in Lists}
  \cup {Map(es, broken) : es \in NodeEntries, broken \in BOOLEAN}

\* A few for callers that mix.
FewNodes ==
  {Own(MCNode), Map(<<LinksE(List(<<GoodLink>>, FALSE))>>, FALSE),
   Map(<<DataE, LinksE(List(<<BadLink>>, FALSE))>>, FALSE)}
FewLists == {Own(<<MCLink>>), List(<<GoodLink>>, FALSE), List(<<BadLink>>, FALSE)}
FewRows == {Own(MCLink), Map(<<HashE, NameE>>, FALSE), Map(<<NameE>>, FALSE), Map(<<HashE>>, TRUE)}
=============================================================================
