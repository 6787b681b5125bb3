-------------------------- MODULE AssignNodeProofs --------------------------
(***************************************************************************)
(* A careful caller's AssignNode drives the type-level assemblers within   *)
(* what PBAssemblerProofs proves of any caller.  A loop never calls        *)
(* BeginMap or BeginList, so that the m of the assembler it runs on is     *)
(* still Absent: naHat and laHat are the assemblers as those calls would   *)
(* have left them, and the lemmas about the tree hold of them.             *)
(***************************************************************************)
EXTENDS AssignNode, PBAssemblerProofs, SequenceTheorems

IsLoop(t, at) == t.at = at /\ t.does = "loop"
RunsIn(s, at) == \E i \in 1..Len(s) : IsLoop(s[i], at)

\* The loops of the AssignNode under way.
NodeRuns == RunsIn(todo, "node")
ListRuns == RunsIn(todo, "list")
RowRuns == RunsIn(todo, "row")

Raised(m, runs) == IF m = "Absent" /\ runs THEN "midvalue" ELSE m
naHat == [na EXCEPT !.m = Raised(@, NodeRuns), !.cm = Raised(@, ListRuns)]
laHat == [la EXCEPT !.cm = Raised(@, RowRuns)]

OwnNodes == {n \in PBNode : \A i \in 1..Len(n.Links) : Complete(n.Links[i])}
OwnLinks == {l \in PBLink : Complete(l)}

Hat == INSTANCE PBAssemblerProofs
  WITH na <- naHat, la <- laHat, TypedNodes <- OwnNodes, TypedLinks <- OwnLinks

\* The assumptions PBAssembler makes of its constants hold of the instance.
LEMMA HatAssumptions ==
  Hat!ValuesAssumption /\ Hat!TypedAssumption /\ Hat!LevelAssumption /\ Hat!BoundAssumption
<1>1. Hat!PBNode = PBNode /\ Hat!PBLink = PBLink /\ \A l : Hat!Complete(l) <=> Complete(l)
  BY DEF Hat!PBNode, PBNode, Hat!PBLink, PBLink, Hat!Complete, Complete
<1> QED
  BY <1>1, ValuesAssumption, LevelAssumption, BoundAssumption
     DEF Hat!ValuesAssumption, ValuesAssumption, Hat!TypedAssumption, Hat!LevelAssumption,
         LevelAssumption, Hat!BoundAssumption, BoundAssumption, OwnNodes, OwnLinks

HatCall == Hat!NodeCall \/ Hat!LinksCall \/ Hat!LinkCall

\* What PBAssemblerProofs shows of one call.
LEMMA HatKeeps ==
  ASSUME Level = "type", Hat!AssemblerInv, HatCall
  PROVE  Hat!AssemblerInv' /\ Grown /\ (naHat.m = "Value" => node' = node)
<1>1. Hat!AssemblerInv'
  BY HatAssumptions, Hat!NodeCallKeeps, Hat!LinksCallKeeps, Hat!LinkCallKeeps, Zenon DEF HatCall
<1>2. Hat!Grown
  BY HatAssumptions, Hat!NodeCallGrows, Hat!LinksCallGrows, Hat!LinkCallGrows, Zenon DEF HatCall
<1>3. naHat.m = "Value" => node' = node
  BY HatAssumptions, Hat!BuiltStays, Zenon DEF HatCall
<1>4. Grown
  BY <1>2 DEF Hat!Grown, Grown, Hat!Kept, Kept, Hat!LinkFields, LinkFields
<1> QED BY <1>1, <1>3, <1>4

-----------------------------------------------------------------------------
(* The loops as a stack. *)

Depth == [node |-> 1, list |-> 2, row |-> 3, Data |-> 4, Hash |-> 4, Name |-> 4, Tsize |-> 4]
Phase == [assign |-> 0, loop |-> 0, AssembleValue |-> 1, AssignKey |-> 2, AssembleKey |-> 3]
Rank(t) == 4 * Depth[t.at] + Phase[t.does]

\* The node that a call takes fits the assembler it is for.
ArgumentFits(t) ==
  /\ t.does \in {"assign", "loop"} =>
       /\ t.at = "node" => NodeFits(t.v)
       /\ t.at = "list" => ListFits(t.v)
       /\ t.at = "row"  => RowFits(t.v)
       /\ t.at \notin {"node", "list", "row"} => LeafFits(t.v)
  /\ t.does = "loop" => t.v.kind = KindOf[t.at]
  /\ t.does = "AssembleValue" =>
       /\ t.at = "node" => ListFits(t.v) /\ LeafFits(t.v)
       /\ t.at = "list" => RowFits(t.v)
       /\ t.at = "row"  => LeafFits(t.v)

FrameFits(t) ==
  /\ t.at \in DOMAIN Depth /\ t.does \in DOMAIN Phase
  /\ t.does # "assign" => t.at \in {"node", "list", "row"}
  /\ ArgumentFits(t)

\* Innermost first: each call is further down the tree, or earlier in the turn of its
\* loop, than those that wait for it; only the innermost may be yet to begin; and
\* the calls of a turn have their loop below them.
Stack(s) ==
  /\ s \in Seq({s[i] : i \in 1..Len(s)})
  /\ \A i \in 1..Len(s) : FrameFits(s[i])
  /\ \A i, j \in 1..Len(s) : i < j => Rank(s[i]) > Rank(s[j])
  /\ \A i \in 1..Len(s) : s[i].does = "assign" => i = 1
  /\ \A i \in 1..Len(s) : s[i].does \notin {"assign", "loop"} => RunsIn(s, s[i].at)

LEMMA RankType ==
  ASSUME NEW t, FrameFits(t)
  PROVE  /\ Rank(t) \in Int /\ Depth[t.at] \in 1..4
         /\ 4 * Depth[t.at] <= Rank(t) /\ Rank(t) < 4 * Depth[t.at] + 4
         /\ t.does \in {"assign", "loop"} <=> Rank(t) = 4 * Depth[t.at]
BY DEF FrameFits, Rank, Depth, Phase

\* The elements of more \o Tail(s).
LEMMA Pushed ==
  ASSUME NEW S, NEW s \in Seq(S), s # <<>>, NEW T, NEW more \in Seq(T), NEW r, r = more \o Tail(s)
  PROVE  /\ r \in Seq(S \cup T)
         /\ \A i \in 1..Len(more) : i \in 1..Len(r) /\ r[i] = more[i]
         /\ \A i \in 2..Len(s) : Len(more) + i - 1 \in 1..Len(r) /\ r[Len(more) + i - 1] = s[i]
         /\ \A i \in 1..Len(r) : \/ i \in 1..Len(more)
                                 \/ i - Len(more) + 1 \in 2..Len(s) /\ i > Len(more)
<1>1. Tail(s) \in Seq(S) /\ Len(Tail(s)) = Len(s) - 1 /\ Len(s) \in Nat /\ Len(s) > 0
  OBVIOUS
<1>2. \A i \in 1..Len(s) - 1 : Tail(s)[i] = s[i + 1]
  OBVIOUS
<1>3. more \in Seq(S \cup T) /\ Tail(s) \in Seq(S \cup T) /\ Len(more) \in Nat
  <2>1. S \subseteq S \cup T /\ T \subseteq S \cup T
    OBVIOUS
  <2> QED BY <1>1, <2>1, SeqMonotonic
<1>4. r \in Seq(S \cup T) /\ Len(r) = Len(more) + Len(s) - 1
  BY <1>1, <1>3
<1>5. \A i \in 1..Len(more) : r[i] = more[i]
  BY <1>1, <1>3
<1>6. \A i \in 1..Len(Tail(s)) : r[Len(more) + i] = Tail(s)[i]
  BY <1>1, <1>3
<1>7. ASSUME NEW i \in 2..Len(s)
      PROVE  Len(more) + i - 1 \in 1..Len(r) /\ r[Len(more) + i - 1] = s[i]
  <2>1. i - 1 \in 1..Len(s) - 1 /\ Len(more) + (i - 1) = Len(more) + i - 1 /\ (i - 1) + 1 = i
    BY <1>1, <1>3
  <2>2. r[Len(more) + i - 1] = Tail(s)[i - 1]
    BY <1>1, <1>6, <2>1
  <2>3. Tail(s)[i - 1] = s[i]
    BY <1>2, <2>1
  <2> QED BY <1>1, <1>3, <1>4, <2>1, <2>2, <2>3
<1>8. ASSUME NEW i \in 1..Len(r), i \notin 1..Len(more)
      PROVE  i - Len(more) + 1 \in 2..Len(s) /\ i > Len(more)
  BY <1>1, <1>3, <1>4, <1>8
<1> QED BY <1>1, <1>3, <1>4, <1>5, <1>7, <1>8

LEMMA StackHead ==
  ASSUME NEW s, Stack(s), s # <<>>
  PROVE  /\ FrameFits(Head(s))
         /\ Head(s).does # "assign" => RunsIn(s, Head(s).at)
         /\ Head(s).does = "assign" => ~RunsIn(s, Head(s).at)
         /\ Head(s).at = "node" => ~RunsIn(s, "list") /\ ~RunsIn(s, "row")
         /\ Head(s).at = "list" => ~RunsIn(s, "row")
<1> DEFINE S == {s[i] : i \in 1..Len(s)}
<1>1. s \in Seq(S)
  BY DEF Stack
<1> HIDE DEF S
<1>2. Len(s) \in Nat /\ 1 \in 1..Len(s) /\ Head(s) = s[1]
  BY <1>1
<1>3. FrameFits(s[1])
  BY <1>2 DEF Stack
<1>4. ASSUME NEW at \in {"node", "list", "row"}, RunsIn(s, at)
      PROVE  4 * Depth[at] <= Rank(s[1]) /\ (4 * Depth[at] = Rank(s[1]) => IsLoop(s[1], at))
  <2>1. PICK i \in 1..Len(s) : s[i].at = at /\ s[i].does = "loop"
    BY <1>4 DEF RunsIn, IsLoop
  <2>2. FrameFits(s[i]) /\ Rank(s[i]) = 4 * Depth[at]
    BY <2>1, RankType DEF Stack
  <2>3. CASE i = 1
    BY <2>1, <2>2, <2>3, RankType DEF IsLoop
  <2>4. CASE i # 1
    <3>1. 1 < i
      BY <1>2, <2>4
    <3>2. Rank(s[1]) > Rank(s[i])
      BY <1>2, <3>1 DEF Stack
    <3>3. Rank(s[1]) \in Int /\ Rank(s[i]) \in Int
      BY <1>3, <2>2, RankType
    <3> QED BY <2>2, <3>2, <3>3
  <2> QED BY <2>3, <2>4
<1>5. Head(s).does # "assign" => RunsIn(s, Head(s).at)
  BY <1>2 DEF Stack, RunsIn, IsLoop
<1>6. ASSUME Head(s).does = "assign", RunsIn(s, Head(s).at) PROVE FALSE
  <2>1. PICK i \in 1..Len(s) : s[i].at = s[1].at /\ s[i].does = "loop"
    BY <1>2, <1>6 DEF RunsIn, IsLoop
  <2>2. FrameFits(s[i])
    BY DEF Stack
  <2>3. Rank(s[i]) = Rank(s[1])
    BY <1>2, <1>3, <1>6, <2>1, <2>2, RankType
  <2>4. 1 < i
    BY <1>2, <1>6, <2>1
  <2>5. Rank(s[1]) > Rank(s[i]) /\ Rank(s[1]) \in Int
    BY <1>2, <1>3, <2>4, RankType DEF Stack
  <2> QED BY <2>3, <2>5
<1>7. Rank(s[1]) \in Int /\ Rank(s[1]) < 4 * Depth[s[1].at] + 4
  BY <1>3, RankType
<1>8. Head(s).at = "node" => ~RunsIn(s, "list") /\ ~RunsIn(s, "row")
  BY <1>2, <1>4, <1>7 DEF Depth
<1>9. Head(s).at = "list" => ~RunsIn(s, "row")
  BY <1>2, <1>4, <1>7 DEF Depth
<1> QED BY <1>2, <1>3, <1>5, <1>6, <1>8, <1>9

\* Returning from the innermost call, or making further ones from it.
LEMMA StackPush ==
  ASSUME NEW s, Stack(s), s # <<>>, NEW T, NEW more \in Seq(T), NEW r, r = more \o Tail(s),
         \A i \in 1..Len(more) : FrameFits(more[i]) /\ Rank(more[i]) >= Rank(Head(s)),
         \A i \in 1..Len(more) : more[i].does = "assign" => i = 1,
         \A i, j \in 1..Len(more) : i < j => Rank(more[i]) > Rank(more[j]),
         \A i \in 1..Len(more) : more[i].does \notin {"assign", "loop"} => RunsIn(more, more[i].at)
  PROVE  /\ Stack(r)
         /\ \A at : RunsIn(r, at) <=> RunsIn(more, at) \/ (RunsIn(s, at) /\ ~IsLoop(Head(s), at))
         /\ more = <<>> /\ r # <<>> => Head(r).does # "assign"
<1> DEFINE S == {s[i] : i \in 1..Len(s)}
<1>1. s \in Seq(S)
  BY DEF Stack
<1> HIDE DEF S
<1>2. Len(s) \in Nat /\ 1 \in 1..Len(s) /\ Head(s) = s[1] /\ Len(more) \in Nat
  BY <1>1
<1>3. /\ r \in Seq(S \cup T)
      /\ \A i \in 1..Len(more) : i \in 1..Len(r) /\ r[i] = more[i]
      /\ \A i \in 2..Len(s) : Len(more) + i - 1 \in 1..Len(r) /\ r[Len(more) + i - 1] = s[i]
      /\ \A i \in 1..Len(r) : \/ i \in 1..Len(more)
                              \/ i - Len(more) + 1 \in 2..Len(s) /\ i > Len(more)
  BY <1>1, Pushed
<1>4. ASSUME NEW i \in 1..Len(r), i \notin 1..Len(more)
      PROVE  /\ i - Len(more) + 1 \in 2..Len(s) /\ i > Len(more)
             /\ r[i] = s[i - Len(more) + 1]
  <2>1. i - Len(more) + 1 \in 2..Len(s) /\ i > Len(more)
    BY <1>3, <1>4
  <2>2. Len(more) + (i - Len(more) + 1) - 1 = i
    BY <1>2
  <2> QED BY <1>3, <2>1, <2>2
<1>5. ASSUME NEW i \in 1..Len(r) PROVE FrameFits(r[i])
  BY <1>2, <1>3, <1>4 DEF Stack
<1>6. ASSUME NEW i \in 2..Len(s)
      PROVE  /\ FrameFits(s[i]) /\ Rank(s[1]) > Rank(s[i]) /\ s[i].does # "assign"
             /\ Rank(s[i]) \in Int /\ Rank(s[1]) \in Int
  <2>1. i \in 1..Len(s) /\ 1 < i
    BY <1>2
  <2> QED BY <1>2, <2>1, RankType DEF Stack
<1>7. ASSUME NEW i \in 1..Len(r), NEW j \in 1..Len(r), i < j PROVE Rank(r[i]) > Rank(r[j])
  <2>1. CASE j \in 1..Len(more)
    <3>1. i \in 1..Len(more)
      BY <1>2, <1>7, <2>1
    <3> QED BY <1>3, <1>7, <2>1, <3>1
  <2>2. CASE j \notin 1..Len(more)
    <3>1. PICK b \in 2..Len(s) : r[j] = s[b] /\ b = j - Len(more) + 1
      BY <1>4, <2>2
    <3>2. CASE i \in 1..Len(more)
      <4>1. r[i] = more[i] /\ Rank(more[i]) >= Rank(s[1]) /\ FrameFits(more[i])
        BY <1>2, <1>3, <3>2
      <4>2. Rank(more[i]) \in Int
        BY <4>1, RankType
      <4>3. Rank(s[1]) > Rank(s[b]) /\ Rank(s[1]) \in Int /\ Rank(s[b]) \in Int
        BY <1>6
      <4>4. Rank(more[i]) > Rank(s[b])
        BY <4>1, <4>2, <4>3
      <4> QED BY <3>1, <4>1, <4>4, Zenon
    <3>3. CASE i \notin 1..Len(more)
      <4>1. PICK a \in 2..Len(s) : r[i] = s[a] /\ a = i - Len(more) + 1
        BY <1>4, <3>3
      <4>2. a < b /\ a \in 1..Len(s) /\ b \in 1..Len(s)
        BY <1>2, <1>7, <3>1, <4>1
      <4> QED BY <3>1, <4>1, <4>2 DEF Stack
    <3> QED BY <3>2, <3>3
  <2> QED BY <2>1, <2>2
<1>8. ASSUME NEW i \in 1..Len(r), r[i].does = "assign" PROVE i = 1
  BY <1>3, <1>4, <1>6, <1>8
<1>9. ASSUME NEW at PROVE RunsIn(r, at) <=> RunsIn(more, at) \/ (RunsIn(s, at) /\ ~IsLoop(s[1], at))
  <2>1. ASSUME RunsIn(more, at) PROVE RunsIn(r, at)
    BY <1>3, <2>1 DEF RunsIn
  <2>2. ASSUME RunsIn(s, at), ~IsLoop(s[1], at) PROVE RunsIn(r, at)
    <3>1. PICK i \in 1..Len(s) : IsLoop(s[i], at)
      BY <2>2 DEF RunsIn
    <3>2. i \in 2..Len(s)
      BY <1>2, <2>2, <3>1
    <3> QED BY <1>3, <3>1, <3>2 DEF RunsIn
  <2>3. ASSUME RunsIn(r, at), ~RunsIn(more, at) PROVE RunsIn(s, at) /\ ~IsLoop(s[1], at)
    <3>1. PICK i \in 1..Len(r) : IsLoop(r[i], at)
      BY <2>3 DEF RunsIn
    <3>2. i \notin 1..Len(more)
      BY <1>3, <2>3, <3>1 DEF RunsIn
    <3>3. PICK b \in 2..Len(s) : IsLoop(s[b], at)
      BY <1>4, <3>1, <3>2
    <3>4. b \in 1..Len(s)
      BY <1>2
    <3>5. ASSUME IsLoop(s[1], at) PROVE FALSE
      <4>1. FrameFits(s[1]) /\ FrameFits(s[b])
        BY <1>2, <3>4 DEF Stack
      <4>2. Rank(s[1]) = Rank(s[b])
        BY <3>3, <3>5, <4>1, RankType DEF IsLoop
      <4> QED BY <1>6, <4>2
    <3> QED BY <3>3, <3>4, <3>5 DEF RunsIn
  <2> QED BY <2>1, <2>2, <2>3
<1>10. ASSUME NEW i \in 1..Len(r), r[i].does \notin {"assign", "loop"} PROVE RunsIn(r, r[i].at)
  <2>1. CASE i \in 1..Len(more)
    BY <1>3, <1>9, <1>10, <2>1
  <2>2. CASE i \notin 1..Len(more)
    <3>1. PICK b \in 2..Len(s) : r[i] = s[b]
      BY <1>4, <2>2
    <3>2. b \in 1..Len(s) /\ RunsIn(s, s[b].at)
      BY <1>2, <1>10, <3>1 DEF Stack
    <3>3. ASSUME IsLoop(s[1], s[b].at) PROVE FALSE
      <4>1. FrameFits(s[1]) /\ FrameFits(s[b])
        BY <1>2, <3>2 DEF Stack
      <4>2. Rank(s[1]) <= Rank(s[b])
        BY <3>3, <4>1, RankType DEF IsLoop
      <4> QED BY <1>6, <4>2
    <3> QED BY <1>9, <3>1, <3>2, <3>3
  <2> QED BY <2>1, <2>2
<1>11. r \in Seq({r[i] : i \in 1..Len(r)})
  <2> DEFINE R == {r[i] : i \in 1..Len(r)}
  <2>1. Len(r) \in Nat /\ r \in [1..Len(r) -> S \cup T]
    BY <1>3, LenProperties
  <2>2. r \in [1..Len(r) -> R]
    BY <2>1
  <2> HIDE DEF R
  <2>3. r \in Seq(R)
    BY <2>1, <2>2, SeqDef
  <2> QED BY <2>3 DEF R
<1>12. ASSUME more = <<>>, r # <<>> PROVE Head(r).does # "assign"
  <2>1. Len(r) \in Nat /\ 1 \in 1..Len(r) /\ Head(r) = r[1]
    BY <1>3, <1>12
  <2>2. 1 \notin 1..Len(more)
    BY <1>12
  <2> QED BY <1>4, <1>6, <2>1, <2>2
<1>13. Stack(r)
  BY <1>5, <1>7, <1>8, <1>10, <1>11 DEF Stack
<1> QED BY <1>2, <1>9, <1>12, <1>13

-----------------------------------------------------------------------------
(* What every step keeps. *)

LaType == [w : BOOLEAN, state : LaState, cm : Maybe]

\* The assembler a loop runs on has begun in all but m; only a finished one is not
\* Absent, and refuses its first call.
Running ==
  /\ NodeRuns => na.m = "Absent" \/ na.state = "finished"
  /\ ListRuns => /\ Given(na, "Links")
                 /\ na.cm = "Absent" \/ (na.cm = "Value" /\ la.state = "finished")
  /\ RowRuns  => /\ la.state = "midValue"
                 /\ la.cm = "Absent" \/ (la.cm = "Value" /\ va.state = "finished")

\* Nobody has touched a list that was not handed out.
Pristine == ~Given(na, "Links") => na.cm = "Absent" /\ la.state = "initial"

\* An AssignNode about to begin finds its assembler handed out, and untouched unless
\* that is done or is that of a field.
ReadyFor(t) ==
  /\ t.at = "node" => \/ na.m = "Absent"
                      \/ na.m = "Value" /\ (t.v.kind = "map" => na.state = "finished")
  /\ t.at = "list" => /\ Given(na, "Links")
                      /\ \/ na.cm = "Absent" /\ la.state = "initial"
                         \/ na.cm = "Value" /\ (t.v.kind = "list" => la.state = "finished")
  /\ t.at = "row"  => /\ la.state = "midValue"
                      /\ \/ la.cm = "Absent" /\ va.state = "initial"
                         \/ la.cm = "Value" /\ (t.v.kind = "map" => va.state = "finished")
  /\ t.at = "Data" => Given(na, "Data")
  /\ t.at \in LinkFields =>
       la.state = "midValue" /\ RowRuns /\ Given(va, t.at) /\ va.state = "midValue" /\ va.f = t.at
Ready == todo # <<>> /\ Head(todo).does = "assign" => ReadyFor(Head(todo))

\* After a failed loop nothing is kept up until Reset but what the caller could see.
AssignInv ==
  /\ TypeOK /\ failed \in BOOLEAN /\ Stack(todo)
  /\ failed => todo = <<>> /\ FinishedComplete /\ RowBitsTrue
  /\ ~failed => Hat!AssemblerInv /\ Running /\ Pristine /\ Ready

LEMMA TypesFollow ==
  ASSUME Hat!AssemblerInv', na' \in NaType, la' \in LaType
  PROVE  TypeOK'
<1>1. Hat!TypeOK'
  BY DEF Hat!AssemblerInv
<1>2. node' \in PBNode
  BY <1>1 DEF Hat!TypeOK, Hat!PBNode, Hat!PBLink, PBNode, PBLink
<1>3. va' \in [state : MaState, s : SUBSET LinkFields, f : LinkFields, cm : Maybe, hash : Int]
      /\ res' \in {"ok", "err", "panic"}
  BY <1>1 DEF Hat!TypeOK, Hat!MaState, Hat!LinkFields, Hat!Maybe, MaState, LinkFields, Maybe
<1> QED BY <1>2, <1>3 DEF TypeOK, NaType, LaType

\* The assemblers of the instance differ in m and cm only.
LEMMA HatFields ==
  ASSUME TypeOK
  PROVE  /\ naHat \in NaType /\ laHat \in LaType
         /\ naHat.state = na.state /\ naHat.s = na.s /\ naHat.f = na.f
         /\ naHat.m = Raised(na.m, NodeRuns) /\ naHat.cm = Raised(na.cm, ListRuns)
         /\ laHat.w = la.w /\ laHat.state = la.state /\ laHat.cm = Raised(la.cm, RowRuns)
<1>1. na \in NaType /\ la \in LaType
  BY DEF TypeOK, NaType, LaType
<1>2. \A m \in Maybe : Raised(m, NodeRuns) \in Maybe /\ Raised(m, ListRuns) \in Maybe
                       /\ Raised(m, RowRuns) \in Maybe
  BY DEF Raised, Maybe
<1> QED BY <1>1, <1>2 DEF NaType, LaType, naHat, laHat

LEMMA HatFieldsNext ==
  ASSUME na' \in NaType, la' \in LaType
  PROVE  /\ naHat' \in NaType /\ laHat' \in LaType
         /\ naHat'.state = na'.state /\ naHat'.s = na'.s /\ naHat'.f = na'.f
         /\ naHat'.m = Raised(na'.m, NodeRuns') /\ naHat'.cm = Raised(na'.cm, ListRuns')
         /\ laHat'.w = la'.w /\ laHat'.state = la'.state /\ laHat'.cm = Raised(la'.cm, RowRuns')
<1>1. \A m \in Maybe : Raised(m, NodeRuns') \in Maybe /\ Raised(m, ListRuns') \in Maybe
                       /\ Raised(m, RowRuns') \in Maybe
  BY DEF Raised, Maybe
<1> QED BY <1>1 DEF NaType, LaType, naHat, laHat

\* Where no loop runs they are the assemblers themselves.
LEMMA NoHat ==
  ASSUME TypeOK, todo = <<>>
  PROVE  naHat = na /\ laHat = la /\ ~NodeRuns /\ ~ListRuns /\ ~RowRuns
<1>1. ~NodeRuns /\ ~ListRuns /\ ~RowRuns
  BY DEF NodeRuns, ListRuns, RowRuns, RunsIn
<1> QED BY <1>1 DEF naHat, laHat, Raised, TypeOK

\* An AssignNode or a call returns.
LEMMA Returned ==
  ASSUME Stack(todo), todo # <<>>, todo' = <<>> \o Tail(todo)
  PROVE  /\ Stack(todo') /\ (todo' # <<>> => Head(todo').does # "assign")
         /\ NodeRuns' <=> NodeRuns /\ ~IsLoop(Head(todo), "node")
         /\ ListRuns' <=> ListRuns /\ ~IsLoop(Head(todo), "list")
         /\ RowRuns'  <=> RowRuns  /\ ~IsLoop(Head(todo), "row")
<1> DEFINE more == <<>>
<1>1. more \in Seq({}) /\ Len(more) = 0 /\ todo' = more \o Tail(todo)
  OBVIOUS
<1>2. \A at : ~RunsIn(more, at)
  BY <1>1 DEF RunsIn
<1>3. more = <<>>
  OBVIOUS
<1> HIDE DEF more
<1>4. /\ Stack(todo')
      /\ \A at : RunsIn(todo', at) <=>
                   RunsIn(more, at) \/ (RunsIn(todo, at) /\ ~IsLoop(Head(todo), at))
      /\ todo' # <<>> => Head(todo').does # "assign"
  <2>1. \A i \in 1..Len(more) : FALSE
    BY <1>1
  <2> QED BY <1>1, <1>3, <2>1, StackPush
<1> QED BY <1>2, <1>4 DEF NodeRuns, ListRuns, RowRuns

\* It goes on as its loop, or calls another AssignNode.
LEMMA Called ==
  ASSUME Stack(todo), todo # <<>>, NEW f, todo' = <<f>> \o Tail(todo),
         FrameFits(f), f.does \in {"assign", "loop"}, Rank(f) >= Rank(Head(todo))
  PROVE  /\ Stack(todo') /\ todo' # <<>> /\ Head(todo') = f
         /\ NodeRuns' <=> IsLoop(f, "node") \/ (NodeRuns /\ ~IsLoop(Head(todo), "node"))
         /\ ListRuns' <=> IsLoop(f, "list") \/ (ListRuns /\ ~IsLoop(Head(todo), "list"))
         /\ RowRuns'  <=> IsLoop(f, "row")  \/ (RowRuns  /\ ~IsLoop(Head(todo), "row"))
<1> DEFINE more == <<f>>
           S == {todo[i] : i \in 1..Len(todo)}
<1>1. more \in Seq({f}) /\ Len(more) = 1 /\ more[1] = f /\ todo' = more \o Tail(todo)
  OBVIOUS
<1>2. \A at : RunsIn(more, at) <=> IsLoop(f, at)
  BY <1>1 DEF RunsIn
<1> HIDE DEF more
<1>3. /\ Stack(todo')
      /\ \A at : RunsIn(todo', at) <=>
                   RunsIn(more, at) \/ (RunsIn(todo, at) /\ ~IsLoop(Head(todo), at))
  <2>1. /\ \A i \in 1..Len(more) : FrameFits(more[i]) /\ Rank(more[i]) >= Rank(Head(todo))
        /\ \A i \in 1..Len(more) : more[i].does = "assign" => i = 1
        /\ \A i, j \in 1..Len(more) : i < j => Rank(more[i]) > Rank(more[j])
        /\ \A i \in 1..Len(more) :
             more[i].does \notin {"assign", "loop"} => RunsIn(more, more[i].at)
    BY <1>1
  <2> QED BY <1>1, <2>1, StackPush
<1>4. todo \in Seq(S)
  BY DEF Stack
<1> HIDE DEF S
<1>5. todo' # <<>> /\ Head(todo') = f
  <2>1. Tail(todo) \in Seq(S \cup {f}) /\ <<f>> \in Seq(S \cup {f})
    <3>1. Tail(todo) \in Seq(S)
      BY <1>4
    <3>2. S \subseteq S \cup {f}
      OBVIOUS
    <3> QED BY <3>1, <3>2, SeqMonotonic
  <2> HIDE <1>1
  <2>2. Len(todo') = 1 + Len(Tail(todo)) /\ todo'[1] = f /\ todo' \in Seq(S \cup {f})
    BY <2>1
  <2>3. Len(Tail(todo)) \in Nat
    BY <2>1
  <2> QED BY <2>2, <2>3
<1> QED BY <1>2, <1>3, <1>5 DEF NodeRuns, ListRuns, RowRuns

TurnCalls(at, a, b, c, d) == (IF at = "list" THEN <<>> ELSE <<a, b>>) \o <<c, d>>

LEMMA TwoAndTwo ==
  ASSUME NEW a, NEW b, NEW c, NEW d
  PROVE  <<a, b>> \o <<c, d>> = <<a, b, c, d>>
<1> DEFINE S == {a, b, c, d}
<1>1. <<a, b>> \in Seq(S) /\ <<c, d>> \in Seq(S) /\ <<a, b, c, d>> \in Seq(S)
  OBVIOUS
<1>2. Len(<<a, b>>) = 2 /\ Len(<<c, d>>) = 2 /\ Len(<<a, b, c, d>>) = 4
  OBVIOUS
<1>3. <<a, b>> \o <<c, d>> \in Seq(S) /\ Len(<<a, b>> \o <<c, d>>) = 4
  BY <1>1, <1>2
<1>4. \A i \in 1..4 : (<<a, b>> \o <<c, d>>)[i] = <<a, b, c, d>>[i]
  OBVIOUS
<1> QED BY <1>1, <1>2, <1>3, <1>4, SeqEqual

LEMMA TurnCallsAre ==
  ASSUME NEW at, NEW a, NEW b, NEW c, NEW d, NEW more, more = TurnCalls(at, a, b, c, d)
  PROVE  /\ more \in Seq({a, b, c, d})
         /\ \/ Len(more) = 2 /\ more[1] = c /\ more[2] = d
            \/ Len(more) = 4 /\ more[1] = a /\ more[2] = b /\ more[3] = c /\ more[4] = d
<1>1. CASE at = "list"
  <2>1. <<>> \o <<c, d>> = <<c, d>>
    OBVIOUS
  <2>2. more = <<c, d>>
    BY <1>1, <2>1 DEF TurnCalls
  <2> QED BY <2>2
<1>2. CASE at # "list"
  <2>1. more = <<a, b, c, d>>
    BY <1>2, TwoAndTwo DEF TurnCalls
  <2> QED BY <2>1
<1> QED BY <1>1, <1>2

\* A loop begins a turn.
LEMMA Turned ==
  ASSUME Stack(todo), todo # <<>>, NEW at \in {"node", "list", "row"}, IsLoop(Head(todo), at),
         NEW a, NEW b, NEW c, NEW d,
         FrameFits(a), FrameFits(b), FrameFits(c), FrameFits(d),
         a.at = at, b.at = at, c.at = at, d.at = at,
         a.does = "AssembleKey", b.does = "AssignKey", c.does = "AssembleValue", d.does = "loop",
         NEW more \in Seq({a, b, c, d}),
         \/ Len(more) = 2 /\ more[1] = c /\ more[2] = d
         \/ Len(more) = 4 /\ more[1] = a /\ more[2] = b /\ more[3] = c /\ more[4] = d,
         todo' = more \o Tail(todo)
  PROVE  /\ Stack(todo') /\ (todo' # <<>> => Head(todo').does # "assign")
         /\ NodeRuns' <=> NodeRuns
         /\ ListRuns' <=> ListRuns
         /\ RowRuns' <=> RowRuns
<1> DEFINE S == {a, b, c, d}
           T == {todo[i] : i \in 1..Len(todo)}
<1>4. /\ more \in Seq(S)
      /\ \/ Len(more) = 2 /\ more[1] = c /\ more[2] = d
         \/ Len(more) = 4 /\ more[1] = a /\ more[2] = b /\ more[3] = c /\ more[4] = d
  OBVIOUS
<1>5. FrameFits(Head(todo)) /\ RunsIn(todo, at)
  BY StackHead DEF IsLoop
<1>6. /\ Rank(a) = 4 * Depth[at] + 3 /\ Rank(b) = 4 * Depth[at] + 2 /\ Rank(c) = 4 * Depth[at] + 1
      /\ Rank(d) = 4 * Depth[at] /\ Rank(Head(todo)) = 4 * Depth[at] /\ Depth[at] \in Int
  BY DEF Rank, Phase, Depth, IsLoop
<1>7. RunsIn(more, at)
  BY <1>4 DEF RunsIn, IsLoop
<1>8. \A i \in 1..Len(more) :
        /\ FrameFits(more[i]) /\ Rank(more[i]) >= Rank(Head(todo)) /\ more[i].does # "assign"
        /\ more[i].at = at
  <2>1. CASE Len(more) = 2
    BY <1>4, <1>6, <2>1
  <2>2. CASE Len(more) = 4
    BY <1>4, <1>6, <2>2
  <2> QED BY <1>4, <2>1, <2>2
<1>9. \A i, j \in 1..Len(more) : i < j => Rank(more[i]) > Rank(more[j])
  <2> TAKE i, j \in 1..Len(more)
  <2> HAVE i < j
  <2>1. CASE Len(more) = 2
    BY <1>4, <1>6, <2>1
  <2>2. CASE Len(more) = 4
    BY <1>4, <1>6, <2>2
  <2> QED BY <1>4, <2>1, <2>2
<1>10. /\ Stack(todo')
       /\ \A x : RunsIn(todo', x) <=> RunsIn(more, x) \/ (RunsIn(todo, x) /\ ~IsLoop(Head(todo), x))
  <2>1. /\ \A i \in 1..Len(more) : FrameFits(more[i]) /\ Rank(more[i]) >= Rank(Head(todo))
        /\ \A i \in 1..Len(more) : more[i].does = "assign" => i = 1
        /\ \A i \in 1..Len(more) :
             more[i].does \notin {"assign", "loop"} => RunsIn(more, more[i].at)
    BY <1>7, <1>8
  <2> HIDE DEF S
  <2> QED BY <1>4, <1>9, <2>1, StackPush
<1>11. ASSUME NEW x PROVE RunsIn(more, x) <=> x = at
  <2>1. RunsIn(more, x) => x = at
    BY <1>8 DEF RunsIn, IsLoop
  <2> QED BY <1>7, <2>1
<1>12. \A x : RunsIn(todo', x) <=> RunsIn(todo, x)
  BY <1>5, <1>10, <1>11 DEF IsLoop
<1>13. todo' # <<>> => Head(todo').does # "assign"
  <2>1. todo \in Seq(T)
    BY DEF Stack
  <2> HIDE DEF T, S
  <2>2. Tail(todo) \in Seq(S \cup T) /\ more \in Seq(S \cup T)
    <3>1. Tail(todo) \in Seq(T)
      BY <2>1
    <3>2. T \subseteq S \cup T /\ S \subseteq S \cup T
      OBVIOUS
    <3> QED BY <1>4, <3>1, <3>2, SeqMonotonic
  <2>3. todo' \in Seq(S \cup T) /\ Len(todo') = Len(more) + Len(Tail(todo)) /\ todo'[1] = more[1]
    BY <1>4, <2>2
  <2> QED BY <1>4, <1>8, <2>2, <2>3
<1> QED BY <1>10, <1>12, <1>13 DEF NodeRuns, ListRuns, RowRuns

-----------------------------------------------------------------------------
(* The calls a loop makes are calls of a caller of the instance. *)

\* A loop on the builder.
LEMMA NodeLoopCalls ==
  ASSUME AssignInv, ~failed, Level = "type", res' = "ok",
         NodeRuns, ~ListRuns, ~RowRuns, NodeRuns', ~ListRuns', ~RowRuns',
         NEW k, NodeAssembleKey \/ NodeAssignKey(k) \/ NodeAssembleValue
  PROVE  HatCall /\ na' \in NaType /\ la' \in LaType /\ Running' /\ Pristine'
<1>1. na \in NaType /\ la \in LaType
  BY DEF AssignInv, TypeOK, NaType, LaType
<1>2. na.m = "Absent" /\ na.state # "finished"
  BY DEF AssignInv, Running, NodeAssembleKey, NodeReady, NodeAssignKey, NodeAssembleValue,
         Panic, Fail
<1>3. /\ naHat = [na EXCEPT !.m = "midvalue"] /\ laHat = la
  BY <1>1, <1>2 DEF naHat, laHat, Raised, NaType, LaType
<1>4. ASSUME na' \in NaType, la' \in LaType, na'.m = "Absent"
      PROVE  naHat' = [na' EXCEPT !.m = "midvalue"] /\ laHat' = la'
  BY <1>4 DEF naHat, laHat, Raised, NaType, LaType
<1>5. Hat!NodeHeld
  BY <1>1, <1>3 DEF Hat!NodeHeld, NaType
<1>6. CASE NodeAssembleKey
  <2>1. /\ NodeReady /\ na' = [NodeTidied EXCEPT !.state = "midKey"] /\ la' = LinksReleased
        /\ UNCHANGED <<node, va>>
    BY <1>6 DEF NodeAssembleKey, Panic
  <2>2. na' \in NaType /\ la' \in LaType /\ na'.m = "Absent"
    BY <1>1, <1>2, <2>1 DEF NodeTidied, LinksReleased, NaType, LaType, Maybe, MaState
  <2>3. Hat!NodeReady
    BY <1>1, <1>3, <2>1 DEF NodeReady, Hat!NodeReady, NodeValueDone, Hat!NodeValueDone, NaType
  <2>4. naHat' = [Hat!NodeTidied EXCEPT !.state = "midKey"]
    BY <1>1, <1>3, <1>4, <2>1, <2>2
       DEF NodeTidied, Hat!NodeTidied, NodeTidies, Hat!NodeTidies, NaType
  <2>5. laHat' = Hat!LinksReleased
    BY <1>1, <1>3, <1>4, <2>1, <2>2
       DEF LinksReleased, Hat!LinksReleased, NodeTidies, Hat!NodeTidies, NaType, LaType
  <2>6. HatCall
    BY <1>5, <2>1, <2>3, <2>4, <2>5 DEF HatCall, Hat!NodeCall, Hat!NodeAssembleKey
  <2>7. Running' /\ Pristine'
    BY <1>1, <2>1, <2>2
       DEF AssignInv, Running, Pristine, Given, NodeTidied, LinksReleased, NaType, LaType
  <2> QED BY <2>2, <2>6, <2>7
<1>7. CASE NodeAssignKey(k)
  <2>1. /\ na.state = "midKey" /\ k \in NodeFields \ na.s
        /\ na' = [na EXCEPT !.state = "expectValue", !.s = @ \cup {k}, !.f = k]
        /\ UNCHANGED <<node, la, va>>
    BY <1>7 DEF NodeAssignKey, NodeFree, Panic, Fail
  <2>2. na' \in NaType /\ la' \in LaType /\ na'.m = "Absent"
    BY <1>1, <1>2, <2>1 DEF NaType, LaType, MaState
  <2>3. naHat' = [naHat EXCEPT !.state = "expectValue", !.s = @ \cup {k}, !.f = k]
    BY <1>1, <1>3, <1>4, <2>1, <2>2 DEF NaType
  <2>4. naHat.state = "midKey" /\ k \in Hat!NodeFields \ naHat.s /\ laHat' = laHat
    BY <1>1, <1>3, <1>4, <2>1, <2>2 DEF NaType, Hat!NodeFields, NodeFields
  <2>5. Hat!NodeAssignKey(k) /\ k \in Hat!AnyKey
    BY <2>1, <2>3, <2>4 DEF Hat!NodeAssignKey, Hat!NodeFree, Hat!AnyKey
  <2>6. HatCall
    BY <1>5, <2>5 DEF HatCall, Hat!NodeCall
  <2>7. Running' /\ Pristine'
    BY <1>1, <2>1, <2>2 DEF AssignInv, Running, Pristine, Given, NodeFields, NaType, LaType
  <2> QED BY <2>2, <2>6, <2>7
<1>8. CASE NodeAssembleValue
  <2>1. /\ na.state = "expectValue" /\ na' = [na EXCEPT !.state = "midValue"]
        /\ la' = [la EXCEPT !.w = @ \/ na.f = "Links"]
        /\ UNCHANGED <<node, va>>
    BY <1>8 DEF NodeAssembleValue, Panic
  <2>2. na' \in NaType /\ la' \in LaType /\ na'.m = "Absent"
    BY <1>1, <1>2, <2>1 DEF NaType, LaType, MaState
  <2>3. /\ naHat.state = "expectValue" /\ naHat' = [naHat EXCEPT !.state = "midValue"]
        /\ laHat' = [laHat EXCEPT !.w = @ \/ naHat.f = "Links"]
    BY <1>1, <1>3, <1>4, <2>1, <2>2 DEF NaType, LaType
  <2>4. HatCall
    BY <1>5, <2>1, <2>3 DEF HatCall, Hat!NodeCall, Hat!NodeAssembleValue
  <2>5. Running' /\ Pristine'
    BY <1>1, <2>1, <2>2 DEF AssignInv, Running, Pristine, Given, NaType, LaType
  <2> QED BY <2>2, <2>4, <2>5
<1> QED BY <1>6, <1>7, <1>8

\* A loop on the list.
LEMMA ListLoopCalls ==
  ASSUME AssignInv, ~failed, res' = "ok",
         ListRuns, ~RowRuns, NodeRuns' <=> NodeRuns, ListRuns', ~RowRuns', LinksAssembleValue
  PROVE  /\ HatCall /\ na' \in NaType /\ la' \in LaType /\ Running' /\ Pristine'
         /\ la'.state = "midValue" /\ la'.cm = "Absent" /\ va'.state = "initial"
<1>1. na \in NaType /\ la \in LaType
  BY DEF AssignInv, TypeOK, NaType, LaType
<1>2. Given(na, "Links") /\ na.cm = "Absent"
  BY DEF AssignInv, Running, LinksAssembleValue, LinksReady, Panic
<1>3. /\ LinksReady /\ la.w /\ Last < MaxLinks
      /\ node' = [node EXCEPT !.Links = Append(@, NewLink)]
      /\ la' = [la EXCEPT !.state = "midValue", !.cm = CmReleased]
      /\ va' = RowReleased
      /\ na' = na
  BY DEF LinksAssembleValue, Panic
<1>4. naHat = [na EXCEPT !.m = Raised(@, NodeRuns), !.cm = "midvalue"] /\ naHat' = naHat
  BY <1>1, <1>2, <1>3 DEF naHat, Raised, NaType
<1>5. laHat = la /\ laHat' = la'
  <2>1. la' \in LaType
    BY <1>1, <1>3 DEF CmReleased, LaType, Maybe, LaState
  <2> QED BY <1>1, <2>1 DEF laHat, Raised, LaType
<1>6. Hat!ListHeld
  BY <1>1, <1>2, <1>4 DEF Hat!ListHeld, Hat!Given, Given, NaType
<1>7. Hat!LinksAssembleValue
  BY <1>3, <1>4, <1>5
     DEF Hat!LinksAssembleValue, Hat!LinksReady, LinksReady, Hat!Last, Last, Hat!NewLink, NewLink,
         Hat!CmReleased, CmReleased, Hat!RowReleased, RowReleased
<1>8. HatCall
  BY <1>6, <1>7 DEF HatCall, Hat!LinksCall
<1>9. la'.state = "midValue" /\ la'.cm = "Absent" /\ va'.state = "initial" /\ la' \in LaType
  <2>1. CASE la.state = "midValue"
    <3>1. va \in [state : MaState, s : SUBSET LinkFields, f : LinkFields, cm : Maybe, hash : Int]
      BY DEF AssignInv, TypeOK
    <3> QED BY <1>1, <1>3, <2>1, <3>1 DEF CmReleased, RowReleased, LaType, Maybe, LaState
  <2>2. CASE la.state # "midValue"
    <3>1. la.cm = "Absent" /\ va.state = "initial"
      BY <1>5, <2>2 DEF AssignInv, Hat!AssemblerInv, Hat!ListInv, Hat!RowInv
    <3> QED BY <1>1, <1>3, <2>2, <3>1 DEF CmReleased, RowReleased, LaType, Maybe, LaState
  <2> QED BY <2>1, <2>2
<1>10. Running' /\ Pristine'
  BY <1>2, <1>3 DEF AssignInv, Running, Pristine, Given
<1> QED BY <1>1, <1>3, <1>8, <1>9, <1>10

\* A loop on a row.
LEMMA RowLoopCalls ==
  ASSUME AssignInv, ~failed, res' = "ok",
         RowRuns, NodeRuns' <=> NodeRuns, ListRuns' <=> ListRuns, RowRuns',
         NEW k, LinkAssembleKey \/ LinkAssignKey(k) \/ LinkAssembleValue
  PROVE  HatCall /\ na' = na /\ la' = la /\ Running' /\ Pristine'
<1>1. na \in NaType /\ la \in LaType
  BY DEF AssignInv, TypeOK, NaType, LaType
<1>2. la.state = "midValue" /\ la.cm = "Absent"
  BY DEF AssignInv, Running, LinkAssembleKey, LinkReady, LinkAssignKey, LinkAssembleValue, Panic,
         Fail
<1>3. UNCHANGED <<node, na, la>>
  BY DEF LinkAssembleKey, LinkAssignKey, LinkAssembleValue, Panic, Fail, asm
<1>4. laHat = [la EXCEPT !.cm = "midvalue"] /\ laHat' = laHat /\ naHat' = naHat
  BY <1>1, <1>2, <1>3 DEF naHat, laHat, Raised, LaType
<1>5. Hat!LinkHeld
  BY <1>1, <1>2, <1>4 DEF Hat!LinkHeld, Hat!RowHeld, LaType
<1>6. ASSUME LinkAssembleKey PROVE HatCall
  <2>1. LinkReady /\ va' = [LinkTidied EXCEPT !.state = "midKey"]
    BY <1>6 DEF LinkAssembleKey, Panic
  <2>2. Hat!LinkAssembleKey
    BY <1>3, <1>4, <2>1
       DEF Hat!LinkAssembleKey, Hat!LinkReady, LinkReady, Hat!LinkValueDone, LinkValueDone,
           Hat!LinkTidied, LinkTidied, Hat!LinkTidies, LinkTidies, Hat!Row, Row, Hat!Last, Last
  <2> QED BY <1>5, <2>2 DEF HatCall, Hat!LinkCall
<1>7. ASSUME LinkAssignKey(k) PROVE HatCall
  <2>1. /\ va.state = "midKey" /\ k \in LinkFields \ va.s
        /\ va' = [va EXCEPT !.state = "expectValue", !.s = @ \cup {k}, !.f = k]
    BY <1>7 DEF LinkAssignKey, LinkFree, Panic, Fail
  <2>2. Hat!LinkAssignKey(k) /\ k \in Hat!AnyKey
    BY <1>3, <1>4, <2>1
       DEF Hat!LinkAssignKey, Hat!LinkFree, Hat!AnyKey, Hat!LinkFields, LinkFields
  <2> QED BY <1>5, <2>2 DEF HatCall, Hat!LinkCall
<1>8. ASSUME LinkAssembleValue PROVE HatCall
  <2>1. /\ va.state = "expectValue"
        /\ va' = [va EXCEPT !.state = "midValue", !.hash = IF va.f = "Hash" THEN Last ELSE @]
    BY <1>8 DEF LinkAssembleValue, Panic
  <2>2. Hat!LinkAssembleValue
    BY <1>3, <1>4, <2>1 DEF Hat!LinkAssembleValue, Hat!Last, Last
  <2> QED BY <1>5, <2>2 DEF HatCall, Hat!LinkCall
<1>9. Running' /\ Pristine'
  BY <1>2, <1>3 DEF AssignInv, Running, Pristine, Given
<1> QED BY <1>3, <1>6, <1>7, <1>8, <1>9

\* Finish after the last turn of a loop.
LEMMA NodeLoopFinishes ==
  ASSUME AssignInv, ~failed, Level = "type", res' = "ok",
         NodeRuns, ~ListRuns, ~RowRuns, ~NodeRuns', ~ListRuns', ~RowRuns', NodeFinish
  PROVE  HatCall /\ na' \in NaType /\ la' \in LaType /\ Running' /\ Pristine'
<1>1. na \in NaType /\ la \in LaType
  BY DEF AssignInv, TypeOK, NaType, LaType
<1>2. /\ NodeReady /\ "Links" \in na.s
      /\ na' = [NodeTidied EXCEPT !.state = "finished", !.m = "Value"]
      /\ la' = LinksReleased
      /\ UNCHANGED <<node, va>>
  BY DEF NodeFinish, Panic
<1>3. na.m = "Absent"
  BY <1>2 DEF AssignInv, Running, NodeReady
<1>4. naHat = [na EXCEPT !.m = "midvalue"] /\ laHat = la
  BY <1>1, <1>3 DEF naHat, laHat, Raised, NaType, LaType
<1>5. na' \in NaType /\ la' \in LaType
  BY <1>1, <1>2 DEF NodeTidied, LinksReleased, NaType, LaType, Maybe, MaState
<1>6. naHat' = na' /\ laHat' = la'
  BY <1>5 DEF naHat, laHat, Raised, NaType, LaType
<1>7. Hat!NodeHeld /\ Hat!NodeReady
  BY <1>1, <1>2, <1>4
     DEF Hat!NodeHeld, NodeReady, Hat!NodeReady, NodeValueDone, Hat!NodeValueDone, NaType
<1>8. /\ naHat' = [Hat!NodeTidied EXCEPT !.state = "finished", !.m = "Value"]
      /\ laHat' = Hat!LinksReleased /\ "Links" \in naHat.s
  BY <1>1, <1>2, <1>4, <1>6
     DEF NodeTidied, Hat!NodeTidied, NodeTidies, Hat!NodeTidies, LinksReleased,
         Hat!LinksReleased, NaType, LaType
<1>9. HatCall
  BY <1>2, <1>7, <1>8 DEF HatCall, Hat!NodeCall, Hat!NodeFinish
<1>10. Running' /\ Pristine'
  BY <1>1, <1>2 DEF Running, Pristine, Given, NodeTidied, NaType
<1> QED BY <1>5, <1>9, <1>10

LEMMA ListLoopFinishes ==
  ASSUME AssignInv, ~failed, res' = "ok",
         ListRuns, ~RowRuns, NodeRuns' <=> NodeRuns, ~ListRuns', ~RowRuns', LinksFinish
  PROVE  HatCall /\ na' \in NaType /\ la' \in LaType /\ Running' /\ Pristine'
<1>1. na \in NaType /\ la \in LaType
  BY DEF AssignInv, TypeOK, NaType, LaType
<1>2. Given(na, "Links") /\ na.cm = "Absent"
  BY DEF AssignInv, Running, LinksFinish, LinksReady, Panic
<1>3. /\ LinksReady
      /\ la' = [la EXCEPT !.state = "finished", !.cm = CmReleased]
      /\ va' = RowReleased
      /\ na' = [na EXCEPT !.cm = "Value"]
      /\ node' = node
  BY DEF LinksFinish, Panic
<1>4. na' \in NaType /\ la' \in LaType
  BY <1>1, <1>3 DEF CmReleased, NaType, LaType, Maybe, LaState
<1>5. naHat.cm = "midvalue" /\ laHat = la /\ laHat' = la' /\ naHat' = [naHat EXCEPT !.cm = "Value"]
  BY <1>1, <1>2, <1>3, <1>4 DEF naHat, laHat, Raised, NaType, LaType
<1>6. Hat!ListHeld
  BY <1>1, <1>2, <1>5 DEF Hat!ListHeld, Hat!Given, Given, naHat, NaType
<1>7. Hat!LinksFinish
  BY <1>3, <1>5
     DEF Hat!LinksFinish, Hat!LinksReady, LinksReady, Hat!CmReleased, CmReleased,
         Hat!RowReleased, RowReleased
<1>8. HatCall
  BY <1>6, <1>7 DEF HatCall, Hat!LinksCall
<1>9. Running' /\ Pristine'
  BY <1>1, <1>2, <1>3 DEF AssignInv, Running, Pristine, Given, NaType
<1> QED BY <1>4, <1>8, <1>9

LEMMA RowLoopFinishes ==
  ASSUME AssignInv, ~failed, res' = "ok",
         RowRuns, NodeRuns' <=> NodeRuns, ListRuns' <=> ListRuns, ~RowRuns', LinkFinish
  PROVE  HatCall /\ na' = na /\ la' \in LaType /\ Running' /\ Pristine'
<1>1. na \in NaType /\ la \in LaType
  BY DEF AssignInv, TypeOK, NaType, LaType
<1>2. la.state = "midValue" /\ la.cm = "Absent"
  BY DEF AssignInv, Running, LinkFinish, LinkReady, Panic
<1>3. /\ LinkReady /\ "Hash" \in va.s
      /\ va' = [LinkTidied EXCEPT !.state = "finished"]
      /\ la' = [la EXCEPT !.cm = "Value"]
      /\ UNCHANGED <<node, na>>
  BY DEF LinkFinish, Panic
<1>4. la' \in LaType
  BY <1>1, <1>3 DEF LaType, Maybe
<1>5. /\ laHat = [la EXCEPT !.cm = "midvalue"] /\ laHat' = [laHat EXCEPT !.cm = "Value"]
      /\ naHat' = naHat
  BY <1>1, <1>2, <1>3, <1>4 DEF naHat, laHat, Raised, LaType
<1>6. Hat!LinkHeld
  BY <1>1, <1>2, <1>5 DEF Hat!LinkHeld, Hat!RowHeld, LaType
<1>7. Hat!LinkFinish
  BY <1>3, <1>5
     DEF Hat!LinkFinish, Hat!LinkReady, LinkReady, Hat!LinkValueDone, LinkValueDone,
         Hat!LinkTidied, LinkTidied, Hat!LinkTidies, LinkTidies, Hat!Row, Row, Hat!Last, Last
<1>8. HatCall
  BY <1>6, <1>7 DEF HatCall, Hat!LinkCall
<1>9. Running' /\ Pristine'
  BY <1>1, <1>2, <1>3 DEF AssignInv, Running, Pristine, Given
<1> QED BY <1>3, <1>4, <1>8, <1>9

\* A struct of the assembler's own type is taken whole.
LEMMA OwnAssigned ==
  ASSUME AssignInv, ~failed, res' = "ok", NEW t, t = Head(todo), todo # <<>>, t.does = "assign",
         NEW x, OwnFits(t.at, x), AssignOwn(t.at, x),
         NodeRuns' <=> NodeRuns, ListRuns' <=> ListRuns, RowRuns' <=> RowRuns
  PROVE  HatCall /\ na' \in NaType /\ la' \in LaType /\ Running' /\ Pristine'
<1>1. na \in NaType /\ la \in LaType
  BY DEF AssignInv, TypeOK, NaType, LaType
<1>2. ReadyFor(t) /\ Running /\ Pristine
  BY DEF AssignInv, Ready
<1>3. /\ t.at = "node" => ~NodeRuns /\ ~ListRuns /\ ~RowRuns
      /\ t.at = "list" => ~ListRuns /\ ~RowRuns
      /\ t.at = "row"  => ~RowRuns
  BY StackHead DEF AssignInv, NodeRuns, ListRuns, RowRuns
<1>4. CASE t.at = "node" /\ NodeAssignTyped(x)
  <2>1. na.m = "Absent" /\ node' = x /\ na' = [na EXCEPT !.m = "Value"] /\ UNCHANGED <<la, va>>
    BY <1>4 DEF NodeAssignTyped, Panic
  <2>2. na' \in NaType
    BY <1>1, <2>1 DEF NaType, Maybe
  <2>3. naHat = na /\ naHat' = na' /\ laHat' = laHat
    BY <1>1, <1>3, <1>4, <2>1, <2>2 DEF naHat, laHat, Raised, NaType, LaType
  <2>4. x \in OwnNodes
    BY <1>4 DEF OwnFits, OwnNodes
  <2>5. Hat!NodeAssignTyped(x)
    BY <2>1, <2>3 DEF Hat!NodeAssignTyped
  <2>6. HatCall
    BY <2>4, <2>5 DEF HatCall, Hat!NodeCall
  <2> QED BY <1>1, <1>2, <1>3, <1>4, <2>1, <2>2, <2>6 DEF Running, Pristine, Given, NaType
<1>5. CASE t.at = "list" /\ LinksAssignTyped(x)
  <2>1. /\ la.w /\ node' = [node EXCEPT !.Links = x] /\ na' = [na EXCEPT !.cm = "Value"]
        /\ va' = RowsReplaced /\ la' = la /\ na.cm = "Absent"
    BY <1>5 DEF LinksAssignTyped, Panic
  <2>2. na' \in NaType
    BY <1>1, <2>1 DEF NaType, Maybe
  <2>3. naHat' = [naHat EXCEPT !.cm = "Value"] /\ laHat' = laHat /\ laHat.w = la.w
        /\ naHat.cm = "Absent"
    BY <1>1, <1>3, <1>5, <2>1, <2>2 DEF naHat, laHat, Raised, NaType, LaType
  <2>4. PICK n : n = [Links |-> x, Data |-> Unset]
    OBVIOUS
  <2>5. n \in OwnNodes /\ n.Links = x
    BY <1>5, <2>4 DEF OwnFits, OwnNodes, PBNode
  <2>6. Hat!LinksAssignTyped(n.Links)
    BY <2>1, <2>3, <2>5 DEF Hat!LinksAssignTyped, Hat!RowsReplaced, RowsReplaced, Hat!Stray, Stray
  <2>7. Hat!Given(naHat, "Links")
    BY <1>1, <1>2, <1>5 DEF ReadyFor, Hat!Given, Given, naHat, NaType
  <2>8. HatCall
    BY <2>5, <2>6, <2>7 DEF HatCall, Hat!LinksCall
  <2>9. Running' /\ Pristine'
    BY <1>1, <1>2, <1>3, <1>5, <2>1 DEF ReadyFor, Running, Pristine, Given, NaType
  <2> QED BY <1>1, <2>1, <2>2, <2>8, <2>9
<1>6. CASE t.at = "row" /\ LinkAssignTyped(x)
  <2>1. /\ node' = [node EXCEPT !.Links[Last] = x] /\ la' = [la EXCEPT !.cm = "Value"]
        /\ UNCHANGED <<na, va>> /\ la.cm = "Absent"
    BY <1>6 DEF LinkAssignTyped, Panic
  <2>2. la' \in LaType
    BY <1>1, <2>1 DEF LaType, Maybe
  <2>3. laHat = la /\ laHat' = la' /\ naHat' = naHat
    BY <1>1, <1>3, <1>6, <2>1, <2>2 DEF naHat, laHat, Raised, LaType
  <2>4. x \in OwnLinks
    BY <1>6 DEF OwnFits, OwnLinks
  <2>5. Hat!LinkAssignTyped(x)
    BY <2>1, <2>3 DEF Hat!LinkAssignTyped, Hat!Last, Last
  <2>6. Hat!RowHeld
    BY <1>2, <1>6, <2>3 DEF ReadyFor, Hat!RowHeld
  <2>7. HatCall
    BY <2>4, <2>5, <2>6 DEF HatCall, Hat!LinkCall
  <2>8. Running' /\ Pristine'
    BY <1>1, <1>2, <1>3, <1>6, <2>1 DEF Running, Pristine, Given, LaType
  <2> QED BY <1>1, <2>1, <2>2, <2>7, <2>8
<1> QED BY <1>4, <1>5, <1>6 DEF AssignOwn

\* A loop begins: the instance's assembler begins with it, unless it is done.
LEMMA LoopBegins ==
  ASSUME AssignInv, ~failed, res' = "ok", UNCHANGED asm,
         NEW t, t = Head(todo), todo # <<>>, t.does = "assign", t.v.kind = KindOf[t.at],
         t.at \in {"node", "list", "row"},
         NodeRuns' <=> t.at = "node" \/ NodeRuns,
         ListRuns' <=> t.at = "list" \/ ListRuns,
         RowRuns'  <=> t.at = "row" \/ RowRuns
  PROVE  (HatCall \/ UNCHANGED <<naHat, laHat>>) /\ Running' /\ Pristine'
<1>1. na \in NaType /\ la \in LaType /\ UNCHANGED <<node, na, la, va>>
  BY DEF AssignInv, TypeOK, NaType, LaType, asm
<1>2. ReadyFor(t) /\ Running /\ Pristine
  BY DEF AssignInv, Ready
<1>3. /\ t.at = "node" => ~NodeRuns /\ ~ListRuns /\ ~RowRuns
      /\ t.at = "list" => ~ListRuns /\ ~RowRuns
      /\ t.at = "row"  => ~RowRuns
  BY StackHead DEF AssignInv, NodeRuns, ListRuns, RowRuns
<1>4. Running' /\ Pristine'
  BY <1>1, <1>2, <1>3 DEF ReadyFor, Running, Pristine, Given, KindOf
<1>5. CASE t.at = "node" /\ na.m = "Absent"
  <2>1. naHat.m = "Absent" /\ naHat' = [naHat EXCEPT !.m = "midvalue"] /\ laHat' = laHat
    BY <1>1, <1>3, <1>5 DEF naHat, laHat, Raised, NaType, LaType
  <2> QED BY <1>1, <1>4, <2>1 DEF HatCall, Hat!NodeCall, Hat!NodeBeginMap
<1>6. CASE t.at = "node" /\ na.m # "Absent"
  <2>1. naHat' = naHat /\ laHat' = laHat
    BY <1>1, <1>3, <1>6 DEF naHat, laHat, Raised, NaType, LaType
  <2> QED BY <1>4, <2>1
<1>7. CASE t.at = "list" /\ na.cm = "Absent"
  <2>1. naHat.cm = "Absent" /\ naHat' = [naHat EXCEPT !.cm = "midvalue"] /\ laHat' = laHat
    BY <1>1, <1>2, <1>3, <1>7 DEF ReadyFor, naHat, laHat, Raised, NaType, LaType
  <2>2. Hat!Given(naHat, "Links")
    BY <1>1, <1>2, <1>7 DEF ReadyFor, Hat!Given, Given, naHat, NaType
  <2>3. Hat!LinksBeginList(0)
    BY <1>1, <2>1 DEF Hat!LinksBeginList
  <2> QED BY <1>4, <2>2, <2>3 DEF HatCall, Hat!LinksCall
<1>8. CASE t.at = "row" /\ la.cm = "Absent"
  <2>1. laHat.cm = "Absent" /\ laHat' = [laHat EXCEPT !.cm = "midvalue"] /\ naHat' = naHat
    BY <1>1, <1>2, <1>3, <1>8 DEF ReadyFor, naHat, laHat, Raised, NaType, LaType
  <2>2. Hat!RowHeld
    BY <1>1, <1>2, <1>8 DEF ReadyFor, Hat!RowHeld, laHat, LaType
  <2> QED BY <1>1, <1>4, <2>1, <2>2 DEF HatCall, Hat!LinkCall, Hat!LinkBeginMap
<1>9. CASE \/ t.at = "list" /\ na.cm # "Absent"
           \/ t.at = "row" /\ la.cm # "Absent"
  <2>1. naHat' = naHat /\ laHat' = laHat
    BY <1>1, <1>3, <1>9 DEF naHat, laHat, Raised, NaType, LaType
  <2> QED BY <1>4, <2>1
<1> QED BY <1>5, <1>6, <1>7, <1>8, <1>9

\* A field gets its value.
LEMMA LeafAssigned ==
  ASSUME AssignInv, ~failed, res' = "ok", NEW t, t = Head(todo), todo # <<>>, t.does = "assign",
         LeafFits(t.v), t.v.kind = KindOf[t.at], AssignLeaf(t.at, t.v.value),
         NodeRuns' <=> NodeRuns, ListRuns' <=> ListRuns, RowRuns' <=> RowRuns
  PROVE  HatCall /\ na' = na /\ la' = la /\ Running' /\ Pristine'
<1>1. na \in NaType /\ la \in LaType
  BY DEF AssignInv, TypeOK, NaType, LaType
<1>2. ReadyFor(t) /\ Running /\ Pristine
  BY DEF AssignInv, Ready
<1>3. UNCHANGED <<na, la>>
  BY DEF AssignLeaf, DataAssignBytes, HashAssignLink, NameAssignString, TsizeAssignInt, Panic, asm
<1>4. naHat' = naHat /\ laHat' = laHat
  BY <1>3 DEF naHat, laHat
<1>5. Running' /\ Pristine'
  <2>1. va'.state = va.state
    BY DEF AssignLeaf, DataAssignBytes, HashAssignLink, NameAssignString, TsizeAssignInt, Panic, asm,
           AssignInv, TypeOK
  <2> QED BY <1>2, <1>3, <2>1 DEF Running, Pristine, Given
<1>6. ASSUME t.at = "Data", DataAssignBytes(t.v.value) PROVE HatCall
  <2>1. t.v.value \in Chunks
    BY <1>6 DEF LeafFits, KindOf
  <2>2. Hat!Given(naHat, "Data")
    BY <1>1, <1>2, <1>6 DEF ReadyFor, Hat!Given, Given, naHat, NaType
  <2>3. Hat!DataAssignBytes(t.v.value)
    BY <1>4, <1>6 DEF Hat!DataAssignBytes, DataAssignBytes, Hat!Panic, Panic, Hat!asm, asm
  <2> QED BY <2>1, <2>2, <2>3 DEF HatCall, Hat!NodeCall
<1>7. ASSUME t.at \in LinkFields
      PROVE  Hat!LinkHeld /\ Hat!Given(va, t.at)
  <2>1. la.state = "midValue" /\ la.cm = "Absent" /\ RowRuns /\ Given(va, t.at)
    BY <1>2, <1>7 DEF ReadyFor, Running
  <2> QED BY <1>1, <2>1 DEF Hat!LinkHeld, Hat!RowHeld, Hat!Given, Given, laHat, Raised, LaType
<1>8. ASSUME t.at = "Hash", HashAssignLink(t.v.value) PROVE HatCall
  <2>1. t.v.value \in Hashes
    BY <1>8 DEF LeafFits, KindOf
  <2>2. Hat!HashAssignLink(t.v.value)
    BY <1>4, <1>8
       DEF Hat!HashAssignLink, HashAssignLink, Hat!Last, Last, Hat!Panic, Panic, Hat!asm, asm
  <2> QED BY <1>7, <1>8, <2>1, <2>2 DEF HatCall, Hat!LinkCall, LinkFields
<1>9. ASSUME t.at = "Name", NameAssignString(t.v.value) PROVE HatCall
  <2>1. t.v.value \in Names
    BY <1>9 DEF LeafFits, KindOf
  <2>2. Hat!NameAssignString(t.v.value)
    BY <1>4, <1>9
       DEF Hat!NameAssignString, NameAssignString, Hat!Row, Row, Hat!Last, Last, Hat!Panic, Panic,
           Hat!asm, asm
  <2> QED BY <1>7, <1>9, <2>1, <2>2 DEF HatCall, Hat!LinkCall, LinkFields
<1>10. ASSUME t.at = "Tsize", TsizeAssignInt(t.v.value) PROVE HatCall
  <2>1. t.v.value \in Tsizes
    BY <1>10 DEF LeafFits, KindOf
  <2>2. Hat!TsizeAssignInt(t.v.value)
    BY <1>4, <1>10
       DEF Hat!TsizeAssignInt, TsizeAssignInt, Hat!Row, Row, Hat!Last, Last, Hat!Panic, Panic,
           Hat!asm, asm
  <2> QED BY <1>7, <1>10, <2>1, <2>2 DEF HatCall, Hat!LinkCall, LinkFields
<1> QED BY <1>3, <1>5, <1>6, <1>8, <1>9, <1>10 DEF AssignLeaf

-----------------------------------------------------------------------------
(* Every step keeps AssignInv, takes back nothing and leaves a node that may be *)
(* built alone.                                                             *)

\* The tree of the instance is in step: so the caller sees what it may rely on.
LEMMA HatShows ==
  ASSUME TypeOK, Hat!AssemblerInv
  PROVE  FinishedComplete /\ RowBitsTrue /\ (naHat.m = "Value" <=> na.m = "Value")
<1>1. /\ naHat.m = Raised(na.m, NodeRuns) /\ laHat.cm = Raised(la.cm, RowRuns)
      /\ laHat.state = la.state
  BY HatFields
<1>2. naHat.m = "Value" <=> na.m = "Value"
  BY <1>1 DEF Raised
<1>3. FinishedComplete
  <2> SUFFICES ASSUME na.m = "Value" PROVE \A i \in 1..Last : Complete(node.Links[i])
    BY DEF FinishedComplete
  <2>1. laHat.state # "midValue"
    BY <1>2 DEF Hat!AssemblerInv, Hat!NodeInv, Hat!ListInv
  <2> QED BY <2>1 DEF Hat!AssemblerInv, Hat!ListInv, Hat!Last, Last, Hat!Complete, Complete
<1>4. RowBitsTrue
  <2> SUFFICES ASSUME la.state = "midValue", la.cm # "Value", NEW k \in LinkFields
               PROVE  /\ Row[k] # Unset => k \in va.s
                      /\ k \in va.s /\ ~Pending(va, k) => Row[k] # Unset
    BY DEF RowBitsTrue
  <2>1. laHat.state = "midValue" /\ laHat.cm \in {"Absent", "midvalue"}
    BY <1>1 DEF Raised, TypeOK, Maybe
  <2>2. Hat!Row = Row /\ Hat!LinkFields = LinkFields /\ (Hat!Pending(va, k) <=> Pending(va, k))
    BY DEF Hat!Row, Row, Hat!Last, Last, Hat!LinkFields, LinkFields, Hat!Pending, Pending
  <2>3. CASE laHat.cm = "Absent"
    <3>1. va.s = {} /\ Row = Hat!NewLink
      BY <2>1, <2>2, <2>3 DEF Hat!AssemblerInv, Hat!RowInv
    <3> QED BY <3>1 DEF Hat!NewLink, LinkFields
  <2>4. CASE laHat.cm = "midvalue"
    BY <2>2, <2>4 DEF Hat!AssemblerInv, Hat!RowInv, Hat!RowFieldsRecorded
  <2> QED BY <2>1, <2>3, <2>4
<1> QED BY <1>2, <1>3, <1>4

LEMMA HatUnmoved ==
  ASSUME Hat!AssemblerInv, UNCHANGED <<node, naHat, laHat, va>>, res' \in {"ok", "err", "panic"}
  PROVE  Hat!AssemblerInv'
BY Hat!StandsStill, HatAssumptions DEF Hat!asm

LEMMA EmptyStack ==
  ASSUME todo' = <<>>
  PROVE  Stack(todo') /\ Ready' /\ ~NodeRuns' /\ ~ListRuns' /\ ~RowRuns' /\ Running'
<1>1. Stack(<<>>)
  BY DEF Stack
<1>2. ~NodeRuns' /\ ~ListRuns' /\ ~RowRuns'
  BY DEF NodeRuns, ListRuns, RowRuns, RunsIn
<1> QED BY <1>1, <1>2 DEF Ready, Running

LEMMA Settled ==
  ASSUME AssignInv, ~failed, failed' = FALSE, Level = "type", res' \in {"ok", "err", "panic"},
         HatCall \/ UNCHANGED <<node, naHat, laHat, va>>,
         na' \in NaType, la' \in LaType, Stack(todo'), Running', Pristine', Ready'
  PROVE  AssignInv' /\ Grown /\ (na.m = "Value" => node' = node)
<1>1. Hat!AssemblerInv /\ TypeOK
  BY DEF AssignInv
<1>2. CASE HatCall
  <2>1. Hat!AssemblerInv' /\ Grown /\ (naHat.m = "Value" => node' = node)
    BY <1>1, <1>2, HatKeeps
  <2>2. TypeOK'
    BY <2>1, TypesFollow
  <2>3. na.m = "Value" => node' = node
    BY <1>1, <2>1, HatShows
  <2> QED BY <2>1, <2>2, <2>3 DEF AssignInv
<1>3. CASE UNCHANGED <<node, naHat, laHat, va>>
  <2>1. Hat!AssemblerInv'
    BY <1>1, <1>3, HatUnmoved
  <2>2. TypeOK'
    BY <2>1, TypesFollow
  <2>3. Grown
    BY <1>1, <1>3 DEF Grown, Kept, TypeOK, PBNode
  <2> QED BY <1>3, <2>1, <2>2, <2>3 DEF AssignInv
<1> QED BY <1>2, <1>3

\* An error or a panic ends the AssignNode.  A Finish that fails has tidied; every other
\* refusal changes nothing.
LEMMA StepFails ==
  ASSUME AssignStep, res' # "ok"
  PROVE  /\ todo' = <<>> /\ res' \in {"err", "panic"}
         /\ failed' = (failed \/ (Begun /\ todo[Len(todo)].at \notin Careless))
         /\ \/ UNCHANGED asm
            \/ /\ IsLoop(Head(todo), "node") /\ NodeReady
               /\ na' = NodeTidied /\ la' = LinksReleased /\ UNCHANGED <<node, va>>
            \/ /\ IsLoop(Head(todo), "row") /\ LinkReady
               /\ va' = LinkTidied /\ UNCHANGED <<node, na, la>>
<1> DEFINE Ended ==
             /\ todo' = <<>>
             /\ failed' = (failed \/ (Begun /\ todo[Len(todo)].at \notin Careless))
           Same == UNCHANGED asm /\ res' \in {"err", "panic"}
           t == Head(todo)
<1>1. ASSUME NEW more, Then(more) PROVE Ended
  BY <1>1 DEF Then
<1> HIDE DEF Ended
<1>2. ASSUME Panic \/ Fail PROVE Same
  BY <1>2 DEF Panic, Fail
<1>3. ASSUME Assign(t.at, t.v) PROVE Ended /\ Same
  <2>1. Ended
    BY <1>1, <1>3 DEF Assign
  <2>2. \/ AssignNull(M(t.at)) \/ WrongKind \/ AssignOwn(t.at, t.v.value) \/ Succeed
        \/ AssignLeaf(t.at, t.v.value)
    BY <1>3 DEF Assign
  <2>3. Panic \/ Fail
    BY <2>2 DEF AssignNull, WrongKind, AssignOwn, Succeed, AssignLeaf, NodeAssignTyped,
                LinksAssignTyped, LinkAssignTyped, DataAssignBytes, HashAssignLink,
                NameAssignString, TsizeAssignInt
  <2> QED BY <1>2, <2>1, <2>3
<1>4. ASSUME Turn(t.at, t.v), t.does = "loop"
      PROVE  /\ Ended
             /\ \/ Same
                \/ /\ IsLoop(t, "node") /\ NodeReady /\ res' = "err"
                   /\ na' = NodeTidied /\ la' = LinksReleased /\ UNCHANGED <<node, va>>
                \/ /\ IsLoop(t, "row") /\ LinkReady /\ res' = "err"
                   /\ va' = LinkTidied /\ UNCHANGED <<node, na, la>>
  <2>1. Ended
    BY <1>1, <1>4 DEF Turn
  <2>2. Fail \/ (t.at = "node" /\ NodeFinish) \/ (t.at = "list" /\ LinksFinish)
        \/ (t.at = "row" /\ LinkFinish)
    BY <1>4 DEF Turn, Succeed
  <2>3. CASE Fail
    BY <1>2, <2>1, <2>3
  <2>4. CASE t.at = "node" /\ NodeFinish
    BY <1>2, <1>4, <2>1, <2>4 DEF NodeFinish, IsLoop
  <2>5. CASE t.at = "list" /\ LinksFinish
    BY <1>2, <2>1, <2>5 DEF LinksFinish
  <2>6. CASE t.at = "row" /\ LinkFinish
    BY <1>2, <1>4, <2>1, <2>6 DEF LinkFinish, IsLoop
  <2> QED BY <2>2, <2>3, <2>4, <2>5, <2>6
<1>5. ASSUME AssembleKey(t.at) \/ AssignKey(t.at, t.v) \/ AssembleValue(t.at, t.v)
      PROVE  Ended /\ Same
  <2>1. Ended
    BY <1>1, <1>5 DEF AssembleKey, AssignKey, AssembleValue
  <2>2. Panic \/ Fail
    BY <1>5
       DEF AssembleKey, AssignKey, AssembleValue, NodeAssembleKey, LinkAssembleKey, NodeAssignKey,
           LinkAssignKey, NodeAssembleValue, LinksAssembleValue, LinkAssembleValue
  <2> QED BY <1>2, <2>1, <2>2
<1>6. \/ Assign(t.at, t.v) \/ (t.does = "loop" /\ Turn(t.at, t.v))
      \/ AssembleKey(t.at) \/ AssignKey(t.at, t.v) \/ AssembleValue(t.at, t.v)
  BY DEF AssignStep
<1> QED BY <1>3, <1>4, <1>5, <1>6 DEF Ended

LEMMA FailureKeeps ==
  ASSUME AssignInv, ~failed, Level = "type", Careless = {}, AssignStep, res' # "ok"
  PROVE  AssignInv' /\ Grown /\ (na.m = "Value" => node' = node)
<1>1. todo # <<>> /\ Stack(todo) /\ TypeOK /\ Hat!AssemblerInv /\ Running /\ Pristine
  BY DEF AssignStep, AssignInv
<1>2. /\ todo' = <<>> /\ res' \in {"err", "panic"} /\ failed' = Begun
      /\ \/ UNCHANGED asm
         \/ /\ IsLoop(Head(todo), "node") /\ NodeReady
            /\ na' = NodeTidied /\ la' = LinksReleased /\ UNCHANGED <<node, va>>
         \/ /\ IsLoop(Head(todo), "row") /\ LinkReady
            /\ va' = LinkTidied /\ UNCHANGED <<node, na, la>>
  <2>1. /\ todo' = <<>> /\ res' \in {"err", "panic"}
        /\ failed' = (failed \/ (Begun /\ todo[Len(todo)].at \notin Careless))
        /\ \/ UNCHANGED asm
           \/ /\ IsLoop(Head(todo), "node") /\ NodeReady
              /\ na' = NodeTidied /\ la' = LinksReleased /\ UNCHANGED <<node, va>>
           \/ /\ IsLoop(Head(todo), "row") /\ LinkReady
              /\ va' = LinkTidied /\ UNCHANGED <<node, na, la>>
    BY StepFails, Zenon
  <2>2. (failed \/ (Begun /\ todo[Len(todo)].at \notin Careless)) = Begun
    <3>1. Begun \in BOOLEAN
      BY DEF Begun
    <3>2. failed = FALSE /\ ~(todo[Len(todo)].at \in Careless)
      BY DEF AssignInv
    <3> QED BY <3>1, <3>2
  <2> QED BY <2>1, <2>2, Zenon
<1>3. na \in NaType /\ la \in LaType /\ va \in VaType /\ node \in PBNode
  BY <1>1 DEF TypeOK, NaType, LaType, VaType
<1>4. node' = node
  BY <1>2 DEF asm
<1>5. Grown
  BY <1>3, <1>4 DEF Grown, Kept, PBNode
<1>6. Begun \in BOOLEAN
  BY DEF Begun
<1>7. CASE ~Begun
  <2>1. Head(todo).does = "assign" /\ ~(Len(todo) > 1)
    BY <1>7 DEF Begun
  <2>2. UNCHANGED asm
    BY <1>2, <2>1 DEF IsLoop
  <2>3. ~NodeRuns /\ ~ListRuns /\ ~RowRuns
    <3>1. PICK S : todo \in Seq(S)
      BY <1>1 DEF Stack
    <3>2. \A i \in 1..Len(todo) : todo[i] = Head(todo)
      BY <1>1, <2>1, <3>1
    <3> QED BY <2>1, <3>2 DEF NodeRuns, ListRuns, RowRuns, RunsIn, IsLoop
  <2>4. ~NodeRuns' /\ ~ListRuns' /\ ~RowRuns' /\ Stack(todo') /\ Running' /\ Ready'
    BY <1>2, EmptyStack
  <2>5. UNCHANGED <<node, naHat, laHat, va>>
    BY <2>2, <2>3, <2>4 DEF asm, naHat, laHat, Raised
  <2>6. Pristine' /\ na' \in NaType /\ la' \in LaType
    BY <1>1, <1>3, <2>2 DEF asm, Pristine, Given
  <2> QED BY <1>2, <1>6, <1>7, <2>4, <2>5, <2>6, Settled
<1>8. CASE Begun
  <2>1. FinishedComplete /\ RowBitsTrue
    BY <1>1, HatShows
  <2>2. Stack(todo')
    BY <1>2, EmptyStack
  <2>3. CASE UNCHANGED asm
    <3>1. TypeOK'
      BY <1>1, <1>2, <2>3 DEF TypeOK, asm
    <3>2. FinishedComplete' /\ RowBitsTrue'
      BY <2>1, <2>3 DEF asm, FinishedComplete, RowBitsTrue, Last, Row, Complete, Pending
    <3> QED BY <1>2, <1>4, <1>5, <1>8, <2>2, <3>1, <3>2 DEF AssignInv
  <2>4. CASE /\ IsLoop(Head(todo), "node") /\ NodeReady
             /\ na' = NodeTidied /\ la' = LinksReleased /\ UNCHANGED <<node, va>>
    <3>1. na' \in NaType /\ la' \in LaType /\ na'.m = na.m
          /\ la'.state = la.state /\ la'.cm = la.cm
      BY <1>3, <2>4 DEF NodeTidied, LinksReleased, NaType, LaType, Maybe, MaState
    <3>2. TypeOK'
      BY <1>2, <1>3, <2>4, <3>1 DEF TypeOK, NaType, LaType, VaType
    <3>3. FinishedComplete' /\ RowBitsTrue'
      BY <2>1, <2>4, <3>1 DEF FinishedComplete, RowBitsTrue, Last, Row, Complete, Pending
    <3> QED BY <1>2, <1>4, <1>5, <1>8, <2>2, <3>2, <3>3 DEF AssignInv
  <2>5. CASE /\ IsLoop(Head(todo), "row") /\ LinkReady
             /\ va' = LinkTidied /\ UNCHANGED <<node, na, la>>
    <3>1. RowRuns
      BY <1>1, <2>5, StackHead DEF RowRuns, IsLoop
    <3>2. la.state = "midValue" /\ la.cm = "Absent"
      BY <1>1, <2>5, <3>1 DEF Running, LinkReady
    <3>3. Hat!LinkHeld
      BY <1>3, <3>1, <3>2 DEF Hat!LinkHeld, Hat!RowHeld, laHat, Raised, LaType
    <3>4. Hat!LinkReady
      BY <2>5
         DEF Hat!LinkReady, LinkReady, Hat!LinkValueDone, LinkValueDone, Hat!Row, Row, Hat!Last,
             Last
    <3>5. /\ Hat!LinkTidied \in Hat!VaType /\ Hat!LinkTidied.s = va.s
          /\ Hat!LinkTidied.state = "initial"
          /\ \A k \in Hat!LinkFields : k \in va.s <=> Hat!Row[k] # Unset
      BY <1>1, <3>3, <3>4, Hat!LinkTidy, HatAssumptions
    <3>6. Hat!LinkTidied = LinkTidied /\ Hat!VaType = VaType /\ Hat!LinkFields = LinkFields
          /\ Hat!Row = Row
      BY DEF Hat!LinkTidied, LinkTidied, Hat!LinkTidies, LinkTidies, Hat!VaType, VaType, Hat!MaState,
             MaState, Hat!LinkFields, LinkFields, Hat!Maybe, Maybe, Hat!Row, Row, Hat!Last, Last
    <3>7. va' \in VaType /\ va'.s = va.s /\ Row' = Row
          /\ \A k \in LinkFields : k \in va.s <=> Row[k] # Unset
      BY <2>5, <3>5, <3>6 DEF Row, Last
    <3>8. TypeOK'
      BY <1>2, <1>3, <2>5, <3>7 DEF TypeOK, NaType, LaType, VaType
    <3>9. FinishedComplete' /\ RowBitsTrue'
      BY <2>1, <2>5, <3>7 DEF FinishedComplete, RowBitsTrue, Last, Complete
    <3> QED BY <1>2, <1>4, <1>5, <1>8, <2>2, <3>8, <3>9 DEF AssignInv
  <2> QED BY <1>2, <2>3, <2>4, <2>5
<1> QED BY <1>7, <1>8

LEMMA Going ==
  ASSUME NEW more, Then(more), res' = "ok", ~failed, AssignInv
  PROVE  todo' = more \o Tail(todo) /\ failed' = FALSE
BY DEF Then, AssignInv

Rest(v) == [v EXCEPT !.entries = Tail(@)]

Follows(w, v) ==
  /\ Iterates(w) /\ w.kind = v.kind
  /\ \A i \in 1..Len(w.entries) : \E j \in 1..Len(v.entries) : w.entries[i] = v.entries[j]
  /\ \E j \in 1..Len(v.entries) : Head(v.entries) = v.entries[j]

\* The rest of an iteration fits, and so does what it has just come to.
LEMMA RestFits ==
  ASSUME NEW v, Iterates(v), v.entries # <<>>
  PROVE  Follows(Rest(v), v)
<1>0. PICK w : w = Rest(v)
  OBVIOUS
<1> DEFINE S == {v.entries[i] : i \in 1..Len(v.entries)}
<1>1. v = [kind |-> v.kind, entries |-> v.entries, broken |-> v.broken] /\ v.entries \in Seq(S)
  BY DEF Iterates
<1>2. /\ w.kind = v.kind /\ w.entries = Tail(v.entries)
      /\ w = [kind |-> w.kind, entries |-> w.entries, broken |-> w.broken]
  BY <1>0, <1>1 DEF Rest
<1> HIDE DEF S
<1>3. /\ Tail(v.entries) \in Seq(S) /\ Len(Tail(v.entries)) = Len(v.entries) - 1
      /\ Len(v.entries) \in Nat /\ Len(v.entries) > 0 /\ Head(v.entries) = v.entries[1]
      /\ \A i \in 1..Len(v.entries) - 1 : Tail(v.entries)[i] = v.entries[i + 1]
  BY <1>1
<1>4. \A i \in 1..Len(w.entries) : \E j \in 1..Len(v.entries) : w.entries[i] = v.entries[j]
  <2> TAKE i \in 1..Len(w.entries)
  <2>1. i \in 1..Len(v.entries) - 1 /\ i + 1 \in 1..Len(v.entries)
    BY <1>2, <1>3
  <2> QED BY <1>2, <1>3, <2>1
<1>5. w.entries \in Seq({w.entries[i] : i \in 1..Len(w.entries)})
  <2> DEFINE R == {w.entries[i] : i \in 1..Len(w.entries)}
  <2>1. Len(w.entries) \in Nat /\ w.entries \in [1..Len(w.entries) -> S]
    BY <1>2, <1>3, LenProperties
  <2>2. w.entries \in [1..Len(w.entries) -> R]
    BY <2>1
  <2> HIDE DEF R
  <2>3. w.entries \in Seq(R)
    BY <2>1, <2>2, SeqDef
  <2> QED BY <2>3 DEF R
<1>6. 1 \in 1..Len(v.entries)
  BY <1>3
<1>7. Iterates(w)
  BY <1>2, <1>5 DEF Iterates
<1>8. Follows(w, v)
  BY <1>2, <1>3, <1>4, <1>6, <1>7 DEF Follows
<1> QED BY <1>0, <1>8

\* The calls of a turn fit their assemblers.
LEMMA TurnFits ==
  ASSUME NEW t, FrameFits(t), t.does = "loop", t.v.entries # <<>>
  PROVE  /\ FrameFits(Frame(t.at, "AssembleKey", Head(t.v.entries)))
         /\ FrameFits(Frame(t.at, "AssignKey", Head(t.v.entries)))
         /\ FrameFits(Frame(t.at, "AssembleValue", Head(t.v.entries).value))
         /\ FrameFits(Frame(t.at, "loop", Rest(t.v)))
<1>1. t.at \in {"node", "list", "row"} /\ t.v.kind = KindOf[t.at] /\ ArgumentFits(t)
      /\ t.at \in DOMAIN Depth
  BY DEF FrameFits, ArgumentFits
<1>2. FrameFits(Frame(t.at, "AssembleKey", Head(t.v.entries)))
      /\ FrameFits(Frame(t.at, "AssignKey", Head(t.v.entries)))
  BY <1>1 DEF FrameFits, Frame, ArgumentFits, Phase, Depth
<1>3. PICK w : w = Rest(t.v)
  OBVIOUS
<1>4. Iterates(t.v)
  <2>1. CASE t.at = "node"
    BY <1>1, <2>1 DEF ArgumentFits, NodeFits, KindOf
  <2>2. CASE t.at = "list"
    BY <1>1, <2>2 DEF ArgumentFits, ListFits, KindOf
  <2>3. CASE t.at = "row"
    BY <1>1, <2>3 DEF ArgumentFits, RowFits, KindOf
  <2> QED BY <1>1, <2>1, <2>2, <2>3
<1>5. /\ Iterates(w) /\ w.kind = t.v.kind
      /\ \A i \in 1..Len(w.entries) : \E j \in 1..Len(t.v.entries) : w.entries[i] = t.v.entries[j]
      /\ \E j \in 1..Len(t.v.entries) : Head(t.v.entries) = t.v.entries[j]
  <2>1. Follows(w, t.v)
    BY <1>3, <1>4, RestFits
  <2> QED BY <2>1 DEF Follows
<1>6. CASE t.at = "node"
  <2>1. /\ \A i \in 1..Len(t.v.entries) :
             ListFits(t.v.entries[i].value) /\ LeafFits(t.v.entries[i].value)
    BY <1>1, <1>6 DEF ArgumentFits, NodeFits, KindOf
  <2>2. NodeFits(w)
    <3>1. w.kind = "map"
      BY <1>1, <1>5, <1>6 DEF KindOf
    <3>2. \A i \in 1..Len(w.entries) : ListFits(w.entries[i].value) /\ LeafFits(w.entries[i].value)
      BY <1>5, <2>1
    <3> QED BY <1>5, <3>1, <3>2 DEF NodeFits
  <2>3. ListFits(Head(t.v.entries).value) /\ LeafFits(Head(t.v.entries).value)
    BY <1>5, <2>1
  <2> QED BY <1>1, <1>2, <1>3, <1>5, <1>6, <2>2, <2>3 DEF FrameFits, Frame, ArgumentFits, Phase
<1>7. CASE t.at = "list"
  <2>1. \A i \in 1..Len(t.v.entries) : RowFits(t.v.entries[i].value)
    BY <1>1, <1>7 DEF ArgumentFits, ListFits, KindOf
  <2>2. ListFits(w)
    <3>1. w.kind = "list"
      BY <1>1, <1>5, <1>7 DEF KindOf
    <3>2. \A i \in 1..Len(w.entries) : RowFits(w.entries[i].value)
      BY <1>5, <2>1
    <3> QED BY <1>5, <3>1, <3>2 DEF ListFits
  <2>3. RowFits(Head(t.v.entries).value)
    BY <1>5, <2>1
  <2> QED BY <1>1, <1>2, <1>3, <1>5, <1>7, <2>2, <2>3 DEF FrameFits, Frame, ArgumentFits, Phase
<1>8. CASE t.at = "row"
  <2>1. \A i \in 1..Len(t.v.entries) : LeafFits(t.v.entries[i].value)
    BY <1>1, <1>8 DEF ArgumentFits, RowFits, KindOf
  <2>2. RowFits(w)
    <3>1. w.kind = "map"
      BY <1>1, <1>5, <1>8 DEF KindOf
    <3>2. \A i \in 1..Len(w.entries) : LeafFits(w.entries[i].value)
      BY <1>5, <2>1
    <3> QED BY <1>5, <3>1, <3>2 DEF RowFits
  <2>3. LeafFits(Head(t.v.entries).value)
    BY <1>5, <2>1
  <2> QED BY <1>1, <1>2, <1>3, <1>5, <1>8, <2>2, <2>3 DEF FrameFits, Frame, ArgumentFits, Phase
<1> QED BY <1>1, <1>6, <1>7, <1>8

LEMMA AssignKeeps ==
  ASSUME AssignInv, ~failed, Level = "type", todo # <<>>, NEW t, t = Head(todo),
         t.does = "assign", Assign(t.at, t.v), res' = "ok"
  PROVE  AssignInv' /\ Grown /\ (na.m = "Value" => node' = node)
<1>1. Stack(todo) /\ TypeOK /\ FrameFits(t) /\ ArgumentFits(t) /\ t.at \in DOMAIN Depth
  BY StackHead DEF AssignInv, FrameFits
<1>2. na \in NaType /\ la \in LaType
  BY <1>1 DEF TypeOK, NaType, LaType
<1>3. ASSUME Then(<<>>)
      PROVE  /\ failed' = FALSE /\ Stack(todo') /\ Ready'
             /\ NodeRuns' <=> NodeRuns
             /\ ListRuns' <=> ListRuns
             /\ RowRuns' <=> RowRuns
  <2>1. todo' = <<>> \o Tail(todo) /\ failed' = FALSE
    BY <1>3, Going
  <2>2. /\ Stack(todo') /\ (todo' # <<>> => Head(todo').does # "assign")
        /\ NodeRuns' <=> NodeRuns /\ ~IsLoop(Head(todo), "node")
        /\ ListRuns' <=> ListRuns /\ ~IsLoop(Head(todo), "list")
        /\ RowRuns'  <=> RowRuns  /\ ~IsLoop(Head(todo), "row")
    BY <1>1, <2>1, Returned
  <2>3. ~IsLoop(Head(todo), "node") /\ ~IsLoop(Head(todo), "list") /\ ~IsLoop(Head(todo), "row")
    BY DEF IsLoop
  <2> QED BY <2>1, <2>2, <2>3 DEF Ready
<1>4. ASSUME AssignOwn(t.at, t.v.value), t.v.kind = "own", Then(<<>>)
      PROVE  AssignInv' /\ Grown /\ (na.m = "Value" => node' = node)
  <2>1. OwnFits(t.at, t.v.value)
    BY <1>1, <1>4 DEF AssignOwn, ArgumentFits, NodeFits, ListFits, RowFits
  <2>2. HatCall /\ na' \in NaType /\ la' \in LaType /\ Running' /\ Pristine'
    BY <1>3, <1>4, <2>1, OwnAssigned
  <2> QED BY <1>3, <1>4, <2>2, Settled
<1>5. ASSUME t.v.kind = KindOf[t.at], t.at \in {"node", "list", "row"}, Succeed,
             Then(<<Frame(t.at, "loop", t.v)>>)
      PROVE  AssignInv' /\ Grown /\ (na.m = "Value" => node' = node)
  <2>1. PICK f : f = Frame(t.at, "loop", t.v)
    OBVIOUS
  <2>2. todo' = <<f>> \o Tail(todo) /\ failed' = FALSE
    BY <1>5, <2>1, Going
  <2>3. f.at = t.at /\ f.does = "loop" /\ f.v = t.v
    BY <2>1 DEF Frame
  <2>4. FrameFits(f) /\ Rank(f) = Rank(t) /\ Rank(t) \in Int
    BY <1>1, <1>5, <2>3, RankType DEF FrameFits, ArgumentFits, Rank, Phase
  <2>5. /\ Stack(todo') /\ todo' # <<>> /\ Head(todo') = f
        /\ NodeRuns' <=> IsLoop(f, "node") \/ (NodeRuns /\ ~IsLoop(Head(todo), "node"))
        /\ ListRuns' <=> IsLoop(f, "list") \/ (ListRuns /\ ~IsLoop(Head(todo), "list"))
        /\ RowRuns'  <=> IsLoop(f, "row")  \/ (RowRuns  /\ ~IsLoop(Head(todo), "row"))
    BY <1>1, <2>2, <2>3, <2>4, Called
  <2>6. /\ NodeRuns' <=> t.at = "node" \/ NodeRuns
        /\ ListRuns' <=> t.at = "list" \/ ListRuns
        /\ RowRuns'  <=> t.at = "row" \/ RowRuns
    BY <2>3, <2>5 DEF IsLoop
  <2>7. UNCHANGED asm
    BY <1>5 DEF Succeed
  <2>8. (HatCall \/ UNCHANGED <<naHat, laHat>>) /\ Running' /\ Pristine'
    BY <1>5, <2>6, <2>7, LoopBegins
  <2>9. Ready'
    BY <2>3, <2>5 DEF Ready
  <2> QED BY <1>2, <2>2, <2>5, <2>7, <2>8, <2>9, Settled DEF asm
<1>6. ASSUME t.v.kind = KindOf[t.at], t.at \notin {"node", "list", "row"},
             AssignLeaf(t.at, t.v.value), Then(<<>>)
      PROVE  AssignInv' /\ Grown /\ (na.m = "Value" => node' = node)
  <2>1. LeafFits(t.v)
    BY <1>1, <1>6 DEF ArgumentFits
  <2>2. HatCall /\ na' = na /\ la' = la /\ Running' /\ Pristine'
    BY <1>3, <1>6, <2>1, LeafAssigned
  <2> QED BY <1>2, <1>3, <1>6, <2>2, Settled
<1>7. ~AssignNull(M(t.at)) /\ ~WrongKind
  BY DEF AssignNull, WrongKind, Fail, Panic
<1> QED BY <1>4, <1>5, <1>6, <1>7 DEF Assign

LEMMA TurnKeeps ==
  ASSUME AssignInv, ~failed, Level = "type", todo # <<>>, NEW t, t = Head(todo),
         t.does = "loop", Turn(t.at, t.v), res' = "ok"
  PROVE  AssignInv' /\ Grown /\ (na.m = "Value" => node' = node)
<1>1. /\ Stack(todo) /\ TypeOK /\ FrameFits(t)
      /\ t.at \in {"node", "list", "row"} /\ IsLoop(t, t.at)
  BY StackHead DEF AssignInv, FrameFits, IsLoop
<1>2. na \in NaType /\ la \in LaType
  BY <1>1 DEF TypeOK, NaType, LaType
<1>3. ASSUME t.v.entries # <<>>, Succeed,
             Then((IF t.at = "list" THEN <<>>
                   ELSE <<Frame(t.at, "AssembleKey", Head(t.v.entries)),
                          Frame(t.at, "AssignKey", Head(t.v.entries))>>)
                  \o <<Frame(t.at, "AssembleValue", Head(t.v.entries).value),
                       Frame(t.at, "loop", Rest(t.v))>>)
      PROVE  AssignInv' /\ Grown /\ (na.m = "Value" => node' = node)
  <2>1. PICK a, b, c, d :
          /\ a = Frame(t.at, "AssembleKey", Head(t.v.entries))
          /\ b = Frame(t.at, "AssignKey", Head(t.v.entries))
          /\ c = Frame(t.at, "AssembleValue", Head(t.v.entries).value)
          /\ d = Frame(t.at, "loop", Rest(t.v))
    OBVIOUS
  <2>2. PICK more : more = TurnCalls(t.at, a, b, c, d)
    OBVIOUS
  <2>3. Then(more)
    BY <1>3, <2>1, <2>2 DEF TurnCalls
  <2>4. todo' = more \o Tail(todo) /\ failed' = FALSE
    BY <2>3, Going
  <2>5. FrameFits(a) /\ FrameFits(b) /\ FrameFits(c) /\ FrameFits(d)
    BY <1>1, <1>3, <2>1, TurnFits
  <2>6. /\ a.at = t.at /\ b.at = t.at /\ c.at = t.at /\ d.at = t.at
        /\ a.does = "AssembleKey" /\ b.does = "AssignKey" /\ c.does = "AssembleValue"
        /\ d.does = "loop"
    BY <2>1 DEF Frame
  <2>7. /\ Stack(todo') /\ (todo' # <<>> => Head(todo').does # "assign")
        /\ NodeRuns' <=> NodeRuns
        /\ ListRuns' <=> ListRuns
        /\ RowRuns' <=> RowRuns
    <3>1. /\ more \in Seq({a, b, c, d})
          /\ \/ Len(more) = 2 /\ more[1] = c /\ more[2] = d
             \/ Len(more) = 4 /\ more[1] = a /\ more[2] = b /\ more[3] = c /\ more[4] = d
      BY <2>2, TurnCallsAre
    <3> QED BY <1>1, <2>4, <2>5, <2>6, <3>1, Turned
  <2>8. UNCHANGED asm
    BY <1>3 DEF Succeed
  <2>9. UNCHANGED <<node, naHat, laHat, va>> /\ na' = na /\ la' = la
    BY <2>7, <2>8 DEF asm, naHat, laHat, Raised
  <2>10. Running' /\ Pristine' /\ Ready'
    BY <2>7, <2>9 DEF AssignInv, Running, Pristine, Given, Ready
  <2> QED BY <1>2, <2>4, <2>7, <2>9, <2>10, Settled
<1>4. ASSUME Then(<<>>)
      PROVE  /\ failed' = FALSE /\ Stack(todo') /\ Ready'
             /\ NodeRuns' <=> NodeRuns /\ ~IsLoop(t, "node")
             /\ ListRuns' <=> ListRuns /\ ~IsLoop(t, "list")
             /\ RowRuns'  <=> RowRuns  /\ ~IsLoop(t, "row")
  <2>1. todo' = <<>> \o Tail(todo) /\ failed' = FALSE
    BY <1>4, Going
  <2>2. /\ Stack(todo') /\ (todo' # <<>> => Head(todo').does # "assign")
        /\ NodeRuns' <=> NodeRuns /\ ~IsLoop(Head(todo), "node")
        /\ ListRuns' <=> ListRuns /\ ~IsLoop(Head(todo), "list")
        /\ RowRuns'  <=> RowRuns  /\ ~IsLoop(Head(todo), "row")
    BY <1>1, <2>1, Returned
  <2> QED BY <2>1, <2>2 DEF Ready
<1>5. /\ t.at = "node" => NodeRuns /\ ~ListRuns /\ ~RowRuns
      /\ t.at = "list" => ListRuns /\ ~RowRuns
      /\ t.at = "row"  => RowRuns
  BY <1>1, StackHead DEF IsLoop, NodeRuns, ListRuns, RowRuns
<1>6. ASSUME t.at = "node", NodeFinish, Then(<<>>)
      PROVE  AssignInv' /\ Grown /\ (na.m = "Value" => node' = node)
  <2>1. NodeRuns /\ ~ListRuns /\ ~RowRuns /\ ~NodeRuns' /\ ~ListRuns' /\ ~RowRuns'
    BY <1>1, <1>4, <1>5, <1>6
  <2>2. HatCall /\ na' \in NaType /\ la' \in LaType /\ Running' /\ Pristine'
    BY <1>6, <2>1, NodeLoopFinishes
  <2> QED BY <1>4, <1>6, <2>2, Settled
<1>7. ASSUME t.at = "list", LinksFinish, Then(<<>>)
      PROVE  AssignInv' /\ Grown /\ (na.m = "Value" => node' = node)
  <2>1. /\ ListRuns /\ ~RowRuns /\ ~ListRuns' /\ ~RowRuns'
        /\ NodeRuns' <=> NodeRuns
    BY <1>1, <1>4, <1>5, <1>7 DEF IsLoop
  <2>2. HatCall /\ na' \in NaType /\ la' \in LaType /\ Running' /\ Pristine'
    BY <1>7, <2>1, ListLoopFinishes
  <2> QED BY <1>4, <1>7, <2>2, Settled
<1>8. ASSUME t.at = "row", LinkFinish, Then(<<>>)
      PROVE  AssignInv' /\ Grown /\ (na.m = "Value" => node' = node)
  <2>1. /\ RowRuns /\ ~RowRuns'
        /\ NodeRuns' <=> NodeRuns
        /\ ListRuns' <=> ListRuns
    BY <1>1, <1>4, <1>5, <1>8 DEF IsLoop
  <2>2. HatCall /\ na' = na /\ la' \in LaType /\ Running' /\ Pristine'
    BY <1>8, <2>1, RowLoopFinishes
  <2> QED BY <1>2, <1>4, <1>8, <2>2, Settled
<1>9. ~Fail
  BY DEF Fail
<1> QED BY <1>3, <1>6, <1>7, <1>8, <1>9 DEF Turn, Rest

LEMMA KeyKeeps ==
  ASSUME AssignInv, ~failed, Level = "type", todo # <<>>, NEW t, t = Head(todo),
         t.does \in {"AssembleKey", "AssignKey"},
         AssembleKey(t.at) \/ AssignKey(t.at, t.v), res' = "ok"
  PROVE  AssignInv' /\ Grown /\ (na.m = "Value" => node' = node)
<1>1. Stack(todo) /\ TypeOK /\ ~IsLoop(t, "node") /\ ~IsLoop(t, "list") /\ ~IsLoop(t, "row")
  BY DEF AssignInv, IsLoop
<1>2. na \in NaType /\ la \in LaType
  BY <1>1 DEF TypeOK, NaType, LaType
<1>3. Then(<<>>)
  BY DEF AssembleKey, AssignKey
<1>4. todo' = <<>> \o Tail(todo) /\ failed' = FALSE
  BY <1>3, Going
<1>5. /\ Stack(todo') /\ (todo' # <<>> => Head(todo').does # "assign")
      /\ NodeRuns' <=> NodeRuns /\ ~IsLoop(Head(todo), "node")
      /\ ListRuns' <=> ListRuns /\ ~IsLoop(Head(todo), "list")
      /\ RowRuns'  <=> RowRuns  /\ ~IsLoop(Head(todo), "row")
  BY <1>1, <1>4, Returned
<1>6. /\ NodeRuns' <=> NodeRuns
      /\ ListRuns' <=> ListRuns
      /\ RowRuns' <=> RowRuns
  BY <1>1, <1>5
<1>7. Ready'
  BY <1>5 DEF Ready
<1>8. /\ t.at = "node" => NodeRuns /\ ~ListRuns /\ ~RowRuns
      /\ t.at = "row"  => RowRuns
  BY <1>1, StackHead DEF NodeRuns, ListRuns, RowRuns
<1>9. ~Fail
  BY DEF Fail
<1>10. PICK k : k = t.v.key
  OBVIOUS
<1>11. \/ t.at = "node" /\ (NodeAssembleKey \/ NodeAssignKey(k))
       \/ t.at = "row" /\ (LinkAssembleKey \/ LinkAssignKey(k))
  BY <1>9, <1>10 DEF AssembleKey, AssignKey
<1>12. CASE t.at = "node" /\ (NodeAssembleKey \/ NodeAssignKey(k))
  <2>1. HatCall /\ na' \in NaType /\ la' \in LaType /\ Running' /\ Pristine'
    BY <1>6, <1>8, <1>12, NodeLoopCalls
  <2> QED BY <1>4, <1>5, <1>7, <2>1, Settled
<1>13. CASE t.at = "row" /\ (LinkAssembleKey \/ LinkAssignKey(k))
  <2>1. HatCall /\ na' = na /\ la' = la /\ Running' /\ Pristine'
    BY <1>6, <1>8, <1>13, RowLoopCalls
  <2> QED BY <1>2, <1>4, <1>5, <1>7, <2>1, Settled
<1> QED BY <1>11, <1>12, <1>13

LEMMA ValueKeeps ==
  ASSUME AssignInv, ~failed, Level = "type", todo # <<>>, NEW t, t = Head(todo),
         t.does = "AssembleValue", AssembleValue(t.at, t.v), res' = "ok"
  PROVE  AssignInv' /\ Grown /\ (na.m = "Value" => node' = node)
<1>1. /\ Stack(todo) /\ TypeOK /\ FrameFits(t) /\ t.at \in {"node", "list", "row"}
      /\ ~IsLoop(t, "node") /\ ~IsLoop(t, "list") /\ ~IsLoop(t, "row")
  BY StackHead DEF AssignInv, FrameFits, IsLoop
<1>2. /\ na \in NaType /\ la \in LaType
      /\ va \in [state : MaState, s : SUBSET LinkFields, f : LinkFields, cm : Maybe, hash : Int]
  BY <1>1 DEF TypeOK, NaType, LaType
<1>3. PICK f : f = Frame(Child(t.at), "assign", t.v)
  OBVIOUS
<1>4. f.at = Child(t.at) /\ f.does = "assign" /\ f.v = t.v
  BY <1>3 DEF Frame
<1>5. todo' = <<f>> \o Tail(todo) /\ failed' = FALSE
  BY <1>3, Going DEF AssembleValue
<1>6. /\ t.at = "node" => f.at = (IF na.f = "Links" THEN "list" ELSE "Data")
      /\ t.at = "list" => f.at = "row"
      /\ t.at = "row"  => f.at = va.f /\ f.at \in LinkFields
  BY <1>2, <1>4 DEF Child
<1>7. FrameFits(f) /\ Rank(f) >= Rank(t)
  <2>1. ArgumentFits(t)
    BY <1>1 DEF FrameFits
  <2>2. CASE t.at = "node"
    BY <1>4, <1>6, <2>1, <2>2 DEF ArgumentFits, FrameFits, Depth, Phase, Rank
  <2>3. CASE t.at = "list"
    BY <1>4, <1>6, <2>1, <2>3 DEF ArgumentFits, FrameFits, Depth, Phase, Rank
  <2>4. CASE t.at = "row"
    BY <1>4, <1>6, <2>1, <2>4 DEF ArgumentFits, FrameFits, Depth, Phase, Rank, LinkFields
  <2> QED BY <1>1, <2>2, <2>3, <2>4
<1>8. /\ Stack(todo') /\ todo' # <<>> /\ Head(todo') = f
      /\ NodeRuns' <=> NodeRuns
      /\ ListRuns' <=> ListRuns
      /\ RowRuns' <=> RowRuns
  <2>1. /\ Stack(todo') /\ todo' # <<>> /\ Head(todo') = f
        /\ NodeRuns' <=> IsLoop(f, "node") \/ (NodeRuns /\ ~IsLoop(Head(todo), "node"))
        /\ ListRuns' <=> IsLoop(f, "list") \/ (ListRuns /\ ~IsLoop(Head(todo), "list"))
        /\ RowRuns'  <=> IsLoop(f, "row")  \/ (RowRuns  /\ ~IsLoop(Head(todo), "row"))
    BY <1>1, <1>4, <1>5, <1>7, Called
  <2>2. ~IsLoop(f, "node") /\ ~IsLoop(f, "list") /\ ~IsLoop(f, "row")
    BY <1>4 DEF IsLoop
  <2> QED BY <1>1, <2>1, <2>2
<1>9. /\ t.at = "node" => NodeRuns /\ ~ListRuns /\ ~RowRuns
      /\ t.at = "list" => ListRuns /\ ~RowRuns
      /\ t.at = "row"  => RowRuns
  BY <1>1, StackHead DEF NodeRuns, ListRuns, RowRuns
<1>10. Pristine /\ Hat!AssemblerInv
  BY DEF AssignInv
<1>11. ASSUME t.at = "node", NodeAssembleValue
       PROVE  AssignInv' /\ Grown /\ (na.m = "Value" => node' = node)
  <2>1. HatCall /\ na' \in NaType /\ la' \in LaType /\ Running' /\ Pristine'
    <3>1. NodeAssembleKey \/ NodeAssignKey(0) \/ NodeAssembleValue
      BY <1>11
    <3> QED BY <1>8, <1>9, <1>11, <3>1, NodeLoopCalls
  <2>2. /\ na.state = "expectValue" /\ na' = [na EXCEPT !.state = "midValue"]
        /\ la' = [la EXCEPT !.w = @ \/ na.f = "Links"]
    BY <1>11 DEF NodeAssembleValue, Panic
  <2>3. na.f \in na.s
    BY <1>1, <1>10, <2>2, HatFields DEF Hat!AssemblerInv, Hat!NodeInv
  <2>4. f.at = "list" => Given(na', "Links") /\ na'.cm = "Absent" /\ la'.state = "initial"
    BY <1>2, <1>6, <1>10, <1>11, <2>2, <2>3 DEF Pristine, Given, NaType, LaType
  <2>5. f.at = "Data" => Given(na', "Data")
    BY <1>2, <1>6, <1>11, <2>2, <2>3 DEF Given, NaType, NodeFields
  <2>6. Ready'
    BY <1>6, <1>8, <1>11, <2>4, <2>5 DEF Ready, ReadyFor, LinkFields
  <2> QED BY <1>5, <1>8, <2>1, <2>6, Settled
<1>12. ASSUME t.at = "list", LinksAssembleValue
       PROVE  AssignInv' /\ Grown /\ (na.m = "Value" => node' = node)
  <2>1. /\ HatCall /\ na' \in NaType /\ la' \in LaType /\ Running' /\ Pristine'
        /\ la'.state = "midValue" /\ la'.cm = "Absent" /\ va'.state = "initial"
    BY <1>8, <1>9, <1>12, ListLoopCalls
  <2>2. Ready'
    BY <1>6, <1>8, <1>12, <2>1 DEF Ready, ReadyFor, LinkFields
  <2> QED BY <1>5, <1>8, <2>1, <2>2, Settled
<1>13. ASSUME t.at = "row", LinkAssembleValue
       PROVE  AssignInv' /\ Grown /\ (na.m = "Value" => node' = node)
  <2>1. HatCall /\ na' = na /\ la' = la /\ Running' /\ Pristine'
    <3>1. LinkAssembleKey \/ LinkAssignKey(0) \/ LinkAssembleValue
      BY <1>13
    <3> QED BY <1>8, <1>9, <1>13, <3>1, RowLoopCalls
  <2>2. va.state = "expectValue" /\ va'.state = "midValue" /\ va'.s = va.s /\ va'.f = va.f
    BY <1>2, <1>13 DEF LinkAssembleValue, Panic
  <2>3. va.f \in va.s
    BY <1>10, <2>2 DEF Hat!AssemblerInv, Hat!RowInv
  <2>4. /\ Given(va', f.at) /\ RowRuns' /\ la'.state = "midValue" /\ va'.state = "midValue"
        /\ va'.f = f.at
    BY <1>6, <1>8, <1>9, <1>13, <2>1, <2>2, <2>3 DEF Given, AssignInv, Running
  <2>5. Ready'
    BY <1>6, <1>8, <1>13, <2>4 DEF Ready, ReadyFor, LinkFields
  <2> QED BY <1>2, <1>5, <1>8, <2>1, <2>5, Settled
<1> QED BY <1>11, <1>12, <1>13 DEF AssembleValue

LEMMA StepKeeps ==
  ASSUME AssignInv, ~failed, Level = "type", Careless = {}, AssignStep
  PROVE  AssignInv' /\ Grown /\ (na.m = "Value" => node' = node)
<1>1. CASE res' # "ok"
  BY <1>1, FailureKeeps
<1>2. CASE res' = "ok"
  <2>1. PICK t : t = Head(todo)
    OBVIOUS
  <2>2. /\ todo # <<>>
        /\ \/ t.does = "assign"        /\ Assign(t.at, t.v)
           \/ t.does = "loop"          /\ Turn(t.at, t.v)
           \/ t.does = "AssembleKey"   /\ AssembleKey(t.at)
           \/ t.does = "AssignKey"     /\ AssignKey(t.at, t.v)
           \/ t.does = "AssembleValue" /\ AssembleValue(t.at, t.v)
    BY <2>1 DEF AssignStep
  <2>3. CASE t.does = "assign" /\ Assign(t.at, t.v)
    BY <1>2, <2>1, <2>2, <2>3, AssignKeeps
  <2>4. CASE t.does = "loop" /\ Turn(t.at, t.v)
    BY <1>2, <2>1, <2>2, <2>4, TurnKeeps
  <2>5. CASE \/ t.does = "AssembleKey" /\ AssembleKey(t.at)
             \/ t.does = "AssignKey" /\ AssignKey(t.at, t.v)
    BY <1>2, <2>1, <2>2, <2>5, KeyKeeps
  <2>6. CASE t.does = "AssembleValue" /\ AssembleValue(t.at, t.v)
    BY <1>2, <2>1, <2>2, <2>6, ValueKeeps
  <2> QED BY <2>2, <2>3, <2>4, <2>5, <2>6
<1> QED BY <1>1, <1>2

-----------------------------------------------------------------------------
(* Between two of its AssignNodes the caller is any caller.                *)

LEMMA CallerSees ==
  ASSUME TypeOK, todo = <<>>
  PROVE  Hat!AssemblerInv <=> AssemblerInv
<1>1. naHat = na /\ laHat = la
  BY NoHat
<1> USE DEF Hat!NodeFields, NodeFields, Hat!LinkFields, LinkFields, Hat!PBLink, PBLink,
            Hat!PBNode, PBNode, Hat!Last, Last, Hat!Row, Row
<1>2. Hat!TypeOK <=> TypeOK
  BY <1>1 DEF Hat!TypeOK, TypeOK, Hat!Maybe, Maybe, Hat!MaState, MaState, Hat!LaState, LaState
<1>3. Hat!NodeInv <=> NodeInv
  BY <1>1 DEF Hat!NodeInv, NodeInv, Hat!EmptyNode, EmptyNode, Hat!Pending, Pending,
              Hat!NodeFieldsRecorded, NodeFieldsRecorded
<1>4. Hat!ListInv <=> ListInv
  BY <1>1 DEF Hat!ListInv, ListInv, Hat!Complete, Complete
<1>5. Hat!RowInv <=> RowInv
  BY <1>1 DEF Hat!RowInv, RowInv, Hat!NewLink, NewLink, Hat!Pending, Pending,
              Hat!RowFieldsRecorded, RowFieldsRecorded
<1> QED BY <1>2, <1>3, <1>4, <1>5 DEF Hat!AssemblerInv, AssemblerInv

LEMMA CallerSeesNext ==
  ASSUME AssemblerInv', todo' = <<>>
  PROVE  Hat!AssemblerInv'
<1>1. /\ na' \in [m : Maybe, state : MaState, s : SUBSET NodeFields, f : NodeFields, cm : Maybe]
      /\ la' \in [w : BOOLEAN, state : LaState, cm : Maybe]
  BY DEF AssemblerInv, TypeOK
<1>2. ~NodeRuns' /\ ~ListRuns' /\ ~RowRuns'
  BY EmptyStack
<1>3. naHat' = na' /\ laHat' = la'
  BY <1>1, <1>2 DEF naHat, laHat, Raised
<1> USE DEF Hat!NodeFields, NodeFields, Hat!LinkFields, LinkFields, Hat!PBLink, PBLink,
            Hat!PBNode, PBNode, Hat!Last, Last, Hat!Row, Row
<1>4. Hat!TypeOK'
  BY <1>3 DEF AssemblerInv, Hat!TypeOK, TypeOK, Hat!Maybe, Maybe, Hat!MaState, MaState,
              Hat!LaState, LaState
<1>5. Hat!NodeInv'
  BY <1>3 DEF AssemblerInv, Hat!NodeInv, NodeInv, Hat!EmptyNode, EmptyNode, Hat!Pending, Pending,
              Hat!NodeFieldsRecorded, NodeFieldsRecorded
<1>6. Hat!ListInv'
  BY <1>3 DEF AssemblerInv, Hat!ListInv, ListInv, Hat!Complete, Complete
<1>7. Hat!RowInv'
  BY <1>3 DEF AssemblerInv, Hat!RowInv, RowInv, Hat!NewLink, NewLink, Hat!Pending, Pending,
              Hat!RowFieldsRecorded, RowFieldsRecorded
<1> QED BY <1>4, <1>5, <1>6, <1>7 DEF Hat!AssemblerInv

\* No call touches a list that was not handed out.
LEMMA PristineStays ==
  ASSUME AssemblerInv, Pristine, NodeCall \/ LinksCall \/ LinkCall
  PROVE  Pristine'
<1>1. na \in NaType /\ la \in [w : BOOLEAN, state : LaState, cm : Maybe]
  BY DEF AssemblerInv, TypeOK, NaType
<1>2. CASE UNCHANGED <<na, la>>
  BY <1>2 DEF Pristine, Given
<1>3. CASE NodeCall
  <2>1. CASE NodeBeginMap \/ AssignNull(na.m) \/ WrongKind
    BY <1>1, <1>2, <2>1 DEF NodeBeginMap, AssignNull, WrongKind, Panic, Fail, asm, Pristine, Given,
                            NaType
  <2>2. ASSUME NEW n, NodeAssignTyped(n) PROVE Pristine'
    BY <1>1, <1>2, <2>2 DEF NodeAssignTyped, Panic, asm, Pristine, Given, NaType
  <2>3. CASE NodeAssembleKey
    BY <1>1, <1>2, <2>3 DEF NodeAssembleKey, NodeTidied, LinksReleased, Panic, asm, Pristine, Given,
                            NaType, Maybe
  <2>4. ASSUME NEW k, NodeAssignKey(k) PROVE Pristine'
    <3>1. CASE UNCHANGED asm
      BY <1>2, <3>1 DEF asm
    <3>2. CASE ~UNCHANGED asm
      <4>1. /\ na.state = "midKey" /\ k \in NodeFields \ na.s /\ la' = la
            /\ na' = [na EXCEPT !.state = "expectValue", !.s = @ \cup {k}, !.f = k]
        BY <2>4, <3>2 DEF NodeAssignKey, NodeFree, Panic, Fail
      <4>2. na'.state = "expectValue" /\ na'.s = na.s \cup {k} /\ na'.f = k /\ na'.cm = na.cm
        BY <1>1, <4>1 DEF NaType
      <4> QED BY <4>1, <4>2 DEF Pristine, Given
    <3> QED BY <3>1, <3>2
  <2>5. ASSUME NEW k, NodeAssembleEntry(k) PROVE Pristine'
    <3>1. CASE UNCHANGED asm
      BY <1>2, <3>1 DEF asm
    <3>2. CASE ~UNCHANGED asm
      <4>1. /\ NodeReady /\ la'.state = la.state
            /\ \/ na' = NodeTidied
               \/ na' = [NodeTidied EXCEPT !.state = "midValue", !.s = @ \cup {k}, !.f = k]
        BY <1>1, <2>5, <3>2 DEF NodeAssembleEntry, Panic, LinksReleased
      <4>2. /\ na'.state # "expectValue" /\ na.s \subseteq na'.s /\ na'.cm \in {na.cm, "Absent"}
            /\ na.state # "expectValue"
        <5>1. PICK x : x = NodeTidied
          OBVIOUS
        <5>2. x \in NaType /\ x.state = "initial" /\ x.s = na.s /\ x.cm \in {na.cm, "Absent"}
          BY <1>1, <5>1 DEF NodeTidied, NaType, Maybe, MaState
        <5>3. na' = x \/ na' = [x EXCEPT !.state = "midValue", !.s = @ \cup {k}, !.f = k]
          BY <4>1, <5>1
        <5>4. na.state # "expectValue"
          BY <4>1 DEF NodeReady
        <5> QED BY <5>2, <5>3, <5>4 DEF NaType
      <4> QED BY <4>1, <4>2 DEF Pristine, Given
    <3> QED BY <3>1, <3>2
  <2>6. CASE NodeAssembleValue
    BY <1>1, <1>2, <2>6 DEF NodeAssembleValue, Panic, asm, Pristine, Given, NaType
  <2>7. CASE NodeFinish
    BY <1>1, <1>2, <2>7 DEF NodeFinish, NodeTidied, LinksReleased, Panic, asm, Pristine, Given,
                            NaType, Maybe
  <2>8. ASSUME NEW c, DataAssignBytes(c) PROVE Pristine'
    BY <1>2, <2>8 DEF DataAssignBytes, Panic, asm
  <2> QED BY <1>3, <2>1, <2>2, <2>3, <2>4, <2>5, <2>6, <2>7, <2>8 DEF NodeCall
<1>4. CASE LinksCall
  <2>1. Given(na, "Links")
    BY <1>4 DEF LinksCall, ListHeld
  <2>2. na'.s = na.s /\ na'.state = na.state /\ na'.f = na.f
    BY <1>1, <1>4 DEF LinksCall, LinksBeginList, AssignNull, LinksAssignTyped, LinksAssembleValue,
                      LinksFinish, Panic, Fail, asm, NaType
  <2> QED BY <2>1, <2>2 DEF Pristine, Given
<1>5. CASE LinkCall
  <2>1. CASE la.state = "midValue"
    <3>1. Given(na, "Links")
      BY <2>1 DEF Pristine
    <3>2. na' = na
      BY <1>5 DEF LinkCall, LinkBeginMap, AssignNull, LinkAssignTyped, LinkAssembleKey,
                  LinkAssignKey, LinkAssembleEntry, LinkAssembleValue, LinkFinish,
                  NameAssignString, TsizeAssignInt, HashAssignLink, Panic, Fail, asm
    <3> QED BY <3>1, <3>2 DEF Pristine, Given
  <2>2. CASE la.state # "midValue"
    <3>1. UNCHANGED <<na, la>>
      BY <1>5, <2>2 DEF LinkCall, RowHeld, LinkHeld, HashAssignLink, Panic, asm
    <3> QED BY <1>2, <3>1
  <2> QED BY <2>1, <2>2
<1> QED BY <1>3, <1>4, <1>5

\* A call of the caller's own.
LEMMA CallKeeps ==
  ASSUME AssignInv, Level = "type", MayCall, UNCHANGED <<todo, failed>>,
         NodeCall \/ LinksCall \/ LinkCall
  PROVE  AssignInv' /\ Grown /\ (na.m = "Value" => node' = node)
<1>1. /\ todo = <<>> /\ ~failed /\ todo' = <<>> /\ failed' = failed
      /\ NodeCall \/ LinksCall \/ LinkCall
  BY DEF MayCall
<1>2. TypeOK /\ Hat!AssemblerInv /\ Pristine /\ failed \in BOOLEAN
  BY <1>1 DEF AssignInv
<1>3. AssemblerInv
  BY <1>1, <1>2, CallerSees
<1>4. AssemblerInv'
  BY <1>1, <1>3, NodeCallKeeps, LinksCallKeeps, LinkCallKeeps
<1>5. Grown
  BY <1>1, <1>3, NodeCallGrows, LinksCallGrows, LinkCallGrows
<1>6. na.m = "Value" => node' = node
  BY <1>1, <1>3, BuiltStays
<1>7. Hat!AssemblerInv'
  BY <1>1, <1>4, CallerSeesNext
<1>8. Pristine'
  BY <1>1, <1>2, <1>3, PristineStays
<1>9. TypeOK'
  BY <1>4 DEF AssemblerInv
<1>10. Stack(todo') /\ Ready' /\ Running'
  BY <1>1, EmptyStack
<1> QED BY <1>1, <1>2, <1>5, <1>6, <1>7, <1>8, <1>9, <1>10 DEF AssignInv

LEMMA ResetRestores ==
  ASSUME todo' = <<>>, Fresh(node', na', la', va'), res' = "ok", failed' = FALSE
  PROVE  AssignInv'
<1>1. AssemblerInv'
  BY ResetKeeps
<1>2. Hat!AssemblerInv'
  BY <1>1, CallerSeesNext
<1>3. Pristine'
  BY DEF Fresh, Pristine, Given
<1>4. Stack(todo') /\ Ready' /\ Running'
  BY EmptyStack
<1> QED BY <1>1, <1>2, <1>3, <1>4 DEF AssignInv, AssemblerInv

\* An AssignNode is called.
LEMMA BeginKeeps ==
  ASSUME AssignInv, Level = "type", Careless = {}, NEW at, NEW v, Begin(at, v),
         \/ at = "node" /\ v \in Sources
         \/ at = "list" /\ v \in ListSources /\ Given(na, "Links")
         \/ at = "row"  /\ v \in RowSources /\ RowHeld
  PROVE  AssignInv' /\ UNCHANGED vars
<1>1. /\ Begin(at, v)
      /\ \/ at = "node" /\ v \in Sources
         \/ at = "list" /\ v \in ListSources /\ Given(na, "Links")
         \/ at = "row"  /\ v \in RowSources /\ RowHeld
  OBVIOUS
<1>2. PICK f : f = Frame(at, "assign", v)
  OBVIOUS
<1>3. f.at = at /\ f.does = "assign" /\ f.v = v
  BY <1>2 DEF Frame
<1>4. todo = <<>> /\ ~failed /\ Proper(at, v) /\ todo' = <<f>> /\ UNCHANGED <<vars, failed>>
  BY <1>1, <1>2 DEF Begin, MayCall
<1>5. TypeOK /\ Hat!AssemblerInv /\ Running /\ Pristine /\ failed \in BOOLEAN
  BY <1>4 DEF AssignInv
<1>6. UNCHANGED <<node, na, la, va, res>>
  BY <1>4 DEF vars
<1>7. FrameFits(f)
  BY <1>1, <1>3, SourcesAssumption DEF FrameFits, ArgumentFits, Depth, Phase
<1>8. Len(todo') = 1 /\ todo'[1] = f /\ Head(todo') = f /\ todo' # <<>> /\ todo' \in Seq({f})
  BY <1>4
<1>9. Stack(todo')
  <2>1. \A i \in 1..Len(todo') : i = 1 /\ todo'[i] = f
    BY <1>8
  <2>2. {todo'[i] : i \in 1..Len(todo')} = {f}
    BY <1>8
  <2> QED BY <1>3, <1>7, <1>8, <2>1, <2>2 DEF Stack
<1>10. ~NodeRuns' /\ ~ListRuns' /\ ~RowRuns'
  BY <1>3, <1>8 DEF NodeRuns, ListRuns, RowRuns, RunsIn, IsLoop
<1>11. UNCHANGED <<naHat, laHat>>
  BY <1>4, <1>5, <1>6, <1>10, NoHat DEF naHat, laHat, Raised, TypeOK
<1>12. Hat!AssemblerInv'
  <2>1. res' \in {"ok", "err", "panic"}
    BY <1>5, <1>6 DEF TypeOK
  <2> QED BY <1>5, <1>6, <1>11, <2>1, HatUnmoved
<1>13. Running' /\ Pristine' /\ TypeOK'
  BY <1>5, <1>6, <1>10 DEF Running, Pristine, Given, TypeOK
<1>14. ReadyFor(f)
  <2>1. CASE at = "node"
    <3>1. Untouched \/ (na.m = "Value" /\ ~(na.state = "initial" /\ v.kind = "map"))
      BY <1>4, <2>1 DEF Proper
    <3>2. na.m = "Value" => na.state \in {"initial", "finished"}
      <4>1. naHat = na
        BY <1>4, <1>5, NoHat
      <4> QED BY <1>5, <4>1 DEF Hat!AssemblerInv, Hat!NodeInv
    <3> QED BY <1>3, <2>1, <3>1, <3>2 DEF ReadyFor, Untouched, Fresh, LinkFields
  <2>2. CASE at = "list"
    <3>1. \/ na.cm = "Absent" /\ la.state = "initial"
          \/ na.cm = "Value" /\ ~(la.state = "initial" /\ v.kind = "list")
      BY <1>4, <2>2 DEF Proper
    <3>2. na.cm = "Value" => la.state \in {"initial", "finished"}
      <4>1. naHat = na /\ laHat = la
        BY <1>4, <1>5, NoHat
      <4> QED BY <1>5, <4>1 DEF Hat!AssemblerInv, Hat!ListInv, TypeOK, LaState
    <3> QED BY <1>1, <1>3, <2>2, <3>1, <3>2 DEF ReadyFor, LinkFields
  <2>3. CASE at = "row"
    <3>1. \/ la.cm = "Absent" /\ va.state = "initial"
          \/ la.cm = "Value" /\ ~(va.state = "initial" /\ v.kind = "map")
      BY <1>4, <2>3 DEF Proper
    <3>2. la.cm = "Value" => va.state \in {"initial", "finished"}
      <4>1. laHat = la
        BY <1>4, <1>5, NoHat
      <4> QED BY <1>5, <4>1 DEF Hat!AssemblerInv, Hat!RowInv
    <3> QED BY <1>1, <1>3, <2>3, <3>1, <3>2 DEF ReadyFor, RowHeld, LinkFields
  <2> QED BY <1>1, <2>1, <2>2, <2>3
<1>15. Ready'
  <2>1. f.at \notin LinkFields
    BY <1>1, <1>3 DEF LinkFields
  <2> QED BY <1>6, <1>8, <1>14, <2>1 DEF Ready, ReadyFor, Given
<1> QED BY <1>4, <1>5, <1>9, <1>12, <1>13, <1>15 DEF AssignInv

\* A step that leaves the assemblers and the loops alone.
LEMMA Unmoved ==
  ASSUME AssignInv, UNCHANGED <<node, na, la, va, todo, failed>>, res' \in {"ok", "err", "panic"}
  PROVE  AssignInv'
<1>1. /\ NodeRuns' <=> NodeRuns
      /\ ListRuns' <=> ListRuns
      /\ RowRuns' <=> RowRuns
  BY DEF NodeRuns, ListRuns, RowRuns
<1>2. UNCHANGED <<naHat, laHat>>
  BY <1>1 DEF naHat, laHat, Raised
<1>3. TypeOK' /\ Stack(todo') /\ failed' \in BOOLEAN
  BY DEF AssignInv, TypeOK
<1>4. failed' => todo' = <<>> /\ FinishedComplete' /\ RowBitsTrue'
  BY DEF AssignInv, FinishedComplete, RowBitsTrue, Last, Row, Complete, Pending
<1>5. ASSUME ~failed PROVE Hat!AssemblerInv' /\ Running' /\ Pristine' /\ Ready'
  <2>1. Hat!AssemblerInv'
    BY <1>2, <1>5, HatUnmoved DEF AssignInv
  <2>2. Running' /\ Pristine'
    BY <1>1, <1>5 DEF AssignInv, Running, Pristine, Given
  <2>3. Ready'
    BY <1>1, <1>5 DEF AssignInv, Ready, ReadyFor, Given
  <2> QED BY <2>1, <2>2, <2>3
<1> QED BY <1>3, <1>4, <1>5 DEF AssignInv

-----------------------------------------------------------------------------
(* The theorems, of the type-level assemblers and of a careful caller.     *)

\* Where no AssignNode is under way AssignInv is the invariant of the tree.
LEMMA AtRest ==
  todo = <<>> /\ failed = FALSE /\ AssemblerInv /\ Pristine => AssignInv
<1> SUFFICES ASSUME todo = <<>>, failed = FALSE, AssemblerInv, Pristine PROVE AssignInv
  OBVIOUS
<1>1. TypeOK
  BY DEF AssemblerInv
<1>2. Hat!AssemblerInv
  BY <1>1, CallerSees
<1>3. Stack(todo) /\ Running /\ Ready
  BY DEF Stack, Running, Ready, NodeRuns, ListRuns, RowRuns, RunsIn
<1> QED BY <1>1, <1>2, <1>3 DEF AssignInv

LEMMA AssignBegins ==
  ASSUME AssignInit
  PROVE  AssignInv
<1>1. /\ todo = <<>> /\ failed = FALSE /\ Fresh(node, na, la, va) /\ res = "ok"
  BY DEF AssignInit, Init
<1>2. AssemblerInv
  BY <1>1 DEF Fresh, EmptyNode, AssemblerInv, TypeOK, PBNode, Maybe, MaState, LaState, NodeFields,
              LinkFields, NodeInv, NodeFieldsRecorded, Pending, ListInv, RowInv, Last,
              RowFieldsRecorded
<1>3. Pristine
  BY <1>1 DEF Fresh, Pristine, Given
<1> QED BY <1>1, <1>2, <1>3, AtRest

\* What a step does, whoever takes it.
LEMMA AnyStep ==
  ASSUME AssignInv, Level = "type", Careless = {}, [AssignNext]_assignVars
  PROVE  /\ AssignInv'
         /\ \/ Fresh(node', na', la', va')
            \/ Grown /\ (na.m = "Value" => node' = node)
<1>1. TypeOK
  BY DEF AssignInv
<1>2. ASSUME UNCHANGED vars PROVE Grown /\ node' = node
  BY <1>1, <1>2 DEF vars, TypeOK, PBNode, Grown, Kept
<1>3. CASE ResetBuilder
  BY <1>3, ResetRestores DEF ResetBuilder, Reset
<1>4. CASE AssignCall
  <2>1. PICK at, v : /\ Begin(at, v)
                     /\ \/ at = "node" /\ v \in Sources
                        \/ at = "list" /\ v \in ListSources /\ Given(na, "Links")
                        \/ at = "row"  /\ v \in RowSources /\ RowHeld
    BY <1>4 DEF AssignCall, ListAssignCall, RowAssignCall
  <2> QED BY <1>2, <2>1, BeginKeeps
<1>5. CASE DirectCall
  BY <1>5, CallKeeps DEF DirectCall
<1>6. CASE AssignStep
  <2>1. ~failed
    BY <1>6 DEF AssignStep, AssignInv
  <2> QED BY <1>6, <2>1, StepKeeps
<1>7. CASE UNCHANGED assignVars
  <2>1. UNCHANGED <<node, na, la, va, todo, failed>> /\ res' \in {"ok", "err", "panic"}
    BY <1>1, <1>7 DEF assignVars, vars, TypeOK
  <2> QED BY <1>2, <1>7, <2>1, Unmoved DEF assignVars
<1> QED BY <1>3, <1>4, <1>5, <1>6, <1>7 DEF AssignNext

LEMMA AssignShows ==
  ASSUME AssignInv
  PROVE  AssignTypeOK /\ FinishedComplete /\ RowBitsTrue
<1>1. FinishedComplete /\ RowBitsTrue
  <2>1. CASE failed
    BY <2>1 DEF AssignInv
  <2>2. CASE ~failed
    BY <2>2, HatShows DEF AssignInv
  <2> QED BY <2>1, <2>2
<1>2. AssignTypeOK
  <2>1. DOMAIN KindOf = DOMAIN Depth
        /\ DOMAIN Phase = {"assign", "loop", "AssembleKey", "AssignKey", "AssembleValue"}
    BY DEF KindOf, Depth, Phase
  <2>2. \A i \in 1..Len(todo) : todo[i].at \in DOMAIN Depth /\ todo[i].does \in DOMAIN Phase
    BY DEF AssignInv, Stack, FrameFits
  <2> QED BY <2>1, <2>2 DEF AssignInv, AssignTypeOK
<1> QED BY <1>1, <1>2

\* Any order of AssignNodes and calls leaves the tree, as the loops see it, in step.
THEOREM AssignConsistent ==
  Level = "type" /\ Careless = {} => (AssignSystem => []AssignInv)
<1> SUFFICES ASSUME Level = "type" /\ Careless = {} PROVE AssignSystem => []AssignInv
  OBVIOUS
<1>1. AssignInit => AssignInv
  BY AssignBegins
<1>2. AssignInv /\ [AssignNext]_assignVars => AssignInv'
  BY AnyStep
<1> QED BY <1>1, <1>2, PTL DEF AssignSystem

\* Loops drive the assemblers through values of their types, and only the methods
\* AssignNode calls are ever due.
THEOREM AssignTypeCorrect ==
  Level = "type" /\ Careless = {} => (AssignSystem => []AssignTypeOK)
<1>1. AssignInv => AssignTypeOK
  BY AssignShows
<1> QED BY <1>1, AssignConsistent, PTL

\* A node that may be built has a Hash in every link, also where AssignNode built it of
\* a foreign node and where it failed halfway.
THEOREM AssignedComplete ==
  Level = "type" /\ Careless = {} => (AssignSystem => []FinishedComplete)
<1>1. AssignInv => FinishedComplete
  BY AssignShows
<1> QED BY <1>1, AssignConsistent, PTL

\* The bit set never lies about the row in progress, though the loop that fills it
\* never began it as a map.
THEOREM AssignedRowsRecorded ==
  Level = "type" /\ Careless = {} => (AssignSystem => []RowBitsTrue)
<1>1. AssignInv => RowBitsTrue
  BY AssignShows
<1> QED BY <1>1, AssignConsistent, PTL

\* Until Reset neither the caller nor a loop takes back or overwrites a value.
THEOREM AssignedOnlyOnce ==
  Level = "type" /\ Careless = {} => (AssignSystem => AssignedOnce)
<1> SUFFICES ASSUME Level = "type" /\ Careless = {} PROVE AssignSystem => AssignedOnce
  OBVIOUS
<1>1. AssignInv /\ [AssignNext]_assignVars => [Fresh(node', na', la', va') \/ Grown]_assignVars
  BY AnyStep
<1> QED BY <1>1, AssignConsistent, PTL DEF AssignSystem, AssignedOnce

\* A finished node is immutable until Reset, whatever is assigned to its builder.
THEOREM AssignedFinal ==
  Level = "type" /\ Careless = {} => (AssignSystem => FinishedIsFinal)
<1> SUFFICES ASSUME Level = "type" /\ Careless = {} PROVE AssignSystem => FinishedIsFinal
  OBVIOUS
<1>1. AssignInv /\ [AssignNext]_assignVars =>
        [na.m = "Value" /\ na'.m = "Value" => node' = node]_vars
  <2> SUFFICES ASSUME AssignInv, [AssignNext]_assignVars, na.m = "Value", na'.m = "Value"
               PROVE  node' = node
    OBVIOUS
  <2>1. ~Fresh(node', na', la', va')
    BY DEF Fresh
  <2> QED BY <2>1, AnyStep
<1> QED BY <1>1, AssignConsistent, PTL DEF AssignSystem, FinishedIsFinal
=============================================================================
