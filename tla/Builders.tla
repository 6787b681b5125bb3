------------------------------ MODULE Builders ------------------------------
(***************************************************************************)
(* Type.X.NewBuilder() for every X but PBNode: the assembler of X with a w *)
(* and an m of its own.  They are the assemblers of the tree, so a builder *)
(* of X is the tree cut off above X: the parts above stand still, where    *)
(* they are while X is being assembled.  The caller is that of AssignNode: *)
(* it calls the assemblers, and assigns nodes of any kind to a builder of  *)
(* a list or a link and to the rows of a list.                             *)
(***************************************************************************)
EXTENDS AssignNode

VARIABLES
  root,   \* X; it never changes
  built   \* what the last Build returned, Unset if none since Reset

rootVars == <<assignVars, root, built>>

Roots == {"PBLinks", "PBLink", "Hash", "Name", "Tsize", "Data"}

-----------------------------------------------------------------------------
InNode == {"Data", "PBLinks"}

\* NewBuilder and Reset.
Rooted(r, nodeV, naV, laV, vaV) ==
  /\ nodeV = [Links |-> IF r \in InNode THEN <<>> ELSE <<NewLink>>, Data |-> Unset]
  /\ naV = [m |-> "midvalue", state |-> "midValue",
            s |-> {IF r = "Data" THEN "Data" ELSE "Links"},
            f |-> IF r = "Data" THEN "Data" ELSE "Links",
            cm |-> IF r \in InNode THEN "Absent" ELSE "midvalue"]
  /\ laV = [w |-> r # "Data", state |-> IF r \in InNode THEN "initial" ELSE "midValue",
            cm |-> IF r \in LinkFields THEN "midvalue" ELSE "Absent"]
  /\ vaV = IF r \in LinkFields
           THEN [state |-> "midValue", s |-> {r}, f |-> r, cm |-> "Absent",
                 hash |-> IF r = "Hash" THEN 1 ELSE 0]
           ELSE [state |-> "initial", s |-> {}, f |-> "Hash", cm |-> "Absent", hash |-> 0]

RootInit ==
  /\ root \in Roots /\ res = "ok" /\ built = Unset
  /\ Rooted(root, node, na, la, va)
  /\ todo = <<>> /\ source = NoSource /\ failed = FALSE

RootReset ==
  /\ todo = <<>>
  /\ Rooted(root, node', na', la', va')
  /\ res' = "ok" /\ built' = Unset /\ failed' = FALSE
  /\ UNCHANGED <<root, todo, source>>

\* *nb.m and *nb.w.
RootM ==
  CASE root = "PBLinks" -> M("list")
    [] root = "PBLink" -> M("row")
    [] OTHER -> M(root)
RootW ==
  CASE root = "PBLinks" -> node.Links
    [] root = "PBLink" -> Row
    [] root = "Data" -> node.Data
    [] OTHER -> Row[root]

\* The caller may build after an AssignNode that failed, and not only before.
Build ==
  /\ todo = <<>>
  /\ \/ RootM # "Value" /\ Panic /\ UNCHANGED built
     \/ RootM = "Value" /\ built' = RootW /\ res' = "ok" /\ UNCHANGED asm
  /\ UNCHANGED <<root, todo, source, failed>>

-----------------------------------------------------------------------------
LeafCall ==
  \/ root = "Hash"  /\ \E h \in Hashes : HashAssignLink(h)
  \/ root = "Name"  /\ \E n \in Names : NameAssignString(n)
  \/ root = "Tsize" /\ \E t \in Tsizes : TsizeAssignInt(t)
  \/ root = "Data"  /\ \E c \in Chunks : DataAssignBytes(c)

LeafAssignNull == AssignNull(RootM)

\* AssignNode to a leaf's builder is one of these calls: it reads the node by its own
\* kind and assigns what it has read.
RootCall ==
  /\ MayCall
  /\ \/ WrongKind
     \/ root \notin {"PBLinks", "PBLink"} /\ (LeafCall \/ LeafAssignNull)
     \/ root = "PBLinks" /\ (LinksCall \/ LinkCall)
     \/ root = "PBLink" /\ LinkCall
  /\ UNCHANGED <<root, built, todo, source, failed>>

\* AssignNode of a node of any kind, and its loops one call at a time.
RootAssign ==
  /\ \/ root = "PBLinks" /\ (ListAssignCall \/ RowAssignCall)
     \/ root = "PBLink" /\ RowAssignCall
  /\ UNCHANGED <<root, built>>

RootStep == AssignStep /\ UNCHANGED <<root, built>>

RootNext == RootReset \/ Build \/ RootCall \/ RootAssign \/ RootStep

RootSpec == RootInit /\ [][RootNext]_rootVars

-----------------------------------------------------------------------------
\* The assemblers keep their types, and Build hands out a value of the builder's type.
RootTypeOK ==
  /\ AssignTypeOK
  /\ root \in Roots
  /\ \/ built = Unset
     \/ built \in CASE root = "PBLinks" -> Seq(PBLink)
                    [] root = "PBLink" -> PBLink
                    [] root = "Hash" -> Hashes
                    [] root = "Name" -> Names
                    [] root = "Tsize" -> Tsizes
                    [] root = "Data" -> Chunks

\* Whatever Build returns satisfies the schema of its type, after an AssignNode that
\* failed in its loop too.
BuiltConforms ==
  RootM = "Value" =>
    CASE root = "PBLinks" -> \A i \in 1..Last : Complete(node.Links[i])
      [] root = "PBLink" -> Complete(Row)
      [] OTHER -> RootW # Unset

\* Build returns a pointer to what the assemblers wrote, not a copy.  A value handed
\* out stays as it was all the same, and the builder keeps it until Reset, whatever
\* a careful caller assigns or calls.
HandedOutStays == built # Unset => RootM = "Value" /\ RootW = built
=============================================================================
