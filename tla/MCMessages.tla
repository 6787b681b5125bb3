--------------------------- MODULE MCMessages ---------------------------
(* Messages and values for the runs that read or write DAG-PB. *)
EXTENDS PBWire, TLC

SX == INSTANCE SequencesExt

CONSTANTS h1, h2, a, d1, d2, r1, r2, rBad, none, bad

\* r2 is the CID of r1 with bytes after it.
MCCidOf == (r1 :> h1) @@ (r2 :> h1) @@ (rBad :> bad)
MCTsizes == Int64

NameF == EncName(a)
BadTag == NoField
OtherNum(f) == [f EXCEPT !.num = 3]
OtherWt(f) == [f EXCEPT !.wt = VarintType]
Cut(f) == [f EXCEPT !.short = TRUE]

\* Messages of up to three fields of every kind, and of four Data and Links.
Link1 == EncLink(<<EncHash(r1)>>)
Link2 == EncLink(<<EncHash(r2), NameF>>)
NodeLevel ==
  SX!SeqOf({EncData(d1), EncData(d2), Link1, Link2, EncLink(<<NameF>>), BadTag,
            OtherNum(EncData(d1)), OtherWt(EncData(d1)), Cut(Link1)}, 3)
  \cup [1..4 -> {EncData(d1), Link1, Link2}]

\* One link of up to three fields of every kind, or of four known ones; among
\* the varints the largest.
LinkLevel ==
  {<<EncLink(fs)>> :
     fs \in SX!SeqOf({EncHash(r1), EncHash(r2), EncHash(rBad), OtherWt(EncHash(r1)), NameF,
                      [EncTsize(0) EXCEPT !.wt = BytesType], EncTsize(1),
                      EncTsize(MaxUint64), Cut(EncTsize(0)), NoLinkField,
                      [NoLinkField EXCEPT !.num = 4]}, 3)
            \cup [1..4 -> {EncHash(r1), NameF, EncTsize(1)}]}

\* A few messages for a builder that is used again.
Some ==
  {<<>>, <<EncData(d1)>>, <<EncLink(<<EncHash(r1)>>), EncData(d2)>>, <<EncData(d1), Cut(EncData(d2))>>,
   <<EncLink(<<EncHash(r1)>>), EncLink(<<NameF>>)>>, <<EncData(d2), EncLink(<<EncHash(r2), EncTsize(1)>>)>>}
=============================================================================
