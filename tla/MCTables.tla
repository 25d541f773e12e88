------------------------------ MODULE MCTables ------------------------------
(* The two tables dump_all makes before its walk, and what a default value   *)
(* is written as.  The four share nothing they write, so a behaviour is      *)
(* about one part and the others do not begin.                               *)
EXTENDS MCParts, MCMethodCounts, DefaultScan, DefaultLiteral, FmtNet

tableVars == <<part, countVars, scanVars, literalVars, fmtVars>>

\* Rows that continue a table, and one row for each way of failing a check.
MCRow ==
  {[ti |-> 0, fi |-> f, di |-> 0] : f \in -1 .. 4}
    \union {[ti |-> -1, fi |-> 1, di |-> -1],
            [ti |-> 3, fi |-> 2, di |-> 5],
            [ti |-> -2, fi |-> 2, di |-> 0],
            [ti |-> 4, fi |-> 1, di |-> 0],
            [ti |-> 1, fi |-> 3, di |-> -2]}

\* Bytes of one bit: every value of up to 8 of them at two places of the blob,
\* cut off after any number of bytes, of every kind; and the indexes around
\* -1, with a type before the first one.
Constant(kind, s, l, ti, di) ==
  [image |-> FromZero(<<0, 5, 0, kind, 0>>), typearr |-> 2,
   body |-> FromZero(SubSeq(<<1>> \o s, 1, l)), blobBase |-> 1, ti |-> ti, di |-> di]

MCConstants ==
  {Constant(kind, s, l, 0, di) : kind \in 1 .. 15, s \in [1 .. 8 -> {0, 1}],
                                 l \in {1, 2, 4, 5, 7, 9}, di \in {0, 1}}
  \union
  {Constant(kind, <<1, 0, 0, 0, 1, 0, 0, 0>>, 9, ti, di) :
     kind \in 1 .. 15, ti \in -2 .. 1, di \in {-2, -1, 0, 7, 8, 9}}

\* Numbers of four binary digits, with exponents on both sides of each bound
\* and of two digits and three.
MCMinExp == -2
MCExps == -7 .. 7

-----------------------------------------------------------------------------
CountsIdle == records = <<>> /\ Init
ScanIdle == rows = <<>> /\ ScanAlone
LiteralIdle == in = One(Constants) /\ LiteralInit
FmtIdle ==
  /\ class = "normal" /\ neg = FALSE /\ mantissa = [k \in 1 .. SIG |-> 1] /\ exp = 0
  /\ FmtInit

TablesInit ==
  \/ part = "counts"  /\ ScanIdle /\ LiteralIdle /\ FmtIdle /\ Init
  \/ part = "scan"    /\ CountsIdle /\ LiteralIdle /\ FmtIdle /\ ScanAlone
  \/ part = "literal" /\ CountsIdle /\ ScanIdle /\ FmtIdle /\ LiteralInit
  \/ part = "float"   /\ CountsIdle /\ ScanIdle /\ LiteralIdle /\ FmtInit

TablesNext ==
  /\ part' = part
  /\ \/ part = "counts" /\ CountsNext /\ UNCHANGED <<scanVars, literalVars, fmtVars>>
     \/ part = "scan" /\ ScanNext /\ UNCHANGED <<countVars, literalVars, fmtVars>>
     \/ part = "literal" /\ LiteralNext /\ UNCHANGED <<countVars, scanVars, fmtVars>>
     \/ part = "float" /\ FmtNext /\ UNCHANGED <<countVars, scanVars, literalVars>>

TablesSpec == TablesInit /\ [][TablesNext]_tableVars
=============================================================================
