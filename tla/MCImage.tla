------------------------------ MODULE MCImage -------------------------------
(* The executable: load, which places the tables in it, and the walk over    *)
(* its imports, which pe-validate lists.  The two share the address maps and *)
(* nothing they write, so a behaviour is about one of them.                  *)
EXTENDS MCParts, Loader, PeImports

imageVars == <<part, loadVars, importVars>>

Base == 3

\* Two sections that may overlap, wrap around, be empty in the file or larger
\* there, in files cut short or not.
MCSections ==
  {<<Section(p[1], v, m, 1, 3), Section(p[2], w[1], w[2], r, k)>> :
     p \in {<<".rdata", ".data">>, <<".data", ".rdata">>, <<".data", ".data">>},
     v \in {0, 1}, m \in {2, 4},
     w \in {<<0, 2>>, <<0, 3>>, <<3, 2>>, <<3, 3>>, <<5, 2>>, <<5, 3>>, <<16, 3>>},
     r \in {0, 4}, k \in {0, 2, 3}}

Image(y, s, len, h, p, k) ==
  [parses |-> y, base |-> Base, sections |-> s, len |-> len,
   embedded |-> h, ptr |-> p, kinds |-> k]

\* The pointers: all the same, those of the file in turn, below ImageBase or
\* beyond the reach of 32 bits.
Pointers(len) ==
  {[o \in 0 .. len |-> Base + 1], [o \in 0 .. len |-> Base + o],
   [o \in 0 .. len |-> Base + 6 - o], [o \in 0 .. len |-> Base - 1 + 2 * o],
   [o \in 0 .. len |-> Base + U32_RANGE - 2 + o]}

MCExes ==
  UNION {
    {Image(TRUE, s, len, TRUE, p, k) :
       s \in MCSections, p \in Pointers(len), k \in {{2, 4}, {3, 5, 6}}} :
    len \in {5, 7}}
  \union {Image(FALSE, <<>>, 7, FALSE, [o \in 0 .. 7 |-> 0], {})}
  \union {Image(TRUE, s, 7, FALSE, [o \in 0 .. 7 |-> 0], {}) : s \in MCSections}

MCDats ==
  {[len |-> 3, magic |-> TRUE], [len |-> 2, magic |-> TRUE], [len |-> 3, magic |-> FALSE]}

MCAnchors == <<Base + 1, Base + 3, Base + 2>>

\* One section in the middle or at the end of the address space, a directory
\* at its start, behind it and outside of it; two descriptors of any kind, at
\* the RVA w[1]; thunks by name, by ordinal and missing, 6 bytes behind it,
\* and more of them than the cap allows.  ImageBase is so near the end of a
\* u64 that the first slot of a descriptor may fit, and the next one not.
MCWalks ==
  {[base |-> 20, len |-> l, dir |-> w[2],
    sections |-> <<Section(".idata", w[1], w[3], 0, 12)>>,
    data |-> a \o b \o t] :
     l \in {11, 12},
     w \in {<<2, 2, 12>>, <<6, 6, 11>>, <<6, 9, 11>>, <<3, 9, 12>>, <<2, 17, 12>>},
     a \in {<<8, 3, 9>>, <<0, 3, 8>>, <<9, 0, 15>>},
     b \in {<<0, 0, 0>>, <<8, 9, 9>>, <<0, 9, 11>>, <<16, 0, 1>>},
     t \in [1 .. 6 -> {0, 3, 31}]}

MCImportImages ==
  LET files == {[e EXCEPT !.data = FromZero(@)] : e \in MCWalks}
  IN  files \union {[One(files) EXCEPT !.dir = r] : r \in {0, None}}

-----------------------------------------------------------------------------
LoadIdle == exe = One(Exes) /\ dat = One(Dats) /\ Init
ImportsIdle == pe = One(ImportImages) /\ checked = TRUE /\ ImportsInit

ImageInit ==
  \/ part = "load"    /\ ImportsIdle /\ Init
  \/ part = "imports" /\ LoadIdle /\ ImportsInit

ImageNext ==
  /\ part' = part
  /\ \/ part = "load" /\ Next /\ UNCHANGED importVars
     \/ part = "imports" /\ ImportsNext /\ UNCHANGED loadVars

ImageSpec == ImageInit /\ [][ImageNext]_imageVars
=============================================================================
