---------------------------- MODULE MethodTable -----------------------------
(***************************************************************************)
(* methods of src/method_meta.rs and method_rva of src/metadata.rs: the    *)
(* methods of one type, each with its parameters, its return type and its  *)
(* RVA.  A record is de-obfuscated with a key made from its own index, so  *)
(* its words stand for what they decode to; a parameter stands for its     *)
(* index and a type for its own.  Modifiers and names are left out.        *)
(***************************************************************************)
EXTENDS Memory, Sequences

CONSTANTS
  METHOD_STRIDE,            \* 26
  RETURN_AT, COUNT_AT,      \* 4 and 0x18; the start of the parameters is at 0
  PARAM_STRIDE, PTR_LEN,    \* 8 and 8
  TYPE_CAP,                 \* 4 000 000
  MAX_METHODS, MAX_PARAMS,  \* 0x4000 and 64
  CODE_LEN,                 \* 0x4000_0000
  MethodBodies,             \* the bodies considered
  MethodImages,             \* functions from 0 .. len - 1 to u64
  MethodInputs              \* the tables and the type

(***************************************************************************)
(* An input: methodDefs and params (i32 less a bias: may be negative); the *)
(* offsets typearr and methodptrs and the ImageBase, which is not above    *)
(* the anchors of a file that load accepts; methodStart and the count,     *)
(* which method_counts gives as a distance to a larger methodStart.        *)
(***************************************************************************)
IsMethodInput(x) ==
  /\ {x.methodDefs, x.params} \subseteq SignedBase
  /\ {x.typearr, x.methodptrs} \subseteq Nat /\ {x.start, x.count} \subseteq Word32
  /\ x.imageBase \in Nat /\ x.imageBase + CODE_LEN < USIZE
  /\ x.count > 0 => x.start + x.count < U32_RANGE - 1

ASSUME MethodTableAssumption ==
  /\ {METHOD_STRIDE, PARAM_STRIDE, PTR_LEN} \subseteq Nat \ {0}
  /\ {RETURN_AT, COUNT_AT} \subseteq 0 .. METHOD_STRIDE - 1
  /\ {TYPE_CAP, MAX_METHODS, MAX_PARAMS} \subseteq Nat /\ CODE_LEN \in Nat \ {0}
  /\ FitsUsize(METHOD_STRIDE) /\ FitsUsize(PARAM_STRIDE)
  /\ \A b \in MethodBodies : IsBuffer(b) /\ \A o \in DOMAIN b : b[o] \in Word32
  /\ \A i \in MethodImages : IsBuffer(i) /\ \A o \in DOMAIN i : i[o] \in 0 .. USIZE - 1
  /\ \A x \in MethodInputs :
       /\ IsMethodInput(x)
       \* The params of the last u32 are beyond the body: it has less than 28 GiB.
       /\ \A b \in MethodBodies : SizeOf(b) < x.params + PARAM_STRIDE * U32_RANGE

VARIABLES
  mbody, mimage, minp,  \* the input
  mchecked,             \* whether this build checks for overflow
  slot,                 \* the method of the type looked at
  params,               \* its parameters so far
  methods,              \* the methods: records [gmi, rva, ret, params]
  mtpc                  \* "start", "slot", "params"; "done" and "panic"

methodVars == <<mbody, mimage, minp, mchecked, slot, params, methods, mtpc>>

MethodInit ==
  /\ mbody \in MethodBodies /\ mimage \in MethodImages /\ minp \in MethodInputs
  /\ mchecked \in BOOLEAN
  /\ slot = 0
  /\ params = <<>> /\ methods = <<>>
  /\ mtpc = "start"

-----------------------------------------------------------------------------
Void == -1

\* Mutant: the methods that were skipped are not counted.
GmiOfListed == (minp.start + Len(methods)) % U32_RANGE

\* method_start.wrapping_add(slot)
Gmi == (minp.start + slot) % U32_RANGE

MethodDef == Entry(AsUsize(minp.methodDefs), METHOD_STRIDE, Gmi)

MethodDefOverflows == Overflows(AsUsize(minp.methodDefs), METHOD_STRIDE, Gmi)

\* pstart.wrapping_add(p)
Gpi == (mbody[MethodDef] + Len(params)) % U32_RANGE

ParamDef == Entry(AsUsize(minp.params), PARAM_STRIDE, Gpi)
ParamDefOverflows == Overflows(AsUsize(minp.params), PARAM_STRIDE, Gpi)

\* il2cpp_type_offset
TypeAt(n) == minp.typearr + TYPE_LEN * n

ReturnType ==
  LET n == mbody[MethodDef + RETURN_AT]
  IN  IF n < TYPE_CAP /\ Readable(mimage, TypeAt(n), TYPE_LEN) THEN n ELSE Void

PointerAt == minp.methodptrs + PTR_LEN * Gmi
Pointer == IF Readable(mimage, PointerAt, PTR_LEN) THEN mimage[PointerAt] ELSE 0

\* method_rva
Rva ==
  IF Pointer > minp.imageBase /\ Pointer < minp.imageBase + CODE_LEN
  THEN Pointer - minp.imageBase ELSE 0

MethodsGoto(there) ==
  /\ mtpc' = there
  /\ UNCHANGED <<mbody, mimage, minp, mchecked, slot, params, methods>>

NoMethods == minp.start = U32_RANGE - 1 \/ minp.count \notin 1 .. MAX_METHODS - 1

MethodsStart == mtpc = "start" /\ ~NoMethods /\ MethodsGoto("slot")

ReturnNone == mtpc = "start" /\ NoMethods /\ MethodsGoto("done")

SlotDue == mtpc = "slot" /\ slot < minp.count

MethodSumPanics(overflows) == mchecked /\ overflows

MethodReadable ==
  ~MethodSumPanics(MethodDefOverflows) /\ Readable(mbody, MethodDef, METHOD_STRIDE)

SkipMethod ==
  /\ SlotDue
  /\ ~MethodSumPanics(MethodDefOverflows) /\ ~MethodReadable
  /\ slot' = slot + 1
  /\ UNCHANGED <<mbody, mimage, minp, mchecked, params, methods, mtpc>>

BeginMethod ==
  /\ SlotDue
  /\ MethodReadable
  /\ params' = <<>>
  /\ mtpc' = "params"
  /\ UNCHANGED <<mbody, mimage, minp, mchecked, slot, methods>>

\* for p in 0..pcnt.min(64)
ParamDue ==
  /\ mtpc = "params"
  /\ Len(params) < mbody[MethodDef + COUNT_AT] /\ Len(params) < MAX_PARAMS

TakeParam ==
  /\ ParamDue
  /\ ~MethodSumPanics(ParamDefOverflows) /\ Readable(mbody, ParamDef, PARAM_STRIDE)
  /\ params' = Append(params, Gpi)
  /\ UNCHANGED <<mbody, mimage, minp, mchecked, slot, methods, mtpc>>

\* All of them taken, or one that cannot be read.
ParamsEnd ==
  \/ ~ParamDue
  \/ ~MethodSumPanics(ParamDefOverflows) /\ ~Readable(mbody, ParamDef, PARAM_STRIDE)

TakeMethod ==
  /\ mtpc = "params" /\ ParamsEnd
  /\ methods' = Append(methods, [gmi |-> Gmi, rva |-> Rva, ret |-> ReturnType,
                                 params |-> params])
  /\ slot' = slot + 1
  /\ mtpc' = "slot"
  /\ UNCHANGED <<mbody, mimage, minp, mchecked, params>>

MethodPanic ==
  /\ \/ SlotDue /\ MethodSumPanics(MethodDefOverflows)
     \/ ParamDue /\ MethodSumPanics(ParamDefOverflows)
  /\ MethodsGoto("panic")

MethodsDone == mtpc = "slot" /\ slot = minp.count /\ MethodsGoto("done")

MethodNext ==
  \/ ReturnNone
  \/ MethodsStart
  \/ SkipMethod
  \/ BeginMethod
  \/ TakeParam
  \/ TakeMethod
  \/ MethodPanic
  \/ MethodsDone

MethodSpec == MethodInit /\ [][MethodNext]_methodVars

-----------------------------------------------------------------------------
MethodTypeOK ==
  /\ slot \in 0 .. minp.count /\ Len(methods) <= slot
  /\ Len(params) <= MAX_PARAMS
  /\ \A k \in DOMAIN methods : Len(methods[k].params) <= MAX_PARAMS
  /\ \A k \in DOMAIN methods : methods[k].rva \in 0 .. CODE_LEN - 1

(***************************************************************************)
(* The methods of the type, told with whole numbers: no residues, no order *)
(* of steps.                                                               *)
(***************************************************************************)
InMethodBody(a, len) == 0 <= a /\ a + len <= SizeOf(mbody)

RecordOf(g) == minp.methodDefs + METHOD_STRIDE * g

ParamThere(g, p) ==
  InMethodBody(minp.params + PARAM_STRIDE * (mbody[RecordOf(g)] + p), PARAM_STRIDE)

ParamCounts(g) ==
  {n \in 0 .. MAX_PARAMS :
     n <= mbody[RecordOf(g) + COUNT_AT] /\ \A p \in 0 .. n - 1 : ParamThere(g, p)}

ParamsOf(g) ==
  LET count == CHOOSE n \in ParamCounts(g) : \A k \in ParamCounts(g) : k <= n
  IN  [p \in 1 .. count |-> mbody[RecordOf(g)] + p - 1]

RvaOf(g) ==
  LET a == minp.methodptrs + PTR_LEN * g
  IN  IF /\ a + PTR_LEN <= SizeOf(mimage)
         /\ mimage[a] - minp.imageBase \in 1 .. CODE_LEN - 1
      THEN mimage[a] - minp.imageBase ELSE 0

ReturnOf(g) ==
  LET n == mbody[RecordOf(g) + RETURN_AT]
  IN  IF n < TYPE_CAP /\ minp.typearr + TYPE_LEN * (n + 1) <= SizeOf(mimage)
      THEN n ELSE Void

MethodOf(g) == [gmi |-> g, rva |-> RvaOf(g), ret |-> ReturnOf(g), params |-> ParamsOf(g)]

MethodsOf(count) ==
  {MethodOf(g) : g \in {n \in minp.start .. minp.start + count - 1 :
                          ~NoMethods /\ InMethodBody(RecordOf(n), METHOD_STRIDE)}}

InMethodOrder == \A m, n \in DOMAIN methods : m < n => methods[m].gmi < methods[n].gmi

(***************************************************************************)
(* Every method of the type whose record is in the body is listed, with    *)
(* its own RVA, return type and the longest run of its parameters that can *)
(* be read, 64 at most.  No index that wraps around lists a method or a    *)
(* parameter of another, and no residue leads back into the body.  Only a  *)
(* build that checks for overflow panics, and only on a negative base of   *)
(* the methods or of the parameters.                                       *)
(***************************************************************************)
OwnMethods ==
  /\ mtpc = "done" =>
       {methods[n] : n \in DOMAIN methods} = MethodsOf(minp.count) /\ InMethodOrder
  /\ mtpc = "panic" => mchecked /\ (minp.methodDefs < 0 \/ minp.params < 0)
=============================================================================
