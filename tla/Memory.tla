------------------------------- MODULE Memory -------------------------------
(***************************************************************************)
(* src/mem.rs, and the way every decoder computes an address: a base, an   *)
(* offset from it, and a bounds check.  A buffer is a function from its    *)
(* offsets 0 .. len - 1 to what can be read there.                         *)
(*                                                                         *)
(* A usize is a residue: a negative base of a damaged header becomes a     *)
(* huge one.  What an overflowing `+` or `*` does then depends on the      *)
(* build: it panics or it wraps around.                                    *)
(***************************************************************************)
EXTENDS Integers, FiniteSets

CONSTANTS
  USIZE, U32_RANGE,  \* 2^64 and 2^32
  WORD,              \* 4, the length of a u32
  TYPE_LEN, KIND_AT  \* 16, and 0xA: an Il2CppType and its kind

ASSUME MemoryAssumption ==
  /\ {USIZE, U32_RANGE, WORD, TYPE_LEN} \subseteq Nat \ {0} /\ 4 * U32_RANGE <= USIZE
  /\ KIND_AT \in 0 .. TYPE_LEN - 1

AsUsize(n) == n % USIZE

Word32 == 0 .. U32_RANGE - 1

\* What an i32 is, less a bias that is one too.
SignedBase == -U32_RANGE .. U32_RANGE - 1

\* isize::MAX, which the length of no buffer exceeds.
LONGEST == USIZE \div 2 - 1

IsBuffer(mem) == \E n \in 0 .. LONGEST : DOMAIN mem = 0 .. n - 1

\* No index of 32 bits leads out of a usize, at this many bytes an entry.
FitsUsize(stride) == (stride + 3) * U32_RANGE <= USIZE

\* A u32 read as an i32.
AsI32(n) == IF 2 * n >= U32_RANGE THEN n - U32_RANGE ELSE n

\* base + stride * n, and whether computing it overflows.
Entry(base, stride, n) == (base + stride * n) % USIZE
Overflows(base, stride, n) ==
  stride * n >= USIZE \/ base + ((stride * n) % USIZE) >= USIZE

SizeOf(mem) == Cardinality(DOMAIN mem)

\* readable: checked_add, so that no huge offset comes back into the buffer.
Readable(mem, off, len) == off + len <= SizeOf(mem)

\* The reads: zero where there is nothing to read.
ReadAt(mem, off, len) == IF Readable(mem, off, len) THEN mem[off] ELSE 0
=============================================================================
