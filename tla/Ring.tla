-------------------------------- MODULE Ring --------------------------------
(***************************************************************************)
(* The single-producer / single-consumer ring of src/util/ring.hpp, at the  *)
(* grain of its memory accesses: an operation reads the other side's index  *)
(* once, moves its items one slot at a time, and publishes its own index    *)
(* with one store.  The two sides interleave between any two of those       *)
(* steps, as a main loop and an interrupt handler do.                       *)
(*                                                                          *)
(* Indices are free-running and W values wide (2^32 in the code).  An item  *)
(* is represented by its number in the order of production, which makes a   *)
(* lost, repeated, reordered or overwritten item visible.                   *)
(***************************************************************************)
EXTENDS Integers, Sequences

CONSTANTS
  Capacity,   \* number of slots
  W,          \* number of values an index can take
  MaxItems    \* bound of a model: items ever offered by the producer

ASSUME RingAssumption ==
  /\ Capacity \in Nat \ {0}
  /\ W \in Nat
  /\ 2 * Capacity <= W          \* the static_assert: Capacity <= 2^31
  /\ MaxItems \in Nat

VARIABLES
  head, tail,       \* the two published indices
  buf,              \* the backing array
  ppc, ph, pn, pi,  \* producer: phase, cached head, block length, items written
  cpc, ct, cn,      \* consumer: phase, cached tail, block length
  dst,              \* the items the consumer has copied out so far
  nextIn,           \* number of the next item to publish
  nextOut,          \* number of the item at the tail
  taken             \* the block the last finished read returned

prodVars == <<ppc, ph, pn, pi>>
consVars == <<cpc, ct, cn, dst>>
vars == <<head, tail, buf, prodVars, consVars, nextIn, nextOut, taken>>

Slots == 0 .. Capacity - 1
Lesser(a, b) == IF a <= b THEN a ELSE b

\* uint32_t arithmetic on positions: n further on, and how far a is ahead of b.
Advance(pos, n) == (pos + n) % W
Distance(a, b) == (a - b) % W

\* Mutated form: indexing off by one slot once the position leaves the array.
IndexPastWrap(pos) == IF pos < Capacity THEN pos ELSE (pos + 1) % Capacity

\* index(): a mask for a power of two, a modulo otherwise - the same function.
Index(pos) == pos % Capacity

\* size() and free(): the difference of two free-running indices, modulo W.
Size == Distance(head, tail)

\* Mutated form: one slot too many (the classical full/empty confusion).
FreeOffByOne == Capacity + 1 - Size

Free == Capacity - Size

\* Mutated form: the wrap at the end of the array is forgotten.
FreeContigWrapped == Lesser(Capacity - Size, Capacity)

\* freeContig() and readContig(): what lies before the end of the array.
FreeContig == Lesser(Free, Capacity - Index(head))
ReadContig == Lesser(Size, Capacity - Index(tail))

\* A copying operation indexes every item, a zero-copy one only the first.
SlotOf(phase, first, k) ==
  IF phase = "copy" THEN Index(Advance(first, k)) ELSE Index(first) + k

Init ==
  /\ head = 0 /\ tail = 0
  /\ buf = [s \in Slots |-> 0]
  /\ ppc = "idle" /\ ph = 0 /\ pn = 0 /\ pi = 0
  /\ cpc = "idle" /\ ct = 0 /\ cn = 0 /\ dst = <<>>
  /\ nextIn = 0 /\ nextOut = 0 /\ taken = <<>>

------------------------------------------------------------------------------
\* Producer.

\* The producer has seen room for n items and starts writing them.
Claim(phase, n) ==
  /\ ppc = "idle"
  /\ n > 0
  /\ nextIn + n <= MaxItems
  /\ ppc' = phase /\ ph' = head /\ pn' = n /\ pi' = 0
  /\ UNCHANGED <<head, tail, buf, consVars, nextIn, nextOut, taken>>

\* push(src, len): as many items as fit.
Push(len) == Claim("copy", Lesser(len, Free))

\* Mutated form: a block is accepted whenever there is any room.
PushAllIfAnyRoom(len) == Free > 0 /\ Claim("copy", len)

\* pushAll(src, len): the whole block or nothing.
PushAll(len) == len <= Free /\ Claim("copy", len)

\* freeContig() .. writePtr() .. writeCommit(n): write in place.
Reserve(n) == n <= FreeContig /\ Claim("place", n)

WriteItem ==
  /\ ppc # "idle" /\ pi < pn
  /\ buf' = [buf EXCEPT ![SlotOf(ppc, ph, pi)] = nextIn + pi]
  /\ pi' = pi + 1
  /\ UNCHANGED <<head, tail, ppc, ph, pn, consVars, nextIn, nextOut, taken>>

\* head_ = h + n, after the last item.
Publish ==
  /\ ppc # "idle" /\ pi = pn
  /\ head' = Advance(ph, pn)
  /\ nextIn' = nextIn + pn
  /\ ppc' = "idle" /\ ph' = 0 /\ pn' = 0 /\ pi' = 0
  /\ UNCHANGED <<tail, buf, consVars, nextOut, taken>>

------------------------------------------------------------------------------
\* Consumer.

Open(phase, n) ==
  /\ cpc = "idle"
  /\ n > 0
  /\ cpc' = phase /\ ct' = tail /\ cn' = n /\ dst' = <<>>
  /\ UNCHANGED <<head, tail, buf, prodVars, nextIn, nextOut, taken>>

\* pop(dst, len): as many items as there are.
Pop(len) == Open("copy", Lesser(len, Size))

\* readContig() .. readPtr() .. readCommit(n): read in place.
Peek(n) == n <= ReadContig /\ Open("place", n)

ReadItem ==
  /\ cpc # "idle" /\ Len(dst) < cn
  /\ dst' = Append(dst, buf[SlotOf(cpc, ct, Len(dst))])
  /\ UNCHANGED <<head, tail, buf, prodVars, cpc, ct, cn, nextIn, nextOut, taken>>

\* Mutated form: the slots are given back before the items are copied out.
ReleaseEarly ==
  /\ cpc # "idle"
  /\ \/ /\ Len(dst) = 0 /\ ct = tail
        /\ tail' = Advance(ct, cn)
        /\ nextOut' = nextOut + cn
        /\ UNCHANGED <<head, buf, prodVars, consVars, nextIn, taken>>
     \/ /\ Len(dst) = cn
        /\ taken' = dst
        /\ cpc' = "idle" /\ ct' = 0 /\ cn' = 0 /\ dst' = <<>>
        /\ UNCHANGED <<head, tail, buf, prodVars, nextIn, nextOut>>

\* tail_ = t + n, after the last item.
Release ==
  /\ cpc # "idle" /\ Len(dst) = cn
  /\ tail' = Advance(ct, cn)
  /\ nextOut' = nextOut + cn
  /\ taken' = dst
  /\ cpc' = "idle" /\ ct' = 0 /\ cn' = 0 /\ dst' = <<>>
  /\ UNCHANGED <<head, buf, prodVars, nextIn>>

\* clear(): called from the main loop, with no operation of either side open.
Clear ==
  /\ ppc = "idle" /\ cpc = "idle"
  /\ head' = 0 /\ tail' = 0
  /\ nextOut' = nextIn
  /\ UNCHANGED <<buf, prodVars, consVars, nextIn, taken>>

Producer ==
  \/ \E n \in 1 .. Capacity + 1 : Push(n)
  \/ \E n \in 1 .. Capacity : PushAll(n)
  \/ \E n \in 1 .. Capacity : Reserve(n)
  \/ WriteItem
  \/ Publish

Consumer ==
  \/ \E n \in 1 .. Capacity + 1 : Pop(n)
  \/ \E n \in 1 .. Capacity : Peek(n)
  \/ ReadItem
  \/ Release

Next == Producer \/ Consumer \/ Clear

Spec == Init /\ [][Next]_vars

------------------------------------------------------------------------------
Phases == {"idle", "copy", "place"}

\* The types of the ring's state: indices stay W wide, and blocks in progress
\* never exceed the backing array.
TypeOK ==
  /\ head \in 0 .. W - 1 /\ tail \in 0 .. W - 1
  /\ buf \in [Slots -> Nat]
  /\ ppc \in Phases /\ ph \in 0 .. W - 1 /\ pn \in 0 .. Capacity /\ pi \in 0 .. Capacity
  /\ cpc \in Phases /\ ct \in 0 .. W - 1 /\ cn \in 0 .. Capacity /\ dst \in Seq(Nat)
  /\ nextIn \in Nat /\ nextOut \in Nat /\ taken \in Seq(Nat)

\* Accounting across the wrap of both indices: size() is the number of items
\* published and not yet released, and never more than the array holds.
SizeIsExact == Size <= Capacity /\ nextIn = nextOut + Size

\* Reads of the other side's index may be stale, which is always conservative
\* (header comment): a block being written fits in the space there is now, a
\* block being read is still there, whatever the other side did meanwhile.
StaleReadsAreConservative ==
  /\ ppc # "idle" => ph = head /\ pn \in 1 .. Free /\ pi <= pn
  /\ cpc # "idle" => ct = tail /\ cn \in 1 .. Size /\ Len(dst) <= cn

\* A zero-copy block never runs past the end of the backing array.
InPlaceBlocksFit ==
  /\ ppc = "place" => Index(ph) + pn <= Capacity
  /\ cpc = "place" => Index(ct) + cn <= Capacity

\* No item waiting in the ring is overwritten, whatever the producer is writing.
UnreadItemsIntact ==
  \A k \in 0 .. Size - 1 : buf[Index(Advance(tail, k))] = nextOut + k

\* The items written so far of a block not published yet.
UnpublishedItemsIntact ==
  ppc # "idle" => \A k \in 0 .. pi - 1 : buf[SlotOf(ppc, ph, k)] = nextIn + k

\* What the consumer has copied out is the oldest items, in order.
ConsumerReadsInOrder ==
  cpc # "idle" => \A k \in 1 .. Len(dst) : dst[k] = nextOut + k - 1

\* The inductive invariant of the ring.
RingInv ==
  /\ TypeOK
  /\ SizeIsExact
  /\ StaleReadsAreConservative
  /\ InPlaceBlocksFit
  /\ UnreadItemsIntact
  /\ UnpublishedItemsIntact
  /\ ConsumerReadsInOrder

\* The ring implements a bounded FIFO in which a block appears as a whole.
Waiting == [k \in 1 .. Size |-> buf[Index(Advance(tail, k - 1))]]
Fifo == INSTANCE BoundedFifo WITH queue <- Waiting
FifoSpec == Fifo!Spec
==============================================================================
