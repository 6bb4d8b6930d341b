------------------------------ MODULE Quadlets ------------------------------
(***************************************************************************)
(* Quadlets of a camera's register space and the calls that access them.   *)
(*                                                                         *)
(* A quadlet is the set of the positions of its one bits, 0 being the      *)
(* least significant: masks, shifts and ors become set operations and no   *)
(* 32-bit number has to be represented.                                    *)
(*                                                                         *)
(* A call of the library is a sequence of requests, one quadlet each, that *)
(* DC1394_ERR_RTN cuts short at the first failure.  It is written as an    *)
(* operator from h, the answers the call has got so far, to what it does   *)
(* next: a request, or its return.                                         *)
(***************************************************************************)
EXTENDS Integers, Sequences, FiniteSets

Positions == 0 .. 31
Quadlet == SUBSET Positions

\* (q >> lo) & mask, for a mask of w ones.
Slice(q, lo, w) == {i - lo : i \in q \cap (lo .. lo + w - 1)}

\* (q & ~(mask << lo)) | ((v & mask) << lo).
Insert(q, lo, w, v) ==
    (q \ (lo .. lo + w - 1)) \cup {i + lo : i \in v \cap (0 .. w - 1)}

\* The same when the code forgets to mask v: its other bits spill over.
InsertAll(q, lo, w, v) ==
    (q \ (lo .. lo + w - 1)) \cup ({i + lo : i \in v} \cap Positions)

\* A field as the number it stands for, and a number as the bits of a field.
Number[b \in Quadlet] ==
    IF b = {} THEN 0 ELSE LET i == CHOOSE i \in b : TRUE IN 2^i + Number[b \ {i}]
Bits(n)   == {i \in 0 .. 30 : (n \div 2^i) % 2 = 1}
Field(q, lo, w) == Number[Slice(q, lo, w)]

\* One bit, set or cleared.
Assign(q, i, on) == IF on THEN q \cup {i} ELSE q \ {i}

\* The m-th to the n-th answer, as far as they are there.
Answers(h, m, n) == SubSeq(h, m, IF n < Len(h) THEN n ELSE Len(h))

-----------------------------------------------------------------------------
(* What a call does next: instead is empty where a failure ends the call.  *)

Read(r)     == [do |-> "read",  reg |-> r, instead |-> {}]
Write(r, q) == [do |-> "write", reg |-> r, data |-> q, ignored |-> FALSE]
Return(out) == [do |-> "return", status |-> "SUCCESS", out |-> out]
Refuse(err) == [do |-> "return", status |-> err, out |-> <<>>]

\* A read whose failure the code ignores: it goes on with what the variable
\* holds then, one of the quadlets of held.
TryRead(r, held) == [do |-> "read", reg |-> r, instead |-> held]
TryWrite(r, q) == [do |-> "write", reg |-> r, data |-> q, ignored |-> TRUE]

\* A read made again until its answer, the n-th of the call, pleases; and a
\* block of n quadlets moved, which its answer repeats.
Poll(r, n)     == [do |-> "poll", reg |-> r, at |-> n]
Transfer(r, n) == [do |-> "transfer", reg |-> r, quads |-> Bits(n)]

\* Read one register and return out, computed from it.
Get(h, r, out) == IF h = <<>> THEN Read(r) ELSE Return(out)

\* Write one register whatever it holds.
Set(h, r, q) == IF h = <<>> THEN Write(r, q) ELSE Return(<<>>)

\* Read a register and, if changes, write q, computed from what was read.
Modify(h, r, changes, q) ==
    IF h = <<>> THEN Read(r)
    ELSE IF Len(h) = 1 /\ changes THEN Write(r, q) ELSE Return(<<>>)
=============================================================================
