------------------------------- MODULE Xxh64 -------------------------------
(***************************************************************************)
(* The streaming XXH64 of xxhash.c, behind sump's default digest: bytes    *)
(* come in pieces of any length, whole stripes go into the four lanes, and *)
(* what is left waits in a buffer of one stripe.                           *)
(*                                                                         *)
(* The arithmetic is left out.  The lanes are the bytes they have mixed in *)
(* and whether they started from the seed's values, and a hash is what its *)
(* computation reads: the lanes if it folds them, the length and the tail. *)
(* The rounds and the final mix are the same code in the streaming and the *)
(* one-shot version, so they agree when they read the same.                *)
(***************************************************************************)
EXTENDS Integers, Sequences

CONSTANTS
  STRIPE,   \* bytes of a stripe: 32 in the code
  MaxPiece, \* the longest piece given to one update
  MaxLen    \* the most bytes given in all, over every reset

ASSUME StripeAssumption == STRIPE \in Nat \ {0}
ASSUME PieceAssumption  == MaxPiece \in Nat
ASSUME LengthAssumption == MaxLen \in Nat

VARIABLES
  seeded,    \* v1 to v4 started from the seed
  lanes,     \* the bytes v1 to v4 have mixed in
  mem,       \* mem64, as a function; 0 is a byte of no input
  memsize,
  total_len,
  fed        \* bytes given to the state since it was allocated

vars == <<seeded, lanes, mem, memsize, total_len, fed>>

(* Byte number i of all that were ever given is i, so that the bytes of    *)
(* two uses of one state differ.                                           *)
Piece(first, n) == [i \in 1..n |-> first + i - 1]

(* XXH64_createState, with the luck of zeroed memory.                      *)
Init ==
  /\ seeded = FALSE
  /\ lanes = << >>
  /\ mem = [i \in 1..STRIPE |-> 0]
  /\ memsize = 0
  /\ total_len = 0
  /\ fed = 0

(* XXH64_reset.                                                            *)
Reset ==
  /\ seeded' = TRUE
  /\ lanes' = << >>
  /\ mem' = [i \in 1..STRIPE |-> 0]
  /\ memsize' = 0
  /\ total_len' = 0
  /\ UNCHANGED fed

(* XXH_memcpy of bytes into mem64, after the first `at` bytes.             *)
Copied(bytes, at) ==
  [i \in 1..STRIPE |->
     IF at < i /\ i <= at + Len(bytes) THEN bytes[i - at] ELSE mem[i]]

(* An update that leaves the stripe in mem64 incomplete.                   *)
Buffer(p) ==
  /\ memsize + Len(p) < STRIPE
  /\ mem' = Copied(p, memsize)
  /\ memsize' = memsize + Len(p)
  /\ UNCHANGED lanes

(* Slip: a whole stripe left over waits in mem64 (p < limit).              *)
MixLeavingStripe(p) ==
  /\ memsize + Len(p) >= STRIPE
  /\ LET fill  == IF memsize > 0 THEN STRIPE - memsize ELSE 0
         left  == Len(p) - fill
         whole == IF left = 0 THEN 0 ELSE ((left - 1) \div STRIPE) * STRIPE
         rest  == SubSeq(p, fill + whole + 1, Len(p))
         first == SubSeq(p, 1, fill)
     IN  /\ lanes' = lanes \o SubSeq(mem, 1, memsize) \o SubSeq(p, 1, fill + whole)
         /\ mem' = [i \in 1..STRIPE |->
                      IF i <= Len(rest) THEN rest[i] ELSE Copied(first, memsize)[i]]
         /\ memsize' = Len(rest)

(* Slip: the buffered bytes are not taken out of mem64 once mixed.         *)
MixKeepingBuffer(p) ==
  /\ memsize + Len(p) >= STRIPE
  /\ LET fill  == IF memsize > 0 THEN STRIPE - memsize ELSE 0
         whole == ((Len(p) - fill) \div STRIPE) * STRIPE
         rest  == SubSeq(p, fill + whole + 1, Len(p))
     IN  /\ lanes' = lanes \o SubSeq(mem, 1, memsize) \o SubSeq(p, 1, fill + whole)
         /\ mem' = Copied(rest, memsize)
         /\ memsize' = memsize + Len(rest)

(* An update that completes it: it is mixed in, after it whole stripes     *)
(* straight from the input, and the rest is buffered.                      *)
Mix(p) ==
  /\ memsize + Len(p) >= STRIPE
  /\ LET fill  == IF memsize > 0 THEN STRIPE - memsize ELSE 0
         whole == ((Len(p) - fill) \div STRIPE) * STRIPE
         rest  == SubSeq(p, fill + whole + 1, Len(p))
         first == SubSeq(p, 1, fill)
     IN  /\ lanes' = lanes \o SubSeq(mem, 1, memsize) \o SubSeq(p, 1, fill + whole)
         /\ mem' = [i \in 1..STRIPE |->
                      IF i <= Len(rest) THEN rest[i] ELSE Copied(first, memsize)[i]]
         /\ memsize' = Len(rest)

(* XXH64_update with a piece of n bytes.  (With NULL it does nothing.)     *)
Update(n) ==
  /\ fed + n <= MaxLen
  /\ LET p == Piece(fed + 1, n) IN Buffer(p) \/ Mix(p)
  /\ total_len' = total_len + n
  /\ fed' = fed + n
  /\ UNCHANGED seeded

Next == Reset \/ \E n \in 0..MaxPiece : Update(n)

Spec == Init /\ [][Next]_vars

-----------------------------------------------------------------------------
(* What a hash is computed from.  A short input's starts from v3, which is *)
(* the seed, and the seed is 0.                                            *)
Hash(started, mixed, length, tail) ==
  IF length >= STRIPE
  THEN [lanes |-> <<started, mixed>>, length |-> length, tail |-> tail]
  ELSE [lanes |-> << >>, length |-> length, tail |-> tail]

XXH64_digest == Hash(seeded, lanes, total_len, SubSeq(mem, 1, memsize))

(* XXH64 of a byte string in one piece.                                    *)
XXH64(bytes) ==
  LET n == Len(bytes)
      whole == (n \div STRIPE) * STRIPE
  IN  Hash(TRUE, SubSeq(bytes, 1, whole), n, SubSeq(bytes, whole + 1, n))

TypeOK ==
  /\ seeded \in BOOLEAN
  /\ lanes \in Seq(1..fed)
  /\ mem \in [1..STRIPE -> 0..fed]
  /\ memsize \in 0..(STRIPE - 1)
  /\ total_len \in 0..fed
  /\ fed \in 0..MaxLen

(* However an input is cut into pieces, and whatever the state was used    *)
(* for before its reset, the streaming hash is that of the input in one    *)
(* piece.  Without a reset it still is for inputs of less than a stripe,   *)
(* and for no others: that is the luck Digests' finalize grants an xxh     *)
(* digest (XXH64_update and XXH64_digest, xxhash.c lines 767-885).         *)
StreamIsOneShot ==
  XXH64_digest = XXH64(Piece(fed - total_len + 1, total_len))
    <=> (seeded \/ total_len < STRIPE)
=============================================================================
