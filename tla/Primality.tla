----------------------------- MODULE Primality -----------------------------
(***************************************************************************)
(* The primality test of uv_prime_server.c, with the arithmetic of its     *)
(* uint64_t: products wrap around.                                         *)
(***************************************************************************)
EXTENDS Integers

CONSTANT Root         \* 2^32: half of the bits of a uint64_t

ASSUME RootAssumption == Root \in Nat /\ Root >= 4 /\ Root % 2 = 0

Width == Root * Root
Unsigned == 0..(Width - 1)

(* Mutant: the square of a prime passes.                                   *)
isprime_Strict(n) ==
  IF n % 2 = 0 THEN n = 2
  ELSE LET stops == {r \in 3..(n + 2) : r % 2 = 1 /\ ((r * r) % Width >= n \/ n % r = 0)}
           last == CHOOSE r \in stops : \A q \in stops : r <= q
       IN  (last * last) % Width >= n

(* The odd r from 3 on are tried until r * r exceeds n or r divides it,    *)
(* which n itself does at the latest; the last one decides.                *)
isprime(n) ==
  IF n % 2 = 0 THEN n = 2
  ELSE LET stops == {r \in 3..(n + 2) : r % 2 = 1 /\ ((r * r) % Width > n \/ n % r = 0)}
           last == CHOOSE r \in stops : \A q \in stops : r <= q
       IN  (last * last) % Width > n

(* Reference.                                                              *)
Prime(n) == n > 1 /\ \A d \in 2..(n - 1) : n % d # 0

(* The numbers the test is exact for: up to the square of the largest r    *)
(* whose square does not wrap, and without 1, which it takes for a prime.  *)
Exact == 2..((Root - 1) * (Root - 1) - 1)
=============================================================================
