--------------------------- MODULE SecretSharing ---------------------------
(***************************************************************************)
(* The recovery kit of a network: its code split into shares, of which a   *)
(* threshold restores it (networks/recovery/shamir.js, recovery_kit.js).   *)
(* The sharing works byte by byte, so one byte of the code is followed,    *)
(* with the field of 256 elements as shamir.js computes it from tables.    *)
(* What is typed in is a set of shares of this network, each one read      *)
(* correctly: a share with a wrong checksum or of another network is       *)
(* refused before (share_codec.js).                                        *)
(***************************************************************************)
EXTENDS Naturals, FiniteSets, Sequences, SequencesExt, Bitwise

CONSTANTS Byte,        \* values a byte of the code and of its noise may have
          MaxShares    \* shares of a kit (12, a bound)

ASSUME SharingAssumption == Byte \subseteq 1..255 /\ MaxShares \in 2..12

VARIABLES code,        \* a byte of the code of the network
          threshold,   \* shares that restore it
          shares,      \* per index from 1: the share handed out; empty before
          restored     \* what combine made of the shares typed in last, or Nothing

sharingVars == <<code, threshold, shares, restored>>
Nothing == 256

SharingTypeOK ==
  /\ code \in Byte /\ threshold \in 2..MaxShares
  /\ shares \in Seq(0..255) /\ Len(shares) <= MaxShares
  /\ restored \in [from : SUBSET (1..MaxShares), value : 0..Nothing]

SharingInit ==
  /\ code \in Byte /\ threshold \in 2..MaxShares
  /\ shares = <<>>
  /\ restored = [from |-> {}, value |-> Nothing]

-----------------------------------------------------------------------------
\* The tables: the powers of the generator 3 modulo the polynomial 0x11b, by
\* single steps of the loop up to the sixteenth and by sixteen steps from there.
Tripled == [v \in 0..255 |-> LET w == v ^^ ((2 * v) % 256)
                             IN  IF v >= 128 THEN w ^^ 27 ELSE w]
Twice(f) == [v \in 0..255 |-> f[f[v]]]
Sixteen == Twice(Twice(Twice(Twice(Tripled))))
EXP[i \in 1..255] == IF i = 1 THEN 1
                     ELSE IF i <= 16 THEN Tripled[EXP[i - 1]] ELSE Sixteen[EXP[i - 16]]

LOG == [v \in 1..255 |-> CHOOSE i \in 1..255 : EXP[i] = v]

\* The sequences start at 1, so a sum of two logarithms is one too large.
Power(i) == EXP[1 + (i % 255)]
Mul(a, b) == IF a = 0 \/ b = 0 THEN 0 ELSE Power((LOG[a] - 1) + (LOG[b] - 1))
Div(a, b) == IF a = 0 THEN 0 ELSE Power((LOG[a] - 1) + 255 - (LOG[b] - 1))

\* _evaluate: the polynomial at x, its highest coefficient first.
Evaluate(coefficients, x) ==
  FoldRight(LAMBDA c, result : Mul(result, x) ^^ c, coefficients, 0)

\* Mutant: the last coefficient may be 0.
NoiseOrZero(t) == {q \in [1..t -> Byte \cup {0}] : q[1] = code}

\* The coefficients: the byte, then noise, of which the last is never 0.
Noise(t) == {q \in [1..t -> Byte \cup {0}] : q[1] = code /\ q[t] # 0}

\* split
CreateKit(total) ==
  /\ shares = <<>> /\ threshold <= total
  /\ \E q \in Noise(threshold) : shares' = [i \in 1..total |-> Evaluate(q, i)]
  /\ UNCHANGED <<code, threshold, restored>>

\* combine: the value at 0 of the polynomial through the points of S.
Lagrange(S, i) ==
  LET others == SetToSeq(S \ {i})
  IN  Div(FoldLeft(LAMBDA p, j : Mul(p, j), 1, others),
          FoldLeft(LAMBDA p, j : Mul(p, i ^^ j), 1, others))

Combine(S) ==
  FoldLeft(LAMBDA sum, i : sum ^^ Mul(Lagrange(S, i), shares[i]), 0, SetToSeq(S))

\* restore: repeated shares count once, and at least two are asked for.
Restore(S) ==
  /\ S \subseteq DOMAIN shares /\ Cardinality(S) >= 2
  /\ restored' = [from |-> S, value |-> Combine(S)]
  /\ UNCHANGED <<code, threshold, shares>>

SharingNext == \/ \E total \in 2..MaxShares : CreateKit(total)
               \/ \E S \in SUBSET (1..MaxShares) : Restore(S)

SharingSpec == SharingInit /\ [][SharingNext]_sharingVars

-----------------------------------------------------------------------------
\* Any threshold of the shares, or more, restores the code; one share fewer
\* never does, whatever the noise was, for its last coefficient is not 0.
SharesRestore ==
  LET n == Cardinality(restored.from)
  IN  /\ n >= threshold => restored.value = code
      /\ n = threshold - 1 /\ n > 0 => restored.value # code
=============================================================================
