-------------------------- MODULE WindowConfigProof -------------------------
(***************************************************************************)
(* Facts about configuration words, for the proofs about the modules that  *)
(* use them.                                                               *)
(***************************************************************************)
EXTENDS WindowConfig, TLAPS

\* A size_t that is not too large is not changed by the reduction modulo 2^64.
LEMMA ModSmall ==
  ASSUME NEW n \in Nat, NEW x \in Nat, x < n
  PROVE  x % n = x
  BY Z3

\* Both halves of a configuration word are half-words.
LEMMA WordParts ==
  \A c \in Nat : /\ window_base(c) \in Nat /\ window_base(c) < 65536
                 /\ window_size(c) \in Nat /\ window_size(c) < 65536
<1>1. \A n \in Int : n % 65536 \in Nat /\ n % 65536 < 65536
  OBVIOUS
<1>2. \A n \in Int : n \div 65536 \in Int
  OBVIOUS
<1> QED
  BY <1>1, <1>2 DEF window_base, window_size, Half

\* Packing the two halves of a 32-bit word gives the word back.
LEMMA WordRoundTrip ==
  \A c \in Nat : c \div Half < Half =>
    ulWindowConfig(window_base(c), window_size(c)) = c
<1> SUFFICES ASSUME NEW c \in Nat, c \div 65536 < 65536
             PROVE  ulWindowConfig(window_base(c), window_size(c)) = c
  BY DEF Half
<1> DEFINE h == c \div 65536
           l == c % 65536
<1>1. h \in Nat /\ h < 65536 /\ l \in Nat /\ l < 65536 /\ c = h * 65536 + l
  OBVIOUS
<1> HIDE DEF h, l
<1>2. h % 65536 = h /\ l % 65536 = l
  BY <1>1
<1>3. window_base(c) = l /\ window_size(c) = h
  BY <1>2 DEF window_base, window_size, Half, h, l
<1> QED
  BY <1>1, <1>2, <1>3 DEF ulWindowConfig, Half

\* Packing gives a word.
LEMMA PackedType ==
  \A b, s \in Nat : ulWindowConfig(b, s) \in Nat
<1>1. \A n \in Nat : n % 65536 \in Nat
  OBVIOUS
<1> QED
  BY <1>1 DEF ulWindowConfig, Half

\* The word 0 has base 0 and size 0.
LEMMA ZeroWord == window_base(0) = 0 /\ window_size(0) = 0
  BY DEF window_base, window_size, Half
=============================================================================
