------------------------------ MODULE SeqMemory ------------------------------
(* What the memory of a llama_context promises to the sequences that use    *)
(* it, whatever the cells behind it: each sequence has tokens at positions, *)
(* an operation on one sequence changes no other, and a token is forgotten  *)
(* on its own only when the attention window hides it from every token that *)
(* may follow.  KVCache implements this (KVCache!Implements).               *)
EXTENDS Integers, FiniteSets

CONSTANT Seqs

VARIABLES
    n_swa,      \* the attention window, fixed; 0: every token is seen
    mem         \* what each sequence remembers: tokens [pos, tok]

vars == <<n_swa, mem>>

Top(s) == IF mem[s] = {} THEN -1
          ELSE CHOOSE p \in {x.pos : x \in mem[s]} : \A x \in mem[s] : x.pos <= p

Hidden(p, q) == n_swa > 0 /\ q - p >= n_swa

Init == n_swa \in Nat /\ mem = [s \in Seqs |-> {}]

(* A decode: tokens of some sequences (tok: the sequence that wrote it)     *)
(* follow their last ones, all or none, and hidden tokens may be dropped.   *)
Extend ==
    \A s \in Seqs :
        LET new  == mem'[s] \ mem[s]
            gone == mem[s] \ mem'[s]
        IN  /\ \A x \in new : x.tok = s
            /\ {x.pos : x \in new} = (Top(s) + 1) .. (Top(s) + Cardinality(new))
            /\ \A x \in gone : Hidden(x.pos, Top(s) + 1)

(* A sequence forgets its tokens from position p on.                        *)
Truncate(s, p) == mem' = [mem EXCEPT ![s] = {x \in @ : x.pos < p}]

(* The tokens from position b on, and before c, follow those before a; the  *)
(* others are forgotten.                                                    *)
Slide(s, a, b, c) ==
    mem' = [mem EXCEPT ![s] = {x \in @ : x.pos < a} \cup
                              {[x EXCEPT !.pos = @ - (b - a)] : x \in {y \in @ : y.pos \in b .. (c - 1)}}]

Copy(s, d) == mem' = [mem EXCEPT ![d] = mem[s]]

Clear == mem' = [s \in Seqs |-> {}]

Next ==
  /\ UNCHANGED n_swa
  /\ \/ Extend
     \/ \E s \in Seqs : \E p \in 0 .. Top(s) : Truncate(s, p)
     \/ \E s \in Seqs : \E a \in 0 .. Top(s), b \in 0 .. Top(s), c \in 0 .. (Top(s) + 1) :
            a < b /\ b < c /\ Slide(s, a, b, c)
     \/ \E s, d \in Seqs : s # d /\ Copy(s, d)
     \/ Clear

Spec == Init /\ [][Next]_vars

=============================================================================
