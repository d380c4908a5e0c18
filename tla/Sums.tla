-------------------------------- MODULE Sums --------------------------------
(***************************************************************************)
(* Sums and powers, one term at a time, as the loops of the code           *)
(* accumulate them (domain-ports: tuning.rs; dsp: node-pitch-yin,          *)
(* node-vibrato).                                                          *)
(***************************************************************************)
EXTENDS Integers

(* The first k values of a function of 1..n, added up. *)
SumTo(f, k) ==
    LET sum[i \in 0..k] == IF i = 0 THEN 0 ELSE sum[i - 1] + f[i]
    IN sum[k]

(* The k-th power of a number. *)
Power(b, k) ==
    LET power[i \in 0..k] == IF i = 0 THEN 1 ELSE b * power[i - 1]
    IN power[k]
=============================================================================
