---------------------------- MODULE MCLoraCodec ----------------------------
(* Small instances of LoraCodec for TLC.                                   *)
EXTENDS LoraCodec

(* The tables of lib/tables.h, as far as a block of seven words needs them.*)
MCPrngCr56 == << 0..7, 0..7, WordOf(45), 0..7, WordOf(120), 0..7, WordOf(48) >>
MCPrngCr78 == << 0..7, 0..7, WordOf(45), 0..7, WordOf(120), 0..7, WordOf(225) >>

(* lround(bin / 4) leaves room for two bins below and one above.           *)
MCBinErrors == -2..1

MCGarbage == { {}, {0, 1, 2} }

(* Data in which every nibble occurs somewhere.                            *)
Counting(n, first) == [i \in 1..n |-> WordOf((first + 3 * i) % 16)]

Sent(sf, kind, cr, reduced, words) ==
    {[sf |-> sf, kind |-> kind, cr |-> cr, reduced_rate |-> reduced,
      data |-> Counting(words, first)] : first \in {0, 5}}

MCBlocks ==
    UNION {Sent(7, "header", cr, FALSE, 5) \cup Sent(6, "first", cr, FALSE, 4)
              \cup Sent(7, "payload", cr, TRUE, 5)
              \cup Sent(6, "payload", cr, FALSE, 6) : cr \in 1..4}

MCHeaders == Sent(7, "header", 1, FALSE, 5)
=============================================================================
