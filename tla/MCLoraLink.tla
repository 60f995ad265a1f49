----------------------------- MODULE MCLoraLink -----------------------------
(* Small instances of LoraLink for TLC.                                    *)
EXTENDS LoraLink

Cfg(sf, implicit, reduced, fine_sync) ==
    [sf |-> sf, cr |-> 1, has_mac_crc |-> 1, implicit |-> implicit,
     reduced_rate |-> reduced, enable_fine_sync |-> fine_sync]

Hdr(length, crc, cr) == [length |-> length, has_mac_crc |-> crc, cr |-> cr]

Sent(begin, h) == [begin |-> begin, whole |-> TRUE, header |-> h]
Broken(begin)  == [begin |-> begin, whole |-> FALSE, header |-> Hdr(0, 0, 1)]

CONSTANT Gap    \* silence between two packets, in samples, but for its phase

MCConfigs == {Cfg(7, FALSE, FALSE, FALSE), Cfg(9, FALSE, TRUE, TRUE),
              Cfg(7, TRUE, FALSE, FALSE)}
MCHeaders == {Hdr(0, 0, 1), Hdr(4, 0, 1), Hdr(4, 0, 4)}

Phases == {0, 3, 7}

(* Two packets, or a preamble without a packet before one, the second at   *)
(* several phases of the decoder's windows.                                *)
HeadersFor(c) == {h \in MCHeaders : c.implicit => h.cr = c.cr}

TransmissionsFor(c) ==
    {[conf |-> c,
      bursts |-> <<b, Sent(b.begin + Duration(c, b) + Gap + q, h)>>] :
        b \in {Sent(5, g) : g \in HeadersFor(c)} \cup {Broken(5)},
        q \in Phases, h \in HeadersFor(c)}

MCTransmissions == UNION {TransmissionsFor(c) : c \in MCConfigs}
MCStreamLength  == [c \in MCConfigs |-> 1000]

(* The longest packet there is: spreading factor 12, 255 bytes, checksum.  *)
MCLongConfigs       == {Cfg(12, FALSE, FALSE, FALSE)}
MCLongHeaders       == {Hdr(255, 1, 1)}
MCLongStreamLength  == [c \in MCLongConfigs |-> 2000]
MCLongTransmissions ==
    {[conf |-> c, bursts |-> <<Sent(5, h)>>] :
        c \in MCLongConfigs, h \in MCLongHeaders}
=============================================================================
