--------------------------- MODULE MCLoraDecoder ---------------------------
(* Small instances of LoraDecoder for TLC.                                 *)
EXTENDS LoraDecoder

Cfg(sf, implicit, reduced, fine) ==
    [sf |-> sf, cr |-> 4, has_mac_crc |-> 1, implicit |-> implicit,
     reduced_rate |-> reduced, enable_fine_sync |-> fine]

Hdr(length, crc, cr) == [length |-> length, has_mac_crc |-> crc, cr |-> cr]

(* With a header: plain, and at the reduced rate.                          *)
MCExplicitConfigs == {Cfg(7, FALSE, FALSE, FALSE), Cfg(8, FALSE, TRUE, FALSE)}

(* Without a header, with drift correction, and the spreading factor whose *)
(* first block is too short for a header.                                  *)
MCMixedConfigs == {Cfg(6, TRUE, FALSE, FALSE), Cfg(7, TRUE, TRUE, TRUE),
                   Cfg(7, FALSE, FALSE, TRUE), Cfg(6, FALSE, FALSE, FALSE)}

MCAllConfigs == MCExplicitConfigs \cup MCMixedConfigs

(* Long enough for two frames where nothing drifts, and for one where the  *)
(* windows do.                                                             *)
MCStreamLength ==
    [c \in MCAllConfigs |-> IF c \in MCExplicitConfigs THEN 240
                            ELSE IF c.implicit THEN 200 ELSE 152]

MCExplicitHeaders == {Hdr(0, 0, 1), Hdr(1, 0, 1), Hdr(1, 1, 2), Hdr(0, 1, 7)}
MCOneHeader       == {Hdr(1, 0, 1)}

(* Headers of which one has no coding rate.                                *)
MCNoCrHeaders    == {Hdr(1, 0, 0), Hdr(1, 0, 1)}
MCExplicitLength == [c \in MCExplicitConfigs |-> 288]

(* A payload whose two words came with the header.                         *)
MCShortConfigs == {Cfg(9, FALSE, FALSE, FALSE)}
MCShortLength  == [c \in MCShortConfigs |-> 200]

MCSf6Configs == {Cfg(6, FALSE, FALSE, FALSE)}
MCSf6Length  == [c \in MCSf6Configs |-> 200]
=============================================================================
