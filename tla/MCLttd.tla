------------------------------ MODULE MCLttd --------------------------------
(* A trace tree for checking Lttd with TLC: the root holds a metadata ring *)
(* file and two channel directories; cpu0 of the first channel exists at  *)
(* start, and cpu1 of both channels appears when CPU 1 comes online.  The  *)
(* second channel is a flight-recorder channel.                            *)
EXTENDS Lttd

MCDirs   == {"ltt", "chan", "flight"}
MCRings  == {"metadata", "chan/cpu0", "chan/cpu1", "flight/flight-cpu1"}
MCParent == [x \in {"chan", "flight"} \cup MCRings |->
               CASE x \in {"chan", "flight", "metadata"} -> "ltt"
                 [] x \in {"chan/cpu0", "chan/cpu1"} -> "chan"
                 [] OTHER -> "flight"]
MCInitRings == {"metadata", "chan/cpu0"}
MCFlightRings == {"flight/flight-cpu1"}
====
