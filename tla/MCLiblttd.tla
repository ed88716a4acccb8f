----------------------------- MODULE MCLiblttd -----------------------------
(* Model values and bounds for checking Liblttd with TLC.                  *)
EXTENDS Liblttd

\* Engine runs: two normal per-CPU rings, both present at start.
MCRings       == {"cpu0", "cpu1"}
MCFlightRings == {}

\* Hot-plug runs: a normal ring present at start and a flight ring that
\* appears when its CPU comes online.
MCHotRings       == {"cpu0", "flight-cpu1"}
MCHotInitRings   == {"cpu0"}
MCHotFlightRings == {"flight-cpu1"}
====
