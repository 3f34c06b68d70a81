--------------------------- MODULE MCEzstreamHistory ---------------------------
(* EzstreamHistory for TLC, with the settings of MCEzstream.                    *)
EXTENDS EzstreamHistory, MCEzstream
================================================================================
