-------------------------- MODULE MCTileSerializer --------------------------
(***************************************************************************)
(* Instances of TileSerializer for TLC.                                    *)
(***************************************************************************)
EXTENDS TileSerializer

\* One file per tile or per building, any identifiers, and features that fail
\* before their line or in it. Metadata and terrain are both written, or
\* neither.
OutputFiles ==
  {c \in AllConfigs : /\ c.omit_metadata = (c.id_attribute = "int")
                      /\ c.terrain = (c.id_attribute # "int")
                      /\ c.faults \in {{"row", "object"}, AllFaults}}

=============================================================================
