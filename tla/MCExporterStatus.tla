-------------------------- MODULE MCExporterStatus --------------------------
(* Instances of ExporterStatus for TLC.                                    *)
EXTENDS ExporterStatus, TLC

=============================================================================
