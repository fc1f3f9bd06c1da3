--------------------------- MODULE MCWriteOperations ---------------------------
(***************************************************************************)
(* Small instances of WriteOperations.                                     *)
(***************************************************************************)
EXTENDS WriteOperations

\* Without legacy ids, and with one encoded id that decodes to another.
NoLegacy  == Empty
OneLegacy == "enc" :> "dec"

\* Registry objects of the namespaces whose handlers differ.
LegacyTemplates == {<<"legacy_template", "t">>}
OtherObjects    == {<<"component_template", "t">>, <<"script", "s">>}
=============================================================================
