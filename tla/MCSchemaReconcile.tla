-------------------------- MODULE MCSchemaReconcile ---------------------------
(* Types for model checking SchemaReconcile: two that are stored alike, one *)
(* with more digits than Delta has, and one the type engine does not map.   *)
EXTENDS SchemaReconcile

MCPgTypes == {Type(Plain("character varying"), 0), Type(Plain("uuid"), 0),
              Type(Element("numeric", <<45, 40>>), 1), Type(Plain("xml"), 0)}
=============================================================================
