--------------------------- MODULE MCSchemaBuilder ---------------------------
EXTENDS SchemaBuilder
=============================================================================
