---------------------------- MODULE MCMemoryCache ----------------------------
(* MemoryCache with three keys and room for two items. *)
EXTENDS MemoryCache
=============================================================================
