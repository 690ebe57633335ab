-------------------------- MODULE MCContextFailures --------------------------
(***************************************************************************)
(* The boot programs of MCContext on a machine that may run out of memory. *)
(***************************************************************************)
EXTENDS ContextFailures, MCContext

\* The loader leaves Load(2) in register 3.
FailureScrolls == { Scroll(BootLoader(BootSize) \o BootVocabulary) } \union SmallScrolls
=============================================================================
