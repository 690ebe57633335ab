-------------------------- MODULE ContextRefinement --------------------------
(***************************************************************************)
(* class context implements the universal machine: the refinement mapping, *)
(* and the restriction under which it does.                                *)
(*                                                                         *)
(* A platter that native code serves by itself is one step here and one    *)
(* step of the universal machine.  A platter that returns a request is     *)
(* several steps: the universal machine takes its own when run() handles   *)
(* the request, so the mapped finger stays on the platter until then, and  *)
(* a value that is still in eax is already in its register.                *)
(***************************************************************************)
EXTENDS Context

\* The finger of the universal machine, from the instruction pointer or the
\* return address.  A return address at the first byte of a platter was left
\* by the platter before.
mappedFinger ==
  IF returned = NotReturned
  THEN IF resumeAt.offset = 0 THEN resumeAt.platter ELSE resumeAt.platter + 1
  ELSE IF resumeAt.offset = 0 THEN resumeAt.platter - 1 ELSE resumeAt.platter

\* The register eax is about to be stored to.
Destination == IF decode(Cell).op = allocation THEN B ELSE C

mappedRegisters ==
  IF Executing /\ resumeAt.offset # 0
  THEN [registers EXCEPT ![Destination] = eaxValue]
  ELSE registers

mappedStatus ==
  IF \/ status \in {"invalidArrayIndex", "undefined", "trapped"}
     \/ 0 \notin DOMAIN arrays
  THEN "failed"
  ELSE IF status = "constructed" THEN "running" ELSE status

\* The universal machine sees the platters of an array and nothing else of it.
mappedArrays == [i \in DOMAIN arrays |-> arrays[i].platters]

ZeroArrays == {s.platters : s \in Scrolls}

UM == INSTANCE UniversalMachine WITH
        Programs  <- ZeroArrays,
        Indices   <- 0 .. MaxArrays - 1,
        registers <- mappedRegisters,
        arrays    <- mappedArrays,
        finger    <- mappedFinger,
        status    <- mappedStatus

-----------------------------------------------------------------------------
\* The code does not implement the machine after it has given the code of array 0
\* back to a source that differs, or when it restarts before the platter whose stub
\* was hit, which it does for the last one: see the properties GivenBackUnmodified
\* and RecompileRestartsSamePlatter.  These two steps are left out, and no other.
RestartsEarlier == Requested("recompile") /\ resumeAt.platter = arrays[0].size - 1

SafeLoadProgram == RunLoadProgram /\ ~StaleGiveBack
SafeRecompile   == RunRecompile /\ ~RestartsEarlier

SafeNext ==
  \/ Run \/ Native
  \/ RunHalt \/ RunAllocation
  \/ RunAbandonment \/ AbandonmentThrows \/ AbandonmentOfNull
  \/ RunOutput \/ RunInput
  \/ SafeLoadProgram \/ LoadProgramThrows
  \/ SafeRecompile

SafeSpec == Init /\ [][SafeNext]_vars

\* Every behaviour of context::run without those two steps is one of the
\* universal machine: native code, its patching, its moves between arrays
\* and the requests served in between are invisible.
ImplementsUniversalMachine == UM!Spec
=============================================================================
