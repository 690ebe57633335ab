--------------------------- MODULE UniversalMachine ---------------------------
(***************************************************************************)
(* What class context promises: the universal machine as an interpreter.   *)
(*                                                                         *)
(* There is no native code, no request and no vector here.  Each step      *)
(* fetches the platter under the execution finger from array 0 itself, so  *)
(* that a platter array 0 has amended is executed as amended, and every    *)
(* operator is atomic.  A step the machine defines no outcome for (an      *)
(* access outside an allocated array, a division by zero, a load from or   *)
(* the abandonment of an array that is not there) fails: it leaves the     *)
(* status "failed" and promises nothing about anything else.               *)
(*                                                                         *)
(* An array is the function from its offsets to its platters.              *)
(***************************************************************************)
EXTENDS Platter, Sequences, Functions

CONSTANTS
  Programs,  \* the platters array 0 may start with
  Chars,     \* the characters the input may deliver
  Indices    \* the indices an allocation may return

VARIABLES
  registers,  \* the eight registers
  arrays,     \* the allocated arrays
  finger,     \* the execution finger: offset in array 0 of the next platter
  eof,        \* the input has reached its end
  os,         \* the characters output so far
  status      \* "running", or how the machine stopped

vars == << registers, arrays, finger, eof, os, status >>

Init ==
  /\ registers = [i \in Register |-> 0]
  /\ arrays \in [{0} -> Programs]
  /\ finger = 0
  /\ eof = FALSE /\ os = << >>
  /\ status = "running"

Running   == status = "running"
Fetchable == Running /\ finger \in DOMAIN arrays[0]

Fetched == decode(arrays[0][finger])
Does(op) == Fetchable /\ Fetched.op = op

a == Fetched.A
b == Fetched.B
c == Fetched.C

Assign(r, v) ==
  /\ registers' = [registers EXCEPT ![r] = v]
  /\ finger' = finger + 1
  /\ UNCHANGED << arrays, eof, os, status >>

Ends(outcome) ==
  /\ status' = outcome
  /\ UNCHANGED << registers, arrays, finger, eof, os >>

Allocated(i, j) == i \in DOMAIN arrays /\ j \in DOMAIN arrays[i]

ConditionalMove ==
  /\ Does(conditionalMove)
  /\ Assign(a, IF registers[c] # 0 THEN registers[b] ELSE registers[a])

ArrayIndex ==
  /\ Does(arrayIndex)
  /\ Allocated(registers[b], registers[c])
  /\ Assign(a, arrays[registers[b]][registers[c]])

ArrayAmendment ==
  /\ Does(arrayAmendment)
  /\ Allocated(registers[a], registers[b])
  /\ arrays' = [arrays EXCEPT ![registers[a]][registers[b]] = registers[c]]
  /\ finger' = finger + 1
  /\ UNCHANGED << registers, eof, os, status >>

Arithmetic ==
  \/ Does(addition)       /\ Assign(a, WordSum(registers[b], registers[c]))
  \/ Does(multiplication) /\ Assign(a, Product(registers[b], registers[c]))
  \/ /\ Does(division) /\ registers[c] # 0
     /\ Assign(a, Quotient(registers[b], registers[c]))
  \/ /\ Does(notAnd)
     /\ \E x \in Word : IsNotAnd(x, registers[b], registers[c]) /\ Assign(a, x)

Halt == Does(halt) /\ Ends("halted")

InvalidOperator ==
  /\ \E op \in invalidOperators : Does(op)
  /\ Ends("invalidOperator")

OutOfBoundExecution ==
  /\ Running
  /\ finger \notin DOMAIN arrays[0]
  /\ Ends("outOfBoundExecution")

\* Any index that is not zero and names no active array may be returned.
Allocation ==
  /\ Does(allocation)
  /\ \E i \in Indices \ ({0} \union DOMAIN arrays) :
       /\ registers' = [registers EXCEPT ![b] = i]
       /\ arrays' = [k \in DOMAIN arrays \union {i} |->
                       IF k = i THEN [j \in 0 .. registers[c] - 1 |-> 0]
                                ELSE arrays[k]]
  /\ finger' = finger + 1
  /\ UNCHANGED << eof, os, status >>

Abandonment ==
  /\ Does(abandonment)
  /\ registers[c] \in DOMAIN arrays \ {0}
  /\ arrays' = Restrict(arrays, DOMAIN arrays \ {registers[c]})
  /\ finger' = finger + 1
  /\ UNCHANGED << registers, eof, os, status >>

Output ==
  /\ Does(output)
  /\ os' = Append(os, registers[c] % 256)
  /\ finger' = finger + 1
  /\ UNCHANGED << registers, arrays, eof, status >>

Input ==
  /\ Does(input)
  /\ \/ \E char \in Chars :
          /\ ~eof
          /\ registers' = [registers EXCEPT ![c] = char]
          /\ UNCHANGED eof
     \/ /\ registers' = [registers EXCEPT ![c] = AllOnes]
        /\ eof' = TRUE
  /\ finger' = finger + 1
  /\ UNCHANGED << arrays, os, status >>

LoadProgram ==
  /\ Does(loadProgram)
  /\ Allocated(registers[b], registers[c])
  /\ arrays' = [arrays EXCEPT ![0] = arrays[registers[b]]]
  /\ finger' = registers[c]
  /\ UNCHANGED << registers, eof, os, status >>

Orthography ==
  /\ Does(orthography)
  /\ Assign(a, Fetched.value)

Undefined ==
  \/ Does(arrayIndex)     /\ ~Allocated(registers[b], registers[c])
  \/ Does(arrayAmendment) /\ ~Allocated(registers[a], registers[b])
  \/ Does(division)       /\ registers[c] = 0
  \/ Does(abandonment)    /\ registers[c] \notin DOMAIN arrays \ {0}
  \/ Does(loadProgram)    /\ ~Allocated(registers[b], registers[c])

Fail == Undefined /\ status' = "failed"

\* Nothing is promised of a machine that has failed, except that it stays so.
Failed == status = "failed" /\ status' = "failed"

Next ==
  \/ ConditionalMove \/ ArrayIndex \/ ArrayAmendment \/ Arithmetic
  \/ Halt \/ InvalidOperator \/ OutOfBoundExecution
  \/ Allocation \/ Abandonment \/ Output \/ Input
  \/ LoadProgram \/ Orthography
  \/ Fail \/ Failed

Spec == Init /\ [][Next]_vars
=============================================================================
